-------------------------- MODULE MCControlChannel --------------------------
(***************************************************************************)
(* Module Pairing for TLC: a sender that knows the password and one that   *)
(* does not, and room for one of them at a time.                           *)
(***************************************************************************)
EXTENDS Pairing

TwoConns == {"guest", "stranger"}
Guest == {"guest"}
Few == [c \in TwoConns |-> IF c = "guest" THEN 4 ELSE 3]
SomeKinds == [c \in TwoConns |->
  IF c = "guest" THEN {"m1", "m1 persistent", "m3", "session"}
  ELSE {"info", "bad", "garbled", "m1", "m3", "session"}]
=============================================================================
