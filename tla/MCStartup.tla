----------------------------- MODULE MCStartup -----------------------------
(***************************************************************************)
(* Module Startup for TLC: two processes at a time, started by the options *)
(* file, by hand with a display port, or with an option that is refused.   *)
(***************************************************************************)
EXTENDS Startup

CONSTANTS p1, p2

Flags(line) == [line |-> line, env |-> NothingGiven]

SomeSettings == {
  Flags(<<>>),
  Flags(<<[flag |-> "no-audio", value |-> Unset], [flag |-> "socket", value |-> "path"],
          [flag |-> "listen", value |-> "loopback"]>>),
  [line |-> <<[flag |-> "pincode", value |-> "1234"], [flag |-> "device", value |-> "hw"]>>,
   env |-> [NothingGiven EXCEPT !["port"] = "7001", !["mixer"] = "Master"]],
  [line |-> <<>>, env |-> [NothingGiven EXCEPT !["mixerDevice"] = "hw"]],
  Flags(<<[flag |-> "port", value |-> Bad], [flag |-> "no-avahi", value |-> Unset]>>)}

Symmetry == Permutations({p1, p2})
=============================================================================
