------------------------------ MODULE Pairing ------------------------------
(***************************************************************************)
(* The control channel together with the arithmetic and the coding of its  *)
(* pairing messages: ControlChannel decides by Verifies whether a sender's *)
(* M3 is accepted, and passes responses whole; Srp and Tlv are what the    *)
(* code computes there.                                                    *)
(***************************************************************************)
EXTENDS ControlChannel, Srp, Tlv

\* What ControlChannel's Verifies abstracts is what srp.rs computes: whatever
\* numbers an exchange and the sender in it choose, the right password is
\* accepted with a key both ends share, and with a wrong one the keys differ for
\* some choice of the ends.  A public value of 0 modulo the prime is not chosen.
SrpAgrees ==
  \A c \in Conns :
    rx[c].exchange > 0 => IF c \in Knowing THEN SameSecret ELSE SecretsDiffer

\* A pairing response on its way is read as the items it was made of
\* (tlv.rs), whatever their lengths.
TlvRoundTrips ==
  \A c \in Conns : \A i \in 1..Len(down[c]) :
    down[c][i].status \in {"m2", "m4"} => RoundTrips
=============================================================================
