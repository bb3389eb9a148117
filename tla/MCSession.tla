----------------------------- MODULE MCSession -----------------------------
(***************************************************************************)
(* Module Session for TLC: timestamps of three bits, two frames a second.  *)
(***************************************************************************)
EXTENDS Session

\* Two tracks that follow each other, the second across the wrap.
TwoTracks == {[start |-> 1, end |-> 4], [start |-> 6, end |-> 1]}
SomeTimes == {0, 2, 4, 7}
SomeVolumes == {-3, 1}
Mute == -2
=============================================================================
