------------------------------ MODULE MCPlayer ------------------------------
(* Small instances of Player for TLC. *)
EXTENDS Player

\* Stamps either side of the boundary 6, the last one of a re-sent epoch.
MCSeqOf == <<5, 6, 7, 5>>
MCSeqOf3 == <<5, 6, 5>>
MCSeqOf2 == <<6, 7>>

NoFlush    == {}
FlushSome  == {{6}}
FlushMixed == {{}, {6}}
=============================================================================
