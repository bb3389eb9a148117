----------------------------- MODULE MCTakeover -----------------------------
(* Small instances of Takeover for TLC. *)
EXTENDS Takeover, TLC

CONSTANTS c1, c2, c3

TwoConns   == {c1, c2}
ThreeConns == {c1, c2, c3}

\* Connections are interchangeable; used by the runs without liveness.
Symmetry == Permutations(Conns)
=============================================================================
