---------------------------- MODULE MCNowPlaying ----------------------------
(* Small instances of NowPlaying for TLC. *)
EXTENDS NowPlaying

CONSTANTS v1, v2
=============================================================================
