---------------------------- MODULE MCHostAudio ----------------------------
(***************************************************************************)
(* Module HostAudio for TLC: a ring of three frames, writes and fades of   *)
(* two, and a control of three steps.                                      *)
(***************************************************************************)
EXTENDS HostAudio

Mute == -144
Floor == -30
SomeVolumes == {-144, -30, -15}
=============================================================================
