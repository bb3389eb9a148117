-------------------------- MODULE MCBufferedStream --------------------------
(* Small instances of BufferedStream for TLC. *)
EXTENDS BufferedStream

Seeks == {{}, {2}, {3}}
=============================================================================
