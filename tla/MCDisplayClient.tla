-------------------------- MODULE MCDisplayClient --------------------------
(***************************************************************************)
(* Module DisplayClient for TLC: a local socket and a local port that may  *)
(* want a password; two receivers, one advertised on two nets; a Kitty     *)
(* terminal behind a tmux that forwards everything.                        *)
(***************************************************************************)
EXTENDS DisplayClient

CONSTANTS sock, port, alpha, beta, given, jpeg, torn

SomeLocal == <<sock, port>>
SomeNames == <<alpha, beta>>
SomeAds == {[net |-> 1, name |-> alpha], [net |-> 2, name |-> alpha], [net |-> 1, name |-> beta]}
InTmux ==
  {[tmux |-> TRUE, sty |-> FALSE, term |-> "screen", names |-> "none", probe |-> "yes",
    forced |-> "auto", allow |-> "all"]}
=============================================================================
