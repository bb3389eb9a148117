-------------------------- MODULE TerminalGraphics --------------------------
(***************************************************************************)
(* What the terminal can draw (openairplay2-tui/src/images.rs, main.rs):   *)
(* the protocol from the probe, the environment and --images, what a       *)
(* multiplexer leaves of it, and which escapes tmux lets through.          *)
(*                                                                         *)
(* An environment is a record: tmux and sty, are $TMUX and $STY set; term, *)
(* what TERM begins with; names, the protocol that TERM, TERM_PROGRAM and  *)
(* the terminals' own variables point to; probe, the answer to the Kitty   *)
(* query; forced, the --images argument; allow, tmux's allow-passthrough.  *)
(* Only Kitty pictures are followed further: an iTerm2 picture is part of  *)
(* the text and goes with it.                                              *)
(***************************************************************************)

Multiplexer(env) ==
  CASE env.tmux -> "tmux"
    [] ~ env.tmux /\ env.sty -> "screen"
    [] OTHER -> IF env.term \in {"tmux", "screen"} THEN env.term ELSE "none"

\* detect: a terminal that answered is believed first.
Detect(env) == IF env.probe = "yes" THEN "kitty" ELSE env.names

\* in_multiplexer: tmux forwards wrapped escapes, screen none.
Supported(protocol, mux) == IF mux = "screen" THEN "none" ELSE protocol

\* Passthrough: when do our escapes reach the terminal?
Passing(env) ==
  IF Multiplexer(env) # "tmux" THEN "all"
  ELSE CASE env.allow = "all" -> "all"
         [] env.allow = "on" -> "visible"
         [] OTHER -> "never"

\* main: the detected or forced protocol; a tmux that forwards nothing leaves
\* text only, unless the protocol was forced.
Started(env) ==
  LET mux == Multiplexer(env)
      protocol == Supported(IF env.forced = "auto" THEN Detect(env) ELSE env.forced, mux)
      silent == mux = "tmux" /\ env.allow = "off" /\ env.forced = "auto"
  IN  [draws |-> protocol # "none" /\ ~ silent,
       tmux |-> mux = "tmux",
       passes |-> Passing(env)]
=============================================================================
