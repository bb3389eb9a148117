------------------------------- MODULE Options -------------------------------
(***************************************************************************)
(* The receiver program's options (openairplay2-receiver/src/main.rs): the *)
(* command line, what the environment adds, and what follows from both.    *)
(*                                                                         *)
(* A command line is a sequence of [flag, value]; an environment gives     *)
(* each field's variable, Unset when it is missing or empty.  Bad is any   *)
(* value a validator rejects.  Names and log levels are not followed.      *)
(***************************************************************************)
EXTENDS SequencesExt

Unset == "unset"
Bad == "bad"

Fields == {"port", "mac", "identity", "avahi", "audio", "device", "mixer",
           "mixerDevice", "password", "pincode", "socket", "listen", "tuiPassword"}
Checked == {"port", "mac", "avahi", "audio"} \* the fields with a validator

NothingGiven == [f \in Fields |-> Unset]

\* parse, for one flag.  The last one wins; a device turns audio back on.
Flag(o, w) ==
  CASE w.flag = "no-avahi" -> [o EXCEPT !["avahi"] = "off"]
    [] w.flag = "no-audio" -> [o EXCEPT !["audio"] = "off"]
    [] w.flag = "device" -> [o EXCEPT !["device"] = w.value, !["audio"] = "on"]
    [] w.flag = "pincode" -> [o EXCEPT !["password"] = w.value]
    [] OTHER -> [o EXCEPT ![w.flag] = w.value]

Parse(line) == FoldLeft(Flag, NothingGiven, line)

\* A usage error: exit code 2.
UsageError(line) ==
  \E i \in DOMAIN line : line[i].flag \in {"port", "mac"} /\ line[i].value = Bad

\* resolve: a flag wins over its variable, the old pincode variable comes last.
Resolve(o, env) ==
  LET filled == [f \in Fields |-> IF o[f] # Unset THEN o[f] ELSE env[f]]
  IN  [filled EXCEPT !["password"] = IF @ # Unset THEN @ ELSE env["pincode"]]

\* mixer_config refuses a mixer device without a control.
ConfigError(o) ==
  \/ \E f \in Checked : o[f] = Bad
  \/ o["mixer"] = Unset /\ o["mixerDevice"] # Unset

Plays(o) == o["audio"] # "off"                     \* effective_device
DrivesMixer(o) == o["mixer"] # Unset               \* mixer_config
HasSocket(o) == o["socket"] # "off"                \* tui_socket_path
SocketIsExplicit(o) == o["socket"] \notin {Unset, "off"}
Listens(o) == o["listen"] # Unset
Port(o) == IF o["port"] = Unset THEN "7000" ELSE o["port"]
=============================================================================
