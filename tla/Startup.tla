------------------------------- MODULE Startup -------------------------------
(***************************************************************************)
(* Receiver processes that start, serve, stop and crash on one machine     *)
(* (openairplay2-receiver/src/main.rs, tui.rs bind_socket;                 *)
(* openairplay2/src/identity.rs, receiver.rs), and what they share: the    *)
(* identity file, the display socket's path, the ports and the audio       *)
(* device.  A step is one call that another process can see.               *)
(*                                                                         *)
(* Processes here run for one user, with one identity file and one socket  *)
(* path, in a directory they may write; the kernel frees a dead process's  *)
(* ports, never its files.                                                 *)
(***************************************************************************)
EXTENDS Integers, FiniteSets, Options

CONSTANTS
  Procs,     \* processes there may be at one time
  Settings,  \* [line, env]: how they may be started
  Nobody, Stale, \* no file at the socket's path; one nobody listens on
  MaxStarts  \* bound: processes started

ASSUME StartupAssumption ==
  IsFiniteSet(Procs) /\ Nobody \notin Procs /\ Stale \notin Procs \union {Nobody} /\ MaxStarts \in Nat

VARIABLES
  pc,       \* where a process is in main; "off" when there is none
  options,  \* its options
  id,       \* the identity it loaded or made, 0 for none
  bound,    \* it holds a listener on the socket's path (bound_socket)
  held,     \* the ports and the device it holds
  code,     \* how the last process exited: a code, Signal or Running
  file,     \* the identity file: an identity, 0 if malformed, -1 if absent
  socket,   \* whose listener the socket's path leads to
  made,     \* identities generated
  starts,   \* bound
  served,   \* history: identities senders have seen
  raced,    \* history: a first run began inside another
  alone,    \* history: no other process was there since this one started
  last      \* history: who cleared the socket's path last, the last starter

vars == <<pc, options, id, bound, held, code, file, socket, made, starts,
          served, raced, alone, last>>
history == <<served, raced, alone, last>>

Running == -1  \* of a process that has not exited
Signal == -2   \* and of one that a signal ended
Config == 78   \* EXIT_CONFIG

Init ==
  /\ pc = [p \in Procs |-> "off"]
  /\ options = [p \in Procs |-> NothingGiven]
  /\ id = [p \in Procs |-> 0] /\ bound = [p \in Procs |-> FALSE]
  /\ held = [p \in Procs |-> {}] /\ code = [p \in Procs |-> Running]
  /\ file = -1 /\ socket = Nobody /\ made = 0 /\ starts = 0
  /\ served = {} /\ raced = FALSE /\ alone = [p \in Procs |-> FALSE] /\ last = Nobody

-----------------------------------------------------------------------------
Goto(p, place) == pc' = [pc EXCEPT ![p] = place]

\* The process is gone, and with it what the kernel holds for it.
Exit(p, c) ==
  /\ Goto(p, "off")
  /\ code' = [code EXCEPT ![p] = c]
  /\ id' = [id EXCEPT ![p] = 0] /\ bound' = [bound EXCEPT ![p] = FALSE]
  /\ held' = [held EXCEPT ![p] = {}]
  /\ socket' = IF socket = p THEN Stale ELSE socket
  /\ options' = [options EXCEPT ![p] = NothingGiven]
  /\ UNCHANGED <<file, made, starts, history>>

\* parse, resolve and mixer_config, before anything is touched.
Start(p) ==
  /\ pc[p] = "off" /\ starts < MaxStarts
  /\ starts' = starts + 1
  /\ \E s \in Settings :
       LET o == Resolve(Parse(s.line), s.env)
           refused == UsageError(s.line) \/ ConfigError(o)
       IN  /\ code' = [code EXCEPT ![p] = CASE UsageError(s.line) -> 2
                                            [] ~ UsageError(s.line) /\ refused -> Config
                                            [] OTHER -> Running]
           /\ IF refused THEN UNCHANGED <<pc, alone, options>>
              ELSE /\ Goto(p, "load") /\ options' = [options EXCEPT ![p] = o]
                   /\ alone' = [q \in Procs |-> q = p /\ \A r \in Procs : pc[r] = "off"]
  /\ UNCHANGED <<id, bound, held, file, socket, made, served, raced, last>>

\* A signal without a handler, or a panic.
Crash(p) == pc[p] # "off" /\ Exit(p, Signal)

-----------------------------------------------------------------------------
\* Identity::load_or_create and write_private.

FirstRuns == {p \in Procs : pc[p] \in {"open", "write"}}

\* Read the file, or generate an identity.
Load(p) ==
  /\ pc[p] = "load"
  /\ \/ /\ file > 0 /\ Goto(p, "devices")
        /\ id' = [id EXCEPT ![p] = file]
        /\ UNCHANGED <<made, raced>>
     \/ /\ file = -1 /\ Goto(p, "open")
        /\ made' = made + 1 /\ id' = [id EXCEPT ![p] = made + 1]
        /\ raced' = (raced \/ FirstRuns # {})
  /\ UNCHANGED <<options, bound, held, code, file, socket, starts, served, alone, last>>

LoadMalformed(p) == pc[p] = "load" /\ file = 0 /\ Exit(p, Config)

\* The file is created or truncated, and then written.
OpenFile(p) ==
  /\ pc[p] = "open" /\ Goto(p, "write") /\ file' = 0
  /\ UNCHANGED <<options, id, bound, held, code, socket, made, starts, history>>

WriteFile(p) ==
  /\ pc[p] = "write" /\ Goto(p, "devices") /\ file' = id[p]
  /\ UNCHANGED <<options, id, bound, held, code, socket, made, starts, history>>

\* Mutant of FileFails: an identity that could not be stored is used anyway.
FileFailsUnseen(p) ==
  /\ pc[p] \in {"open", "write"} /\ Goto(p, "devices")
  /\ UNCHANGED <<options, id, bound, held, code, file, socket, made, starts, history>>

\* No such directory may be made, no space left.
FileFails(p) == pc[p] \in {"open", "write"} /\ Exit(p, Config)

-----------------------------------------------------------------------------
\* main, from the devices to the listeners.

Free(r) == \A q \in Procs : r \notin held[q]
Hold(p, r) == held' = [held EXCEPT ![p] = @ \union {r}]

\* The device is probed and held from here on; a busy one only warns.
Devices(p) ==
  /\ pc[p] = "devices" /\ Goto(p, "unlink")
  /\ IF Plays(options[p]) /\ Free("pcm") THEN Hold(p, "pcm") ELSE UNCHANGED held
  /\ UNCHANGED <<options, id, bound, code, file, socket, made, starts, history>>

\* A device or a mixer control there is not.
NoDevice(p) ==
  /\ pc[p] = "devices" /\ (Plays(options[p]) \/ DrivesMixer(options[p]))
  /\ Exit(p, Config)

\* Mutant of Unlink: what is at the path stays there.
UnlinkNever(p) ==
  /\ pc[p] = "unlink" /\ Goto(p, IF HasSocket(options[p]) THEN "bind" ELSE "listen")
  /\ UNCHANGED <<options, id, bound, held, code, file, socket, made, starts, history>>

\* bind_socket: whatever is at the path goes ...
Unlink(p) ==
  /\ pc[p] = "unlink"
  /\ IF HasSocket(options[p]) THEN socket' = Nobody /\ last' = p /\ Goto(p, "bind")
     ELSE UNCHANGED <<socket, last>> /\ Goto(p, "listen")
  /\ UNCHANGED <<options, id, bound, held, code, file, made, starts, served, raced, alone>>

\* ... and the listener takes its place, unless another was faster.
Bind(p) ==
  /\ pc[p] = "bind" /\ Goto(p, "listen")
  /\ \/ /\ socket = Nobody /\ socket' = p
        /\ bound' = [bound EXCEPT ![p] = TRUE]
     \/ /\ socket # Nobody /\ ~ SocketIsExplicit(options[p])
        /\ UNCHANGED <<socket, bound>>
  /\ UNCHANGED <<options, id, held, code, file, made, starts, history>>

BindFails(p) ==
  /\ pc[p] = "bind" /\ socket # Nobody /\ SocketIsExplicit(options[p])
  /\ Exit(p, Config)

\* The displays' TCP endpoint.
Listen(p) ==
  /\ pc[p] = "listen" /\ Goto(p, "run")
  /\ IF Listens(options[p])
     THEN Free(options[p]["listen"]) /\ Hold(p, options[p]["listen"])
     ELSE UNCHANGED held
  /\ UNCHANGED <<options, id, bound, code, file, socket, made, starts, history>>

\* An address in use ends the process there, its socket file left behind.
ListenFails(p) ==
  /\ pc[p] = "listen" /\ Listens(options[p]) /\ ~ Free(options[p]["listen"])
  /\ Exit(p, Config)

\* Receiver::run: the control port.
Run(p) ==
  /\ pc[p] = "run"
  /\ IF Free(Port(options[p]))
     THEN /\ Goto(p, "serving") /\ Hold(p, Port(options[p]))
          /\ served' = served \union {id[p]}
          /\ UNCHANGED code
     ELSE /\ Goto(p, "clean") /\ code' = [code EXCEPT ![p] = Config]
          /\ UNCHANGED <<held, served>>
  /\ UNCHANGED <<options, id, bound, file, socket, made, starts, raced, alone, last>>

\* SIGTERM or Ctrl-C, or the listener fails.
Shutdown(p) ==
  /\ pc[p] = "serving" /\ Goto(p, "clean")
  /\ \E c \in {0, 1} : code' = [code EXCEPT ![p] = c]
  /\ UNCHANGED <<options, id, bound, held, file, socket, made, starts, history>>

\* The path is removed, whoever's socket is there by now, and main returns.
Clean(p) ==
  /\ pc[p] = "clean" /\ Goto(p, "off")
  /\ socket' = IF bound[p] THEN Nobody ELSE socket
  /\ id' = [id EXCEPT ![p] = 0] /\ bound' = [bound EXCEPT ![p] = FALSE]
  /\ held' = [held EXCEPT ![p] = {}] /\ options' = [options EXCEPT ![p] = NothingGiven]
  /\ UNCHANGED <<code, file, made, starts, history>>

-----------------------------------------------------------------------------
Main(p) ==
  \/ Start(p) \/ Crash(p)
  \/ Load(p) \/ LoadMalformed(p) \/ OpenFile(p) \/ WriteFile(p) \/ FileFails(p)
  \/ Devices(p) \/ NoDevice(p)
  \/ Unlink(p) \/ Bind(p) \/ BindFails(p) \/ Listen(p) \/ ListenFails(p)
  \/ Run(p) \/ Shutdown(p) \/ Clean(p)

Next == \E p \in Procs : Main(p)

Spec == Init /\ [][Next]_vars

-----------------------------------------------------------------------------
\* Senders remember a receiver by its key: whatever crashes, fails or is
\* started again at any point, no receiver serves under a second identity, unless
\* two first runs met.  When they do, in whatever order they truncate, write and
\* fail, there are never more identities than processes at one time: once a file
\* was there, even a malformed one, no start makes another identity.
IdentityStable == Cardinality(served) <= IF raced THEN Cardinality(Procs) ELSE 1

\* A receiver that met no other one since it started serves at the socket's
\* path, whatever a crash before it left there.
AloneIsReached ==
  \A p \in Procs :
    pc[p] = "serving" /\ alone[p] /\ HasSocket(options[p]) => bound[p] /\ socket = p

\* tui.rs, bind_socket: "last starter wins": the receiver that took the
\* socket's path last, and serves, is the one displays find there.
LastStarterWins ==
  \A p \in Procs : last = p /\ pc[p] = "serving" /\ bound[p] => socket = p
=============================================================================
