------------------------------ MODULE Session ------------------------------
(***************************************************************************)
(* One control connection's session (openairplay2/src/session.rs): SETUP,  *)
(* transport control, what the sender says about the track, TEARDOWN and   *)
(* the drop, with the position reports of its playback threads (Position   *)
(* in openairplay2/src/player.rs) and the events a host receives.          *)
(*                                                                         *)
(* A flush's boundary and its effect on the audio are modules              *)
(* BufferedStream and Player; the slot and its guard are module Takeover.  *)
(* Times are in frames: a duration is a frame count over a fixed rate.     *)
(***************************************************************************)
EXTENDS Integers

CONSTANTS
  Values,    \* payloads of metadata and artwork
  Nothing,   \* no payload, track, second or report
  Width,     \* RTP timestamps are taken modulo Width (2^32)
  Rate,      \* frames per second of the display's clock (44100)
  Tracks,    \* the extents a `progress:' line may name
  Times,     \* timestamps of packets and of a progress line's `current'
  Volumes,   \* numbers a `volume:' line may carry
  MuteDb, FullDb, \* the range AirPlay uses (-144, 0)
  MaxCalls,  \* bound: requests handled
  MaxStreams \* bound: buffered streams started

ASSUME SessionAssumption ==
  /\ Width \in Nat \ {0} /\ Rate \in Nat \ {0}
  /\ Tracks \subseteq [start : 0..(Width - 1), end : 0..(Width - 1)]
  /\ Times \subseteq 0..(Width - 1)
  /\ Volumes \subseteq Int /\ MuteDb \in Int /\ FullDb \in Int /\ MuteDb <= FullDb
  /\ MaxCalls \in Nat /\ MaxStreams \in Nat
  /\ Nothing \notin Values \cup Tracks \cup Nat
  /\ Nothing \notin [elapsed : Nat, length : Nat, of : Tracks]

Threads == 1..MaxStreams
None == 0
Kinds == {"metadata", "artwork"}
Reports == [elapsed : Nat, length : Nat, of : Tracks]
Thread == [at : {"none", "recv", "next", "chunk", "played", "send", "done"},
           paused : BOOLEAN,        \* the gate
           stop : BOOLEAN,          \* the stop flag
           cut : BOOLEAN,           \* `interrupted'
           reported : Nat \cup {Nothing}, \* Position.reported
           report : Reports \cup {Nothing}] \* the Progress about to be sent

VARIABLES
  pc,      \* the session's task
  calls,   \* requests handled
  tasks,   \* tasks spawned for channels and readers
  active,  \* session_active
  pending, \* pending_metadata, pending_artwork
  volume,  \* the volume that answers GET_PARAMETER
  track,   \* the TrackAnchor
  player,  \* the current thread, the latest one started
  thread,  \* the playback threads
  host,    \* what a host that folds the events shows
  last,    \* the last event sent
  told,    \* history: the last metadata and artwork since the last end
  after    \* history: reports of each thread since its gate was closed

vars == <<pc, calls, tasks, active, pending, volume, track, player, thread, host,
          last, told, after>>
control == <<pc, calls, tasks>>
audio == <<player, thread, after>>
events == <<host, last, told>>

Idle == [at |-> "none", paused |-> FALSE, stop |-> FALSE, cut |-> FALSE,
         reported |-> Nothing, report |-> Nothing]
Dark == [open |-> FALSE, paused |-> FALSE, shown |-> Nothing,
         metadata |-> Nothing, artwork |-> Nothing]
Silence == [k \in Kinds |-> Nothing]
Event(t, v) == [type |-> t, val |-> v]

Init ==
  /\ pc = "serving" /\ calls = 0 /\ tasks = 0
  /\ active = FALSE /\ pending = Silence /\ volume = 0 /\ track = Nothing
  /\ player = None /\ thread = [t \in Threads |-> Idle]
  /\ host = Dark /\ last = Event("none", 0)
  /\ told = Silence /\ after = [t \in Threads |-> 0]

-----------------------------------------------------------------------------
\* RTP arithmetic.

\* extent: how far ts is into the track, by wrapping subtraction; a timestamp
\* outside it has no position.
Played(k, ts) == (ts - k.start) % Width
Total(k) == (k.end - k.start) % Width
Inside(k, ts) == Played(k, ts) <= Total(k)

\* set_progress: saturating subtraction.
Past(a, b) == IF b > a THEN b - a ELSE 0

\* sanitize_volume, of a finite number.
Clamp(v) == IF v < MuteDb THEN MuteDb ELSE IF v > FullDb THEN FullDb ELSE v

-----------------------------------------------------------------------------
\* Sending an event, and what the host makes of it (the protocol's Snapshot).
Hear(e) ==
  CASE e.type = "started" -> [host EXCEPT !.open = TRUE, !.paused = FALSE]
    [] e.type = "metadata" -> [host EXCEPT !.metadata = e.val]
    [] e.type = "artwork" -> [host EXCEPT !.artwork = e.val]
    [] e.type \in {"paused", "resumed"} -> [host EXCEPT !.paused = e.type = "paused"]
    [] e.type = "ended" -> Dark
    [] OTHER -> host

Send(e) == last' = e /\ host' = Hear(e)
Show(r) == last' = Event("progress", 0) /\ host' = [host EXCEPT !.shown = r]
SendNothing == UNCHANGED <<host, last>>

\* One more request, answered by the time the next is read.
Call(next) ==
  /\ pc = "serving" /\ calls < MaxCalls
  /\ pc' = next /\ calls' = calls + 1

-----------------------------------------------------------------------------
\* SETUP.

\* The tasks a SETUP leaves behind to accept the sender and drain what it sends
\* there; they touch nothing else.
Channels == 0..2

\* Phase 1, a realtime stream, or a buffered one whose key or format is
\* unusable: channels are bound, and nothing plays.  A malformed body or a
\* failed bind may come before any of that.
SetupChannels(n) ==
  /\ Call("serving")
  /\ tasks' = tasks + n
  /\ UNCHANGED <<active, pending, volume, track, audio, events>>

\* start_buffered_audio: SessionStarted ...
StartStream ==
  /\ player < MaxStreams
  /\ Call("replaying")
  /\ active' = TRUE
  /\ Send(Event("started", 0))
  /\ UNCHANGED <<tasks, pending, volume, track, audio, told>>

\* Mutant of Replay: what was latched is sent and kept.
ReplayKeeps(k) ==
  /\ pc = "replaying" /\ pending[k] # Nothing
  /\ k = "artwork" => pending["metadata"] = Nothing
  /\ Send(Event(k, pending[k]))
  /\ pc' = "spawning"
  /\ UNCHANGED <<calls, tasks, active, pending, volume, track, audio, told>>

\* ... then what was latched before the session, metadata first ...
Replay(k) ==
  /\ pc = "replaying" /\ pending[k] # Nothing
  /\ k = "artwork" => pending["metadata"] = Nothing
  /\ Send(Event(k, pending[k]))
  /\ pending' = [pending EXCEPT ![k] = Nothing]
  /\ UNCHANGED <<control, active, volume, track, audio, told>>

\* ... the host's sink, and a new timeline ...
ClearTrack ==
  /\ pc = "replaying" /\ pending = Silence
  /\ pc' = "spawning"
  /\ track' = Nothing
  /\ UNCHANGED <<calls, tasks, active, pending, volume, audio, events>>

\* Mutant of Spawn: the new player takes over the gate.
SpawnGated ==
  /\ pc = "spawning"
  /\ player' = player + 1
  /\ thread' = [t \in Threads |->
       IF t = player + 1 THEN [Idle EXCEPT !.at = "recv",
                               !.paused = player # None /\ thread[player].paused]
       ELSE [thread[t] EXCEPT !.stop = t <= player]]
  /\ pc' = IF player = None THEN "serving" ELSE "joining"
  /\ tasks' = tasks + 2
  /\ UNCHANGED <<calls, active, pending, volume, track, after, events>>

\* ... the new player, control of it, and the drop of the one before, which
\* raises its stop flag and waits for it.
Spawn ==
  /\ pc = "spawning"
  /\ player' = player + 1
  /\ thread' = [t \in Threads |->
       IF t = player + 1 THEN [Idle EXCEPT !.at = "recv"]
       ELSE [thread[t] EXCEPT !.stop = t <= player]]
  /\ pc' = IF player = None THEN "serving" ELSE "joining"
  /\ tasks' = tasks + 2
  /\ UNCHANGED <<calls, active, pending, volume, track, after, events>>

Joined ==
  /\ pc = "joining"
  /\ \A t \in Threads : t < player => thread[t].at = "done"
  /\ pc' = "serving"
  /\ UNCHANGED <<calls, tasks, active, pending, volume, track, audio, events>>

-----------------------------------------------------------------------------
\* Transport control.

\* SETRATEANCHORTIME whose body parses; one that does not changes nothing.
SetRateAnchor(paused) ==
  /\ Call("serving")
  /\ thread' = [t \in Threads |-> IF t = player THEN [thread[t] EXCEPT !.paused = paused]
                                  ELSE thread[t]]
  /\ after' = [t \in Threads |-> IF t = player /\ ~ thread[t].paused THEN 0 ELSE after[t]]
  /\ Send(Event(IF paused THEN "paused" ELSE "resumed", 0))
  /\ UNCHANGED <<tasks, active, pending, volume, track, player, told>>

\* FLUSHBUFFERED, as the host sees it.
Flush ==
  /\ Call("serving")
  /\ Send(Event("flushed", 0))
  /\ UNCHANGED <<tasks, active, pending, volume, track, audio, told>>

\* A `volume:' line; one that is not finite does not move the knob.
SetVolume(v) ==
  /\ Call("serving")
  /\ volume' = Clamp(v)
  /\ Send(Event("volume", Clamp(v)))
  /\ UNCHANGED <<tasks, active, pending, track, audio, told>>

\* A `progress:' line: the anchor, and the sender's own idea of the position.
SetProgress(k, current) ==
  /\ Call("serving")
  /\ track' = k
  /\ IF active
     THEN Show([elapsed |-> Past(k.start, current), length |-> Past(k.start, k.end),
                of |-> k])
     ELSE SendNothing
  /\ UNCHANGED <<tasks, active, pending, volume, audio, told>>

\* set_metadata, set_artwork and send_session_event.
Describe(k, v) ==
  /\ Call("serving")
  /\ told' = [told EXCEPT ![k] = v]
  /\ IF active
     THEN Send(Event(k, v)) /\ UNCHANGED pending
     ELSE SendNothing /\ pending' = [pending EXCEPT ![k] = v]
  /\ UNCHANGED <<tasks, active, volume, track, audio>>

\* GET_PARAMETER, an unparsable body, RECORD and the other methods that are
\* only acknowledged.
Acknowledge ==
  /\ Call("serving")
  /\ UNCHANGED <<tasks, active, pending, volume, track, audio, events>>

-----------------------------------------------------------------------------
\* The end.

EndSession ==
  /\ active' = FALSE
  /\ IF active THEN Send(Event("ended", 0)) /\ told' = Silence
     ELSE SendNothing /\ UNCHANGED told

Teardown ==
  /\ Call("serving")
  /\ EndSession
  /\ UNCHANGED <<tasks, pending, volume, track, audio>>

\* Mutant of Drop: the end is left to TEARDOWN.
DropSilently ==
  /\ pc = "serving"
  /\ pc' = "dropping" /\ tasks' = 0
  /\ thread' = [t \in Threads |-> [thread[t] EXCEPT !.stop = t <= player]]
  /\ UNCHANGED <<calls, active, pending, volume, track, player, after, events>>

\* The connection closed: SessionEnded, the tasks aborted, the player dropped.
Drop ==
  /\ pc = "serving"
  /\ pc' = "dropping" /\ tasks' = 0
  /\ EndSession
  /\ thread' = [t \in Threads |-> [thread[t] EXCEPT !.stop = t <= player]]
  /\ UNCHANGED <<calls, pending, volume, track, player, after>>

Dropped ==
  /\ pc = "dropping"
  /\ \A t \in Threads : thread[t].at \in {"none", "done"}
  /\ pc' = "dropped"
  /\ UNCHANGED <<calls, tasks, active, pending, volume, track, audio, events>>

-----------------------------------------------------------------------------
\* A playback thread, as far as its position reports go.

Move(t, from, r) == thread[t].at = from /\ thread' = [thread EXCEPT ![t] = r]
session == <<control, active, pending, volume, track, player, told>>

\* The top of run's loop; a stopped thread ends here.
Wake(t) ==
  /\ \/ /\ thread[t].stop
        /\ Move(t, "recv", [thread[t] EXCEPT !.at = "done"])
     \/ /\ ~ thread[t].stop /\ ~ thread[t].paused
        /\ Move(t, "recv", [thread[t] EXCEPT !.at = "next"])
  /\ UNCHANGED <<session, host, last, after>>

\* A packet is taken, or there is none left.
Take(t) ==
  /\ \E to \in {"chunk", "recv"} : Move(t, "next", [thread[t] EXCEPT !.at = to])
  /\ UNCHANGED <<session, host, last, after>>

\* After its last written chunk the flags are looked at.
Look(t) ==
  /\ Move(t, "chunk", [thread[t] EXCEPT !.at = IF thread[t].stop THEN "done" ELSE "played",
                                        !.cut = thread[t].paused])
  /\ UNCHANGED <<session, host, last, after>>

\* Mutant of Rest: the flags seen inside the packet are forgotten after it.
RestNever(t) == "next"

Rest(t) == IF thread[t].cut THEN "recv" ELSE "next"

\* Mutant of NotePosition: the second is compared and not kept.
NotePositionUnkept(t, ts) ==
  /\ IF \/ track = Nothing \/ ~ Inside(track, ts)
        \/ thread[t].reported = Played(track, ts) \div Rate
     THEN Move(t, "played", [thread[t] EXCEPT !.at = Rest(t)])
     ELSE Move(t, "played",
            [thread[t] EXCEPT !.at = "send",
                              !.report = [elapsed |-> Played(track, ts),
                                          length |-> Total(track), of |-> track]])
  /\ UNCHANGED <<session, host, last, after>>

\* Position::played up to the send: the track is read under its lock, and the
\* second compared with the one reported last.
NotePosition(t, ts) ==
  /\ IF \/ track = Nothing \/ ~ Inside(track, ts)
        \/ thread[t].reported = Played(track, ts) \div Rate
     THEN Move(t, "played", [thread[t] EXCEPT !.at = Rest(t)])
     ELSE Move(t, "played",
            [thread[t] EXCEPT !.at = "send",
                              !.reported = Played(track, ts) \div Rate,
                              !.report = [elapsed |-> Played(track, ts),
                                          length |-> Total(track), of |-> track]])
  /\ UNCHANGED <<session, host, last, after>>

\* The lock is gone by the time the event is sent.
Report(t) ==
  /\ Move(t, "send", [thread[t] EXCEPT !.at = Rest(t), !.report = Nothing])
  /\ Show(thread[t].report)
  /\ after' = [after EXCEPT ![t] = IF thread[t].paused THEN @ + 1 ELSE @]
  /\ UNCHANGED session

-----------------------------------------------------------------------------
Handle ==
  \/ \E n \in Channels : SetupChannels(n)
  \/ StartStream \/ \E k \in Kinds : Replay(k)
  \/ ClearTrack \/ Spawn \/ Joined
  \/ \E p \in BOOLEAN : SetRateAnchor(p)
  \/ Flush \/ Acknowledge
  \/ \E v \in Volumes : SetVolume(v)
  \/ \E k \in Tracks, c \in Times : SetProgress(k, c)
  \/ \E k \in Kinds, v \in Values : Describe(k, v)
  \/ Teardown \/ Drop \/ Dropped

Play(t) ==
  \/ Wake(t) \/ Take(t) \/ Look(t) \/ Report(t)
  \/ \E ts \in Times : NotePosition(t, ts)

Next == Handle \/ \E t \in Threads : Play(t)

Spec == Init /\ [][Next]_vars

\* The runtime runs the session's own steps, and the system a thread that is
\* not held by the gate; requests come when the sender likes.
Serve == (\E k \in Kinds : Replay(k)) \/ ClearTrack \/ Spawn \/ Joined \/ Dropped
FairSpec == Spec /\ WF_vars(Serve) /\ \A t \in Threads : WF_vars(Play(t))

-----------------------------------------------------------------------------
TypeOK ==
  /\ pc \in {"serving", "replaying", "spawning", "joining", "dropping", "dropped"}
  /\ calls \in Nat /\ tasks \in Nat
  /\ active \in BOOLEAN
  /\ pending \in [Kinds -> Values \cup {Nothing}]
  /\ volume \in MuteDb..FullDb \cup {0}
  /\ track \in Tracks \cup {Nothing}
  /\ player \in 0..MaxStreams
  /\ thread \in [Threads -> Thread]
  /\ host \in [open : BOOLEAN, paused : BOOLEAN, shown : Reports \cup {Nothing},
               metadata : Values \cup {Nothing}, artwork : Values \cup {Nothing}]
  /\ told \in [Kinds -> Values \cup {Nothing}]
  /\ after \in [Threads -> Nat]

\* Nothing the sender said about the track is lost, kept for the wrong session
\* or overtaken by what it said before: the host shows the latest, or it is
\* latched for the session that is still to start.
NothingUnsaid ==
  \A k \in Kinds : told[k] = IF pending[k] # Nothing THEN pending[k] ELSE host[k]

\* While a stream is served, the host's pause indicator is the gate of the
\* thread that plays, across re-SETUPs and gates closed before the session.
PausedMeansPaused ==
  pc = "serving" /\ active => player # None /\ host.paused = thread[player].paused

\* The clock stops with the gate: of what was being played when the gate
\* closed a thread reports at most two packets, the one whose flags it had
\* looked at and the one it takes before it looks again.
ClockStops == \A t \in Threads : thread[t].paused => after[t] <= 2

\* A position computed from an anchor the sender has since replaced may be
\* sent after the new one's; it stays no longer than until the thread that
\* sent it plays another second.
StaleForASecond ==
  track # Nothing /\ host.shown # Nothing /\ host.shown.of # track =>
    \E t \in Threads : thread[t].at = "send"
                      \/ thread[t].reported = host.shown.elapsed \div Rate

\* What reaches the host is what events.rs promises of the order of events.
Promise == INSTANCE EventProtocol WITH
  open <- active /\ host.open, last <- last, over <- pc = "dropped",
  Loudness <- MuteDb..FullDb
ImplementsEvents == Promise!Spec

=============================================================================
