---------------------------- MODULE SessionProofs ----------------------------
(***************************************************************************)
(* For any number of requests, streams, tracks, payloads and volumes, any  *)
(* word width and any rate: what a session tells its host is the latest,   *)
(* in the promised order, and its clock follows the gate and the anchor.   *)
(***************************************************************************)
EXTENDS Session, TLAPS

Hosts == [open : BOOLEAN, paused : BOOLEAN, shown : Reports \cup {Nothing},
          metadata : Values \cup {Nothing}, artwork : Values \cup {Nothing}]

-----------------------------------------------------------------------------
\* Arithmetic of timestamps and volumes.

LEMMA PlayedNat ==
  ASSUME NEW k \in Tracks, NEW ts \in Times
  PROVE  Played(k, ts) \in Nat /\ Total(k) \in Nat /\ Played(k, ts) \div Rate \in Nat
<1>1. /\ Width \in Nat \ {0} /\ Rate \in Nat \ {0}
      /\ k.start \in Int /\ k.end \in Int /\ ts \in Int
  BY SessionAssumption
<1>2. \A i \in Int : i % Width \in Nat
  BY <1>1
<1>3. \A i \in Nat : i \div Rate \in Nat
  BY <1>1
<1>4. Played(k, ts) \in Nat /\ Total(k) \in Nat
  BY <1>1, <1>2 DEF Played, Total
<1> QED BY <1>3, <1>4

LEMMA PastNat ==
  ASSUME NEW a \in Int, NEW b \in Int PROVE Past(a, b) \in Nat
BY DEF Past

LEMMA ClampInRange ==
  ASSUME NEW v \in Volumes PROVE Clamp(v) \in MuteDb..FullDb
BY SessionAssumption DEF Clamp

\* A report for the host: of a progress line, or of a packet.
LEMMA LineReported ==
  ASSUME NEW k \in Tracks, NEW c \in Times
  PROVE  [elapsed |-> Past(k.start, c), length |-> Past(k.start, k.end), of |-> k] \in Reports
<1>1. k.start \in Int /\ k.end \in Int /\ c \in Int
  BY SessionAssumption
<1>2. Past(k.start, c) \in Nat /\ Past(k.start, k.end) \in Nat
  BY <1>1, PastNat
<1> QED BY <1>2 DEF Reports

LEMMA NothingIsNoReport == \A r \in Reports : r # Nothing
BY SessionAssumption DEF Reports

-----------------------------------------------------------------------------
\* What the host makes of each event.
LEMMA HearIs ==
  /\ Hear(Event("started", 0)) = [host EXCEPT !.open = TRUE, !.paused = FALSE]
  /\ \A v : Hear(Event("metadata", v)) = [host EXCEPT !.metadata = v]
  /\ \A v : Hear(Event("artwork", v)) = [host EXCEPT !.artwork = v]
  /\ Hear(Event("paused", 0)) = [host EXCEPT !.paused = TRUE]
  /\ Hear(Event("resumed", 0)) = [host EXCEPT !.paused = FALSE]
  /\ Hear(Event("ended", 0)) = Dark
  /\ Hear(Event("flushed", 0)) = host
  /\ \A v : Hear(Event("volume", v)) = host
BY DEF Hear, Event

LEMMA HearTyped ==
  ASSUME host \in Hosts, NEW v \in Values
  PROVE  /\ Hear(Event("started", 0)) \in Hosts
         /\ \A k \in Kinds : Hear(Event(k, v)) \in Hosts
         /\ Hear(Event("paused", 0)) \in Hosts /\ Hear(Event("resumed", 0)) \in Hosts
         /\ Hear(Event("ended", 0)) \in Hosts
<1>1. [host EXCEPT !.open = TRUE, !.paused = FALSE] \in Hosts
  BY DEF Hosts
<1>2. [host EXCEPT !.metadata = v] \in Hosts /\ [host EXCEPT !.artwork = v] \in Hosts
  BY DEF Hosts
<1>3. \A b \in BOOLEAN : [host EXCEPT !.paused = b] \in Hosts
  BY DEF Hosts
<1>4. Dark \in Hosts
  BY DEF Hosts, Dark
<1> QED BY <1>1, <1>2, <1>3, <1>4, HearIs DEF Kinds

\* A playback thread's next record.
LEMMA ThreadTyped ==
  ASSUME NEW r \in Thread
  PROVE  /\ \A at \in {"none", "recv", "next", "chunk", "played", "send", "done"} :
              [r EXCEPT !.at = at] \in Thread
         /\ \A b \in BOOLEAN : /\ [r EXCEPT !.paused = b] \in Thread
                               /\ [r EXCEPT !.stop = b] \in Thread
BY DEF Thread

-----------------------------------------------------------------------------
\* Types, and the room a stream that is being set up still has.

Room == pc \in {"replaying", "spawning"} => player < MaxStreams
TypeInv == TypeOK /\ Room

LEMMA TypeInvInit == Init => TypeInv
<1> SUFFICES ASSUME Init PROVE TypeInv
  OBVIOUS
<1>1. Idle \in Thread /\ Dark \in Hosts /\ Silence \in [Kinds -> Values \cup {Nothing}]
  BY DEF Idle, Thread, Dark, Hosts, Silence, Kinds
<1>2. MaxStreams \in Nat
  BY SessionAssumption
<1>3. thread \in [Threads -> Thread] /\ after \in [Threads -> Nat]
  BY <1>1 DEF Init
<1>4. pending \in [Kinds -> Values \cup {Nothing}] /\ told \in [Kinds -> Values \cup {Nothing}]
  BY <1>1 DEF Init
<1>5. player \in 0..MaxStreams /\ host \in Hosts
  BY <1>1, <1>2 DEF Init, None
<1>6. Room
  BY DEF Init, Room
<1> QED BY <1>3, <1>4, <1>5, <1>6 DEF Init, TypeInv, TypeOK, Hosts

\* The session's steps that leave the threads alone.
LEMMA TypeInvTalk ==
  ASSUME TypeInv,
         \/ \E n \in Channels : SetupChannels(n)
         \/ StartStream \/ \E k \in Kinds : Replay(k)
         \/ ClearTrack \/ Joined \/ Flush \/ Acknowledge
         \/ \E v \in Volumes : SetVolume(v)
         \/ \E k \in Tracks, c \in Times : SetProgress(k, c)
         \/ \E k \in Kinds, v \in Values : Describe(k, v)
         \/ Teardown \/ Dropped
  PROVE  TypeInv'
<1> USE DEF TypeInv, Room, control, audio, events
<1>0. host \in Hosts /\ calls \in Nat /\ tasks \in Nat
  BY DEF TypeOK, Hosts
<1>1. ASSUME NEW n \in Channels, SetupChannels(n) PROVE TypeInv'
  <2>1. tasks' \in Nat /\ calls' \in Nat
    BY <1>0, <1>1 DEF SetupChannels, Call, Channels
  <2> QED BY <1>1, <2>1 DEF SetupChannels, Call, TypeOK
<1>2. CASE StartStream
  <2>1. host' \in Hosts
    BY <1>0, <1>2, HearIs DEF StartStream, Send, Hosts
  <2>2. calls' \in Nat
    BY <1>0, <1>2 DEF StartStream, Call
  <2> QED BY <1>2, <2>1, <2>2 DEF StartStream, Call, TypeOK, Hosts
<1>3. ASSUME NEW k \in Kinds, Replay(k) PROVE TypeInv'
  <2>1. pending[k] \in Values
    BY <1>3 DEF Replay, TypeOK
  <2>2. host' \in Hosts
    BY <1>0, <1>3, <2>1, HearTyped DEF Replay, Send
  <2> QED BY <1>3, <2>2 DEF Replay, TypeOK, Hosts
<1>4. CASE ClearTrack \/ Joined \/ Dropped
  BY <1>4 DEF ClearTrack, Joined, Dropped, TypeOK
<1>5. CASE Flush \/ Acknowledge
  <2>1. calls' \in Nat
    BY <1>0, <1>5 DEF Flush, Acknowledge, Call
  <2>2. host' = host
    BY <1>5, HearIs DEF Flush, Acknowledge, Send
  <2> QED BY <1>5, <2>1, <2>2 DEF Flush, Acknowledge, Call, TypeOK
<1>6. ASSUME NEW v \in Volumes, SetVolume(v) PROVE TypeInv'
  <2>1. calls' \in Nat
    BY <1>0, <1>6 DEF SetVolume, Call
  <2>2. host' = host
    BY <1>6, HearIs DEF SetVolume, Send
  <2> QED BY <1>6, <2>1, <2>2, ClampInRange DEF SetVolume, Call, TypeOK
<1>7. ASSUME NEW k \in Tracks, NEW c \in Times, SetProgress(k, c) PROVE TypeInv'
  <2>1. calls' \in Nat
    BY <1>0, <1>7 DEF SetProgress, Call
  <2>2. \A r \in Reports : [host EXCEPT !.shown = r] \in Hosts
    BY <1>0 DEF Hosts
  <2>3. host' \in Hosts
    BY <1>0, <1>7, <2>2, LineReported DEF SetProgress, Show, SendNothing
  <2> QED BY <1>7, <2>1, <2>3 DEF SetProgress, Call, TypeOK, Hosts
<1>8. ASSUME NEW k \in Kinds, NEW v \in Values, Describe(k, v) PROVE TypeInv'
  <2>1. calls' \in Nat
    BY <1>0, <1>8 DEF Describe, Call
  <2>2. host' \in Hosts
    BY <1>0, <1>8, HearTyped DEF Describe, Send, SendNothing
  <2> QED BY <1>8, <2>1, <2>2 DEF Describe, Call, TypeOK, Hosts
<1>9. CASE Teardown
  <2>1. calls' \in Nat
    BY <1>0, <1>9 DEF Teardown, Call
  <2>2. host' \in Hosts
    <3>1. host' = host \/ host' = Dark
      BY <1>9, HearIs DEF Teardown, EndSession, Send, SendNothing
    <3>2. Dark \in Hosts
      BY DEF Dark, Hosts
    <3> QED BY <1>0, <3>1, <3>2
  <2>3. told' \in [Kinds -> Values \cup {Nothing}] /\ active' \in BOOLEAN
    BY <1>9 DEF Teardown, EndSession, Silence, TypeOK
  <2> QED BY <1>9, <2>1, <2>2, <2>3 DEF Teardown, Call, TypeOK, Hosts
<1> QED BY <1>1, <1>2, <1>3, <1>4, <1>5, <1>6, <1>7, <1>8, <1>9

LEMMA StopTyped ==
  ASSUME NEW r \in Thread, NEW t, NEW u PROVE [r EXCEPT !.stop = t <= u] \in Thread
<1> DEFINE b == t <= u
<1>1. b \in BOOLEAN
  OBVIOUS
<1> HIDE DEF b
<1>2. [r EXCEPT !.stop = b] \in Thread
  BY <1>1 DEF Thread
<1> QED BY <1>2 DEF b

\* Those that start, gate or stop one.
LEMMA TypeInvControl ==
  ASSUME TypeInv, Spawn \/ (\E p \in BOOLEAN : SetRateAnchor(p)) \/ Drop
  PROVE  TypeInv'
<1>0. /\ host \in Hosts /\ calls \in Nat /\ tasks \in Nat /\ player \in Nat
      /\ MaxStreams \in Nat
      /\ \A t \in Threads : thread[t] \in Thread
  BY SessionAssumption DEF TypeInv, TypeOK, Hosts
<1>1. CASE Spawn
  <2>1. \A t \in Threads :
          (IF t = player + 1 THEN [Idle EXCEPT !.at = "recv"]
           ELSE [thread[t] EXCEPT !.stop = t <= player]) \in Thread
    <3>1. [Idle EXCEPT !.at = "recv"] \in Thread
      BY DEF Idle, Thread
    <3>2. \A t \in Threads : [thread[t] EXCEPT !.stop = t <= player] \in Thread
      BY <1>0, StopTyped
    <3> QED BY <3>1, <3>2
  <2>2. thread' \in [Threads -> Thread]
    BY <1>1, <2>1 DEF Spawn
  <2>3. player' \in 0..MaxStreams
    BY <1>0, <1>1 DEF Spawn, TypeInv, Room
  <2>4. tasks' \in Nat
    BY <1>0, <1>1 DEF Spawn
  <2>5. pc' \in {"serving", "joining"}
    BY <1>1 DEF Spawn
  <2> QED BY <1>1, <2>2, <2>3, <2>4, <2>5 DEF Spawn, TypeInv, TypeOK, Room, events
<1>2. ASSUME NEW p \in BOOLEAN, SetRateAnchor(p) PROVE TypeInv'
  <2>1. \A t \in Threads : (IF t = player THEN [thread[t] EXCEPT !.paused = p]
                            ELSE thread[t]) \in Thread
    BY <1>0, ThreadTyped
  <2>2. thread' \in [Threads -> Thread]
    BY <1>2, <2>1 DEF SetRateAnchor
  <2>3. after' \in [Threads -> Nat]
    BY <1>2 DEF SetRateAnchor, TypeInv, TypeOK
  <2>4. host' \in Hosts
    BY <1>0, <1>2, HearIs DEF SetRateAnchor, Send, Hosts
  <2>5. calls' \in Nat
    BY <1>0, <1>2 DEF SetRateAnchor, Call
  <2> QED BY <1>2, <2>2, <2>3, <2>4, <2>5 DEF SetRateAnchor, Call, TypeInv, TypeOK, Room,
                                              Hosts
<1>3. CASE Drop
  <2>1. \A t \in Threads : [thread[t] EXCEPT !.stop = t <= player] \in Thread
    BY <1>0, StopTyped
  <2>2. thread' \in [Threads -> Thread]
    BY <1>3, <2>1 DEF Drop
  <2>3. host' \in Hosts
    <3>1. host' = host \/ host' = Dark
      BY <1>3, HearIs DEF Drop, EndSession, Send, SendNothing
    <3>2. Dark \in Hosts
      BY DEF Dark, Hosts
    <3> QED BY <1>0, <3>1, <3>2
  <2>4. told' \in [Kinds -> Values \cup {Nothing}] /\ active' \in BOOLEAN
    BY <1>3 DEF Drop, EndSession, Silence, TypeInv, TypeOK
  <2> QED BY <1>3, <2>2, <2>3, <2>4 DEF Drop, TypeInv, TypeOK, Room, Hosts
<1> QED BY <1>1, <1>2, <1>3

\* What a thread's own steps leave alone.
LEMMA PlayLeaves ==
  ASSUME NEW t \in Threads, Play(t)
  PROVE  UNCHANGED <<pc, calls, tasks, active, pending, volume, track, player, told>>
BY DEF Play, Wake, Take, Look, NotePosition, Report, session, control

\* A thread with a report to send.
Reporting(r) ==
  r.at = "send" => r.report # Nothing /\ r.reported = r.report.elapsed \div Rate

\* A thread's step changes its own record only, and what it may become.
LEMMA PlaceOnly ==
  ASSUME NEW t \in Threads, thread \in [Threads -> Thread],
         NEW at \in {"recv", "next", "chunk", "played", "done"},
         NEW cut \in BOOLEAN,
         thread' = [thread EXCEPT ![t] = [thread[t] EXCEPT !.at = at, !.cut = cut]]
  PROVE  /\ thread' = [thread EXCEPT ![t] = thread'[t]]
         /\ thread'[t] \in Thread
         /\ thread'[t].paused = thread[t].paused /\ thread'[t].stop = thread[t].stop
         /\ thread'[t].reported = thread[t].reported /\ thread'[t].at # "send"
<1>1. thread'[t] = [thread[t] EXCEPT !.at = at, !.cut = cut]
  OBVIOUS
<1>2. thread[t] \in Thread
  OBVIOUS
<1>3. [thread[t] EXCEPT !.at = at, !.cut = cut] \in Thread
  BY <1>2 DEF Thread
<1>4. /\ thread'[t].paused = thread[t].paused /\ thread'[t].stop = thread[t].stop
      /\ thread'[t].reported = thread[t].reported /\ thread'[t].at = at
  BY <1>1, <1>2 DEF Thread
<1> QED BY <1>1, <1>3, <1>4

LEMMA PlayThread ==
  ASSUME TypeInv, NEW t \in Threads, Play(t)
  PROVE  /\ thread' = [thread EXCEPT ![t] = thread'[t]]
         /\ thread'[t] \in Thread
         /\ thread'[t].paused = thread[t].paused /\ thread'[t].stop = thread[t].stop
         /\ thread[t].at \notin {"none", "done"}
         /\ thread[t].at = "send" => host' = [host EXCEPT !.shown = thread[t].report]
         /\ thread[t].at # "send" => host' = host /\ UNCHANGED <<last, after>>
         /\ \/ thread'[t].reported = thread[t].reported /\ thread'[t].at # "send"
            \/ thread'[t].at = "send" /\ Reporting(thread'[t])
<1>0. thread[t] \in Thread /\ thread \in [Threads -> Thread]
  BY DEF TypeInv, TypeOK
<1>3. CASE Wake(t) \/ Take(t) \/ Look(t)
  <2>1. PICK at \in {"recv", "next", "chunk", "played", "done"}, cut \in BOOLEAN :
          thread' = [thread EXCEPT ![t] = [thread[t] EXCEPT !.at = at, !.cut = cut]]
    <3>1. \A at : [thread[t] EXCEPT !.at = at] = [thread[t] EXCEPT !.at = at, !.cut = thread[t].cut]
      BY <1>0 DEF Thread
    <3>2. thread[t].cut \in BOOLEAN /\ thread[t].paused \in BOOLEAN
      BY <1>0 DEF Thread
    <3>3. CASE Wake(t) \/ Take(t)
      <4>1. PICK at \in {"recv", "next", "chunk", "done"} :
              thread' = [thread EXCEPT ![t] = [thread[t] EXCEPT !.at = at]]
        BY <3>3 DEF Wake, Take, Move
      <4>2. thread' = [thread EXCEPT ![t] = [thread[t] EXCEPT !.at = at, !.cut = thread[t].cut]]
        BY <3>1, <4>1
      <4> QED BY <3>2, <4>2
    <3>5. CASE Look(t)
      <4>1. thread' = [thread EXCEPT ![t] = [thread[t] EXCEPT
              !.at = IF thread[t].stop THEN "done" ELSE "played", !.cut = thread[t].paused]]
        BY <3>5 DEF Look, Move
      <4> QED BY <3>2, <4>1
    <3> QED BY <1>3, <3>3, <3>5
  <2>2. thread[t].at \in {"recv", "next", "chunk"} /\ UNCHANGED <<host, last, after>>
    BY <1>3 DEF Wake, Take, Look, Move
  <2> QED BY <1>0, <2>1, <2>2, PlaceOnly
<1>4. ASSUME NEW ts \in Times, NotePosition(t, ts)
      PROVE  /\ thread' = [thread EXCEPT ![t] = thread'[t]]
             /\ thread'[t] \in Thread
             /\ thread'[t].paused = thread[t].paused /\ thread'[t].stop = thread[t].stop
             /\ \/ thread'[t].reported = thread[t].reported /\ thread'[t].at # "send"
                \/ thread'[t].at = "send" /\ Reporting(thread'[t])
  <2>1. CASE thread' = [thread EXCEPT ![t] = [thread[t] EXCEPT !.at = Rest(t)]]
    <3>1. thread' = [thread EXCEPT ![t] = [thread[t] EXCEPT !.at = Rest(t), !.cut = thread[t].cut]]
      BY <1>0, <2>1 DEF Thread
    <3>2. Rest(t) \in {"recv", "next"} /\ thread[t].cut \in BOOLEAN
      BY <1>0 DEF Rest, Thread
    <3> QED BY <1>0, <3>1, <3>2, PlaceOnly
  <2>2. CASE track \in Tracks
             /\ thread' = [thread EXCEPT ![t] =
                  [thread[t] EXCEPT !.at = "send",
                                    !.reported = Played(track, ts) \div Rate,
                                    !.report = [elapsed |-> Played(track, ts),
                                                length |-> Total(track), of |-> track]]]
    <3> DEFINE sec == Played(track, ts) \div Rate
               rep == [elapsed |-> Played(track, ts), length |-> Total(track), of |-> track]
    <3>1. sec \in Nat /\ rep \in Reports /\ rep # Nothing /\ sec = rep.elapsed \div Rate
      BY <2>2, PlayedNat, NothingIsNoReport DEF Reports
    <3>2. thread' = [thread EXCEPT ![t] =
             [thread[t] EXCEPT !.at = "send", !.reported = sec, !.report = rep]]
      BY <2>2
    <3> HIDE DEF sec, rep
    <3>3. [thread[t] EXCEPT !.at = "send", !.reported = sec, !.report = rep] \in Thread
      BY <1>0, <3>1 DEF Thread
    <3> QED BY <1>0, <3>1, <3>2, <3>3 DEF Thread, Reporting
  <2> QED BY <1>4, <2>1, <2>2 DEF NotePosition, Move, TypeInv, TypeOK
<1>5. CASE Report(t)
  <2>1. thread' = [thread EXCEPT ![t] = [thread[t] EXCEPT !.at = Rest(t), !.report = Nothing]]
        /\ thread[t].at = "send" /\ host' = [host EXCEPT !.shown = thread[t].report]
    BY <1>5 DEF Report, Move, Show
  <2>2. [thread[t] EXCEPT !.at = Rest(t), !.report = Nothing] \in Thread
    BY <1>0 DEF Thread, Rest
  <2> QED BY <1>0, <2>1, <2>2 DEF Thread, Rest
<1>6. \A ts \in Times : NotePosition(t, ts) => thread[t].at = "played"
                                             /\ UNCHANGED <<host, last, after>>
  BY DEF NotePosition, Move
<1> QED BY <1>3, <1>4, <1>5, <1>6 DEF Play

LEMMA TypeInvPlay ==
  ASSUME TypeInv, \A u \in Threads : Reporting(thread[u]), NEW t \in Threads, Play(t)
  PROVE  TypeInv'
<1>1. UNCHANGED <<pc, calls, tasks, active, pending, volume, track, player, told>>
  BY PlayLeaves
<1>2. thread' \in [Threads -> Thread]
  BY PlayThread DEF TypeInv, TypeOK
<1>3. host' \in Hosts
  <2>1. host \in Hosts
    BY DEF TypeInv, TypeOK, Hosts
  <2>2. CASE thread[t].at = "send"
    <3>1. thread[t].report \in Reports
      BY <2>2 DEF Reporting, TypeInv, TypeOK, Thread
    <3> QED BY <2>1, <2>2, <3>1, PlayThread DEF Hosts
  <2> QED BY <2>1, <2>2, PlayThread
<1>4. after' \in [Threads -> Nat]
  <2>1. after' = after \/ after' = [after EXCEPT ![t] = IF thread[t].paused
                                                      THEN after[t] + 1 ELSE after[t]]
    BY DEF Play, Wake, Take, Look, NotePosition, Report
  <2>2. after[t] \in Nat /\ after[t] + 1 \in Nat
    BY DEF TypeInv, TypeOK
  <2> QED BY <2>1, <2>2 DEF TypeInv, TypeOK
<1> QED BY <1>1, <1>2, <1>3, <1>4 DEF TypeInv, TypeOK, Room, Hosts

-----------------------------------------------------------------------------
\* The session's steps leave a thread where it is, or start it.

Kept(r, s) ==
  r.at = s.at /\ r.cut = s.cut /\ r.reported = s.reported /\ r.report = s.report

LEMMA HandleThread ==
  ASSUME TypeInv, Handle, NEW u \in Threads
  PROVE  \/ Kept(thread'[u], thread[u])
         \/ pc = "spawning" /\ u = player + 1 /\ thread'[u] = [Idle EXCEPT !.at = "recv"]
<1>0. \A t \in Threads : thread[t] \in Thread
  BY DEF TypeInv, TypeOK
<1>1. \A r \in Thread : \A b : Kept([r EXCEPT !.stop = b], r) /\ Kept([r EXCEPT !.paused = b], r)
  BY DEF Kept, Thread
<1>2. Kept(thread[u], thread[u])
  BY DEF Kept
<1>3. CASE UNCHANGED thread
  BY <1>2, <1>3
<1>4. CASE Spawn
  BY <1>0, <1>1, <1>4 DEF Spawn
<1>5. ASSUME NEW p \in BOOLEAN, SetRateAnchor(p) PROVE Kept(thread'[u], thread[u])
  BY <1>0, <1>1, <1>2, <1>5 DEF SetRateAnchor
<1>6. CASE Drop
  BY <1>0, <1>1, <1>6 DEF Drop
<1>7. UNCHANGED thread \/ Spawn \/ (\E p \in BOOLEAN : SetRateAnchor(p)) \/ Drop
  BY DEF Handle, SetupChannels, StartStream, Replay, ClearTrack, Joined, Flush, Acknowledge,
         SetVolume, SetProgress, Describe, Teardown, Dropped, audio
<1> QED BY <1>3, <1>4, <1>5, <1>6, <1>7

Telling == \A t \in Threads : Reporting(thread[t])

LEMMA TellingHandle == ASSUME TypeInv, Telling, Handle PROVE Telling'
<1> SUFFICES ASSUME NEW u \in Threads PROVE Reporting(thread'[u])
  BY DEF Telling
<1>1. Reporting(thread[u])
  BY DEF Telling
<1>2. Reporting([Idle EXCEPT !.at = "recv"])
  BY DEF Reporting, Idle
<1> QED BY <1>1, <1>2, HandleThread DEF Reporting, Kept

\* Another thread's step leaves a thread as it is.
LEMMA Others ==
  ASSUME TypeInv, NEW t \in Threads, Play(t), NEW u \in Threads, u # t
  PROVE  thread'[u] = thread[u] /\ after'[u] = after[u]
<1>1. thread' = [thread EXCEPT ![t] = thread'[t]]
  BY PlayThread
<1>2. thread'[u] = thread[u]
  BY <1>1 DEF TypeInv, TypeOK
<1>3. after'[u] = after[u]
  BY DEF Play, Wake, Take, Look, NotePosition, Report, TypeInv, TypeOK
<1> QED BY <1>2, <1>3

LEMMA TellingPlay ==
  ASSUME TypeInv, Telling, NEW t \in Threads, Play(t) PROVE Telling'
<1> SUFFICES ASSUME NEW u \in Threads PROVE Reporting(thread'[u])
  BY DEF Telling
<1>1. CASE u = t
  BY <1>1, PlayThread DEF Reporting
<1>2. CASE u # t
  BY <1>2, Others DEF Telling
<1> QED BY <1>1, <1>2

-----------------------------------------------------------------------------
\* What is latched, what the host has, and whether the session is active.

Order ==
  /\ pc \in {"replaying", "spawning", "joining"} => active
  /\ pc \in {"dropping", "dropped"} => ~ active
  /\ pc = "dropped" => \A t \in Threads : thread[t].at \in {"none", "done"}
  /\ active = host.open
  /\ ~ active => host.metadata = Nothing /\ host.artwork = Nothing
  /\ active /\ pc # "replaying" => pending = Silence

\* The part of the state those facts are about.
Heard(h, g) == h.open = g.open /\ h.metadata = g.metadata /\ h.artwork = g.artwork

LEMMA OrderPlay ==
  ASSUME TypeInv, Order, NothingUnsaid, NEW t \in Threads, Play(t)
  PROVE  Order' /\ NothingUnsaid'
<1>1. UNCHANGED <<pc, active, pending, told>>
  BY PlayLeaves
<1>2. host \in Hosts
  BY DEF TypeInv, TypeOK, Hosts
<1>3. Heard(host', host)
  BY <1>2, PlayThread DEF Heard, Hosts
<1>4. pc # "dropped"
  BY PlayThread DEF Order
<1>5. \A k \in Kinds : host'[k] = host[k]
  BY <1>3 DEF Heard, Kinds
<1>6. Order'
  BY <1>1, <1>3, <1>4 DEF Order, Heard
<1>7. NothingUnsaid'
  BY <1>1, <1>5 DEF NothingUnsaid
<1> QED BY <1>6, <1>7

\* A step that says nothing of the track and neither starts nor ends a session.
LEMMA OrderStill ==
  ASSUME TypeInv, Order, NothingUnsaid, Handle,
         UNCHANGED <<active, pending, told>>, Heard(host', host),
         \/ pc' = pc
         \/ pc = "serving" /\ pc' = "serving"
         \/ pc = "replaying" /\ pc' = "spawning" /\ pending = Silence
         \/ pc \in {"spawning", "joining"} /\ pc' \in {"joining", "serving"}
         \/ Dropped
  PROVE  Order' /\ NothingUnsaid'
<1>1. \A k \in Kinds : host'[k] = host[k]
  BY DEF Heard, Kinds
<1>2. NothingUnsaid'
  BY <1>1 DEF NothingUnsaid
<1>3. CASE Dropped
  BY <1>2, <1>3 DEF Order, Dropped, Heard, audio
<1>4. CASE ~ Dropped /\ pc' # "dropped"
  BY <1>2, <1>4 DEF Order, Heard
<1>5. ~ (pc' = "dropped" /\ pc = "dropped")
  BY DEF Handle, SetupChannels, StartStream, Replay, ClearTrack, Joined, Flush,
         Acknowledge, SetVolume, SetProgress, Describe, Teardown, Dropped, Spawn, Drop,
         SetRateAnchor, Call
<1> QED BY <1>2, <1>3, <1>4, <1>5

LEMMA OrderQuiet ==
  ASSUME TypeInv, Order, NothingUnsaid, Handle,
         \/ \E n \in Channels : SetupChannels(n)
         \/ ClearTrack \/ Spawn \/ Joined \/ Flush \/ Acknowledge \/ Dropped
         \/ \E p \in BOOLEAN : SetRateAnchor(p)
         \/ \E v \in Volumes : SetVolume(v)
         \/ \E k \in Tracks, c \in Times : SetProgress(k, c)
  PROVE  Order' /\ NothingUnsaid'
<1>1. host \in Hosts
  BY DEF TypeInv, TypeOK, Hosts
<1>2. Heard(host, host)
  BY DEF Heard
<1>3. \A b, r : Heard([host EXCEPT !.paused = b], host) /\ Heard([host EXCEPT !.shown = r], host)
  BY <1>1 DEF Heard, Hosts
<1>4. ASSUME NEW n \in Channels, SetupChannels(n) PROVE Order' /\ NothingUnsaid'
  BY <1>2, <1>4, OrderStill DEF SetupChannels, Call, events
<1>5. CASE ClearTrack
  BY <1>2, <1>5, OrderStill DEF ClearTrack, events
<1>6. CASE Spawn
  BY <1>2, <1>6, OrderStill DEF Spawn, events
<1>7. CASE Joined
  BY <1>2, <1>7, OrderStill DEF Joined, events
<1>8. CASE Flush
  <2>1. host' = host
    BY <1>8, HearIs DEF Flush, Send
  <2> QED BY <1>2, <1>8, <2>1, OrderStill DEF Flush, Call
<1>9. CASE Acknowledge
  BY <1>2, <1>9, OrderStill DEF Acknowledge, Call, events
<1>10. CASE Dropped
  BY <1>2, <1>10, OrderStill DEF Dropped, events
<1>11. ASSUME NEW p \in BOOLEAN, SetRateAnchor(p) PROVE Order' /\ NothingUnsaid'
  <2>1. host' = [host EXCEPT !.paused = p]
    BY <1>11, HearIs DEF SetRateAnchor, Send
  <2> QED BY <1>3, <1>11, <2>1, OrderStill DEF SetRateAnchor, Call
<1>12. ASSUME NEW v \in Volumes, SetVolume(v) PROVE Order' /\ NothingUnsaid'
  <2>1. host' = host
    BY <1>12, HearIs DEF SetVolume, Send
  <2> QED BY <1>2, <1>12, <2>1, OrderStill DEF SetVolume, Call
<1>13. ASSUME NEW k \in Tracks, NEW c \in Times, SetProgress(k, c)
       PROVE  Order' /\ NothingUnsaid'
  <2>1. Heard(host', host)
    BY <1>2, <1>3, <1>13 DEF SetProgress, Show, SendNothing
  <2> QED BY <1>13, <2>1, OrderStill DEF SetProgress, Call
<1> QED BY <1>4, <1>5, <1>6, <1>7, <1>8, <1>9, <1>10, <1>11, <1>12, <1>13

LEMMA OrderStart ==
  ASSUME TypeInv, Order, NothingUnsaid, StartStream
  PROVE  Order' /\ NothingUnsaid'
<1>1. host \in Hosts
  BY DEF TypeInv, TypeOK, Hosts
<1>2. host' = [host EXCEPT !.open = TRUE, !.paused = FALSE]
  BY HearIs DEF StartStream, Send
<1>3. \A k \in Kinds : host'[k] = host[k]
  BY <1>1, <1>2 DEF Hosts, Kinds
<1>4. host'.open = TRUE
  BY <1>1, <1>2 DEF Hosts
<1>5. UNCHANGED <<pending, told>> /\ pc' = "replaying" /\ active' = TRUE
  BY DEF StartStream, Call
<1>6. Order'
  BY <1>4, <1>5 DEF Order
<1> QED BY <1>3, <1>5, <1>6 DEF NothingUnsaid

LEMMA OrderReplay ==
  ASSUME TypeInv, Order, NothingUnsaid, NEW k \in Kinds, Replay(k)
  PROVE  Order' /\ NothingUnsaid'
<1>1. host \in Hosts /\ pending \in [Kinds -> Values \cup {Nothing}]
  BY DEF TypeInv, TypeOK, Hosts
<1>2. host' = [host EXCEPT ![k] = pending[k]]
  BY HearIs DEF Replay, Send, Kinds
<1>3. host'[k] = pending[k] /\ host'.open = host.open
  BY <1>1, <1>2 DEF Hosts, Kinds
<1>4. \A j \in Kinds : j # k => host'[j] = host[j]
  BY <1>1, <1>2 DEF Hosts, Kinds
<1>5. UNCHANGED <<active, told, pc>> /\ pc = "replaying" /\ pending[k] # Nothing
  BY DEF Replay, control
<1>6. \A j \in Kinds : pending'[j] = IF j = k THEN Nothing ELSE pending[j]
  BY <1>1 DEF Replay
<1>7. Order'
  BY <1>3, <1>5 DEF Order
<1>8. NothingUnsaid'
  BY <1>3, <1>4, <1>5, <1>6 DEF NothingUnsaid
<1> QED BY <1>7, <1>8

LEMMA OrderDescribe ==
  ASSUME TypeInv, Order, NothingUnsaid, NEW k \in Kinds, NEW v \in Values, Describe(k, v)
  PROVE  Order' /\ NothingUnsaid'
<1>1. /\ host \in Hosts /\ pending \in [Kinds -> Values \cup {Nothing}]
      /\ told \in [Kinds -> Values \cup {Nothing}]
  BY DEF TypeInv, TypeOK, Hosts
<1>2. /\ UNCHANGED active /\ pc' = "serving" /\ pc = "serving"
      /\ \A j \in Kinds : told'[j] = IF j = k THEN v ELSE told[j]
  BY <1>1 DEF Describe, Call
<1>3. v # Nothing
  BY SessionAssumption
<1>4. CASE active
  <2>1. host' = [host EXCEPT ![k] = v] /\ UNCHANGED pending /\ pending = Silence
    BY <1>2, <1>4, HearIs DEF Describe, Send, Kinds, Order
  <2>2. host'.open = host.open /\ \A j \in Kinds : host'[j] = IF j = k THEN v ELSE host[j]
    BY <1>1, <2>1 DEF Hosts, Kinds
  <2>3. NothingUnsaid'
    BY <1>2, <2>1, <2>2 DEF NothingUnsaid, Silence
  <2> QED BY <1>2, <1>4, <2>1, <2>2, <2>3 DEF Order
<1>5. CASE ~ active
  <2>1. UNCHANGED host /\ \A j \in Kinds : pending'[j] = IF j = k THEN v ELSE pending[j]
    BY <1>1, <1>5 DEF Describe, SendNothing
  <2>2. NothingUnsaid'
    BY <1>2, <1>3, <2>1 DEF NothingUnsaid
  <2> QED BY <1>2, <1>5, <2>1, <2>2 DEF Order
<1> QED BY <1>1, <1>4, <1>5 DEF TypeInv, TypeOK

LEMMA OrderEnd ==
  ASSUME TypeInv, Order, NothingUnsaid, pc = "serving", EndSession, UNCHANGED pending,
         pc' \in {"serving", "dropping"}
  PROVE  Order' /\ NothingUnsaid'
<1>1. active' = FALSE
  BY DEF EndSession
<1>2. CASE active
  <2>1. host' = Dark /\ told' = Silence /\ pending' = Silence
    BY <1>2, HearIs DEF EndSession, Send, Order
  <2>2. Dark.open = FALSE /\ Dark.metadata = Nothing /\ Dark.artwork = Nothing
    BY DEF Dark
  <2>3. NothingUnsaid'
    BY <2>1, <2>2 DEF NothingUnsaid, Silence, Kinds
  <2> QED BY <1>1, <2>1, <2>2, <2>3 DEF Order
<1>3. CASE ~ active
  <2>1. UNCHANGED <<host, told, pending>>
    BY <1>3 DEF EndSession, SendNothing
  <2>2. active = FALSE
    BY <1>3 DEF TypeInv, TypeOK
  <2>3. Order'
    BY <1>1, <2>1, <2>2 DEF Order
  <2> QED BY <2>1, <2>3 DEF NothingUnsaid
<1> QED BY <1>2, <1>3 DEF TypeInv, TypeOK

LEMMA OrderHandle ==
  ASSUME TypeInv, Order, NothingUnsaid, Handle PROVE Order' /\ NothingUnsaid'
<1>1. CASE Teardown \/ Drop
  BY <1>1, OrderEnd DEF Teardown, Drop, Call
<1>2. CASE StartStream \/ (\E k \in Kinds : Replay(k))
           \/ (\E k \in Kinds, v \in Values : Describe(k, v))
  BY <1>2, OrderStart, OrderReplay, OrderDescribe
<1> QED BY <1>1, <1>2, OrderQuiet DEF Handle

-----------------------------------------------------------------------------
\* The gate: a stream that is being set up has an open one, and a stream that
\* is served has the one its host was told of.

Gate ==
  /\ pc \in {"replaying", "spawning"} => ~ host.paused
  /\ pc \in {"serving", "joining"} /\ active =>
       player # None /\ host.paused = thread[player].paused

LEMMA GatePlay ==
  ASSUME TypeInv, Gate, NEW t \in Threads, Play(t) PROVE Gate'
<1>1. UNCHANGED <<pc, active, player>>
  BY PlayLeaves
<1>2. host'.paused = host.paused
  <2>1. host \in Hosts
    BY DEF TypeInv, TypeOK, Hosts
  <2> QED BY <2>1, PlayThread DEF Hosts
<1>3. \A u \in Threads : thread'[u].paused = thread[u].paused
  BY PlayThread, Others
<1>4. player # None => player \in Threads
  BY SessionAssumption DEF TypeInv, TypeOK, Threads, None
<1> QED BY <1>1, <1>2, <1>3, <1>4 DEF Gate

LEMMA GateHandle ==
  ASSUME TypeInv, Order, Gate, Handle PROVE Gate'
<1>0. /\ host \in Hosts /\ MaxStreams \in Nat /\ player \in 0..MaxStreams
      /\ thread \in [Threads -> Thread]
      /\ player # None => player \in Threads
  BY SessionAssumption DEF TypeInv, TypeOK, Hosts, Threads, None
<1>1. CASE StartStream
  BY <1>0, <1>1, HearIs DEF StartStream, Call, Send, Gate, Hosts
<1>2. ASSUME NEW k \in Kinds, Replay(k) PROVE Gate'
  <2>1. host' = [host EXCEPT ![k] = pending[k]]
    BY <1>2, HearIs DEF Replay, Send, Kinds
  <2>2. host'.paused = host.paused
    BY <1>0, <2>1 DEF Hosts, Kinds
  <2> QED BY <1>2, <2>2 DEF Replay, control, Gate
<1>3. CASE ClearTrack
  BY <1>3 DEF ClearTrack, audio, events, Gate
<1>4. CASE Spawn
  <2>1. player' = player + 1 /\ player' \in Threads /\ player' # None
    BY <1>0, <1>4 DEF Spawn, TypeInv, Room, Threads, None
  <2>2. thread'[player'] = [Idle EXCEPT !.at = "recv"]
    BY <1>4, <2>1 DEF Spawn
  <2>3. thread'[player'].paused = FALSE
    BY <2>2 DEF Idle
  <2>4. host'.paused = FALSE
    BY <1>0, <1>4 DEF Spawn, events, Gate, Hosts
  <2>5. pc' \notin {"replaying", "spawning"}
    BY <1>4 DEF Spawn
  <2> QED BY <2>1, <2>3, <2>4, <2>5 DEF Gate
<1>5. CASE Joined
  BY <1>5 DEF Joined, audio, events, Gate
<1>6. ASSUME NEW p \in BOOLEAN, SetRateAnchor(p) PROVE Gate'
  <2>1. host'.paused = p
    BY <1>0, <1>6, HearIs DEF SetRateAnchor, Send, Hosts
  <2>2. player # None => thread'[player].paused = p
    BY <1>0, <1>6 DEF SetRateAnchor, Thread
  <2>3. UNCHANGED <<active, player>> /\ pc = "serving" /\ pc' = "serving"
    BY <1>6 DEF SetRateAnchor, Call
  <2> QED BY <2>1, <2>2, <2>3 DEF Gate
<1>7. CASE Flush \/ Acknowledge \/ (\E n \in Channels : SetupChannels(n))
           \/ (\E v \in Volumes : SetVolume(v))
  <2>1. host' = host
    BY <1>7, HearIs DEF Flush, Acknowledge, SetupChannels, SetVolume, Send, events
  <2>2. UNCHANGED <<active, player, thread>> /\ pc = "serving" /\ pc' = "serving"
    BY <1>7 DEF Flush, Acknowledge, SetupChannels, SetVolume, Call, audio
  <2> QED BY <2>1, <2>2 DEF Gate
<1>8. ASSUME NEW k \in Tracks, NEW c \in Times, SetProgress(k, c) PROVE Gate'
  <2>1. host'.paused = host.paused
    BY <1>0, <1>8 DEF SetProgress, Show, SendNothing, Hosts
  <2>2. UNCHANGED <<active, player, thread>> /\ pc = "serving" /\ pc' = "serving"
    BY <1>8 DEF SetProgress, Call, audio
  <2> QED BY <2>1, <2>2 DEF Gate
<1>9. ASSUME NEW k \in Kinds, NEW v \in Values, Describe(k, v) PROVE Gate'
  <2>1. host' = host \/ host' = [host EXCEPT ![k] = v]
    BY <1>9, HearIs DEF Describe, Send, SendNothing, Kinds
  <2>2. host'.paused = host.paused
    BY <1>0, <2>1 DEF Hosts, Kinds
  <2>3. UNCHANGED <<active, player, thread>> /\ pc = "serving" /\ pc' = "serving"
    BY <1>9 DEF Describe, Call, audio
  <2> QED BY <2>2, <2>3 DEF Gate
<1>10. CASE Teardown \/ Drop
  BY <1>10 DEF Teardown, Drop, EndSession, Call, Gate
<1>11. CASE Dropped
  BY <1>11 DEF Dropped, Gate
<1> QED BY <1>1, <1>2, <1>3, <1>4, <1>5, <1>6, <1>7, <1>8, <1>9, <1>10, <1>11 DEF Handle

-----------------------------------------------------------------------------
\* The reports a thread may still send with its gate closed.

Budget(r) ==
  IF r.at \in {"none", "recv", "done"} THEN 0
  ELSE IF r.at \in {"next", "chunk"} \/ r.cut THEN 1 ELSE 2

Budgeted == \A t \in Threads : thread[t].paused => after[t] + Budget(thread[t]) <= 2

LEMMA BudgetNat == \A r : Budget(r) \in 0..2
BY DEF Budget

LEMMA BudgetedHandle == ASSUME TypeInv, Budgeted, Handle PROVE Budgeted'
<1> SUFFICES ASSUME NEW u \in Threads, thread'[u].paused
             PROVE  after'[u] + Budget(thread'[u]) <= 2
  BY DEF Budgeted
<1>0. after[u] \in Nat /\ thread[u] \in Thread /\ thread \in [Threads -> Thread]
  BY DEF TypeInv, TypeOK
<1>1. ~ (thread'[u] = [Idle EXCEPT !.at = "recv"])
  BY DEF Idle
<1>2. Budget(thread'[u]) = Budget(thread[u])
  BY <1>1, HandleThread DEF Kept, Budget
<1>3. ASSUME NEW p \in BOOLEAN, SetRateAnchor(p)
      PROVE  after'[u] + Budget(thread'[u]) <= 2
  <2>1. CASE u = player /\ ~ thread[u].paused
    <3>1. after'[u] = 0
      BY <1>3, <2>1 DEF SetRateAnchor
    <3> QED BY <3>1, BudgetNat
  <2>2. CASE ~ (u = player /\ ~ thread[u].paused)
    <3>1. after'[u] = after[u]
      BY <1>3, <2>2 DEF SetRateAnchor
    <3>2. thread[u].paused
      BY <1>3, <2>2 DEF SetRateAnchor
    <3> QED BY <1>2, <3>1, <3>2 DEF Budgeted
  <2> QED BY <2>1, <2>2
<1>4. CASE ~ \E p \in BOOLEAN : SetRateAnchor(p)
  <2>1. UNCHANGED after
    BY <1>4 DEF Handle, SetupChannels, StartStream, Replay, ClearTrack, Joined, Flush,
         Acknowledge, SetVolume, SetProgress, Describe, Teardown, Dropped, Spawn, Drop, audio
  <2>2. \A b : [thread[u] EXCEPT !.stop = b].paused = thread[u].paused
    BY <1>0 DEF Thread
  <2>3. thread[u].paused
    <3>1. CASE UNCHANGED thread
      BY <3>1
    <3>2. CASE Spawn
      BY <1>1, <2>2, <3>2 DEF Spawn
    <3>3. CASE Drop
      BY <2>2, <3>3 DEF Drop
    <3> QED BY <1>4, <3>1, <3>2, <3>3 DEF Handle, SetupChannels, StartStream, Replay,
              ClearTrack, Joined, Flush, Acknowledge, SetVolume, SetProgress, Describe,
              Teardown, Dropped, audio
  <2> QED BY <1>2, <2>1, <2>3 DEF Budgeted
<1> QED BY <1>3, <1>4

LEMMA BudgetedPlay ==
  ASSUME TypeInv, Budgeted, NEW t \in Threads, Play(t) PROVE Budgeted'
<1> SUFFICES ASSUME NEW u \in Threads, thread'[u].paused
             PROVE  after'[u] + Budget(thread'[u]) <= 2
  BY DEF Budgeted
<1>1. CASE u # t
  BY <1>1, Others DEF Budgeted
<1>2. CASE u = t
  <2>0. /\ after[t] \in Nat /\ thread[t] \in Thread /\ thread[t].paused
        /\ after[t] + Budget(thread[t]) <= 2
        /\ after \in [Threads -> Nat] /\ thread \in [Threads -> Thread]
    BY <1>2, PlayThread DEF TypeInv, TypeOK, Budgeted
  <2>1. Rest(t) \in {"recv", "next"} /\ (thread[t].cut => Rest(t) = "recv")
    BY DEF Rest
  <2>2. CASE Wake(t)
    <3>1. thread'[t].at = "done"
      BY <2>0, <2>2 DEF Wake, Move, Thread
    <3> QED BY <1>2, <2>0, <2>2, <3>1, BudgetNat DEF Wake, Move, Budget
  <2>3. CASE Take(t)
    <3>1. thread[t].at = "next" /\ thread'[t].at \in {"chunk", "recv"}
      BY <2>0, <2>3 DEF Take, Move, Thread
    <3> QED BY <1>2, <2>0, <2>3, <3>1 DEF Take, Budget
  <2>4. CASE Look(t)
    <3>1. /\ thread[t].at = "chunk" /\ thread'[t].at \in {"done", "played"}
          /\ thread'[t].cut
      BY <2>0, <2>4 DEF Look, Move, Thread
    <3> QED BY <1>2, <2>0, <2>4, <3>1 DEF Look, Budget
  <2>5. ASSUME NEW ts \in Times, NotePosition(t, ts)
        PROVE  after'[t] + Budget(thread'[t]) <= 2
    <3>1. thread[t].at = "played" /\ UNCHANGED after
      BY <2>5 DEF NotePosition, Move
    <3>2. \/ thread'[t] = [thread[t] EXCEPT !.at = Rest(t)]
          \/ thread'[t] = [thread[t] EXCEPT !.at = "send",
                                            !.reported = Played(track, ts) \div Rate,
                                            !.report = [elapsed |-> Played(track, ts),
                                                        length |-> Total(track),
                                                        of |-> track]]
      BY <2>0, <2>5 DEF NotePosition, Move
    <3>3. thread'[t].cut = thread[t].cut /\ thread'[t].at \in {"send", Rest(t)}
      BY <2>0, <3>2 DEF Thread
    <3> QED BY <2>0, <2>1, <3>1, <3>3 DEF Budget
  <2>6. CASE Report(t)
    <3>1. /\ thread[t].at = "send" /\ thread'[t].cut = thread[t].cut
          /\ thread'[t].at = Rest(t) /\ after'[t] = after[t] + 1
      BY <2>0, <2>6 DEF Report, Move, Thread
    <3>2. Budget(thread[t]) = Budget(thread'[t]) + 1
      BY <2>1, <3>1 DEF Budget, Rest
    <3>3. Budget(thread'[t]) \in Nat
      BY BudgetNat
    <3> QED BY <1>2, <2>0, <3>1, <3>2, <3>3
  <2> QED BY <1>2, <2>2, <2>3, <2>4, <2>5, <2>6 DEF Play
<1> QED BY <1>1, <1>2

-----------------------------------------------------------------------------
\* Who stands behind the position shown: the thread that sent it, or the anchor.

Vouches(r) == r.at = "send" \/ r.reported = host.shown.elapsed \div Rate

Witness == \E t \in Threads : Vouches(thread[t])

Stands ==
  /\ \A t \in Threads : t > player => thread[t] = Idle
  /\ host.shown # Nothing =>
       Witness \/ (active /\ (host.shown.of = track \/ track = Nothing))

LEMMA StandsPlay ==
  ASSUME TypeInv, Telling, Stands, NEW t \in Threads, Play(t) PROVE Stands'
<1>0. /\ thread \in [Threads -> Thread] /\ host \in Hosts
      /\ UNCHANGED <<pc, active, track, player>>
  BY PlayLeaves DEF TypeInv, TypeOK, Hosts
<1>1. thread[t].at \notin {"none", "done"}
  BY PlayThread
<1>2. \A u \in Threads : u > player' => thread'[u] = Idle
  <2>1. thread[t] # Idle
    BY <1>1 DEF Idle
  <2> SUFFICES ASSUME NEW u \in Threads, u > player' PROVE thread'[u] = Idle
    OBVIOUS
  <2>2. thread[u] = Idle /\ u # t
    BY <1>0, <2>1 DEF Stands
  <2> QED BY <2>2, Others
<1>3. CASE thread'[t].at = "send"
  BY <1>2, <1>3 DEF Stands, Witness, Vouches
<1>4. CASE thread'[t].at # "send" /\ thread[t].at = "send"
  <2>1. /\ host' = [host EXCEPT !.shown = thread[t].report]
        /\ thread'[t].reported = thread[t].reported
    BY <1>4, PlayThread
  <2>2. thread[t].reported = thread[t].report.elapsed \div Rate
    BY <1>4 DEF Telling, Reporting
  <2>3. host'.shown = thread[t].report
    BY <1>0, <2>1 DEF Hosts
  <2>4. Vouches(thread[t])'
    BY <2>1, <2>2, <2>3 DEF Vouches
  <2> QED BY <1>2, <2>4 DEF Stands, Witness
<1>5. CASE thread'[t].at # "send" /\ thread[t].at # "send"
  <2>1. UNCHANGED host /\ thread'[t].reported = thread[t].reported
    BY <1>5, PlayThread
  <2>2. \A u \in Threads : Vouches(thread[u]) => Vouches(thread[u])'
    BY <1>5, <2>1, Others DEF Vouches
  <2> QED BY <1>0, <1>2, <2>1, <2>2 DEF Stands, Witness
<1> QED BY <1>3, <1>4, <1>5

\* No thread loses its witness to a step of the session.
LEMMA StandsThreads ==
  ASSUME TypeInv, Stands, Handle
  PROVE  /\ \A t \in Threads : t > player' => thread'[t] = Idle
         /\ host.shown # Nothing /\ UNCHANGED host /\ Witness => Witness'
<1>0. /\ thread \in [Threads -> Thread] /\ MaxStreams \in Nat
      /\ player \in 0..MaxStreams /\ host \in Hosts
  BY SessionAssumption DEF TypeInv, TypeOK, Hosts
<1>1. ASSUME host.shown # Nothing, UNCHANGED host, NEW u \in Threads, Vouches(thread[u])
      PROVE  Vouches(thread[u])'
  <2>1. host.shown.elapsed \in Nat
    BY <1>0, <1>1 DEF Hosts, Reports
  <2>2. host.shown.elapsed \div Rate # Nothing
    <3>1. Rate \in Nat \ {0} /\ Nothing \notin Nat
      BY SessionAssumption
    <3>2. \A n \in Nat : n \div Rate \in Nat
      BY <3>1
    <3> QED BY <2>1, <3>1, <3>2
  <2>3. thread[u] # Idle
    BY <1>1, <2>2 DEF Vouches, Idle
  <2>4. u # player + 1
    BY <1>0, <2>3 DEF Stands, Threads
  <2>5. Kept(thread'[u], thread[u])
    BY <2>4, HandleThread
  <2> QED BY <1>1, <2>5 DEF Kept, Vouches
<1>2. ASSUME NEW u \in Threads, u > player' PROVE thread'[u] = Idle
  <2>1. CASE UNCHANGED <<player, thread>>
    BY <1>2, <2>1 DEF Stands
  <2>2. \A n \in Nat : n > player => (n <= player) = FALSE
    BY <1>0
  <2>3. u \in Nat
    BY DEF Threads
  <2>4. [Idle EXCEPT !.stop = FALSE] = Idle
    <3>1. Idle \in Thread /\ Idle.stop = FALSE
      BY DEF Idle, Thread
    <3>2. \A r \in Thread : r.stop = FALSE => [r EXCEPT !.stop = FALSE] = r
      BY DEF Thread
    <3> HIDE DEF Idle
    <3> QED BY <3>1, <3>2
  <2>5. CASE Spawn
    <3>1. player' = player + 1 /\ u > player /\ u # player + 1
      BY <1>0, <1>2, <2>3, <2>5 DEF Spawn
    <3>2. thread'[u] = [thread[u] EXCEPT !.stop = u <= player]
      BY <2>5, <3>1 DEF Spawn
    <3>3. (u <= player) = FALSE /\ thread[u] = Idle
      BY <2>2, <2>3, <3>1 DEF Stands
    <3> QED BY <2>4, <3>2, <3>3
  <2>6. CASE Drop
    <3>1. thread'[u] = [thread[u] EXCEPT !.stop = u <= player] /\ u > player
      BY <1>2, <2>6 DEF Drop
    <3>2. (u <= player) = FALSE /\ thread[u] = Idle
      BY <2>2, <2>3, <3>1 DEF Stands
    <3> QED BY <2>4, <3>1, <3>2
  <2>7. ASSUME NEW p \in BOOLEAN, SetRateAnchor(p) PROVE thread'[u] = Idle
    <3>1. player' = player /\ u # player
      BY <1>0, <1>2, <2>3, <2>7 DEF SetRateAnchor
    <3> QED BY <1>2, <2>7, <3>1 DEF SetRateAnchor, Stands
  <2> QED BY <2>1, <2>5, <2>6, <2>7 DEF Handle, SetupChannels, StartStream, Replay,
            ClearTrack, Joined, Flush, Acknowledge, SetVolume, SetProgress, Describe,
            Teardown, Dropped, audio
<1> QED BY <1>1, <1>2 DEF Witness

LEMMA StandsHandle ==
  ASSUME TypeInv, Order, Stands, Handle PROVE Stands'
<1>0. host \in Hosts /\ \A u \in Threads : u > player' => thread'[u] = Idle
  BY StandsThreads DEF TypeInv, TypeOK, Hosts
<1> SUFFICES ASSUME host'.shown # Nothing
             PROVE  Witness' \/ (active' /\ (host'.shown.of = track' \/ track' = Nothing))
  BY <1>0 DEF Stands
<1>1. CASE StartStream \/ (\E p \in BOOLEAN : SetRateAnchor(p))
           \/ (\E k \in Kinds : Replay(k)) \/ (\E k \in Kinds, v \in Values : Describe(k, v))
  <2>1. host'.shown = host.shown
    <3>1. CASE StartStream
      BY <1>0, <3>1, HearIs DEF StartStream, Send, Hosts
    <3>2. CASE \E p \in BOOLEAN : SetRateAnchor(p)
      BY <1>0, <3>2, HearIs DEF SetRateAnchor, Send, Hosts
    <3>3. CASE \E k \in Kinds : Replay(k)
      BY <1>0, <3>3, HearIs DEF Replay, Send, Hosts, Kinds
    <3>4. CASE \E k \in Kinds, v \in Values : Describe(k, v)
      BY <1>0, <3>4, HearIs DEF Describe, Send, SendNothing, Hosts, Kinds
    <3> QED BY <1>1, <3>1, <3>2, <3>3, <3>4
  <2>2. UNCHANGED track /\ (active => active')
    BY <1>1 DEF StartStream, SetRateAnchor, Replay, Describe
  <2>3. \A u \in Threads : Kept(thread'[u], thread[u])
    <3>1. CASE \E p \in BOOLEAN : SetRateAnchor(p)
      <4>1. pc = "serving"
        BY <3>1 DEF SetRateAnchor, Call
      <4> QED BY <4>1, HandleThread
    <3>2. CASE UNCHANGED thread
      BY <3>2 DEF Kept
    <3> QED BY <1>1, <3>1, <3>2 DEF StartStream, Replay, Describe, audio
  <2>4. Witness => Witness'
    BY <2>1, <2>3 DEF Witness, Vouches, Kept
  <2> QED BY <2>1, <2>2, <2>4 DEF Stands
<1>2. CASE Spawn \/ Joined \/ Flush \/ Acknowledge \/ Dropped
           \/ (\E n \in Channels : SetupChannels(n)) \/ (\E v \in Volumes : SetVolume(v))
  <2>1. UNCHANGED <<host, active, track>>
    BY <1>2, HearIs DEF Spawn, Joined, Flush, Acknowledge, Dropped, SetupChannels, SetVolume,
                        Send, events
  <2>2. Witness => Witness'
    BY <2>1, StandsThreads
  <2> QED BY <2>1, <2>2 DEF Stands
<1>3. CASE ClearTrack
  BY <1>3 DEF ClearTrack, Order
<1>4. ASSUME NEW k \in Tracks, NEW c \in Times, SetProgress(k, c)
      PROVE  Witness' \/ (active' /\ host'.shown.of = track')
  <2>1. CASE active
    <3> DEFINE r == [elapsed |-> Past(k.start, c), length |-> Past(k.start, k.end), of |-> k]
    <3>1. host' = [host EXCEPT !.shown = r] /\ active' /\ track' = k
      BY <1>4, <2>1 DEF SetProgress, Show
    <3>2. r.of = k
      OBVIOUS
    <3> HIDE DEF r
    <3>3. host'.shown = r
      BY <1>0, <3>1 DEF Hosts
    <3> QED BY <3>1, <3>2, <3>3
  <2>2. CASE ~ active
    <3>1. UNCHANGED host
      BY <1>4, <2>2 DEF SetProgress, SendNothing
    <3> QED BY <2>2, <3>1, StandsThreads DEF Stands
  <2> QED BY <2>1, <2>2
<1>5. CASE Teardown \/ Drop
  <2>1. CASE active
    <3>1. host' = Dark
      BY <1>5, <2>1, HearIs DEF Teardown, Drop, EndSession, Send
    <3> QED BY <3>1 DEF Dark
  <2>2. CASE ~ active
    <3>1. UNCHANGED host
      BY <1>5, <2>2 DEF Teardown, Drop, EndSession, SendNothing
    <3> QED BY <2>2, <3>1, StandsThreads DEF Stands
  <2> QED BY <2>1, <2>2
<1> QED BY <1>1, <1>2, <1>3, <1>4, <1>5 DEF Handle

-----------------------------------------------------------------------------
\* The inductive invariant.

Inv ==
  /\ TypeInv /\ Telling
  /\ Order /\ NothingUnsaid
  /\ Gate
  /\ Budgeted
  /\ Stands

LEMMA InvInit == Init => Inv
<1> SUFFICES ASSUME Init PROVE Inv
  OBVIOUS
<1>1. \A t \in Threads : thread[t] = Idle /\ after[t] = 0
  BY DEF Init
<1>2. Idle.at = "none" /\ Idle.paused = FALSE
  BY DEF Idle
<1>3. Telling
  BY <1>1, <1>2 DEF Telling, Reporting
<1>4. Budgeted
  BY <1>1, <1>2 DEF Budgeted
<1>5. /\ Dark.open = FALSE /\ Dark.shown = Nothing /\ Dark.paused = FALSE
      /\ \A k \in Kinds : Dark[k] = Nothing /\ Silence[k] = Nothing
  BY DEF Dark, Silence, Kinds
<1>6. Order
  BY <1>5 DEF Init, Order, Kinds
<1>7. NothingUnsaid
  BY <1>5 DEF Init, NothingUnsaid
<1>8. Gate
  BY DEF Init, Gate
<1>9. Stands
  BY <1>1, <1>5 DEF Init, Stands
<1> QED BY <1>3, <1>4, <1>6, <1>7, <1>8, <1>9, TypeInvInit DEF Inv

LEMMA TypeInvHandle == ASSUME TypeInv, Handle PROVE TypeInv'
BY TypeInvTalk, TypeInvControl DEF Handle

LEMMA InvNext == Inv /\ [Next]_vars => Inv'
<1> SUFFICES ASSUME Inv, [Next]_vars PROVE Inv'
  OBVIOUS
<1> USE DEF Inv
<1>1. CASE Handle
  BY <1>1, TypeInvHandle, TellingHandle, OrderHandle, GateHandle, BudgetedHandle, StandsHandle
<1>2. ASSUME NEW t \in Threads, Play(t) PROVE Inv'
  <2>1. TypeInv'
    BY <1>2, TypeInvPlay DEF Telling
  <2> QED BY <1>2, <2>1, TellingPlay, OrderPlay, GatePlay, BudgetedPlay, StandsPlay
<1>3. CASE UNCHANGED vars
  <2>1. TypeInv'
    BY <1>3 DEF vars, TypeInv, TypeOK, Room
  <2>2. Telling' /\ Budgeted'
    BY <1>3 DEF vars, Telling, Budgeted, Reporting, Budget
  <2>3. Order' /\ NothingUnsaid' /\ Gate'
    BY <1>3 DEF vars, Order, NothingUnsaid, Gate
  <2>4. Stands'
    BY <1>3 DEF vars, Stands, Witness, Vouches
  <2> QED BY <2>1, <2>2, <2>3, <2>4
<1> QED BY <1>1, <1>2, <1>3 DEF Next

THEOREM Invariance == Spec => []Inv
BY InvInit, InvNext, PTL DEF Spec

\* Every variable keeps its type, for any tracks, payloads and bounds.
THEOREM TypeCorrect == Spec => []TypeOK
<1>1. Inv => TypeOK
  BY DEF Inv, TypeInv
<1> QED BY <1>1, Invariance, PTL

\* Metadata and artwork that a sender gives before, during or between streams
\* reach the host in the sender's order, or wait for the stream to come.
THEOREM LatestIsTold == Spec => []NothingUnsaid
<1>1. Inv => NothingUnsaid
  BY DEF Inv
<1> QED BY <1>1, Invariance, PTL

\* While a stream is served the host's pause indicator is the player's gate.
THEOREM IndicatorIsGate == Spec => []PausedMeansPaused
<1>1. Inv => PausedMeansPaused
  BY DEF Inv, Gate, PausedMeansPaused
<1> QED BY <1>1, Invariance, PTL

\* A thread reports at most two packets after its gate has closed.
THEOREM ClockFollowsGate == Spec => []ClockStops
<1>1. Inv => ClockStops
  <2> SUFFICES ASSUME Inv, NEW t \in Threads, thread[t].paused PROVE after[t] <= 2
    BY DEF ClockStops
  <2>1. after[t] \in Nat /\ after[t] + Budget(thread[t]) <= 2
    BY DEF Inv, TypeInv, TypeOK, Budgeted
  <2> QED BY <2>1, BudgetNat
<1> QED BY <1>1, Invariance, PTL

\* A position of a replaced anchor is shown no longer than its thread's second.
THEOREM StaleIsBrief == Spec => []StaleForASecond
<1>1. Inv => StaleForASecond
  <2> SUFFICES ASSUME Inv, track # Nothing, host.shown # Nothing, host.shown.of # track
               PROVE  \E t \in Threads : thread[t].at = "send"
                                   \/ thread[t].reported = host.shown.elapsed \div Rate
    BY DEF StaleForASecond
  <2>1. Witness
    BY DEF Inv, Stands
  <2> QED BY <2>1 DEF Witness, Vouches
<1> QED BY <1>1, Invariance, PTL

-----------------------------------------------------------------------------
\* The session implements the order of events that events.rs promises.

Over == pc = "dropped"
Open == active /\ host.open

LEMMA PromiseInit == Init => Promise!Init
BY DEF Init, Promise!Init, Promise!Event, Event

LEMMA OpenIsActive == ASSUME Inv PROVE Open = active
<1>1. active \in BOOLEAN /\ active = host.open
  BY DEF Inv, TypeInv, TypeOK, Order
<1> QED BY <1>1 DEF Open

\* A session that is gone takes no further step.
LEMMA Gone == ASSUME Inv, Next PROVE pc # "dropped"
<1>1. ASSUME NEW t \in Threads, Play(t) PROVE pc # "dropped"
  BY <1>1, PlayThread DEF Inv, Order
<1>2. Handle => pc # "dropped"
  BY DEF Handle, SetupChannels, StartStream, Replay, ClearTrack, Joined, Flush,
         Acknowledge, SetVolume, SetProgress, Describe, Teardown, Dropped, Spawn, Drop,
         SetRateAnchor, Call
<1> QED BY <1>1, <1>2 DEF Next

\* A step that ends nothing and is none of the others.
LEMMA Silent ==
  ASSUME Inv, Inv', UNCHANGED <<active, last>>, ~ Over, ~ Over'
  PROVE  [Promise!Next]_(Promise!vars)
<1>1. Open' = Open /\ Over' = Over
  BY OpenIsActive DEF Open, Over, Inv, Order
<1> QED BY <1>1 DEF Promise!vars, Open, Over

LEMMA Said ==
  ASSUME Inv, Inv', UNCHANGED active, ~ Over, ~ Over',
         \/ \E k \in {"progress", "paused", "resumed", "flushed"} : last' = Event(k, 0)
         \/ \E v \in MuteDb..FullDb : last' = Event("volume", v)
         \/ active /\ \E k \in {"metadata", "artwork"}, v \in Values : last' = Event(k, v)
  PROVE  [Promise!Next]_(Promise!vars)
<1>1. Open' = Open /\ Over' = Over /\ Open = active
  BY OpenIsActive DEF Open, Over, Inv, Order
<1>2. CASE active /\ \E k \in {"metadata", "artwork"}, v \in Values : last' = Event(k, v)
  BY <1>1, <1>2 DEF Promise!Next, Promise!Item, Promise!Event, Event, Open, Over
<1>3. CASE \/ \E k \in {"progress", "paused", "resumed", "flushed"} : last' = Event(k, 0)
           \/ \E v \in MuteDb..FullDb : last' = Event("volume", v)
  BY <1>1, <1>3 DEF Promise!Next, Promise!Report, Promise!Event, Event, Open, Over
<1> QED BY <1>2, <1>3

LEMMA Ends ==
  ASSUME Inv, Inv', EndSession, ~ Over, ~ Over'
  PROVE  [Promise!Next]_(Promise!vars)
<1>1. CASE active
  <2>1. last' = Event("ended", 0) /\ active' = FALSE
    BY <1>1 DEF EndSession, Send
  <2>2. Open /\ Open' = FALSE
    BY <1>1, <2>1, OpenIsActive DEF Open
  <2> QED BY <2>1, <2>2 DEF Promise!Next, Promise!End, Promise!Event, Event, Open, Over
<1>2. CASE ~ active
  <2>1. active = FALSE
    BY <1>2 DEF Inv, TypeInv, TypeOK
  <2>2. UNCHANGED <<active, last>>
    BY <1>2, <2>1 DEF EndSession, SendNothing
  <2> QED BY <2>2, Silent
<1> QED BY <1>1, <1>2 DEF Inv, TypeInv, TypeOK

LEMMA PromisePlay ==
  ASSUME Inv, Inv', NEW t \in Threads, Play(t)
  PROVE  [Promise!Next]_(Promise!vars)
<1>1. UNCHANGED <<pc, active>> /\ ~ Over /\ ~ Over'
  BY PlayLeaves, Gone DEF Next, Over
<1>2. UNCHANGED last \/ last' = Event("progress", 0)
  BY DEF Play, Wake, Take, Look, NotePosition, Report, Show
<1> QED BY <1>1, <1>2, Silent, Said

LEMMA PromiseHandle ==
  ASSUME Inv, Inv', Handle
  PROVE  [Promise!Next]_(Promise!vars)
<1>0. ~ Over
  BY Gone DEF Next, Over
<1>1. CASE StartStream
  <2>1. last' = Event("started", 0) /\ active' = TRUE /\ ~ Over' /\ host'.open = TRUE
    <3>1. host \in Hosts
      BY DEF Inv, TypeInv, TypeOK, Hosts
    <3> QED BY <1>1, <3>1, HearIs DEF StartStream, Send, Call, Over, Hosts
  <2> QED BY <1>0, <2>1 DEF Promise!Next, Promise!Start, Promise!Event, Event, Open, Over
<1>2. ASSUME NEW k \in Kinds, Replay(k) PROVE [Promise!Next]_(Promise!vars)
  <2>1. /\ last' = Event(k, pending[k]) /\ UNCHANGED active /\ ~ Over' /\ active
        /\ pending[k] \in Values /\ k \in {"metadata", "artwork"}
    BY <1>0, <1>2 DEF Replay, Send, control, Over, Inv, Order, TypeInv, TypeOK, Kinds
  <2> QED BY <1>0, <2>1, Said
<1>3. CASE ClearTrack \/ Spawn \/ Joined \/ Acknowledge \/ (\E n \in Channels : SetupChannels(n))
  <2>1. UNCHANGED <<active, last>> /\ ~ Over'
    BY <1>3 DEF ClearTrack, Spawn, Joined, Acknowledge, SetupChannels, Call, events, Over
  <2> QED BY <1>0, <2>1, Silent
<1>4. CASE Flush \/ (\E p \in BOOLEAN : SetRateAnchor(p))
  <2>1. /\ \E k \in {"progress", "paused", "resumed", "flushed"} : last' = Event(k, 0)
        /\ UNCHANGED active /\ ~ Over'
    BY <1>4 DEF Flush, SetRateAnchor, Call, Send, Over
  <2> QED BY <1>0, <2>1, Said
<1>5. ASSUME NEW v \in Volumes, SetVolume(v) PROVE [Promise!Next]_(Promise!vars)
  <2>1. last' = Event("volume", Clamp(v)) /\ UNCHANGED active /\ ~ Over'
    BY <1>5 DEF SetVolume, Call, Send, Over
  <2> QED BY <1>0, <2>1, ClampInRange, Said
<1>6. ASSUME NEW k \in Tracks, NEW c \in Times, SetProgress(k, c)
      PROVE  [Promise!Next]_(Promise!vars)
  <2>1. UNCHANGED active /\ ~ Over' /\ (UNCHANGED last \/ last' = Event("progress", 0))
    BY <1>6 DEF SetProgress, Call, Show, SendNothing, Over
  <2> QED BY <1>0, <2>1, Silent, Said
<1>7. ASSUME NEW k \in Kinds, NEW v \in Values, Describe(k, v)
      PROVE  [Promise!Next]_(Promise!vars)
  <2>1. UNCHANGED active /\ ~ Over' /\ (UNCHANGED last \/ (active /\ last' = Event(k, v)))
    BY <1>7 DEF Describe, Call, Send, SendNothing, Over
  <2> QED BY <1>0, <2>1, Silent, Said DEF Kinds
<1>8. CASE Teardown \/ Drop
  <2>1. EndSession /\ ~ Over'
    BY <1>8 DEF Teardown, Drop, Call, Over
  <2> QED BY <1>0, <2>1, Ends
<1>9. CASE Dropped
  <2>1. Over' /\ UNCHANGED <<last, active, host>> /\ ~ active
    BY <1>9 DEF Dropped, events, Over, Inv, Order
  <2> QED BY <2>1 DEF Promise!Next, Promise!Close, Open, Over
<1> QED BY <1>1, <1>2, <1>3, <1>4, <1>5, <1>6, <1>7, <1>8, <1>9 DEF Handle

\* The events a host receives are in the order events.rs promises, however the
\* sender's requests and the playback threads' reports interleave.
THEOREM PromiseKept == Spec => ImplementsEvents
<1>1. Inv /\ Inv' /\ [Next]_vars => [Promise!Next]_(Promise!vars)
  <2> SUFFICES ASSUME Inv, Inv', [Next]_vars PROVE [Promise!Next]_(Promise!vars)
    OBVIOUS
  <2>1. CASE UNCHANGED vars
    BY <2>1 DEF vars, Promise!vars
  <2> QED BY <2>1, PromiseHandle, PromisePlay DEF Next
<1> QED BY <1>1, PromiseInit, Invariance, PTL DEF Spec, ImplementsEvents, Promise!Spec
=============================================================================
