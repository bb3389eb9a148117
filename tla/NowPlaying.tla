----------------------------- MODULE NowPlaying -----------------------------
(***************************************************************************)
(* What is playing, from the receiver's event task to the displays: the    *)
(* Publisher's snapshot and bounded broadcast channel and the task that    *)
(* serves one display (openairplay2-receiver/src/tui.rs), the snapshot's   *)
(* fold (openairplay2-tui-protocol/src/lib.rs), the display's own fold     *)
(* (openairplay2-tui/src/tui.rs) and its reconnects (client.rs).           *)
(*                                                                         *)
(* A message's payload is a member of Values; Nothing is an absent one.    *)
(***************************************************************************)
EXTENDS Naturals, Sequences

CONSTANTS
  Displays,   \* displays that may connect
  Values,     \* payloads of messages
  Nothing,    \* no payload
  Capacity,   \* CHANNEL_CAPACITY: messages kept for a display that is behind
  WireRoom,   \* frames in flight to a display before a send to it blocks
  MaxPublished, \* bound: events published
  MaxLinks    \* bound: connections of one display

ASSUME NowPlayingAssumption ==
  /\ Nothing \notin Values
  /\ Capacity \in Nat \ {0} /\ WireRoom \in Nat \ {0}
  /\ MaxPublished \in Nat /\ MaxLinks \in Nat

Optional == Values \cup {Nothing}

\* What a snapshot and a display's state both hold.
States == [session : Optional, track : Optional, artwork : Optional,
           volume : Optional, progress : Optional, paused : BOOLEAN]

Blank == [session |-> Nothing, track |-> Nothing, artwork |-> Nothing,
          volume |-> Nothing, progress |-> Nothing, paused |-> FALSE]

Msg(t, v) == [type |-> t, val |-> v]
Snap(s) == Msg("snapshot", s)

\* The messages an event can become (to_message).
Messages ==
  {Msg(t, v) : t \in {"started", "metadata", "artwork", "volume", "progress"},
               v \in Values}
  \cup {Msg(t, Nothing) : t \in {"artwork", "paused", "resumed", "flushed", "ended"}}

-----------------------------------------------------------------------------
\* Snapshot::apply.
SnapshotApply(s, m) ==
  CASE m.type = "snapshot" -> m.val
    [] m.type = "started"  -> [s EXCEPT !.session = m.val, !.paused = FALSE]
    [] m.type = "metadata" -> [s EXCEPT !.track = m.val]
    [] m.type = "artwork"  -> [s EXCEPT !.artwork = m.val]
    [] m.type = "volume"   -> [s EXCEPT !.volume = m.val]
    [] m.type = "progress" -> [s EXCEPT !.progress = m.val]
    [] m.type = "paused"   -> [s EXCEPT !.paused = TRUE]
    [] m.type = "resumed"  -> [s EXCEPT !.paused = FALSE]
    [] m.type = "flushed"  -> s
    [] m.type = "ended"    -> Blank

\* NowPlaying::apply_message and apply_snapshot.
DisplayApply(d, m) ==
  CASE m.type = "snapshot" ->
         [d EXCEPT !.session = m.val.session, !.track = m.val.track,
                   !.volume = m.val.volume, !.progress = m.val.progress,
                   !.artwork = m.val.artwork, !.paused = m.val.paused]
    [] m.type = "started"  -> [d EXCEPT !.session = m.val, !.paused = FALSE]
    [] m.type = "metadata" -> [d EXCEPT !.track = m.val]
    [] m.type = "artwork"  -> [d EXCEPT !.artwork = m.val]
    [] m.type = "volume"   -> [d EXCEPT !.volume = m.val]
    [] m.type = "paused"   -> [d EXCEPT !.paused = TRUE]
    [] m.type = "resumed"  -> [d EXCEPT !.paused = FALSE]
    [] m.type = "progress" -> [d EXCEPT !.progress = m.val]
    [] m.type = "flushed"  -> d
    [] m.type = "ended"    ->
         [d EXCEPT !.session = Nothing, !.track = Nothing, !.progress = Nothing,
                   !.artwork = Nothing, !.paused = FALSE]

-----------------------------------------------------------------------------
VARIABLES
  snapshot,  \* the Publisher's snapshot
  unsent,    \* the message applied to it and not yet broadcast
  published, \* events published
  link,      \* each display's connection: "down", "handshake" or "up"
  links,     \* connections made
  queue,     \* what the broadcast channel keeps for its task
  lagged,    \* TRUE when the channel overwrote something it had not read
  wire,      \* frames sent and not yet read
  shown      \* the display's state

feed == <<snapshot, unsent, published, link, links, queue, lagged, wire, shown>>
peer == <<link, links, queue, lagged, wire, shown>>

FeedInit ==
  /\ snapshot = Blank /\ unsent = <<>> /\ published = 0
  /\ link = [d \in Displays |-> "down"] /\ links = [d \in Displays |-> 0]
  /\ queue = [d \in Displays |-> <<>>] /\ lagged = [d \in Displays |-> FALSE]
  /\ wire = [d \in Displays |-> <<>>]
  /\ shown = [d \in Displays |-> Blank]

\* The library reports metadata, artwork and the end inside a session only;
\* volume, pause, flush and (from the playback thread) progress at any time.
\* One session at a time (OneSession of Takeover): when sessions overlap, the
\* end of the old one would follow the start of the new.
Possible(m) ==
  m.type \in {"metadata", "artwork", "ended"} => snapshot.session # Nothing

\* Publisher::publish: apply under the lock ...
Publish(m) ==
  /\ unsent = <<>> /\ published < MaxPublished /\ Possible(m)
  /\ published' = published + 1
  /\ snapshot' = SnapshotApply(snapshot, m)
  /\ unsent' = <<m>>
  /\ UNCHANGED peer

\* ... then broadcast: the oldest message gives way, the publisher never waits.
Broadcast ==
  /\ unsent # <<>>
  /\ LET full(d) == Len(queue[d]) = Capacity
     IN /\ queue' = [d \in Displays |->
              IF link[d] = "down" THEN queue[d]
              ELSE (IF full(d) THEN Tail(queue[d]) ELSE queue[d]) \o unsent]
        /\ lagged' = [d \in Displays |->
              lagged[d] \/ (link[d] # "down" /\ full(d))]
  /\ unsent' = <<>>
  /\ UNCHANGED <<snapshot, published, link, links, wire, shown>>

\* serve_client subscribes before the handshake.
Subscribe(d) ==
  /\ link[d] = "down" /\ links[d] < MaxLinks
  /\ link' = [link EXCEPT ![d] = "handshake"]
  /\ links' = [links EXCEPT ![d] = @ + 1]
  /\ UNCHANGED <<snapshot, unsent, published, queue, lagged, wire, shown>>

SendSnapshot(d) ==
  /\ link[d] = "handshake"
  /\ link' = [link EXCEPT ![d] = "up"]
  /\ wire' = [wire EXCEPT ![d] = Append(@, Snap(snapshot))]
  /\ UNCHANGED <<snapshot, unsent, published, links, queue, lagged, shown>>

\* Mutants of Forward: a lag is passed over without a snapshot; a lag is
\* never recovered from.
ForwardWithoutResync(d) ==
  /\ link[d] = "up" /\ Len(wire[d]) < WireRoom /\ queue[d] # <<>>
  /\ wire' = [wire EXCEPT ![d] = Append(@, Head(queue[d]))]
  /\ queue' = [queue EXCEPT ![d] = Tail(@)]
  /\ lagged' = [lagged EXCEPT ![d] = FALSE]
  /\ UNCHANGED <<snapshot, unsent, published, link, links, shown>>
ForwardUntilLag(d) ==
  /\ link[d] = "up" /\ Len(wire[d]) < WireRoom /\ ~ lagged[d] /\ queue[d] # <<>>
  /\ wire' = [wire EXCEPT ![d] = Append(@, Head(queue[d]))]
  /\ queue' = [queue EXCEPT ![d] = Tail(@)]
  /\ UNCHANGED <<snapshot, unsent, published, link, links, lagged, shown>>

\* changes.recv(): a display that fell behind gets a snapshot, then whatever
\* the channel still keeps.
Forward(d) ==
  /\ link[d] = "up" /\ Len(wire[d]) < WireRoom
  /\ \/ /\ lagged[d]
        /\ lagged' = [lagged EXCEPT ![d] = FALSE]
        /\ wire' = [wire EXCEPT ![d] = Append(@, Snap(snapshot))]
        /\ UNCHANGED queue
     \/ /\ ~ lagged[d] /\ queue[d] # <<>>
        /\ wire' = [wire EXCEPT ![d] = Append(@, Head(queue[d]))]
        /\ queue' = [queue EXCEPT ![d] = Tail(@)]
        /\ UNCHANGED lagged
  /\ UNCHANGED <<snapshot, unsent, published, link, links, shown>>

Read(d) ==
  /\ wire[d] # <<>>
  /\ shown' = [shown EXCEPT ![d] = DisplayApply(@, Head(wire[d]))]
  /\ wire' = [wire EXCEPT ![d] = Tail(@)]
  /\ UNCHANGED <<snapshot, unsent, published, link, links, queue, lagged>>

\* Either end goes away; the screen keeps what it last showed.
Disconnect(d) ==
  /\ link[d] # "down"
  /\ link' = [link EXCEPT ![d] = "down"]
  /\ queue' = [queue EXCEPT ![d] = <<>>]
  /\ lagged' = [lagged EXCEPT ![d] = FALSE]
  /\ wire' = [wire EXCEPT ![d] = <<>>]
  /\ UNCHANGED <<snapshot, unsent, published, links, shown>>

Serve(d) == SendSnapshot(d) \/ Forward(d) \/ Read(d)

FeedNext ==
  \/ \E m \in Messages : Publish(m)
  \/ Broadcast
  \/ \E d \in Displays : Subscribe(d) \/ Serve(d) \/ Disconnect(d)

FeedSpec == FeedInit /\ [][FeedNext]_feed

\* The event task and the tasks serving displays are scheduled; a display
\* that is connected reads.  Nothing makes a display connect or stay.
FeedFairSpec ==
  FeedSpec /\ WF_feed(Broadcast) /\ \A d \in Displays : WF_feed(Serve(d))

-----------------------------------------------------------------------------
Frames == Messages \cup {Snap(s) : s \in States}

FeedTypeOK ==
  /\ snapshot \in States /\ published \in 0..MaxPublished
  /\ Len(unsent) <= 1 /\ \A i \in DOMAIN unsent : unsent[i] \in Messages
  /\ \A d \in Displays :
       /\ link[d] \in {"down", "handshake", "up"} /\ links[d] \in 0..MaxLinks
       /\ Len(queue[d]) <= Capacity /\ lagged[d] \in BOOLEAN
       /\ Len(wire[d]) <= WireRoom
       /\ shown[d] \in States

\* All a display will still be sent, were nothing published any more.
Coming(d) ==
  wire[d]
    \o (IF link[d] = "handshake" \/ lagged[d] THEN <<Snap(snapshot)>> ELSE <<>>)
    \o queue[d] \o unsent

Eventually(d) ==
  LET after[i \in 0..Len(Coming(d))] ==
        IF i = 0 THEN shown[d] ELSE DisplayApply(after[i - 1], Coming(d)[i])
  IN  after[Len(Coming(d))]

\* A connected display is never wrong for good: with what is on its way, and
\* however often it fell behind or connected in the middle of a change, it
\* ends up showing the session, track, cover, position and pause state the
\* receiver knows (subscribe-then-snapshot, resync, replay of kept messages).
NothingIsLost ==
  \A d \in Displays : link[d] # "down" =>
    [Eventually(d) EXCEPT !.volume = Nothing] = [snapshot EXCEPT !.volume = Nothing]

\* A display that stays connected catches up once the events stop, however
\* far behind it was.
CatchesUp ==
  \A d \in Displays :
    <>[](link[d] = "up" /\ published = MaxPublished)
      => <>[](shown[d].track = snapshot.track /\ shown[d].session = snapshot.session)
=============================================================================
