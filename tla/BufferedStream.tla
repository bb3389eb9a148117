--------------------------- MODULE BufferedStream ---------------------------
(***************************************************************************)
(* A seek on a buffered stream (openairplay2/src/session.rs): FLUSHBUFFERED*)
(* names audio by sequence number wherever it is.  What the player holds is*)
(* discarded by its thread; what is still in the data socket is skipped by *)
(* the reader task, which watches the boundary `flush_until_seq' and clears*)
(* it when the stream reaches it.  Session task, readers and playback      *)
(* thread run side by side, and a second SETUP leaves the first stream's   *)
(* reader running.                                                         *)
(*                                                                         *)
(* A packet is its number in the order of sending; a socket and a queue are*)
(* the sets of their packets, taken in that order.  The thread is what     *)
(* Player shows it to be: it takes a request, then discards what that      *)
(* names; in between it plays.  Pausing only delays it.                    *)
(***************************************************************************)
EXTENDS Naturals, FiniteSets

CONSTANTS
  MaxStreams,  \* bound: buffered streams set up on the connection
  MaxPackets,  \* bound: packets sent
  MaxSeq,      \* bound: the highest sequence number sent
  MaxBatch,    \* packets one socket read can complete
  MaxQueued,   \* max_queued_samples, in packets
  FlushCalls,  \* flushUntilSeq of a FLUSHBUFFERED: {b}, or {} when it has none
  MaxFlushes   \* bound: FLUSHBUFFERED requests

ASSUME BufferedStreamAssumption ==
  /\ MaxStreams \in Nat \ {0} /\ MaxPackets \in Nat /\ MaxSeq \in Nat
  /\ MaxBatch \in Nat \ {0} /\ MaxQueued \in Nat /\ MaxFlushes \in Nat
  /\ FlushCalls \subseteq ({{}} \cup {{b} : b \in 0..MaxSeq})

Streams == 1..MaxStreams
Packets == 1..MaxPackets
NoPacket == 0

VARIABLES
  \* the sender
  sent, seq,    \* packets sent, the sequence number of each
  next,         \* the sequence number it sends next
  target,       \* the boundary its audio has yet to reach, 0 when it has
  \* the session task
  cur,          \* the latest stream
  ctl, below,   \* how far the handler of a request is, the flush it handles
  flushes,      \* flushes handled
  boundary,     \* flush_until_seq
  \* each stream's reader
  wire,         \* packets in the data socket
  batch,        \* packets read and not yet looked at
  hand, rpc,    \* the packet it works on, and where it is
  loaded,       \* the boundary it loaded for that packet
  \* each stream's player
  queue,        \* packets counted as queued or held
  request,      \* the flush request: {} or {below}
  flushing,     \* the request the thread is serving: {} or {below}
  sounding      \* packets in the sink since it was last flushed

VARIABLES
  \* history, read by no action of the code
  named,        \* packets some flush named after they were sent
  due,          \* those nothing stood in front of when it did
  skipped,      \* packets the reader of the latest stream skipped
  usurped       \* a reader of an older stream cleared the boundary

sender == <<sent, seq, next, target>>
session == <<cur, ctl, below, flushes>>
reader == <<wire, batch, hand, rpc, loaded>>
player == <<queue, request, flushing, sounding>>
history == <<named, due, skipped, usurped>>
vars == <<sender, session, boundary, reader, player, history>>

\* Does a flush until `b' (or of everything) ask for sequence number q?
AsksFor(b, q) == b = {} \/ \E x \in b : q < x
Bound(b) == CHOOSE x \in b : TRUE

InHand(s) == {hand[s]} \ {NoPacket}

\* What the stream's reader has not yet handed over, and what of it a flush
\* meets before anything it keeps.
Coming(s) == InHand(s) \cup batch[s] \cup wire[s]
Front(s, b) ==
  {p \in Coming(s) : \A q \in Coming(s) : q <= p => AsksFor(b, seq[q])}

First(p, S) == p \in S /\ \A q \in S : p <= q

Init ==
  /\ sent = 0 /\ seq = [p \in Packets |-> 0] /\ next = 1 /\ target = 0
  /\ cur = 1 /\ ctl = "idle" /\ below = {} /\ flushes = 0 /\ boundary = 0
  /\ wire = [s \in Streams |-> {}] /\ batch = [s \in Streams |-> {}]
  /\ hand = [s \in Streams |-> NoPacket] /\ rpc = [s \in Streams |-> "read"]
  /\ loaded = [s \in Streams |-> 0]
  /\ queue = [s \in Streams |-> {}]
  /\ request = {} /\ flushing = {} /\ sounding = {}
  /\ named = {} /\ due = {} /\ skipped = {} /\ usurped = FALSE

-----------------------------------------------------------------------------
\* The sender.  It numbers upwards, starts again at the boundary after a seek
\* and sends nothing while it waits for an answer.

SendPacket ==
  /\ ctl = "idle" /\ sent < MaxPackets /\ next <= MaxSeq
  /\ sent' = sent + 1
  /\ seq' = [seq EXCEPT ![sent + 1] = next]
  /\ next' = next + 1
  /\ target' = IF next >= target THEN 0 ELSE target
  /\ wire' = [wire EXCEPT ![cur] = @ \cup {sent + 1}]
  /\ UNCHANGED <<session, boundary, batch, hand, rpc, loaded, player, history>>

\* A re-send epoch: lower numbers again, once the last boundary was reached.
Rewind ==
  /\ ctl = "idle" /\ target = 0 /\ next > 1
  /\ next' = 1
  /\ UNCHANGED <<sent, seq, target, session, boundary, reader, player, history>>

-----------------------------------------------------------------------------
\* The session task.

\* History of a flush, and its sender's next packet: at the boundary at least.
Name(b) ==
  LET held == {p \in queue[cur] \cup sounding : AsksFor(b, seq[p])}
      arriving == {p \in Coming(cur) : b # {} /\ AsksFor(b, seq[p])}
  IN /\ named' = named \cup held \cup arriving
     /\ due' = IF b = {} THEN due \cup held ELSE held \cup Front(cur, b)
     /\ next' = IF b # {} /\ AsksFor(b, next) THEN Bound(b) ELSE next
     /\ target' = IF b = {} THEN target ELSE Bound(b)

StoreNoBoundary(b) ==
  /\ ctl = "idle" /\ flushes < MaxFlushes
  /\ ctl' = "request" /\ below' = b /\ flushes' = flushes + 1
  /\ Name(b)
  /\ UNCHANGED <<sent, seq, cur, boundary, reader, player, skipped, usurped>>

\* Session::flush: the reader's boundary first ...
StoreBoundary(b) ==
  /\ ctl = "idle" /\ flushes < MaxFlushes
  /\ ctl' = "request" /\ below' = b /\ flushes' = flushes + 1
  /\ boundary' = IF b = {} THEN boundary ELSE Bound(b)
  /\ Name(b)
  /\ UNCHANGED <<sent, seq, cur, reader, player, skipped, usurped>>

\* ... then the player's request.
RequestFlush ==
  /\ ctl = "request"
  /\ request' = {below}
  /\ ctl' = "idle"
  /\ UNCHANGED <<sender, cur, below, flushes, boundary, reader, queue, flushing,
                 sounding, history>>

\* Mutant of ResetBoundary: a new stream keeps the old boundary.
ResetNothing ==
  /\ ctl = "idle" /\ cur < MaxStreams
  /\ ctl' = "spawn" /\ next' = 1 /\ target' = 0 /\ due' = {}
  /\ UNCHANGED <<sent, seq, cur, below, flushes, boundary, reader, player,
                 named, skipped, usurped>>

\* start_buffered_audio: a new stream numbers its packets afresh ...
ResetBoundary ==
  /\ ctl = "idle" /\ cur < MaxStreams
  /\ ctl' = "spawn" /\ boundary' = 0
  /\ next' = 1 /\ target' = 0 /\ due' = {}
  /\ UNCHANGED <<sent, seq, cur, below, flushes, reader, player,
                 named, skipped, usurped>>

\* ... and has a player and a reader of its own.  The old player is dropped,
\* its thread joined and its count left as it is; the old reader runs on.
SpawnStream ==
  /\ ctl = "spawn"
  /\ ctl' = "idle" /\ cur' = cur + 1
  /\ request' = {} /\ flushing' = {} /\ sounding' = {}
  /\ UNCHANGED <<sender, below, flushes, boundary, reader, queue, history>>

-----------------------------------------------------------------------------
\* The reader of stream s: buffered_audio and skip_before_boundary.

\* One read, behind the backpressure gate, completes some packets.
ReadSocket(s) ==
  /\ rpc[s] = "read" /\ batch[s] = {} /\ hand[s] = NoPacket
  /\ Cardinality(queue[s]) <= MaxQueued
  /\ \E B \in SUBSET wire[s] :
       /\ B # {} /\ Cardinality(B) <= MaxBatch
       /\ \A p \in B, q \in wire[s] \ B : p < q
       /\ batch' = [batch EXCEPT ![s] = B]
       /\ wire' = [wire EXCEPT ![s] = @ \ B]
  /\ UNCHANGED <<sender, session, boundary, hand, rpc, loaded, player, history>>

\* The next packet: without a boundary it is played, below it skipped, and
\* otherwise it has reached it.
LoadBoundary(s) ==
  /\ rpc[s] = "read"
  /\ \E p \in batch[s] :
       /\ First(p, batch[s])
       /\ batch' = [batch EXCEPT ![s] = @ \ {p}]
       /\ IF boundary # 0 /\ seq[p] < boundary
          THEN /\ skipped' = IF s = cur THEN skipped \cup {p} ELSE skipped
               /\ UNCHANGED <<hand, rpc, loaded>>
          ELSE /\ hand' = [hand EXCEPT ![s] = p]
               /\ rpc' = [rpc EXCEPT ![s] = IF boundary = 0 THEN "play" ELSE "consume"]
               /\ loaded' = [loaded EXCEPT ![s] = boundary]
               /\ UNCHANGED skipped
  /\ UNCHANGED <<sender, session, boundary, wire, player, named, due, usurped>>

ConsumeNothing(s) ==
  /\ rpc[s] = "consume"
  /\ rpc' = [rpc EXCEPT ![s] = "play"]
  /\ UNCHANGED <<sender, session, boundary, wire, batch, hand, loaded, player,
                 history>>

\* compare_exchange: a newer boundary stays in place.
Consume(s) ==
  /\ rpc[s] = "consume"
  /\ boundary' = IF boundary = loaded[s] THEN 0 ELSE boundary
  /\ usurped' = (usurped \/ (s # cur /\ boundary = loaded[s]))
  /\ rpc' = [rpc EXCEPT ![s] = "play"]
  /\ UNCHANGED <<sender, session, wire, batch, hand, loaded, player,
                 named, due, skipped>>

\* Decrypted, decoded and played, or dropped if it cannot be.
PlayPacket(s) ==
  /\ rpc[s] = "play"
  /\ \E got \in {{}, {hand[s]}} : queue' = [queue EXCEPT ![s] = @ \cup got]
  /\ hand' = [hand EXCEPT ![s] = NoPacket]
  /\ rpc' = [rpc EXCEPT ![s] = "read"]
  /\ UNCHANGED <<sender, session, boundary, wire, batch, loaded,
                 request, flushing, sounding, history>>

-----------------------------------------------------------------------------
\* The playback thread of the latest stream.

\* The swap, and the sink's flush with it.
TakeRequest ==
  /\ flushing = {} /\ request # {}
  /\ flushing' = request /\ request' = {}
  /\ sounding' = {}
  /\ UNCHANGED <<sender, session, boundary, reader, queue, history>>

\* The drain and the retain.
Retain ==
  /\ \E b \in flushing :
       queue' = [queue EXCEPT ![cur] = {p \in @ : ~ AsksFor(b, seq[p])}]
  /\ flushing' = {}
  /\ UNCHANGED <<sender, session, boundary, reader, request, sounding, history>>

PlayNext ==
  /\ flushing = {}
  /\ \E p \in queue[cur] :
       /\ First(p, queue[cur])
       /\ queue' = [queue EXCEPT ![cur] = @ \ {p}]
       /\ sounding' = sounding \cup {p}
  /\ UNCHANGED <<sender, session, boundary, reader, request, flushing, history>>

-----------------------------------------------------------------------------
Sender == SendPacket \/ Rewind
SessionTask ==
  \/ \E b \in FlushCalls : StoreBoundary(b)
  \/ RequestFlush \/ ResetBoundary \/ SpawnStream
Reader(s) == ReadSocket(s) \/ LoadBoundary(s) \/ Consume(s) \/ PlayPacket(s)
Thread == TakeRequest \/ Retain \/ PlayNext

Next == Sender \/ SessionTask \/ Thread \/ \E s \in Streams : Reader(s)

Spec == Init /\ [][Next]_vars

-----------------------------------------------------------------------------
TypeOK ==
  /\ sent \in 0..MaxPackets /\ seq \in [Packets -> 0..MaxSeq]
  /\ next \in 0..(MaxSeq + 1) /\ target \in 0..MaxSeq
  /\ cur \in Streams /\ ctl \in {"idle", "request", "spawn"}
  /\ below \in FlushCalls \cup {{}} /\ flushes \in 0..MaxFlushes
  /\ boundary \in 0..MaxSeq
  /\ wire \in [Streams -> SUBSET Packets]
  /\ batch \in [Streams -> SUBSET Packets]
  /\ queue \in [Streams -> SUBSET Packets]
  /\ hand \in [Streams -> Packets \cup {NoPacket}]
  /\ rpc \in [Streams -> {"read", "consume", "play"}]
  /\ loaded \in [Streams -> 0..MaxSeq]
  /\ request \in SUBSET FlushCalls /\ flushing \in SUBSET FlushCalls
  /\ \A S \in {sounding, named, due, skipped} : S \subseteq Packets
  /\ usurped \in BOOLEAN

\* No wanted audio is lost to a seek: a packet the reader skips was named by a
\* flush made after it was sent; a boundary outlives neither its flush, in a
\* re-send epoch, nor its stream (skip_before_boundary, start_buffered_audio).
NothingWantedSkipped == skipped \subseteq named

\* A flush is over once both its halves were served.
Served == ctl = "idle" /\ request = {} /\ flushing = {}
Stale == due \cap (queue[cur] \cup sounding)

\* Of all that the latest flush named and nothing it keeps preceded, at most
\* one packet is heard after it: the one its reader had in hand.
AtMostOneSlips == Served /\ ~ usurped => Cardinality(Stale) <= 1

\* A boundary goes only when a packet that reaches it is at hand, whatever
\* flush came between its load and the exchange ("a concurrent newer flush
\* wins the exchange and stays in place"), or with its stream.
ClearedWhenReached ==
  [][boundary # 0 /\ boundary' = 0 =>
       \/ ctl = "idle" /\ ctl' # "idle"
       \/ \E s \in Streams : rpc[s] = "consume" /\ seq[hand[s]] >= boundary]_vars
=============================================================================
