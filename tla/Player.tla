------------------------------- MODULE Player -------------------------------
(***************************************************************************)
(* The playback queue of openairplay2/src/player.rs: the dedicated thread  *)
(* `run', the out-of-band flags it watches, and the calls of PlayerSender  *)
(* and of Player's Drop, each split where another thread can come between  *)
(* its atomic accesses.                                                    *)
(*                                                                         *)
(* Three actors: the reader task calls `play' behind its backpressure gate *)
(* (session.rs, buffered_audio), the session task calls `set_paused',      *)
(* `flush' and finally drops the Player, the playback thread runs the loop.*)
(*                                                                         *)
(* A packet is the number of its `play' call; SeqOf gives its sequence     *)
(* stamp.  The hold buffer is the set of its packets, which the thread     *)
(* pushes and pops in the order of their numbers.  Every AAC frame decodes *)
(* to the same number of samples, so `pending' counts packets.             *)
(***************************************************************************)
EXTENDS Integers, Sequences, FiniteSets

CONSTANTS
  MaxPackets,  \* bound: how many packets the reader plays
  SeqOf,       \* the sequence stamp of each packet
  Chunks,      \* WRITE_CHUNK pieces in a packet
  MaxQueued,   \* max_queued_samples, in packets
  MaxBatch,    \* packets one socket read can complete
  FlushCalls,  \* boundaries `flush' is called with: {} is None, {b} is Some(b)
  MaxCalls,    \* bound: how many control calls the session makes
  U64Max       \* u64::MAX, the encoding of "everything"

Packets == 1..MaxPackets
NoPacket == 0

ASSUME PlayerAssumption ==
  /\ MaxPackets \in Nat /\ MaxCalls \in Nat
  /\ Chunks \in Nat \ {0} /\ MaxBatch \in Nat \ {0} /\ MaxQueued \in Nat
  /\ U64Max \in Nat /\ U64Max > 1
  /\ SeqOf \in [Packets -> 0..(U64Max - 2)]
  /\ FlushCalls \subseteq ({{}} \cup {{b} : b \in 0..U64Max})

VARIABLES
  \* shared with the thread
  chan,        \* the mpsc channel of commands
  pending,     \* samples sent but not yet played or discarded
  flushReq,    \* latest unconsumed flush request
  paused,      \* the pause gate
  stop,        \* set by Player's Drop
  \* locals of `run'
  pc, cmd,     \* where the thread is, the command it took
  seen,        \* `paused' as loaded at the top of this pass
  wasPaused,   \* `paused' of the previous pass
  flush,       \* the request swapped out in this pass
  held,        \* the hold buffer
  cur, left,   \* the packet being written, its chunks still to write
  position,    \* the packet whose timestamp Position::played got last
  \* callers
  sent,        \* packets whose `play' has begun
  playing,     \* the packet between `fetch_add' and `send' in `play'
  batch,       \* packets the reader may still play before it checks the gate
  calling,     \* how far the session's call has got
  calls        \* control calls made (bounded by MaxCalls)

VARIABLES
  \* history, read by no action of the code
  sounding,    \* packets in the sink since it was last flushed
  delivered,   \* packets wholly written
  cut,         \* packets whose remainder was dropped when a write was interrupted
  discarded,   \* packets dropped by a flush
  doomed,      \* packets a flush request named while it was outstanding
  named,       \* packets queued or sounding that the latest flush call named
  missed       \* a drain took a Wake that announced something not yet seen

shared == <<chan, pending, flushReq, paused, stop>>
locals == <<pc, cmd, seen, wasPaused, flush, held, cur, left, position>>
callers == <<sent, playing, batch, calling, calls>>
history == <<sounding, delivered, cut, discarded, doomed, named, missed>>
vars == <<shared, locals, callers, history>>

Pcm(p) == [kind |-> "pcm", pkt |-> p]
Wake   == [kind |-> "wake", pkt |-> NoPacket]
Stop   == [kind |-> "stop", pkt |-> NoPacket]

FlushNone == 0
FlushAll  == U64Max

\* seq.saturating_add(1)
Saturating1(s) == IF s + 1 > U64Max THEN U64Max ELSE s + 1

\* PlayerSender::flush: None asks for everything, Some(b) is encoded as b + 1.
Encode(below) ==
  IF below = {} THEN FlushAll ELSE Saturating1(CHOOSE b \in below : TRUE)

\* Mutant of Keeps: the boundary packet itself is discarded.
KeepsAboveBoundary(request, p) ==
  request # FlushAll /\ Saturating1(SeqOf[p]) > request

\* The retain test of `run'.
Keeps(request, p) ==
  request # FlushAll /\ Saturating1(SeqOf[p]) >= request

\* What a flush call asks for, in the terms of its caller, and what a request
\* read back from its encoding asks for; the history speaks of these.
AsksFor(below, p) == below = {} \/ \E b \in below : SeqOf[p] < b
Names(request, p) ==
  request # FlushNone /\ (request = FlushAll \/ SeqOf[p] < request - 1)

Queued == {chan[i].pkt : i \in DOMAIN chan} \ {NoPacket}
InHand == IF pc \in {"load", "swap"} THEN {cmd.pkt} \ {NoPacket} ELSE {}
InCall == {playing} \ {NoPacket}
Writing == {cur} \ {NoPacket}

\* What `pending' counts.
Outstanding == InCall \cup Queued \cup InHand \cup held

Init ==
  /\ chan = <<>> /\ pending = 0 /\ flushReq = FlushNone
  /\ paused = FALSE /\ stop = FALSE
  /\ pc = "recv" /\ cmd = Wake /\ seen = FALSE /\ wasPaused = FALSE
  /\ flush = FlushNone /\ held = {} /\ cur = NoPacket /\ left = 0
  /\ position = NoPacket
  /\ sent = 0 /\ playing = NoPacket /\ batch = 0 /\ calling = "no" /\ calls = 0
  /\ sounding = {} /\ delivered = {} /\ cut = {} /\ discarded = {}
  /\ doomed = {} /\ named = {} /\ missed = FALSE

-----------------------------------------------------------------------------
\* The callers.

\* mpsc send; once the thread is gone the receiver is too and the error is ignored.
Send(c) == chan' = IF pc = "stopped" THEN chan ELSE Append(chan, c)

\* buffered_audio gets past its gate and reads bytes completing some packets.
PassGate ==
  /\ batch = 0 /\ playing = NoPacket
  /\ pending <= MaxQueued
  /\ \E n \in 1..MaxBatch : batch' = n
  /\ UNCHANGED <<shared, locals, sent, playing, calling, calls, history>>

PlayAdd ==
  /\ batch > 0 /\ playing = NoPacket /\ sent < MaxPackets
  /\ sent' = sent + 1 /\ playing' = sent + 1 /\ batch' = batch - 1
  /\ pending' = pending + 1
  /\ doomed' = doomed \cup
       {p \in {sent + 1} : \/ Names(flushReq, p)
                          \/ (pc = "drain" /\ Names(flush, p))}
  /\ UNCHANGED <<chan, flushReq, paused, stop, locals, calling, calls,
                 sounding, delivered, cut, discarded, named, missed>>

PlaySend ==
  /\ playing # NoPacket
  /\ Send(Pcm(playing))
  /\ playing' = NoPacket
  /\ UNCHANGED <<pending, flushReq, paused, stop, locals,
                 sent, batch, calling, calls, history>>

BeginCall == calling = "no" /\ calls < MaxCalls /\ calls' = calls + 1

\* Mutant of SetPaused: the flag is stored and no Wake sent.
SetPausedQuietly(b) ==
  /\ BeginCall
  /\ paused' = b
  /\ UNCHANGED <<chan, pending, flushReq, stop, locals, sent, playing, batch,
                 calling, history>>

SetPaused(b) ==
  /\ BeginCall
  /\ paused' = b
  /\ calling' = "wake"
  /\ UNCHANGED <<chan, pending, flushReq, stop, locals, sent, playing, batch,
                 history>>

Flush(below) ==
  /\ BeginCall
  /\ flushReq' = Encode(below)
  /\ calling' = "wake"
  /\ doomed' = doomed \cup {p \in Outstanding : AsksFor(below, p)}
  /\ named' = {p \in Queued \cup InHand \cup held \cup Writing \cup sounding :
                AsksFor(below, p)}
  /\ UNCHANGED <<chan, pending, paused, stop, locals, sent, playing, batch,
                 sounding, delivered, cut, discarded, missed>>

SendWake ==
  /\ calling = "wake"
  /\ Send(Wake)
  /\ calling' = "no"
  /\ UNCHANGED <<pending, flushReq, paused, stop, locals,
                 sent, playing, batch, calls, history>>

\* Player's Drop: raise the flag, send Stop, join the thread.
DropRaise ==
  /\ calling = "no"
  /\ stop' = TRUE
  /\ calling' = "stop"
  /\ UNCHANGED <<chan, pending, flushReq, paused, locals,
                 sent, playing, batch, calls, history>>

\* Mutant of DropSend: the flag alone, nothing to wake an idle thread.
DropSendNothing ==
  /\ calling = "stop"
  /\ calling' = "join"
  /\ UNCHANGED <<shared, locals, sent, playing, batch, calls, history>>

DropSend ==
  /\ calling = "stop"
  /\ Send(Stop)
  /\ calling' = "join"
  /\ UNCHANGED <<pending, flushReq, paused, stop, locals,
                 sent, playing, batch, calls, history>>

DropJoin ==
  /\ calling = "join" /\ pc = "stopped"
  /\ calling' = "dropped"
  /\ UNCHANGED <<shared, locals, sent, playing, batch, calls, history>>

-----------------------------------------------------------------------------
\* The playback thread.

\* `run' returns: the receiver, the hold buffer and the sink are dropped.
Exit ==
  /\ pc' = "stopped" /\ chan' = <<>> /\ held' = {} /\ cur' = NoPacket
  /\ sounding' = {}

Recv ==
  /\ pc = "recv" /\ chan # <<>>
  /\ \/ /\ stop
        /\ Exit
        /\ UNCHANGED <<cmd, missed>>
     \/ /\ ~ stop
        /\ cmd' = Head(chan) /\ chan' = Tail(chan) /\ pc' = "load"
        /\ missed' = FALSE
        /\ UNCHANGED <<held, cur, sounding>>
  /\ UNCHANGED <<pending, flushReq, paused, stop, seen, wasPaused, flush, left,
                 position, callers, delivered, cut, discarded, doomed, named>>

LoadPaused ==
  /\ pc = "load"
  /\ seen' = paused
  /\ pc' = "swap"
  /\ UNCHANGED <<shared, cmd, wasPaused, flush, held, cur, left, position,
                 callers, history>>

AfterControl == IF seen THEN "recv" ELSE "deliver"

\* Swap the flush request out, silence the sink, take the command's audio in.
\* A Stop is never matched here: the flag it follows ends the pass in Recv.
SwapFlush ==
  /\ pc = "swap"
  /\ flush' = flushReq
  /\ flushReq' = FlushNone
  /\ sounding' = IF flushReq # FlushNone \/ (seen /\ ~ wasPaused)
                 THEN {} ELSE sounding
  /\ wasPaused' = seen
  /\ held' = held \cup ({cmd.pkt} \ {NoPacket})
  /\ pc' = IF flushReq # FlushNone THEN "drain" ELSE AfterControl
  /\ UNCHANGED <<chan, pending, paused, stop, cmd, seen, cur, left, position,
                 callers, delivered, cut, discarded, doomed, named, missed>>

\* try_recv everything into the hold buffer; a Wake is taken and forgotten.
Drain ==
  /\ pc = "drain" /\ chan # <<>>
  /\ \/ /\ Head(chan) = Stop
        /\ Exit
        /\ UNCHANGED missed
     \/ /\ Head(chan) # Stop
        /\ chan' = Tail(chan)
        /\ held' = held \cup ({Head(chan).pkt} \ {NoPacket})
        /\ missed' = IF Head(chan) = Wake
                     THEN flushReq # FlushNone \/ paused # seen ELSE missed
        /\ UNCHANGED <<pc, cur, sounding>>
  /\ UNCHANGED <<pending, flushReq, paused, stop, cmd, seen, wasPaused, flush,
                 left, position, callers,
                 delivered, cut, discarded, doomed, named>>

\* Mutant of Retain: discarded packets stay counted.
RetainUncounted ==
  /\ pc = "drain" /\ chan = <<>>
  /\ LET gone == {p \in held : ~ Keeps(flush, p)}
     IN held' = held \ gone /\ discarded' = discarded \cup gone
  /\ pc' = AfterControl
  /\ UNCHANGED <<chan, pending, flushReq, paused, stop, cmd, seen, wasPaused,
                 flush, cur, left, position, callers,
                 sounding, delivered, cut, doomed, named, missed>>

\* Mutant of Retain: the hold buffer is flushed, the channel is not drained.
RetainUndrained ==
  /\ pc = "drain"
  /\ LET gone == {p \in held : ~ Keeps(flush, p)}
     IN /\ held' = held \ gone
        /\ pending' = pending - Cardinality(gone)
        /\ discarded' = discarded \cup gone
  /\ pc' = AfterControl
  /\ UNCHANGED <<chan, flushReq, paused, stop, cmd, seen, wasPaused, flush,
                 cur, left, position, callers,
                 sounding, delivered, cut, doomed, named, missed>>

Retain ==
  /\ pc = "drain" /\ chan = <<>>
  /\ LET gone == {p \in held : ~ Keeps(flush, p)}
     IN /\ held' = held \ gone
        /\ pending' = pending - Cardinality(gone)
        /\ discarded' = discarded \cup gone
  /\ pc' = AfterControl
  /\ UNCHANGED <<chan, flushReq, paused, stop, cmd, seen, wasPaused, flush,
                 cur, left, position, callers,
                 sounding, delivered, cut, doomed, named, missed>>

\* Mutant of Pop: pop_back.
PopNewest ==
  /\ pc = "deliver"
  /\ \/ /\ held = {}
        /\ pc' = "recv"
        /\ UNCHANGED <<held, pending, cur, left>>
     \/ \E p \in held :
          /\ \A q \in held : q <= p
          /\ cur' = p /\ left' = Chunks
          /\ held' = held \ {p}
          /\ pending' = pending - 1
          /\ pc' = "write"
  /\ UNCHANGED <<chan, flushReq, paused, stop, cmd, seen, wasPaused, flush,
                 position, callers, history>>

\* Mutant of Pop: what is played stays counted.
PopUncounted ==
  /\ pc = "deliver"
  /\ \/ /\ held = {}
        /\ pc' = "recv"
        /\ UNCHANGED <<held, cur, left>>
     \/ \E p \in held :
          /\ \A q \in held : p <= q
          /\ cur' = p /\ left' = Chunks
          /\ held' = held \ {p}
          /\ pc' = "write"
  /\ UNCHANGED <<chan, pending, flushReq, paused, stop, cmd, seen, wasPaused,
                 flush, position, callers, history>>

\* pop_front, uncounted before it is written; an empty buffer ends the pass.
Pop ==
  /\ pc = "deliver"
  /\ \/ /\ held = {}
        /\ pc' = "recv"
        /\ UNCHANGED <<held, pending, cur, left>>
     \/ \E p \in held :
          /\ \A q \in held : p <= q
          /\ cur' = p /\ left' = Chunks
          /\ held' = held \ {p}
          /\ pending' = pending - 1
          /\ pc' = "write"
  /\ UNCHANGED <<chan, flushReq, paused, stop, cmd, seen, wasPaused, flush,
                 position, callers, history>>

Interrupted == paused \/ flushReq # FlushNone

\* sink.write of one chunk, then the loads of the three flags.
WriteChunk ==
  /\ pc = "write"
  /\ \/ /\ stop
        /\ Exit
        /\ UNCHANGED <<left, position, delivered, cut>>
     \/ /\ ~ stop /\ ~ Interrupted /\ left > 1
        /\ left' = left - 1
        /\ sounding' = sounding \cup {cur}
        /\ UNCHANGED <<pc, chan, held, cur, position, delivered, cut>>
     \/ /\ ~ stop /\ (Interrupted \/ left = 1)
        /\ sounding' = sounding \cup {cur}
        /\ position' = cur
        /\ IF left = 1
           THEN delivered' = delivered \cup {cur} /\ UNCHANGED cut
           ELSE cut' = cut \cup {cur} /\ UNCHANGED delivered
        /\ cur' = NoPacket /\ left' = 0
        /\ pc' = IF Interrupted THEN "recv" ELSE "deliver"
        /\ UNCHANGED <<chan, held>>
  /\ UNCHANGED <<pending, flushReq, paused, stop, cmd, seen, wasPaused, flush,
                 callers, discarded, doomed, named, missed>>

-----------------------------------------------------------------------------
Reader == PassGate \/ PlayAdd \/ PlaySend

Control ==
  \/ \E b \in BOOLEAN : SetPaused(b)
  \/ \E below \in FlushCalls : Flush(below)
  \/ SendWake

Drop == DropRaise \/ DropSend \/ DropJoin

Thread ==
  Recv \/ LoadPaused \/ SwapFlush \/ Drain \/ Retain \/ Pop \/ WriteChunk

Next == Reader \/ Control \/ Drop \/ Thread

Spec == Init /\ [][Next]_vars

\* The scheduler runs every runnable thread; the sender keeps sending; a call
\* that has begun is finished.  Nothing makes the session pause or drop.
Fairness ==
  /\ WF_vars(Thread)
  /\ WF_vars(Reader)
  /\ WF_vars(SendWake)
  /\ WF_vars(DropSend \/ DropJoin)

FairSpec == Spec /\ Fairness

-----------------------------------------------------------------------------
Commands == {Pcm(p) : p \in Packets} \cup {Wake, Stop}

\* Every variable but the count, whose sign is not a matter of types.
Typed ==
  /\ chan \in Seq(Commands) /\ flushReq \in 0..U64Max
  /\ paused \in BOOLEAN /\ stop \in BOOLEAN
  /\ pc \in {"recv", "load", "swap", "drain", "deliver", "write", "stopped"}
  /\ cmd \in Commands /\ seen \in BOOLEAN /\ wasPaused \in BOOLEAN
  /\ flush \in 0..U64Max /\ held \subseteq Packets
  /\ cur \in Packets \cup {NoPacket} /\ left \in 0..Chunks
  /\ position \in Packets \cup {NoPacket}
  /\ sent \in 0..MaxPackets /\ playing \in Packets \cup {NoPacket}
  /\ batch \in 0..MaxBatch
  /\ calling \in {"no", "wake", "stop", "join", "dropped"}
  /\ calls \in 0..MaxCalls /\ missed \in BOOLEAN
  /\ \A S \in {sounding, delivered, cut, discarded, doomed, named} :
        S \subseteq Packets

\* The types of the variables; `pending' is a usize and never underflows.
TypeOK == Typed /\ pending \in Nat

\* The backpressure count is exact: it never leaks, so the reader is not
\* throttled for audio that is gone, and never underflows to a huge value
\* (fetch_add before send in `play', one fetch_sub per packet popped or
\* discarded in `run').
PendingCounts == pc # "stopped" => pending = Cardinality(Outstanding)

\* Latency and memory stay bounded: the queue never holds more than the
\* high-water mark and one socket read (max_queued_samples and the gate).
QueueBounded == pending <= MaxQueued + MaxBatch

\* A flush discards nothing its caller did not name: every packet dropped
\* was named by a request while that request was outstanding, whatever was
\* queued, arriving or drained meanwhile (`retain' and `flush').
FlushExact == discarded \subseteq doomed

\* A flush discards all its caller named: once the thread has consumed the
\* latest request, no packet that was queued, held, being written or in the
\* sink when it was made, and that it named, can be heard any more.
FlushReaches ==
  flushReq = FlushNone /\ pc # "drain"
    => named \cap (Queued \cup InHand \cup held \cup sounding) = {}

\* Once the thread has seen the pause gate closed the sink is silent, and
\* stays so until it has seen it open (`just_paused', `continue').
PausedIsSilent == wasPaused => sounding = {}

\* The thread sleeps on work only after a drain swallowed the Wake that
\* announced it: otherwise, when it waits for a command and none is coming, no
\* request is unserved, a closed gate is known to it and an open gate leaves
\* nothing held ("the control call also sent a Wake").
Asleep == /\ pc = "recv" /\ chan = <<>>
          /\ calling = "no" /\ playing = NoPacket
AsleepHasNoWork ==
  Asleep /\ ~ missed => /\ flushReq = FlushNone
                        /\ wasPaused = paused
                        /\ paused \/ held = {}

AllPlayed == sent = MaxPackets /\ Outstanding = {}

\* A sender that stops pausing gets all it sends played: neither the queue nor
\* the backpressure gate is stuck for good, as long as no Wake is missed.
EverythingPlays == <>[](~ paused /\ ~ stop /\ ~ missed) => <> AllPlayed

\* What the module says of a resume ("plays the held audio immediately"),
\* flushes or not.
ResumePlays == <>[](~ paused /\ ~ stop) => <> AllPlayed

\* Dropping a Player ends: the thread sees the flag or the Stop wherever it
\* is, and join returns.
DropReturns == stop ~> (calling = "dropped")

\* The thread, its flags and its channel implement the queue its users see.
\* A packet popped but not yet begun still belongs to the queue.
Waiting ==
  IF pc = "stopped" THEN {} ELSE Outstanding \cup {p \in Writing : left = Chunks}

Queue == INSTANCE PlaybackQueue WITH
  queue <- Waiting, last <- sent, gate <- wasPaused, up <- (pc # "stopped")

\* Audio starts in order, only while the gate is open, falls silent when it
\* closes and is discarded only in silence (`run' and the calls around it).
ImplementsQueue == Queue!Spec
=============================================================================
