------------------------ MODULE BufferedStreamProofs ------------------------
(***************************************************************************)
(* Proofs about BufferedStream, for any number of streams, packets and     *)
(* flushes and any sequence numbers.                                       *)
(***************************************************************************)
EXTENDS BufferedStream, FiniteSetTheorems, TLAPS

-----------------------------------------------------------------------------
\* The invariants, each inductive relative to those before it.

\* Types, and what the counters of the control flow go with.
Typed ==
  /\ TypeOK
  /\ ctl = "request" => below \in FlushCalls
  /\ ctl = "spawn" => cur < MaxStreams /\ boundary = 0 /\ target = 0 /\ due = {}
  /\ \A s \in Streams : rpc[s] = "read" <=> hand[s] = NoPacket

\* Packets keep their order on the way from the socket to the sink, and the
\* streams to come have none.
Numbered ==
  /\ \A s \in Streams : \A p \in Coming(s) \cup queue[s] : p <= sent
  /\ \A p \in sounding : p <= sent
InTurn(s) ==
  /\ \A p \in batch[s], q \in wire[s] : p < q
  /\ \A p \in InHand(s), q \in batch[s] \cup wire[s] : p < q
Behind == \A p \in queue[cur] \cup sounding, q \in Coming(cur) : p < q
Unused == \A s \in Streams : s > cur => Coming(s) = {} /\ queue[s] = {}
Fifo == Numbered /\ (\A s \in Streams : InTurn(s)) /\ Behind /\ Unused

\* A packet about to consume a boundary has reached it.
Reached ==
  \A s \in Streams :
    rpc[s] = "consume" => loaded[s] # 0 /\ seq[hand[s]] >= loaded[s]

\* Packets the reader of the latest stream has still to hold against the
\* boundary, or is about to clear it for.
Unjudged == batch[cur] \cup wire[cur]
Ahead ==
  Unjudged \cup {p \in InHand(cur) : rpc[cur] = "consume" /\ loaded[cur] = boundary}

\* What the boundary would skip unnamed stands behind something that clears it,
\* and the sender goes below the boundary only behind such a packet.
Wanted ==
  /\ skipped \subseteq named
  /\ boundary # 0 =>
       /\ \A p \in Unjudged : seq[p] < boundary /\ p \notin named =>
            \E q \in Ahead : q < p /\ seq[q] >= boundary
       /\ target \in {0, boundary}
       /\ target = 0 => \E q \in Ahead : seq[q] >= boundary
  /\ target # 0 => next >= target

\* Where a packet that was due to go still is, something is left that stops it.
StillAsked(p) ==
  IF ctl = "request" THEN AsksFor(below, seq[p])
  ELSE \E b \in request : AsksFor(b, seq[p])
Stopped(p) ==
  /\ p \notin InHand(cur)
  /\ p \in Unjudged =>
       boundary # 0 /\ \A q \in Ahead : q <= p => seq[q] < boundary
  /\ p \in sounding => StillAsked(p)
  /\ p \in queue[cur] =>
       \/ StillAsked(p)
       \/ ctl # "request" /\ \E b \in flushing : AsksFor(b, seq[p])

\* Requests come one at a time, and what is due to go was sent.
Asked ==
  /\ \A a, b \in request : a = b
  /\ \A a, b \in flushing : a = b
  /\ \A p \in due : p <= sent

\* All but one of them are stopped.
AllButOne == ~ usurped => \E x \in Nat : \A p \in due : p # x => Stopped(p)

-----------------------------------------------------------------------------
\* Lemmas about the constants and the operators.

\* A flush request names a boundary, or has none and asks for everything.
LEMMA BoundOf ==
  ASSUME NEW b \in FlushCalls, b # {}
  PROVE  /\ Bound(b) \in 0..MaxSeq
         /\ \A q \in Nat : AsksFor(b, q) <=> q < Bound(b)
<1>1. PICK x \in 0..MaxSeq : b = {x}
  BY BufferedStreamAssumption
<1>2. Bound(b) = x
  BY <1>1 DEF Bound
<1> QED BY <1>1, <1>2 DEF AsksFor

LEMMA Everything == \A q : AsksFor({}, q)
BY DEF AsksFor

\* The types that the other proofs use.
LEMMA TypesUsed ==
  ASSUME Typed
  PROVE  /\ sent \in Nat /\ next \in Nat /\ target \in Nat /\ boundary \in Nat
         /\ cur \in Streams /\ Streams \subseteq Nat /\ Packets \subseteq Nat
         /\ \A p \in Packets : seq[p] \in Nat /\ p # NoPacket
         /\ \A s \in Streams : /\ wire[s] \subseteq Packets /\ batch[s] \subseteq Packets
                               /\ queue[s] \subseteq Packets
                               /\ InHand(s) \subseteq Packets /\ Coming(s) \subseteq Packets
                               /\ loaded[s] \in Nat
         /\ sounding \subseteq Packets /\ due \subseteq Packets
BY SMTT(30), BufferedStreamAssumption DEF Typed, TypeOK, Streams, Packets, NoPacket, InHand, Coming

-----------------------------------------------------------------------------
\* Types.

\* The variables that count, and the others.
Numbers ==
  /\ sent \in 0..MaxPackets /\ next \in 0..(MaxSeq + 1) /\ target \in 0..MaxSeq
  /\ cur \in Streams /\ flushes \in 0..MaxFlushes /\ boundary \in 0..MaxSeq
Others ==
  /\ seq \in [Packets -> 0..MaxSeq] /\ ctl \in {"idle", "request", "spawn"}
  /\ below \in FlushCalls \cup {{}}
  /\ wire \in [Streams -> SUBSET Packets]
  /\ batch \in [Streams -> SUBSET Packets]
  /\ queue \in [Streams -> SUBSET Packets]
  /\ hand \in [Streams -> Packets \cup {NoPacket}]
  /\ rpc \in [Streams -> {"read", "consume", "play"}]
  /\ loaded \in [Streams -> 0..MaxSeq]
  /\ request \in SUBSET FlushCalls /\ flushing \in SUBSET FlushCalls
  /\ sounding \subseteq Packets /\ named \subseteq Packets
  /\ due \subseteq Packets /\ skipped \subseteq Packets
  /\ usurped \in BOOLEAN
Control ==
  /\ ctl = "request" => below \in FlushCalls
  /\ ctl = "spawn" => cur < MaxStreams /\ boundary = 0 /\ target = 0 /\ due = {}
  /\ \A s \in Streams : rpc[s] = "read" <=> hand[s] = NoPacket

LEMMA TypedParts == Typed <=> Numbers /\ Others /\ Control
BY DEF Typed, TypeOK, Numbers, Others, Control

LEMMA TypedPartsNext == Typed' <=> Numbers' /\ Others' /\ Control'
BY DEF Typed, TypeOK, Numbers, Others, Control

LEMMA Constants ==
  /\ MaxStreams \in Nat \ {0} /\ MaxPackets \in Nat /\ MaxSeq \in Nat
  /\ Streams \subseteq Nat \ {0} /\ Packets \subseteq Nat \ {0}
  /\ 0 \in 0..MaxSeq /\ 1 \in Streams
BY BufferedStreamAssumption DEF Streams, Packets

LEMMA TypedInit == Init => Typed
<1> SUFFICES ASSUME Init PROVE Typed
  OBVIOUS
<1>1. Numbers
  BY BufferedStreamAssumption DEF Init, Numbers, Streams
<1>2. Others
  BY Constants DEF Init, Others, NoPacket
<1>3. Control
  BY DEF Init, Control
<1> QED BY <1>1, <1>2, <1>3, TypedParts

LEMMA TypedNext == Typed /\ [Next]_vars => Typed'
<1> SUFFICES ASSUME Numbers, Others, Control, [Next]_vars
             PROVE  Numbers' /\ Others' /\ Control'
  BY TypedParts, TypedPartsNext
<1> USE DEF sender, session, reader, player, history, NoPacket
<1>1. CASE SendPacket
  <2>1. Numbers'
    BY <1>1, BufferedStreamAssumption DEF SendPacket, Numbers
  <2>2. sent + 1 \in Packets /\ next \in 0..MaxSeq
    BY <1>1, BufferedStreamAssumption DEF SendPacket, Numbers, Packets
  <2>3. Others'
    BY <1>1, <2>2 DEF SendPacket, Others, Numbers
  <2>4. Control'
    BY <1>1 DEF SendPacket, Control
  <2> QED BY <2>1, <2>3, <2>4
<1>2. CASE Rewind
  <2>1. Numbers'
    BY <1>2, BufferedStreamAssumption DEF Rewind, Numbers
  <2>2. Others' /\ Control'
    BY <1>2 DEF Rewind, Others, Control
  <2> QED BY <2>1, <2>2
<1>3. ASSUME NEW b \in FlushCalls, StoreBoundary(b)
      PROVE  Numbers' /\ Others' /\ Control'
  <2>1. b # {} => Bound(b) \in 0..MaxSeq
    BY BoundOf
  <2>2. Numbers'
    BY <1>3, <2>1, BufferedStreamAssumption DEF StoreBoundary, Name, Numbers
  <2>3. named' \subseteq Packets /\ due' \subseteq Packets
    BY <1>3, Constants DEF StoreBoundary, Name, Coming, InHand, Front, Others, Numbers
  <2>4. Others'
    BY <1>3, <2>3 DEF StoreBoundary, Others
  <2>5. Control'
    BY <1>3 DEF StoreBoundary, Control
  <2> QED BY <2>2, <2>4, <2>5
<1>4. CASE RequestFlush
  BY <1>4 DEF RequestFlush, Numbers, Others, Control
<1>5. CASE ResetBoundary
  <2>1. Numbers' /\ cur < MaxStreams
    BY <1>5, BufferedStreamAssumption DEF ResetBoundary, Numbers
  <2>2. Others' /\ Control'
    BY <1>5, <2>1 DEF ResetBoundary, Others, Control
  <2> QED BY <2>1, <2>2
<1>6. CASE SpawnStream
  <2>1. Numbers'
    BY <1>6, BufferedStreamAssumption DEF SpawnStream, Numbers, Streams, Control
  <2>2. Others' /\ Control'
    BY <1>6, <2>1 DEF SpawnStream, Others, Control
  <2> QED BY <2>1, <2>2
<1>7. ASSUME NEW s \in Streams, ReadSocket(s)
      PROVE  Numbers' /\ Others' /\ Control'
  BY <1>7 DEF ReadSocket, Numbers, Others, Control
<1>8. ASSUME NEW s \in Streams, LoadBoundary(s)
      PROVE  Numbers' /\ Others' /\ Control'
  <2>1. Numbers'
    BY <1>8 DEF LoadBoundary, Numbers
  <2>2. PICK p \in batch[s] : LoadBoundary(s)!2!(p)
    BY <1>8 DEF LoadBoundary
  <2>3. p \in Packets /\ p # NoPacket
    BY <2>2, Constants DEF Others
  <2>4. Others'
    BY <1>8, <2>2, <2>3 DEF LoadBoundary, Others, Numbers
  <2>5. Control'
    BY <1>8, <2>2, <2>3 DEF LoadBoundary, Control, Others
  <2> QED BY <2>1, <2>4, <2>5
<1>9. ASSUME NEW s \in Streams, Consume(s)
      PROVE  Numbers' /\ Others' /\ Control'
  <2>1. Numbers'
    BY <1>9, Constants DEF Consume, Numbers
  <2>2. usurped' \in BOOLEAN
    BY <1>9 DEF Consume, Others
  <2>3. Others'
    BY <1>9, <2>2 DEF Consume, Others
  <2>4. Control'
    BY <1>9 DEF Consume, Control, Others
  <2> QED BY <2>1, <2>3, <2>4
<1>10. ASSUME NEW s \in Streams, PlayPacket(s)
       PROVE  Numbers' /\ Others' /\ Control'
  <2>1. hand[s] # NoPacket
    BY <1>10 DEF PlayPacket, Control
  <2>2. Numbers' /\ Others'
    BY <1>10, <2>1 DEF PlayPacket, Numbers, Others
  <2>3. Control'
    BY <1>10 DEF PlayPacket, Control, Others
  <2> QED BY <2>2, <2>3
<1>11. CASE TakeRequest
  BY <1>11 DEF TakeRequest, Numbers, Others, Control
<1>12. CASE Retain
  BY <1>12 DEF Retain, Numbers, Others, Control
<1>13. CASE PlayNext
  BY <1>13 DEF PlayNext, Numbers, Others, Control
<1>14. CASE UNCHANGED vars
  BY <1>14 DEF vars, Numbers, Others, Control
<1> QED BY <1>1, <1>2, <1>3, <1>4, <1>5, <1>6, <1>7, <1>8, <1>9, <1>10, <1>11,
           <1>12, <1>13, <1>14 DEF Next, Sender, SessionTask, Reader, Thread

\* Type correctness: every variable keeps its type, for any number of streams,
\* packets and flushes.
THEOREM TypeCorrect == Spec => []TypeOK
<1>1. Spec => []Typed
  BY TypedInit, TypedNext, PTL DEF Spec
<1>2. Typed => TypeOK
  BY DEF Typed
<1> QED BY <1>1, <1>2, PTL

-----------------------------------------------------------------------------
\* Order.

LEMMA FifoInit == Init => Fifo
BY Constants DEF Init, Fifo, Numbered, InTurn, Behind, Unused, Coming, InHand, NoPacket

LEMMA FifoNext == Typed /\ Fifo /\ [Next]_vars => Fifo'
<1> SUFFICES ASSUME Typed, Fifo, [Next]_vars PROVE Fifo'
  OBVIOUS
<1>0. /\ sent \in Nat /\ cur \in Nat /\ cur \in Streams /\ Streams \subseteq Nat
      /\ Packets \subseteq Nat
      /\ \A s \in Streams : /\ wire[s] \subseteq Nat /\ batch[s] \subseteq Nat
                            /\ queue[s] \subseteq Nat /\ InHand(s) \subseteq Nat
      /\ sounding \subseteq Nat
      /\ wire \in [Streams -> SUBSET Packets] /\ batch \in [Streams -> SUBSET Packets]
      /\ queue \in [Streams -> SUBSET Packets]
      /\ hand \in [Streams -> Packets \cup {NoPacket}]
  BY TypesUsed, TypedParts, Constants DEF Others
<1> USE DEF sender, session, reader, player, history
<1>1. CASE SendPacket
  <2>1. sent' = sent + 1 /\ cur' = cur /\ wire' = [wire EXCEPT ![cur] = @ \cup {sent + 1}]
        /\ UNCHANGED <<batch, hand, queue, sounding>>
    BY <1>1 DEF SendPacket
  <2>2. \A s \in Streams : InHand(s)' = InHand(s) /\ batch'[s] = batch[s]
                           /\ queue'[s] = queue[s]
                           /\ wire'[s] = IF s = cur THEN wire[s] \cup {sent + 1} ELSE wire[s]
    BY <1>0, <2>1 DEF InHand
  <2>3. \A s \in Streams :
          Coming(s)' = IF s = cur THEN Coming(s) \cup {sent + 1} ELSE Coming(s)
    BY <2>2 DEF Coming
  <2>4. Numbered'
    BY <1>0, <2>1, <2>2, <2>3 DEF Fifo, Numbered, Coming
  <2>5. \A s \in Streams : InTurn(s)'
    <3> TAKE s \in Streams
    <3>1. \A p \in batch[s] \cup InHand(s) : p < sent + 1
      BY <1>0 DEF Fifo, Numbered, Coming
    <3> QED BY <2>2, <3>1 DEF Fifo, InTurn
  <2>6. Behind'
    <3>1. \A p \in queue[cur] \cup sounding : p < sent + 1
      BY <1>0 DEF Fifo, Numbered
    <3> QED BY <1>0, <2>1, <2>2, <2>3, <3>1 DEF Fifo, Behind
  <2>7. Unused'
    BY <1>0, <2>1, <2>2, <2>3 DEF Fifo, Unused
  <2> QED BY <2>4, <2>5, <2>6, <2>7 DEF Fifo
<1>2. ASSUME NEW s \in Streams, ReadSocket(s) PROVE Fifo'
  <2>1. PICK B \in SUBSET wire[s] :
          /\ \A p \in B, q \in wire[s] \ B : p < q
          /\ batch' = [batch EXCEPT ![s] = B] /\ wire' = [wire EXCEPT ![s] = @ \ B]
    BY <1>2 DEF ReadSocket
  <2>2. batch[s] = {} /\ hand[s] = NoPacket
        /\ UNCHANGED <<sent, cur, hand, queue, sounding>>
    BY <1>2 DEF ReadSocket
  <2>3. \A t \in Streams : /\ InHand(t)' = InHand(t) /\ queue'[t] = queue[t]
                           /\ batch'[t] = IF t = s THEN B ELSE batch[t]
                           /\ wire'[t] = IF t = s THEN wire[t] \ B ELSE wire[t]
    BY <1>0, <2>1, <2>2 DEF InHand
  <2>4. \A t \in Streams : Coming(t)' = Coming(t)
    BY <2>2, <2>3 DEF Coming
  <2>5. \A t \in Streams : InTurn(t)'
    <3> TAKE t \in Streams
    <3>1. CASE t # s
      BY <2>3, <3>1 DEF Fifo, InTurn
    <3>2. CASE t = s
      BY <2>1, <2>2, <2>3, <3>2 DEF InTurn, InHand
    <3> QED BY <3>1, <3>2
  <2>6. Numbered' /\ Behind' /\ Unused'
    BY <1>0, <2>2, <2>3, <2>4 DEF Fifo, Numbered, Behind, Unused
  <2> QED BY <2>5, <2>6 DEF Fifo
<1>3. ASSUME NEW s \in Streams, LoadBoundary(s) PROVE Fifo'
  <2>1. PICK p \in batch[s] :
          /\ \A q \in batch[s] : p <= q
          /\ batch' = [batch EXCEPT ![s] = @ \ {p}]
          /\ hand' = hand \/ hand' = [hand EXCEPT ![s] = p]
    BY <1>3 DEF LoadBoundary, First
  <2>2. rpc[s] = "read" /\ UNCHANGED <<sent, cur, wire, queue, sounding>>
    BY <1>3 DEF LoadBoundary
  <2>3. hand[s] = NoPacket
    BY <2>2, TypedParts DEF Control
  <2>4. \A t \in Streams : /\ InHand(t)' = InHand(t) \/ (t = s /\ InHand(t)' \subseteq {p})
                           /\ queue'[t] = queue[t] /\ wire'[t] = wire[t]
                           /\ batch'[t] = IF t = s THEN batch[t] \ {p} ELSE batch[t]
    BY <1>0, <2>1, <2>2 DEF InHand
  <2>5. \A t \in Streams : Coming(t)' \subseteq Coming(t)
    <3> TAKE t \in Streams
    <3>1. Coming(t)' = InHand(t)' \cup batch'[t] \cup wire'[t]
      BY DEF Coming
    <3>2. p \in batch[s]
      OBVIOUS
    <3>3. CASE t = s
      BY ZenonT(40), <2>4, <3>1, <3>2, <3>3 DEF Coming
    <3>4. CASE t # s
      BY <2>4, <3>1, <3>4 DEF Coming
    <3> QED BY <3>3, <3>4
  <2>6. \A t \in Streams : InTurn(t)'
    <3> TAKE t \in Streams
    <3>1. CASE t # s
      BY <2>4, <3>1 DEF Fifo, InTurn
    <3>2. CASE t = s
      <4>1. \A q \in batch[s] \ {p} : p < q
        BY <1>0, <2>1
      <4>2. \A q \in wire[s] : p < q
        BY DEF Fifo, InTurn
      <4>3. InHand(t)' \subseteq {p}
        BY <2>3, <2>4, <3>2 DEF InHand
      <4>4. batch'[t] = batch[s] \ {p} /\ wire'[t] = wire[s]
        BY <2>4, <3>2
      <4>5. \A q \in batch[s], r \in wire[s] : q < r
        BY DEF Fifo, InTurn
      <4> QED BY <4>1, <4>2, <4>3, <4>4, <4>5 DEF InTurn
    <3> QED BY <3>1, <3>2
  <2>7. Numbered' /\ Behind' /\ Unused'
    BY <1>0, <2>2, <2>4, <2>5 DEF Fifo, Numbered, Behind, Unused
  <2> QED BY <2>6, <2>7 DEF Fifo
<1>4. ASSUME NEW s \in Streams, PlayPacket(s) PROVE Fifo'
  <2>1. /\ hand' = [hand EXCEPT ![s] = NoPacket]
        /\ queue' = [queue EXCEPT ![s] = @ \cup {hand[s]}] \/ queue' = [queue EXCEPT ![s] = @ \cup {}]
        /\ UNCHANGED <<sent, cur, wire, batch, sounding>>
    BY <1>4 DEF PlayPacket
  <2>2. hand[s] # NoPacket
    BY <1>4, TypedParts DEF PlayPacket, Control
  <2>3. \A t \in Streams : /\ InHand(t)' = IF t = s THEN {} ELSE InHand(t)
                           /\ queue'[t] = queue[t] \/ (t = s /\ queue'[t] = queue[t] \cup InHand(t))
                           /\ wire'[t] = wire[t] /\ batch'[t] = batch[t]
    BY <1>0, <2>1, <2>2 DEF InHand
  <2>4. \A t \in Streams : /\ Coming(t)' \subseteq Coming(t)
                           /\ Coming(t)' \cup queue'[t] \subseteq Coming(t) \cup queue[t]
    BY <2>3 DEF Coming
  <2>5. Numbered' /\ Unused'
    BY <1>0, <2>1, <2>4 DEF Fifo, Numbered, Unused
  <2>6. \A t \in Streams : InTurn(t)'
    BY <2>3 DEF Fifo, InTurn
  <2>7. Behind'
    <3>1. CASE cur # s
      BY <1>0, <2>1, <2>3, <2>4, <3>1 DEF Fifo, Behind
    <3>2. CASE cur = s
      <4>1. Coming(s)' = batch[s] \cup wire[s]
        BY <2>3 DEF Coming
      <4>2. \A p \in queue[s] \cup sounding \cup InHand(s), q \in batch[s] \cup wire[s] :
              p < q
        BY <3>2 DEF Fifo, Behind, InTurn, Coming
      <4>3. queue'[s] \subseteq queue[s] \cup InHand(s) /\ cur' = s /\ sounding' = sounding
        BY <2>1, <2>3, <3>2
      <4> QED BY <4>1, <4>2, <4>3 DEF Behind
    <3> QED BY <3>1, <3>2
  <2> QED BY <2>5, <2>6, <2>7 DEF Fifo
<1>5. CASE SpawnStream
  <2>1. cur' = cur + 1 /\ sounding' = {}
        /\ UNCHANGED <<sent, wire, batch, hand, queue>>
    BY <1>5 DEF SpawnStream
  <2>2. cur + 1 \in Streams
    BY <1>5, TypedParts, BufferedStreamAssumption DEF SpawnStream, Control, Numbers, Streams
  <2>3. \A t \in Streams : InHand(t)' = InHand(t) /\ Coming(t)' = Coming(t)
    BY <2>1 DEF InHand, Coming
  <2>4. Numbered'
    BY <1>0, <2>1, <2>3 DEF Fifo, Numbered
  <2>5. \A t \in Streams : InTurn(t)'
    BY <2>1, <2>3 DEF Fifo, InTurn
  <2>6. Behind' /\ Unused'
    BY <1>0, <2>1, <2>2, <2>3 DEF Fifo, Behind, Unused
  <2> QED BY <2>4, <2>5, <2>6 DEF Fifo
<1>6. CASE TakeRequest
  <2>1. sounding' = {} /\ UNCHANGED <<sent, cur, wire, batch, hand, queue>>
    BY <1>6 DEF TakeRequest
  <2> QED BY <2>1 DEF Fifo, Numbered, InTurn, Behind, Unused, Coming, InHand
<1>7. CASE Retain
  <2>1. PICK b \in flushing :
          queue' = [queue EXCEPT ![cur] = {p \in @ : ~ AsksFor(b, seq[p])}]
    BY <1>7 DEF Retain
  <2>2. UNCHANGED <<sent, cur, wire, batch, hand, sounding>>
    BY <1>7 DEF Retain
  <2>3. \A t \in Streams : queue'[t] \subseteq queue[t] /\ InHand(t)' = InHand(t)
                           /\ Coming(t)' = Coming(t)
    BY <1>0, <2>1, <2>2 DEF InHand, Coming
  <2>4. Numbered' /\ Unused'
    BY <1>0, <2>2, <2>3 DEF Fifo, Numbered, Unused
  <2>5. Behind'
    BY <1>0, <2>2, <2>3 DEF Fifo, Behind
  <2>6. \A t \in Streams : InTurn(t)'
    BY <2>2, <2>3 DEF Fifo, InTurn
  <2> QED BY <2>4, <2>5, <2>6 DEF Fifo
<1>8. CASE PlayNext
  <2>1. PICK p \in queue[cur] :
          /\ queue' = [queue EXCEPT ![cur] = @ \ {p}]
          /\ sounding' = sounding \cup {p}
    BY <1>8 DEF PlayNext
  <2>2. UNCHANGED <<sent, cur, wire, batch, hand>>
    BY <1>8 DEF PlayNext
  <2>3. \A t \in Streams : queue'[t] \subseteq queue[t] /\ InHand(t)' = InHand(t)
                           /\ Coming(t)' = Coming(t)
    BY <1>0, <2>1, <2>2 DEF InHand, Coming
  <2>4. queue'[cur] \cup sounding' = queue[cur] \cup sounding
    BY <1>0, <2>1
  <2>5. Numbered'
    BY <1>0, <2>1, <2>2, <2>3 DEF Fifo, Numbered
  <2>6. Behind'
    BY <1>0, <2>2, <2>3, <2>4 DEF Fifo, Behind
  <2>7. Unused'
    BY <1>0, <2>2, <2>3 DEF Fifo, Unused
  <2>8. \A t \in Streams : InTurn(t)'
    BY <2>2, <2>3 DEF Fifo, InTurn
  <2> QED BY <2>5, <2>6, <2>7, <2>8 DEF Fifo
<1>9. CASE UNCHANGED <<sent, cur, wire, batch, hand, queue, sounding>>
  BY <1>9 DEF Fifo, Numbered, InTurn, Behind, Unused, Coming, InHand
<1>10. ASSUME NEW b \in FlushCalls, StoreBoundary(b) PROVE Fifo'
  BY <1>9, <1>10 DEF StoreBoundary
<1>11. Rewind \/ RequestFlush \/ ResetBoundary \/ UNCHANGED vars => Fifo'
  BY <1>9 DEF Rewind, RequestFlush, ResetBoundary, vars
<1>12. ASSUME NEW s \in Streams, Consume(s) PROVE Fifo'
  BY <1>9, <1>12 DEF Consume
<1> QED BY <1>1, <1>2, <1>3, <1>4, <1>5, <1>6, <1>7, <1>8, <1>10, <1>11, <1>12
        DEF Next, Sender, SessionTask, Reader, Thread

-----------------------------------------------------------------------------
\* A packet about to consume a boundary has reached it.

LEMMA ReachedInit == Init => Reached
BY DEF Init, Reached

LEMMA ReachedNext == Typed /\ Fifo /\ Reached /\ [Next]_vars => Reached'
<1> SUFFICES ASSUME Typed, Fifo, Reached, [Next]_vars PROVE Reached'
  OBVIOUS
<1>0. /\ sent \in Nat /\ boundary \in Nat
      /\ seq \in [Packets -> 0..MaxSeq] /\ hand \in [Streams -> Packets \cup {NoPacket}]
      /\ rpc \in [Streams -> {"read", "consume", "play"}]
      /\ loaded \in [Streams -> 0..MaxSeq] /\ 0..MaxSeq \subseteq Nat
      /\ \A s \in Streams : batch[s] \subseteq Packets
      /\ \A s \in Streams : rpc[s] = "consume" => hand[s] \in Packets /\ hand[s] <= sent
  <2>1. \A s \in Streams : rpc[s] = "consume" => hand[s] # NoPacket
    BY TypedParts DEF Control
  <2> QED BY <2>1, TypesUsed, TypedParts, Constants DEF Others, Fifo, Numbered, Coming, InHand
<1> USE DEF sender, session, reader, player, history
<1>1. CASE SendPacket
  BY <1>0, <1>1 DEF SendPacket, Reached
<1>2. ASSUME NEW s \in Streams, LoadBoundary(s) PROVE Reached'
  <2>1. PICK p \in batch[s] :
          IF boundary # 0 /\ seq[p] < boundary
          THEN UNCHANGED <<hand, rpc, loaded>>
          ELSE /\ hand' = [hand EXCEPT ![s] = p]
               /\ rpc' = [rpc EXCEPT ![s] = IF boundary = 0 THEN "play" ELSE "consume"]
               /\ loaded' = [loaded EXCEPT ![s] = boundary]
    BY <1>2 DEF LoadBoundary
  <2>2. seq' = seq /\ p \in Packets
    BY <1>0, <1>2 DEF LoadBoundary
  <2> QED BY <1>0, <2>1, <2>2 DEF Reached
<1>3. ASSUME NEW s \in Streams, Consume(s) PROVE Reached'
  BY <1>0, <1>3 DEF Consume, Reached
<1>4. ASSUME NEW s \in Streams, PlayPacket(s) PROVE Reached'
  BY <1>0, <1>4 DEF PlayPacket, Reached
<1>5. CASE UNCHANGED <<seq, hand, rpc, loaded>>
  BY <1>5 DEF Reached
<1>6. ASSUME NEW b \in FlushCalls, StoreBoundary(b) PROVE Reached'
  BY <1>5, <1>6 DEF StoreBoundary
<1>7. ASSUME NEW s \in Streams, ReadSocket(s) PROVE Reached'
  BY <1>5, <1>7 DEF ReadSocket
<1>8. Rewind \/ RequestFlush \/ ResetBoundary \/ SpawnStream \/ Thread \/ UNCHANGED vars
        => Reached'
  BY <1>5 DEF Rewind, RequestFlush, ResetBoundary, SpawnStream, Thread, TakeRequest,
              Retain, PlayNext, vars
<1> QED BY <1>1, <1>2, <1>3, <1>4, <1>6, <1>7, <1>8
        DEF Next, Sender, SessionTask, Reader

\* A boundary is cleared only for a packet that has reached it, or with its
\* stream, for any interleaving of flushes, readers and streams.
THEOREM BoundaryOutlivesRaces == Spec => ClearedWhenReached
<1> DEFINE Cleared ==
      boundary # 0 /\ boundary' = 0 =>
        \/ ctl = "idle" /\ ctl' # "idle"
        \/ \E s \in Streams : rpc[s] = "consume" /\ seq[hand[s]] >= boundary
<1>1. Typed /\ Reached /\ [Next]_vars => [Cleared]_vars
  <2> SUFFICES ASSUME Reached, [Next]_vars, boundary # 0, boundary' = 0
               PROVE  Cleared
    OBVIOUS
  <2> USE DEF sender, session, reader, player, history
  <2>1. ASSUME NEW s \in Streams, Consume(s) PROVE Cleared
    BY <2>1 DEF Consume, Reached
  <2>2. ASSUME NEW b \in FlushCalls, StoreBoundary(b) PROVE Cleared
    BY <2>2 DEF StoreBoundary
  <2>3. CASE ResetBoundary
    BY <2>3 DEF ResetBoundary
  <2>4. CASE UNCHANGED boundary
    BY <2>4
  <2>5. ASSUME NEW s \in Streams, ReadSocket(s) \/ LoadBoundary(s) \/ PlayPacket(s)
        PROVE  Cleared
    BY <2>4, <2>5 DEF ReadSocket, LoadBoundary, PlayPacket
  <2>6. Sender \/ RequestFlush \/ SpawnStream \/ Thread \/ UNCHANGED vars => Cleared
    BY <2>4 DEF Sender, SendPacket, Rewind, RequestFlush, SpawnStream, Thread,
                TakeRequest, Retain, PlayNext, vars
  <2> QED BY <2>1, <2>2, <2>3, <2>5, <2>6 DEF Next, SessionTask, Reader
<1>2. Spec => [](Typed /\ Fifo /\ Reached)
  BY TypedInit, TypedNext, FifoInit, FifoNext, ReachedInit, ReachedNext, PTL DEF Spec
<1>3. Spec => [][Cleared]_vars
  BY <1>1, <1>2, PTL DEF Spec
<1> QED BY <1>3 DEF ClearedWhenReached

-----------------------------------------------------------------------------
\* No wanted audio is skipped.

LEMMA WantedInit == Init => Wanted
BY DEF Init, Wanted

LEMMA WantedNext == Typed /\ Fifo /\ Wanted /\ [Next]_vars => Wanted'
<1> SUFFICES ASSUME Typed, Fifo, Wanted, [Next]_vars PROVE Wanted'
  OBVIOUS
<1>0. /\ sent \in Nat /\ boundary \in Nat /\ target \in Nat /\ next \in Nat
      /\ cur \in Streams /\ Packets \subseteq Nat
      /\ seq \in [Packets -> 0..MaxSeq] /\ hand \in [Streams -> Packets \cup {NoPacket}]
      /\ rpc \in [Streams -> {"read", "consume", "play"}]
      /\ loaded \in [Streams -> 0..MaxSeq] /\ 0..MaxSeq \subseteq Nat
      /\ wire \in [Streams -> SUBSET Packets] /\ batch \in [Streams -> SUBSET Packets]
      /\ Unjudged \subseteq Packets /\ Ahead \subseteq Packets
      /\ \A p \in Unjudged \cup Ahead : p <= sent
  <2>1. Unjudged \subseteq Coming(cur) /\ Ahead \subseteq Coming(cur)
    BY DEF Unjudged, Ahead, Coming
  <2>2. \A p \in Coming(cur) : p <= sent
    BY TypesUsed DEF Fifo, Numbered
  <2>3. Unjudged \subseteq Packets /\ Ahead \subseteq Packets
    BY <2>1, TypesUsed
  <2>4. /\ sent \in Nat /\ boundary \in Nat /\ target \in Nat /\ next \in Nat
        /\ cur \in Streams /\ Packets \subseteq Nat
    BY TypesUsed
  <2>5. 0..MaxSeq \subseteq Nat
    OBVIOUS
  <2>6. /\ seq \in [Packets -> 0..MaxSeq] /\ hand \in [Streams -> Packets \cup {NoPacket}]
        /\ rpc \in [Streams -> {"read", "consume", "play"}]
        /\ loaded \in [Streams -> 0..MaxSeq]
        /\ wire \in [Streams -> SUBSET Packets] /\ batch \in [Streams -> SUBSET Packets]
    BY TypedParts DEF Others
  <2> QED BY <2>1, <2>2, <2>3, <2>4, <2>5, <2>6
<1> USE DEF sender, session, reader, player, history
<1>1. ASSUME UNCHANGED <<seq, boundary, Unjudged, Ahead, skipped>>,
             UNCHANGED target, named \subseteq named', target # 0 => next' = next
      PROVE  Wanted'
  BY <1>1 DEF Wanted
<1>2. CASE SendPacket
  <2>1. /\ sent < MaxPackets /\ next <= MaxSeq
        /\ sent' = sent + 1 /\ seq' = [seq EXCEPT ![sent + 1] = next] /\ next' = next + 1
        /\ target' = IF next >= target THEN 0 ELSE target
        /\ wire' = [wire EXCEPT ![cur] = @ \cup {sent + 1}]
        /\ UNCHANGED <<cur, boundary, batch, hand, rpc, loaded, named, skipped>>
    BY <1>2 DEF SendPacket
  <2>2. sent + 1 \in Packets
    BY <1>0, <2>1, BufferedStreamAssumption DEF Packets
  <2>3. /\ Unjudged' = Unjudged \cup {sent + 1}
        /\ Ahead' = Ahead \cup {sent + 1}
    BY <1>0, <2>1 DEF Unjudged, Ahead, InHand
  <2>4. seq'[sent + 1] = next /\ \A p \in Unjudged \cup Ahead : seq'[p] = seq[p] /\ p < sent + 1
    BY <1>0, <2>1, <2>2
  <2>5. target' = 0
    BY <1>0, <2>1 DEF Wanted
  <2>6. ASSUME boundary # 0 PROVE \E q \in Ahead' : seq'[q] >= boundary
    <3>1. CASE target = 0
      BY <2>3, <2>4, <2>6, <3>1 DEF Wanted
    <3>2. CASE target = boundary
      <4>1. seq'[sent + 1] >= boundary
        BY <2>4, <2>6, <3>2 DEF Wanted
      <4> QED BY <2>3, <4>1
    <3> QED BY <2>6, <3>1, <3>2 DEF Wanted
  <2>7. ASSUME boundary # 0, NEW p \in Unjudged', seq'[p] < boundary, p \notin named
        PROVE  \E q \in Ahead' : q < p /\ seq'[q] >= boundary
    <3>1. CASE p \in Unjudged
      BY <2>3, <2>4, <2>7, <3>1 DEF Wanted
    <3>2. CASE p = sent + 1
      <4>1. target = 0
        BY <1>0, <2>4, <2>7, <3>2 DEF Wanted
      <4>2. PICK q \in Ahead : seq[q] >= boundary
        BY <2>7, <4>1 DEF Wanted
      <4> QED BY <2>3, <2>4, <3>2, <4>2
    <3> QED BY <2>3, <2>7, <3>1, <3>2
  <2>8. boundary' = boundary /\ named' = named /\ skipped' = skipped
    BY <2>1
  <2> QED BY <2>5, <2>6, <2>7, <2>8 DEF Wanted
<1>3. ASSUME NEW b \in FlushCalls, StoreBoundary(b) PROVE Wanted'
  <2>0. UNCHANGED <<seq, cur, wire, batch, hand, rpc, loaded, skipped>>
    BY <1>3 DEF StoreBoundary
  <2>1. CASE b = {}
    <3>1. UNCHANGED <<boundary, target, next>> /\ named \subseteq named'
      BY <1>3, <2>1 DEF StoreBoundary, Name
    <3>2. UNCHANGED <<Unjudged, Ahead>>
      BY <2>0, <3>1 DEF Unjudged, Ahead, InHand
    <3> QED BY <1>1, <2>0, <3>1, <3>2
  <2>2. CASE b # {}
    <3>1. Bound(b) \in Nat /\ \A q \in Nat : AsksFor(b, q) <=> q < Bound(b)
      BY <1>0, <2>2, BoundOf
    <3>2. /\ boundary' = Bound(b) /\ target' = Bound(b)
          /\ next' = IF AsksFor(b, next) THEN Bound(b) ELSE next
          /\ named \subseteq named'
          /\ {p \in Coming(cur) : AsksFor(b, seq[p])} \subseteq named'
      BY <1>3, <2>2 DEF StoreBoundary, Name
    <3>3. target' # 0 => next' >= target'
      BY <1>0, <3>1, <3>2
    <3>4. \A p \in Unjudged' : seq'[p] < boundary' => p \in named'
      <4>1. Unjudged' = Unjudged /\ Unjudged \subseteq Coming(cur) /\ seq' = seq
        BY <2>0 DEF Unjudged, Coming
      <4>2. \A p \in Unjudged : seq[p] \in Nat
        BY <1>0
      <4> QED BY <3>1, <3>2, <4>1, <4>2
    <3>5. skipped' \subseteq named'
      BY <2>0, <3>2 DEF Wanted
    <3> QED BY <3>2, <3>3, <3>4, <3>5 DEF Wanted
  <2> QED BY <2>1, <2>2
<1>4. ASSUME boundary' = 0, target' = 0, UNCHANGED <<named, skipped>> PROVE Wanted'
  BY <1>4 DEF Wanted
<1>5. CASE ResetBoundary
  BY <1>4, <1>5 DEF ResetBoundary
<1>6. CASE SpawnStream
  BY <1>4, <1>6, TypedParts DEF SpawnStream, Control
<1>7. ASSUME NEW s \in Streams, ReadSocket(s) PROVE Wanted'
  <2>1. PICK B \in SUBSET wire[s] :
          batch' = [batch EXCEPT ![s] = B] /\ wire' = [wire EXCEPT ![s] = @ \ B]
    BY <1>7 DEF ReadSocket
  <2>2. batch[s] = {} /\ UNCHANGED <<seq, cur, boundary, hand, rpc, loaded, skipped,
                                      named, target, next>>
    BY <1>7 DEF ReadSocket
  <2>3. Unjudged' = Unjudged
    BY <1>0, <2>1, <2>2 DEF Unjudged
  <2>4. Ahead' = Ahead
    BY <2>2, <2>3 DEF Ahead, InHand
  <2> QED BY <1>1, <2>2, <2>3, <2>4
<1>8. ASSUME NEW s \in Streams, LoadBoundary(s) PROVE Wanted'
  <2>1. PICK p \in batch[s] : LoadBoundary(s)!2!(p)
    BY <1>8 DEF LoadBoundary
  <2>2. rpc[s] = "read" /\ UNCHANGED <<seq, cur, boundary, wire, target, next, named>>
    BY <1>8 DEF LoadBoundary
  <2>3. hand[s] = NoPacket
    BY <2>2, TypedParts DEF Control
  <2>4. CASE s # cur
    <3>1. /\ batch'[cur] = batch[cur] /\ hand'[cur] = hand[cur] /\ rpc'[cur] = rpc[cur]
          /\ loaded'[cur] = loaded[cur] /\ skipped' = skipped
      BY <1>0, <2>1, <2>4
    <3>2. UNCHANGED <<Unjudged, Ahead>>
      BY <2>2, <3>1 DEF Unjudged, Ahead, InHand
    <3> QED BY <1>1, <2>2, <3>1, <3>2
  <2>5. CASE s = cur /\ boundary # 0 /\ seq[p] < boundary
    <3>1. /\ batch' = [batch EXCEPT ![cur] = @ \ {p}] /\ skipped' = skipped \cup {p}
          /\ UNCHANGED <<hand, rpc, loaded>>
      BY <2>1, <2>5
    <3>2. Unjudged' = Unjudged \ {p} \/ Unjudged' = Unjudged
      BY <1>0, <2>2, <3>1 DEF Unjudged
    <3>3. Ahead = Unjudged /\ Ahead' = Unjudged'
      BY <2>2, <2>3, <2>5, <3>1 DEF Ahead, InHand
    <3>4. p \in Unjudged /\ \A q \in Unjudged : p <= q
      <4>1. \A q \in batch[cur] : p <= q
        BY <2>1, <2>5 DEF First
      <4>2. \A q \in wire[cur] : p < q
        BY <1>0, <2>5 DEF Fifo, InTurn
      <4>3. wire[cur] \subseteq Nat /\ p \in Nat
        BY <1>0, <2>5
      <4> QED BY <2>5, <4>1, <4>2, <4>3 DEF Unjudged
    <3>5. p \in named
      <4>1. ~ \E q \in Ahead : q < p
        BY <1>0, <3>3, <3>4
      <4> QED BY <2>5, <3>4, <4>1 DEF Wanted
    <3>6. \A q \in Ahead : seq[q] >= boundary => q \in Ahead'
      <4>1. p \in Packets /\ seq[p] \in Nat
        BY <1>0, <3>4
      <4> QED BY <1>0, <2>5, <3>2, <3>3, <4>1
    <3>7. Unjudged' \subseteq Unjudged
      BY <3>2
    <3> QED BY <2>2, <3>1, <3>5, <3>6, <3>7 DEF Wanted
  <2>6. CASE s = cur /\ ~ (boundary # 0 /\ seq[p] < boundary)
    <3>1. /\ batch' = [batch EXCEPT ![cur] = @ \ {p}] /\ hand' = [hand EXCEPT ![cur] = p]
          /\ rpc' = [rpc EXCEPT ![cur] = IF boundary = 0 THEN "play" ELSE "consume"]
          /\ loaded' = [loaded EXCEPT ![cur] = boundary] /\ skipped' = skipped
      BY <2>1, <2>6
    <3>2. CASE boundary = 0
      BY <2>2, <3>1, <3>2 DEF Wanted
    <3>3. CASE boundary # 0
      <4>1. p \in Packets /\ p # NoPacket
        BY <1>0, Constants DEF NoPacket
      <4>2. hand'[cur] = p /\ rpc'[cur] = "consume" /\ loaded'[cur] = boundary'
            /\ batch'[cur] = batch[cur] \ {p}
        BY <1>0, <2>2, <3>1, <3>3
      <4>3. Unjudged' = (batch[cur] \ {p}) \cup wire[cur]
        BY <2>2, <4>2 DEF Unjudged
      <4>4. Ahead = Unjudged
        BY <2>2, <2>3, <2>6 DEF Ahead, InHand
      <4>5. Ahead' = Unjudged' \cup {p}
        BY <2>2, <4>1, <4>2 DEF Ahead, InHand
      <4>6. Ahead' = Ahead /\ Unjudged' \subseteq Unjudged
        BY <2>6, <4>3, <4>4, <4>5 DEF Unjudged
      <4> QED BY <2>2, <3>1, <4>6 DEF Wanted
    <3> QED BY <3>2, <3>3
  <2> QED BY <2>4, <2>5, <2>6
<1>9. ASSUME NEW s \in Streams, Consume(s) PROVE Wanted'
  <2>1. /\ rpc[s] = "consume" /\ rpc' = [rpc EXCEPT ![s] = "play"]
        /\ boundary' = IF boundary = loaded[s] THEN 0 ELSE boundary
        /\ UNCHANGED <<seq, cur, wire, batch, hand, loaded, skipped, named, target, next>>
    BY <1>9 DEF Consume
  <2>2. CASE boundary' = 0
    BY <2>1, <2>2 DEF Wanted
  <2>3. CASE boundary' = boundary /\ boundary # loaded[s]
    <3>1. Unjudged' = Unjudged
      BY <2>1 DEF Unjudged
    <3>2. Ahead' = Ahead
      BY <1>0, <2>1, <2>3, <3>1 DEF Ahead, InHand
    <3> QED BY <1>1, <2>1, <2>3, <3>1, <3>2
  <2> QED BY <2>1, <2>2, <2>3
<1>10. ASSUME NEW s \in Streams, PlayPacket(s) PROVE Wanted'
  <2>1. /\ rpc[s] = "play" /\ rpc' = [rpc EXCEPT ![s] = "read"]
        /\ hand' = [hand EXCEPT ![s] = NoPacket]
        /\ UNCHANGED <<seq, cur, boundary, wire, batch, loaded, skipped, named, target, next>>
    BY <1>10 DEF PlayPacket
  <2>2. Unjudged' = Unjudged
    BY <2>1 DEF Unjudged
  <2>3. Ahead' = Ahead
    BY <1>0, <2>1, <2>2 DEF Ahead, InHand
  <2> QED BY <1>1, <2>1, <2>2, <2>3
<1>11. CASE UNCHANGED <<seq, cur, boundary, wire, batch, hand, rpc, loaded, skipped,
                        named, target>> /\ (target # 0 => next' = next)
  <2>1. UNCHANGED <<Unjudged, Ahead>>
    BY <1>11 DEF Unjudged, Ahead, InHand
  <2> QED BY <1>1, <1>11, <2>1
<1>12. Rewind \/ RequestFlush \/ Thread \/ UNCHANGED vars => Wanted'
  BY <1>11 DEF Rewind, RequestFlush, Thread, TakeRequest, Retain, PlayNext, vars
<1> QED BY <1>2, <1>3, <1>5, <1>6, <1>7, <1>8, <1>9, <1>10, <1>12
        DEF Next, Sender, SessionTask, Reader

\* No wanted audio is lost to a seek: whatever a reader skips, a flush named
\* after it was sent, for any order of requests, packets and reads.
THEOREM NoWantedLost == Spec => []NothingWantedSkipped
<1>1. Spec => [](Typed /\ Fifo /\ Wanted)
  BY TypedInit, TypedNext, FifoInit, FifoNext, WantedInit, WantedNext, PTL DEF Spec
<1>2. Wanted => NothingWantedSkipped
  BY DEF Wanted, NothingWantedSkipped
<1> QED BY <1>1, <1>2, PTL

-----------------------------------------------------------------------------
\* At most one packet slips past a flush.

LEMMA AskedInit == Init => Asked
BY DEF Init, Asked

LEMMA AskedNext == Typed /\ Fifo /\ Asked /\ [Next]_vars => Asked'
<1> SUFFICES ASSUME Typed, Fifo, Asked, [Next]_vars PROVE Asked'
  OBVIOUS
<1> USE DEF sender, session, reader, player, history
<1>0. sent \in Nat /\ cur \in Streams /\ Packets \subseteq Nat /\ due \subseteq Packets
  BY TypesUsed
<1>1. CASE UNCHANGED <<request, flushing, due, sent>>
  BY <1>1 DEF Asked
<1>2. ASSUME NEW b \in FlushCalls, StoreBoundary(b) PROVE Asked'
  <2>1. due' \subseteq due \cup queue[cur] \cup sounding \cup Coming(cur)
        /\ UNCHANGED <<request, flushing, sent>>
    BY <1>2 DEF StoreBoundary, Name, Front
  <2>2. \A p \in due \cup queue[cur] \cup sounding \cup Coming(cur) : p <= sent
    BY <1>0 DEF Asked, Fifo, Numbered
  <2> QED BY <2>1, <2>2 DEF Asked
<1>3. CASE SendPacket
  <2>1. sent' = sent + 1 /\ UNCHANGED <<request, flushing, due>>
    BY <1>3 DEF SendPacket
  <2>2. \A p \in due : p <= sent + 1
    BY <1>0 DEF Asked
  <2> QED BY <2>1, <2>2 DEF Asked
<1>4. CASE RequestFlush
  BY <1>4 DEF RequestFlush, Asked
<1>5. CASE ResetBoundary
  BY <1>5 DEF ResetBoundary, Asked
<1>6. CASE SpawnStream
  BY <1>6 DEF SpawnStream, Asked
<1>7. CASE TakeRequest
  BY <1>7 DEF TakeRequest, Asked
<1>8. CASE Retain
  BY <1>8 DEF Retain, Asked
<1>9. ASSUME NEW s \in Streams, Reader(s) PROVE Asked'
  BY <1>1, <1>9 DEF Reader, ReadSocket, LoadBoundary, Consume, PlayPacket
<1>10. Rewind \/ PlayNext \/ UNCHANGED vars => Asked'
  BY <1>1 DEF Rewind, PlayNext, vars
<1> QED BY <1>2, <1>3, <1>4, <1>5, <1>6, <1>7, <1>8, <1>9, <1>10
        DEF Next, Sender, SessionTask, Thread

LEMMA AllButOneInit == Init => AllButOne
BY DEF Init, AllButOne

LEMMA AllButOneNext ==
  Typed /\ Fifo /\ Reached /\ Asked /\ AllButOne /\ [Next]_vars => AllButOne'
<1> SUFFICES ASSUME Typed, Fifo, Reached, Asked, AllButOne, [Next]_vars, ~ usurped'
             PROVE  \E x \in Nat : \A p \in due' : p # x => Stopped(p)'
  BY DEF AllButOne
<1> DEFINE Goal == \E x \in Nat : \A p \in due' : p # x => Stopped(p)'
<1> USE DEF sender, session, reader, player, history
<1>a. cur \in Streams /\ sent \in Nat /\ boundary \in Nat /\ Packets \subseteq Nat
      /\ Streams \subseteq Nat /\ due \subseteq Packets
  BY TypesUsed
<1>b. /\ seq \in [Packets -> 0..MaxSeq] /\ hand \in [Streams -> Packets \cup {NoPacket}]
      /\ rpc \in [Streams -> {"read", "consume", "play"}]
      /\ loaded \in [Streams -> 0..MaxSeq]
      /\ wire \in [Streams -> SUBSET Packets] /\ batch \in [Streams -> SUBSET Packets]
      /\ queue \in [Streams -> SUBSET Packets] /\ usurped \in BOOLEAN
  BY TypedParts DEF Others
<1>c. /\ Unjudged \subseteq Coming(cur) /\ Ahead \subseteq Coming(cur)
      /\ Unjudged \subseteq Ahead /\ InHand(cur) \subseteq Coming(cur)
  BY DEF Unjudged, Ahead, Coming
<1>d. \A p \in Coming(cur) : p \in Packets /\ p \in Nat /\ p <= sent
  BY TypesUsed DEF Fifo, Numbered
<1>e. \A p \in queue[cur] \cup sounding : p \notin Coming(cur)
  BY <1>d DEF Fifo, Behind
<1>1. ASSUME due' \subseteq due, ~ usurped, \A p \in due : Stopped(p) => Stopped(p)'
      PROVE  Goal
  BY <1>1 DEF AllButOne
<1>2. ASSUME UNCHANGED <<seq, boundary, Unjudged, Ahead, sounding, ctl, below, request,
                         flushing, due, usurped>>,
             InHand(cur)' \subseteq InHand(cur), queue'[cur'] \subseteq queue[cur]
      PROVE  Goal
  BY <1>1, <1>2 DEF Stopped, StillAsked
<1>3. CASE SendPacket
  <2>1. /\ ctl = "idle" /\ sent < MaxPackets /\ next <= MaxSeq
        /\ sent' = sent + 1 /\ seq' = [seq EXCEPT ![sent + 1] = next]
        /\ wire' = [wire EXCEPT ![cur] = @ \cup {sent + 1}]
        /\ UNCHANGED <<cur, ctl, boundary, batch, hand, rpc, loaded, queue, request,
                       flushing, sounding, due, usurped, below>>
    BY <1>3 DEF SendPacket
  <2>2. /\ Unjudged' = Unjudged \cup {sent + 1} /\ Ahead' = Ahead \cup {sent + 1}
        /\ InHand(cur)' = InHand(cur)
    BY <1>a, <1>b, <2>1 DEF Unjudged, Ahead, InHand
  <2>3. \A p \in Packets : p <= sent => seq'[p] = seq[p] /\ ~ (sent + 1 <= p)
    BY <1>a, <1>b, <2>1
  <2>4. ASSUME NEW p \in due, Stopped(p) PROVE Stopped(p)'
    <3>1. p \in Packets /\ p <= sent /\ p # sent + 1 /\ seq'[p] = seq[p]
      BY <1>a, <2>3 DEF Asked
    <3>2. p \notin InHand(cur)'
      BY <2>2, <2>4 DEF Stopped
    <3>3. p \in Unjudged' => boundary' # 0 /\ \A q \in Ahead' : q <= p => seq'[q] < boundary'
      <4>1. \A q \in Ahead : seq'[q] = seq[q]
        BY <1>c, <1>d, <2>3
      <4>2. ~ (sent + 1 <= p)
        BY <2>3, <3>1
      <4> QED BY <2>1, <2>2, <2>4, <3>1, <4>1, <4>2 DEF Stopped
    <3>4. p \in sounding' => StillAsked(p)'
      BY <2>1, <2>4, <3>1 DEF Stopped, StillAsked
    <3>5. p \in queue'[cur'] => StillAsked(p)' \/ \E b \in flushing' : AsksFor(b, seq'[p])
      BY <2>1, <2>4, <3>1 DEF Stopped, StillAsked
    <3> QED BY <2>1, <3>2, <3>3, <3>4, <3>5 DEF Stopped
  <2> QED BY <1>1, <2>1, <2>4
<1>4. ASSUME NEW b \in FlushCalls, StoreBoundary(b) PROVE Goal
  <2>1. /\ ctl' = "request" /\ below' = b
        /\ UNCHANGED <<seq, cur, wire, batch, hand, rpc, loaded, queue, sounding,
                       request, flushing, usurped>>
    BY <1>4 DEF StoreBoundary
  <2>2. /\ Unjudged' = Unjudged /\ InHand(cur)' = InHand(cur)
    BY <2>1 DEF Unjudged, InHand
  <2>3. \A p : StillAsked(p)' <=> AsksFor(b, seq[p])
    BY <2>1 DEF StillAsked
  <2>4. ASSUME NEW p \in queue[cur] \cup sounding, AsksFor(b, seq[p]) PROVE Stopped(p)'
    BY <1>c, <1>e, <2>1, <2>2, <2>3, <2>4 DEF Stopped
  <2>5. CASE b = {}
    <3>1. boundary' = boundary /\ due' = due \cup {p \in queue[cur] \cup sounding : AsksFor(b, seq[p])}
      BY <1>4, <2>5 DEF StoreBoundary, Name
    <3>2. Ahead' = Ahead
      BY <2>1, <2>2, <3>1 DEF Ahead, InHand
    <3>3. \A p : Stopped(p) => Stopped(p)'
      BY <2>1, <2>2, <2>3, <2>5, <3>1, <3>2, Everything DEF Stopped
    <3>4. PICK x \in Nat : \A p \in due : p # x => Stopped(p)
      BY <2>1 DEF AllButOne
    <3> QED BY <2>4, <3>1, <3>3, <3>4
  <2>6. CASE b # {}
    <3>1. /\ boundary' = Bound(b)
          /\ due' = {p \in queue[cur] \cup sounding : AsksFor(b, seq[p])} \cup Front(cur, b)
      BY <1>4, <2>6 DEF StoreBoundary, Name
    <3>2. Bound(b) \in Nat /\ \A q \in Nat : AsksFor(b, q) <=> q < Bound(b)
      BY <2>6, BoundOf, Constants
    <3>3. Ahead' \subseteq Coming(cur)
      BY <2>1 DEF Ahead, Unjudged, Coming, InHand
    <3>4. ASSUME NEW p \in Front(cur, b), p # hand[cur] PROVE Stopped(p)'
      <4>1. p \in Coming(cur) /\ \A q \in Coming(cur) : q <= p => AsksFor(b, seq[q])
        BY DEF Front
      <4>2. p \notin InHand(cur)' /\ p \notin queue'[cur'] \cup sounding'
        BY <1>e, <2>1, <2>2, <3>4, <4>1 DEF InHand
      <4>3. \A q \in Coming(cur) : q <= p => seq[q] < Bound(b)
        <5>1. \A q \in Coming(cur) : seq[q] \in Nat
          BY <1>b, <1>d
        <5> QED BY <3>2, <4>1, <5>1
      <4>4. Bound(b) # 0
        <5>1. p <= p /\ seq[p] \in Nat
          BY <1>b, <1>d, <4>1
        <5> QED BY <3>2, <4>1, <4>3, <5>1
      <4> QED BY <2>1, <3>1, <3>3, <4>2, <4>3, <4>4 DEF Stopped
    <3>5. hand[cur] \in Nat
      <4>1. hand[cur] \in Packets \cup {NoPacket}
        BY <1>a, <1>b
      <4>2. CASE hand[cur] \in Packets
        BY <1>a, <4>2
      <4>3. CASE hand[cur] = 0
        BY <4>3
      <4> QED BY <4>1, <4>2, <4>3 DEF NoPacket
    <3> QED BY <2>4, <3>1, <3>4, <3>5
  <2> QED BY <2>5, <2>6
<1>5. CASE RequestFlush
  <2>1. /\ ctl = "request" /\ ctl' = "idle" /\ request' = {below}
        /\ UNCHANGED <<seq, cur, boundary, wire, batch, hand, rpc, loaded, queue,
                       sounding, flushing, due, usurped>>
    BY <1>5 DEF RequestFlush
  <2>2. /\ Unjudged' = Unjudged /\ Ahead' = Ahead /\ InHand(cur)' = InHand(cur)
    BY <2>1 DEF Unjudged, Ahead, InHand
  <2>3. \A p : StillAsked(p)' <=> StillAsked(p)
    BY <2>1 DEF StillAsked
  <2>4. \A p \in due : Stopped(p) => Stopped(p)'
    BY <2>1, <2>2, <2>3 DEF Stopped
  <2> QED BY <1>1, <2>1, <2>4
<1>6. CASE ResetBoundary
  BY <1>6 DEF ResetBoundary
<1>7. CASE SpawnStream
  BY <1>7, TypedParts DEF SpawnStream, Control
<1>8. ASSUME NEW s \in Streams, ReadSocket(s) PROVE Goal
  <2>1. PICK B \in SUBSET wire[s] :
          batch' = [batch EXCEPT ![s] = B] /\ wire' = [wire EXCEPT ![s] = @ \ B]
    BY <1>8 DEF ReadSocket
  <2>2. /\ batch[s] = {}
        /\ UNCHANGED <<seq, cur, boundary, hand, rpc, loaded, queue, sounding, ctl,
                       below, request, flushing, due, usurped>>
    BY <1>8 DEF ReadSocket
  <2>3. Unjudged' = Unjudged
    BY <1>a, <1>b, <2>1, <2>2 DEF Unjudged
  <2>4. Ahead' = Ahead /\ InHand(cur)' = InHand(cur)
    BY <2>2, <2>3 DEF Ahead, InHand
  <2> QED BY <1>2, <2>2, <2>3, <2>4
<1>9. ASSUME NEW s \in Streams, LoadBoundary(s) PROVE Goal
  <2>1. PICK p0 \in batch[s] : LoadBoundary(s)!2!(p0)
    BY <1>9 DEF LoadBoundary
  <2>2. /\ rpc[s] = "read"
        /\ UNCHANGED <<seq, cur, boundary, wire, queue, sounding, ctl, below, request,
                       flushing, due, usurped>>
    BY <1>9 DEF LoadBoundary
  <2>3. hand[s] = NoPacket
    BY <2>2, TypedParts DEF Control
  <2>4. CASE s # cur
    <3>1. /\ batch'[cur] = batch[cur] /\ hand'[cur] = hand[cur] /\ rpc'[cur] = rpc[cur]
          /\ loaded'[cur] = loaded[cur]
      BY <1>a, <1>b, <2>1, <2>4
    <3>2. UNCHANGED <<Unjudged, Ahead>> /\ InHand(cur)' = InHand(cur)
      BY <2>2, <3>1 DEF Unjudged, Ahead, InHand
    <3> QED BY <1>2, <2>2, <3>1, <3>2
  <2>5. CASE s = cur /\ boundary # 0 /\ seq[p0] < boundary
    <3>1. /\ batch' = [batch EXCEPT ![cur] = @ \ {p0}]
          /\ UNCHANGED <<hand, rpc, loaded>>
      BY <2>1, <2>5
    <3>2. Unjudged' \subseteq Unjudged
      BY <1>a, <1>b, <2>2, <3>1 DEF Unjudged
    <3>3. Ahead' = Unjudged' /\ Ahead' \subseteq Ahead /\ InHand(cur)' = InHand(cur)
      BY <1>c, <2>2, <2>3, <2>5, <3>1, <3>2 DEF Ahead, InHand
    <3>4. \A p \in due : Stopped(p) => Stopped(p)'
      BY <2>2, <3>2, <3>3 DEF Stopped, StillAsked
    <3> QED BY <1>1, <2>2, <3>4
  <2>6. CASE s = cur /\ ~ (boundary # 0 /\ seq[p0] < boundary)
    <3>1. /\ batch' = [batch EXCEPT ![cur] = @ \ {p0}] /\ hand' = [hand EXCEPT ![cur] = p0]
          /\ rpc' = [rpc EXCEPT ![cur] = IF boundary = 0 THEN "play" ELSE "consume"]
          /\ loaded' = [loaded EXCEPT ![cur] = boundary]
      BY <2>1, <2>6
    <3>2. p0 \in Unjudged /\ p0 \in Ahead /\ p0 \in Packets /\ p0 # NoPacket /\ p0 <= p0
      <4>1. p0 \in Unjudged
        BY <2>6 DEF Unjudged
      <4>2. p0 \in Packets /\ p0 \in Nat
        BY <1>c, <1>d, <4>1
      <4> QED BY <1>c, <4>1, <4>2, Constants DEF NoPacket
    <3>3. InHand(cur)' = {p0}
      BY <1>a, <1>b, <2>2, <3>1, <3>2 DEF InHand
    <3>4. Unjudged' \subseteq Unjudged
      BY <1>a, <1>b, <2>2, <3>1 DEF Unjudged
    <3>5. Ahead' \subseteq Ahead
      BY <1>c, <2>2, <3>2, <3>3, <3>4 DEF Ahead
    <3>6. \A p \in due : Stopped(p) => p # p0
      BY <2>6, <3>2 DEF Stopped
    <3>7. \A p \in due : Stopped(p) => Stopped(p)'
      BY <2>2, <3>3, <3>4, <3>5, <3>6 DEF Stopped, StillAsked
    <3> QED BY <1>1, <2>2, <3>7
  <2> QED BY <2>4, <2>5, <2>6
<1>10. ASSUME NEW s \in Streams, Consume(s) PROVE Goal
  <2>1. /\ rpc[s] = "consume" /\ rpc' = [rpc EXCEPT ![s] = "play"]
        /\ boundary' = IF boundary = loaded[s] THEN 0 ELSE boundary
        /\ UNCHANGED <<seq, cur, wire, batch, hand, loaded, queue, sounding, ctl, below,
                       request, flushing, due>>
    BY <1>10 DEF Consume
  <2>2. ~ usurped /\ ~ (s # cur /\ boundary = loaded[s])
    BY <1>10 DEF Consume
  <2>3. Unjudged' = Unjudged /\ InHand(cur)' = InHand(cur)
    BY <2>1 DEF Unjudged, InHand
  <2>4. CASE boundary # loaded[s]
    <3>1. boundary' = boundary /\ Ahead' = Ahead
      BY <1>a, <1>b, <2>1, <2>3, <2>4 DEF Ahead, InHand
    <3>2. \A p \in due : Stopped(p) => Stopped(p)'
      BY <2>1, <2>3, <3>1 DEF Stopped, StillAsked
    <3> QED BY <1>1, <2>1, <2>2, <3>2
  <2>5. CASE s = cur /\ boundary = loaded[s]
    <3>1. hand[cur] # NoPacket /\ seq[hand[cur]] >= boundary
      BY <2>1, <2>5, TypedParts DEF Control, Reached
    <3>2. hand[cur] \in InHand(cur) /\ hand[cur] \in Ahead
      BY <2>1, <2>5, <3>1 DEF Ahead, InHand
    <3>3. \A p \in Unjudged : hand[cur] <= p
      <4>1. \A p \in Unjudged : hand[cur] < p
        BY <1>a, <3>2 DEF Fifo, InTurn, Unjudged
      <4> QED BY <1>c, <1>d, <3>2, <4>1
    <3>4. seq[hand[cur]] \in Nat
      BY <1>b, <1>c, <1>d, <3>2
    <3>5. \A p : Stopped(p) => p \notin Unjudged
      BY <1>a, <3>1, <3>2, <3>3, <3>4 DEF Stopped
    <3>6. \A p \in due : Stopped(p) => Stopped(p)'
      BY <2>1, <2>3, <3>5 DEF Stopped, StillAsked
    <3> QED BY <1>1, <2>1, <2>2, <3>6
  <2> QED BY <2>2, <2>4, <2>5
<1>11. ASSUME NEW s \in Streams, PlayPacket(s) PROVE Goal
  <2>1. /\ rpc[s] = "play" /\ rpc' = [rpc EXCEPT ![s] = "read"]
        /\ hand' = [hand EXCEPT ![s] = NoPacket]
        /\ UNCHANGED <<seq, cur, boundary, wire, batch, loaded, sounding, ctl, below,
                       request, flushing, due, usurped>>
    BY <1>11 DEF PlayPacket
  <2>2. PICK got \in {{}, {hand[s]}} : queue' = [queue EXCEPT ![s] = @ \cup got]
    BY <1>11 DEF PlayPacket
  <2>3. hand[s] # NoPacket
    BY <2>1, TypedParts DEF Control
  <2>4. Unjudged' = Unjudged
    BY <2>1 DEF Unjudged
  <2>5. Ahead' = Ahead
    BY <1>a, <1>b, <2>1, <2>4 DEF Ahead, InHand
  <2>6. InHand(cur)' \subseteq InHand(cur)
    BY <1>a, <1>b, <2>1 DEF InHand
  <2>7. queue'[cur'] \subseteq queue[cur] \cup InHand(cur)
    BY <1>a, <1>b, <2>1, <2>2, <2>3 DEF InHand
  <2>8. \A p \in due : Stopped(p) => Stopped(p)'
    BY <2>1, <2>4, <2>5, <2>6, <2>7 DEF Stopped, StillAsked
  <2> QED BY <1>1, <2>1, <2>8
<1>12. CASE TakeRequest
  <2>1. /\ flushing = {} /\ flushing' = request /\ request' = {} /\ sounding' = {}
        /\ UNCHANGED <<seq, cur, boundary, wire, batch, hand, rpc, loaded, queue, ctl,
                       below, due, usurped>>
    BY <1>12 DEF TakeRequest
  <2>2. Unjudged' = Unjudged /\ Ahead' = Ahead /\ InHand(cur)' = InHand(cur)
    BY <2>1 DEF Unjudged, Ahead, InHand
  <2>3. \A p \in due : Stopped(p) => Stopped(p)'
    BY <2>1, <2>2 DEF Stopped, StillAsked
  <2> QED BY <1>1, <2>1, <2>3
<1>13. CASE Retain
  <2>1. PICK b \in flushing :
          queue' = [queue EXCEPT ![cur] = {p \in @ : ~ AsksFor(b, seq[p])}]
    BY <1>13 DEF Retain
  <2>2. /\ flushing' = {}
        /\ UNCHANGED <<seq, cur, boundary, wire, batch, hand, rpc, loaded, request,
                       sounding, ctl, below, due, usurped>>
    BY <1>13 DEF Retain
  <2>3. Unjudged' = Unjudged /\ Ahead' = Ahead /\ InHand(cur)' = InHand(cur)
    BY <2>2 DEF Unjudged, Ahead, InHand
  <2>4. queue'[cur'] = {p \in queue[cur] : ~ AsksFor(b, seq[p])}
    BY <1>a, <1>b, <2>1, <2>2
  <2>5. \A p \in queue'[cur'] : ~ \E a \in flushing : AsksFor(a, seq[p])
    BY <2>4 DEF Asked
  <2>6. \A p \in due : Stopped(p) => Stopped(p)'
    BY <2>2, <2>3, <2>4, <2>5 DEF Stopped, StillAsked
  <2> QED BY <1>1, <2>2, <2>6
<1>14. CASE PlayNext
  <2>1. PICK p0 \in queue[cur] :
          /\ queue' = [queue EXCEPT ![cur] = @ \ {p0}]
          /\ sounding' = sounding \cup {p0}
    BY <1>14 DEF PlayNext
  <2>2. /\ flushing = {}
        /\ UNCHANGED <<seq, cur, boundary, wire, batch, hand, rpc, loaded, request,
                       flushing, ctl, below, due, usurped>>
    BY <1>14 DEF PlayNext
  <2>3. Unjudged' = Unjudged /\ Ahead' = Ahead /\ InHand(cur)' = InHand(cur)
    BY <2>2 DEF Unjudged, Ahead, InHand
  <2>4. queue'[cur'] \subseteq queue[cur]
    BY <1>a, <1>b, <2>1, <2>2
  <2>5. \A p \in due : Stopped(p) => Stopped(p)'
    BY <2>1, <2>2, <2>3, <2>4 DEF Stopped, StillAsked
  <2> QED BY <1>1, <2>2, <2>5
<1>15. Rewind \/ UNCHANGED vars => Goal
  <2>1. Rewind \/ UNCHANGED vars =>
          UNCHANGED <<seq, cur, boundary, wire, batch, hand, rpc, loaded, queue,
                      sounding, ctl, below, request, flushing, due, usurped>>
    BY DEF Rewind, vars
  <2>2. UNCHANGED <<cur, boundary, wire, batch, hand, rpc, loaded, queue>> =>
          /\ Unjudged' = Unjudged /\ Ahead' = Ahead
          /\ InHand(cur)' = InHand(cur) /\ queue'[cur'] = queue[cur]
    BY DEF Unjudged, Ahead, InHand
  <2> QED BY <1>2, <2>1, <2>2
<1> QED BY <1>3, <1>4, <1>5, <1>6, <1>7, <1>8, <1>9, <1>10, <1>11, <1>12, <1>13, <1>14,
           <1>15 DEF Next, Sender, SessionTask, Reader, Thread

\* Once a flush is served, at most the packet its reader had in hand is left of
\* the audio it had to discard, unless an older stream's reader cleared the
\* boundary: for any order of requests, reads, loads, exchanges and discards.
THEOREM OnlyOneSlips == Spec => []AtMostOneSlips
<1>1. Spec => [](Typed /\ Fifo /\ Reached /\ Asked /\ AllButOne)
  BY TypedInit, TypedNext, FifoInit, FifoNext, ReachedInit, ReachedNext, AskedInit,
     AskedNext, AllButOneInit, AllButOneNext, PTL DEF Spec
<1>2. AllButOne => AtMostOneSlips
  <2> SUFFICES ASSUME AllButOne, Served, ~ usurped PROVE Cardinality(Stale) <= 1
    BY DEF AtMostOneSlips
  <2>1. PICK x \in Nat : \A p \in due : p # x => Stopped(p)
    BY DEF AllButOne
  <2>2. Stale \subseteq {x}
    BY <2>1 DEF Stale, Served, Stopped, StillAsked
  <2>3. IsFiniteSet({x}) /\ Cardinality({x}) = 1
    BY FS_Singleton
  <2> QED BY <2>2, <2>3, FS_Subset
<1> QED BY <1>1, <1>2, PTL
=============================================================================
