---------------------------- MODULE PlayerProofs ----------------------------
(***************************************************************************)
(* What Player promises for every number of packets, every assignment of   *)
(* sequence stamps, every chunking and every set of flush boundaries.      *)
(***************************************************************************)
EXTENDS Player, FiniteSetTheorems, TLAPS

-----------------------------------------------------------------------------
(* The channel: the packets it carries, their order, whether a Wake is in. *)

Carried(s) == {s[i].pkt : i \in DOMAIN s} \ {NoPacket}

Sorted(s) ==
  \A i, j \in DOMAIN s :
    i < j /\ s[i].pkt # NoPacket /\ s[j].pkt # NoPacket => s[i].pkt < s[j].pkt

HasWake(s) == \E i \in DOMAIN s : s[i] = Wake

\* A command carries a packet or none.
LEMMA CommandPacket ==
  ASSUME NEW c \in Commands
  PROVE  c.pkt \in Packets \cup {NoPacket}
BY DEF Commands, Pcm, Wake, Stop, Packets, NoPacket

LEMMA NothingQueued == <<>> \in Seq(Commands)
OBVIOUS

LEMMA WakeIsCommand == Wake \in Commands /\ Stop \in Commands
                       /\ Wake.pkt = NoPacket /\ Stop.pkt = NoPacket
                       /\ \A p \in Packets : Pcm(p) \in Commands /\ Pcm(p).pkt = p
BY DEF Commands, Pcm, Wake, Stop, Packets, NoPacket

\* What `send' does to the channel.
LEMMA Appended ==
  ASSUME NEW s \in Seq(Commands), NEW c \in Commands
  PROVE  /\ Append(s, c) \in Seq(Commands)
         /\ Carried(Append(s, c)) = Carried(s) \cup ({c.pkt} \ {NoPacket})
         /\ (Sorted(s) /\ (c.pkt # NoPacket => \A p \in Carried(s) : p < c.pkt))
               => Sorted(Append(s, c))
         /\ HasWake(s) \/ c = Wake => HasWake(Append(s, c))
<1> DEFINE t == Append(s, c)
<1>1. /\ t \in Seq(Commands) /\ Len(s) \in Nat /\ DOMAIN s = 1..Len(s)
      /\ DOMAIN t = 1..(Len(s) + 1)
      /\ \A i \in 1..Len(s) : t[i] = s[i]
      /\ t[Len(s) + 1] = c
  OBVIOUS
<1> HIDE DEF t
<1>2. Carried(t) = Carried(s) \cup ({c.pkt} \ {NoPacket})
  BY <1>1 DEF Carried
<1>3. ASSUME Sorted(s), c.pkt # NoPacket => \A p \in Carried(s) : p < c.pkt
      PROVE  Sorted(t)
  <2> SUFFICES ASSUME NEW i \in DOMAIN t, NEW j \in DOMAIN t, i < j,
                      t[i].pkt # NoPacket, t[j].pkt # NoPacket
               PROVE  t[i].pkt < t[j].pkt
    BY DEF Sorted
  <2>1. CASE j \in DOMAIN s
    BY <1>1, <1>3, <2>1 DEF Sorted
  <2>2. CASE j = Len(s) + 1
    <3>1. i \in DOMAIN s /\ t[i] = s[i] /\ t[j] = c
      BY <1>1, <2>2
    <3>2. s[i].pkt \in Carried(s)
      BY <3>1 DEF Carried
    <3> QED BY <3>1, <3>2, <1>3
  <2> QED BY <1>1, <2>1, <2>2
<1>4. HasWake(s) \/ c = Wake => HasWake(t)
  BY <1>1 DEF HasWake
<1> QED BY <1>1, <1>2, <1>3, <1>4 DEF t

\* What `recv' and `try_recv' take from the channel and leave in it.
LEMMA Taken ==
  ASSUME NEW s \in Seq(Commands), s # <<>>
  PROVE  /\ Head(s) \in Commands /\ Tail(s) \in Seq(Commands)
         /\ Carried(s) = Carried(Tail(s)) \cup ({Head(s).pkt} \ {NoPacket})
         /\ Sorted(s) => /\ Sorted(Tail(s))
                         /\ Head(s).pkt # NoPacket =>
                              \A p \in Carried(Tail(s)) : Head(s).pkt < p
         /\ HasWake(s) /\ Head(s) # Wake => HasWake(Tail(s))
<1> DEFINE t == Tail(s)
<1>1. /\ t \in Seq(Commands) /\ Len(s) \in Nat /\ Len(s) > 0
      /\ DOMAIN s = 1..Len(s) /\ DOMAIN t = 1..(Len(s) - 1)
      /\ \A i \in 1..(Len(s) - 1) : t[i] = s[i + 1]
      /\ Head(s) = s[1] /\ Head(s) \in Commands
  OBVIOUS
<1> HIDE DEF t
<1>2. ASSUME NEW i \in DOMAIN s PROVE i = 1 \/ (i - 1 \in DOMAIN t /\ t[i - 1] = s[i])
  BY <1>1
<1>3. ASSUME NEW i \in DOMAIN t PROVE i + 1 \in DOMAIN s /\ t[i] = s[i + 1]
  BY <1>1
<1>4. 1 \in DOMAIN s
  BY <1>1
<1>5. Carried(s) = Carried(t) \cup ({Head(s).pkt} \ {NoPacket})
  <2>1. ASSUME NEW p \in Carried(s)
        PROVE  p \in Carried(t) \cup ({Head(s).pkt} \ {NoPacket})
    BY <1>1, <1>2 DEF Carried
  <2>2. ASSUME NEW p \in Carried(t) PROVE p \in Carried(s)
    BY <1>3 DEF Carried
  <2>3. {Head(s).pkt} \ {NoPacket} \subseteq Carried(s)
    BY <1>1, <1>4 DEF Carried
  <2> QED BY <2>1, <2>2, <2>3
<1>6. ASSUME Sorted(s) PROVE Sorted(t)
  BY SMTT(30), <1>1, <1>3, <1>6 DEF Sorted
<1>7. ASSUME Sorted(s), Head(s).pkt # NoPacket, NEW p \in Carried(t)
      PROVE  Head(s).pkt < p
  <2>1. PICK i \in DOMAIN t : p = t[i].pkt /\ p # NoPacket
    BY DEF Carried
  <2> QED BY <1>1, <1>3, <1>4, <1>7, <2>1 DEF Sorted
<1>8. HasWake(s) /\ Head(s) # Wake => HasWake(t)
  BY <1>1, <1>2 DEF HasWake
<1> QED BY <1>1, <1>5, <1>6, <1>7, <1>8 DEF t

-----------------------------------------------------------------------------
(* Types, and what each place of the thread knows. *)

Shape ==
  /\ pc = "write" => cur \in Packets /\ left \in 1..Chunks
  /\ pc # "write" => cur = NoPacket
  /\ pc \in {"deliver", "write"} => ~ wasPaused
  /\ pc = "drain" => flush # FlushNone /\ wasPaused = seen /\ sounding = {}
  /\ pc = "stopped" => chan = <<>> /\ held = {} /\ sounding = {}
  /\ pc = "write" /\ left < Chunks => cur \in sounding
  /\ wasPaused => sounding = {}

LEMMA EncodeType ==
  ASSUME NEW below \in FlushCalls
  PROVE  Encode(below) \in 1..U64Max
<1>1. CASE below = {}
  BY <1>1, PlayerAssumption DEF Encode, FlushAll
<1>2. CASE below # {}
  <2>1. PICK b \in 0..U64Max : below = {b}
    BY <1>2, PlayerAssumption
  <2>2. (CHOOSE x \in below : TRUE) = b
    BY <2>1
  <2> QED BY <1>2, <2>1, <2>2, PlayerAssumption DEF Encode, Saturating1
<1> QED BY <1>1, <1>2

\* The encoding and the retain test agree with what the caller asks for, zero,
\* "everything" and the boundaries saturated at u64::MAX included.
LEMMA KeepsWhatIsNotNamed ==
  ASSUME NEW request \in 0..U64Max, request # FlushNone, NEW p \in Packets
  PROVE  Names(request, p) <=> ~ Keeps(request, p)
<1>1. SeqOf[p] \in 0..(U64Max - 2) /\ U64Max \in Nat /\ U64Max > 1
  BY PlayerAssumption
<1>2. Saturating1(SeqOf[p]) = SeqOf[p] + 1
  BY <1>1 DEF Saturating1
<1> QED BY <1>1, <1>2 DEF Names, Keeps, FlushNone

LEMMA AskedIsNamed ==
  ASSUME NEW below \in FlushCalls, NEW p \in Packets
  PROVE  Names(Encode(below), p) <=> AsksFor(below, p)
<1>1. SeqOf[p] \in 0..(U64Max - 2) /\ U64Max \in Nat /\ U64Max > 1
  BY PlayerAssumption
<1>2. CASE below = {}
  BY <1>1, <1>2 DEF Encode, Names, AsksFor, FlushAll, FlushNone
<1>3. CASE below # {}
  <2>1. PICK b \in 0..U64Max : below = {b}
    BY <1>3, PlayerAssumption
  <2>2. Encode(below) = IF b + 1 > U64Max THEN U64Max ELSE b + 1
    BY <2>1 DEF Encode, Saturating1
  <2>3. AsksFor(below, p) <=> SeqOf[p] < b
    BY <2>1 DEF AsksFor
  <2> QED BY <1>1, <2>2, <2>3 DEF Names, FlushAll, FlushNone
<1> QED BY <1>2, <1>3

LEMMA InitTyped == Init => Typed /\ Shape
<1> SUFFICES ASSUME Init PROVE Typed /\ Shape
  OBVIOUS
<1>1. Typed
  <2>1. chan \in Seq(Commands) /\ cmd \in Commands
    BY WakeIsCommand DEF Init
  <2>2. /\ flushReq \in 0..U64Max /\ flush \in 0..U64Max /\ left \in 0..Chunks
        /\ sent \in 0..MaxPackets /\ batch \in 0..MaxBatch /\ calls \in 0..MaxCalls
    BY PlayerAssumption DEF Init, FlushNone
  <2> QED BY <2>1, <2>2 DEF Init, Typed
<1>2. Shape
  BY DEF Init, Shape
<1> QED BY <1>1, <1>2

LEMMA CallersTyped ==
  ASSUME Typed, Shape, Reader \/ Control \/ Drop
  PROVE  (Typed /\ Shape)'
<1> USE PlayerAssumption DEF shared, locals, callers, history
<1>1. CASE PassGate
  BY <1>1 DEF PassGate, Typed, Shape
<1>2. CASE PlayAdd
  <2>1. sent + 1 \in Packets /\ sent' \in 0..MaxPackets /\ batch' \in 0..MaxBatch
    BY <1>2 DEF PlayAdd, Typed, Packets
  <2>2. Typed'
    BY <1>2, <2>1 DEF PlayAdd, Typed
  <2>3. Shape'
    BY <1>2 DEF PlayAdd, Shape
  <2> QED BY <2>2, <2>3
<1>3. CASE PlaySend
  <2>1. Append(chan, Pcm(playing)) \in Seq(Commands)
    BY <1>3, WakeIsCommand, Appended DEF PlaySend, Typed
  <2> QED BY <1>3, <2>1 DEF PlaySend, Send, Typed, Shape
<1>4. CASE \E b \in BOOLEAN : SetPaused(b)
  <2>1. PICK b \in BOOLEAN : SetPaused(b)
    BY <1>4
  <2>2. calls' \in 0..MaxCalls
    BY <2>1 DEF SetPaused, BeginCall, Typed
  <2>3. Typed'
    BY <2>1, <2>2 DEF SetPaused, Typed
  <2>4. Shape'
    BY <2>1 DEF SetPaused, Shape
  <2> QED BY <2>3, <2>4
<1>5. CASE \E below \in FlushCalls : Flush(below)
  <2>1. PICK below \in FlushCalls : Flush(below)
    BY <1>5
  <2>2. doomed' \subseteq Packets /\ named' \subseteq Packets
    BY <2>1, CommandPacket DEF Flush, Typed, Outstanding, InCall, Queued, InHand,
       Writing
  <2> QED BY <2>1, <2>2, EncodeType DEF Flush, BeginCall, Typed, Shape
<1>6. CASE SendWake
  BY <1>6, Appended, WakeIsCommand DEF SendWake, Send, Typed, Shape
<1>7. CASE DropRaise
  BY <1>7 DEF DropRaise, Typed, Shape
<1>8. CASE DropSend
  BY <1>8, Appended, WakeIsCommand DEF DropSend, Send, Typed, Shape
<1>9. CASE DropJoin
  BY <1>9 DEF DropJoin, Typed, Shape
<1> QED BY <1>1, <1>2, <1>3, <1>4, <1>5, <1>6, <1>7, <1>8, <1>9
        DEF Reader, Control, Drop

LEMMA ThreadTyped ==
  ASSUME Typed, Shape, Thread
  PROVE  (Typed /\ Shape)'
<1> USE PlayerAssumption DEF shared, locals, callers, history
<1>1. CASE Recv
  <2>1. /\ chan' \in Seq(Commands) /\ cmd' \in Commands /\ held' \subseteq held
        /\ missed' \in BOOLEAN
    <3>1. chan \in Seq(Commands) /\ chan # <<>>
      BY <1>1 DEF Recv, Typed
    <3>2. Head(chan) \in Commands /\ Tail(chan) \in Seq(Commands)
      BY <3>1, Taken
    <3> QED BY <1>1, <3>2, NothingQueued DEF Recv, Exit, Typed
  <2>2. Typed'
    BY <1>1, <2>1 DEF Recv, Exit, Typed
  <2>3. Shape'
    BY <1>1 DEF Recv, Exit, Shape
  <2> QED BY <2>2, <2>3
<1>2. CASE LoadPaused
  <2>1. Typed'
    BY <1>2 DEF LoadPaused, Typed
  <2>2. Shape'
    BY <1>2 DEF LoadPaused, Shape
  <2> QED BY <2>1, <2>2
<1>3. CASE SwapFlush
  BY <1>3, CommandPacket
  DEF SwapFlush, AfterControl, Typed, Shape, FlushNone, NoPacket
<1>4. CASE Drain
  <2>1. Tail(chan) \in Seq(Commands) /\ Head(chan).pkt \in Packets \cup {NoPacket}
    <3>1. chan \in Seq(Commands) /\ chan # <<>>
      BY <1>4 DEF Drain, Typed
    <3> QED BY <3>1, Taken, CommandPacket
  <2>2. chan' \in Seq(Commands) /\ held' \subseteq Packets
    BY <1>4, <2>1, NothingQueued DEF Drain, Exit, Typed
  <2>3. missed' \in BOOLEAN
    BY <1>4 DEF Drain, Typed
  <2>4. Typed'
    BY <1>4, <2>2, <2>3 DEF Drain, Exit, Typed
  <2>5. Shape'
    BY <1>4 DEF Drain, Exit, Shape
  <2> QED BY <2>4, <2>5
<1>5. CASE Retain
  <2>1. Typed'
    BY <1>5 DEF Retain, AfterControl, Typed
  <2>2. Shape'
    BY <1>5 DEF Retain, AfterControl, Shape
  <2> QED BY <2>1, <2>2
<1>6. CASE Pop
  <2>1. left' \in 0..Chunks /\ held' \subseteq held /\ cur' \in held \cup {cur}
    BY <1>6 DEF Pop, Typed
  <2>2. Typed'
    BY <1>6, <2>1 DEF Pop, Typed, history
  <2>3. Shape'
    BY <1>6 DEF Pop, Shape, Typed
  <2> QED BY <2>2, <2>3
<1>7. CASE WriteChunk
  <2>1. cur \in Packets /\ left \in 1..Chunks
    BY <1>7 DEF WriteChunk, Shape
  <2>2. left' \in 0..Chunks /\ sounding' \subseteq sounding \cup {cur}
        /\ delivered' \subseteq delivered \cup {cur} /\ cut' \subseteq cut \cup {cur}
        /\ cur' \in {cur, NoPacket} /\ position' \in {position, cur}
        /\ held' \in {held, {}} /\ chan' \in {chan, <<>>}
        /\ pc' \in {"stopped", "write", "recv", "deliver"}
    BY <1>7, <2>1 DEF WriteChunk, Exit, Typed
  <2>3. /\ chan' \in Seq(Commands) /\ held' \subseteq Packets
        /\ cur' \in Packets \cup {NoPacket} /\ position' \in Packets \cup {NoPacket}
        /\ sounding' \subseteq Packets /\ delivered' \subseteq Packets
        /\ cut' \subseteq Packets
    BY <2>1, <2>2, NothingQueued DEF Typed
  <2>5. Typed'
    BY <1>7, <2>2, <2>3 DEF WriteChunk, Typed
  <2>4. Shape'
    BY <1>7, <2>1 DEF WriteChunk, Exit, Shape
  <2> QED BY <2>4, <2>5
<1> QED BY <1>1, <1>2, <1>3, <1>4, <1>5, <1>6, <1>7 DEF Thread

THEOREM Types == Spec => [](Typed /\ Shape)
<1>1. Typed /\ Shape /\ [Next]_vars => (Typed /\ Shape)'
  <2>1. ASSUME Typed, Shape, UNCHANGED vars PROVE (Typed /\ Shape)'
    BY <2>1 DEF vars, shared, locals, callers, history, Typed, Shape
  <2> QED BY <2>1, CallersTyped, ThreadTyped DEF Next
<1> QED BY <1>1, InitTyped, PTL DEF Spec

\* Once the thread has seen the pause gate closed the sink is silent until it
\* has seen it open, for every instance.
THEOREM PauseSilences == Spec => []PausedIsSilent
<1>1. Shape => PausedIsSilent
  BY DEF Shape, PausedIsSilent
<1> QED BY <1>1, Types, PTL

-----------------------------------------------------------------------------
(* Packets move through the call, the channel, the thread's hand, the hold *)
(* buffer and the writing loop in the order of their numbers, and are      *)
(* never in two of these places.                                           *)

Taking == InHand \cup held \cup Writing

Order ==
  /\ Sorted(chan)
  /\ playing # NoPacket => playing = sent
  /\ \A p \in Carried(chan) \cup Taking :
       p <= sent /\ (playing # NoPacket => p < playing)
  /\ \A q \in Carried(chan) : \A p \in Taking : p < q
  /\ \A q \in InHand : \A p \in held \cup Writing : p < q
  /\ \A q \in held : \A p \in Writing : p < q

LEMMA QueuedIsCarried == Queued = Carried(chan)
BY DEF Queued, Carried

LEMMA CarriedType ==
  ASSUME Typed
  PROVE  /\ Carried(chan) \subseteq Packets /\ InHand \subseteq Packets
         /\ held \subseteq Packets /\ Writing \subseteq Packets
         /\ Carried(<<>>) = {} /\ Sorted(<<>>)
<1>1. Carried(chan) \subseteq Packets
  BY CommandPacket DEF Typed, Carried
<1>2. InHand \subseteq Packets /\ Writing \subseteq Packets
  BY CommandPacket DEF Typed, InHand, Writing
<1>3. Carried(<<>>) = {} /\ Sorted(<<>>)
  BY DEF Carried, Sorted
<1> QED BY <1>1, <1>2, <1>3 DEF Typed

\* A command other than a packet changes neither what is carried nor its order.
LEMMA ControlAppended ==
  ASSUME Typed, NEW c \in {Wake, Stop}
  PROVE  /\ Carried(Append(chan, c)) = Carried(chan)
         /\ Sorted(chan) => Sorted(Append(chan, c))
<1>1. chan \in Seq(Commands) /\ c \in Commands /\ c.pkt = NoPacket
  BY WakeIsCommand DEF Typed
<1>2. Carried(Append(chan, c)) = Carried(chan) \cup ({c.pkt} \ {NoPacket})
  BY <1>1, Appended
<1>3. Sorted(chan) => Sorted(Append(chan, c))
  BY <1>1, Appended
<1> QED BY <1>1, <1>2, <1>3

LEMMA InitOrder == Init => Order
BY DEF Init, Order, Carried, Sorted, Taking, InHand, Writing, NoPacket, Wake

LEMMA CallersOrder ==
  ASSUME Typed, Shape, Order, Reader \/ Control \/ Drop
  PROVE  Order'
<1> USE DEF shared, locals, callers, history
<1>1. CASE \/ PassGate \/ DropRaise \/ DropJoin
          \/ \E b \in BOOLEAN : SetPaused(b)
          \/ \E below \in FlushCalls : Flush(below)
  BY <1>1 DEF PassGate, DropRaise, DropJoin, SetPaused, Flush, BeginCall,
     Order, Taking, InHand, Writing
<1>2. CASE PlayAdd
  <2>1. \A p \in Carried(chan) \cup Taking : p \in Nat
    BY CarriedType DEF Taking, Packets
  <2>2. Taking' = Taking /\ chan' = chan
    BY <1>2 DEF PlayAdd, Taking, InHand, Writing
  <2>3. sent' = sent + 1 /\ playing' = sent + 1 /\ sent \in Nat
    BY <1>2, PlayerAssumption DEF PlayAdd, Typed
  <2> QED BY <1>2, <2>1, <2>2, <2>3 DEF PlayAdd, Order, InHand, Writing
<1>3. CASE PlaySend
  <2>1. playing \in Packets /\ Pcm(playing) \in Commands
        /\ Pcm(playing).pkt = playing /\ playing = sent
    BY <1>3, WakeIsCommand DEF PlaySend, Typed, Order
  <2>2. UNCHANGED <<InHand, held, Writing, Taking, sent>> /\ playing' = NoPacket
    BY <1>3 DEF PlaySend, Taking, InHand, Writing
  <2>3. CASE pc = "stopped"
    BY <1>3, <2>2, <2>3 DEF PlaySend, Send, Order
  <2>4. CASE pc # "stopped"
    <3>1. chan' = Append(chan, Pcm(playing))
      BY <1>3, <2>4 DEF PlaySend, Send
    <3>2. Carried(chan') = Carried(chan) \cup {playing} /\ Sorted(chan')
      BY <2>1, <3>1, Appended DEF Typed, Order, NoPacket, Packets
    <3>3. \A p \in Carried(chan') \cup Taking' : p <= sent
      BY <2>1, <2>2, <3>2, CarriedType DEF Order, Packets, Taking
    <3>4. \A q \in Carried(chan') : \A p \in Taking' : p < q
      BY <2>1, <2>2, <3>2 DEF Order, Packets, NoPacket
    <3> QED BY <2>2, <3>2, <3>3, <3>4 DEF Order
  <2> QED BY <2>3, <2>4
<1>4. CASE SendWake \/ DropSend
  <2>1. chan' \in {chan, Append(chan, Wake), Append(chan, Stop)}
    BY <1>4 DEF SendWake, DropSend, Send
  <2>2. Carried(chan') = Carried(chan) /\ Sorted(chan')
    BY <2>1, ControlAppended DEF Order
  <2>3. UNCHANGED <<InHand, held, Writing, Taking, sent, playing>>
    BY <1>4 DEF SendWake, DropSend, Taking, InHand, Writing
  <2> QED BY <2>2, <2>3 DEF Order
<1> QED BY <1>1, <1>2, <1>3, <1>4 DEF Reader, Control, Drop

LEMMA ThreadOrder ==
  ASSUME Typed, Shape, Order, Thread
  PROVE  Order'
<1> USE DEF shared, locals, callers, history
<1>1. CASE Exit /\ UNCHANGED <<sent, playing>>
  <2>1. Taking' = {} /\ Carried(chan') = {} /\ Sorted(chan')
    BY <1>1, CarriedType DEF Exit, Taking, InHand, Writing
  <2>2. InHand' = {} /\ held' = {}
    BY <1>1 DEF Exit, InHand
  <2> QED BY <1>1, <2>1, <2>2 DEF Order
<1>2. CASE Recv /\ ~ Exit
  <2>1. chan \in Seq(Commands) /\ chan # <<>> /\ chan' = Tail(chan)
        /\ cmd' = Head(chan)
    BY <1>2 DEF Recv, Typed
  <2>2. InHand = {} /\ InHand' = {Head(chan).pkt} \ {NoPacket}
        /\ UNCHANGED <<held, Writing, sent, playing>>
    BY <1>2, <2>1 DEF Recv, InHand, Writing
  <2>3. /\ Carried(chan) = Carried(chan') \cup InHand'
        /\ Sorted(chan') /\ \A p \in InHand' : \A q \in Carried(chan') : p < q
    BY <2>1, <2>2, Taken DEF Order
  <2> QED BY <2>2, <2>3 DEF Order, Taking
<1>3. CASE LoadPaused
  BY <1>3 DEF LoadPaused, Order, Taking, InHand, Writing
<1>4. CASE SwapFlush
  <2>1. InHand' = {} /\ held' = held \cup InHand
        /\ UNCHANGED <<chan, Writing, sent, playing>> /\ Writing = {}
    BY <1>4 DEF SwapFlush, AfterControl, InHand, Writing, Shape
  <2> QED BY <2>1 DEF Order, Taking
<1>5. CASE Drain /\ ~ Exit
  <2>1. chan \in Seq(Commands) /\ chan # <<>> /\ chan' = Tail(chan)
        /\ held' = held \cup ({Head(chan).pkt} \ {NoPacket})
    BY <1>5 DEF Drain, Typed
  <2>2. InHand = {} /\ InHand' = {} /\ Writing = {} /\ Writing' = {}
        /\ UNCHANGED <<sent, playing>>
    BY <1>5 DEF Drain, InHand, Writing, Shape
  <2> QED BY <2>1, <2>2, Taken DEF Order, Taking
<1>6. CASE Retain
  <2>1. InHand = {} /\ InHand' = {} /\ Writing = {} /\ Writing' = {}
        /\ held' \subseteq held /\ UNCHANGED <<chan, sent, playing>>
    BY <1>6 DEF Retain, AfterControl, InHand, Writing, Shape
  <2> QED BY <2>1 DEF Order, Taking
<1>7. CASE Pop
  <2>1. InHand = {} /\ InHand' = {} /\ Writing = {} /\ UNCHANGED <<chan, sent, playing>>
    BY <1>7 DEF Pop, InHand, Writing, Shape
  <2>2. CASE UNCHANGED <<held, cur>>
    BY <2>1, <2>2 DEF Order, Taking, Writing
  <2>3. CASE \E p \in held : /\ \A q \in held : p <= q
                            /\ cur' = p /\ held' = held \ {p}
    <3>1. PICK p \in held : /\ \A q \in held : p <= q
                           /\ cur' = p /\ held' = held \ {p}
      BY <2>3
    <3>2. Writing' = {p} /\ held \subseteq Nat
      BY <3>1 DEF Writing, Typed, Packets, NoPacket
    <3>3. Taking' = Taking /\ \A q \in held' : p < q
      BY <2>1, <3>1, <3>2 DEF Taking
    <3> QED BY <2>1, <3>2, <3>3 DEF Order
  <2> QED BY <1>7, <2>2, <2>3 DEF Pop
<1>8. CASE WriteChunk /\ ~ Exit
  <2>1. InHand = {} /\ InHand' = {} /\ Writing' \subseteq Writing
        /\ UNCHANGED <<chan, held, sent, playing>>
    BY <1>8 DEF WriteChunk, InHand, Writing
  <2> QED BY <2>1 DEF Order, Taking
<1> QED BY <1>1, <1>2, <1>3, <1>4, <1>5, <1>6, <1>7, <1>8
        DEF Thread, Recv, Drain, WriteChunk

THEOREM Ordered == Spec => []Order
<1>1. Typed /\ Shape /\ Order /\ [Next]_vars => Order'
  <2>1. ASSUME Order, UNCHANGED vars PROVE Order'
    BY <2>1 DEF vars, shared, locals, callers, history, Order, Taking, InHand,
       Writing
  <2> QED BY <2>1, CallersOrder, ThreadOrder DEF Next
<1> QED BY <1>1, InitOrder, Types, PTL DEF Spec

-----------------------------------------------------------------------------
(* What is outstanding, step by step. *)

LEMMA OutstandingFinite ==
  ASSUME Typed
  PROVE  /\ Outstanding \subseteq Packets /\ IsFiniteSet(Outstanding)
         /\ Cardinality(Outstanding) \in Nat
<1>1. Outstanding \subseteq Packets
  BY CarriedType, QueuedIsCarried DEF Outstanding, InCall, Typed
<1>2. IsFiniteSet(Packets)
  BY FS_Interval, PlayerAssumption DEF Packets
<1> QED BY <1>1, <1>2, FS_Subset, FS_CardinalityType

LEMMA PlayAddPlaces ==
  ASSUME Typed, Order, PlayAdd
  PROVE  /\ sent + 1 \notin Outstanding
         /\ Outstanding' = Outstanding \cup {sent + 1}
<1>1. sent \in Nat /\ InCall = {}
  BY PlayerAssumption DEF PlayAdd, Typed, InCall
<1>2. \A p \in Outstanding : p <= sent /\ p \in Nat
  BY <1>1, CarriedType, QueuedIsCarried
  DEF Order, Outstanding, Taking, Packets
<1>3. InCall' = {sent + 1} /\ UNCHANGED <<Queued, InHand, held>>
  BY <1>1 DEF PlayAdd, InCall, Queued, InHand, locals, NoPacket
<1> QED BY <1>1, <1>2, <1>3 DEF Outstanding

LEMMA RetainPlaces ==
  ASSUME Typed, Order, Retain
  PROVE  \E gone \in SUBSET Outstanding :
           /\ gone = {p \in held : ~ Keeps(flush, p)}
           /\ Outstanding' = Outstanding \ gone
           /\ pending' = pending - Cardinality(gone)
           /\ discarded' = discarded \cup gone
           /\ held' = held \ gone
<1> DEFINE gone == {p \in held : ~ Keeps(flush, p)}
<1>1. UNCHANGED <<InCall, Queued, InHand>> /\ held' = held \ gone
  BY DEF Retain, AfterControl, InCall, Queued, InHand, callers
<1>2. Queued = {} /\ InHand = {}
  BY CarriedType, QueuedIsCarried DEF Retain, InHand
<1>3. InCall \cap held = {}
  BY DEF Order, Taking, InCall, Typed, Packets, NoPacket
<1>4. Outstanding' = Outstanding \ gone /\ gone \subseteq Outstanding
  BY <1>1, <1>2, <1>3 DEF Outstanding
<1> QED BY <1>1, <1>4 DEF Retain

LEMMA PopPlaces ==
  ASSUME Typed, Order, Pop
  PROVE  \/ UNCHANGED <<Outstanding, pending, held, cur>> /\ held = {} /\ pc' = "recv"
         \/ \E p \in held : /\ \A q \in held : p <= q
                            /\ Outstanding' = Outstanding \ {p} /\ p \in Outstanding
                            /\ pending' = pending - 1
                            /\ cur' = p /\ held' = held \ {p}
                            /\ left' = Chunks /\ pc' = "write"
<1>1. UNCHANGED <<InCall, Queued, InHand>> /\ InHand = {}
  BY DEF Pop, InCall, Queued, InHand, callers
<1>2. ASSUME NEW p \in held PROVE p \notin InCall \cup Queued
  BY <1>2, QueuedIsCarried DEF Order, Taking, InCall, Typed, Packets, NoPacket
<1>3. CASE held = {} /\ UNCHANGED <<held, pending, cur, left>> /\ pc' = "recv"
  BY <1>1, <1>3 DEF Outstanding
<1>4. CASE \E p \in held : /\ \A q \in held : p <= q
                          /\ cur' = p /\ left' = Chunks
                          /\ held' = held \ {p}
                          /\ pending' = pending - 1
                          /\ pc' = "write"
  <2>1. PICK p \in held : /\ \A q \in held : p <= q
                         /\ cur' = p /\ left' = Chunks
                         /\ held' = held \ {p}
                         /\ pending' = pending - 1
                         /\ pc' = "write"
    BY <1>4
  <2>2. Outstanding' = Outstanding \ {p} /\ p \in Outstanding
    BY <1>1, <1>2, <2>1 DEF Outstanding
  <2> QED BY <2>1, <2>2
<1> QED BY <1>3, <1>4 DEF Pop

\* Every other step moves packets from place to place, or ends the thread.
LEMMA OtherPlaces ==
  ASSUME Typed, Shape, Order, [Next]_vars, ~ PlayAdd, ~ Retain, ~ Pop
  PROVE  /\ UNCHANGED <<pending, discarded>>
         /\ Outstanding' \subseteq Outstanding
         /\ pc' # "stopped" => Outstanding' = Outstanding
<1> USE DEF shared, locals, callers, history
<1>1. CASE \/ UNCHANGED vars \/ PassGate \/ DropRaise \/ DropJoin
          \/ \E b \in BOOLEAN : SetPaused(b)
          \/ \E below \in FlushCalls : Flush(below)
  BY <1>1 DEF vars, PassGate, DropRaise, DropJoin, SetPaused, Flush,
     Outstanding, InCall, Queued, InHand
<1>2. CASE PlaySend
  <2>1. playing \in Packets /\ Pcm(playing) \in Commands
        /\ Pcm(playing).pkt = playing /\ InCall = {playing} /\ InCall' = {}
    BY <1>2, WakeIsCommand DEF PlaySend, Typed, InCall, NoPacket, Packets
  <2>2. UNCHANGED <<InHand, held, pending, discarded, pc>>
    BY <1>2 DEF PlaySend, InHand
  <2>3. CASE pc = "stopped"
    BY <1>2, <2>1, <2>2, <2>3 DEF PlaySend, Send, Outstanding, Queued
  <2>4. CASE pc # "stopped"
    <3>1. chan' = Append(chan, Pcm(playing)) /\ chan \in Seq(Commands)
      BY <1>2, <2>4 DEF PlaySend, Send, Typed
    <3>2. Queued' = Queued \cup {playing}
      BY <2>1, <3>1, Appended, QueuedIsCarried DEF NoPacket, Packets, Queued, Carried
    <3> QED BY <2>1, <2>2, <3>2 DEF Outstanding
  <2> QED BY <2>3, <2>4
<1>3. CASE SendWake \/ DropSend
  <2>1. chan' \in {chan, Append(chan, Wake), Append(chan, Stop)}
    BY <1>3 DEF SendWake, DropSend, Send
  <2>2. Queued' = Queued
    BY <2>1, ControlAppended DEF Queued, Carried
  <2> QED BY <1>3, <2>2 DEF SendWake, DropSend, Outstanding, InCall, InHand
<1>4. CASE Exit /\ (Recv \/ Drain \/ WriteChunk)
  <2>1. UNCHANGED <<InCall, pending, discarded>>
    BY <1>4 DEF Recv, Drain, WriteChunk, InCall
  <2>2. Queued' = {} /\ InHand' = {} /\ held' = {} /\ pc' = "stopped"
    BY <1>4 DEF Exit, Queued, InHand
  <2> QED BY <2>1, <2>2 DEF Outstanding
<1>5. CASE Recv /\ ~ Exit
  <2>1. chan \in Seq(Commands) /\ chan # <<>> /\ chan' = Tail(chan)
    BY <1>5 DEF Recv, Typed
  <2>2. InHand = {} /\ InHand' = {Head(chan).pkt} \ {NoPacket}
        /\ UNCHANGED <<held, InCall, pending, discarded>>
    BY <1>5 DEF Recv, InHand, InCall
  <2>3. Queued = Queued' \cup InHand'
    BY <2>1, <2>2, Taken DEF Queued, Carried
  <2> QED BY <2>2, <2>3 DEF Outstanding
<1>6. CASE LoadPaused
  BY <1>6 DEF LoadPaused, Outstanding, InCall, Queued, InHand
<1>7. CASE SwapFlush
  <2>1. InHand' = {} /\ held' = held \cup InHand
        /\ UNCHANGED <<Queued, InCall, pending, discarded>>
    BY <1>7 DEF SwapFlush, AfterControl, InHand, InCall, Queued
  <2> QED BY <2>1 DEF Outstanding
<1>8. CASE Drain /\ ~ Exit
  <2>1. chan \in Seq(Commands) /\ chan # <<>> /\ chan' = Tail(chan)
        /\ held' = held \cup ({Head(chan).pkt} \ {NoPacket})
    BY <1>8 DEF Drain, Typed
  <2>2. InHand = {} /\ InHand' = {} /\ UNCHANGED <<InCall, pending, discarded>>
    BY <1>8 DEF Drain, InHand, InCall
  <2>3. Queued = Queued' \cup ({Head(chan).pkt} \ {NoPacket})
    BY <2>1, Taken DEF Queued, Carried
  <2> QED BY <2>1, <2>2, <2>3 DEF Outstanding
<1>9. CASE WriteChunk /\ ~ Exit
  BY <1>9 DEF WriteChunk, Outstanding, InCall, Queued, InHand
<1> QED BY <1>1, <1>2, <1>3, <1>4, <1>5, <1>6, <1>7, <1>8, <1>9
        DEF Next, Reader, Control, Drop, Thread, Recv, Drain, WriteChunk

-----------------------------------------------------------------------------
(* The backpressure count. *)

Counts ==
  /\ PendingCounts
  /\ pending \in Nat
  /\ pending + batch <= MaxQueued + MaxBatch

LEMMA CountsStep ==
  ASSUME Typed, Shape, Order, Counts, [Next]_vars
  PROVE  Counts'
<1> USE PlayerAssumption DEF shared, locals, callers, history
<1>1. CASE PlayAdd
  <2>1. Cardinality(Outstanding') = Cardinality(Outstanding) + 1
    BY <1>1, PlayAddPlaces, OutstandingFinite, FS_AddElement
  <2> QED BY <1>1, <2>1 DEF PlayAdd, Counts, PendingCounts, Typed
<1>2. CASE Retain
  <2>1. PICK gone \in SUBSET Outstanding :
          /\ Outstanding' = Outstanding \ gone
          /\ pending' = pending - Cardinality(gone)
    BY <1>2, RetainPlaces
  <2>2. /\ IsFiniteSet(gone) /\ Cardinality(gone) \in Nat
        /\ Cardinality(gone) <= Cardinality(Outstanding)
    BY OutstandingFinite, FS_Subset, FS_CardinalityType
  <2>3. Outstanding \cap gone = gone
    OBVIOUS
  <2>4. Cardinality(Outstanding') = Cardinality(Outstanding) - Cardinality(gone)
    BY <2>1, <2>3, OutstandingFinite, FS_Difference
  <2>5. pc = "drain" /\ pc' # "stopped" /\ batch' = batch
    BY <1>2 DEF Retain, AfterControl
  <2> QED BY SMTT(30), <2>1, <2>2, <2>4, <2>5, OutstandingFinite DEF Counts, PendingCounts, Typed
<1>3. CASE Pop
  <2>1. pc = "deliver" /\ batch' = batch
    BY <1>3 DEF Pop
  <2>2. CASE UNCHANGED <<Outstanding, pending>>
    BY <2>1, <2>2 DEF Counts, PendingCounts
  <2>3. CASE \E p \in Outstanding : Outstanding' = Outstanding \ {p} /\ pending' = pending - 1
    <3>1. Cardinality(Outstanding') = Cardinality(Outstanding) - 1
      BY <2>3, OutstandingFinite, FS_RemoveElement
    <3>2. Cardinality(Outstanding') \in Nat
      BY <2>3, OutstandingFinite, FS_RemoveElement, FS_CardinalityType
    <3> QED BY SMTT(30), <2>1, <2>3, <3>1, <3>2 DEF Counts, PendingCounts, Typed
  <2> QED BY <1>3, <2>2, <2>3, PopPlaces
<1>4. CASE ~ PlayAdd /\ ~ Retain /\ ~ Pop
  <2>1. pending' = pending /\ (pc' # "stopped" => Outstanding' = Outstanding)
    BY <1>4, OtherPlaces
  <2>2. pc' # "stopped" => pc # "stopped"
    BY DEF Next, Reader, Control, Drop, Thread, vars, PassGate, PlayAdd, PlaySend,
       SetPaused, Flush, SendWake, DropRaise, DropSend, DropJoin, Recv, LoadPaused,
       SwapFlush, Drain, Retain, Pop, WriteChunk
  <2>3. batch' = batch \/ (PassGate /\ batch' \in 1..MaxBatch)
    BY <1>4 DEF Next, Reader, Control, Drop, Thread, vars, PassGate, PlaySend,
       SetPaused, Flush, SendWake, DropRaise, DropSend, DropJoin, Recv, LoadPaused,
       SwapFlush, Drain, WriteChunk
  <2> QED BY <2>1, <2>2, <2>3 DEF Counts, PendingCounts, PassGate, Typed
<1> QED BY <1>1, <1>2, <1>3, <1>4

LEMMA InitCounts == Init => Counts
<1> SUFFICES ASSUME Init PROVE Counts
  OBVIOUS
<1>1. Outstanding = {}
  BY DEF Init, Outstanding, InCall, Queued, InHand
<1> QED BY <1>1, FS_EmptySet, PlayerAssumption DEF Init, Counts, PendingCounts

THEOREM Counting == Spec => []Counts
<1>1. Typed /\ Shape /\ Order /\ Counts /\ [Next]_vars => Counts'
  BY CountsStep
<1> QED BY <1>1, InitCounts, Types, Ordered, PTL DEF Spec

\* Every variable keeps its type; `pending' never underflows.
THEOREM TypeCorrect == Spec => []TypeOK
<1>1. Typed /\ Counts => TypeOK
  BY DEF Counts, TypeOK
<1> QED BY <1>1, Types, Counting, PTL

\* The backpressure count is the number of packets sent and neither played nor
\* discarded, for every instance.
THEOREM CountExact == Spec => []PendingCounts
<1>1. Counts => PendingCounts
  BY DEF Counts
<1> QED BY <1>1, Counting, PTL

\* The queue never outgrows the high-water mark and one read.
THEOREM Bounded == Spec => []QueueBounded
<1>1. Typed /\ Counts => QueueBounded
  BY PlayerAssumption DEF Counts, Typed, QueueBounded
<1> QED BY <1>1, Types, Counting, PTL

-----------------------------------------------------------------------------
(* A flush discards nothing it did not name. *)

Doom ==
  /\ \A p \in Outstanding : Names(flushReq, p) => p \in doomed
  /\ pc = "drain" => \A p \in Outstanding : Names(flush, p) => p \in doomed
  /\ discarded \subseteq doomed

LEMMA DoomStep ==
  ASSUME Typed, Shape, Order, Doom, [Next]_vars
  PROVE  Doom'
<1> USE DEF shared, locals, callers, history
<1>1. CASE PlayAdd
  <2>1. Outstanding' = Outstanding \cup {sent + 1}
    BY <1>1, PlayAddPlaces
  <2>2. UNCHANGED <<flushReq, flush, pc, discarded>> /\ doomed \subseteq doomed'
    BY <1>1 DEF PlayAdd
  <2>3. /\ \A p : Names(flushReq, p)' = Names(flushReq, p)
        /\ \A p : Names(flush, p)' = Names(flush, p)
    BY <2>2 DEF Names, Keeps
  <2> QED BY <1>1, <2>1, <2>2, <2>3 DEF Doom, PlayAdd
<1>2. CASE Retain
  <2>1. PICK gone \in SUBSET Outstanding :
          /\ gone = {p \in held : ~ Keeps(flush, p)}
          /\ Outstanding' = Outstanding \ gone
          /\ discarded' = discarded \cup gone
    BY <1>2, RetainPlaces
  <2>2. pc = "drain" /\ pc' # "drain" /\ UNCHANGED <<flushReq, doomed>>
    BY <1>2 DEF Retain, AfterControl
  <2>3. \A p \in gone : Names(flush, p)
    BY <2>1, <2>2, KeepsWhatIsNotNamed DEF Typed, Shape
  <2>4. gone \subseteq doomed
    BY <2>1, <2>2, <2>3 DEF Doom
  <2>5. \A p : Names(flushReq, p)' = Names(flushReq, p)
    BY <2>2 DEF Names
  <2> QED BY <2>1, <2>2, <2>4, <2>5 DEF Doom
<1>3. CASE Pop
  <2>1. Outstanding' \subseteq Outstanding
    BY <1>3, PopPlaces
  <2>2. pc' # "drain" /\ UNCHANGED <<flushReq, doomed, discarded>>
    BY <1>3 DEF Pop
  <2> QED BY <2>1, <2>2 DEF Doom, Names, Keeps
<1>4. CASE ~ PlayAdd /\ ~ Retain /\ ~ Pop
  <2>1. Outstanding' \subseteq Outstanding /\ discarded' = discarded
    BY <1>4, OtherPlaces
  <2>2. CASE \E below \in FlushCalls : Flush(below)
    <3>1. PICK below \in FlushCalls : Flush(below)
      BY <2>2
    <3>2. flushReq' = Encode(below) /\ UNCHANGED <<pc, flush>>
          /\ doomed' = doomed \cup {p \in Outstanding : AsksFor(below, p)}
      BY <3>1 DEF Flush
    <3>3. \A p : Names(flush, p)' = Names(flush, p)
      BY <3>2 DEF Names, Keeps
    <3>4. \A p : Names(flushReq, p)' = Names(Encode(below), p)
      BY <3>2 DEF Names, Keeps
    <3>5. \A p \in Outstanding' : Names(flushReq, p)' => p \in doomed'
      BY <2>1, <3>2, <3>4, AskedIsNamed, OutstandingFinite
    <3>6. pc' = "drain" => \A p \in Outstanding' : Names(flush, p)' => p \in doomed'
      BY <2>1, <3>2, <3>3 DEF Doom
    <3>7. discarded' \subseteq doomed'
      BY <2>1, <3>2 DEF Doom
    <3> QED BY <3>5, <3>6, <3>7 DEF Doom
  <2>3. CASE SwapFlush
    <3>1. flush' = flushReq /\ flushReq' = FlushNone /\ doomed' = doomed
      BY <2>3 DEF SwapFlush
    <3> QED BY <2>1, <3>1 DEF Doom, Names, Keeps
  <2>4. CASE /\ ~ SwapFlush /\ ~ \E below \in FlushCalls : Flush(below)
    <3>1. UNCHANGED <<flushReq, flush, doomed>> /\ (pc' = "drain" => pc = "drain")
      BY <1>4, <2>4
      DEF Next, Reader, Control, Drop, Thread, vars, PassGate, PlaySend,
          SetPaused, SendWake, DropRaise, DropSend, DropJoin, Recv, LoadPaused,
          Drain, WriteChunk, Exit
    <3> QED BY <2>1, <3>1 DEF Doom, Names, Keeps
  <2> QED BY <2>2, <2>3, <2>4
<1> QED BY <1>1, <1>2, <1>3, <1>4

LEMMA InitDoom == Init => Doom
BY DEF Init, Doom, Names

\* Every packet a flush drops was named by a request while that request was
\* outstanding, for every choice of stamps and boundaries.
THEOREM FlushIsExact == Spec => []FlushExact
<1>1. Typed /\ Shape /\ Order /\ Doom /\ [Next]_vars => Doom'
  BY DoomStep
<1>2. Doom => FlushExact
  BY DEF Doom, FlushExact
<1> QED BY <1>1, <1>2, InitDoom, Types, Ordered, PTL DEF Spec

-----------------------------------------------------------------------------
(* A flush discards all it named. *)

\* All the packets somebody could still hear.
Audible == Carried(chan) \cup InHand \cup held \cup Writing \cup sounding

Reach ==
  /\ \A p \in sounding \cup named : p <= sent /\ (playing # NoPacket => p < playing)
  /\ flushReq # FlushNone => \A p \in named : Names(flushReq, p)
  /\ flushReq = FlushNone /\ pc = "drain" => \A p \in named : Names(flush, p)
  /\ flushReq = FlushNone /\ pc # "drain" => named \cap Audible = {}

LEMMA ReachCallers ==
  ASSUME Typed, Shape, Order, Reach, Reader \/ Control \/ Drop
  PROVE  Reach'
<1> USE DEF shared, locals, callers, history
<1>1. CASE \/ PassGate \/ DropRaise \/ DropJoin
          \/ \E b \in BOOLEAN : SetPaused(b)
  BY <1>1 DEF PassGate, DropRaise, DropJoin, SetPaused, BeginCall, Reach, Audible,
     InHand, Writing, Names, Keeps
<1>2. CASE PlayAdd
  <2>1. sent \in Nat /\ \A p \in sounding \cup named : p \in Nat
    BY PlayerAssumption DEF Typed, Packets
  <2>2. UNCHANGED <<Audible, sounding, named, flushReq, flush, pc>>
        /\ sent' = sent + 1 /\ playing' = sent + 1
    BY <1>2 DEF PlayAdd, Audible, InHand, Writing
  <2> QED BY <2>1, <2>2 DEF Reach, Names, Keeps
<1>3. CASE PlaySend
  <2>1. playing \in Packets /\ Pcm(playing) \in Commands
        /\ Pcm(playing).pkt = playing /\ playing \notin named
    BY <1>3, WakeIsCommand DEF PlaySend, Typed, Reach, Packets
  <2>2. UNCHANGED <<InHand, held, Writing, sounding, named, flushReq, flush, pc, sent>>
        /\ playing' = NoPacket
    BY <1>3 DEF PlaySend, InHand, Writing
  <2>3. chan' = chan \/ chan' = Append(chan, Pcm(playing))
    BY <1>3 DEF PlaySend, Send
  <2>4. Carried(chan') \subseteq Carried(chan) \cup {playing}
    BY <2>1, <2>3, Appended DEF Typed
  <2>5. named \cap Audible = {} => (named \cap Audible = {})'
    BY <2>1, <2>2, <2>4 DEF Audible
  <2> QED BY <2>2, <2>5 DEF Reach, Names, Keeps
<1>4. CASE SendWake \/ DropSend
  <2>1. chan' \in {chan, Append(chan, Wake), Append(chan, Stop)}
    BY <1>4 DEF SendWake, DropSend, Send
  <2>2. Carried(chan') = Carried(chan)
    <3>1. Carried(Append(chan, Wake)) = Carried(chan)
      BY ControlAppended
    <3>2. Carried(Append(chan, Stop)) = Carried(chan)
      BY ControlAppended
    <3> QED BY <2>1, <3>1, <3>2
  <2>3. UNCHANGED <<InHand, held, Writing, sounding, named, flushReq, flush, pc,
                    sent, playing>>
    BY <1>4 DEF SendWake, DropSend, InHand, Writing
  <2> QED BY <2>2, <2>3 DEF Reach, Audible, Names, Keeps
<1>5. CASE \E below \in FlushCalls : Flush(below)
  <2>1. PICK below \in FlushCalls : Flush(below)
    BY <1>5
  <2>2. flushReq' = Encode(below) /\ flushReq' # FlushNone
    BY <2>1, EncodeType DEF Flush, FlushNone
  <2>3. /\ named' \subseteq Audible
        /\ \A p \in named' : AsksFor(below, p)
        /\ UNCHANGED <<sounding, sent, playing>>
    BY <2>1, QueuedIsCarried DEF Flush, Audible
  <2>4. \A p \in Audible : p <= sent /\ (playing # NoPacket => p < playing)
    BY DEF Reach, Order, Audible, Taking
  <2>5. \A p \in named' : Names(flushReq, p)'
    <3>1. named' \subseteq Packets
      BY <2>3, CarriedType DEF Audible, InHand, Writing, Typed
    <3>2. \A p \in named' : Names(Encode(below), p)
      BY <2>3, <3>1, AskedIsNamed
    <3> QED BY <2>2, <3>2 DEF Names
  <2>6. \A p \in (sounding \cup named)' :
          p <= sent' /\ (playing' # NoPacket => p < playing')
    BY <2>3, <2>4 DEF Reach
  <2> QED BY <2>2, <2>5, <2>6 DEF Reach
<1> QED BY <1>1, <1>2, <1>3, <1>4, <1>5 DEF Reader, Control, Drop

LEMMA ReachThread ==
  ASSUME Typed, Shape, Order, Reach, Thread
  PROVE  Reach'
<1> USE DEF shared, locals, callers, history
\* Outside SwapFlush and Retain the request stands and nothing becomes audible
\* that was not.
<1>1. ASSUME UNCHANGED <<named, sent, playing, flushReq, flush>>,
             Audible' \subseteq Audible,
             sounding' \subseteq sounding \cup Writing,
             pc' = "drain" <=> pc = "drain"
      PROVE  Reach'
  <2>1. \A p \in sounding' : p <= sent /\ (playing # NoPacket => p < playing)
    BY <1>1 DEF Reach, Order, Taking
  <2>2. \A p : /\ Names(flushReq, p)' = Names(flushReq, p)
               /\ Names(flush, p)' = Names(flush, p)
    BY <1>1 DEF Names, Keeps
  <2> QED BY <1>1, <2>1, <2>2 DEF Reach
<1>2. CASE Exit /\ UNCHANGED <<named, sent, playing, flushReq, flush>>
  <2>1. Audible' = {} /\ pc' # "drain" /\ sounding' = {}
    BY <1>2, CarriedType DEF Exit, Audible, InHand, Writing
  <2> QED BY <1>2, <2>1 DEF Reach, Names, Keeps
<1>3. CASE Recv /\ ~ Exit
  <2>1. chan \in Seq(Commands) /\ chan # <<>> /\ chan' = Tail(chan)
    BY <1>3 DEF Recv, Typed
  <2>2. InHand = {} /\ InHand' = {Head(chan).pkt} \ {NoPacket}
        /\ UNCHANGED <<held, Writing, sounding>>
    BY <1>3 DEF Recv, InHand, Writing
  <2>3. Carried(chan) = Carried(chan') \cup InHand'
    BY <2>1, <2>2, Taken
  <2>4. Audible' = Audible
    BY <2>2, <2>3 DEF Audible
  <2> QED BY <1>1, <1>3, <2>4 DEF Recv
<1>4. CASE LoadPaused
  <2>1. Audible' = Audible
    BY <1>4 DEF LoadPaused, Audible, InHand, Writing
  <2> QED BY <1>1, <1>4, <2>1 DEF LoadPaused
<1>5. CASE SwapFlush
  <2>1. InHand' = {} /\ held' = held \cup InHand /\ sounding' \subseteq sounding
        /\ UNCHANGED <<chan, Writing, sent, playing, named>> /\ pc # "drain"
    BY <1>5 DEF SwapFlush, AfterControl, InHand, Writing
  <2>2. flush' = flushReq /\ flushReq' = FlushNone
        /\ (pc' = "drain" <=> flushReq # FlushNone)
    BY <1>5 DEF SwapFlush, AfterControl
  <2>3. \A p : Names(flush, p)' = Names(flushReq, p)
    BY <2>2 DEF Names, Keeps
  <2>4. Audible' \subseteq Audible
    BY <2>1 DEF Audible
  <2> QED BY <2>1, <2>2, <2>3, <2>4 DEF Reach
<1>6. CASE Drain /\ ~ Exit
  <2>1. chan \in Seq(Commands) /\ chan # <<>> /\ chan' = Tail(chan)
        /\ held' = held \cup ({Head(chan).pkt} \ {NoPacket})
    BY <1>6 DEF Drain, Typed
  <2>2. InHand' = InHand /\ UNCHANGED <<Writing, sounding>>
    BY <1>6 DEF Drain, InHand, Writing
  <2>3. Carried(chan) = Carried(chan') \cup ({Head(chan).pkt} \ {NoPacket})
    BY <2>1, Taken
  <2>4. Audible' = Audible
    BY <2>1, <2>2, <2>3 DEF Audible
  <2> QED BY <1>1, <1>6, <2>4 DEF Drain
<1>7. CASE Retain
  <2>1. /\ pc = "drain" /\ pc' \in {"recv", "deliver"} /\ chan' = <<>>
        /\ held' = {p \in held : Keeps(flush, p)}
        /\ cur' = NoPacket /\ sounding' = {}
        /\ UNCHANGED <<named, sent, playing, flushReq, flush>>
    BY <1>7 DEF Retain, AfterControl, Shape
  <2>2. Audible' = held'
    BY <2>1, CarriedType DEF Audible, InHand, Writing
  <2>3. \A p : Names(flushReq, p)' = Names(flushReq, p)
    BY <2>1 DEF Names, Keeps
  <2>4. flushReq = FlushNone => named \cap held' = {}
    BY <2>1, KeepsWhatIsNotNamed DEF Reach, Typed, Shape
  <2> QED BY <2>1, <2>2, <2>3, <2>4 DEF Reach
<1>8. CASE Pop
  <2>1. Writing' \cup held' \subseteq held \cup Writing
    BY <1>8, PopPlaces DEF Writing
  <2>2. UNCHANGED <<chan, InHand, sounding>>
    BY <1>8 DEF Pop, InHand
  <2>3. Audible' \subseteq Audible
    BY <2>1, <2>2 DEF Audible
  <2> QED BY <1>1, <1>8, <2>3 DEF Pop
<1>9. CASE WriteChunk /\ ~ Exit
  <2>1. Writing = {cur}
    BY <1>9 DEF WriteChunk, Writing, Shape, Packets, NoPacket
  <2>2. /\ UNCHANGED <<chan, held, InHand>> /\ Writing' \subseteq Writing
        /\ sounding' = sounding \cup Writing
    BY <1>9, <2>1 DEF WriteChunk, InHand, Writing
  <2>3. Audible' \subseteq Audible
    BY <2>2 DEF Audible
  <2> QED BY <1>1, <1>9, <2>2, <2>3 DEF WriteChunk
<1> QED BY <1>2, <1>3, <1>4, <1>5, <1>6, <1>7, <1>8, <1>9
        DEF Thread, Recv, Drain, WriteChunk

LEMMA InitReach == Init => Reach
BY DEF Init, Reach

\* Once the latest request is consumed nothing it named can be heard any more.
THEOREM FlushIsComplete == Spec => []FlushReaches
<1>1. Typed /\ Shape /\ Order /\ Reach /\ [Next]_vars => Reach'
  <2>1. ASSUME Reach, UNCHANGED vars PROVE Reach'
    BY <2>1 DEF vars, shared, locals, callers, history, Reach, Audible, InHand,
       Writing, Names, Keeps
  <2> QED BY <2>1, ReachCallers, ReachThread DEF Next
<1>2. Reach => FlushReaches
  BY QueuedIsCarried DEF Reach, FlushReaches, Audible
<1> QED BY <1>1, <1>2, InitReach, Types, Ordered, PTL DEF Spec

-----------------------------------------------------------------------------
(* The thread sleeps on no work, unless a drain swallowed the Wake for it. *)

\* What the thread believes the gate to be.
View == IF pc = "swap" THEN seen ELSE wasPaused

Awake ==
  ~ missed /\ calling = "no" /\ ~ HasWake(chan) =>
    /\ flushReq # FlushNone => pc \in {"load", "swap", "stopped"}
    /\ pc \notin {"load", "stopped"} => View = paused
    /\ pc = "recv" => paused \/ held = {}

LEMMA AwakeCallers ==
  ASSUME Typed, Shape, Awake, Reader \/ Control \/ Drop
  PROVE  Awake'
<1> USE DEF shared, locals, callers, history
<1>1. CASE PassGate \/ PlayAdd
  BY <1>1 DEF PassGate, PlayAdd, Awake, View
<1>2. CASE PlaySend
  <2>1. Pcm(playing) \in Commands
    BY <1>2, WakeIsCommand DEF PlaySend, Typed
  <2>2. HasWake(chan) => HasWake(chan')
    BY <1>2, <2>1, Appended DEF PlaySend, Send, Typed
  <2> QED BY <1>2, <2>2 DEF PlaySend, Awake, View
<1>3. CASE SendWake
  <2>1. CASE pc = "stopped"
    BY <1>3, <2>1 DEF SendWake, Awake
  <2>2. CASE pc # "stopped"
    <3>1. chan' = Append(chan, Wake)
      BY <1>3, <2>2 DEF SendWake, Send
    <3>2. HasWake(chan')
      BY <3>1, Appended, WakeIsCommand DEF Typed
    <3> QED BY <3>2 DEF Awake
  <2> QED BY <2>1, <2>2
<1>4. CASE \E b \in BOOLEAN : SetPaused(b)
  BY <1>4 DEF SetPaused, Awake
<1>5. CASE \E below \in FlushCalls : Flush(below)
  BY <1>5 DEF Flush, Awake
<1>6. CASE DropRaise \/ DropSend \/ DropJoin
  BY <1>6 DEF DropRaise, DropSend, DropJoin, Awake
<1> QED BY <1>1, <1>2, <1>3, <1>4, <1>5, <1>6 DEF Reader, Control, Drop

LEMMA AwakeThread ==
  ASSUME Typed, Shape, Awake, Thread
  PROVE  Awake'
<1> USE DEF shared, locals, callers, history
<1>1. CASE Exit
  BY <1>1 DEF Exit, Awake
<1>2. CASE Recv /\ ~ Exit
  BY <1>2 DEF Recv, Awake
<1>3. CASE LoadPaused
  BY <1>3 DEF LoadPaused, Awake, View
<1>4. CASE SwapFlush
  BY <1>4 DEF SwapFlush, AfterControl, Awake, View
<1>5. CASE Drain /\ ~ Exit
  <2>1. /\ chan \in Seq(Commands) /\ chan # <<>> /\ chan' = Tail(chan)
        /\ UNCHANGED <<calling, flushReq, pc, wasPaused, paused, seen>> /\ pc = "drain"
        /\ wasPaused = seen
    BY <1>5 DEF Drain, Typed, Shape
  <2>2. CASE Head(chan) = Wake
    <3>1. ~ missed' => flushReq = FlushNone /\ paused = seen
      BY <1>5, <2>2, Zenon DEF Drain
    <3>2. View' = wasPaused
      BY <2>1 DEF View
    <3> QED BY <2>1, <3>1, <3>2 DEF Awake
  <2>3. CASE Head(chan) # Wake
    <3>1. missed' = missed
      BY <1>5, <2>3 DEF Drain
    <3>2. HasWake(chan) => HasWake(chan')
      BY <2>1, <2>3, Taken
    <3> QED BY <2>1, <3>1, <3>2 DEF Awake, View
  <2> QED BY <2>2, <2>3
<1>6. CASE Retain
  BY <1>6 DEF Retain, AfterControl, Awake, View, Shape
<1>7. CASE Pop
  BY <1>7 DEF Pop, Awake, View
<1>8. CASE WriteChunk /\ ~ Exit
  BY <1>8 DEF WriteChunk, Interrupted, Awake, View
<1> QED BY <1>1, <1>2, <1>3, <1>4, <1>5, <1>6, <1>7, <1>8
        DEF Thread, Recv, Drain, WriteChunk

LEMMA InitAwake == Init => Awake
BY DEF Init, Awake, View

\* An idle thread has nothing left to do, unless a drain swallowed the Wake
\* that announced it, for every instance.
THEOREM NoWorkAsleep == Spec => []AsleepHasNoWork
<1>1. Typed /\ Shape /\ Awake /\ [Next]_vars => Awake'
  <2>1. ASSUME Awake, UNCHANGED vars PROVE Awake'
    BY <2>1 DEF vars, shared, locals, callers, history, Awake, View
  <2> QED BY <2>1, AwakeCallers, AwakeThread DEF Next
<1>2. Awake => AsleepHasNoWork
  <2>1. chan = <<>> => ~ HasWake(chan)
    BY DEF HasWake
  <2> QED BY <2>1 DEF Awake, View, Asleep, AsleepHasNoWork
<1> QED BY <1>1, <1>2, InitAwake, Types, PTL DEF Spec

-----------------------------------------------------------------------------
(* Player implements PlaybackQueue: every step is a step of the queue or   *)
(* leaves it as it is.                                                     *)

LEMMA StartInOrder ==
  ASSUME Typed, Shape, Order, pc = "write"
  PROVE  /\ \A q \in Outstanding : cur < q
         /\ cur \notin Outstanding
<1>1. Writing = {cur} /\ InHand = {} /\ cur \in Packets
  BY DEF Shape, Writing, InHand, Packets, NoPacket
<1>2. \A q \in Outstanding : cur < q
  BY <1>1, QueuedIsCarried DEF Order, Taking, Outstanding, InCall, NoPacket
<1> QED BY <1>1, <1>2 DEF Packets

LEMMA QueueStep ==
  ASSUME Typed, Shape, Order, [Next]_vars
  PROVE  [Queue!Next]_(Queue!vars)
<1> USE DEF shared, locals, callers, history
<1> DEFINE Same == UNCHANGED <<Waiting, sent, wasPaused, sounding, (pc # "stopped")>>
<1>0. Same => UNCHANGED Queue!vars
  BY DEF Queue!vars
<1>1. CASE PlayAdd
  <2>1. Outstanding' = Outstanding \cup {sent + 1}
    BY <1>1, PlayAddPlaces
  <2>2. UNCHANGED <<pc, Writing, left, wasPaused, sounding>> /\ sent' = sent + 1
    BY <1>1 DEF PlayAdd, Writing
  <2>3. Waiting' = IF pc # "stopped" THEN Waiting \cup {sent + 1} ELSE Waiting
    BY <2>1, <2>2 DEF Waiting
  <2> QED BY <2>2, <2>3 DEF Queue!Next, Queue!Offer
<1>2. CASE Exit /\ (Recv \/ Drain \/ WriteChunk)
  <2>1. /\ pc' = "stopped" /\ Waiting' = {} /\ sounding' = {}
        /\ UNCHANGED <<sent, wasPaused>>
    BY <1>2 DEF Exit, Recv, Drain, WriteChunk, Waiting
  <2> QED BY <2>1 DEF Queue!Next, Queue!Halt
<1>3. CASE SwapFlush
  <2>1. Outstanding' = Outstanding /\ pc' # "stopped" /\ pc # "stopped"
    <3>1. pc' # "stopped" /\ ~ PlayAdd /\ ~ Retain /\ ~ Pop /\ pc # "stopped"
      BY <1>3 DEF SwapFlush, AfterControl, PlayAdd, Retain, Pop
    <3> QED BY <3>1, OtherPlaces
  <2>2. UNCHANGED <<Writing, left, sent>> /\ wasPaused' = seen
        /\ sounding' \in {sounding, {}}
        /\ (seen => sounding' = {})
    BY <1>3 DEF SwapFlush, Writing, Shape
  <2>3. Waiting' = Waiting
    BY <2>1, <2>2 DEF Waiting
  <2>4. seen \in BOOLEAN
    BY DEF Typed
  <2>5. CASE seen = TRUE
    BY <2>1, <2>2, <2>3, <2>5 DEF Queue!Next, Queue!Close
  <2>6. CASE seen = FALSE
    BY <2>1, <2>2, <2>3, <2>6 DEF Queue!Next, Queue!Open
  <2> QED BY <2>4, <2>5, <2>6
<1>4. CASE Retain
  <2>1. Outstanding' \subseteq Outstanding
    BY <1>4, RetainPlaces
  <2>2. /\ UNCHANGED <<Writing, left, sent, wasPaused, sounding>>
        /\ pc # "stopped" /\ pc' # "stopped" /\ sounding = {}
    BY <1>4 DEF Retain, AfterControl, Writing, Shape
  <2>3. Waiting' \subseteq Waiting
    BY <2>1, <2>2 DEF Waiting
  <2> QED BY <2>2, <2>3 DEF Queue!Next, Queue!Discard
<1>5. CASE Pop
  <2>1. /\ UNCHANGED <<sent, wasPaused, sounding>> /\ Writing = {}
        /\ pc # "stopped" /\ pc' # "stopped"
    BY <1>5 DEF Pop, Writing, Shape
  <2>2. CASE UNCHANGED <<Outstanding, cur>>
    <3>1. Waiting' = Waiting
      BY <2>1, <2>2 DEF Waiting, Writing
    <3> QED BY <1>0, <2>1, <3>1
  <2>3. CASE \E p \in held : /\ Outstanding' = Outstanding \ {p} /\ p \in Outstanding
                            /\ cur' = p /\ left' = Chunks
    <3>1. PICK p \in held : /\ Outstanding' = Outstanding \ {p} /\ p \in Outstanding
                           /\ cur' = p /\ left' = Chunks
      BY <2>3
    <3>2. Writing' = {p}
      BY <3>1 DEF Writing, Typed, Packets, NoPacket
    <3>3. Waiting' = Waiting
      BY <2>1, <3>1, <3>2 DEF Waiting
    <3> QED BY <1>0, <2>1, <3>3
  <2> QED BY <1>5, <2>2, <2>3, PopPlaces
<1>6. CASE WriteChunk /\ ~ Exit
  <2>1. /\ pc = "write" /\ pc' # "stopped" /\ ~ wasPaused
        /\ Writing = {cur} /\ left \in 1..Chunks
        /\ UNCHANGED <<sent, wasPaused>>
    BY <1>6 DEF WriteChunk, Shape, Writing, Packets, NoPacket
  <2>2. Outstanding' = Outstanding
    <3>1. ~ PlayAdd /\ ~ Retain /\ ~ Pop
      BY <1>6, PlayerAssumption DEF WriteChunk, PlayAdd, Retain, Pop, Typed
    <3> QED BY <2>1, <3>1, OtherPlaces
  <2>3. sounding' = sounding \cup {cur} /\ {p \in Writing : left = Chunks}' = {}
    BY <1>6, <2>1, PlayerAssumption DEF WriteChunk, Writing
  <2>4. Waiting' = Outstanding
    BY <2>1, <2>2, <2>3 DEF Waiting
  <2>5. CASE left = Chunks
    <3>1. Waiting = Outstanding \cup {cur}
      BY <2>1, <2>5 DEF Waiting
    <3>2. (\A q \in Waiting : cur <= q) /\ Waiting' = Waiting \ {cur}
      <4>1. cur \in Nat /\ Outstanding \subseteq Nat
        BY <2>1, OutstandingFinite DEF Shape, Packets
      <4> QED BY <2>1, <2>4, <3>1, <4>1, StartInOrder
    <3> QED BY <2>1, <2>3, <3>1, <3>2 DEF Queue!Next, Queue!Start
  <2>6. CASE left < Chunks
    <3>1. Waiting = Outstanding /\ sounding' = sounding
      BY <2>1, <2>3, <2>6 DEF Waiting, Shape
    <3> QED BY <1>0, <2>1, <2>4, <3>1
  <2> QED BY <2>1, <2>5, <2>6, PlayerAssumption
<1>7. CASE /\ ~ PlayAdd /\ ~ SwapFlush /\ ~ Retain /\ ~ Pop /\ ~ WriteChunk
          /\ ~ (Exit /\ (Recv \/ Drain))
  <2>1. /\ UNCHANGED <<cur, left, sent, wasPaused, sounding>>
        /\ pc' = "stopped" <=> pc = "stopped"
    BY <1>7
    DEF Next, Reader, Control, Drop, Thread, vars, PassGate, PlaySend,
        SetPaused, Flush, SendWake, DropRaise, DropSend, DropJoin, Recv, LoadPaused,
        Drain
  <2>2. pc' # "stopped" => Outstanding' = Outstanding
    BY <1>7, OtherPlaces
  <2>3. Waiting' = Waiting
    BY <2>1, <2>2 DEF Waiting, Writing
  <2> QED BY <1>0, <2>1, <2>3
<1> QED BY <1>1, <1>2, <1>3, <1>4, <1>5, <1>6, <1>7

LEMMA QueueInit == Init => Queue!Init
<1> SUFFICES ASSUME Init PROVE Queue!Init
  OBVIOUS
<1>1. Waiting = {}
  BY DEF Init, Waiting, Outstanding, InCall, Queued, InHand, Writing
<1> QED BY <1>1 DEF Init, Queue!Init

\* The threaded player implements the queue it promises, for every instance:
\* packets start in order, only with the gate open, and are discarded only in
\* silence.
THEOREM PlayerRefinesQueue == Spec => ImplementsQueue
<1>1. Typed /\ Shape /\ Order /\ [Next]_vars => [Queue!Next]_(Queue!vars)
  BY QueueStep
<1> QED BY <1>1, QueueInit, Types, Ordered, PTL DEF Spec, ImplementsQueue, Queue!Spec
=============================================================================
