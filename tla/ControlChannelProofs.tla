------------------------ MODULE ControlChannelProofs ------------------------
(***************************************************************************)
(* For any number of connections, permits, requests and kinds of request:  *)
(* a session's method is served only to a sender that knows the password,  *)
(* requests are handled once each and in order, and both ends change keys  *)
(* at the same request.  The numbers and the items the pairing messages    *)
(* carry are what the model takes them for: both ends compute one key, and *)
(* a message is read as it was made.                                       *)
(*                                                                         *)
(* The first rests on a type invariant in which every request on a         *)
(* connection, wherever it is buffered, says whether its sender knows the  *)
(* password; the second on the order of all that is buffered or on the     *)
(* wire; the third on what a block on the wire says of the counts and the  *)
(* keys of the two ends.  The arithmetic rests on congruence modulo the    *)
(* prime, and the coding on reading an item's fragments one by one.        *)
(***************************************************************************)
EXTENDS Pairing, SequenceTheorems, WellFoundedInduction, TLAPS

AllKinds == {"info", "bad", "garbled", "m1", "m1 persistent", "m3", "session"}
AllRequests == [id : Nat, kind : AllKinds, exchange : Nat, right : BOOLEAN]
RequestsOf(c) == {r \in AllRequests : r.right => c \in Knowing}
PartsOf(c) == [req : RequestsOf(c), part : 1..3]
PiecesOf(c) == [key : Nat, n : Nat, whole : BOOLEAN, parts : Seq(PartsOf(c))]
Responses ==
  [id : Nat, status : {"m2", "m4", "ok", "failed", "forbidden"}, exchange : Nat,
   key : Nat, n : Nat]
ReceiverOf(c) ==
  [pc : {"none", "reading", "switching", "closed"}, key : Nat, encN : Nat, decN : Nat,
   plain : Seq(PartsOf(c)), pending : Seq(PiecesOf(c)), head : BOOLEAN,
   exchange : Nat, made : Nat, transient : BOOLEAN]
SendersOf(c) ==
  [up : BOOLEAN, key : Nat, out : Nat, in : Nat, sent : Nat, held : Seq(PartsOf(c)),
   exchange : Nat, transient : BOOLEAN, waiting : Nat, hasty : BOOLEAN, lost : BOOLEAN]

\* Whoever got as far as the encryption has proved the password.
Gate(c) == Encrypted(c) \/ At(c, "switching") \/ served[c] => c \in Knowing

Shape ==
  /\ rx = [c \in Conns |-> rx[c]] /\ tx = [c \in Conns |-> tx[c]]
  /\ up = [c \in Conns |-> up[c]] /\ down = [c \in Conns |-> down[c]]
  /\ served \in [Conns -> BOOLEAN]
Typed(c) ==
  /\ rx[c] \in ReceiverOf(c)
  /\ tx[c] \in SendersOf(c)
  /\ up[c] \in Seq(PiecesOf(c))
  /\ down[c] \in Seq(Responses)

GateInv == Shape /\ \A c \in Conns : Typed(c) /\ Gate(c)

-----------------------------------------------------------------------------
\* What the operators on requests and pieces return.

LEMMA FreshTyped ==
  ASSUME NEW c, NEW pc \in {"none", "closed"}
  PROVE  [Fresh EXCEPT !.pc = pc] \in ReceiverOf(c)
<1>1. <<>> \in Seq(PartsOf(c)) /\ <<>> \in Seq(PiecesOf(c))
  OBVIOUS
<1> QED BY <1>1 DEF Fresh, ReceiverOf, Clear

LEMMA SenderTyped ==
  ASSUME NEW c, NEW b \in BOOLEAN
  PROVE  [Sender EXCEPT !.up = b] \in SendersOf(c)
<1>1. <<>> \in Seq(PartsOf(c))
  OBVIOUS
<1> QED BY <1>1 DEF Sender, SendersOf, Clear

\* A sender makes its requests with what it knows.
LEMMA PartsTyped ==
  ASSUME NEW c \in Conns, NEW id \in Nat, NEW kind \in AllKinds, NEW e \in Nat
  PROVE  Parts(Request(id, kind, e, c \in Knowing)) \in Seq(PartsOf(c))
<1> DEFINE r == Request(id, kind, e, c \in Knowing)
<1>1. r \in RequestsOf(c)
  <2>1. (c \in Knowing) \in BOOLEAN
    OBVIOUS
  <2>2. r \in AllRequests
    BY <2>1 DEF Request, AllRequests
  <2>3. r.right = (c \in Knowing)
    BY DEF Request
  <2> QED BY <2>2, <2>3 DEF RequestsOf
<1> HIDE DEF r
<1>2. Size(r) \in 1..3
  BY DEF Size
<1>3. \A i \in 1..Size(r) : [req |-> r, part |-> i] \in PartsOf(c)
  BY <1>1, <1>2 DEF PartsOf
<1>4. Parts(r) \in [1..Size(r) -> PartsOf(c)] /\ Size(r) \in Nat
  BY <1>2, <1>3 DEF Parts
<1>5. Parts(r) \in Seq(PartsOf(c))
  BY <1>4, SeqDef
<1> QED BY <1>5 DEF r

LEMMA PairTyped == ASSUME NEW S, NEW a \in S, NEW b \in S PROVE <<a, b>> \in Seq(S)
OBVIOUS

LEMMA FrameTyped ==
  ASSUME NEW c \in Conns, Typed(c), NEW parts \in Seq(PartsOf(c))
  PROVE  Frame(c, parts) \in Seq(PiecesOf(c))
<1>1. Bare(parts) \in Seq(PiecesOf(c))
  <2>1. \A i \in 1..Len(parts) : Piece(Clear, 0, TRUE, <<parts[i]>>) \in PiecesOf(c)
    BY DEF Piece, PiecesOf, Clear
  <2>2. Bare(parts) = [i \in 1..Len(parts) |-> Piece(Clear, 0, TRUE, <<parts[i]>>)]
    BY DEF Bare
  <2>3. Len(parts) \in Nat
    OBVIOUS
  <2>4. Bare(parts) \in [1..Len(parts) -> PiecesOf(c)]
    BY <2>1, <2>2
  <2> QED BY <2>3, <2>4, SeqDef
<1>2. Block(tx[c].key, tx[c].out, parts) \in Seq(PiecesOf(c))
  <2>1. tx[c].key \in Nat /\ tx[c].out \in Nat
    BY DEF Typed, SendersOf
  <2>2. Piece(tx[c].key, tx[c].out, FALSE, <<>>) \in PiecesOf(c)
    BY <2>1 DEF Piece, PiecesOf
  <2>3. Piece(tx[c].key, tx[c].out, TRUE, parts) \in PiecesOf(c)
    BY <2>1 DEF Piece, PiecesOf
  <2> QED BY <2>2, <2>3, PairTyped DEF Block
<1> QED BY <1>1, <1>2 DEF Frame

-----------------------------------------------------------------------------
\* One connection's step leaves the others as they are.
Others(c) ==
  \A d \in Conns \ {c} : /\ rx'[d] = rx[d] /\ tx'[d] = tx[d]
                         /\ up'[d] = up[d] /\ down'[d] = down[d]
                         /\ served'[d] = served[d]

LEMMA OneConnection ==
  ASSUME GateInv, NEW c \in Conns, Shape', Others(c), Typed(c)', Gate(c)'
  PROVE  GateInv'
<1>1. \A d \in Conns : Typed(d)' /\ Gate(d)'
  BY DEF GateInv, Others, Typed, Gate, Encrypted, At
<1> QED BY <1>1 DEF GateInv

LEMMA GateInvInit == Init => GateInv
<1> SUFFICES ASSUME Init PROVE GateInv
  OBVIOUS
<1>1. Shape
  BY DEF Init, Shape
<1>2. ASSUME NEW c \in Conns PROVE Typed(c) /\ Gate(c)
  <2>1. rx[c] = Fresh /\ tx[c] = Sender /\ up[c] = <<>> /\ down[c] = <<>> /\ ~ served[c]
    BY DEF Init
  <2>2. rx[c] \in ReceiverOf(c)
    <3>1. <<>> \in Seq(PartsOf(c)) /\ <<>> \in Seq(PiecesOf(c))
      OBVIOUS
    <3> QED BY <2>1, <3>1 DEF Fresh, ReceiverOf, Clear
  <2>3. tx[c] \in SendersOf(c)
    <3>1. <<>> \in Seq(PartsOf(c))
      OBVIOUS
    <3> QED BY <2>1, <3>1 DEF Sender, SendersOf, Clear
  <2>4. Typed(c)
    BY <2>1, <2>2, <2>3 DEF Typed
  <2>5. Gate(c)
    BY <2>1 DEF Gate, Encrypted, At, Fresh
  <2> QED BY <2>4, <2>5
<1> QED BY <1>1, <1>2 DEF GateInv

\* A closed connection holds nothing.
LEMMA GateInvClose ==
  ASSUME GateInv, NEW c \in Conns, Close(c)
  PROVE  GateInv'
<1>1. /\ rx' = [rx EXCEPT ![c] = [Fresh EXCEPT !.pc = "closed"]]
      /\ tx' = [tx EXCEPT ![c] = [Sender EXCEPT !.up = FALSE]]
      /\ up' = [up EXCEPT ![c] = <<>>] /\ down' = [down EXCEPT ![c] = <<>>]
      /\ served' = served
  BY DEF Close, Rx, Tx
<1>2. Shape' /\ Others(c)
  BY <1>1 DEF GateInv, Shape, Others
<1>3. /\ rx'[c] = [Fresh EXCEPT !.pc = "closed"] /\ tx'[c] = [Sender EXCEPT !.up = FALSE]
      /\ up'[c] = <<>> /\ down'[c] = <<>> /\ served'[c] = served[c]
  BY <1>1 DEF GateInv, Shape
<1>4. rx'[c] \in ReceiverOf(c)
  BY <1>3, FreshTyped
<1>5. tx'[c] \in SendersOf(c)
  BY <1>3, SenderTyped
<1>6. Typed(c)'
  BY <1>3, <1>4, <1>5 DEF Typed
<1>7. Gate(c)'
  <2>1. ~ Encrypted(c)' /\ ~ At(c, "switching")'
    BY <1>3 DEF Fresh, Encrypted, At
  <2> QED BY <1>3, <2>1 DEF Gate, GateInv
<1> QED BY <1>2, <1>6, <1>7, OneConnection

\* A step that changes only the receiver's end: what it becomes is typed, and
\* it is encrypted or about to be only if it was.
LEMMA GateInvReceiver ==
  ASSUME GateInv, NEW c \in Conns, NEW r \in ReceiverOf(c), Rx(c, r),
         NEW u \in Seq(PiecesOf(c)), up' = [up EXCEPT ![c] = u] \/ (up' = up /\ u = up[c]),
         UNCHANGED <<tx, down, served>>,
         r.key # Clear \/ r.pc = "switching" => Encrypted(c) \/ At(c, "switching")
  PROVE  GateInv'
<1>1. Shape' /\ Others(c)
  BY DEF GateInv, Shape, Others, Rx
<1>2. rx'[c] = r /\ up'[c] = u
  BY DEF GateInv, Shape, Rx
<1>3. Typed(c)'
  BY <1>2 DEF Typed, GateInv
<1>4. Gate(c)'
  BY <1>2 DEF Gate, GateInv, Encrypted, At
<1> QED BY <1>1, <1>3, <1>4, OneConnection

LEMMA GateInvAccept ==
  ASSUME GateInv, NEW c \in Conns, Accept(c)
  PROVE  GateInv'
<1>1. PICK to \in {"reading", "closed"} : Rx(c, [rx[c] EXCEPT !.pc = to])
  BY DEF Accept
<1>2. [rx[c] EXCEPT !.pc = to] \in ReceiverOf(c)
  BY DEF GateInv, Typed, ReceiverOf
<1>3. [rx[c] EXCEPT !.pc = to].pc = to /\ [rx[c] EXCEPT !.pc = to].key = rx[c].key
  BY DEF GateInv, Typed, ReceiverOf
<1>4. up[c] \in Seq(PiecesOf(c)) /\ UNCHANGED <<tx, up, down, served>>
  BY DEF Accept, GateInv, Typed
<1> QED BY <1>1, <1>2, <1>3, <1>4, GateInvReceiver DEF Encrypted

\* Reading moves pieces from the wire into a buffer and changes no key.
LEMMA GateInvRead ==
  ASSUME GateInv, NEW c \in Conns, ReadClear(c) \/ ReadCipher(c)
  PROVE  GateInv'
<1>1. /\ rx[c] \in ReceiverOf(c) /\ up[c] \in Seq(PiecesOf(c))
      /\ rx[c].pending \in Seq(PiecesOf(c))
  BY DEF GateInv, Typed, ReceiverOf
<1>2. UNCHANGED <<tx, down, served>>
  BY DEF ReadClear, ReadCipher
<1>3. CASE ReadClear(c)
  <2> DEFINE r == [rx[c] EXCEPT !.plain = Head(up[c]).parts]
  <2>1. Head(up[c]) \in PiecesOf(c) /\ Tail(up[c]) \in Seq(PiecesOf(c))
    BY <1>1, <1>3, HeadTailProperties DEF ReadClear
  <2>2. Head(up[c]).parts \in Seq(PartsOf(c))
    BY <2>1 DEF PiecesOf
  <2>3. r \in ReceiverOf(c) /\ r.key = rx[c].key /\ r.pc = rx[c].pc
    BY <1>1, <2>2 DEF ReceiverOf
  <2>4. Rx(c, r) /\ up' = [up EXCEPT ![c] = Tail(up[c])]
    BY <1>3 DEF ReadClear, GateInv, Shape
  <2> QED BY <1>2, <2>1, <2>3, <2>4, GateInvReceiver DEF Encrypted, At
<1>4. CASE ReadCipher(c)
  <2>1. PICK k \in 1..Len(up[c]) :
          /\ Rx(c, [rx[c] EXCEPT !.pending = rx[c].pending \o SubSeq(up[c], 1, k)])
          /\ up' = [up EXCEPT ![c] = SubSeq(up[c], k + 1, Len(up[c]))]
    BY <1>4 DEF ReadCipher, GateInv, Shape
  <2> DEFINE r == [rx[c] EXCEPT !.pending = rx[c].pending \o SubSeq(up[c], 1, k)]
  <2>2. Len(up[c]) \in Nat /\ \A i \in 1..Len(up[c]) : up[c][i] \in PiecesOf(c)
    BY <1>1
  <2>3. SubSeq(up[c], 1, k) \in Seq(PiecesOf(c))
    <3>1. \A i \in 1..k : up[c][i] \in PiecesOf(c)
      BY <2>2
    <3> QED BY <3>1, <2>2, SubSeqProperties
  <2>4. SubSeq(up[c], k + 1, Len(up[c])) \in Seq(PiecesOf(c))
    <3>1. \A i \in (k + 1)..Len(up[c]) : up[c][i] \in PiecesOf(c)
      BY <2>2
    <3> QED BY <3>1, <2>2, SubSeqProperties
  <2>5. rx[c].pending \o SubSeq(up[c], 1, k) \in Seq(PiecesOf(c))
    BY <1>1, <2>3, ConcatProperties
  <2>6. r \in ReceiverOf(c) /\ r.key = rx[c].key /\ r.pc = rx[c].pc
    BY <1>1, <2>5 DEF ReceiverOf
  <2> QED BY <1>2, <2>1, <2>4, <2>6, GateInvReceiver DEF Encrypted, At
<1> QED BY <1>3, <1>4

\* So does decrypting, and taking a head off what was decrypted.
LEMMA GateInvDecrypt ==
  ASSUME GateInv, NEW c \in Conns, Decrypt(c) \/ ReadHead(c)
  PROVE  GateInv'
<1>1. /\ rx[c] \in ReceiverOf(c) /\ up[c] \in Seq(PiecesOf(c))
      /\ rx[c].pending \in Seq(PiecesOf(c)) /\ rx[c].plain \in Seq(PartsOf(c))
      /\ rx[c].decN \in Nat
  BY DEF GateInv, Typed, ReceiverOf
<1>2. UNCHANGED <<tx, up, down, served>>
  BY DEF Decrypt, ReadHead
<1>3. CASE Decrypt(c)
  <2> DEFINE plain == rx[c].plain \o rx[c].pending[2].parts
             rest == SubSeq(rx[c].pending, 3, Len(rx[c].pending))
             n == rx[c].decN + 1
             r == [rx[c] EXCEPT !.plain = plain, !.decN = n, !.pending = rest]
  <2>1. Len(rx[c].pending) \in Nat /\ Len(rx[c].pending) >= 2
        /\ \A i \in 1..Len(rx[c].pending) : rx[c].pending[i] \in PiecesOf(c)
    BY <1>1, <1>3 DEF Decrypt
  <2>2. rx[c].pending[2].parts \in Seq(PartsOf(c))
    BY <2>1 DEF PiecesOf
  <2>3. plain \in Seq(PartsOf(c))
    BY <1>1, <2>2, ConcatProperties
  <2>4. rest \in Seq(PiecesOf(c))
    BY <2>1, SubSeqProperties
  <2>n. n \in Nat
    BY <1>1
  <2> HIDE DEF plain, rest, n
  <2>5. r \in ReceiverOf(c) /\ r.key = rx[c].key /\ r.pc = rx[c].pc
    BY <1>1, <2>3, <2>4, <2>n DEF ReceiverOf
  <2>6. Rx(c, r)
    BY <1>3 DEF Decrypt, plain, rest, n
  <2> QED BY <1>1, <1>2, <2>5, <2>6, GateInvReceiver DEF Encrypted, At
<1>4. CASE ReadHead(c)
  <2> DEFINE r == [rx[c] EXCEPT !.plain = Tail(rx[c].plain), !.head = TRUE]
  <2>1. Tail(rx[c].plain) \in Seq(PartsOf(c))
    BY <1>1, <1>4, HeadTailProperties DEF ReadHead, Reading
  <2>2. r \in ReceiverOf(c) /\ r.key = rx[c].key /\ r.pc = rx[c].pc
    BY <1>1, <2>1 DEF ReceiverOf
  <2>3. Rx(c, r)
    BY <1>4 DEF ReadHead
  <2> QED BY <1>1, <1>2, <2>2, <2>3, GateInvReceiver DEF Encrypted, At
<1> QED BY <1>3, <1>4

\* The switch itself: it follows an M4, which follows a proof.
LEMMA GateInvSwitch ==
  ASSUME GateInv, NEW c \in Conns, Switch(c)
  PROVE  GateInv'
<1> DEFINE r == [rx[c] EXCEPT !.pc = "reading", !.key = rx[c].exchange,
                              !.encN = 0, !.decN = 0]
<1>1. r \in ReceiverOf(c)
  BY DEF GateInv, Typed, ReceiverOf
<1>2. Rx(c, r) /\ UNCHANGED <<tx, up, down, served>> /\ At(c, "switching")
  BY DEF Switch
<1>3. up[c] \in Seq(PiecesOf(c))
  BY DEF GateInv, Typed
<1> HIDE DEF r
<1> QED BY <1>1, <1>2, <1>3, GateInvReceiver

\* A request served: by the gate before the switch, and by the proof at it.
LEMMA GateInvServe ==
  ASSUME GateInv, NEW c \in Conns, Serve(c)
  PROVE  GateInv'
<1> DEFINE q == Incoming(c).req
           p == Paired(c, q)
           status == Status(c, q)
           switches == status = "m4" /\ p.transient
           to == IF switches THEN "switching" ELSE "reading"
           rest == Tail(rx[c].plain)
           n == rx[c].encN + 1
           r == [p EXCEPT !.plain = rest, !.head = FALSE, !.encN = n, !.pc = to]
           a == [id |-> q.id, status |-> status, exchange |-> p.exchange,
                 key |-> rx[c].key, n |-> rx[c].encN]
<1>1. /\ rx[c] \in ReceiverOf(c) /\ tx[c] \in SendersOf(c)
      /\ up[c] \in Seq(PiecesOf(c)) /\ down[c] \in Seq(Responses)
      /\ rx[c].plain \in Seq(PartsOf(c)) /\ rx[c].plain # <<>>
      /\ rx[c].encN \in Nat /\ rx[c].key \in Nat
      /\ q.kind # "garbled"
  BY DEF GateInv, Typed, ReceiverOf, Serve, Reading
<1>2. Incoming(c) \in PartsOf(c) /\ Tail(rx[c].plain) \in Seq(PartsOf(c))
  BY <1>1, HeadTailProperties DEF Incoming
<1>3. q \in AllRequests /\ (q.right => c \in Knowing)
  BY <1>2 DEF PartsOf, RequestsOf
<1>4. status \in {"m2", "m4", "ok", "failed", "forbidden"}
  BY <1>1, <1>3 DEF Status, AllRequests, AllKinds
<1>5. p \in ReceiverOf(c) /\ p.key = rx[c].key /\ p.encN = rx[c].encN
      /\ p.plain = rx[c].plain
  <2>1. p = rx[c] \/ \E e \in Nat, t \in BOOLEAN :
          p = [rx[c] EXCEPT !.made = e, !.exchange = e, !.transient = t]
    <3>1. rx[c].made + 1 \in Nat /\ (q.kind = "m1") \in BOOLEAN
      BY <1>1 DEF ReceiverOf
    <3>2. p = rx[c] \/ p = [rx[c] EXCEPT !.made = rx[c].made + 1,
                              !.exchange = rx[c].made + 1, !.transient = q.kind = "m1"]
      BY DEF Paired
    <3> QED BY <3>1, <3>2
  <2> HIDE DEF p
  <2> QED BY <1>1, <2>1 DEF ReceiverOf
<1>6. status = "m4" => c \in Knowing
  <2>1. CASE q.kind = "m3"
    <3>1. status = "m4" => Verifies(c, q)
      BY <2>1 DEF Status
    <3> QED BY <1>3, <3>1 DEF Verifies
  <2>2. CASE q.kind # "m3"
    BY <1>1, <1>3, <2>2 DEF Status, AllRequests, AllKinds
  <2> QED BY <2>1, <2>2
<1>7. q.kind = "session" /\ status = "ok" => c \in Knowing
  BY DEF Status, MayServe, GateInv, Gate
<1>8. /\ Rx(c, r) /\ down' = [down EXCEPT ![c] = Append(down[c], a)]
      /\ served' = [served EXCEPT ![c] = served[c] \/ (q.kind = "session" /\ status = "ok")]
      /\ UNCHANGED <<tx, up>>
  BY <1>5 DEF Serve, GateInv, Shape
<1>9. a \in Responses
  BY <1>1, <1>3, <1>4, <1>5 DEF Responses, AllRequests, ReceiverOf
<1>10. p.transient \in BOOLEAN /\ to \in {"switching", "reading"}
  BY <1>5 DEF ReceiverOf
<1>n. n \in Nat /\ rest \in Seq(PartsOf(c))
  BY <1>1, <1>2
<1> HIDE DEF q, p, status, a, to, n, rest
<1>11. r \in ReceiverOf(c) /\ r.key = rx[c].key /\ r.pc = to
  BY <1>1, <1>5, <1>10, <1>n DEF ReceiverOf
<1>12. Append(down[c], a) \in Seq(Responses)
  BY <1>1, <1>9, AppendProperties
<1>13. Shape' /\ Others(c)
  BY <1>8 DEF GateInv, Shape, Others, Rx
<1>14. /\ rx'[c] = r /\ tx'[c] = tx[c] /\ up'[c] = up[c]
       /\ down'[c] = Append(down[c], a)
       /\ served'[c] = (served[c] \/ (q.kind = "session" /\ status = "ok"))
  BY <1>8 DEF GateInv, Shape, Rx
<1>15. Typed(c)'
  BY <1>1, <1>11, <1>12, <1>14 DEF Typed
<1>16. Gate(c)'
  <2>1. Encrypted(c)' => c \in Knowing
    BY <1>11, <1>14 DEF GateInv, Gate, Encrypted
  <2>2. At(c, "switching")' => c \in Knowing
    BY <1>6, <1>11, <1>14 DEF At, to
  <2>3. served'[c] => c \in Knowing
    BY <1>7, <1>14 DEF GateInv, Gate
  <2> QED BY <2>1, <2>2, <2>3 DEF Gate
<1> QED BY <1>13, <1>15, <1>16, OneConnection

-----------------------------------------------------------------------------
\* The sender's steps change nothing at the receiver's end.
LEMMA GateInvSender ==
  ASSUME GateInv, NEW c \in Conns, NEW s \in SendersOf(c), Tx(c, s),
         NEW u \in Seq(PiecesOf(c)), up' = [up EXCEPT ![c] = u] \/ (up' = up /\ u = up[c]),
         NEW d \in Seq(Responses),
         down' = [down EXCEPT ![c] = d] \/ (down' = down /\ d = down[c]),
         UNCHANGED <<rx, served>>
  PROVE  GateInv'
<1>1. Shape' /\ Others(c)
  BY DEF GateInv, Shape, Others, Tx
<1>2. tx'[c] = s /\ up'[c] = u /\ down'[c] = d /\ rx'[c] = rx[c]
  BY DEF GateInv, Shape, Tx
<1>3. Typed(c)'
  BY <1>2 DEF Typed, GateInv
<1>4. Gate(c)'
  BY <1>2 DEF Gate, GateInv, Encrypted, At
<1> QED BY <1>1, <1>3, <1>4, OneConnection

LEMMA GateInvAsk ==
  ASSUME GateInv, NEW c \in Conns, AskSomething(c)
  PROVE  GateInv'
<1>1. tx[c] \in SendersOf(c) /\ up[c] \in Seq(PiecesOf(c)) /\ down[c] \in Seq(Responses)
      /\ tx[c].sent + 1 \in Nat /\ tx[c].exchange \in Nat /\ tx[c].waiting \in Nat
      /\ tx[c].held \in Seq(PartsOf(c))
  BY DEF GateInv, Typed, SendersOf
<1>2. PICK kind \in Kinds[c] : Ask(c, kind)
  BY DEF AskSomething
<1>3. kind \in AllKinds
  BY ControlAssumption DEF AllKinds
<1> DEFINE r == Request(tx[c].sent + 1, kind, tx[c].exchange, c \in Knowing)
           sent == tx[c].sent + 1
           held == tx[c].held \o Parts(r)
           t == IF kind \in {"m1", "m1 persistent"} THEN kind = "m1" ELSE tx[c].transient
           w == IF kind = "m3" THEN sent ELSE tx[c].waiting
           hasty == tx[c].hasty \/ tx[c].waiting > 0
           s == [tx[c] EXCEPT !.sent = sent, !.held = held, !.transient = t,
                              !.waiting = w, !.hasty = hasty]
<1>4. Tx(c, s) /\ UNCHANGED <<rx, up, down, served>>
  BY <1>2 DEF Ask, Request
<1>5. held \in Seq(PartsOf(c))
  BY <1>1, <1>3, PartsTyped, ConcatProperties
<1>6. sent \in Nat /\ w \in Nat /\ t \in BOOLEAN /\ hasty \in BOOLEAN
  BY <1>1 DEF SendersOf
<1> HIDE DEF r, sent, held, t, w, hasty
<1>7. s \in SendersOf(c)
  BY <1>1, <1>5, <1>6 DEF SendersOf
<1> QED BY <1>1, <1>4, <1>7, GateInvSender

\* Any part of a sequence is a sequence of the same things.
LEMMA SubSeqTyped ==
  ASSUME NEW S, NEW s \in Seq(S), NEW a \in 1..(Len(s) + 1), NEW b \in 0..Len(s)
  PROVE  SubSeq(s, a, b) \in Seq(S)
<1>1. Len(s) \in Nat /\ \A i \in 1..Len(s) : s[i] \in S
  OBVIOUS
<1>2. \A i \in a..b : s[i] \in S
  BY <1>1
<1> QED BY <1>1, <1>2, SubSeqProperties

\* What a Send does.
LEMMA SendChanges ==
  ASSUME GateInv, NEW c \in Conns, Send(c)
  PROVE  \E k \in 1..Len(tx[c].held) :
           LET now == SubSeq(tx[c].held, 1, k)
               out == IF tx[c].key = Clear THEN tx[c].out ELSE tx[c].out + 1
           IN  /\ now \in Seq(PartsOf(c)) /\ now # <<>> /\ out \in Nat
               /\ SubSeq(tx[c].held, k + 1, Len(tx[c].held)) \in Seq(PartsOf(c))
               /\ Frame(c, now) \in Seq(PiecesOf(c))
               /\ up' = [up EXCEPT ![c] = up[c] \o Frame(c, now)]
               /\ tx' = [tx EXCEPT ![c] = [tx[c] EXCEPT !.out = out,
                           !.held = SubSeq(tx[c].held, k + 1, Len(tx[c].held))]]
               /\ UNCHANGED <<rx, down, done, served>>
<1>1. tx[c] \in SendersOf(c) /\ tx[c].held \in Seq(PartsOf(c)) /\ tx[c].out \in Nat
      /\ Len(tx[c].held) \in Nat
  BY DEF GateInv, Typed, SendersOf
<1> DEFINE out == IF tx[c].key = Clear THEN tx[c].out ELSE tx[c].out + 1
<1>2. PICK k \in 1..Len(tx[c].held) :
        /\ up' = [up EXCEPT ![c] = up[c] \o Frame(c, SubSeq(tx[c].held, 1, k))]
        /\ tx' = [tx EXCEPT ![c] = [tx[c] EXCEPT !.out = out,
                     !.held = SubSeq(tx[c].held, k + 1, Len(tx[c].held))]]
        /\ UNCHANGED <<rx, down, done, served>>
  BY <1>1 DEF Send, Tx, SendersOf, GateInv, Shape
<1>3. SubSeq(tx[c].held, 1, k) \in Seq(PartsOf(c))
      /\ SubSeq(tx[c].held, k + 1, Len(tx[c].held)) \in Seq(PartsOf(c))
  BY <1>1, SubSeqTyped
<1>4. SubSeq(tx[c].held, 1, k) # <<>>
  BY <1>1
<1>5. Frame(c, SubSeq(tx[c].held, 1, k)) \in Seq(PiecesOf(c))
  BY <1>3, FrameTyped DEF GateInv
<1>6. out \in Nat
  BY <1>1
<1> QED BY <1>2, <1>3, <1>4, <1>5, <1>6

LEMMA GateInvSend ==
  ASSUME GateInv, NEW c \in Conns, Send(c)
  PROVE  GateInv'
<1>1. tx[c] \in SendersOf(c) /\ up[c] \in Seq(PiecesOf(c)) /\ down[c] \in Seq(Responses)
  BY DEF GateInv, Typed
<1>2. PICK out \in Nat, held \in Seq(PartsOf(c)), frame \in Seq(PiecesOf(c)) :
        /\ up' = [up EXCEPT ![c] = up[c] \o frame]
        /\ tx' = [tx EXCEPT ![c] = [tx[c] EXCEPT !.out = out, !.held = held]]
        /\ UNCHANGED <<rx, down, done, served>>
  <2> DEFINE out == IF tx[c].key = Clear THEN tx[c].out ELSE tx[c].out + 1
  <2>1. PICK k \in 1..Len(tx[c].held) :
          /\ out \in Nat
          /\ SubSeq(tx[c].held, k + 1, Len(tx[c].held)) \in Seq(PartsOf(c))
          /\ Frame(c, SubSeq(tx[c].held, 1, k)) \in Seq(PiecesOf(c))
          /\ up' = [up EXCEPT ![c] = up[c] \o Frame(c, SubSeq(tx[c].held, 1, k))]
          /\ tx' = [tx EXCEPT ![c] = [tx[c] EXCEPT !.out = out,
                      !.held = SubSeq(tx[c].held, k + 1, Len(tx[c].held))]]
          /\ UNCHANGED <<rx, down, done, served>>
    BY SendChanges
  <2> HIDE DEF out
  <2> QED BY <2>1
<1>3. [tx[c] EXCEPT !.out = out, !.held = held] \in SendersOf(c)
  BY <1>1 DEF SendersOf
<1>4. up[c] \o frame \in Seq(PiecesOf(c))
  BY <1>1, ConcatProperties
<1> QED BY <1>1, <1>2, <1>3, <1>4, GateInvSender DEF Tx

LEMMA GateInvHear ==
  ASSUME GateInv, NEW c \in Conns, HangUp(c) \/ ReadResponse(c)
  PROVE  GateInv'
<1>1. tx[c] \in SendersOf(c) /\ up[c] \in Seq(PiecesOf(c)) /\ down[c] \in Seq(Responses)
  BY DEF GateInv, Typed
<1>2. CASE HangUp(c)
  <2>1. [tx[c] EXCEPT !.up = FALSE, !.held = <<>>] \in SendersOf(c)
    <3>1. <<>> \in Seq(PartsOf(c))
      OBVIOUS
    <3> QED BY <1>1, <3>1 DEF SendersOf
  <2> QED BY <1>1, <1>2, <2>1, GateInvSender DEF HangUp
<1>3. CASE ReadResponse(c)
  <2> DEFINE a == Head(down[c])
             w == IF a.id = tx[c].waiting THEN 0 ELSE tx[c].waiting
             n == tx[c].in + 1
             read == [tx[c] EXCEPT !.in = n, !.waiting = w]
  <2>1. a \in Responses /\ Tail(down[c]) \in Seq(Responses)
    BY <1>1, <1>3, HeadTailProperties DEF ReadResponse
  <2>2. a.exchange \in Nat
    BY <2>1 DEF Responses
  <2>3. w \in Nat /\ n \in Nat
    BY <1>1 DEF SendersOf
  <2>4. \/ Tx(c, [tx[c] EXCEPT !.lost = TRUE])
        \/ Tx(c, [read EXCEPT !.exchange = a.exchange])
        \/ Tx(c, [read EXCEPT !.key = a.exchange, !.out = 0, !.in = 0])
        \/ Tx(c, read)
    BY <1>3 DEF ReadResponse
  <2> HIDE DEF a, w, n
  <2>5. [tx[c] EXCEPT !.lost = TRUE] \in SendersOf(c)
    BY <1>1 DEF SendersOf
  <2>6. read \in SendersOf(c)
    BY <1>1, <2>3 DEF SendersOf
  <2> HIDE DEF read
  <2>7. [read EXCEPT !.exchange = a.exchange] \in SendersOf(c)
    BY <2>2, <2>6 DEF SendersOf
  <2>8. [read EXCEPT !.key = a.exchange, !.out = 0, !.in = 0] \in SendersOf(c)
    BY <2>2, <2>6 DEF SendersOf
  <2>9. PICK s \in SendersOf(c) : Tx(c, s)
    BY <2>4, <2>5, <2>6, <2>7, <2>8
  <2>10. down' = [down EXCEPT ![c] = Tail(down[c])] /\ UNCHANGED <<rx, up, served>>
    BY <1>3 DEF ReadResponse, GateInv, Shape
  <2> QED BY <1>1, <2>1, <2>9, <2>10, GateInvSender
<1> QED BY <1>2, <1>3

-----------------------------------------------------------------------------
LEMMA GateInvStep == GateInv /\ [Next]_vars => GateInv'
<1> SUFFICES ASSUME GateInv, [Next]_vars PROVE GateInv'
  OBVIOUS
<1>1. CASE UNCHANGED vars
  BY <1>1 DEF vars, GateInv, Shape, Typed, Gate, Encrypted, At
<1>2. CASE Next
  <2>1. PICK c \in Conns :
          Receiver(c) \/ AskSomething(c) \/ Send(c) \/ HangUp(c) \/ ReadResponse(c)
    BY <1>2 DEF Next
  <2>2. CASE AskSomething(c) \/ Send(c)
    BY <2>2, GateInvAsk, GateInvSend
  <2>3. CASE HangUp(c) \/ ReadResponse(c)
    BY <2>3, GateInvHear
  <2>4. CASE Close(c)
    BY <2>4, GateInvClose
  <2>5. CASE Accept(c)
    BY <2>5, GateInvAccept
  <2>6. CASE ReadClear(c) \/ ReadCipher(c)
    BY <2>6, GateInvRead
  <2>7. CASE Decrypt(c) \/ ReadHead(c)
    BY <2>7, GateInvDecrypt
  <2>8. CASE Serve(c)
    BY <2>8, GateInvServe
  <2>9. CASE Switch(c)
    BY <2>9, GateInvSwitch
  <2> QED
    BY <2>1, <2>2, <2>3, <2>4, <2>5, <2>6, <2>7, <2>8, <2>9
    DEF Receiver, Reject, Eof, Timeout, Garbled, WriteFails
<1> QED BY <1>1, <1>2

\* Every end, buffer and wire keeps its type, and no request changes hands.
THEOREM TypeCorrect == Spec => [](\A c \in Conns : Typed(c))
<1>1. GateInv => \A c \in Conns : Typed(c)
  BY DEF GateInv
<1> QED BY <1>1, GateInvInit, GateInvStep, PTL DEF Spec

\* server.rs, the gate in front of a session's methods: whatever is pipelined,
\* repeated or cut off, only a sender that knows the password is served.
THEOREM ServedWhenPaired == Spec => []PairedFirst
<1>1. GateInv => PairedFirst
  BY DEF GateInv, Gate, PairedFirst
<1> QED BY <1>1, GateInvInit, GateInvStep, PTL DEF Spec

-----------------------------------------------------------------------------
(***************************************************************************)
(* Order.  What the receiver has not handled lies in four places: it is    *)
(* decrypted, or read and not decrypted, or on the wire, or its sender has *)
(* not written it.  The second and the third are one sequence of pieces,   *)
(* which reading does not change.                                          *)
(***************************************************************************)
Wire(c) == rx[c].pending \o up[c]

Unhandled(plain, wire) ==
  {plain[i] : i \in 1..Len(plain)}
    \union UNION {{wire[k].parts[l] : l \in 1..Len(wire[k].parts)} : k \in 1..Len(wire)}
OnWire(c) == Unhandled(rx[c].plain, Wire(c))
InFlight(c) == OnWire(c) \union ToSet(tx[c].held)

\* A part ranks after those before it, and a request after the one before it.
Rank(p) == 4 * p.req.id + p.part

\* The parts stand in the order they were sent in.
Sorted(plain, wire) ==
  /\ \A i, j \in 1..Len(plain) : i < j => Rank(plain[i]) < Rank(plain[j])
  /\ \A i \in 1..Len(plain), k \in 1..Len(wire) : \A l \in 1..Len(wire[k].parts) :
       Rank(plain[i]) < Rank(wire[k].parts[l])
  /\ \A k, m \in 1..Len(wire) :
       \A l \in 1..Len(wire[k].parts), n \in 1..Len(wire[m].parts) :
         k < m \/ (k = m /\ l < n) => Rank(wire[k].parts[l]) < Rank(wire[m].parts[n])

\* A block's halves stay together, the second holding all of it.
Cut(wire) ==
  \A k \in 1..Len(wire) :
    /\ wire[k].whole <=> wire[k].parts # <<>>
    /\ wire[k].key = Clear => wire[k].whole
    /\ wire[k].whole /\ wire[k].key # Clear => k > 1 /\ ~ wire[k - 1].whole
    /\ ~ wire[k].whole => k < Len(wire) /\ wire[k + 1].whole

\* What is not written comes after all that is, in order.
Queued(parts, held) ==
  /\ \A i, j \in 1..Len(held) : i < j => Rank(held[i]) < Rank(held[j])
  /\ \A p \in parts, i \in 1..Len(held) : Rank(p) < Rank(held[i])

\* Every request between the last one handled and the last one made is there,
\* but for those that a sender that is gone did not write to the end: no later
\* one is there either.
Complete(parts, last, sent, alive) ==
  /\ \A p \in parts : last < p.req.id /\ p.req.id <= sent /\ p.part <= Size(p.req)
  /\ \A p, q \in parts : p.req.id = q.req.id => p.req = q.req
  /\ \A id \in (last + 1)..sent :
       \/ \E p \in parts : p.req.id = id /\ Completes(p)
       \/ ~ alive /\ \A p \in parts : Completes(p) => p.req.id < id

OrderInv(c) ==
  /\ Sorted(rx[c].plain, Wire(c)) /\ Cut(Wire(c)) /\ Queued(OnWire(c), tx[c].held)
  /\ Complete(InFlight(c), done[c], tx[c].sent, tx[c].up)
  /\ ~ Encrypted(c) => rx[c].pending = <<>>
  /\ At(c, "switching") => rx[c].exchange > 0
  /\ ~ At(c, "closed") => done[c] <= tx[c].sent
AllOrdered == done \in [Conns -> Nat] /\ \A c \in Conns : OrderInv(c)

PiecesFrom(P) == [key : Nat, n : Nat, whole : BOOLEAN, parts : Seq(P)]

LEMMA RankBounds ==
  ASSUME NEW p, p.req.id \in Nat, p.part \in 1..3
  PROVE  Rank(p) \in Nat /\ 4 * p.req.id <= Rank(p) /\ Rank(p) < 4 * (p.req.id + 1)
BY DEF Rank

\* Where a part that is not handled may be.
LEMMA Whereabouts ==
  ASSUME NEW plain, NEW wire, NEW p
  PROVE  p \in Unhandled(plain, wire) <=>
           \/ \E i \in 1..Len(plain) : p = plain[i]
           \/ \E k \in 1..Len(wire) : \E l \in 1..Len(wire[k].parts) : p = wire[k].parts[l]
BY DEF Unhandled

\* Reading a piece in the clear.
LEMMA ReadPart ==
  ASSUME NEW P, NEW wire \in Seq(PiecesFrom(P)), wire # <<>>, wire[1].key = Clear,
         Sorted(<<>>, wire), Cut(wire)
  PROVE  /\ Sorted(wire[1].parts, Tail(wire)) /\ Cut(Tail(wire))
         /\ Unhandled(wire[1].parts, Tail(wire)) = Unhandled(<<>>, wire)
<1> DEFINE rest == Tail(wire)
<1>1. /\ Len(wire) \in Nat /\ Len(wire) > 0 /\ rest \in Seq(PiecesFrom(P))
      /\ Len(rest) = Len(wire) - 1
      /\ \A i \in 1..Len(rest) : rest[i] = wire[i + 1]
  BY HeadTailProperties
<1>2. ASSUME NEW k \in 1..Len(wire)
      PROVE  wire[k].parts \in Seq(P) /\ Len(wire[k].parts) \in Nat
  <2>1. wire[k] \in PiecesFrom(P)
    BY <1>1
  <2> QED BY <2>1 DEF PiecesFrom
<1> HIDE DEF rest
<1>3. Sorted(wire[1].parts, rest)
  <2>1. \A i, j \in 1..Len(wire[1].parts) : i < j => Rank(wire[1].parts[i]) < Rank(wire[1].parts[j])
    BY <1>1 DEF Sorted
  <2>2. ASSUME NEW i \in 1..Len(wire[1].parts), NEW k \in 1..Len(rest),
               NEW l \in 1..Len(rest[k].parts)
        PROVE  Rank(wire[1].parts[i]) < Rank(rest[k].parts[l])
    <3>1. rest[k] = wire[k + 1] /\ k + 1 \in 1..Len(wire) /\ 1 \in 1..Len(wire) /\ 1 < k + 1
      BY <1>1
    <3> QED BY <3>1 DEF Sorted
  <2>3. ASSUME NEW k \in 1..Len(rest), NEW m \in 1..Len(rest),
               NEW l \in 1..Len(rest[k].parts), NEW n \in 1..Len(rest[m].parts),
               k < m \/ (k = m /\ l < n)
        PROVE  Rank(rest[k].parts[l]) < Rank(rest[m].parts[n])
    <3>1. /\ rest[k] = wire[k + 1] /\ k + 1 \in 1..Len(wire)
          /\ rest[m] = wire[m + 1] /\ m + 1 \in 1..Len(wire)
          /\ k + 1 < m + 1 \/ (k + 1 = m + 1 /\ l < n)
      BY <1>1, <2>3
    <3> QED BY <3>1 DEF Sorted
  <2> QED BY <2>1, <2>2, <2>3 DEF Sorted
<1>4. Cut(rest)
  <2> SUFFICES ASSUME NEW k \in 1..Len(rest)
               PROVE  /\ rest[k].whole <=> rest[k].parts # <<>>
                      /\ rest[k].key = Clear => rest[k].whole
                      /\ rest[k].whole /\ rest[k].key # Clear => k > 1 /\ ~ rest[k - 1].whole
                      /\ ~ rest[k].whole => k < Len(rest) /\ rest[k + 1].whole
    BY DEF Cut
  <2>1. rest[k] = wire[k + 1] /\ k + 1 \in 1..Len(wire) /\ 1 \in 1..Len(wire)
    BY <1>1
  <2>2. /\ rest[k].whole <=> rest[k].parts # <<>>
        /\ rest[k].key = Clear => rest[k].whole
        /\ rest[k].whole /\ rest[k].key # Clear => ~ wire[k].whole
        /\ ~ rest[k].whole => k + 1 < Len(wire) /\ wire[k + 2].whole
    BY <2>1 DEF Cut
  <2>3. k = 1 => wire[k].whole
    BY <1>1 DEF Cut
  <2>4. k > 1 => rest[k - 1] = wire[k]
    BY <1>1
  <2>5. k < Len(rest) => rest[k + 1] = wire[k + 2]
    BY <1>1
  <2> QED BY <1>1, <2>2, <2>3, <2>4, <2>5
<1>5. ASSUME NEW p PROVE p \in Unhandled(wire[1].parts, rest) <=> p \in Unhandled(<<>>, wire)
  <2>1. p \in Unhandled(<<>>, wire) <=>
          \E k \in 1..Len(wire) : \E l \in 1..Len(wire[k].parts) : p = wire[k].parts[l]
    <3>1. 1..Len(<<>>) = {}
      OBVIOUS
    <3> QED BY <3>1, Whereabouts
  <2>2. p \in Unhandled(wire[1].parts, rest) <=>
          \/ \E l \in 1..Len(wire[1].parts) : p = wire[1].parts[l]
          \/ \E k \in 1..Len(rest) : \E l \in 1..Len(rest[k].parts) : p = rest[k].parts[l]
    BY Whereabouts
  <2>3. ASSUME NEW k \in 1..Len(wire), NEW l \in 1..Len(wire[k].parts), p = wire[k].parts[l]
        PROVE  p \in Unhandled(wire[1].parts, rest)
    <3>1. CASE k = 1
      BY <2>2, <2>3, <3>1
    <3>2. CASE k > 1
      <4>1. k - 1 \in 1..Len(rest) /\ rest[k - 1] = wire[k]
        BY <1>1, <3>2
      <4> QED BY <2>2, <2>3, <4>1
    <3> QED BY <1>1, <3>1, <3>2
  <2>4. ASSUME NEW k \in 1..Len(rest), NEW l \in 1..Len(rest[k].parts), p = rest[k].parts[l]
        PROVE  p \in Unhandled(<<>>, wire)
    <3>1. rest[k] = wire[k + 1] /\ k + 1 \in 1..Len(wire)
      BY <1>1
    <3> QED BY <2>1, <2>4, <3>1
  <2>5. 1 \in 1..Len(wire)
    BY <1>1
  <2> QED BY <2>1, <2>2, <2>3, <2>4, <2>5
<1>6. Unhandled(wire[1].parts, rest) = Unhandled(<<>>, wire)
  BY <1>5
<1> QED BY <1>3, <1>4, <1>6 DEF rest
\* What is left without the first two.
LEMMA FromThird ==
  ASSUME NEW S, NEW seq \in Seq(S), Len(seq) >= 2
  PROVE  /\ SubSeq(seq, 3, Len(seq)) \in Seq(S) /\ Len(SubSeq(seq, 3, Len(seq))) = Len(seq) - 2
         /\ \A k \in 1..Len(SubSeq(seq, 3, Len(seq))) : SubSeq(seq, 3, Len(seq))[k] = seq[k + 2]
<1> DEFINE rest == SubSeq(seq, 3, Len(seq))
<1>1. Len(seq) \in Nat /\ \A k \in 3..Len(seq) : seq[k] \in S
  OBVIOUS
<1>2. /\ rest \in Seq(S) /\ Len(rest) = IF 3 <= Len(seq) THEN Len(seq) - 2 ELSE 0
      /\ \A k \in 1..(Len(seq) - 3 + 1) : rest[k] = seq[3 + k - 1]
  BY <1>1, SubSeqProperties
<1> HIDE DEF rest
<1>3. Len(rest) = Len(seq) - 2
  <2>1. \A a \in Nat : a >= 2 => (IF 3 <= a THEN a - 2 ELSE 0) = a - 2
    OBVIOUS
  <2> QED BY <1>1, <1>2, <2>1
<1>4. ASSUME NEW k \in 1..Len(rest) PROVE rest[k] = seq[k + 2]
  <2>1. k \in 1..(Len(seq) - 3 + 1) /\ 3 + k - 1 = k + 2
    BY <1>1, <1>3
  <2>2. rest[k] = seq[3 + k - 1]
    BY <1>2, <2>1
  <2> QED BY <2>1, <2>2
<1> QED BY <1>2, <1>3, <1>4 DEF rest

\* Two sequences, one behind the other: taking two off the first, or moving
\* some over from the second.
LEMMA TakeTwo ==
  ASSUME NEW S, NEW s \in Seq(S), NEW t \in Seq(S), Len(s) >= 2
  PROVE  /\ SubSeq(s, 3, Len(s)) \o t = SubSeq(s \o t, 3, Len(s \o t))
         /\ Len(s \o t) >= 2 /\ (s \o t)[2] = s[2]
<1> DEFINE rest == SubSeq(s, 3, Len(s))
           w == s \o t
           out == SubSeq(w, 3, Len(w))
<1>1. Len(s) \in Nat /\ Len(t) \in Nat
  OBVIOUS
<1>2. /\ w \in Seq(S) /\ Len(w) = Len(s) + Len(t)
      /\ \A i \in 1..(Len(s) + Len(t)) : w[i] = IF i <= Len(s) THEN s[i] ELSE t[i - Len(s)]
  BY ConcatProperties
<1> HIDE DEF w
<1>3. Len(w) >= 2 /\ w[2] = s[2]
  <2>1. 2 \in 1..(Len(s) + Len(t)) /\ 2 <= Len(s) /\ Len(s) + Len(t) >= 2
    BY <1>1
  <2> QED BY <1>2, <2>1
<1>4. /\ rest \in Seq(S) /\ Len(rest) = Len(s) - 2 /\ \A i \in 1..Len(rest) : rest[i] = s[i + 2]
  BY FromThird
<1>5. /\ out \in Seq(S) /\ Len(out) = Len(w) - 2 /\ \A i \in 1..Len(out) : out[i] = w[i + 2]
  BY <1>2, <1>3, FromThird
<1>6. /\ rest \o t \in Seq(S) /\ Len(rest \o t) = Len(rest) + Len(t)
      /\ \A i \in 1..(Len(rest) + Len(t)) :
           (rest \o t)[i] = IF i <= Len(rest) THEN rest[i] ELSE t[i - Len(rest)]
  BY <1>4, ConcatProperties
<1> DEFINE both == rest \o t
<1> HIDE DEF rest, out
<1>7. Len(both) = Len(out)
  BY <1>1, <1>2, <1>4, <1>5, <1>6
<1>8. ASSUME NEW i \in 1..Len(out) PROVE both[i] = out[i]
  <2>1. i \in 1..(Len(rest) + Len(t)) /\ i + 2 \in 1..(Len(s) + Len(t)) /\ i \in Nat
    BY <1>1, <1>2, <1>4, <1>5
  <2>2. out[i] = w[i + 2]
    BY <1>5
  <2>3. CASE i <= Len(rest)
    <3>1. i + 2 <= Len(s) /\ i \in 1..Len(rest)
      BY <1>1, <1>4, <2>1, <2>3
    <3> QED BY <1>2, <1>4, <1>6, <2>1, <2>2, <2>3, <3>1
  <2>4. CASE ~ (i <= Len(rest))
    <3>1. ~ (i + 2 <= Len(s)) /\ i - Len(rest) = i + 2 - Len(s)
      BY <1>1, <1>4, <2>1, <2>4
    <3>2. w[i + 2] = t[i + 2 - Len(s)]
      BY <1>2, <2>1, <3>1
    <3>3. both[i] = t[i - Len(rest)]
      BY <1>6, <2>1, <2>4
    <3> QED BY <2>2, <3>1, <3>2, <3>3
  <2> QED BY <2>3, <2>4
<1> HIDE DEF both
<1>9. both = out
  BY <1>5, <1>6, <1>7, <1>8, SeqEqual DEF both
<1> QED BY <1>3, <1>9 DEF both, out, rest, w

LEMMA MoveSome ==
  ASSUME NEW S, NEW s \in Seq(S), NEW t \in Seq(S), NEW k \in 1..Len(t)
  PROVE  (s \o SubSeq(t, 1, k)) \o SubSeq(t, k + 1, Len(t)) = s \o t
<1> DEFINE front == SubSeq(t, 1, k)
           rest == SubSeq(t, k + 1, Len(t))
<1>1. Len(t) \in Nat /\ \A i \in 1..Len(t) : t[i] \in S
  OBVIOUS
<1>2. front \in Seq(S) /\ rest \in Seq(S)
  <2>1. \A i \in 1..k : t[i] \in S
    BY <1>1
  <2>2. \A i \in (k + 1)..Len(t) : t[i] \in S
    BY <1>1
  <2> QED BY <1>1, <2>1, <2>2, SubSeqProperties
<1>3. front \o rest = t
  <2>1. 1 \in 1..(Len(t) + 1) /\ k \in (1 - 1)..Len(t) /\ Len(t) \in k..Len(t)
    BY <1>1
  <2>2. front \o rest = SubSeq(t, 1, Len(t))
    BY <2>1, ConcatAdjacentSubSeq
  <2> QED BY <2>2, SubSeqFull
<1> HIDE DEF front, rest
<1>4. ASSUME NEW f \in Seq(S), NEW r \in Seq(S), f \o r = t PROVE (s \o f) \o r = s \o t
  <2>1. (s \o f) \o r = s \o (f \o r)
    BY SMTT(30)
  <2> QED BY <1>4, <2>1
<1> QED BY <1>2, <1>3, <1>4 DEF front, rest

\* Opening a block.
LEMMA OpenBlock ==
  ASSUME NEW P, NEW wire \in Seq(PiecesFrom(P)), NEW plain \in Seq(P),
         Len(wire) >= 2, wire[2].whole, wire[2].key # Clear,
         Sorted(plain, wire), Cut(wire)
  PROVE  LET rest == SubSeq(wire, 3, Len(wire))
             more == plain \o wire[2].parts
         IN  /\ Sorted(more, rest) /\ Cut(rest)
             /\ Unhandled(more, rest) = Unhandled(plain, wire)
<1> DEFINE rest == SubSeq(wire, 3, Len(wire))
           more == plain \o wire[2].parts
<1>1. /\ Len(wire) \in Nat /\ Len(plain) \in Nat
      /\ \A k \in 1..Len(wire) : wire[k] \in PiecesFrom(P)
  OBVIOUS
<1>2. ASSUME NEW k \in 1..Len(wire)
      PROVE  wire[k].parts \in Seq(P) /\ Len(wire[k].parts) \in Nat
  <2>1. wire[k] \in PiecesFrom(P)
    BY <1>1
  <2> QED BY SMTT(30), <2>1 DEF PiecesFrom
<1>3. /\ rest \in Seq(PiecesFrom(P)) /\ Len(rest) = Len(wire) - 2
      /\ \A k \in 1..Len(rest) : rest[k] = wire[k + 2]
  BY FromThird
<1>4. 1 \in 1..Len(wire) /\ 2 \in 1..Len(wire)
  BY <1>1
<1>5. wire[1].parts = <<>> /\ ~ wire[1].whole
  BY <1>4 DEF Cut
<1>6. /\ more \in Seq(P) /\ Len(more) = Len(plain) + Len(wire[2].parts)
      /\ \A i \in 1..Len(plain) : more[i] = plain[i]
      /\ \A i \in 1..Len(wire[2].parts) : more[Len(plain) + i] = wire[2].parts[i]
  <2>1. wire[2].parts \in Seq(P) /\ Len(wire[2].parts) \in Nat
    BY <1>2, <1>4
  <2> QED BY <1>1, <2>1, ConcatProperties
<1> HIDE DEF rest, more
\* Each part of the longer buffer was in the shorter one or in the block.
<1>7. ASSUME NEW i \in 1..Len(more)
      PROVE  \/ i \in 1..Len(plain) /\ more[i] = plain[i]
             \/ /\ i > Len(plain) /\ i - Len(plain) \in 1..Len(wire[2].parts)
                /\ more[i] = wire[2].parts[i - Len(plain)]
  <2>1. Len(wire[2].parts) \in Nat
    BY <1>2, <1>4
  <2>2. CASE i > Len(plain)
    <3>1. i - Len(plain) \in 1..Len(wire[2].parts) /\ Len(plain) + (i - Len(plain)) = i
      BY <1>1, <1>6, <2>1, <2>2
    <3> QED BY <1>6, <2>2, <3>1
  <2> QED BY <1>1, <1>6, <2>1, <2>2
<1>8. Sorted(more, rest)
  <2>1. ASSUME NEW i \in 1..Len(more), NEW j \in 1..Len(more), i < j
        PROVE  Rank(more[i]) < Rank(more[j])
    <3>1. CASE i \in 1..Len(plain) /\ more[i] = plain[i] /\ j \in 1..Len(plain) /\ more[j] = plain[j]
      BY <2>1, <3>1 DEF Sorted
    <3>2. CASE /\ i \in 1..Len(plain) /\ more[i] = plain[i]
               /\ j - Len(plain) \in 1..Len(wire[2].parts)
               /\ more[j] = wire[2].parts[j - Len(plain)]
      BY <1>4, <3>2 DEF Sorted
    <3>3. CASE /\ i - Len(plain) \in 1..Len(wire[2].parts)
               /\ more[i] = wire[2].parts[i - Len(plain)]
               /\ j - Len(plain) \in 1..Len(wire[2].parts)
               /\ more[j] = wire[2].parts[j - Len(plain)]
      <4>1. i - Len(plain) < j - Len(plain)
        BY <1>1, <2>1
      <4> QED BY <1>4, <3>3, <4>1 DEF Sorted
    <3>4. ~ (i > Len(plain) /\ j \in 1..Len(plain))
      BY <1>1, <2>1
    <3> QED BY <1>7, <3>1, <3>2, <3>3, <3>4
  <2>2. ASSUME NEW i \in 1..Len(more), NEW k \in 1..Len(rest), NEW l \in 1..Len(rest[k].parts)
        PROVE  Rank(more[i]) < Rank(rest[k].parts[l])
    <3>1. rest[k] = wire[k + 2] /\ k + 2 \in 1..Len(wire) /\ 2 < k + 2
      BY <1>1, <1>3
    <3>2. CASE i \in 1..Len(plain) /\ more[i] = plain[i]
      BY <3>1, <3>2 DEF Sorted
    <3>3. CASE i - Len(plain) \in 1..Len(wire[2].parts) /\ more[i] = wire[2].parts[i - Len(plain)]
      BY <1>4, <3>1, <3>3 DEF Sorted
    <3> QED BY <1>7, <3>2, <3>3
  <2>3. ASSUME NEW k \in 1..Len(rest), NEW m \in 1..Len(rest),
               NEW l \in 1..Len(rest[k].parts), NEW n \in 1..Len(rest[m].parts),
               k < m \/ (k = m /\ l < n)
        PROVE  Rank(rest[k].parts[l]) < Rank(rest[m].parts[n])
    <3>1. /\ rest[k] = wire[k + 2] /\ k + 2 \in 1..Len(wire)
          /\ rest[m] = wire[m + 2] /\ m + 2 \in 1..Len(wire)
          /\ k + 2 < m + 2 \/ (k + 2 = m + 2 /\ l < n)
      BY <1>1, <1>3, <2>3
    <3> QED BY <3>1 DEF Sorted
  <2> QED BY <2>1, <2>2, <2>3 DEF Sorted
<1>9. Cut(rest)
  <2> SUFFICES ASSUME NEW k \in 1..Len(rest)
               PROVE  /\ rest[k].whole <=> rest[k].parts # <<>>
                      /\ rest[k].key = Clear => rest[k].whole
                      /\ rest[k].whole /\ rest[k].key # Clear => k > 1 /\ ~ rest[k - 1].whole
                      /\ ~ rest[k].whole => k < Len(rest) /\ rest[k + 1].whole
    BY DEF Cut
  <2>1. rest[k] = wire[k + 2] /\ k + 2 \in 1..Len(wire) /\ k + 1 \in 1..Len(wire)
    BY <1>1, <1>3
  <2>2. /\ rest[k].whole <=> rest[k].parts # <<>>
        /\ rest[k].key = Clear => rest[k].whole
        /\ rest[k].whole /\ rest[k].key # Clear => ~ wire[k + 1].whole
        /\ ~ rest[k].whole => k + 2 < Len(wire) /\ wire[k + 3].whole
    BY <2>1 DEF Cut
  <2>3. k > 1 => rest[k - 1] = wire[k + 1]
    BY <1>1, <1>3
  <2>4. k < Len(rest) => rest[k + 1] = wire[k + 3]
    BY <1>1, <1>3
  <2>5. k = 1 => wire[k + 1].whole
    OBVIOUS
  <2> QED BY <1>1, <1>3, <2>2, <2>3, <2>4, <2>5
<1>10. ASSUME NEW p PROVE p \in Unhandled(more, rest) <=> p \in Unhandled(plain, wire)
  <2>1. ASSUME NEW k \in 1..Len(wire), NEW l \in 1..Len(wire[k].parts), p = wire[k].parts[l]
        PROVE  p \in Unhandled(more, rest)
    <3>1. k # 1
      BY <1>5, <2>1
    <3>2. CASE k = 2
      <4>1. Len(plain) + l \in 1..Len(more) /\ more[Len(plain) + l] = p
        <5>1. Len(wire[2].parts) \in Nat
          BY <1>2, <1>4
        <5> QED BY <1>1, <1>6, <2>1, <3>2, <5>1
      <4> QED BY <4>1, Whereabouts
    <3>3. CASE k > 2
      <4>1. k - 2 \in 1..Len(rest) /\ rest[k - 2] = wire[k]
        BY <1>1, <1>3, <3>3
      <4> QED BY <2>1, <4>1, Whereabouts
    <3> QED BY <1>1, <3>1, <3>2, <3>3
  <2>2. ASSUME NEW i \in 1..Len(plain), p = plain[i]
        PROVE  p \in Unhandled(more, rest)
    <3>1. i \in 1..Len(more)
      <4>1. Len(wire[2].parts) \in Nat
        BY <1>2, <1>4
      <4> QED BY <1>1, <1>6, <4>1
    <3> QED BY <1>6, <2>2, <3>1, Whereabouts
  <2>3. ASSUME NEW i \in 1..Len(more), p = more[i]
        PROVE  p \in Unhandled(plain, wire)
    BY ZenonT(40), <1>4, <1>7, <2>3, Whereabouts
  <2>4. ASSUME NEW k \in 1..Len(rest), NEW l \in 1..Len(rest[k].parts), p = rest[k].parts[l]
        PROVE  p \in Unhandled(plain, wire)
    <3>1. rest[k] = wire[k + 2] /\ k + 2 \in 1..Len(wire)
      BY <1>1, <1>3
    <3> QED BY <2>4, <3>1, Whereabouts
  <2> QED BY <2>1, <2>2, <2>3, <2>4, Whereabouts
<1>11. Unhandled(more, rest) = Unhandled(plain, wire)
  BY <1>10
<1> QED BY <1>8, <1>9, <1>11 DEF rest, more

\* Taking the part that is next.
LEMMA TakePart ==
  ASSUME NEW P, NEW plain \in Seq(P), NEW wire, plain # <<>>, Sorted(plain, wire)
  PROVE  /\ Sorted(Tail(plain), wire)
         /\ Unhandled(plain, wire) = Unhandled(Tail(plain), wire) \union {Head(plain)}
         /\ \A p \in Unhandled(Tail(plain), wire) : Rank(Head(plain)) < Rank(p)
<1> DEFINE rest == Tail(plain)
<1>1. /\ Len(plain) \in Nat /\ Len(plain) > 0 /\ Head(plain) = plain[1]
      /\ Len(rest) = Len(plain) - 1 /\ \A i \in 1..Len(rest) : rest[i] = plain[i + 1]
  BY HeadTailProperties
<1> HIDE DEF rest
<1>2. 1 \in 1..Len(plain)
  BY <1>1
<1>3. ASSUME NEW i \in 1..Len(rest)
      PROVE  rest[i] = plain[i + 1] /\ i + 1 \in 1..Len(plain) /\ 1 < i + 1
  BY <1>1
<1>4. Sorted(rest, wire)
  <2>1. ASSUME NEW i \in 1..Len(rest), NEW j \in 1..Len(rest), i < j
        PROVE  Rank(rest[i]) < Rank(rest[j])
    <3>1. i + 1 < j + 1
      BY <1>1, <2>1
    <3> QED BY <1>3, <3>1 DEF Sorted
  <2>2. ASSUME NEW i \in 1..Len(rest), NEW k \in 1..Len(wire), NEW l \in 1..Len(wire[k].parts)
        PROVE  Rank(rest[i]) < Rank(wire[k].parts[l])
    BY <1>3 DEF Sorted
  <2> QED BY <2>1, <2>2 DEF Sorted
<1>5. ASSUME NEW p
      PROVE  p \in Unhandled(plain, wire) <=> p \in Unhandled(rest, wire) \/ p = plain[1]
  <2>1. ASSUME NEW i \in 1..Len(plain), p = plain[i], i # 1
        PROVE  \E j \in 1..Len(rest) : p = rest[j]
    <3>1. i - 1 \in 1..Len(rest) /\ rest[i - 1] = plain[i]
      BY <1>1, <2>1
    <3> QED BY <2>1, <3>1
  <2> QED BY <1>2, <1>3, <2>1, Whereabouts
<1>6. ASSUME NEW p \in Unhandled(rest, wire) PROVE Rank(plain[1]) < Rank(p)
  <2>1. CASE \E i \in 1..Len(rest) : p = rest[i]
    BY <1>2, <1>3, <2>1 DEF Sorted
  <2>2. CASE \E k \in 1..Len(wire) : \E l \in 1..Len(wire[k].parts) : p = wire[k].parts[l]
    BY <1>2, <2>2 DEF Sorted
  <2> QED BY <2>1, <2>2, Whereabouts
<1>7. Unhandled(plain, wire) = Unhandled(rest, wire) \union {plain[1]}
  BY <1>5
<1> QED BY <1>1, <1>4, <1>6, <1>7 DEF rest
\* A frame goes behind what is on the wire.
LEMMA AddFrame ==
  ASSUME NEW P, NEW plain \in Seq(P), NEW wire \in Seq(PiecesFrom(P)),
         NEW frame \in Seq(PiecesFrom(P)),
         Sorted(plain, wire), Cut(wire), Sorted(<<>>, frame), Cut(frame),
         \A p \in Unhandled(plain, wire), q \in Unhandled(<<>>, frame) : Rank(p) < Rank(q)
  PROVE  /\ Sorted(plain, wire \o frame) /\ Cut(wire \o frame)
         /\ Unhandled(plain, wire \o frame)
              = Unhandled(plain, wire) \union Unhandled(<<>>, frame)
<1> DEFINE all == wire \o frame
           L == Len(wire)
<1>1. /\ L \in Nat /\ Len(frame) \in Nat /\ Len(all) = L + Len(frame)
      /\ \A k \in 1..L : all[k] = wire[k]
      /\ \A k \in 1..Len(frame) : all[L + k] = frame[k]
  BY ConcatProperties
<1> HIDE DEF all, L
<1>2. ASSUME NEW k \in 1..Len(all)
      PROVE  \/ k \in 1..L /\ all[k] = wire[k]
             \/ k > L /\ k - L \in 1..Len(frame) /\ all[k] = frame[k - L]
  <2>1. CASE k > L
    <3>1. k - L \in 1..Len(frame) /\ L + (k - L) = k
      BY <1>1, <2>1
    <3> QED BY <1>1, <2>1, <3>1
  <2> QED BY <1>1, <2>1
<1>3. ASSUME NEW k \in 1..L, NEW l \in 1..Len(wire[k].parts)
      PROVE  wire[k].parts[l] \in Unhandled(plain, wire)
  BY Whereabouts DEF L
<1>4. ASSUME NEW k \in 1..Len(frame), NEW l \in 1..Len(frame[k].parts)
      PROVE  frame[k].parts[l] \in Unhandled(<<>>, frame)
  BY Whereabouts
<1>5. ASSUME NEW i \in 1..Len(plain) PROVE plain[i] \in Unhandled(plain, wire)
  BY Whereabouts
<1>6. Sorted(plain, all)
  <2>1. ASSUME NEW i \in 1..Len(plain), NEW k \in 1..Len(all), NEW l \in 1..Len(all[k].parts)
        PROVE  Rank(plain[i]) < Rank(all[k].parts[l])
    <3>1. CASE k \in 1..L /\ all[k] = wire[k]
      BY <3>1 DEF Sorted, L
    <3>2. CASE k - L \in 1..Len(frame) /\ all[k] = frame[k - L]
      BY <1>4, <1>5, <3>2
    <3> QED BY <1>2, <3>1, <3>2
  <2>2. ASSUME NEW k \in 1..Len(all), NEW m \in 1..Len(all),
               NEW l \in 1..Len(all[k].parts), NEW n \in 1..Len(all[m].parts),
               k < m \/ (k = m /\ l < n)
        PROVE  Rank(all[k].parts[l]) < Rank(all[m].parts[n])
    <3>1. CASE k \in 1..L /\ all[k] = wire[k] /\ m \in 1..L /\ all[m] = wire[m]
      BY <2>2, <3>1 DEF Sorted, L
    <3>2. CASE k \in 1..L /\ all[k] = wire[k] /\ m - L \in 1..Len(frame) /\ all[m] = frame[m - L]
      BY <1>3, <1>4, <3>2
    <3>3. CASE /\ k - L \in 1..Len(frame) /\ all[k] = frame[k - L]
               /\ m - L \in 1..Len(frame) /\ all[m] = frame[m - L]
      <4>1. k - L < m - L \/ (k - L = m - L /\ l < n)
        BY <1>1, <2>2
      <4> QED BY <3>3, <4>1 DEF Sorted
    <3>4. ~ (k > L /\ m \in 1..L)
      BY <1>1, <2>2
    <3> QED BY <1>2, <3>1, <3>2, <3>3, <3>4
  <2>3. \A i, j \in 1..Len(plain) : i < j => Rank(plain[i]) < Rank(plain[j])
    BY DEF Sorted
  <2> QED BY <2>1, <2>2, <2>3 DEF Sorted
<1>7. Cut(all)
  <2> SUFFICES ASSUME NEW k \in 1..Len(all)
               PROVE  /\ all[k].whole <=> all[k].parts # <<>>
                      /\ all[k].key = Clear => all[k].whole
                      /\ all[k].whole /\ all[k].key # Clear => k > 1 /\ ~ all[k - 1].whole
                      /\ ~ all[k].whole => k < Len(all) /\ all[k + 1].whole
    BY DEF Cut
  <2>1. CASE k \in 1..L /\ all[k] = wire[k]
    <3>1. k > 1 => all[k - 1] = wire[k - 1]
      BY <1>1, <2>1
    <3>2. k < L => k < Len(all) /\ all[k + 1] = wire[k + 1]
      BY <1>1, <2>1
    <3> QED BY <2>1, <3>1, <3>2 DEF Cut, L
  <2>2. CASE k > L /\ k - L \in 1..Len(frame) /\ all[k] = frame[k - L]
    <3>1. k - L > 1 => k > 1 /\ all[k - 1] = frame[k - L - 1]
      <4>1. k - L > 1 => k - L - 1 \in 1..Len(frame) /\ L + (k - L - 1) = k - 1 /\ k > 1
        BY <1>1, <2>2
      <4> QED BY <1>1, <4>1
    <3>2. k - L < Len(frame) => k < Len(all) /\ all[k + 1] = frame[k - L + 1]
      <4>1. k - L < Len(frame) =>
              k - L + 1 \in 1..Len(frame) /\ L + (k - L + 1) = k + 1 /\ k < Len(all)
        BY <1>1, <2>2
      <4> QED BY <1>1, <4>1
    <3> DEFINE j == k - L
    <3>3. /\ frame[j].whole <=> frame[j].parts # <<>>
          /\ frame[j].key = Clear => frame[j].whole
          /\ frame[j].whole /\ frame[j].key # Clear => j > 1 /\ ~ frame[j - 1].whole
          /\ ~ frame[j].whole => j < Len(frame) /\ frame[j + 1].whole
      BY <2>2 DEF Cut
    <3> QED BY <2>2, <3>1, <3>2, <3>3
  <2> QED BY <1>2, <2>1, <2>2
<1>8. ASSUME NEW p
      PROVE  p \in Unhandled(plain, all)
               <=> p \in Unhandled(plain, wire) \/ p \in Unhandled(<<>>, frame)
  <2>1. ASSUME NEW k \in 1..Len(all), NEW l \in 1..Len(all[k].parts), p = all[k].parts[l]
        PROVE  p \in Unhandled(plain, wire) \/ p \in Unhandled(<<>>, frame)
    BY <1>2, <1>3, <1>4, <2>1
  <2>2. ASSUME NEW k \in 1..L, NEW l \in 1..Len(wire[k].parts), p = wire[k].parts[l]
        PROVE  p \in Unhandled(plain, all)
    <3>1. k \in 1..Len(all) /\ all[k] = wire[k]
      BY <1>1
    <3> QED BY <2>2, <3>1, Whereabouts
  <2>3. ASSUME NEW k \in 1..Len(frame), NEW l \in 1..Len(frame[k].parts), p = frame[k].parts[l]
        PROVE  p \in Unhandled(plain, all)
    <3>1. L + k \in 1..Len(all) /\ all[L + k] = frame[k]
      BY <1>1
    <3> QED BY <2>3, <3>1, Whereabouts
  <2>4. 1..Len(<<>>) = {}
    OBVIOUS
  <2>5. ASSUME NEW i \in 1..Len(plain), p = plain[i]
        PROVE  p \in Unhandled(plain, all) /\ p \in Unhandled(plain, wire)
    BY <2>5, Whereabouts
  <2>6. p \in Unhandled(plain, all) => p \in Unhandled(plain, wire) \/ p \in Unhandled(<<>>, frame)
    <3>1. p \in Unhandled(plain, all) =>
            \/ \E i \in 1..Len(plain) : p = plain[i]
            \/ \E k \in 1..Len(all) : \E l \in 1..Len(all[k].parts) : p = all[k].parts[l]
      BY Whereabouts
    <3> HIDE DEF all
    <3> QED BY <2>1, <2>5, <3>1, Zenon
  <2>7. p \in Unhandled(plain, wire) => p \in Unhandled(plain, all)
    <3>1. p \in Unhandled(plain, wire) =>
            \/ \E i \in 1..Len(plain) : p = plain[i]
            \/ \E k \in 1..L : \E l \in 1..Len(wire[k].parts) : p = wire[k].parts[l]
      BY Whereabouts DEF L
    <3> HIDE DEF all, L
    <3> QED BY <2>2, <2>5, <3>1, Zenon
  <2>8. p \in Unhandled(<<>>, frame) => p \in Unhandled(plain, all)
    <3>1. p \in Unhandled(<<>>, frame) =>
            \/ \E i \in 1..Len(<<>>) : p = <<>>[i]
            \/ \E k \in 1..Len(frame) : \E l \in 1..Len(frame[k].parts) : p = frame[k].parts[l]
      BY Whereabouts
    <3> HIDE DEF all
    <3> QED BY <2>3, <2>4, <3>1
  <2> QED BY <2>6, <2>7, <2>8
<1>9. Unhandled(plain, all) = Unhandled(plain, wire) \union Unhandled(<<>>, frame)
  BY <1>8
<1> QED BY <1>6, <1>7, <1>9 DEF all

\* A frame holds its parts, in order, bare or in one block.
LEMMA FrameHolds ==
  ASSUME NEW P, NEW parts \in Seq(P), parts # <<>>, NEW key \in Nat, NEW n,
         \A i, j \in 1..Len(parts) : i < j => Rank(parts[i]) < Rank(parts[j]),
         NEW frame, \/ key = Clear /\ frame = Bare(parts)
                    \/ key # Clear /\ frame = Block(key, n, parts)
  PROVE  /\ Sorted(<<>>, frame) /\ Cut(frame)
         /\ Unhandled(<<>>, frame) = ToSet(parts)
<1>0. 1..Len(<<>>) = {} /\ Len(parts) \in Nat
  OBVIOUS
<1>d. DOMAIN parts = 1..Len(parts)
  OBVIOUS
<1>1. CASE frame = Bare(parts)
  <2>1. Len(frame) = Len(parts)
    BY <1>0, <1>1 DEF Bare
  <2>2. ASSUME NEW k \in 1..Len(parts)
        PROVE  /\ frame[k].parts = <<parts[k]>> /\ frame[k].whole /\ frame[k].key = Clear
    BY <1>1, <2>2 DEF Bare, Piece
  <2>3. ASSUME NEW k \in 1..Len(parts), NEW l \in 1..Len(frame[k].parts)
        PROVE  l = 1 /\ frame[k].parts[l] = parts[k]
    <3>1. Len(<<parts[k]>>) = 1 /\ <<parts[k]>>[1] = parts[k]
      OBVIOUS
    <3>2. frame[k].parts = <<parts[k]>>
      BY <2>2
    <3>3. Len(frame[k].parts) = 1 /\ frame[k].parts[1] = parts[k]
      BY <3>1, <3>2
    <3>4. l = 1
      BY <3>3
    <3> QED BY <3>3, <3>4
  <2>4. Sorted(<<>>, frame)
    BY <1>0, <2>1, <2>3 DEF Sorted
  <2>5. Cut(frame)
    <3>1. ASSUME NEW k \in 1..Len(frame)
          PROVE  frame[k].whole /\ frame[k].key = Clear /\ frame[k].parts # <<>>
      BY SMTT(30), <2>1, <2>2
    <3> QED BY <3>1, Zenon DEF Cut
  <2>6. ASSUME NEW p PROVE p \in Unhandled(<<>>, frame) <=> \E i \in 1..Len(parts) : p = parts[i]
    <3>1. ASSUME NEW k \in 1..Len(parts)
          PROVE  1 \in 1..Len(frame[k].parts) /\ frame[k].parts[1] = parts[k]
      BY <2>2
    <3> QED BY SMTT(30), <1>0, <2>1, <2>3, <3>1, Whereabouts
  <2> QED BY <1>d, <2>4, <2>5, <2>6 DEF ToSet
<1>2. CASE key # Clear /\ frame = Block(key, n, parts)
  <2>1. /\ Len(frame) = 2 /\ frame[1].parts = <<>> /\ ~ frame[1].whole /\ frame[1].key # Clear
        /\ frame[2].parts = parts /\ frame[2].whole
    BY <1>2 DEF Block, Piece
  <2>2. Sorted(<<>>, frame)
    <3>1. ASSUME NEW k \in 1..Len(frame), NEW l \in 1..Len(frame[k].parts)
          PROVE  k = 2 /\ l \in 1..Len(parts) /\ frame[k].parts[l] = parts[l]
      BY <1>0, <2>1
    <3> QED BY <1>0, <3>1 DEF Sorted
  <2>3. Cut(frame)
    <3>1. /\ 1 - 1 = 0 /\ 2 - 1 = 1 /\ 1 + 1 = 2 /\ 1 < 2 /\ 2 > 1
          /\ \A k \in 1..Len(frame) : k = 1 \/ k = 2
      BY <2>1
    <3>2. ASSUME NEW k \in 1..Len(frame), k = 1
          PROVE  ~ frame[k].whole /\ frame[k].parts = <<>> /\ frame[k].key # Clear
                 /\ k < Len(frame) /\ frame[k + 1].whole
      BY <2>1, <3>2
    <3>3. ASSUME NEW k \in 1..Len(frame), k = 2
          PROVE  frame[k].whole /\ frame[k].parts # <<>> /\ k > 1 /\ ~ frame[k - 1].whole
      BY <2>1, <3>3
    <3> QED BY <3>1, <3>2, <3>3, Zenon DEF Cut
  <2>4. ASSUME NEW p PROVE p \in Unhandled(<<>>, frame) <=> \E i \in 1..Len(parts) : p = parts[i]
    <3>1. 1..Len(frame) = {1, 2} /\ 1..Len(frame[1].parts) = {}
      BY <1>0, <2>1
    <3> QED BY SMTT(30), <1>0, <2>1, <3>1, Whereabouts
  <2> QED BY <1>d, <2>2, <2>3, <2>4 DEF ToSet
<1> QED BY <1>1, <1>2
-----------------------------------------------------------------------------
\* A request is asked for, part of it is taken, it is handled.

LEMMA CompleteAsked ==
  ASSUME NEW old, NEW new, NEW last \in Nat, NEW sent \in Nat, last <= sent,
         Complete(old, last, sent, TRUE), \A p \in old : p.req.id \in Nat, NEW r, r.id = sent + 1,
         \A p \in new : p.req = r /\ p.part <= Size(r), \E p \in new : Completes(p)
  PROVE  Complete(old \union new, last, sent + 1, TRUE)
<1>1. \A p \in old : last < p.req.id /\ p.req.id <= sent /\ p.req.id # r.id
  BY DEF Complete
<1>2. \A p \in old \union new :
        last < p.req.id /\ p.req.id <= sent + 1 /\ p.part <= Size(p.req)
  BY <1>1 DEF Complete
<1>3. \A p, q \in old \union new : p.req.id = q.req.id => p.req = q.req
  BY <1>1 DEF Complete
<1>4. ASSUME NEW id \in (last + 1)..(sent + 1)
      PROVE  \E p \in old \union new : p.req.id = id /\ Completes(p)
  <2>1. CASE id <= sent
    <3>1. id \in (last + 1)..sent
      BY <2>1
    <3>2. \E p \in old : p.req.id = id /\ Completes(p)
      BY <3>1 DEF Complete
    <3> QED BY <3>2
  <2>2. CASE id = sent + 1
    BY <2>2
  <2> QED BY <2>1, <2>2
<1> QED BY <1>2, <1>3, <1>4 DEF Complete

LEMMA CompleteHead ==
  ASSUME NEW rest, NEW p, NEW last, NEW sent, NEW alive,
         Complete(rest \union {p}, last, sent, alive), ~ Completes(p)
  PROVE  Complete(rest, last, sent, alive)
BY DEF Complete

\* The lowest part, when it completes a request, completes the next one.
LEMMA CompleteNext ==
  ASSUME NEW rest, NEW p, NEW last \in Nat, NEW sent \in Nat, NEW alive,
         \A q \in rest \union {p} : q.req.id \in Nat /\ q.part \in 1..3,
         Complete(rest \union {p}, last, sent, alive), Completes(p),
         \A q \in rest : Rank(p) < Rank(q)
  PROVE  p.req.id = last + 1 /\ Complete(rest, last + 1, sent, alive) /\ last + 1 <= sent
<1>1. p.req.id \in Nat /\ last < p.req.id /\ p.req.id <= sent
  BY DEF Complete
<1>2. p.req.id = last + 1
  <2>1. SUFFICES ASSUME p.req.id > last + 1 PROVE FALSE
    BY <1>1
  <2>2. last + 1 \in (last + 1)..sent /\ ~ (p.req.id < last + 1)
    BY <1>1, <2>1
  <2>3. PICK q \in rest \union {p} : q.req.id = last + 1
    BY <2>2 DEF Complete
  <2>4. Rank(p) <= Rank(q)
    BY <1>1, <2>3 DEF Rank
  <2>5. Rank(q) < 4 * (q.req.id + 1) /\ 4 * p.req.id <= Rank(p)
        /\ Rank(p) \in Nat /\ Rank(q) \in Nat
    BY RankBounds
  <2> QED BY <1>1, <2>1, <2>3, <2>4, <2>5
<1>3. ASSUME NEW q \in rest PROVE last + 1 < q.req.id
  <2>1. SUFFICES ASSUME q.req.id = last + 1 PROVE FALSE
    BY DEF Complete
  <2>2. q.req = p.req
    BY <1>2, <2>1 DEF Complete
  <2>3. Rank(p) < Rank(q)
    OBVIOUS
  <2>4. q.part > p.part
    BY <1>1, <2>2, <2>3 DEF Rank
  <2>5. q.part <= Size(q.req) /\ p.part = Size(p.req)
    BY DEF Complete, Completes
  <2> QED BY <2>2, <2>4, <2>5
<1>4. ASSUME NEW id \in (last + 2)..sent
      PROVE  \/ \E q \in rest : q.req.id = id /\ Completes(q)
             \/ ~ alive /\ \A q \in rest : Completes(q) => q.req.id < id
  <2>1. id \in (last + 1)..sent /\ id # p.req.id
    BY <1>2
  <2> QED BY <2>1 DEF Complete
<1>5. last + 1 + 1 = last + 2
  OBVIOUS
<1> QED BY <1>1, <1>2, <1>3, <1>4, <1>5 DEF Complete

\* A sender that is gone forgets what it has not written: that comes after all
\* that it has.
LEMMA CompleteCut ==
  ASSUME NEW kept, NEW gone, NEW last \in Nat, NEW sent \in Nat, NEW alive,
         \A q \in kept \union gone : q.req.id \in Nat /\ q.part \in 1..3,
         Complete(kept \union gone, last, sent, alive),
         \A p \in kept, q \in gone : Rank(p) < Rank(q)
  PROVE  Complete(kept, last, sent, FALSE)
<1>1. ASSUME NEW id \in (last + 1)..sent, NEW p \in kept, Completes(p), id <= p.req.id
      PROVE  \E q \in kept : q.req.id = id /\ Completes(q)
  <2>1. PICK q \in kept \union gone : q.req.id = id /\ Completes(q)
    BY <1>1 DEF Complete
  <2>2. CASE q \in gone
    <3>1. Rank(p) < Rank(q)
      BY <2>2
    <3>2. Rank(q) < 4 * (id + 1) /\ 4 * p.req.id <= Rank(p) /\ Rank(p) \in Nat /\ Rank(q) \in Nat
      BY <2>1, RankBounds
    <3>3. id = p.req.id
      BY <1>1, <3>1, <3>2
    <3>4. q.req = p.req
      BY <2>1, <3>3 DEF Complete
    <3>5. q.part = p.part
      BY <1>1, <2>1, <3>4 DEF Completes
    <3> QED BY <3>1, <3>4, <3>5 DEF Rank
  <2> QED BY <2>1, <2>2
<1>2. \A p \in kept, id \in (last + 1)..sent : p.req.id \in Nat /\ (~ (id <= p.req.id) => p.req.id < id)
  OBVIOUS
<1> QED BY <1>1, <1>2 DEF Complete
-----------------------------------------------------------------------------
\* The order is kept, connection by connection and step by step.

LEMMA OrderTyped ==
  ASSUME GateInv, NEW c \in Conns
  PROVE  /\ rx[c].plain \in Seq(PartsOf(c)) /\ rx[c].pending \in Seq(PiecesFrom(PartsOf(c)))
         /\ up[c] \in Seq(PiecesFrom(PartsOf(c))) /\ Wire(c) \in Seq(PiecesFrom(PartsOf(c)))
         /\ tx[c].sent \in Nat /\ tx[c].held \in Seq(PartsOf(c))
         /\ \A p \in InFlight(c) : p \in PartsOf(c) /\ p.req.id \in Nat /\ p.part \in 1..3
<1>1. /\ rx[c].plain \in Seq(PartsOf(c)) /\ rx[c].pending \in Seq(PiecesFrom(PartsOf(c)))
      /\ up[c] \in Seq(PiecesFrom(PartsOf(c))) /\ tx[c].sent \in Nat
      /\ tx[c].held \in Seq(PartsOf(c))
  BY DEF GateInv, Typed, ReceiverOf, SendersOf, PiecesOf, PiecesFrom
<1>2. Wire(c) \in Seq(PiecesFrom(PartsOf(c)))
  BY <1>1, ConcatProperties DEF Wire
<1>3. ASSUME NEW p \in InFlight(c) PROVE p \in PartsOf(c)
  <2>1. \A i \in 1..Len(rx[c].plain) : rx[c].plain[i] \in PartsOf(c)
    BY <1>1
  <2>2. ASSUME NEW k \in 1..Len(Wire(c)), NEW l \in 1..Len(Wire(c)[k].parts)
        PROVE  Wire(c)[k].parts[l] \in PartsOf(c)
    <3>1. Wire(c)[k] \in PiecesFrom(PartsOf(c))
      BY <1>2
    <3>2. Wire(c)[k].parts \in Seq(PartsOf(c))
      BY <3>1 DEF PiecesFrom
    <3> QED BY <3>2
  <2>3. p \in OnWire(c) => p \in PartsOf(c)
    BY <2>1, <2>2, Whereabouts DEF OnWire
  <2>4. p \in ToSet(tx[c].held) => p \in PartsOf(c)
    BY <1>1 DEF ToSet
  <2> QED BY <2>3, <2>4 DEF InFlight
<1>4. \A p \in PartsOf(c) : p.req.id \in Nat /\ p.part \in 1..3
  BY DEF PartsOf, RequestsOf, AllRequests
<1> QED BY <1>1, <1>2, <1>3, <1>4

\* Nothing but the place of one connection's parts may change.
LEMMA OneOrdered ==
  ASSUME AllOrdered, NEW c \in Conns, Others(c), done' \in [Conns -> Nat],
         \A d \in Conns \ {c} : done'[d] = done[d], OrderInv(c)'
  PROVE  AllOrdered'
<1>1. \A d \in Conns \ {c} : OrderInv(d)'
  BY DEF AllOrdered, Others, OrderInv, Wire, InFlight, OnWire, Encrypted, At
<1> QED BY <1>1 DEF AllOrdered

\* What a step of the receiver does to its end.
LEMMA Changes ==
  ASSUME GateInv, NEW c \in Conns, NEW r, Rx(c, r)
  PROVE  rx'[c] = r /\ \A d \in Conns \ {c} : rx'[d] = rx[d]
BY DEF GateInv, Shape, Rx

LEMMA OrderReadClear ==
  ASSUME GateInv, AllOrdered, NEW c \in Conns, ReadClear(c)
  PROVE  /\ Wire(c) # <<>> /\ Wire(c)[1].key = Clear /\ rx[c].plain = <<>>
         /\ rx'[c] = [rx[c] EXCEPT !.plain = Wire(c)[1].parts]
         /\ Wire(c)' = Tail(Wire(c)) /\ InFlight(c)' = InFlight(c)
         /\ UNCHANGED <<tx, down, done>>
         /\ AllOrdered'
<1> DEFINE r == [rx[c] EXCEPT !.plain = Head(up[c]).parts]
<1>1. /\ At(c, "reading") /\ ~ Encrypted(c) /\ rx[c].plain = <<>> /\ up[c] # <<>>
      /\ Head(up[c]).key = Clear /\ Rx(c, r)
      /\ up' = [up EXCEPT ![c] = Tail(up[c])] /\ UNCHANGED <<tx, down, done, served>>
  BY DEF ReadClear, GateInv, Shape
<1>2. rx[c] \in ReceiverOf(c) /\ rx[c].pending = <<>>
  BY <1>1 DEF GateInv, Typed, AllOrdered, OrderInv
<1>3. Wire(c) = up[c]
  BY <1>2, OrderTyped, ConcatEmptySeq DEF Wire
<1>4. rx'[c] = r /\ up'[c] = Tail(up[c])
  BY <1>1, Changes DEF GateInv, Shape
<1>5. r.pending = <<>> /\ r.plain = Head(up[c]).parts /\ r.key = rx[c].key /\ r.pc = rx[c].pc
      /\ r.exchange = rx[c].exchange
  BY <1>2 DEF ReceiverOf
<1>6. Wire(c)' = Tail(up[c])
  <2>1. Tail(up[c]) \in Seq(PiecesFrom(PartsOf(c)))
    BY <1>1, OrderTyped, HeadTailProperties
  <2> QED BY <1>4, <1>5, <2>1, ConcatEmptySeq DEF Wire
<1>7. Head(up[c]) = up[c][1]
  OBVIOUS
<1>8. /\ Sorted(up[c][1].parts, Tail(up[c])) /\ Cut(Tail(up[c]))
      /\ Unhandled(up[c][1].parts, Tail(up[c])) = Unhandled(<<>>, up[c])
  <2>1. up[c] \in Seq(PiecesFrom(PartsOf(c)))
    BY OrderTyped
  <2>2. Sorted(<<>>, up[c]) /\ Cut(up[c])
    BY <1>1, <1>3 DEF AllOrdered, OrderInv
  <2> QED BY <1>1, <1>7, <2>1, <2>2, ReadPart
<1>9. OnWire(c)' = OnWire(c) /\ InFlight(c)' = InFlight(c)
  <2>1. OnWire(c)' = OnWire(c)
    BY <1>1, <1>3, <1>4, <1>5, <1>6, <1>7, <1>8 DEF OnWire
  <2> QED BY <1>1, <2>1 DEF InFlight
<1>10. OrderInv(c)'
  <2>1. Sorted(rx[c].plain, Wire(c))' /\ Cut(Wire(c))'
    BY <1>4, <1>5, <1>6, <1>7, <1>8
  <2> QED BY <1>1, <1>2, <1>4, <1>5, <1>9, <2>1 DEF OrderInv, AllOrdered, Encrypted, At
<1>11. Others(c)
  BY <1>1 DEF Others, GateInv, Shape, Rx
<1>12. AllOrdered'
  <2>1. done' = done
    BY <1>1
  <2> QED BY <1>10, <1>11, <2>1, OneOrdered DEF AllOrdered
<1> QED BY <1>1, <1>3, <1>4, <1>6, <1>7, <1>9, <1>12
LEMMA OrderReadCipher ==
  ASSUME GateInv, AllOrdered, NEW c \in Conns, ReadCipher(c)
  PROVE  /\ \E more : rx'[c] = [rx[c] EXCEPT !.pending = more]
         /\ At(c, "reading") /\ Wire(c)' = Wire(c) /\ InFlight(c)' = InFlight(c)
         /\ UNCHANGED <<tx, down, done>>
         /\ AllOrdered'
<1>1. PICK k \in 1..Len(up[c]) :
        /\ Rx(c, [rx[c] EXCEPT !.pending = rx[c].pending \o SubSeq(up[c], 1, k)])
        /\ up' = [up EXCEPT ![c] = SubSeq(up[c], k + 1, Len(up[c]))]
  BY DEF ReadCipher, GateInv, Shape
<1> DEFINE more == rx[c].pending \o SubSeq(up[c], 1, k)
           rest == SubSeq(up[c], k + 1, Len(up[c]))
           r == [rx[c] EXCEPT !.pending = more]
<1>2. At(c, "reading") /\ Encrypted(c) /\ UNCHANGED <<tx, down, done, served>>
  BY DEF ReadCipher
<1>3. rx[c] \in ReceiverOf(c) /\ Len(up[c]) \in Nat
  BY OrderTyped DEF GateInv, Typed
<1>4. rx'[c] = r /\ up'[c] = rest
  BY <1>1, Changes DEF GateInv, Shape
<1>5. r.pending = more /\ r.plain = rx[c].plain /\ r.key = rx[c].key /\ r.pc = rx[c].pc
      /\ r.exchange = rx[c].exchange
  BY <1>3 DEF ReceiverOf
<1>6. more \o rest = Wire(c)
  BY OrderTyped, MoveSome DEF Wire
<1> HIDE DEF more, rest
<1>7. Wire(c)' = Wire(c)
  BY <1>4, <1>5, <1>6 DEF Wire
<1>8. OnWire(c)' = OnWire(c) /\ InFlight(c)' = InFlight(c)
  <2>1. OnWire(c)' = OnWire(c)
    BY <1>4, <1>5, <1>7 DEF OnWire
  <2> QED BY <1>2, <2>1 DEF InFlight
<1>9. OrderInv(c)'
  BY <1>2, <1>4, <1>5, <1>7, <1>8 DEF OrderInv, AllOrdered, Encrypted, At
<1>10. Others(c)
  BY <1>1, <1>2 DEF Others, GateInv, Shape, Rx
<1>11. AllOrdered'
  <2>1. done' = done
    BY <1>2
  <2> QED BY <1>9, <1>10, <2>1, OneOrdered DEF AllOrdered
<1> QED BY <1>2, <1>4, <1>7, <1>8, <1>11

LEMMA OrderDecrypt ==
  ASSUME GateInv, AllOrdered, NEW c \in Conns, Decrypt(c)
  PROVE  /\ At(c, "reading") /\ Encrypted(c) /\ Len(Wire(c)) >= 2
         /\ \E more, rest : rx'[c] = [rx[c] EXCEPT !.plain = more, !.decN = rx[c].decN + 1,
                                                   !.pending = rest]
         /\ Wire(c)' = SubSeq(Wire(c), 3, Len(Wire(c))) /\ InFlight(c)' = InFlight(c)
         /\ UNCHANGED <<tx, down, done>>
         /\ AllOrdered'
<1> DEFINE more == rx[c].plain \o rx[c].pending[2].parts
           rest == SubSeq(rx[c].pending, 3, Len(rx[c].pending))
           n == rx[c].decN + 1
           r == [rx[c] EXCEPT !.plain = more, !.decN = n, !.pending = rest]
           P == PartsOf(c)
           S == PiecesFrom(P)
<1>1. /\ At(c, "reading") /\ Encrypted(c) /\ Len(rx[c].pending) >= 2 /\ Opens(c)
      /\ Rx(c, r) /\ UNCHANGED <<tx, up, down, done, served>>
  BY DEF Decrypt
<1>2. /\ rx[c] \in ReceiverOf(c) /\ rx[c].plain \in Seq(P) /\ rx[c].pending \in Seq(S)
      /\ up[c] \in Seq(S) /\ Wire(c) \in Seq(S)
      /\ Len(rx[c].pending) \in Nat /\ Len(up[c]) \in Nat
  <2>1. Len(rx[c].pending) \in Nat /\ Len(up[c]) \in Nat
    BY OrderTyped
  <2> QED BY <2>1, OrderTyped DEF GateInv, Typed
<1> HIDE DEF P, S
<1>3. /\ rx'[c] = r /\ up'[c] = up[c]
  BY <1>1, Changes
<1>4. r.pending = rest /\ r.plain = more /\ r.key = rx[c].key /\ r.pc = rx[c].pc
      /\ r.exchange = rx[c].exchange
  BY <1>2 DEF ReceiverOf
<1>5. /\ rest \o up[c] = SubSeq(Wire(c), 3, Len(Wire(c)))
      /\ Len(Wire(c)) >= 2 /\ Wire(c)[2] = rx[c].pending[2]
  BY <1>1, <1>2, TakeTwo DEF Wire
<1>6. Wire(c)[2].whole /\ Wire(c)[2].key # Clear /\ Wire(c)[2].parts = rx[c].pending[2].parts
  BY <1>1, <1>5 DEF Opens, Encrypted
<1>7. more = rx[c].plain \o Wire(c)[2].parts
  BY <1>6
<1>8. /\ Sorted(more, SubSeq(Wire(c), 3, Len(Wire(c)))) /\ Cut(SubSeq(Wire(c), 3, Len(Wire(c))))
      /\ Unhandled(more, SubSeq(Wire(c), 3, Len(Wire(c)))) = Unhandled(rx[c].plain, Wire(c))
  <2>1. Sorted(rx[c].plain, Wire(c)) /\ Cut(Wire(c))
    BY DEF AllOrdered, OrderInv
  <2> QED BY <1>2, <1>5, <1>6, <1>7, <2>1, OpenBlock DEF S
<1> HIDE DEF more, rest, n
<1>9. Wire(c)' = SubSeq(Wire(c), 3, Len(Wire(c)))
  BY <1>3, <1>4, <1>5 DEF Wire
<1>10. OnWire(c)' = OnWire(c) /\ InFlight(c)' = InFlight(c)
  <2>1. OnWire(c)' = OnWire(c)
    BY <1>3, <1>4, <1>8, <1>9 DEF OnWire
  <2> QED BY <1>1, <2>1 DEF InFlight
<1>11. OrderInv(c)'
  <2>1. Sorted(rx[c].plain, Wire(c))' /\ Cut(Wire(c))'
    BY <1>3, <1>4, <1>8, <1>9
  <2> QED BY <1>1, <1>3, <1>4, <1>10, <2>1 DEF OrderInv, AllOrdered, Encrypted, At
<1>12. Others(c)
  BY <1>1 DEF Others, GateInv, Shape, Rx
<1>13. AllOrdered'
  <2>1. done' = done
    BY <1>1
  <2> QED BY <1>11, <1>12, <2>1, OneOrdered DEF AllOrdered
<1> QED BY <1>1, <1>3, <1>5, <1>9, <1>10, <1>13 DEF n

\* A part is taken, and the rest of its request is still to come.
LEMMA OrderReadHead ==
  ASSUME GateInv, AllOrdered, NEW c \in Conns, ReadHead(c)
  PROVE  /\ At(c, "reading") /\ rx[c].plain # <<>>
         /\ \E rest : rx'[c] = [rx[c] EXCEPT !.plain = rest, !.head = TRUE]
         /\ ~ Completes(Incoming(c)) /\ rx'[c].plain = Tail(rx[c].plain)
         /\ \A q \in InFlight(c)' : Rank(Incoming(c)) < Rank(q)
         /\ Wire(c)' = Wire(c) /\ InFlight(c) = InFlight(c)' \union {Incoming(c)}
         /\ UNCHANGED <<tx, down, done>>
         /\ AllOrdered'
<1> DEFINE rest == Tail(rx[c].plain)
           r == [rx[c] EXCEPT !.plain = rest, !.head = TRUE]
           p == Incoming(c)
<1>1. /\ At(c, "reading") /\ rx[c].plain # <<>> /\ ~ Completes(p)
      /\ Rx(c, r) /\ UNCHANGED <<tx, up, down, done, served>>
  BY DEF ReadHead, Reading
<1>2. rx[c] \in ReceiverOf(c) /\ rx[c].plain \in Seq(PartsOf(c)) /\ p = Head(rx[c].plain)
  BY OrderTyped DEF GateInv, Typed, Incoming
<1>5. /\ Sorted(rest, Wire(c))
      /\ Unhandled(rx[c].plain, Wire(c)) = Unhandled(rest, Wire(c)) \union {p}
      /\ \A s \in Unhandled(rest, Wire(c)) : Rank(p) < Rank(s)
  BY <1>1, <1>2, TakePart DEF AllOrdered, OrderInv
<1> HIDE DEF rest, p
<1>6. rx'[c] = r /\ up'[c] = up[c]
  BY <1>1, Changes
<1>7. r.plain = rest /\ r.pending = rx[c].pending /\ r.key = rx[c].key /\ r.pc = rx[c].pc
      /\ r.exchange = rx[c].exchange
  BY <1>2 DEF ReceiverOf
<1>8. Wire(c)' = Wire(c)
  BY <1>6, <1>7 DEF Wire
<1>9. OnWire(c) = OnWire(c)' \union {p} /\ InFlight(c) = InFlight(c)' \union {p}
  <2>1. OnWire(c) = OnWire(c)' \union {p}
    BY <1>5, <1>6, <1>7, <1>8 DEF OnWire
  <2> QED BY <1>1, <2>1 DEF InFlight
<1>q. Queued(OnWire(c), tx[c].held) /\ Queued(OnWire(c)', tx[c].held)
  BY <1>9 DEF Queued, AllOrdered, OrderInv
<1>r. \A q \in InFlight(c)' : Rank(p) < Rank(q)
  <2>1. \A q \in OnWire(c)' : Rank(p) < Rank(q)
    BY <1>5, <1>6, <1>7, <1>8 DEF OnWire
  <2>2. \A q \in ToSet(tx[c].held) : Rank(p) < Rank(q)
    <3>1. p \in OnWire(c) /\ DOMAIN tx[c].held = 1..Len(tx[c].held)
      BY <1>9, OrderTyped
    <3> QED BY <1>q, <3>1 DEF Queued, ToSet
  <2> QED BY <1>1, <2>1, <2>2 DEF InFlight
<1>10. OrderInv(c)'
  <2>1. Sorted(rx[c].plain, Wire(c))' /\ Cut(Wire(c))'
    BY <1>5, <1>6, <1>7, <1>8 DEF AllOrdered, OrderInv
  <2>2. Complete(InFlight(c)', done[c], tx[c].sent, tx[c].up)
    <3>1. Complete(InFlight(c)' \union {p}, done[c], tx[c].sent, tx[c].up)
      BY <1>9 DEF AllOrdered, OrderInv
    <3> QED BY <1>1, <3>1, CompleteHead
  <2> QED BY <1>1, <1>6, <1>7, <1>q, <2>1, <2>2 DEF OrderInv, AllOrdered, Encrypted, At
<1>11. Others(c)
  BY <1>1 DEF Others, GateInv, Shape, Rx
<1>12. AllOrdered'
  <2>1. done' = done
    BY <1>1
  <2> QED BY <1>10, <1>11, <2>1, OneOrdered DEF AllOrdered
<1> QED BY <1>1, <1>6, <1>7, <1>8, <1>9, <1>r, <1>12 DEF p, rest

\* What is handled is the request after the last one.
LEMMA OrderServe ==
  ASSUME GateInv, AllOrdered, NEW c \in Conns, Serve(c)
  PROVE  /\ Incoming(c).req.id = done[c] + 1
         /\ done' = [done EXCEPT ![c] = done[c] + 1] /\ done[c] + 1 <= tx[c].sent
         /\ Wire(c)' = Wire(c) /\ InFlight(c) = InFlight(c)' \union {Incoming(c)}
         /\ AllOrdered'
<1> DEFINE p == Incoming(c)
           q == Paired(c, p.req)
           rest == Tail(rx[c].plain)
           switches == Status(c, p.req) = "m4" /\ q.transient
           to == IF switches THEN "switching" ELSE "reading"
           n == rx[c].encN + 1
           r == [q EXCEPT !.plain = rest, !.head = FALSE, !.encN = n, !.pc = to]
<1>1. rx[c] \in ReceiverOf(c) /\ rx[c].plain \in Seq(PartsOf(c)) /\ p = Head(rx[c].plain)
  BY OrderTyped DEF GateInv, Typed, Incoming
<1>2. /\ q \in [pc : {"none", "reading", "switching", "closed"}, key : Nat, encN : Nat, decN : Nat,
                plain : Seq(PartsOf(c)), pending : Seq(PiecesOf(c)), head : BOOLEAN,
                exchange : Nat, made : Nat, transient : BOOLEAN]
      /\ q.key = rx[c].key /\ q.encN = rx[c].encN
      /\ q.plain = rx[c].plain /\ q.pending = rx[c].pending
  <2>1. q = rx[c] \/ \E e \in Nat, t \in BOOLEAN :
          q = [rx[c] EXCEPT !.made = e, !.exchange = e, !.transient = t]
    <3>1. rx[c].made + 1 \in Nat /\ (p.req.kind = "m1") \in BOOLEAN
      BY <1>1 DEF ReceiverOf
    <3>2. q = rx[c] \/ q = [rx[c] EXCEPT !.made = rx[c].made + 1,
                              !.exchange = rx[c].made + 1, !.transient = p.req.kind = "m1"]
      BY DEF Paired
    <3> QED BY <3>1, <3>2
  <2> HIDE DEF q
  <2> QED BY ZenonT(40), <1>1, <2>1 DEF ReceiverOf
<1>3. /\ At(c, "reading") /\ rx[c].plain # <<>> /\ Completes(p)
      /\ Rx(c, r) /\ UNCHANGED <<tx, up>>
      /\ done' = [done EXCEPT ![c] = p.req.id]
  BY <1>2 DEF Serve, Reading
<1>4. switches => q.exchange > 0
  <2>1. CASE p.req.kind = "m3"
    BY <2>1 DEF Status, Paired
  <2>2. CASE p.req.kind # "m3"
    <3>1. Status(c, p.req) # "m4"
      <4>1. p \in PartsOf(c)
        BY <1>1, <1>3, HeadTailProperties
      <4>2. p.req.kind \in AllKinds \ {"garbled", "m3"}
        BY <2>2, <4>1 DEF Serve, PartsOf, RequestsOf, AllRequests
      <4> QED BY <4>2 DEF Status, AllKinds
    <3> QED BY <3>1
  <2> QED BY <2>1, <2>2
<1>5. /\ Sorted(rest, Wire(c))
      /\ Unhandled(rx[c].plain, Wire(c)) = Unhandled(rest, Wire(c)) \union {p}
      /\ \A s \in Unhandled(rest, Wire(c)) : Rank(p) < Rank(s)
  BY <1>1, <1>3, TakePart DEF AllOrdered, OrderInv
<1>n. rx[c].encN + 1 \in Nat /\ to \in {"switching", "reading"}
  BY <1>1 DEF ReceiverOf
<1> HIDE DEF rest, p, q, n
<1>6. rx'[c] = r /\ up'[c] = up[c]
  BY <1>3, Changes
<1>7. r.plain = rest /\ r.pending = rx[c].pending /\ r.key = rx[c].key
      /\ r.exchange = q.exchange /\ r.pc = to
  BY <1>2
<1> HIDE DEF r
<1>8. Wire(c)' = Wire(c)
  BY <1>6, <1>7 DEF Wire
<1>9. OnWire(c)' = Unhandled(rest, Wire(c)) /\ OnWire(c) = OnWire(c)' \union {p}
      /\ InFlight(c) = InFlight(c)' \union {p}
  <2>1. OnWire(c)' = Unhandled(rest, Wire(c)) /\ OnWire(c) = OnWire(c)' \union {p}
    BY <1>5, <1>6, <1>7, <1>8 DEF OnWire
  <2> QED BY <1>3, <2>1 DEF InFlight
<1>q. Queued(OnWire(c), tx[c].held) /\ Queued(OnWire(c)', tx[c].held)
  BY <1>9 DEF Queued, AllOrdered, OrderInv
<1>10. /\ p.req.id = done[c] + 1 /\ done[c] + 1 <= tx[c].sent
       /\ Complete(InFlight(c)', done[c] + 1, tx[c].sent, tx[c].up)
  <2>1. done[c] \in Nat /\ tx[c].sent \in Nat
    BY OrderTyped DEF AllOrdered
  <2>2. Complete(InFlight(c)' \union {p}, done[c], tx[c].sent, tx[c].up)
    BY <1>9 DEF AllOrdered, OrderInv
  <2>3. \A s \in InFlight(c)' \union {p} : s.req.id \in Nat /\ s.part \in 1..3
    BY <1>9, OrderTyped
  <2>4. \A s \in InFlight(c)' : Rank(p) < Rank(s)
    <3>1. \A s \in OnWire(c)' : Rank(p) < Rank(s)
      BY <1>5, <1>9
    <3>2. \A s \in ToSet(tx[c].held) : Rank(p) < Rank(s)
      <4>1. p \in OnWire(c) /\ DOMAIN tx[c].held = 1..Len(tx[c].held)
        BY <1>9, OrderTyped
      <4> QED BY <1>q, <4>1 DEF Queued, ToSet
    <3> QED BY <1>3, <3>1, <3>2 DEF InFlight
  <2> QED BY <1>3, <2>1, <2>2, <2>3, <2>4, CompleteNext
<1>11. done' = [done EXCEPT ![c] = done[c] + 1] /\ done' \in [Conns -> Nat] /\ done'[c] = done[c] + 1
  BY <1>3, <1>10 DEF AllOrdered
<1>12. OrderInv(c)'
  <2>1. Sorted(rx[c].plain, Wire(c))' /\ Cut(Wire(c))'
    BY <1>5, <1>6, <1>7, <1>8 DEF AllOrdered, OrderInv
  <2>2. tx' = tx
    BY <1>3
  <2>3. At(c, "switching")' => rx'[c].exchange > 0
    BY <1>4, <1>6, <1>7 DEF At
  <2>4. ~ Encrypted(c)' => rx'[c].pending = <<>>
    BY <1>6, <1>7 DEF Encrypted, AllOrdered, OrderInv
  <2> QED BY <1>10, <1>11, <1>q, <2>1, <2>2, <2>3, <2>4 DEF OrderInv
<1>13. Others(c) /\ \A d \in Conns \ {c} : done'[d] = done[d]
  BY <1>3, <1>11 DEF Others, GateInv, Shape, Rx, Serve, AllOrdered
<1>14. AllOrdered'
  BY <1>11, <1>12, <1>13, OneOrdered
<1> QED BY <1>8, <1>9, <1>10, <1>11, <1>14 DEF p

\* What a request is made of.
LEMMA AskedParts ==
  ASSUME NEW r, r.id \in Nat
  PROVE  /\ Len(Parts(r)) = Size(r) /\ Size(r) \in 1..3
         /\ \A i \in 1..Size(r) : Parts(r)[i].req = r /\ Parts(r)[i].part = i
         /\ \A i, j \in 1..Size(r) : i < j => Rank(Parts(r)[i]) < Rank(Parts(r)[j])
         /\ Completes(Parts(r)[Size(r)])
<1>1. Size(r) \in 1..3
  BY DEF Size
<1>2. Len(Parts(r)) = Size(r)
  BY <1>1 DEF Parts
<1>3. \A i \in 1..Size(r) : Parts(r)[i].req = r /\ Parts(r)[i].part = i
  BY DEF Parts
<1>4. Completes(Parts(r)[Size(r)])
  BY <1>1, <1>3 DEF Completes
<1>5. ASSUME NEW i \in 1..Size(r), NEW j \in 1..Size(r), i < j
      PROVE  Rank(Parts(r)[i]) < Rank(Parts(r)[j])
  BY <1>1, <1>3, <1>5 DEF Rank
<1> QED BY <1>1, <1>2, <1>3, <1>4, <1>5

\* What two sequences hold, one after the other.
LEMMA Joined ==
  ASSUME NEW P, NEW a \in Seq(P), NEW b \in Seq(P)
  PROVE  /\ Len(a) \in Nat /\ Len(b) \in Nat /\ Len(a \o b) = Len(a) + Len(b)
         /\ a \o b \in Seq(P)
         /\ \A i \in 1..Len(a) : (a \o b)[i] = a[i]
         /\ \A i \in 1..Len(b) : (a \o b)[Len(a) + i] = b[i]
         /\ \A i \in 1..Len(a \o b) :
              \/ i \in 1..Len(a) /\ (a \o b)[i] = a[i]
              \/ i > Len(a) /\ i - Len(a) \in 1..Len(b) /\ (a \o b)[i] = b[i - Len(a)]
         /\ ToSet(a \o b) = ToSet(a) \union ToSet(b)
<1> DEFINE all == a \o b
<1>1. /\ Len(a) \in Nat /\ Len(b) \in Nat /\ Len(all) = Len(a) + Len(b)
      /\ all \in Seq(P)
      /\ \A i \in 1..Len(a) : all[i] = a[i]
      /\ \A i \in 1..Len(b) : all[Len(a) + i] = b[i]
  BY ConcatProperties
<1>2. DOMAIN a = 1..Len(a) /\ DOMAIN b = 1..Len(b) /\ DOMAIN all = 1..Len(all)
  BY <1>1
<1> HIDE DEF all
<1>3. ASSUME NEW i \in 1..Len(all)
      PROVE  \/ i \in 1..Len(a) /\ all[i] = a[i]
             \/ i > Len(a) /\ i - Len(a) \in 1..Len(b) /\ all[i] = b[i - Len(a)]
  <2>1. CASE i > Len(a)
    <3>1. i - Len(a) \in 1..Len(b) /\ Len(a) + (i - Len(a)) = i
      BY <1>1, <2>1
    <3> QED BY <1>1, <2>1, <3>1
  <2> QED BY <1>1, <2>1
<1>4. ASSUME NEW i \in 1..Len(a) PROVE \E j \in 1..Len(all) : a[i] = all[j]
  <2>1. i \in 1..Len(all)
    BY <1>1
  <2> QED BY <1>1, <2>1
<1>5. ASSUME NEW i \in 1..Len(b) PROVE \E j \in 1..Len(all) : b[i] = all[j]
  <2>1. Len(a) + i \in 1..Len(all)
    BY <1>1
  <2> QED BY <1>1, <2>1
<1>6. \A p : p \in ToSet(all) <=> p \in ToSet(a) \/ p \in ToSet(b)
  <2>1. ASSUME NEW p \in ToSet(all) PROVE p \in ToSet(a) \/ p \in ToSet(b)
    BY <1>2, <1>3 DEF ToSet
  <2>2. ASSUME NEW p \in ToSet(a) PROVE p \in ToSet(all)
    BY <1>2, <1>4 DEF ToSet
  <2>3. ASSUME NEW p \in ToSet(b) PROVE p \in ToSet(all)
    BY <1>2, <1>5 DEF ToSet
  <2> QED BY <2>1, <2>2, <2>3
<1> QED BY <1>1, <1>3, <1>6 DEF all

\* A sender makes a request only for itself.
LEMMA OrderAsk ==
  ASSUME GateInv, AllOrdered, NEW c \in Conns, NEW kind \in Kinds[c], NEW r,
         r = Request(tx[c].sent + 1, kind, tx[c].exchange, c \in Knowing), Ask(c, kind)
  PROVE  /\ Wire(c)' = Wire(c)
         /\ InFlight(c)' = InFlight(c) \union ToSet(Parts(r))
         /\ AllOrdered'
<1> DEFINE new == ToSet(Parts(r))
           held == tx[c].held
           more == held \o Parts(r)
<1>1. /\ tx[c] \in SendersOf(c) /\ tx[c].sent \in Nat /\ done[c] \in Nat /\ done[c] <= tx[c].sent
      /\ ~ At(c, "closed") /\ tx[c].exchange \in Nat /\ held \in Seq(PartsOf(c))
  BY DEF GateInv, Typed, SendersOf, AllOrdered, OrderInv, Ask, Open, At
<1>2. r.id = tx[c].sent + 1 /\ r.id \in Nat
  BY <1>1 DEF Request
<1>3. Parts(r) \in Seq(PartsOf(c))
  <2>1. kind \in AllKinds
    BY ControlAssumption DEF AllKinds
  <2>2. tx[c].sent + 1 \in Nat
    BY <1>1
  <2> QED BY <1>1, <2>1, <2>2, PartsTyped
<1>4. /\ Len(Parts(r)) = Size(r) /\ Size(r) \in 1..3
      /\ \A i \in 1..Size(r) : Parts(r)[i].req = r /\ Parts(r)[i].part = i
      /\ \A i, j \in 1..Size(r) : i < j => Rank(Parts(r)[i]) < Rank(Parts(r)[j])
      /\ Completes(Parts(r)[Size(r)])
  BY <1>2, AskedParts
<1>5. DOMAIN Parts(r) = 1..Size(r) /\ DOMAIN held = 1..Len(held)
  BY <1>1, <1>3, <1>4
<1>6. /\ new = {Parts(r)[i] : i \in 1..Size(r)}
      /\ \A p \in new : p.req = r /\ p.part <= Size(r)
      /\ \E p \in new : Completes(p)
  <2>1. new = {Parts(r)[i] : i \in 1..Size(r)}
    BY <1>5 DEF ToSet
  <2>2. \A p \in new : p.req = r /\ p.part <= Size(r)
    BY <1>4, <2>1
  <2>3. Parts(r)[Size(r)] \in new
    BY <1>4, <2>1
  <2> QED BY <1>4, <2>1, <2>2, <2>3
<1>7. /\ UNCHANGED <<rx, up, down, done, served>> /\ tx' = [tx EXCEPT ![c] = tx'[c]]
      /\ tx'[c].sent = tx[c].sent + 1 /\ tx'[c].held = more /\ tx'[c].up /\ tx[c].up
  <2> HIDE DEF new
  <2> QED BY <1>1 DEF Ask, Tx, GateInv, Shape, SendersOf
<1>8. /\ Len(held) \in Nat /\ Len(more) = Len(held) + Len(Parts(r))
      /\ \A i \in 1..Len(more) :
           \/ i \in 1..Len(held) /\ more[i] = held[i]
           \/ i > Len(held) /\ i - Len(held) \in 1..Len(Parts(r))
              /\ more[i] = Parts(r)[i - Len(held)]
      /\ ToSet(more) = ToSet(held) \union new
  <2> HIDE DEF held
  <2> QED BY <1>1, <1>3, Joined
<1> HIDE DEF new, held, more
<1>9. ASSUME NEW i \in 1..Len(more)
      PROVE  \/ i \in 1..Len(held) /\ more[i] = held[i]
             \/ i > Len(held) /\ i - Len(held) \in 1..Size(r) /\ more[i] = Parts(r)[i - Len(held)]
  BY <1>4, <1>8, Zenon
<1>12. Wire(c)' = Wire(c) /\ OnWire(c)' = OnWire(c)
  BY <1>7 DEF Wire, OnWire
<1>13. InFlight(c)' = InFlight(c) \union new
  BY <1>7, <1>8, <1>12 DEF InFlight, held
<1>14. \A p \in InFlight(c), i \in 1..Size(r) : Rank(p) < Rank(Parts(r)[i])
  <2> SUFFICES ASSUME NEW p \in InFlight(c), NEW i \in 1..Size(r)
               PROVE  Rank(p) < Rank(Parts(r)[i])
    OBVIOUS
  <2>1. p.req.id \in Nat /\ p.req.id <= tx[c].sent /\ p.part \in 1..3
    BY OrderTyped DEF AllOrdered, OrderInv, Complete
  <2>2. Rank(p) < 4 * (p.req.id + 1) /\ Rank(p) \in Nat
    BY <2>1, RankBounds
  <2>3. Rank(Parts(r)[i]) = 4 * (tx[c].sent + 1) + i /\ i \in Nat
    BY <1>2, <1>4, SMTT(30) DEF Rank
  <2> QED BY <1>1, <2>1, <2>2, <2>3, SMTT(30)
<1>15. Queued(OnWire(c), more)
  <2>1. Queued(OnWire(c), held)
    BY DEF AllOrdered, OrderInv, held
  <2>2. ASSUME NEW i \in 1..Len(more), NEW j \in 1..Len(more), i < j
        PROVE  Rank(more[i]) < Rank(more[j])
    <3>1. CASE i \in 1..Len(held) /\ more[i] = held[i] /\ j \in 1..Len(held) /\ more[j] = held[j]
      BY <2>1, <2>2, <3>1 DEF Queued
    <3>2. CASE /\ i \in 1..Len(held) /\ more[i] = held[i]
               /\ j - Len(held) \in 1..Size(r) /\ more[j] = Parts(r)[j - Len(held)]
      <4>1. held[i] \in InFlight(c)
        BY <1>5, <3>2 DEF InFlight, ToSet, held
      <4> QED BY <1>14, <3>2, <4>1
    <3>3. CASE /\ i - Len(held) \in 1..Size(r) /\ more[i] = Parts(r)[i - Len(held)]
               /\ j - Len(held) \in 1..Size(r) /\ more[j] = Parts(r)[j - Len(held)]
      <4>1. i - Len(held) < j - Len(held)
        BY <1>8, <2>2
      <4> QED BY <1>4, <3>3, <4>1
    <3>4. ~ (i > Len(held) /\ j \in 1..Len(held))
      BY <1>8, <2>2
    <3> QED BY <1>9, <3>1, <3>2, <3>3, <3>4
  <2>3. ASSUME NEW p \in OnWire(c), NEW i \in 1..Len(more) PROVE Rank(p) < Rank(more[i])
    <3>1. p \in InFlight(c)
      BY DEF InFlight
    <3> QED BY <1>9, <1>14, <2>1, <3>1 DEF Queued
  <2> QED BY <2>2, <2>3 DEF Queued
<1>16. Complete(InFlight(c) \union new, done[c], tx[c].sent + 1, TRUE)
  <2>1. Complete(InFlight(c), done[c], tx[c].sent, TRUE)
    BY <1>7 DEF AllOrdered, OrderInv, Complete
  <2>2. \A p \in InFlight(c) : p.req.id \in Nat
    BY OrderTyped
  <2> QED BY <1>1, <1>2, <1>6, <2>1, <2>2, CompleteAsked
<1>17. OrderInv(c)'
  <2>1. Sorted(rx[c].plain, Wire(c))' /\ Cut(Wire(c))'
    BY <1>7, <1>12 DEF AllOrdered, OrderInv
  <2>2. Queued(OnWire(c), tx[c].held)'
    BY <1>7, <1>12, <1>15
  <2>3. Complete(InFlight(c), done[c], tx[c].sent, tx[c].up)'
    <3>1. tx'[c].up = TRUE
      <4>1. tx'[c].up \in BOOLEAN
        BY <1>1, GateInvAsk DEF AskSomething, GateInv, Typed, SendersOf
      <4> QED BY <1>7, <4>1
    <3>2. done' = done
      BY <1>7
    <3> QED BY <1>7, <1>13, <1>16, <3>1, <3>2
  <2>4. done'[c] <= tx'[c].sent
    BY <1>1, <1>7
  <2> QED BY <1>7, <2>1, <2>2, <2>3, <2>4 DEF OrderInv, AllOrdered, Encrypted, At
<1>18. Others(c)
  BY <1>7 DEF Others, GateInv, Shape
<1>19. AllOrdered'
  <2>1. done' = done
    BY <1>7
  <2> QED BY <1>17, <1>18, <2>1, OneOrdered DEF AllOrdered
<1> QED BY <1>12, <1>13, <1>19 DEF new

\* A sequence cut in two.
LEMMA CutInTwo ==
  ASSUME NEW P, NEW s \in Seq(P), NEW k \in 1..Len(s)
  PROVE  /\ Len(SubSeq(s, 1, k)) = k
         /\ \A i \in 1..k : SubSeq(s, 1, k)[i] = s[i] /\ i \in 1..Len(s)
         /\ Len(SubSeq(s, k + 1, Len(s))) = Len(s) - k
         /\ \A i \in 1..(Len(s) - k) :
              SubSeq(s, k + 1, Len(s))[i] = s[k + i] /\ k + i \in 1..Len(s)
         /\ ToSet(s) = ToSet(SubSeq(s, 1, k)) \union ToSet(SubSeq(s, k + 1, Len(s)))
<1> DEFINE now == SubSeq(s, 1, k)
           rest == SubSeq(s, k + 1, Len(s))
<1>1. Len(s) \in Nat /\ k \in Nat /\ k <= Len(s)
  OBVIOUS
<1>2. /\ now \in Seq(P) /\ rest \in Seq(P)
  <2>1. k + 1 \in 1..(Len(s) + 1) /\ 1 \in 1..(Len(s) + 1) /\ k \in 0..Len(s) /\ Len(s) \in 0..Len(s)
    BY <1>1
  <2> QED BY <2>1, SubSeqTyped
<1>3. Len(now) = k /\ \A i \in 1..k : now[i] = s[i]
  BY <1>1
<1>4. Len(rest) = Len(s) - k
  BY <1>1
<1>5. \A i \in 1..(Len(s) - k) : rest[i] = s[k + i]
  BY <1>1
<1>6. now \o rest = s
  <2>1. <<>> \in Seq(P) /\ <<>> \o s = s /\ <<>> \o now = now
    BY <1>2, ConcatEmptySeq
  <2> HIDE DEF now, rest
  <2>2. (<<>> \o now) \o rest = <<>> \o s
    BY <2>1, MoveSome DEF now, rest
  <2> QED BY <2>1, <2>2
<1> HIDE DEF now, rest
<1>7. ToSet(now \o rest) = ToSet(now) \union ToSet(rest)
  BY <1>2, Joined
<1>8. \A i \in 1..k : i \in 1..Len(s)
  BY <1>1
<1>9. \A i \in 1..(Len(s) - k) : k + i \in 1..Len(s)
  BY <1>1
<1> QED BY <1>3, <1>4, <1>5, <1>6, <1>7, <1>8, <1>9 DEF now, rest

\* Writing what is held moves its first parts to the end of the wire.
LEMMA OrderSend ==
  ASSUME GateInv, AllOrdered, NEW c \in Conns, Send(c)
  PROVE  /\ InFlight(c)' = InFlight(c) /\ UNCHANGED <<rx, down, done>>
         /\ tx[c].held # <<>> /\ Others(c)
         /\ \E now \in Seq(PartsOf(c)), rest \in Seq(PartsOf(c)), out \in Nat :
              /\ out = IF tx[c].key = Clear THEN tx[c].out ELSE tx[c].out + 1
              /\ Frame(c, now) \in Seq(PiecesFrom(PartsOf(c)))
              /\ Wire(c)' = Wire(c) \o Frame(c, now)
              /\ tx'[c] = [tx[c] EXCEPT !.out = out, !.held = rest]
         /\ AllOrdered'
<1> DEFINE held == tx[c].held
           P == PartsOf(c)
           S == PiecesFrom(P)
           out == IF tx[c].key = Clear THEN tx[c].out ELSE tx[c].out + 1
<1>1. PICK k \in 1..Len(held) :
        /\ SubSeq(held, 1, k) \in Seq(P) /\ SubSeq(held, 1, k) # <<>> /\ out \in Nat
        /\ SubSeq(held, k + 1, Len(held)) \in Seq(P)
        /\ Frame(c, SubSeq(held, 1, k)) \in Seq(PiecesOf(c))
        /\ up' = [up EXCEPT ![c] = up[c] \o Frame(c, SubSeq(held, 1, k))]
        /\ tx' = [tx EXCEPT ![c] = [tx[c] EXCEPT !.out = out,
                                       !.held = SubSeq(held, k + 1, Len(held))]]
        /\ UNCHANGED <<rx, down, done, served>>
  BY SendChanges
<1> DEFINE now == SubSeq(held, 1, k)
           rest == SubSeq(held, k + 1, Len(held))
           frame == Frame(c, now)
<1>2. /\ tx[c] \in SendersOf(c) /\ held \in Seq(P) /\ Len(held) \in Nat /\ tx[c].key \in Nat
      /\ rx[c].plain \in Seq(P) /\ rx[c].pending \in Seq(S) /\ up[c] \in Seq(S) /\ Wire(c) \in Seq(S)
  BY OrderTyped DEF GateInv, Typed, SendersOf
<1>3. /\ Len(now) = k /\ \A i \in 1..k : now[i] = held[i] /\ i \in 1..Len(held)
      /\ Len(rest) = Len(held) - k
      /\ \A i \in 1..Len(rest) : rest[i] = held[k + i] /\ k + i \in 1..Len(held)
      /\ ToSet(held) = ToSet(now) \union ToSet(rest)
  <2> HIDE DEF held, now, rest
  <2> QED BY <1>2, CutInTwo DEF now, rest
<1>5. frame \in Seq(S)
  BY <1>1 DEF PiecesOf, PiecesFrom
<1>6. Queued(OnWire(c), held)
  BY DEF AllOrdered, OrderInv
<1>7. tx'[c] = [tx[c] EXCEPT !.out = out, !.held = rest] /\ up'[c] = up[c] \o frame /\ rx' = rx
  BY <1>1 DEF GateInv, Shape
<1> HIDE DEF now, rest, frame, held, out
<1>8. \A i, j \in 1..Len(now) : i < j => Rank(now[i]) < Rank(now[j])
  BY <1>3, <1>6 DEF Queued
<1>9. /\ Sorted(<<>>, frame) /\ Cut(frame) /\ Unhandled(<<>>, frame) = ToSet(now)
  <2>1. \/ tx[c].key = Clear /\ frame = Bare(now)
        \/ tx[c].key # Clear /\ frame = Block(tx[c].key, tx[c].out, now)
    BY DEF Frame, frame
  <2>2. now \in Seq(P) /\ now # <<>>
    BY <1>1 DEF now
  <2> QED BY <1>2, <1>8, <2>1, <2>2, FrameHolds
<1>10. /\ DOMAIN now = 1..Len(now) /\ DOMAIN rest = 1..Len(rest)
  BY <1>1 DEF now, rest
<1>11. /\ Sorted(rx[c].plain, Wire(c) \o frame) /\ Cut(Wire(c) \o frame)
       /\ Unhandled(rx[c].plain, Wire(c) \o frame) = OnWire(c) \union ToSet(now)
  <2>1. Sorted(rx[c].plain, Wire(c)) /\ Cut(Wire(c))
    BY DEF AllOrdered, OrderInv
  <2>2. \A p \in Unhandled(rx[c].plain, Wire(c)), q \in Unhandled(<<>>, frame) : Rank(p) < Rank(q)
    BY <1>3, <1>6, <1>9, <1>10 DEF Queued, OnWire, ToSet
  <2> HIDE DEF P, S
  <2> QED BY <1>2, <1>5, <1>9, <2>1, <2>2, AddFrame DEF S, OnWire
<1>12. Wire(c)' = Wire(c) \o frame
  <2> HIDE DEF S
  <2>1. ASSUME NEW a \in Seq(S), NEW b \in Seq(S), NEW d \in Seq(S)
        PROVE  a \o (b \o d) = (a \o b) \o d
    BY SMTT(30)
  <2>2. /\ rx[c].pending \in Seq(S) /\ up[c] \in Seq(S) /\ frame \in Seq(S)
    BY <1>5, OrderTyped DEF S
  <2> HIDE DEF P
  <2>3. rx[c].pending \o (up[c] \o frame) = (rx[c].pending \o up[c]) \o frame
    BY ZenonT(40), <2>1, <2>2
  <2> QED BY <1>7, <2>3 DEF Wire
<1>13. OnWire(c)' = OnWire(c) \union ToSet(now)
  BY <1>7, <1>11, <1>12 DEF OnWire
<1>14. tx'[c].held = rest /\ tx'[c].sent = tx[c].sent /\ tx'[c].up = tx[c].up
  BY <1>2, <1>7 DEF SendersOf
<1>15. InFlight(c)' = InFlight(c)
  <2>1. InFlight(c)' = OnWire(c)' \union ToSet(rest)
    BY <1>14 DEF InFlight
  <2>2. InFlight(c) = OnWire(c) \union ToSet(held)
    BY DEF InFlight, held
  <2> QED BY <1>3, <1>13, <2>1, <2>2
<1>16. Queued(OnWire(c)', rest)
  <2>1. ASSUME NEW i \in 1..Len(rest), NEW j \in 1..Len(rest), i < j
        PROVE  Rank(rest[i]) < Rank(rest[j])
    <3>1. k + i < k + j
      BY <1>2, <1>3, <2>1
    <3> QED BY <1>3, <1>6, <3>1 DEF Queued
  <2>2. ASSUME NEW p \in OnWire(c), NEW i \in 1..Len(rest) PROVE Rank(p) < Rank(rest[i])
    BY <1>3, <1>6 DEF Queued
  <2>3. ASSUME NEW j \in 1..Len(now), NEW i \in 1..Len(rest) PROVE Rank(now[j]) < Rank(rest[i])
    <3>1. j < k + i /\ k + i \in 1..Len(held) /\ j \in 1..Len(held)
      BY <1>2, <1>3
    <3> QED BY <1>3, <1>6, <3>1 DEF Queued
  <2> QED BY <1>10, <1>13, <2>1, <2>2, <2>3 DEF Queued, ToSet
<1>17. OrderInv(c)'
  <2>1. Sorted(rx[c].plain, Wire(c))' /\ Cut(Wire(c))'
    BY <1>7, <1>11, <1>12
  <2>2. Queued(OnWire(c), tx[c].held)'
    BY <1>14, <1>16
  <2>3. Complete(InFlight(c), done[c], tx[c].sent, tx[c].up)'
    BY <1>1, <1>14, <1>15 DEF AllOrdered, OrderInv
  <2> QED BY <1>1, <1>7, <1>14, <2>1, <2>2, <2>3 DEF OrderInv, AllOrdered, Encrypted, At
<1>18. Others(c)
  BY <1>1 DEF Others, GateInv, Shape
<1>19. AllOrdered'
  <2>1. done' = done
    BY <1>1
  <2> QED BY <1>17, <1>18, <2>1, OneOrdered DEF AllOrdered
<1>20. held # <<>>
  BY <1>2
<1>21. now \in Seq(P) /\ rest \in Seq(P) /\ out \in Nat
  BY <1>1 DEF now, rest, out
<1> QED BY <1>1, <1>5, <1>7, <1>12, <1>15, <1>18, <1>19, <1>20, <1>21 DEF frame, held, out

\* A sender that hangs up drops what it has not written.
LEMMA OrderHangUp ==
  ASSUME GateInv, AllOrdered, NEW c \in Conns, HangUp(c)
  PROVE  /\ Wire(c)' = Wire(c) /\ InFlight(c)' = OnWire(c) /\ UNCHANGED <<rx, down, done>>
         /\ tx'[c] = [tx[c] EXCEPT !.up = FALSE, !.held = <<>>] /\ Others(c)
         /\ AllOrdered'
<1>1. /\ tx' = [tx EXCEPT ![c] = [tx[c] EXCEPT !.up = FALSE, !.held = <<>>]]
      /\ UNCHANGED <<rx, up, down, done, served>>
  BY DEF HangUp, Tx, GateInv, Shape
<1>2. tx[c] \in SendersOf(c) /\ tx[c].sent \in Nat /\ tx[c].held \in Seq(PartsOf(c))
  BY OrderTyped DEF GateInv, Typed
<1>3. tx'[c] = [tx[c] EXCEPT !.up = FALSE, !.held = <<>>]
  BY <1>1 DEF GateInv, Shape
<1>4. tx'[c].up = FALSE /\ tx'[c].held = <<>> /\ tx'[c].sent = tx[c].sent
  BY <1>2, <1>3 DEF SendersOf
<1>5. Wire(c)' = Wire(c) /\ OnWire(c)' = OnWire(c)
  BY <1>1 DEF Wire, OnWire
<1>6. InFlight(c)' = OnWire(c)
  <2>1. ToSet(<<>>) = {}
    BY DEF ToSet
  <2> QED BY <1>4, <1>5, <2>1 DEF InFlight
<1>7. Complete(OnWire(c), done[c], tx[c].sent, FALSE)
  <2>1. Complete(OnWire(c) \union ToSet(tx[c].held), done[c], tx[c].sent, tx[c].up) /\ done[c] \in Nat
    BY DEF AllOrdered, OrderInv, InFlight
  <2>2. \A p \in OnWire(c), q \in ToSet(tx[c].held) : Rank(p) < Rank(q)
    <3>1. DOMAIN tx[c].held = 1..Len(tx[c].held)
      BY <1>2
    <3> QED BY <3>1 DEF AllOrdered, OrderInv, Queued, ToSet
  <2>3. \A q \in OnWire(c) \union ToSet(tx[c].held) : q.req.id \in Nat /\ q.part \in 1..3
    BY OrderTyped DEF InFlight
  <2> QED BY <1>2, <2>1, <2>2, <2>3, CompleteCut
<1>8. Queued(OnWire(c), <<>>)
  <2>1. 1..Len(<<>>) = {}
    OBVIOUS
  <2> QED BY <2>1 DEF Queued
<1>9. OrderInv(c)'
  BY <1>1, <1>4, <1>5, <1>6, <1>7, <1>8 DEF OrderInv, AllOrdered, Encrypted, At
<1>10. Others(c)
  BY <1>1 DEF Others, GateInv, Shape
<1>11. AllOrdered'
  <2>1. done' = done
    BY <1>1
  <2> QED BY <1>9, <1>10, <2>1, OneOrdered DEF AllOrdered
<1> QED BY <1>1, <1>3, <1>5, <1>6, <1>10, <1>11

\* Nothing moves: a connection is accepted or switches its cipher in, or the
\* sender reads an answer.
LEMMA OrderQuiet ==
  ASSUME GateInv, AllOrdered, NEW c \in Conns, Accept(c) \/ Switch(c) \/ ReadResponse(c)
  PROVE  /\ Wire(c)' = Wire(c) /\ InFlight(c)' = InFlight(c) /\ done' = done
         /\ rx'[c].plain = rx[c].plain /\ tx'[c].held = tx[c].held
         /\ AllOrdered'
<1>1. rx[c] \in ReceiverOf(c) /\ tx[c] \in SendersOf(c)
  BY DEF GateInv, Typed
<1>2. /\ up' = up /\ done' = done /\ served' = served
      /\ rx'[c].plain = rx[c].plain /\ rx'[c].pending = rx[c].pending
      /\ rx'[c].exchange = rx[c].exchange
      /\ rx'[c].key \in {rx[c].key, rx[c].exchange} /\ tx'[c].sent = tx[c].sent
      /\ tx'[c].up = tx[c].up /\ tx'[c].held = tx[c].held
      /\ At(c, "switching")' => At(c, "switching")
      /\ At(c, "closed") => At(c, "closed")'
      /\ (rx'[c].key = rx[c].key \/ At(c, "switching"))
  <2>1. CASE Accept(c)
    BY <1>1, <2>1 DEF Accept, Rx, GateInv, Shape, ReceiverOf, At
  <2>2. CASE Switch(c)
    BY <1>1, <2>2 DEF Switch, Rx, GateInv, Shape, ReceiverOf, At
  <2>3. CASE ReadResponse(c)
    BY <1>1, <2>3 DEF ReadResponse, Tx, GateInv, Shape, SendersOf, At
  <2> QED BY <2>1, <2>2, <2>3
<1>3. Wire(c)' = Wire(c)
  BY <1>2 DEF Wire
<1>4. OnWire(c)' = OnWire(c) /\ InFlight(c)' = InFlight(c)
  <2>1. OnWire(c)' = OnWire(c)
    BY <1>2, <1>3 DEF OnWire
  <2> QED BY <1>2, <2>1 DEF InFlight
<1>5. Complete(InFlight(c), done[c], tx[c].sent, tx'[c].up)
  BY <1>2 DEF AllOrdered, OrderInv, Complete
<1>6. OrderInv(c)'
  <2>1. ~ Encrypted(c)' => ~ Encrypted(c)
    BY <1>1, <1>2 DEF AllOrdered, OrderInv, Encrypted, Clear, ReceiverOf
  <2> QED BY <1>2, <1>3, <1>4, <1>5, <2>1 DEF OrderInv, AllOrdered
<1>7. Others(c)
  BY DEF Others, GateInv, Shape, Rx, Tx, Accept, Switch, ReadResponse
<1>8. AllOrdered'
  BY <1>2, <1>6, <1>7, OneOrdered DEF AllOrdered
<1> QED BY <1>2, <1>3, <1>4, <1>8

\* A closed connection has nothing on its way.
LEMMA Nothing ==
  /\ Sorted(<<>>, <<>>) /\ Cut(<<>>) /\ Unhandled(<<>>, <<>>) = {}
  /\ Queued({}, <<>>) /\ ToSet(<<>>) = {}
<1>1. 1..Len(<<>>) = {} /\ DOMAIN <<>> = {}
  OBVIOUS
<1> QED BY <1>1 DEF Sorted, Cut, Unhandled, Queued, ToSet

LEMMA OrderClose ==
  ASSUME GateInv, AllOrdered, NEW c \in Conns, Close(c)
  PROVE  AllOrdered' /\ done' = done
<1>1. /\ rx'[c] = [Fresh EXCEPT !.pc = "closed"] /\ tx'[c] = [Sender EXCEPT !.up = FALSE]
      /\ up'[c] = <<>> /\ done' = done
  BY DEF Close, Rx, Tx, GateInv, Shape
<1>2. /\ rx'[c].plain = <<>> /\ rx'[c].pending = <<>> /\ rx'[c].pc = "closed"
      /\ tx'[c].sent = 0 /\ tx'[c].up = FALSE /\ tx'[c].held = <<>>
  BY <1>1 DEF Fresh, Sender
<1>3. Wire(c)' = <<>>
  <2>1. <<>> \o <<>> = <<>>
    OBVIOUS
  <2> QED BY <1>1, <1>2, <2>1 DEF Wire
<1>4. OnWire(c)' = {} /\ InFlight(c)' = {}
  BY <1>2, <1>3, Nothing DEF OnWire, InFlight
<1>5. Complete({}, done[c], 0, FALSE)
  BY DEF Complete, AllOrdered
<1>6. OrderInv(c)'
  <2>1. Sorted(rx[c].plain, Wire(c))' /\ Cut(Wire(c))' /\ Queued(OnWire(c), tx[c].held)'
    BY <1>2, <1>3, <1>4, Nothing
  <2>2. Complete(InFlight(c), done[c], tx[c].sent, tx[c].up)'
    BY <1>1, <1>2, <1>4, <1>5
  <2> QED BY <1>2, <2>1, <2>2 DEF OrderInv, At
<1>7. Others(c)
  BY DEF Others, GateInv, Shape, Rx, Tx, Close
<1> QED BY <1>1, <1>6, <1>7, OneOrdered DEF AllOrdered

LEMMA OrderInit == Init => AllOrdered
<1> SUFFICES ASSUME Init, NEW c \in Conns PROVE OrderInv(c)
  BY DEF AllOrdered, Init
<1>1. /\ rx[c].plain = <<>> /\ rx[c].pending = <<>> /\ rx[c].pc = "none" /\ up[c] = <<>>
      /\ tx[c].sent = 0 /\ tx[c].up = TRUE /\ tx[c].held = <<>> /\ done[c] = 0
  BY DEF Init, Fresh, Sender
<1>2. Wire(c) = <<>>
  <2>1. <<>> \o <<>> = <<>>
    OBVIOUS
  <2> QED BY <1>1, <2>1 DEF Wire
<1>3. OnWire(c) = {} /\ InFlight(c) = {}
  BY <1>1, <1>2, Nothing DEF OnWire, InFlight
<1>4. Complete({}, 0, 0, TRUE)
  BY DEF Complete
<1>5. Sorted(rx[c].plain, Wire(c)) /\ Cut(Wire(c)) /\ Queued(OnWire(c), tx[c].held)
  BY <1>1, <1>2, <1>3, Nothing
<1>6. Complete(InFlight(c), done[c], tx[c].sent, tx[c].up)
  BY <1>1, <1>3, <1>4
<1> QED BY <1>1, <1>5, <1>6 DEF OrderInv, At

LEMMA OrderStep ==
  ASSUME GateInv, AllOrdered, [Next]_vars
  PROVE  AllOrdered' /\ \A c \in Conns : done'[c] = IF Serve(c) THEN done[c] + 1 ELSE done[c]
<1>1. ASSUME NEW c \in Conns, Serve(c)
      PROVE  AllOrdered' /\ done'[c] = done[c] + 1 /\ \A d \in Conns \ {c} : done'[d] = done[d]
  <2>1. AllOrdered' /\ done' = [done EXCEPT ![c] = done[c] + 1]
    BY <1>1, OrderServe
  <2> QED BY <2>1 DEF AllOrdered
<1>2. ASSUME \A c \in Conns : ~ Serve(c) PROVE AllOrdered' /\ done' = done
  <2>1. CASE UNCHANGED vars
    BY <2>1 DEF vars, AllOrdered, OrderInv, Wire, OnWire, InFlight, Encrypted, At
  <2>2. CASE Next
    <3>1. PICK c \in Conns :
            Receiver(c) \/ AskSomething(c) \/ Send(c) \/ HangUp(c) \/ ReadResponse(c)
      BY <2>2 DEF Next
    <3>2. CASE AskSomething(c)
      <4>1. PICK kind \in Kinds[c] : Ask(c, kind)
        BY <3>2 DEF AskSomething
      <4> QED BY <4>1, OrderAsk DEF Ask
    <3>3. CASE Send(c)
      BY <3>3, OrderSend
    <3>4. CASE HangUp(c)
      BY <3>4, OrderHangUp
    <3>5. CASE ReadResponse(c) \/ Accept(c) \/ Switch(c)
      BY <3>5, OrderQuiet
    <3>6. CASE Close(c)
      BY <3>6, OrderClose
    <3>7. CASE ReadClear(c)
      BY <3>7, OrderReadClear
    <3>8. CASE ReadCipher(c)
      BY <3>8, OrderReadCipher
    <3>9. CASE Decrypt(c)
      BY <3>9, OrderDecrypt
    <3>10. CASE ReadHead(c)
      BY <3>10, OrderReadHead
    <3> QED
      BY <1>2, <3>1, <3>2, <3>3, <3>4, <3>5, <3>6, <3>7, <3>8, <3>9, <3>10
      DEF Receiver, Reject, Eof, Timeout, Garbled, WriteFails
  <2> QED BY <2>1, <2>2
<1> QED BY <1>1, <1>2

LEMMA OrderAlways == Spec => [](GateInv /\ AllOrdered)
<1>1. Init => GateInv /\ AllOrdered
  BY GateInvInit, OrderInit
<1>2. GateInv /\ AllOrdered /\ [Next]_vars => (GateInv /\ AllOrdered)'
  BY GateInvStep, OrderStep
<1> QED BY <1>1, <1>2, PTL DEF Spec

\* ControlConnection: however requests are pipelined, spread over blocks and
\* cut, on the clear channel, through the cipher and across the switch, each
\* is handled once and in its turn: what is served is the one after the last.
THEOREM HandledInOrder == Spec => InOrder
<1>1. GateInv /\ AllOrdered /\ [Next]_vars
        => [\A c \in Conns : done'[c] = IF Serve(c) THEN done[c] + 1 ELSE done[c]]_vars
  BY OrderStep
<1> QED BY <1>1, OrderAlways, PTL DEF Spec, InOrder

-----------------------------------------------------------------------------
(***************************************************************************)
(* Keys.  What counts at the receiver's end is the key it is about to use. *)
(***************************************************************************)
Key(c) == IF At(c, "switching") THEN rx[c].exchange ELSE rx[c].key
Enc(c) == IF At(c, "switching") THEN 0 ELSE rx[c].encN
Dec(c) == IF At(c, "switching") THEN 0 ELSE rx[c].decN

\* The receiver has answered an M3 with a new key that the sender has not read of.
Announced(c) == tx[c].transient /\ down[c] # <<>> /\ Last(down[c]).status = "m4"

\* The responses on their way open, in turn, under the key the sender has.
Answers(c) ==
  /\ \A i \in 1..Len(down[c]) :
       /\ down[c][i].key = tx[c].key /\ down[c][i].n = tx[c].in + i - 1
       /\ down[c][i].id \in 1..done[c] /\ down[c][i].id <= tx[c].sent
       /\ down[c][i].status = "m4" => down[c][i].id = tx[c].waiting
  /\ \A i, j \in 1..Len(down[c]) : i < j => down[c][i].id < down[c][j].id

\* What is on the wire is under one key; blocks, under the counts to come.
Framed(wire, key, dec, out) ==
  IF key = Clear THEN \A k \in 1..Len(wire) : wire[k].key = Clear
  ELSE /\ dec <= out /\ Len(wire) = 2 * (out - dec)
       /\ \A j \in 1..(out - dec) :
            /\ ~ wire[2 * j - 1].whole /\ wire[2 * j].whole
            /\ wire[2 * j].key = key /\ wire[2 * j].n = dec + j - 1

IsM1(r) == r.kind \in {"m1", "m1 persistent"}

\* What the last M1 asked for is what the receiver will go by, if there is to
\* be an M3.
Agreed(parts, asked, got) ==
  /\ \A p \in parts :
       IsM1(p.req) /\ (\A q \in parts : IsM1(q.req) => q.req.id <= p.req.id)
         => asked = (p.req.kind = "m1")
  /\ (\A p \in parts : ~ IsM1(p.req)) => asked = got
Awaited(parts, alive) == alive \/ \E p \in parts : p.req.kind = "m3" /\ Completes(p)

Keyed(c) ==
  /\ ~ tx[c].lost
  /\ Answers(c)
  /\ tx[c].waiting \in {0, tx[c].sent}
  /\ \A p \in InFlight(c) : p.req.kind = "m3" => p.req.id = tx[c].waiting
  /\ Awaited(InFlight(c), tx[c].up) => Agreed(InFlight(c), tx[c].transient, rx[c].transient)
  /\ At(c, "switching") => rx[c].pending = <<>>
  /\ Announced(c) => /\ Key(c) = Last(down[c]).exchange /\ Enc(c) = 0 /\ Dec(c) = 0
                     /\ Wire(c) = <<>> /\ rx[c].plain = <<>> /\ tx[c].held = <<>>
  /\ ~ Announced(c) => /\ Key(c) = tx[c].key /\ Enc(c) = tx[c].in + Len(down[c])
                       /\ Framed(Wire(c), tx[c].key, Dec(c), tx[c].out)

KeyInv(c) == ~ tx[c].hasty => Keyed(c)
AllKeyed == \A c \in Conns : KeyInv(c)

-----------------------------------------------------------------------------
\* Blocks on the wire, as they are read, opened and added to.

LEMMA FramedRest ==
  ASSUME NEW P, NEW wire \in Seq(PiecesFrom(P)), wire # <<>>, NEW dec, NEW out,
         Framed(wire, Clear, dec, out)
  PROVE  Framed(Tail(wire), Clear, dec, out)
<1>1. /\ Len(Tail(wire)) = Len(wire) - 1 /\ Len(wire) \in Nat
      /\ \A i \in 1..Len(Tail(wire)) : Tail(wire)[i] = wire[i + 1]
  BY HeadTailProperties
<1>2. \A k \in 1..Len(wire) : wire[k].key = Clear
  BY DEF Framed
<1>3. \A k \in 1..Len(Tail(wire)) : k + 1 \in 1..Len(wire)
  BY <1>1
<1>4. \A k \in 1..Len(Tail(wire)) : Tail(wire)[k].key = Clear
  BY <1>1, <1>2, <1>3
<1> QED BY <1>4 DEF Framed

LEMMA FramedTwo ==
  ASSUME NEW P, NEW wire \in Seq(PiecesFrom(P)), Len(wire) >= 2, NEW key, key # Clear,
         NEW dec \in Nat, NEW out \in Nat, Framed(wire, key, dec, out)
  PROVE  Framed(SubSeq(wire, 3, Len(wire)), key, dec + 1, out)
<1> DEFINE rest == SubSeq(wire, 3, Len(wire))
<1>1. /\ Len(rest) = Len(wire) - 2 /\ Len(wire) \in Nat
      /\ \A k \in 1..Len(rest) : rest[k] = wire[k + 2]
  BY FromThird
<1> HIDE DEF rest
<1>2. /\ dec <= out /\ Len(wire) = 2 * (out - dec)
      /\ \A j \in 1..(out - dec) :
           /\ ~ wire[2 * j - 1].whole /\ wire[2 * j].whole
           /\ wire[2 * j].key = key /\ wire[2 * j].n = dec + j - 1
  BY DEF Framed
<1>3. dec + 1 <= out /\ Len(rest) = 2 * (out - (dec + 1))
  BY <1>1, <1>2
<1>4. ASSUME NEW j \in 1..(out - (dec + 1))
      PROVE  /\ ~ rest[2 * j - 1].whole /\ rest[2 * j].whole
             /\ rest[2 * j].key = key /\ rest[2 * j].n = dec + 1 + j - 1
  <2>1. /\ j + 1 \in 1..(out - dec) /\ 2 * j - 1 \in 1..Len(rest) /\ 2 * j \in 1..Len(rest)
        /\ 2 * j - 1 + 2 = 2 * (j + 1) - 1 /\ 2 * j + 2 = 2 * (j + 1)
        /\ dec + (j + 1) - 1 = dec + 1 + j - 1
    <3>1. \A m, d \in Nat : \A i \in 1..(m - 1) :
            /\ i + 1 \in 1..m /\ 2 * i - 1 \in 1..2 * (m - 1) /\ 2 * i \in 1..2 * (m - 1)
            /\ 2 * i - 1 + 2 = 2 * (i + 1) - 1 /\ 2 * i + 2 = 2 * (i + 1)
            /\ d + (i + 1) - 1 = d + 1 + i - 1
      OBVIOUS
    <3>2. out - dec \in Nat /\ out - (dec + 1) = out - dec - 1 /\ Len(rest) = 2 * (out - dec - 1)
      BY <1>2, <1>3
    <3> QED BY <3>1, <3>2
  <2>2. rest[2 * j - 1] = wire[2 * (j + 1) - 1] /\ rest[2 * j] = wire[2 * (j + 1)]
    BY <1>1, <2>1
  <2> QED BY <1>2, <2>1, <2>2
<1> QED BY <1>3, <1>4 DEF Framed, rest

LEMMA FramedMore ==
  ASSUME NEW P, NEW wire \in Seq(PiecesFrom(P)), NEW parts \in Seq(P),
         NEW key \in Nat, NEW dec \in Nat, NEW out \in Nat, Framed(wire, key, dec, out),
         NEW frame \in Seq(PiecesFrom(P)),
         frame = IF key = Clear THEN Bare(parts) ELSE Block(key, out, parts)
  PROVE  Framed(wire \o frame, key, dec, out + 1)
<1> DEFINE all == wire \o frame
<1>1. /\ Len(wire) \in Nat /\ Len(frame) \in Nat /\ Len(all) = Len(wire) + Len(frame)
      /\ \A k \in 1..Len(wire) : all[k] = wire[k]
      /\ \A k \in 1..Len(frame) : all[Len(wire) + k] = frame[k]
  BY SMTT(30), ConcatProperties
<1> HIDE DEF all
<1>2. CASE key = Clear
  <2>1. \A k \in 1..Len(frame) : frame[k].key = Clear
    <3>1. frame = [i \in 1..Len(parts) |-> Piece(Clear, 0, TRUE, <<parts[i]>>)]
          /\ Len(parts) \in Nat
      BY <1>2 DEF Bare
    <3>2. Len(frame) = Len(parts)
      BY <3>1
    <3> QED BY <3>1, <3>2 DEF Piece
  <2>2. \A k \in 1..Len(wire) : wire[k].key = Clear
    BY <1>2 DEF Framed
  <2>3. ASSUME NEW k \in 1..Len(all) PROVE all[k].key = Clear
    <3>1. CASE k \in 1..Len(wire)
      BY <1>1, <2>2, <3>1
    <3>2. CASE k > Len(wire)
      <4>1. k - Len(wire) \in 1..Len(frame) /\ Len(wire) + (k - Len(wire)) = k
        BY <1>1, <3>2
      <4> QED BY ZenonT(40), <1>1, <2>1, <4>1
    <3> QED BY <1>1, <3>1, <3>2
  <2> QED BY <1>2, <2>3 DEF Framed, all
<1>3. CASE key # Clear
  <2>1. /\ Len(frame) = 2 /\ ~ frame[1].whole /\ frame[2].whole
        /\ frame[2].key = key /\ frame[2].n = out
    BY <1>3 DEF Block, Piece
  <2>2. /\ dec <= out /\ Len(wire) = 2 * (out - dec)
        /\ \A j \in 1..(out - dec) :
             /\ ~ wire[2 * j - 1].whole /\ wire[2 * j].whole
             /\ wire[2 * j].key = key /\ wire[2 * j].n = dec + j - 1
    BY <1>3 DEF Framed
  <2>3. dec <= out + 1 /\ Len(all) = 2 * (out + 1 - dec)
    <3>1. Len(all) = 2 * (out - dec) + 2
      BY <1>1, <2>1, <2>2
    <3>2. 2 * (out - dec) + 2 = 2 * (out + 1 - dec) /\ dec <= out + 1
      BY <2>2
    <3> QED BY <3>1, <3>2
  <2>4. ASSUME NEW j \in 1..(out + 1 - dec)
        PROVE  /\ ~ all[2 * j - 1].whole /\ all[2 * j].whole
               /\ all[2 * j].key = key /\ all[2 * j].n = dec + j - 1
    <3>1. CASE j <= out - dec
      <4>1. j \in 1..(out - dec) /\ 2 * j - 1 \in 1..Len(wire) /\ 2 * j \in 1..Len(wire)
        BY <2>2, <3>1
      <4>2. all[2 * j - 1] = wire[2 * j - 1] /\ all[2 * j] = wire[2 * j]
        BY <1>1, <4>1
      <4> QED BY <2>2, <4>1, <4>2, SMTT(60)
    <3>2. CASE j = out + 1 - dec
      <4>1. 2 * j - 1 = Len(wire) + 1 /\ 2 * j = Len(wire) + 2 /\ dec + j - 1 = out
        BY <2>2, <3>2
      <4>2. all[Len(wire) + 1] = frame[1] /\ all[Len(wire) + 2] = frame[2]
        BY <1>1, <2>1, SMTT(60)
      <4>3. all[2 * j - 1] = frame[1] /\ all[2 * j] = frame[2]
        BY <4>1, <4>2
      <4> QED BY <2>1, <4>1, <4>3
    <3> QED BY <2>2, <3>1, <3>2
  <2> QED BY SMTT(30), <1>3, <2>3, <2>4 DEF Framed, all
<1> QED BY <1>2, <1>3

\* Nothing unhandled leaves nothing on the wire: no block is half empty.
LEMMA EmptyWire ==
  ASSUME NEW P, NEW plain \in Seq(P), NEW wire \in Seq(PiecesFrom(P)), Cut(wire),
         \A p : p \notin Unhandled(plain, wire)
  PROVE  plain = <<>> /\ wire = <<>>
<1>1. /\ Len(plain) \in Nat /\ Len(wire) \in Nat
      /\ (plain = <<>> <=> Len(plain) = 0) /\ (wire = <<>> <=> Len(wire) = 0)
  OBVIOUS
<1>2. Len(plain) = 0
  <2>1. Len(plain) > 0 => plain[1] \in Unhandled(plain, wire)
    BY <1>1, Whereabouts
  <2> QED BY <1>1, <2>1
<1>3. ASSUME NEW k \in 1..Len(wire) PROVE wire[k].parts = <<>>
  <2>1. wire[k] \in PiecesFrom(P)
    OBVIOUS
  <2>2. wire[k].parts \in Seq(P)
    BY <2>1 DEF PiecesFrom
  <2>3. wire[k].parts # <<>> => 1 \in 1..Len(wire[k].parts)
    BY <2>2
  <2>4. wire[k].parts # <<>> => wire[k].parts[1] \in Unhandled(plain, wire)
    <3> DEFINE p == wire[k].parts[1]
    <3>1. wire[k].parts # <<>> => \E l \in 1..Len(wire[k].parts) : p = wire[k].parts[l]
      BY <2>3
    <3> HIDE DEF p
    <3>2. wire[k].parts # <<>> => p \in Unhandled(plain, wire)
      BY <3>1, Whereabouts
    <3> QED BY <3>2 DEF p
  <2> QED BY <2>4
<1>4. Len(wire) = 0
  <2>1. SUFFICES ASSUME Len(wire) > 0 PROVE FALSE
    BY <1>1
  <2>2. 1 \in 1..Len(wire)
    BY <1>1, <2>1
  <2>3. ~ wire[1].whole
    BY <1>3, <2>2 DEF Cut
  <2>4. 2 \in 1..Len(wire) /\ wire[2].whole
    BY <1>1, <2>2, <2>3 DEF Cut
  <2> QED BY <1>3, <2>4 DEF Cut
<1> QED BY <1>1, <1>2, <1>4

\* What a request asks for is known by any part of it.
LEMMA AgreedSame ==
  ASSUME NEW more, NEW parts, parts \subseteq more,
         \A p \in more : \E q \in parts : q.req = p.req,
         NEW asked, NEW got, Agreed(more, asked, got)
  PROVE  Agreed(parts, asked, got)
<1>1. ASSUME NEW p \in parts, IsM1(p.req), \A q \in parts : IsM1(q.req) => q.req.id <= p.req.id
      PROVE  asked = (p.req.kind = "m1")
  <2>1. \A q \in more : IsM1(q.req) => q.req.id <= p.req.id
    BY <1>1
  <2> QED BY <1>1, <2>1 DEF Agreed
<1>2. (\A p \in parts : ~ IsM1(p.req)) => asked = got
  <2>1. (\A p \in parts : ~ IsM1(p.req)) => \A p \in more : ~ IsM1(p.req)
    OBVIOUS
  <2> QED BY <2>1 DEF Agreed
<1> QED BY <1>1, <1>2 DEF Agreed

LEMMA AwaitedMore ==
  ASSUME NEW more, NEW parts, parts \subseteq more, NEW alive, Awaited(parts, alive)
  PROVE  Awaited(more, alive)
BY DEF Awaited

-----------------------------------------------------------------------------
\* Both ends stay at the same key, connection by connection and step by step.

LEMMA OneKeyed ==
  ASSUME AllKeyed, NEW c \in Conns, Others(c), \A d \in Conns \ {c} : done'[d] = done[d],
         KeyInv(c)'
  PROVE  AllKeyed'
<1>1. ASSUME NEW d \in Conns \ {c} PROVE KeyInv(d)'
  <2>1. /\ rx'[d] = rx[d] /\ tx'[d] = tx[d] /\ up'[d] = up[d] /\ down'[d] = down[d]
        /\ done'[d] = done[d]
    BY DEF Others
  <2>2. Wire(d)' = Wire(d) /\ InFlight(d)' = InFlight(d) /\ At(d, "switching")' = At(d, "switching")
    BY <2>1 DEF Wire, OnWire, InFlight, At
  <2>3. /\ Key(d)' = Key(d) /\ Enc(d)' = Enc(d) /\ Dec(d)' = Dec(d)
        /\ Announced(d)' = Announced(d) /\ Answers(d)' = Answers(d)
    BY <2>1, <2>2 DEF Key, Enc, Dec, Announced, Answers
  <2>4. KeyInv(d)
    BY DEF AllKeyed
  <2> QED BY <2>1, <2>2, <2>3, <2>4 DEF KeyInv, Keyed
<1> QED BY <1>1 DEF AllKeyed

\* A step that answers nothing and leaves the keys as they are.
LEMMA KeyedMove ==
  ASSUME NEW c, Keyed(c), down'[c] = down[c], done'[c] = done[c],
         tx'[c].lost = tx[c].lost, tx'[c].key = tx[c].key,
         tx'[c].in = tx[c].in, tx'[c].sent = tx[c].sent, tx'[c].waiting = tx[c].waiting,
         tx'[c].transient = tx[c].transient, rx'[c].transient = rx[c].transient,
         InFlight(c)' \subseteq InFlight(c),
         Awaited(InFlight(c)', tx'[c].up) => Agreed(InFlight(c)', tx[c].transient, rx[c].transient),
         At(c, "switching")' => rx'[c].pending = <<>>,
         Key(c)' = Key(c), Enc(c)' = Enc(c),
         Announced(c) => /\ Dec(c)' = Dec(c) /\ Wire(c)' = Wire(c) /\ rx'[c].plain = rx[c].plain
                         /\ tx'[c].held \in {tx[c].held, <<>>},
         ~ Announced(c) => Framed(Wire(c)', tx[c].key, Dec(c)', tx'[c].out)
  PROVE  Keyed(c)'
<1>1. Answers(c)'
  BY DEF Keyed, Answers
<1>2. Announced(c)' <=> Announced(c)
  BY DEF Announced
<1>3. /\ ~ tx'[c].lost /\ tx'[c].waiting \in {0, tx'[c].sent}
      /\ \A p \in InFlight(c)' : p.req.kind = "m3" => p.req.id = tx'[c].waiting
  BY DEF Keyed
<1>4. (Awaited(InFlight(c), tx[c].up) => Agreed(InFlight(c), tx[c].transient, rx[c].transient))'
  OBVIOUS
<1>5. Announced(c)' => /\ Key(c)' = Last(down'[c]).exchange /\ Enc(c)' = 0 /\ Dec(c)' = 0
                       /\ Wire(c)' = <<>> /\ rx'[c].plain = <<>> /\ tx'[c].held = <<>>
  BY <1>2 DEF Keyed
<1>6. ~ Announced(c)' => /\ Key(c)' = tx'[c].key /\ Enc(c)' = tx'[c].in + Len(down'[c])
                         /\ Framed(Wire(c)', tx'[c].key, Dec(c)', tx'[c].out)
  BY <1>2 DEF Keyed
<1> QED BY <1>1, <1>3, <1>4, <1>5, <1>6 DEF Keyed

LEMMA KeyQuiet ==
  ASSUME GateInv, AllOrdered, AllKeyed, NEW c \in Conns, Accept(c) \/ Switch(c)
  PROVE  AllKeyed'
<1>1. rx[c] \in ReceiverOf(c) /\ tx[c] \in SendersOf(c)
  BY DEF GateInv, Typed
<1>2. Wire(c)' = Wire(c) /\ InFlight(c)' = InFlight(c) /\ done' = done /\ rx'[c].plain = rx[c].plain
  BY OrderQuiet
<1>3. /\ down' = down /\ rx'[c].pending = rx[c].pending /\ rx'[c].transient = rx[c].transient
      /\ tx'[c].lost = tx[c].lost /\ tx'[c].key = tx[c].key /\ tx'[c].out = tx[c].out
      /\ tx'[c].in = tx[c].in /\ tx'[c].sent = tx[c].sent /\ tx'[c].waiting = tx[c].waiting
      /\ tx'[c].transient = tx[c].transient /\ tx'[c].hasty = tx[c].hasty
      /\ tx'[c].up = tx[c].up /\ tx'[c].held = tx[c].held
      /\ At(c, "switching")' => At(c, "switching")
      /\ Key(c)' = Key(c) /\ Enc(c)' = Enc(c) /\ Dec(c)' = Dec(c)
  <2>1. CASE Accept(c)
    BY <1>1, <2>1 DEF Accept, Rx, GateInv, Shape, ReceiverOf, At, Key, Enc, Dec
  <2>2. CASE Switch(c)
    BY <1>1, <2>2 DEF Switch, Rx, GateInv, Shape, ReceiverOf, At, Key, Enc, Dec
  <2> QED BY <2>1, <2>2
<1>4. Others(c)
  BY DEF Others, GateInv, Shape, Rx, Accept, Switch
<1>5. ASSUME Keyed(c) PROVE Keyed(c)'
  <2>1. Awaited(InFlight(c)', tx'[c].up) => Agreed(InFlight(c)', tx[c].transient, rx[c].transient)
    BY <1>2, <1>3, <1>5 DEF Keyed
  <2>2. down'[c] = down[c] /\ done'[c] = done[c]
    BY <1>2, <1>3
  <2>3. At(c, "switching")' => rx'[c].pending = <<>>
    BY <1>3, <1>5 DEF Keyed
  <2>4. ~ Announced(c) => Framed(Wire(c)', tx[c].key, Dec(c)', tx'[c].out)
    BY <1>2, <1>3, <1>5 DEF Keyed
  <2> QED BY <1>2, <1>3, <1>5, <2>1, <2>2, <2>3, <2>4, KeyedMove
<1>6. KeyInv(c)'
  BY <1>3, <1>5 DEF AllKeyed, KeyInv
<1> QED BY <1>2, <1>4, <1>6, OneKeyed

\* Reading moves blocks that open in turn, or pieces in the clear.
LEMMA KeyRead ==
  ASSUME GateInv, AllOrdered, AllKeyed, NEW c \in Conns, ReadClear(c) \/ ReadCipher(c)
  PROVE  AllKeyed'
<1>1. rx[c] \in ReceiverOf(c) /\ Wire(c) \in Seq(PiecesFrom(PartsOf(c)))
  BY OrderTyped DEF GateInv, Typed
<1>2. /\ InFlight(c)' = InFlight(c) /\ UNCHANGED <<tx, down, done>>
  BY OrderReadClear, OrderReadCipher
<1>3. At(c, "reading")
  BY DEF ReadClear, ReadCipher
<1>4. /\ rx'[c].transient = rx[c].transient /\ rx'[c].pc = rx[c].pc
      /\ rx'[c].key = rx[c].key /\ rx'[c].encN = rx[c].encN /\ rx'[c].decN = rx[c].decN
      /\ ReadCipher(c) => rx'[c].plain = rx[c].plain
  <2>1. CASE ReadClear(c)
    <3>1. rx'[c] = [rx[c] EXCEPT !.plain = Wire(c)[1].parts]
      BY <2>1, OrderReadClear
    <3>2. ReadCipher(c) => rx[c].key # Clear
      BY DEF ReadCipher, Encrypted
    <3>3. rx[c].key = Clear
      BY <2>1 DEF ReadClear, Encrypted
    <3> QED BY <1>1, <3>1, <3>2, <3>3 DEF ReceiverOf
  <2>2. CASE ReadCipher(c)
    <3>1. PICK more : rx'[c] = [rx[c] EXCEPT !.pending = more]
      BY <2>2, OrderReadCipher
    <3> QED BY <1>1, <3>1 DEF ReceiverOf
  <2> QED BY <2>1, <2>2
<1>5. /\ Key(c)' = Key(c) /\ Enc(c)' = Enc(c) /\ Dec(c)' = Dec(c) /\ Key(c) = rx[c].key
      /\ ~ At(c, "switching")'
  BY <1>3, <1>4 DEF Key, Enc, Dec, At
<1>6. Others(c)
  BY DEF Others, GateInv, Shape, Rx, ReadClear, ReadCipher
<1>7. ASSUME Keyed(c) PROVE Keyed(c)'
  <2>1. Awaited(InFlight(c)', tx'[c].up) => Agreed(InFlight(c)', tx[c].transient, rx[c].transient)
    BY <1>2, <1>7 DEF Keyed
  <2>2. Announced(c) => ReadCipher(c)
    BY <1>7, OrderReadClear DEF Keyed
  <2>3. ReadCipher(c) => Wire(c)' = Wire(c)
    BY OrderReadCipher
  <2>4. ~ Announced(c) => Framed(Wire(c)', tx[c].key, Dec(c)', tx[c].out)
    <3>1. SUFFICES ASSUME ReadClear(c), ~ Announced(c)
                   PROVE  Framed(Wire(c)', tx[c].key, Dec(c)', tx[c].out)
      BY <1>5, <1>7, <2>3 DEF Keyed
    <3>2. tx[c].key = Clear
      BY <1>5, <1>7, <3>1 DEF Keyed, ReadClear, Encrypted
    <3>3. Framed(Wire(c), Clear, Dec(c), tx[c].out)
      BY <1>7, <3>1, <3>2 DEF Keyed
    <3>4. Wire(c) # <<>> /\ Wire(c)' = Tail(Wire(c))
      BY <3>1, OrderReadClear
    <3>5. Framed(Tail(Wire(c)), Clear, Dec(c), tx[c].out)
      BY <1>1, <3>3, <3>4, FramedRest
    <3> QED BY <1>5, <3>2, <3>4, <3>5
  <2> QED BY <1>2, <1>4, <1>5, <1>7, <2>1, <2>2, <2>3, <2>4, KeyedMove
<1>8. KeyInv(c)'
  BY <1>2, <1>7 DEF AllKeyed, KeyInv
<1> QED BY <1>2, <1>6, <1>8, OneKeyed

LEMMA KeyDecrypt ==
  ASSUME GateInv, AllOrdered, AllKeyed, NEW c \in Conns, Decrypt(c)
  PROVE  AllKeyed'
<1>1. /\ rx[c] \in ReceiverOf(c) /\ Wire(c) \in Seq(PiecesFrom(PartsOf(c)))
      /\ tx[c].out \in Nat /\ rx[c].decN \in Nat
  BY OrderTyped DEF GateInv, Typed, SendersOf, ReceiverOf
<1>2. /\ At(c, "reading") /\ Encrypted(c) /\ Len(Wire(c)) >= 2
      /\ Wire(c)' = SubSeq(Wire(c), 3, Len(Wire(c))) /\ InFlight(c)' = InFlight(c)
      /\ UNCHANGED <<tx, down, done>>
  BY OrderDecrypt
<1>3. /\ rx'[c].transient = rx[c].transient /\ rx'[c].pc = rx[c].pc
      /\ rx'[c].key = rx[c].key /\ rx'[c].encN = rx[c].encN /\ rx'[c].decN = rx[c].decN + 1
  <2>1. PICK more, rest : rx'[c] = [rx[c] EXCEPT !.plain = more, !.decN = rx[c].decN + 1,
                                                 !.pending = rest]
    BY OrderDecrypt
  <2> QED BY <1>1, <2>1 DEF ReceiverOf
<1>4. /\ Key(c)' = Key(c) /\ Enc(c)' = Enc(c) /\ Key(c) = rx[c].key
      /\ Dec(c) = rx[c].decN /\ Dec(c)' = rx[c].decN + 1 /\ ~ At(c, "switching")'
  BY <1>2, <1>3 DEF Key, Enc, Dec, At
<1>5. Others(c)
  BY DEF Others, GateInv, Shape, Rx, Decrypt
<1>6. ASSUME Keyed(c) PROVE Keyed(c)'
  <2>1. Awaited(InFlight(c)', tx'[c].up) => Agreed(InFlight(c)', tx[c].transient, rx[c].transient)
    BY <1>2, <1>6 DEF Keyed
  <2>2. ~ Announced(c)
    <3>1. Wire(c) # <<>>
      BY <1>1, <1>2
    <3> QED BY <1>6, <3>1 DEF Keyed
  <2>3. tx[c].key # Clear /\ Framed(Wire(c), tx[c].key, rx[c].decN, tx[c].out)
    BY <1>2, <1>4, <1>6, <2>2 DEF Keyed, Encrypted
  <2>4. Framed(Wire(c)', tx[c].key, Dec(c)', tx[c].out)
    BY <1>1, <1>2, <1>4, <2>3, FramedTwo
  <2> QED BY <1>2, <1>3, <1>4, <1>6, <2>1, <2>2, <2>4, KeyedMove
<1>7. KeyInv(c)'
  BY <1>2, <1>6 DEF AllKeyed, KeyInv
<1> QED BY <1>2, <1>5, <1>7, OneKeyed

\* A part that is taken is not forgotten unless its sender broke off there.
LEMMA KeyReadHead ==
  ASSUME GateInv, AllOrdered, AllKeyed, NEW c \in Conns, ReadHead(c)
  PROVE  AllKeyed'
<1> DEFINE p == Incoming(c)
<1>1. /\ At(c, "reading") /\ rx[c].plain # <<>>
      /\ \A q \in InFlight(c)' : Rank(p) < Rank(q)
      /\ Wire(c)' = Wire(c) /\ InFlight(c) = InFlight(c)' \union {p}
      /\ UNCHANGED <<tx, down, done>> /\ AllOrdered'
  BY OrderReadHead
<1>2. rx[c] \in ReceiverOf(c) /\ rx[c].plain \in Seq(PartsOf(c)) /\ p = Head(rx[c].plain)
  BY OrderTyped DEF GateInv, Typed, Incoming
<1> HIDE DEF p
<1>3. /\ rx'[c].transient = rx[c].transient /\ rx'[c].pc = rx[c].pc
      /\ rx'[c].key = rx[c].key /\ rx'[c].encN = rx[c].encN /\ rx'[c].decN = rx[c].decN
  <2>1. PICK rest : rx'[c] = [rx[c] EXCEPT !.plain = rest, !.head = TRUE]
    BY OrderReadHead
  <2> QED BY <1>2, <2>1 DEF ReceiverOf
<1>4. /\ Key(c)' = Key(c) /\ Enc(c)' = Enc(c) /\ Dec(c)' = Dec(c) /\ ~ At(c, "switching")'
  BY <1>1, <1>3 DEF Key, Enc, Dec, At
<1>5. Others(c)
  BY DEF Others, GateInv, Shape, Rx, ReadHead
<1>6. ASSUME NEW q \in InFlight(c)' PROVE q.req.id >= p.req.id /\ q.req.id \in Nat /\ p.req.id \in Nat
  <2>1. q \in InFlight(c) /\ p \in InFlight(c)
    BY <1>1
  <2>2. q.req.id \in Nat /\ p.req.id \in Nat
    BY <2>1, OrderTyped
  <2>3. Rank(p) < Rank(q)
    BY <1>1
  <2>4. /\ Rank(q) < 4 * (q.req.id + 1) /\ 4 * p.req.id <= Rank(p)
        /\ Rank(p) \in Nat /\ Rank(q) \in Nat
    <3>1. p.part \in 1..3 /\ q.part \in 1..3
      BY <2>1, OrderTyped
    <3> QED BY <2>2, <3>1, RankBounds
  <2>5. \A a, b, m, n \in Nat : m < n /\ n < 4 * (b + 1) /\ 4 * a <= m => b >= a
    OBVIOUS
  <2> QED BY <2>2, <2>3, <2>4, <2>5
<1>7. /\ p.req.id \in (done[c] + 1)..tx[c].sent /\ p.req.id \in Nat /\ tx[c].sent \in Nat
      /\ \A q \in InFlight(c)' : q.req.id <= tx[c].sent
      /\ \A q \in InFlight(c)' : q.req.id = p.req.id => q.req = p.req
  <2>1. Complete(InFlight(c), done[c], tx[c].sent, tx[c].up) /\ done[c] \in Nat
    BY DEF AllOrdered, OrderInv
  <2>2. p \in InFlight(c) /\ InFlight(c)' \subseteq InFlight(c) /\ tx[c].sent \in Nat
        /\ p.req.id \in Nat
    BY <1>1, OrderTyped
  <2> QED BY <2>1, <2>2 DEF Complete
<1>8. Awaited(InFlight(c)', tx[c].up) => \E q \in InFlight(c)' : q.req = p.req
  <2> SUFFICES ASSUME Awaited(InFlight(c)', tx[c].up)
               PROVE  \E q \in InFlight(c)' : q.req.id = p.req.id
    BY <1>7
  <2>1. Complete(InFlight(c)', done[c], tx[c].sent, tx[c].up)
    BY <1>1 DEF AllOrdered, OrderInv
  <2>2. \/ \E q \in InFlight(c)' : q.req.id = p.req.id
        \/ ~ tx[c].up /\ \A q \in InFlight(c)' : Completes(q) => q.req.id < p.req.id
    BY <1>7, <2>1 DEF Complete
  <2>3. \A q \in InFlight(c)' : ~ (q.req.id < p.req.id)
    BY <1>6
  <2> QED BY <2>2, <2>3 DEF Awaited
<1>9. ASSUME Keyed(c) PROVE Keyed(c)'
  <2>1. Awaited(InFlight(c), tx[c].up) => Agreed(InFlight(c), tx[c].transient, rx[c].transient)
    BY <1>9 DEF Keyed
  <2>2. Awaited(InFlight(c)', tx[c].up) => Agreed(InFlight(c)', tx[c].transient, rx[c].transient)
    <3> SUFFICES ASSUME Awaited(InFlight(c)', tx[c].up)
                 PROVE  Agreed(InFlight(c)', tx[c].transient, rx[c].transient)
      OBVIOUS
    <3>1. InFlight(c)' \subseteq InFlight(c)
          /\ \A s \in InFlight(c) : \E q \in InFlight(c)' : q.req = s.req
      BY <1>1, <1>8
    <3> QED BY <2>1, <3>1, AgreedSame, AwaitedMore
  <2>3. ~ Announced(c)
    BY <1>1, <1>9 DEF Keyed
  <2>4. Framed(Wire(c)', tx[c].key, Dec(c)', tx[c].out)
    BY <1>1, <1>4, <1>9, <2>3 DEF Keyed
  <2>5. InFlight(c)' \subseteq InFlight(c)
    BY <1>1
  <2> QED BY <1>1, <1>3, <1>4, <1>9, <2>2, <2>3, <2>4, <2>5, KeyedMove
<1>10. KeyInv(c)'
  BY <1>1, <1>9 DEF AllKeyed, KeyInv
<1> QED BY <1>1, <1>5, <1>10, OneKeyed

\* What serving a request does at the receiver's end.
LEMMA ServeChanges ==
  ASSUME GateInv, NEW c \in Conns, Serve(c)
  PROVE  LET p == Incoming(c)
             q == Paired(c, p.req)
             status == Status(c, p.req)
             a == [id |-> p.req.id, status |-> status, exchange |-> q.exchange,
                   key |-> rx[c].key, n |-> rx[c].encN]
         IN  /\ rx'[c].key = rx[c].key /\ rx'[c].encN = rx[c].encN + 1
             /\ rx'[c].decN = rx[c].decN /\ rx'[c].pending = rx[c].pending
             /\ rx'[c].exchange = q.exchange /\ rx'[c].transient = q.transient
             /\ At(c, "switching")' <=> status = "m4" /\ q.transient
             /\ down'[c] = Append(down[c], a) /\ a \in Responses
             /\ p \in PartsOf(c) /\ p.req.kind # "garbled" /\ q.transient \in BOOLEAN
             /\ rx'[c].plain = Tail(rx[c].plain) /\ At(c, "reading") /\ rx[c].plain # <<>>
<1> DEFINE p == Incoming(c)
           q == Paired(c, p.req)
           status == Status(c, p.req)
           switches == status = "m4" /\ q.transient
           to == IF switches THEN "switching" ELSE "reading"
           rest == Tail(rx[c].plain)
           n == rx[c].encN + 1
           r == [q EXCEPT !.plain = rest, !.head = FALSE, !.encN = n, !.pc = to]
           a == [id |-> p.req.id, status |-> status, exchange |-> q.exchange,
                 key |-> rx[c].key, n |-> rx[c].encN]
<1>1. rx[c] \in ReceiverOf(c) /\ rx[c].plain \in Seq(PartsOf(c)) /\ p = Head(rx[c].plain)
      /\ down[c] \in Seq(Responses)
  BY OrderTyped DEF GateInv, Typed, Incoming
<1>2. /\ q \in ReceiverOf(c)
      /\ q.key = rx[c].key /\ q.encN = rx[c].encN /\ q.decN = rx[c].decN
      /\ q.plain = rx[c].plain /\ q.pending = rx[c].pending
  <2>1. q = rx[c] \/ \E e \in Nat, t \in BOOLEAN :
          q = [rx[c] EXCEPT !.made = e, !.exchange = e, !.transient = t]
    <3>1. rx[c].made + 1 \in Nat /\ (p.req.kind = "m1") \in BOOLEAN
      BY <1>1 DEF ReceiverOf
    <3>2. q = rx[c] \/ q = [rx[c] EXCEPT !.made = rx[c].made + 1,
                              !.exchange = rx[c].made + 1, !.transient = p.req.kind = "m1"]
      BY DEF Paired
    <3> QED BY <3>1, <3>2
  <2> HIDE DEF q
  <2> QED BY ZenonT(40), <1>1, <2>1 DEF ReceiverOf
<1>3. /\ At(c, "reading") /\ rx[c].plain # <<>> /\ Rx(c, r)
      /\ down' = [down EXCEPT ![c] = Append(down[c], a)] /\ p.req.kind # "garbled"
  BY <1>2 DEF Serve, Reading, GateInv, Shape
<1>4. p \in PartsOf(c)
  BY <1>1, <1>3, HeadTailProperties
<1>5. q.transient \in BOOLEAN
  BY <1>2 DEF ReceiverOf
<1>6. a \in Responses
  <2>1. status \in {"m2", "m4", "ok", "failed", "forbidden"}
    BY <1>3, <1>4 DEF Status, PartsOf, RequestsOf, AllRequests, AllKinds
  <2>2. p.req.id \in Nat /\ q.exchange \in Nat /\ rx[c].key \in Nat /\ rx[c].encN \in Nat
    BY <1>1, <1>2, <1>4 DEF ReceiverOf, PartsOf, RequestsOf, AllRequests
  <2> HIDE DEF status, q, p
  <2> QED BY <2>1, <2>2 DEF Responses
<1>7. to = "switching" <=> switches
  OBVIOUS
<1> HIDE DEF q, a, p, status, to, rest, n
<1>8. /\ r.key = rx[c].key /\ r.encN = n /\ r.decN = rx[c].decN
      /\ r.pending = rx[c].pending /\ r.exchange = q.exchange /\ r.transient = q.transient
      /\ r.pc = to /\ r.plain = rest
  BY <1>2 DEF ReceiverOf
<1>9. rx'[c] = r /\ down'[c] = Append(down[c], a)
  BY <1>3, Changes DEF GateInv, Shape
<1> HIDE DEF r
<1>10. At(c, "switching")' <=> switches
  BY <1>7, <1>8, <1>9 DEF At
<1>11. rx'[c].encN = rx[c].encN + 1 /\ rx'[c].plain = Tail(rx[c].plain)
  BY <1>8, <1>9 DEF n, rest
<1> QED BY <1>3, <1>4, <1>5, <1>6, <1>8, <1>9, <1>10, <1>11 DEF a, p, q, status

\* A proof accepted is the last thing on the connection.
LEMMA KeyServe ==
  ASSUME GateInv, AllOrdered, AllKeyed, NEW c \in Conns, Serve(c)
  PROVE  AllKeyed'
<1> DEFINE p == Incoming(c)
           q == Paired(c, p.req)
           status == Status(c, p.req)
           a == [id |-> p.req.id, status |-> status, exchange |-> q.exchange,
                 key |-> rx[c].key, n |-> rx[c].encN]
           switches == status = "m4" /\ q.transient
           D == down[c]
<1>1. /\ rx'[c].key = rx[c].key /\ rx'[c].encN = rx[c].encN + 1
      /\ rx'[c].decN = rx[c].decN /\ rx'[c].pending = rx[c].pending
      /\ rx'[c].exchange = q.exchange /\ rx'[c].transient = q.transient
      /\ (At(c, "switching")' <=> switches)
      /\ down'[c] = Append(D, a) /\ a \in Responses
      /\ p \in PartsOf(c) /\ p.req.kind # "garbled" /\ q.transient \in BOOLEAN
      /\ rx'[c].plain = Tail(rx[c].plain) /\ At(c, "reading") /\ rx[c].plain # <<>>
  BY ServeChanges
<1>2. /\ p.req.id = done[c] + 1 /\ done[c] + 1 <= tx[c].sent
      /\ Wire(c)' = Wire(c) /\ InFlight(c) = InFlight(c)' \union {p} /\ AllOrdered'
      /\ done' = [done EXCEPT ![c] = done[c] + 1]
  BY OrderServe
<1>3. /\ done[c] \in Nat /\ done'[c] = done[c] + 1 /\ \A d \in Conns \ {c} : done'[d] = done[d]
  BY <1>2 DEF AllOrdered
<1>4. tx' = tx /\ Others(c)
  BY DEF Serve, Others, GateInv, Shape, Rx
<1>5. /\ tx[c] \in SendersOf(c) /\ tx[c].sent \in Nat /\ D \in Seq(Responses) /\ Len(D) \in Nat
      /\ tx[c].in \in Nat /\ tx[c].transient \in BOOLEAN /\ rx[c].transient \in BOOLEAN
      /\ Wire(c) \in Seq(PiecesFrom(PartsOf(c))) /\ rx[c].plain \in Seq(PartsOf(c))
      /\ rx[c].pending \in Seq(PiecesFrom(PartsOf(c))) /\ up[c] \in Seq(PiecesFrom(PartsOf(c)))
  BY SMTT(30), OrderTyped DEF GateInv, Typed, SendersOf, ReceiverOf
<1>6. /\ q = rx[c] \/ IsM1(p.req)
      /\ IsM1(p.req) => q.transient = (p.req.kind = "m1")
      /\ (status = "m4" => p.req.kind = "m3" /\ q = rx[c])
  <2>1. q = rx[c] \/ IsM1(p.req)
    BY DEF Paired, IsM1
  <2>2. IsM1(p.req) => q.transient = (p.req.kind = "m1")
    <3>1. IsM1(p.req) => q = [rx[c] EXCEPT !.made = @ + 1, !.exchange = rx[c].made + 1,
                                           !.transient = p.req.kind = "m1"]
      BY DEF Paired, IsM1
    <3>2. rx[c] \in ReceiverOf(c)
      BY DEF GateInv, Typed
    <3> HIDE DEF q
    <3> QED BY <3>1, <3>2 DEF ReceiverOf
  <2>3. status = "m4" => p.req.kind = "m3"
    BY <1>1 DEF Status, PartsOf, RequestsOf, AllRequests, AllKinds
  <2>4. p.req.kind = "m3" => ~ IsM1(p.req)
    BY DEF IsM1
  <2> QED BY <2>1, <2>2, <2>3, <2>4
<1>7. \A s \in InFlight(c)' : done[c] + 1 < s.req.id /\ s.req.id <= tx[c].sent /\ s.req.id \in Nat
  <2>1. Complete(InFlight(c)', done'[c], tx[c].sent, tx[c].up)
    BY <1>2, <1>4 DEF AllOrdered, OrderInv
  <2>2. InFlight(c)' \subseteq InFlight(c)
    BY <1>2
  <2>3. \A s \in InFlight(c) : s.req.id \in Nat
    BY OrderTyped
  <2> QED BY <1>3, <2>1, <2>2, <2>3 DEF Complete
<1>8. /\ Len(down'[c]) = Len(D) + 1 /\ down'[c][Len(D) + 1] = a /\ down'[c] # <<>>
      /\ \A i \in 1..Len(D) : down'[c][i] = D[i]
      /\ Last(down'[c]) = a
  <2> HIDE DEF a, D
  <2>1. /\ Append(D, a) \in Seq(Responses) /\ Append(D, a) # <<>>
        /\ Len(Append(D, a)) = Len(D) + 1 /\ Append(D, a)[Len(D) + 1] = a
        /\ \A i \in 1..Len(D) : Append(D, a)[i] = D[i]
    BY <1>1, <1>5, AppendProperties
  <2>2. down'[c] = Append(D, a)
    BY <1>1
  <2>3. Last(down'[c]) = a
    BY <2>1, <2>2 DEF Last
  <2> QED BY <2>1, <2>2, <2>3
<1>c. Completes(p)
  BY DEF Serve
<1>l. Len(down'[c]) = Len(D) + 1
  BY <1>8
<1>a. a.id = done[c] + 1 /\ a.key = rx[c].key /\ a.n = rx[c].encN /\ a.status = status
      /\ a.exchange = q.exchange
  BY <1>2
<1> HIDE DEF p, q, status, a, D
<1>9. ASSUME Keyed(c) PROVE Keyed(c)'
  <2>1. ~ Announced(c)
    BY <1>1, <1>9 DEF Keyed
  <2>2. /\ rx[c].key = tx[c].key /\ rx[c].encN = tx[c].in + Len(D)
        /\ Framed(Wire(c), tx[c].key, rx[c].decN, tx[c].out)
    BY <1>1, <1>9, <2>1 DEF Keyed, Key, Enc, Dec, At, D
  <2>3. p \in InFlight(c) /\ (p.req.kind = "m3" => p.req.id = tx[c].waiting)
    BY <1>2, <1>9 DEF Keyed
  <2>4. Answers(c)'
    <3>1. /\ \A i \in 1..Len(D) :
               /\ D[i].key = tx[c].key /\ D[i].n = tx[c].in + i - 1
               /\ D[i].id \in 1..done[c] /\ D[i].id <= tx[c].sent
               /\ D[i].status = "m4" => D[i].id = tx[c].waiting
          /\ \A i, j \in 1..Len(D) : i < j => D[i].id < D[j].id
      BY <1>9 DEF Keyed, Answers, D
    <3>2. ASSUME NEW i \in 1..Len(down'[c])
          PROVE  /\ down'[c][i].key = tx[c].key /\ down'[c][i].n = tx[c].in + i - 1
                 /\ down'[c][i].id \in 1..(done[c] + 1) /\ down'[c][i].id <= tx[c].sent
                 /\ down'[c][i].status = "m4" => down'[c][i].id = tx[c].waiting
      <4>1. CASE i \in 1..Len(D)
        <5>1. down'[c][i] = D[i]
          BY <1>8, <4>1
        <5>2. D[i].id \in 1..(done[c] + 1)
          BY <1>3, <3>1, <4>1
        <5> QED BY <3>1, <4>1, <5>1, <5>2
      <4>2. CASE i = Len(D) + 1
        <5>1. a.n = tx[c].in + i - 1
          BY <1>5, <1>a, <2>2, <4>2
        <5>2. a.id \in 1..(done[c] + 1) /\ a.id <= tx[c].sent
          BY <1>2, <1>3, <1>a
        <5>3. a.status = "m4" => a.id = tx[c].waiting
          BY <1>2, <1>6, <1>a, <2>3
        <5> QED BY <1>8, <1>a, <2>2, <4>2, <5>1, <5>2, <5>3
      <4> QED BY <1>5, <1>8, <4>1, <4>2
    <3>3. ASSUME NEW i \in 1..Len(down'[c]), NEW j \in 1..Len(down'[c]), i < j
          PROVE  down'[c][i].id < down'[c][j].id
      <4>1. i \in 1..Len(D)
        BY <1>5, <1>8, <3>3
      <4>2. CASE j \in 1..Len(D)
        BY <1>8, <3>1, <3>3, <4>1, <4>2
      <4>3. CASE j = Len(D) + 1
        <5>1. down'[c][i] = D[i] /\ down'[c][j] = a
          BY <1>8, <4>1, <4>3
        <5>2. D[i].id \in 1..done[c] /\ a.id = done[c] + 1
          BY <1>a, <3>1, <4>1
        <5> QED BY <1>3, <5>1, <5>2
      <4> QED BY <1>5, <1>8, <4>2, <4>3
    <3> QED BY <1>3, <1>4, <3>2, <3>3 DEF Answers
  <2>5. /\ ~ tx'[c].lost /\ tx'[c].waiting \in {0, tx'[c].sent}
        /\ \A s \in InFlight(c)' : s.req.kind = "m3" => s.req.id = tx'[c].waiting
    <3>1. InFlight(c)' \subseteq InFlight(c)
      BY <1>2
    <3> QED BY <1>4, <1>9, <3>1 DEF Keyed
  <2>6. Awaited(InFlight(c), tx[c].up) => Agreed(InFlight(c), tx[c].transient, rx[c].transient)
    BY <1>9 DEF Keyed
  <2>7. Awaited(InFlight(c)', tx[c].up) => Agreed(InFlight(c)', tx[c].transient, q.transient)
    <3> SUFFICES ASSUME Awaited(InFlight(c)', tx[c].up)
                 PROVE  Agreed(InFlight(c)', tx[c].transient, q.transient)
      OBVIOUS
    <3>a. Agreed(InFlight(c), tx[c].transient, rx[c].transient)
      <4>1. InFlight(c)' \subseteq InFlight(c)
        BY <1>2
      <4> QED BY <2>6, <4>1, AwaitedMore
    <3>1. ASSUME NEW s \in InFlight(c)', IsM1(s.req),
                 \A t \in InFlight(c)' : IsM1(t.req) => t.req.id <= s.req.id
          PROVE  tx[c].transient = (s.req.kind = "m1")
      <4>1. p.req.id <= s.req.id
        BY <1>2, <1>3, <1>7
      <4>2. \A t \in InFlight(c) : IsM1(t.req) => t.req.id <= s.req.id
        BY <1>2, <3>1, <4>1
      <4> QED BY <1>2, <3>a, <3>1, <4>2 DEF Agreed
    <3>2. ASSUME \A s \in InFlight(c)' : ~ IsM1(s.req)
          PROVE  tx[c].transient = q.transient
      <4>1. CASE IsM1(p.req)
        <5>1. \A t \in InFlight(c) : IsM1(t.req) => t = p
          BY <1>2, <3>2
        <5>2. p.req.id <= p.req.id
          BY <1>2, <1>3
        <5>3. tx[c].transient = (p.req.kind = "m1")
          BY <2>3, <3>a, <4>1, <5>1, <5>2 DEF Agreed
        <5> QED BY <1>6, <4>1, <5>3
      <4>2. CASE ~ IsM1(p.req)
        <5>1. \A t \in InFlight(c) : ~ IsM1(t.req)
          BY <1>2, <3>2, <4>2
        <5>2. tx[c].transient = rx[c].transient
          BY <2>3, <3>a, <5>1 DEF Agreed
        <5> QED BY <1>6, <4>2, <5>2
      <4> QED BY <4>1, <4>2
    <3> QED BY <3>1, <3>2 DEF Agreed
  <2>8. status = "m4" => /\ tx[c].transient = q.transient /\ tx[c].held = <<>>
                         /\ Wire(c) = <<>> /\ rx'[c].plain = <<>> /\ rx'[c].pending = <<>>
    <3> SUFFICES ASSUME status = "m4"
                 PROVE  /\ tx[c].transient = q.transient /\ tx[c].held = <<>>
                        /\ Wire(c) = <<>> /\ rx'[c].plain = <<>> /\ rx'[c].pending = <<>>
      OBVIOUS
    <3>1. p.req.kind = "m3" /\ q = rx[c] /\ p.req.id = tx[c].waiting
      BY <1>6, <2>3
    <3>2. p.req.id = tx[c].sent
      BY <1>2, <1>3, <1>9, <3>1 DEF Keyed
    <3>3. InFlight(c)' = {}
      <4>1. \A s \in InFlight(c)' : FALSE
        <5>1. done[c] + 1 = tx[c].sent
          BY <1>2, <3>2
        <5>2. \A x, y \in Nat : ~ (x < y /\ y <= x)
          OBVIOUS
        <5> QED BY <1>5, <1>7, <5>1, <5>2
      <4> QED BY <4>1
    <3>4. rx'[c].plain = <<>> /\ Wire(c)' = <<>>
      <4>1. rx'[c].plain \in Seq(PartsOf(c))
        BY <1>1, <1>5, HeadTailProperties
      <4>2. Cut(Wire(c))
        BY DEF AllOrdered, OrderInv
      <4>3. \A s : s \notin Unhandled(rx'[c].plain, Wire(c))
        BY <1>2, <3>3 DEF InFlight, OnWire
      <4> QED BY <1>2, <1>5, <4>1, <4>2, <4>3, EmptyWire
    <3>5. rx[c].pending = <<>>
      <4>1. Len(rx[c].pending \o up[c]) = Len(rx[c].pending) + Len(up[c])
            /\ Len(rx[c].pending) \in Nat /\ Len(up[c]) \in Nat
        BY <1>5, ConcatProperties
      <4>2. Len(rx[c].pending \o up[c]) = 0
        BY <1>2, <3>4 DEF Wire
      <4>n. \A x, y \in Nat : x + y = 0 => x = 0
        OBVIOUS
      <4>3. Len(rx[c].pending) = 0
        BY <4>1, <4>2, <4>n
      <4> QED BY <1>5, <4>3
    <3>6. tx[c].transient = rx[c].transient
      <4>1. \A s \in InFlight(c) : ~ IsM1(s.req)
        BY <1>2, <3>1, <3>3 DEF IsM1
      <4>2. Awaited(InFlight(c), tx[c].up)
        BY <1>c, <2>3, <3>1 DEF Awaited
      <4> QED BY <2>3, <2>6, <4>1, <4>2 DEF Agreed
    <3>7. tx[c].held = <<>>
      <4>1. ToSet(tx[c].held) = {}
        BY <1>4, <3>3 DEF InFlight
      <4>2. DOMAIN tx[c].held = 1..Len(tx[c].held) /\ Len(tx[c].held) \in Nat
            /\ (Len(tx[c].held) = 0 => tx[c].held = <<>>)
        BY OrderTyped
      <4>3. ~ (1 \in DOMAIN tx[c].held)
        BY <4>1 DEF ToSet
      <4> QED BY <4>2, <4>3
    <3> QED BY <1>1, <1>2, <3>1, <3>4, <3>5, <3>6, <3>7
  <2>9. Announced(c)' <=> switches
    <3>1. Announced(c)' <=> tx[c].transient /\ status = "m4"
      BY <1>4, <1>8, <1>a DEF Announced
    <3> QED BY <2>8, <3>1
  <2>10. At(c, "switching")' => rx'[c].pending = <<>>
    BY <1>1, <2>8
  <2>11. Announced(c)' => /\ Key(c)' = Last(down'[c]).exchange /\ Enc(c)' = 0 /\ Dec(c)' = 0
                          /\ Wire(c)' = <<>> /\ rx'[c].plain = <<>> /\ tx'[c].held = <<>>
    <3> SUFFICES ASSUME switches
                 PROVE  /\ Key(c)' = Last(down'[c]).exchange /\ Enc(c)' = 0 /\ Dec(c)' = 0
                        /\ Wire(c)' = <<>> /\ rx'[c].plain = <<>> /\ tx'[c].held = <<>>
      BY <2>9
    <3>1. At(c, "switching")'
      BY <1>1
    <3>2. Key(c)' = rx'[c].exchange /\ Enc(c)' = 0 /\ Dec(c)' = 0
      BY <3>1 DEF Key, Enc, Dec
    <3> QED BY <1>1, <1>2, <1>4, <1>8, <1>a, <2>8, <3>2
  <2>12. ~ Announced(c)' => /\ Key(c)' = tx'[c].key /\ Enc(c)' = tx'[c].in + Len(down'[c])
                            /\ Framed(Wire(c)', tx'[c].key, Dec(c)', tx'[c].out)
    <3> SUFFICES ASSUME ~ switches
                 PROVE  /\ Key(c)' = tx'[c].key /\ Enc(c)' = tx'[c].in + Len(down'[c])
                        /\ Framed(Wire(c)', tx'[c].key, Dec(c)', tx'[c].out)
      BY <2>9
    <3>1. ~ At(c, "switching")'
      BY <1>1
    <3>2. Key(c)' = rx[c].key /\ Enc(c)' = rx[c].encN + 1 /\ Dec(c)' = rx[c].decN
      BY <1>1, <3>1 DEF Key, Enc, Dec
    <3>3. rx[c].encN + 1 = tx[c].in + Len(down'[c])
      <4>1. rx[c].encN = tx[c].in + Len(D)
        BY <2>2
      <4>2. \A y, z \in Nat : (y + z) + 1 = y + (z + 1)
        OBVIOUS
      <4>3. tx[c].in \in Nat /\ Len(D) \in Nat
        BY <1>5
      <4>4. (tx[c].in + Len(D)) + 1 = tx[c].in + (Len(D) + 1)
        BY <4>2, <4>3
      <4> QED BY <1>l, <4>1, <4>4
    <3> QED BY <1>2, <1>4, <2>2, <3>2, <3>3
  <2>13. (Awaited(InFlight(c), tx[c].up)
            => Agreed(InFlight(c), tx[c].transient, rx[c].transient))'
    BY <1>1, <1>4, <2>7
  <2> HIDE DEF switches
  <2> QED BY <2>4, <2>5, <2>10, <2>11, <2>12, <2>13 DEF Keyed
<1>10. KeyInv(c)'
  BY <1>4, <1>9 DEF AllKeyed, KeyInv
<1> QED BY <1>3, <1>4, <1>10, OneKeyed

\* A sender that is not hasty has no proof unanswered when it asks for more.
LEMMA KeyAsk ==
  ASSUME GateInv, AllOrdered, AllKeyed, NEW c \in Conns, NEW kind \in Kinds[c], NEW r,
         r = Request(tx[c].sent + 1, kind, tx[c].exchange, c \in Knowing), Ask(c, kind)
  PROVE  AllKeyed'
<1> DEFINE new == ToSet(Parts(r))
           asked == IF kind \in {"m1", "m1 persistent"} THEN kind = "m1" ELSE tx[c].transient
           waiting == IF kind = "m3" THEN tx[c].sent + 1 ELSE tx[c].waiting
           hasty == tx[c].hasty \/ tx[c].waiting > 0
           sent == tx[c].sent + 1
           held == tx[c].held \o Parts(r)
           s == [tx[c] EXCEPT !.sent = sent, !.held = held, !.transient = asked,
                              !.waiting = waiting, !.hasty = hasty]
<1>1. /\ Wire(c)' = Wire(c) /\ InFlight(c)' = InFlight(c) \union new
  BY ZenonT(40), OrderAsk
<1>2. /\ tx[c] \in SendersOf(c) /\ tx[c].sent \in Nat /\ done[c] \in Nat /\ done[c] <= tx[c].sent
      /\ tx[c].key \in Nat /\ tx[c].waiting \in Nat /\ tx[c].exchange \in Nat
      /\ down[c] \in Seq(Responses)
      /\ tx[c].transient \in BOOLEAN /\ tx[c].hasty \in BOOLEAN
  BY OrderTyped DEF GateInv, Typed, SendersOf, ReceiverOf, AllOrdered, OrderInv, Ask, Open, At
<1>3. r.id = tx[c].sent + 1 /\ r.id \in Nat /\ r.kind = kind
  BY <1>2 DEF Request
<1>4. /\ Tx(c, s) /\ tx[c].up /\ UNCHANGED <<rx, up, down, done, served>>
  BY <1>3 DEF Ask, GateInv, Shape
<1>6. /\ \A p \in new : p.req = r
      /\ \E p \in new : TRUE
  <2>1. /\ Len(Parts(r)) = Size(r) /\ Size(r) \in 1..3
        /\ \A i \in 1..Size(r) : Parts(r)[i].req = r
    BY <1>3, AskedParts
  <2>2. DOMAIN Parts(r) = 1..Size(r)
    BY DEF Parts
  <2>3. 1 \in DOMAIN Parts(r)
    BY <2>1, <2>2
  <2>4. Parts(r)[1] \in new
    BY <2>3 DEF ToSet
  <2>5. \A p \in new : p.req = r
    BY <2>1, <2>2 DEF ToSet
  <2> QED BY <2>4, <2>5
<1> HIDE DEF new, asked, waiting, hasty, sent, held
<1>7. /\ tx'[c].sent = tx[c].sent + 1 /\ tx'[c].out = tx[c].out /\ tx'[c].up = tx[c].up
      /\ tx'[c].transient = asked /\ tx'[c].waiting = waiting /\ tx'[c].hasty = hasty
      /\ tx'[c].lost = tx[c].lost /\ tx'[c].key = tx[c].key /\ tx'[c].in = tx[c].in
  <2>1. tx'[c] = s
    BY <1>4 DEF Tx, GateInv, Shape
  <2>2. /\ s.sent = sent /\ s.out = tx[c].out /\ s.up = tx[c].up
        /\ s.transient = asked /\ s.waiting = waiting /\ s.hasty = hasty
        /\ s.lost = tx[c].lost /\ s.key = tx[c].key /\ s.in = tx[c].in
    BY <1>2 DEF SendersOf
  <2> HIDE DEF s
  <2> QED BY <2>1, <2>2 DEF sent
<1> HIDE DEF s
<1>8. Others(c)
  BY <1>4 DEF Others, GateInv, Shape, Tx
<1>9. ASSUME Keyed(c), ~ hasty PROVE Keyed(c)'
  <2>1. tx[c].waiting = 0
    BY <1>2, <1>9 DEF hasty
  <2>2. \A i \in 1..Len(down[c]) : down[c][i].status # "m4"
    <3>1. \A i \in 1..Len(down[c]) :
            down[c][i].id \in 1..done[c] /\ (down[c][i].status = "m4" => down[c][i].id = tx[c].waiting)
      BY <1>9, Zenon DEF Keyed, Answers
    <3>2. 0 \notin 1..done[c]
      BY <1>2
    <3> QED BY <2>1, <3>1, <3>2, Zenon
  <2>3. ~ Announced(c) /\ ~ Announced(c)'
    <3>1. down[c] # <<>> => Len(down[c]) \in 1..Len(down[c])
      BY <1>2
    <3>2. down[c] # <<>> => Last(down[c]).status # "m4"
      BY <2>2, <3>1 DEF Last
    <3>3. down' = down
      BY <1>4
    <3> QED BY <3>2, <3>3 DEF Announced
  <2>4. Answers(c)'
    <3>1. /\ \A i \in 1..Len(down[c]) :
               /\ down[c][i].key = tx[c].key /\ down[c][i].n = tx[c].in + i - 1
               /\ down[c][i].id \in 1..done[c] /\ down[c][i].id <= tx[c].sent + 1
          /\ \A i, j \in 1..Len(down[c]) : i < j => down[c][i].id < down[c][j].id
      <4>1. \A i \in 1..Len(down[c]) : down[c][i].id \in 1..done[c]
                                       /\ down[c][i].id <= tx[c].sent
        BY <1>9 DEF Keyed, Answers
      <4>2. \A i \in 1..Len(down[c]) : down[c][i].id <= tx[c].sent + 1
        BY SMTT(30), <1>2, <4>1
      <4> QED BY <1>9, <4>2 DEF Keyed, Answers
    <3>2. down' = down /\ done' = done
      BY <1>4
    <3> QED BY <1>7, <2>2, <3>1, <3>2 DEF Answers
  <2>5. ~ tx'[c].lost /\ tx'[c].waiting \in {0, tx'[c].sent}
    BY <1>7, <1>9, <2>1 DEF Keyed, waiting
  <2>6. \A p \in InFlight(c) : /\ p.req.kind # "m3" /\ p.req.id \in Nat
                               /\ p.req.id < r.id
    <3>1. \A p \in InFlight(c) : p.req.id \in Nat /\ done[c] < p.req.id /\ p.req.id <= tx[c].sent
      BY OrderTyped DEF AllOrdered, OrderInv, Complete
    <3>2. \A p \in InFlight(c) : p.req.kind = "m3" => p.req.id = 0
      BY <1>9, <2>1 DEF Keyed
    <3> QED BY <1>2, <1>3, <3>1, <3>2
  <2>7. \A p \in InFlight(c)' : p.req.kind = "m3" => p.req.id = tx'[c].waiting
    BY <1>1, <1>3, <1>6, <1>7, <2>6 DEF waiting
  <2>8. Agreed(InFlight(c)', asked, rx[c].transient)
    <3>1. Agreed(InFlight(c), tx[c].transient, rx[c].transient)
      BY <1>4, <1>9 DEF Keyed, Awaited
    <3>2. CASE IsM1(r)
      <4>1. asked = (r.kind = "m1")
        BY <1>3, <3>2 DEF IsM1, asked
      <4>2. ASSUME NEW p \in InFlight(c)',
                   \A q \in InFlight(c)' : IsM1(q.req) => q.req.id <= p.req.id
            PROVE  p.req = r
        <5>1. PICK q \in new : q.req = r
          BY <1>6
        <5>2. r.id <= p.req.id
          BY <1>1, <3>2, <4>2, <5>1
        <5>3. p \notin InFlight(c)
          BY <1>3, <2>6, <5>2
        <5> QED BY <1>1, <1>6, <5>3
      <4>3. \E p \in InFlight(c)' : IsM1(p.req)
        BY <1>1, <1>6, <3>2
      <4> QED BY <4>1, <4>2, <4>3 DEF Agreed
    <3>3. CASE ~ IsM1(r)
      <4>1. asked = tx[c].transient
        BY <1>3, <3>3 DEF IsM1, asked
      <4>2. \A p \in InFlight(c)' : IsM1(p.req) => p \in InFlight(c)
        BY <1>1, <1>6, <3>3
      <4>3. InFlight(c) \subseteq InFlight(c)'
        BY <1>1
      <4>4. ASSUME NEW p \in InFlight(c)', IsM1(p.req),
                   \A q \in InFlight(c)' : IsM1(q.req) => q.req.id <= p.req.id
            PROVE  asked = (p.req.kind = "m1")
        BY <3>1, <4>1, <4>2, <4>3, <4>4 DEF Agreed
      <4>5. (\A p \in InFlight(c)' : ~ IsM1(p.req)) => asked = rx[c].transient
        BY <1>4, <3>1, <4>1, <4>3 DEF Agreed
      <4> QED BY <4>4, <4>5 DEF Agreed
    <3> QED BY <3>2, <3>3
  <2>9. At(c, "switching")' => rx'[c].pending = <<>>
    BY <1>4, <1>9 DEF Keyed, At
  <2>10. /\ Key(c)' = tx'[c].key /\ Enc(c)' = tx'[c].in + Len(down'[c])
         /\ Framed(Wire(c)', tx'[c].key, Dec(c)', tx'[c].out)
    <3>1. /\ Key(c) = tx[c].key /\ Enc(c) = tx[c].in + Len(down[c])
          /\ Framed(Wire(c), tx[c].key, Dec(c), tx[c].out)
      BY <1>9, <2>3 DEF Keyed
    <3>2. Key(c)' = Key(c) /\ Enc(c)' = Enc(c) /\ Dec(c)' = Dec(c) /\ down' = down
      BY <1>4 DEF Key, Enc, Dec, At
    <3> QED BY <1>1, <1>7, <3>1, <3>2
  <2>11. Agreed(InFlight(c), tx[c].transient, rx[c].transient)'
    <3>1. rx' = rx
      BY <1>4
    <3> QED BY <1>7, <2>8, <3>1
  <2> QED BY <2>3, <2>4, <2>5, <2>7, <2>9, <2>10, <2>11 DEF Keyed
<1>10. KeyInv(c)'
  BY <1>2, <1>7, <1>9 DEF AllKeyed, KeyInv, hasty
<1>11. done' = done
  BY <1>4
<1> QED BY <1>8, <1>10, <1>11, OneKeyed

\* What is written goes out under the key and the count that are next.
LEMMA KeySend ==
  ASSUME GateInv, AllOrdered, AllKeyed, NEW c \in Conns, Send(c)
  PROVE  AllKeyed'
<1> DEFINE P == PartsOf(c)
           S == PiecesFrom(P)
<1>1. /\ InFlight(c)' = InFlight(c) /\ UNCHANGED <<rx, down, done>>
      /\ tx[c].held # <<>> /\ Others(c)
  BY OrderSend
<1>2. PICK now \in Seq(P), rest \in Seq(P), out \in Nat :
        /\ out = IF tx[c].key = Clear THEN tx[c].out ELSE tx[c].out + 1
        /\ Frame(c, now) \in Seq(S)
        /\ Wire(c)' = Wire(c) \o Frame(c, now)
        /\ tx'[c] = [tx[c] EXCEPT !.out = out, !.held = rest]
  BY OrderSend
<1>3. /\ tx[c] \in SendersOf(c) /\ tx[c].key \in Nat /\ tx[c].out \in Nat /\ Wire(c) \in Seq(S)
      /\ Dec(c) \in Nat
  BY OrderTyped DEF GateInv, Typed, SendersOf, ReceiverOf, Dec
<1>4. /\ tx'[c].lost = tx[c].lost /\ tx'[c].key = tx[c].key /\ tx'[c].in = tx[c].in
      /\ tx'[c].sent = tx[c].sent /\ tx'[c].waiting = tx[c].waiting /\ tx'[c].out = out
      /\ tx'[c].transient = tx[c].transient /\ tx'[c].hasty = tx[c].hasty /\ tx'[c].up = tx[c].up
  BY <1>2, <1>3 DEF SendersOf
<1>5. Key(c)' = Key(c) /\ Enc(c)' = Enc(c) /\ Dec(c)' = Dec(c)
      /\ (At(c, "switching")' <=> At(c, "switching"))
  BY <1>1 DEF Key, Enc, Dec, At
<1>6. ASSUME Keyed(c) PROVE Keyed(c)'
  <2>1. Awaited(InFlight(c)', tx'[c].up) => Agreed(InFlight(c)', tx[c].transient, rx[c].transient)
    BY <1>1, <1>4, <1>6 DEF Keyed
  <2>2. ~ Announced(c)
    BY <1>1, <1>6 DEF Keyed
  <2>3. Framed(Wire(c)', tx[c].key, Dec(c)', tx'[c].out)
    <3>1. Framed(Wire(c), tx[c].key, Dec(c), tx[c].out)
      BY <1>6, <2>2 DEF Keyed
    <3>2. Frame(c, now) = IF tx[c].key = Clear THEN Bare(now) ELSE Block(tx[c].key, tx[c].out, now)
      BY DEF Frame
    <3> HIDE DEF P, S
    <3>3. Framed(Wire(c) \o Frame(c, now), tx[c].key, Dec(c), tx[c].out + 1)
      BY <1>2, <1>3, <3>1, <3>2, FramedMore DEF S
    <3>4. Framed(Wire(c) \o Frame(c, now), tx[c].key, Dec(c), out)
      BY <1>2, <3>3 DEF Framed
    <3> QED BY <1>2, <1>4, <1>5, <3>4
  <2>4. At(c, "switching")' => rx'[c].pending = <<>>
    BY <1>1, <1>5, <1>6 DEF Keyed
  <2>5. /\ down'[c] = down[c] /\ done'[c] = done[c] /\ rx'[c].transient = rx[c].transient
        /\ InFlight(c)' \subseteq InFlight(c)
    BY <1>1
  <2> QED BY <1>4, <1>5, <1>6, <2>1, <2>2, <2>3, <2>4, <2>5, KeyedMove
<1>7. KeyInv(c)'
  BY <1>4, <1>6 DEF AllKeyed, KeyInv
<1> QED BY <1>1, <1>7, OneKeyed

\* A sender that hangs up with its proof on the wire had written all it made.
LEMMA KeyHangUp ==
  ASSUME GateInv, AllOrdered, AllKeyed, NEW c \in Conns, HangUp(c)
  PROVE  AllKeyed'
<1>1. /\ Wire(c)' = Wire(c) /\ InFlight(c)' = OnWire(c) /\ UNCHANGED <<rx, down, done>>
      /\ tx'[c] = [tx[c] EXCEPT !.up = FALSE, !.held = <<>>] /\ Others(c)
  BY OrderHangUp
<1>2. tx[c] \in SendersOf(c) /\ tx[c].sent \in Nat
      /\ DOMAIN tx[c].held = 1..Len(tx[c].held)
  BY OrderTyped DEF GateInv, Typed
<1>3. /\ tx'[c].lost = tx[c].lost /\ tx'[c].key = tx[c].key /\ tx'[c].in = tx[c].in
      /\ tx'[c].sent = tx[c].sent /\ tx'[c].waiting = tx[c].waiting /\ tx'[c].out = tx[c].out
      /\ tx'[c].transient = tx[c].transient /\ tx'[c].hasty = tx[c].hasty /\ tx'[c].up = FALSE
      /\ tx'[c].held = <<>>
  BY <1>1, <1>2 DEF SendersOf
<1>4. Key(c)' = Key(c) /\ Enc(c)' = Enc(c) /\ Dec(c)' = Dec(c)
      /\ (At(c, "switching")' <=> At(c, "switching"))
  BY <1>1 DEF Key, Enc, Dec, At
<1>5. InFlight(c)' \subseteq InFlight(c)
  BY <1>1 DEF InFlight
<1>6. ASSUME Keyed(c), NEW p \in OnWire(c), p.req.kind = "m3", Completes(p)
      PROVE  Agreed(OnWire(c), tx[c].transient, rx[c].transient)
  <2>1. p \in InFlight(c)
    BY DEF InFlight
  <2>2. /\ p.req.id \in Nat /\ p.part \in 1..3 /\ p.req.id = tx[c].sent
    <3>1. p.req.id \in Nat /\ p.part \in 1..3 /\ done[c] \in Nat /\ done[c] < p.req.id
      BY <2>1, OrderTyped DEF AllOrdered, OrderInv, Complete
    <3>2. p.req.id = tx[c].waiting /\ tx[c].waiting \in {0, tx[c].sent}
      BY <1>6, <2>1 DEF Keyed
    <3> QED BY <3>1, <3>2
  <2>3. ASSUME NEW q \in ToSet(tx[c].held) PROVE FALSE
    <3>1. q \in InFlight(c)
      BY DEF InFlight
    <3>2. q.req.id \in Nat /\ q.part \in 1..3 /\ q.req.id <= tx[c].sent /\ q.part <= Size(q.req)
      BY <3>1, OrderTyped DEF AllOrdered, OrderInv, Complete
    <3>3. Rank(p) < Rank(q)
      BY <1>2 DEF AllOrdered, OrderInv, Queued, ToSet
    <3>4. Rank(q) < 4 * (q.req.id + 1) /\ 4 * p.req.id <= Rank(p)
          /\ Rank(p) \in Nat /\ Rank(q) \in Nat
      BY <2>2, <3>2, RankBounds
    <3>5. q.req.id = p.req.id
      BY <1>2, <2>2, <3>2, <3>3, <3>4
    <3>6. q.req = p.req
      BY <2>1, <3>1, <3>5 DEF AllOrdered, OrderInv, Complete
    <3>7. p.part = Size(q.req)
      BY <1>6, <3>6 DEF Completes
    <3> QED BY <2>2, <3>2, <3>3, <3>5, <3>7 DEF Rank
  <2>4. OnWire(c) = InFlight(c)
    BY <2>3 DEF InFlight
  <2>5. Awaited(InFlight(c), tx[c].up)
    BY <1>6, <2>1 DEF Awaited
  <2> QED BY <1>6, <2>4, <2>5 DEF Keyed
<1>7. ASSUME Keyed(c) PROVE Keyed(c)'
  <2>1. Awaited(InFlight(c)', tx'[c].up) => Agreed(InFlight(c)', tx[c].transient, rx[c].transient)
    BY <1>1, <1>3, <1>6, <1>7 DEF Awaited
  <2>2. ~ Announced(c) => Framed(Wire(c)', tx[c].key, Dec(c)', tx'[c].out)
    BY <1>1, <1>3, <1>4, <1>7 DEF Keyed
  <2>3. At(c, "switching")' => rx'[c].pending = <<>>
    BY <1>1, <1>4, <1>7 DEF Keyed
  <2>4. /\ down'[c] = down[c] /\ done'[c] = done[c] /\ rx'[c].transient = rx[c].transient
        /\ rx'[c].plain = rx[c].plain
    BY <1>1
  <2> QED BY <1>1, <1>3, <1>4, <1>5, <1>7, <2>1, <2>2, <2>3, <2>4, KeyedMove
<1>8. KeyInv(c)'
  BY <1>3, <1>7 DEF AllKeyed, KeyInv
<1> QED BY <1>1, <1>8, OneKeyed

\* A response that opens at this end: a key announced is taken up.
LEMMA KeyHear ==
  ASSUME GateInv, AllOrdered, AllKeyed, NEW c \in Conns, ReadResponse(c)
  PROVE  AllKeyed'
<1> DEFINE a == Head(down[c])
           D == Tail(down[c])
           n == tx[c].in + 1
           waiting == IF a.id = tx[c].waiting THEN 0 ELSE tx[c].waiting
           takes == a.status = "m4" /\ tx[c].transient
<1>1. /\ Wire(c)' = Wire(c) /\ InFlight(c)' = InFlight(c) /\ done' = done
      /\ rx' = rx /\ down'[c] = D /\ tx'[c].held = tx[c].held
  BY OrderQuiet DEF ReadResponse, GateInv, Shape
<1>2. /\ tx[c] \in SendersOf(c) /\ tx[c].sent \in Nat /\ down[c] \in Seq(Responses)
      /\ tx[c].in \in Nat /\ tx[c].waiting \in Nat /\ down[c] # <<>> /\ a = down[c][1]
      /\ tx[c].transient \in BOOLEAN
  BY DEF GateInv, Typed, SendersOf, ReadResponse
<1>3. /\ Len(down[c]) \in Nat /\ Len(down[c]) >= 1 /\ D \in Seq(Responses)
      /\ Len(D) = Len(down[c]) - 1
      /\ \A i \in 1..Len(D) : D[i] = down[c][i + 1] /\ i + 1 \in 1..Len(down[c])
  BY <1>2, HeadTailProperties
<1>4. Others(c)
  BY DEF Others, GateInv, Shape, Tx, ReadResponse
<1>5. tx'[c].hasty = tx[c].hasty
  BY <1>2 DEF ReadResponse, Tx, GateInv, Shape, SendersOf
<1> HIDE DEF a, D
<1>6. ASSUME Keyed(c) PROVE Keyed(c)'
  <2>1. /\ \A i \in 1..Len(down[c]) :
             /\ down[c][i].key = tx[c].key /\ down[c][i].n = tx[c].in + i - 1
             /\ down[c][i].id \in 1..done[c] /\ down[c][i].id <= tx[c].sent
             /\ down[c][i].status = "m4" => down[c][i].id = tx[c].waiting
        /\ \A i, j \in 1..Len(down[c]) : i < j => down[c][i].id < down[c][j].id
    BY <1>6 DEF Keyed, Answers
  <2>2. 1 \in 1..Len(down[c])
    BY <1>3
  <2>3. /\ a.key = tx[c].key /\ a.n = tx[c].in /\ a.id \in Nat /\ a.id > 0 /\ a.id <= tx[c].sent
        /\ a.id <= done[c]
        /\ (a.status = "m4" => a.id = tx[c].waiting)
    <3>1. tx[c].in + 1 - 1 = tx[c].in
      BY <1>2
    <3>2. done[c] \in Nat
      BY DEF AllOrdered
    <3> QED BY <1>2, <2>1, <2>2, <3>1, <3>2
  <2>4. /\ tx'[c].lost = tx[c].lost /\ tx'[c].waiting = waiting /\ tx'[c].sent = tx[c].sent
        /\ tx'[c].transient = tx[c].transient /\ tx'[c].up = tx[c].up
        /\ takes => tx'[c].key = a.exchange /\ tx'[c].out = 0 /\ tx'[c].in = 0
        /\ ~ takes => tx'[c].key = tx[c].key /\ tx'[c].out = tx[c].out /\ tx'[c].in = n
    <3> DEFINE read == [tx[c] EXCEPT !.in = n, !.waiting = waiting]
    <3>1. tx'[c] = IF a.status = "m2" THEN [read EXCEPT !.exchange = a.exchange]
                   ELSE IF takes THEN [read EXCEPT !.key = a.exchange, !.out = 0, !.in = 0]
                   ELSE read
      BY <2>3 DEF ReadResponse, Tx, GateInv, Shape, a
    <3> HIDE DEF waiting, n
    <3>2. /\ read.lost = tx[c].lost /\ read.waiting = waiting /\ read.sent = tx[c].sent
          /\ read.transient = tx[c].transient /\ read.up = tx[c].up
          /\ read.key = tx[c].key /\ read.out = tx[c].out /\ read.in = n
          /\ read \in [up : BOOLEAN, key : {tx[c].key}, out : {tx[c].out}, in : {n},
                       sent : {tx[c].sent}, held : {tx[c].held}, exchange : {tx[c].exchange},
                       transient : {tx[c].transient}, waiting : {waiting},
                       hasty : {tx[c].hasty}, lost : {tx[c].lost}]
      BY <1>2 DEF SendersOf
    <3> HIDE DEF read
    <3>3. CASE a.status = "m2"
      BY <3>1, <3>2, <3>3
    <3>4. CASE a.status # "m2" /\ takes
      BY <3>1, <3>2, <3>4
    <3>5. CASE a.status # "m2" /\ ~ takes
      BY <3>1, <3>2, <3>5
    <3> QED BY <3>3, <3>4, <3>5
  <2>5. /\ ~ tx'[c].lost /\ tx'[c].waiting \in {0, tx'[c].sent}
    BY <1>6, <2>4 DEF Keyed, waiting
  <2>6. \A p \in InFlight(c)' : p.req.kind = "m3" => p.req.id = tx'[c].waiting
    <3> SUFFICES ASSUME NEW p \in InFlight(c), p.req.kind = "m3"
                 PROVE  p.req.id = waiting
      BY <1>1, <2>4
    <3>1. p.req.id = tx[c].waiting
      BY <1>6 DEF Keyed
    <3>2. done[c] < p.req.id /\ done[c] \in Nat /\ p.req.id \in Nat
      BY OrderTyped DEF AllOrdered, OrderInv, Complete
    <3>3. a.id # p.req.id
      BY <2>3, <3>2
    <3> QED BY <3>1, <3>3 DEF waiting
  <2>7. (Awaited(InFlight(c), tx[c].up)
           => Agreed(InFlight(c), tx[c].transient, rx[c].transient))'
    BY <1>1, <1>6, <2>4 DEF Keyed
  <2>8. At(c, "switching")' => rx'[c].pending = <<>>
    BY <1>1, <1>6 DEF Keyed, At
  <2>9. Key(c)' = Key(c) /\ Enc(c)' = Enc(c) /\ Dec(c)' = Dec(c)
    BY <1>1 DEF Key, Enc, Dec, At
  <2>10. takes => D = <<>> /\ Announced(c)
    <3> SUFFICES ASSUME takes PROVE D = <<>> /\ Announced(c)
      OBVIOUS
    <3>1. a.id = tx[c].sent
      BY <1>6, <2>3 DEF Keyed
    <3>2. Len(down[c]) = 1
      <4>0. \A x \in Nat : x >= 1 /\ ~ (x > 1) => x = 1
        OBVIOUS
      <4>1. SUFFICES ASSUME Len(down[c]) > 1 PROVE FALSE
        BY <1>3, <4>0
      <4>2. 2 \in 1..Len(down[c])
        BY <1>3, <4>1
      <4>3. down[c][1].id < down[c][2].id /\ down[c][2].id <= tx[c].sent
            /\ down[c][2].id \in 1..done[c]
        BY <2>1, <2>2, <4>2
      <4>4. done[c] \in Nat
        BY DEF AllOrdered
      <4> QED BY <1>2, <2>3, <3>1, <4>3, <4>4
    <3>3. Last(down[c]) = a
      BY <1>2, <3>2 DEF Last
    <3> QED BY <1>2, <1>3, <3>2, <3>3 DEF Announced
  <2>11. Answers(c)'
    <3>1. CASE takes
      <4>1. down'[c] = <<>> /\ 1..Len(down'[c]) = {}
        BY <1>1, <2>10, <3>1
      <4> QED BY <4>1 DEF Answers
    <3>2. CASE ~ takes
      <4>1. ASSUME NEW i \in 1..Len(D)
            PROVE  /\ D[i].key = tx[c].key /\ D[i].n = n + i - 1
                   /\ D[i].id \in 1..done[c] /\ D[i].id <= tx[c].sent
                   /\ D[i].status = "m4" => D[i].id = waiting
        <5>1. D[i] = down[c][i + 1] /\ i + 1 \in 1..Len(down[c]) /\ 1 < i + 1
          BY <1>3
        <5>2. a.id < D[i].id /\ D[i].id # a.id
          <6>1. a.id < D[i].id
            BY <1>2, <2>1, <2>2, <5>1
          <6>2. D[i].id \in 1..done[c] /\ done[c] \in Nat
            BY <2>1, <5>1 DEF AllOrdered
          <6> QED BY <2>3, <6>1, <6>2
        <5>3. D[i].n = tx[c].in + (i + 1) - 1
          BY <2>1, <5>1
        <5>4. tx[c].in + (i + 1) - 1 = n + i - 1
          BY <1>2
        <5>5. D[i].status = "m4" => D[i].id = waiting
          BY <2>1, <5>1, <5>2 DEF waiting
        <5> QED BY <2>1, <5>1, <5>3, <5>4, <5>5
      <4>2. ASSUME NEW i \in 1..Len(D), NEW j \in 1..Len(D), i < j PROVE D[i].id < D[j].id
        <5>1. i + 1 < j + 1
          BY <1>3, <4>2
        <5> QED BY <1>3, <2>1, <5>1
      <4> QED BY <1>1, <2>4, <3>2, <4>1, <4>2 DEF Answers
    <3> QED BY <3>1, <3>2
  <2>12. CASE takes
    <3>1. /\ Key(c) = a.exchange /\ Enc(c) = 0 /\ Dec(c) = 0
          /\ Wire(c) = <<>> /\ rx[c].plain = <<>>
      <4>1. Last(down[c]) = a
        <5>1. Len(down[c]) = 1
          <6>1. Len(D) = 0
            BY <2>10, <2>12
          <6>2. \A x \in Nat : x - 1 = 0 => x = 1
            OBVIOUS
          <6> QED BY <1>3, <6>1, <6>2
        <5> QED BY <1>2, <5>1 DEF Last
      <4> QED BY <1>6, <2>10, <2>12, <4>1 DEF Keyed
    <3>2. ~ Announced(c)'
      BY <1>1, <2>10, <2>12 DEF Announced
    <3>3. Len(down'[c]) = 0
      BY <1>1, <2>10, <2>12
    <3>4. Framed(<<>>, a.exchange, 0, 0)
      <4>1. Len(<<>>) = 0 /\ 1..(0 - 0) = {} /\ 1..Len(<<>>) = {} /\ 2 * (0 - 0) = 0
        OBVIOUS
      <4> QED BY <4>1 DEF Framed
    <3>5. /\ Key(c)' = tx'[c].key /\ Enc(c)' = tx'[c].in + Len(down'[c])
          /\ Framed(Wire(c)', tx'[c].key, Dec(c)', tx'[c].out)
      BY <1>1, <2>4, <2>9, <2>12, <3>1, <3>3, <3>4
    <3> QED BY <2>5, <2>6, <2>7, <2>8, <2>11, <3>2, <3>5 DEF Keyed
  <2>13. CASE ~ takes
    <3>1. D # <<>> => Last(D) = Last(down[c])
      <4>1. D # <<>> => Len(D) \in 1..Len(D) /\ Len(D) + 1 = Len(down[c])
        BY <1>3
      <4> QED BY <1>3, <4>1 DEF Last
    <3>2. Announced(c)' <=> Announced(c)
      <4>1. D = <<>> => Last(down[c]) = a
        <5>1. D = <<>> => Len(down[c]) = 1
          <6>1. D = <<>> => Len(D) = 0
            OBVIOUS
          <6>2. \A x \in Nat : x - 1 = 0 => x = 1
            OBVIOUS
          <6> QED BY <1>3, <6>1, <6>2
        <5> QED BY <1>2, <5>1 DEF Last
      <4> QED BY <1>1, <1>2, <2>4, <2>13, <3>1, <4>1 DEF Announced
    <3>3. Announced(c)' => /\ Key(c)' = Last(down'[c]).exchange /\ Enc(c)' = 0 /\ Dec(c)' = 0
                           /\ Wire(c)' = <<>> /\ rx'[c].plain = <<>> /\ tx'[c].held = <<>>
      <4>1. Announced(c)' => D # <<>>
        BY <1>1 DEF Announced
      <4> QED BY <1>1, <1>6, <2>9, <3>1, <3>2, <4>1 DEF Keyed
    <3>4. ~ Announced(c)' => /\ Key(c)' = tx'[c].key /\ Enc(c)' = tx'[c].in + Len(down'[c])
                             /\ Framed(Wire(c)', tx'[c].key, Dec(c)', tx'[c].out)
      <4>1. tx[c].in + Len(down[c]) = n + Len(D)
        <5>1. \A x, y \in Nat : x + y = (x + 1) + (y - 1)
          OBVIOUS
        <5>2. tx[c].in + Len(down[c]) = (tx[c].in + 1) + (Len(down[c]) - 1)
          BY <1>2, <1>3, <5>1
        <5> QED BY <1>3, <5>2
      <4> QED BY <1>1, <1>6, <2>4, <2>9, <2>13, <3>2, <4>1 DEF Keyed
    <3> QED BY <2>5, <2>6, <2>7, <2>8, <2>11, <3>3, <3>4 DEF Keyed
  <2> QED BY <2>12, <2>13
<1>7. KeyInv(c)'
  BY <1>5, <1>6 DEF AllKeyed, KeyInv
<1> QED BY <1>1, <1>4, <1>7, OneKeyed

\* A connection that holds nothing has nothing to disagree about.
LEMMA KeyedEmpty ==
  ASSUME NEW c, Wire(c) = <<>>, InFlight(c) = {}, rx[c].plain = <<>>, rx[c].pending = <<>>,
         down[c] = <<>>, ~ tx[c].lost, tx[c].waiting = 0, tx[c].held = <<>>, tx[c].key = Clear, tx[c].in = 0,
         rx[c].key = Clear, rx[c].encN = 0, tx[c].transient = rx[c].transient,
         ~ At(c, "switching")
  PROVE  Keyed(c)
<1>1. 1..Len(<<>>) = {} /\ Len(<<>>) = 0
  OBVIOUS
<1>2. Answers(c)
  BY <1>1 DEF Answers
<1>3. Agreed(InFlight(c), tx[c].transient, rx[c].transient)
  BY DEF Agreed
<1>4. ~ Announced(c)
  BY DEF Announced
<1>5. Key(c) = tx[c].key /\ Enc(c) = tx[c].in + Len(down[c])
  BY <1>1 DEF Key, Enc
<1>6. Framed(Wire(c), tx[c].key, Dec(c), tx[c].out)
  BY <1>1 DEF Framed
<1> QED BY <1>2, <1>3, <1>4, <1>5, <1>6 DEF Keyed

LEMMA KeyClose ==
  ASSUME GateInv, AllOrdered, AllKeyed, NEW c \in Conns, Close(c)
  PROVE  AllKeyed'
<1>1. /\ rx'[c] = [Fresh EXCEPT !.pc = "closed"] /\ tx'[c] = [Sender EXCEPT !.up = FALSE]
      /\ up'[c] = <<>> /\ down'[c] = <<>> /\ done' = done
  BY DEF Close, Rx, Tx, GateInv, Shape
<1>2. /\ rx'[c].plain = <<>> /\ rx'[c].pending = <<>> /\ rx'[c].pc = "closed"
      /\ rx'[c].key = Clear /\ rx'[c].encN = 0 /\ ~ tx'[c].lost /\ tx'[c].waiting = 0
      /\ tx'[c].key = Clear /\ tx'[c].in = 0 /\ tx'[c].transient = rx'[c].transient
      /\ tx'[c].held = <<>>
  BY <1>1 DEF Fresh, Sender
<1>3. Wire(c)' = <<>>
  <2>1. <<>> \o <<>> = <<>>
    OBVIOUS
  <2> QED BY <1>1, <1>2, <2>1 DEF Wire
<1>4. InFlight(c)' = {}
  BY <1>2, <1>3, Nothing DEF InFlight, OnWire
<1>5. Keyed(c)'
  <2>1. ~ At(c, "switching")'
    BY <1>2 DEF At
  <2>2. 1..Len(<<>>) = {} /\ Len(<<>>) = 0
    OBVIOUS
  <2>3. Answers(c)'
    BY <1>1, <2>2 DEF Answers
  <2>4. Agreed(InFlight(c), tx[c].transient, rx[c].transient)'
    BY <1>2, <1>4 DEF Agreed
  <2>5. ~ Announced(c)'
    BY <1>1 DEF Announced
  <2>6. Key(c)' = tx'[c].key /\ Enc(c)' = tx'[c].in + Len(down'[c])
    BY <1>1, <1>2, <2>1, <2>2 DEF Key, Enc
  <2>7. Framed(Wire(c), tx[c].key, Dec(c), tx[c].out)'
    BY <1>2, <1>3, <2>2 DEF Framed
  <2> QED BY <1>2, <1>4, <2>1, <2>3, <2>4, <2>5, <2>6, <2>7 DEF Keyed
<1>6. Others(c)
  BY DEF Others, GateInv, Shape, Rx, Tx, Close
<1> QED BY <1>1, <1>5, <1>6, OneKeyed DEF KeyInv

LEMMA KeyInit == Init => AllKeyed
<1> SUFFICES ASSUME Init, NEW c \in Conns PROVE Keyed(c)
  BY DEF AllKeyed, KeyInv
<1>1. /\ rx[c].plain = <<>> /\ rx[c].pending = <<>> /\ rx[c].pc = "none" /\ up[c] = <<>>
      /\ rx[c].key = Clear /\ rx[c].encN = 0 /\ ~ tx[c].lost /\ tx[c].waiting = 0
      /\ tx[c].key = Clear /\ tx[c].in = 0 /\ tx[c].transient = rx[c].transient
      /\ down[c] = <<>> /\ tx[c].held = <<>>
  BY DEF Init, Fresh, Sender
<1>2. Wire(c) = <<>>
  <2>1. <<>> \o <<>> = <<>>
    OBVIOUS
  <2> QED BY <1>1, <2>1 DEF Wire
<1>3. InFlight(c) = {}
  BY <1>1, <1>2, Nothing DEF InFlight, OnWire
<1>4. ~ At(c, "switching")
  BY <1>1 DEF At
<1> QED BY <1>1, <1>2, <1>3, <1>4, KeyedEmpty

LEMMA KeyStep ==
  ASSUME GateInv, AllOrdered, AllKeyed, [Next]_vars
  PROVE  AllKeyed'
<1>1. CASE UNCHANGED vars
  <2>1. rx' = rx /\ tx' = tx /\ up' = up /\ down' = down /\ done' = done
    BY <1>1 DEF vars
  <2> SUFFICES ASSUME NEW d \in Conns PROVE KeyInv(d)'
    BY DEF AllKeyed
  <2>2. Wire(d)' = Wire(d) /\ InFlight(d)' = InFlight(d) /\ At(d, "switching")' = At(d, "switching")
    BY <2>1 DEF Wire, OnWire, InFlight, At
  <2>3. /\ Key(d)' = Key(d) /\ Enc(d)' = Enc(d) /\ Dec(d)' = Dec(d)
        /\ Announced(d)' = Announced(d) /\ Answers(d)' = Answers(d)
    BY <2>1, <2>2 DEF Key, Enc, Dec, Announced, Answers
  <2>4. KeyInv(d)
    BY DEF AllKeyed
  <2> QED BY <2>1, <2>2, <2>3, <2>4 DEF KeyInv, Keyed
<1>2. CASE Next
  <2>1. PICK c \in Conns :
          Receiver(c) \/ AskSomething(c) \/ Send(c) \/ HangUp(c) \/ ReadResponse(c)
    BY <1>2 DEF Next
  <2>2. CASE AskSomething(c)
    <3>1. PICK kind \in Kinds[c] : Ask(c, kind)
      BY <2>2 DEF AskSomething
    <3> QED BY <3>1, KeyAsk
  <2>10. CASE Send(c)
    BY <2>10, KeySend
  <2>11. CASE HangUp(c)
    BY <2>11, KeyHangUp
  <2>3. CASE Accept(c) \/ Switch(c)
    BY <2>3, KeyQuiet
  <2>4. CASE Close(c)
    BY <2>4, KeyClose
  <2>5. CASE ReadClear(c) \/ ReadCipher(c)
    BY <2>5, KeyRead
  <2>6. CASE Decrypt(c)
    BY <2>6, KeyDecrypt
  <2>7. CASE ReadHead(c)
    BY <2>7, KeyReadHead
  <2>8. CASE Serve(c)
    BY <2>8, KeyServe
  <2>9. CASE ReadResponse(c)
    BY <2>9, KeyHear
  <2> QED
    BY <2>1, <2>2, <2>3, <2>4, <2>5, <2>6, <2>7, <2>8, <2>9, <2>10, <2>11
    DEF Receiver, Reject, Eof, Timeout, Garbled, WriteFails
<1> QED BY <1>1, <1>2

\* Blocks framed by the key and the counts of the receiver open.
LEMMA KeyedInStep == GateInv /\ AllKeyed => InStep
<1> SUFFICES ASSUME GateInv, AllKeyed, NEW c \in Conns, ~ tx[c].hasty
             PROVE  ~ tx[c].lost /\ ~ (Encrypted(c) /\ Unreadable(c))
  BY DEF InStep
<1>1. Keyed(c)
  BY DEF AllKeyed, KeyInv
<1>2. /\ rx[c].pending \in Seq(PiecesFrom(PartsOf(c))) /\ up[c] \in Seq(PiecesFrom(PartsOf(c)))
      /\ tx[c].out \in Nat /\ rx[c].decN \in Nat
  BY OrderTyped DEF GateInv, Typed, SendersOf, ReceiverOf
<1>3. /\ Len(rx[c].pending) \in Nat /\ Len(up[c]) \in Nat
      /\ Len(Wire(c)) = Len(rx[c].pending) + Len(up[c])
      /\ \A i \in 1..Len(rx[c].pending) : Wire(c)[i] = rx[c].pending[i]
  <2>1. ASSUME NEW S, NEW a \in Seq(S), NEW b \in Seq(S)
        PROVE  /\ Len(a) \in Nat /\ Len(b) \in Nat /\ Len(a \o b) = Len(a) + Len(b)
               /\ \A i \in 1..Len(a) : (a \o b)[i] = a[i]
    BY ConcatProperties
  <2> QED BY <1>2, <2>1 DEF Wire
<1>4. SUFFICES ASSUME Encrypted(c), rx[c].pending # <<>>
               PROVE  /\ ~ Head(rx[c].pending).whole
                      /\ Len(rx[c].pending) >= 2 => Opens(c)
  BY <1>1, <1>2 DEF Keyed, Unreadable
<1>5. ~ At(c, "switching")
  BY <1>1, <1>4 DEF Keyed
<1>6. Len(rx[c].pending) >= 1 /\ Wire(c) # <<>>
  <2>1. Len(rx[c].pending) >= 1
    BY <1>2, <1>4
  <2>n. \A x, y \in Nat : x >= 1 => x + y >= 1
    OBVIOUS
  <2>2. Len(Wire(c)) >= 1
    BY <1>3, <2>1, <2>n
  <2>3. Wire(c) \in Seq(PiecesFrom(PartsOf(c)))
    BY OrderTyped
  <2> QED BY <2>1, <2>2, <2>3
<1>7. ~ Announced(c)
  BY <1>1, <1>6 DEF Keyed
<1>8. rx[c].key = tx[c].key /\ Framed(Wire(c), rx[c].key, rx[c].decN, tx[c].out)
  BY <1>1, <1>5, <1>7 DEF Keyed, Key, Dec
<1>9. /\ rx[c].decN <= tx[c].out /\ Len(Wire(c)) = 2 * (tx[c].out - rx[c].decN)
      /\ \A j \in 1..(tx[c].out - rx[c].decN) :
           /\ ~ Wire(c)[2 * j - 1].whole /\ Wire(c)[2 * j].whole
           /\ Wire(c)[2 * j].key = rx[c].key /\ Wire(c)[2 * j].n = rx[c].decN + j - 1
  BY <1>4, <1>8 DEF Framed, Encrypted
<1>10. 1 \in 1..(tx[c].out - rx[c].decN)
  <2>1. \A m \in Nat : 2 * m >= 1 => m >= 1
    OBVIOUS
  <2>n. \A x, y \in Nat : x >= 1 => x + y >= 1
    OBVIOUS
  <2>2. Len(Wire(c)) >= 1 /\ tx[c].out - rx[c].decN \in Nat
    <3>1. Len(Wire(c)) >= 1
      BY <1>3, <1>6, <2>n
    <3>2. tx[c].out - rx[c].decN \in Nat
      BY <1>2, <1>9
    <3> QED BY <3>1, <3>2
  <2> QED BY <1>9, <2>1, <2>2
<1>11. /\ ~ Wire(c)[1].whole /\ Wire(c)[2].whole /\ Wire(c)[2].key = rx[c].key
       /\ Wire(c)[2].n = rx[c].decN
  <2>1. 2 * 1 - 1 = 1 /\ 2 * 1 = 2 /\ rx[c].decN + 1 - 1 = rx[c].decN
    BY <1>2
  <2> QED BY <1>9, <1>10, <2>1
<1>12. ~ Head(rx[c].pending).whole
  <2>1. Head(rx[c].pending) = rx[c].pending[1] /\ 1 \in 1..Len(rx[c].pending)
    BY <1>2, <1>3, <1>6
  <2> QED BY <1>3, <1>11, <2>1
<1>13. Len(rx[c].pending) >= 2 => Opens(c)
  <2>1. Len(rx[c].pending) >= 2 => 2 \in 1..Len(rx[c].pending)
    BY <1>3
  <2> QED BY <1>3, <1>11, <2>1 DEF Opens
<1> QED BY <1>12, <1>13

\* crypto_stream.rs and server.rs: on every connection whose sender waits for
\* the answer to its M3, both ends change keys at the same request, and every
\* block and response opens under the key and the count of the end it reaches.
THEOREM EndsInStep == Spec => []InStep
<1>1. Init => AllKeyed
  BY KeyInit
<1>2. GateInv /\ AllOrdered /\ AllKeyed /\ [Next]_vars => AllKeyed'
  BY KeyStep
<1>3. Spec => []AllKeyed
  BY <1>1, <1>2, OrderAlways, PTL DEF Spec
<1> QED BY <1>3, OrderAlways, KeyedInStep, PTL

-----------------------------------------------------------------------------
\* The numbers of an exchange.

\* Induction over the naturals, by the set of those for which a fact holds.
LEMMA SetInduction ==
  ASSUME NEW S \in SUBSET Nat, 0 \in S, \A n \in S : n + 1 \in S
  PROVE  S = Nat
<1> DEFINE T == Nat \ S
<1>1. SUFFICES ASSUME T # {} PROVE FALSE
  OBVIOUS
<1>2. IsWellFoundedOn(OpToRel(<, Nat), Nat)
  BY NatLessThanWellFounded
<1>3. PICK x \in T : \A y \in T : ~ (<<y, x>> \in OpToRel(<, Nat))
  <2> HIDE DEF T
  <2> T \subseteq Nat BY DEF T
  <2> QED BY <1>1, <1>2, WFMin
<1>4. x \in Nat /\ x # 0 /\ x - 1 \in Nat /\ x - 1 < x
  BY DEF T
<1>5. x - 1 \notin T
  BY <1>3, <1>4 DEF OpToRel
<1>6. x - 1 \in S /\ (x - 1) + 1 = x /\ x \notin S
  BY <1>4, <1>5
<1> QED BY <1>6

\* The least of a set of naturals.
LEMMA LeastNat ==
  ASSUME NEW S \in SUBSET Nat, S # {}
  PROVE  \E m \in S : \A n \in S : m <= n
<1>1. IsWellFoundedOn(OpToRel(<, Nat), Nat)
  BY NatLessThanWellFounded
<1>2. PICK m \in S : \A y \in S : ~ (<<y, m>> \in OpToRel(<, Nat))
  BY <1>1, WFMin
<1>3. ASSUME NEW n \in S PROVE m <= n
  <2>1. m \in Nat /\ n \in Nat
    OBVIOUS
  <2>2. ~ (n < m)
    BY <1>2, <2>1, Zenon DEF OpToRel
  <2> QED BY <2>1, <2>2
<1> QED BY <1>3

-----------------------------------------------------------------------------
\* Congruence modulo the prime.
Cong(i, j) == \E k \in Int : i = j + k * Prime

LEMMA Products ==
  ASSUME NEW k \in Int, NEW m \in Int, m > 0
  PROVE  /\ k * m \in Int
         /\ k >= 1 => k * m >= m
         /\ k <= -1 => k * m <= -m
OBVIOUS

LEMMA ModFacts ==
  ASSUME NEW i \in Int
  PROVE  /\ i % Prime \in 0..(Prime - 1) /\ Cong(i % Prime, i) /\ Cong(i, i % Prime)
<1>1. Prime \in Int /\ Prime > 0
  BY SrpAssumption
<1> DEFINE q == i \div Prime
           r == i % Prime
<1>2. q \in Int /\ r \in 0..(Prime - 1) /\ i = Prime * q + r
  BY <1>1
<1> HIDE DEF q, r
<1>3. i = r + q * Prime
  BY <1>1, <1>2
<1>4. r = i + (-q) * Prime /\ -q \in Int
  BY <1>1, <1>2
<1> QED BY <1>2, <1>3, <1>4 DEF Cong, r

LEMMA CongRules ==
  /\ \A i \in Int : Cong(i, i)
  /\ \A i, j \in Int : Cong(i, j) => Cong(j, i)
  /\ \A i, j, l \in Int : Cong(i, j) /\ Cong(j, l) => Cong(i, l)
  /\ \A i, j, m \in Int : Cong(i, j) => Cong(i * m, j * m) /\ Cong(m * i, m * j)
  /\ \A i, j, m, n \in Int : Cong(i, j) /\ Cong(m, n) => Cong(i * m, j * n) /\ Cong(i + m, j + n)
<1>0. Prime \in Int
  BY SrpAssumption
<1>1. ASSUME NEW i \in Int PROVE Cong(i, i)
  <2>1. i = i + 0 * Prime
    BY <1>0
  <2> QED BY <2>1 DEF Cong
<1>2. ASSUME NEW i \in Int, NEW j \in Int, Cong(i, j) PROVE Cong(j, i)
  <2>1. PICK k \in Int : i = j + k * Prime
    BY <1>2 DEF Cong
  <2>2. j = i + (-k) * Prime /\ -k \in Int
    BY <1>0, <2>1
  <2> QED BY <2>2 DEF Cong
<1>3. ASSUME NEW i \in Int, NEW j \in Int, NEW l \in Int, Cong(i, j), Cong(j, l) PROVE Cong(i, l)
  <2>1. PICK k \in Int : i = j + k * Prime
    BY <1>3 DEF Cong
  <2>2. PICK h \in Int : j = l + h * Prime
    BY <1>3 DEF Cong
  <2>3. i = l + (k + h) * Prime /\ k + h \in Int
    BY <1>0, <2>1, <2>2
  <2> QED BY <2>3 DEF Cong
<1>4. ASSUME NEW i \in Int, NEW j \in Int, NEW m \in Int, Cong(i, j)
      PROVE  Cong(i * m, j * m) /\ Cong(m * i, m * j)
  <2>1. PICK k \in Int : i = j + k * Prime
    BY <1>4 DEF Cong
  <2>2. i * m = j * m + (k * m) * Prime /\ m * i = m * j + (k * m) * Prime /\ k * m \in Int
    BY <1>0, <2>1
  <2> QED BY <2>2 DEF Cong
<1>5. ASSUME NEW i \in Int, NEW j \in Int, NEW m \in Int, NEW n \in Int, Cong(i, j), Cong(m, n)
      PROVE  Cong(i * m, j * n) /\ Cong(i + m, j + n)
  <2>1. PICK k \in Int : i = j + k * Prime
    BY <1>5 DEF Cong
  <2>2. PICK h \in Int : m = n + h * Prime
    BY <1>5 DEF Cong
  <2>3. i + m = (j + n) + (k + h) * Prime /\ k + h \in Int
    BY <1>0, <2>1, <2>2
  <2>4. Cong(i * m, j * m) /\ Cong(j * m, j * n)
    BY <1>4, <1>5
  <2>5. i * m \in Int /\ j * m \in Int /\ j * n \in Int
    OBVIOUS
  <2> QED BY <1>3, <2>3, <2>4, <2>5 DEF Cong
<1> QED BY <1>1, <1>2, <1>3, <1>4, <1>5

(* Congruent residues are equal. *)
LEMMA Residues ==
  ASSUME NEW i \in 0..(Prime - 1), NEW j \in 0..(Prime - 1), Cong(i, j)
  PROVE  i = j
<1>1. Prime \in Int /\ Prime > 0
  BY SrpAssumption
<1>2. PICK k \in Int : i = j + k * Prime
  BY DEF Cong
<1>3. k * Prime \in Int /\ (k >= 1 => k * Prime >= Prime) /\ (k <= -1 => k * Prime <= -Prime)
  BY <1>1, Products
<1>4. k = 0
  BY <1>1, <1>2, <1>3
<1> QED BY <1>1, <1>2, <1>4

LEMMA SameResidue ==
  ASSUME NEW i \in Int, NEW j \in Int, Cong(i, j)
  PROVE  i % Prime = j % Prime
<1>1. Cong(i % Prime, i) /\ Cong(j, j % Prime) /\ i % Prime \in 0..(Prime - 1) /\ j % Prime \in 0..(Prime - 1)
  BY ModFacts
<1>2. i % Prime \in Int /\ j % Prime \in Int
  BY <1>1, SrpAssumption
<1>3. Cong(i % Prime, j % Prime)
  BY <1>1, <1>2, CongRules
<1> QED BY <1>1, <1>3, Residues

LEMMA OwnResidue ==
  ASSUME NEW i \in 0..(Prime - 1)
  PROVE  i % Prime = i
<1>1. i \in Int
  BY SrpAssumption
<1>2. Cong(i % Prime, i) /\ i % Prime \in 0..(Prime - 1)
  BY <1>1, ModFacts
<1> QED BY <1>2, Residues

-----------------------------------------------------------------------------
\* The powers of b up to the n-th, as ModPow builds them.
Powers(b, p, n) ==
  p = [i \in 0..n |-> IF i = 0 THEN 1 ELSE (p[i - 1] * b) % Prime]

\* Such powers exist, so ModPow, which chooses them, has them.
LEMMA PowersExist ==
  ASSUME NEW b, NEW n \in Nat
  PROVE  \E p : Powers(b, p, n)
<1> DEFINE S == {m \in Nat : \E p : Powers(b, p, m)}
<1>1. 0 \in S
  <2> DEFINE p == [i \in 0..0 |-> 1]
  <2>1. Powers(b, p, 0)
    BY DEF Powers
  <2> QED BY <2>1
<1>2. ASSUME NEW m \in S PROVE m + 1 \in S
  <2>1. PICK p : Powers(b, p, m)
    OBVIOUS
  <2> DEFINE next == (p[m] * b) % Prime
             q == [i \in 0..(m + 1) |-> IF i = m + 1 THEN next ELSE p[i]]
  <2>2. m \in Nat /\ m + 1 \in Nat
    OBVIOUS
  <2>3. ASSUME NEW i \in 0..(m + 1)
        PROVE  q[i] = IF i = 0 THEN 1 ELSE (q[i - 1] * b) % Prime
    <3>1. CASE i = m + 1
      <4>1. i # 0 /\ i - 1 = m /\ m \in 0..(m + 1) /\ m # m + 1
        BY <2>2, <3>1
      <4>2. q[i] = next /\ q[i - 1] = p[m]
        BY <3>1, <4>1
      <4> HIDE DEF q
      <4> QED BY <4>1, <4>2
    <3>2. CASE i # m + 1
      <4>1. i \in 0..m /\ (i # 0 => i - 1 \in 0..(m + 1) /\ i - 1 # m + 1)
        BY <2>2, <3>2
      <4>2. q[i] = p[i] /\ (i # 0 => q[i - 1] = p[i - 1])
        BY <3>2, <4>1
      <4>3. p[i] = IF i = 0 THEN 1 ELSE (p[i - 1] * b) % Prime
        BY <2>1, <4>1 DEF Powers
      <4> HIDE DEF q
      <4> QED BY <4>2, <4>3
    <3> QED BY <3>1, <3>2
  <2>4. Powers(b, q, m + 1)
    <3>1. q = [i \in 0..(m + 1) |-> q[i]]
      OBVIOUS
    <3> HIDE DEF q
    <3> QED BY <2>3, <3>1 DEF Powers
  <2> QED BY <2>2, <2>4
<1>3. S = Nat
  <2> HIDE DEF S
  <2>1. S \subseteq Nat BY DEF S
  <2> QED BY <1>1, <1>2, <2>1, SetInduction
<1> QED BY <1>3

\* Two such sequences agree as far as both go.
LEMMA PowersAgree ==
  ASSUME NEW b, NEW m \in Nat, NEW n \in Nat, NEW p, NEW q,
         Powers(b, p, m), Powers(b, q, n), NEW i \in Nat, i <= m, i <= n
  PROVE  p[i] = q[i]
<1> DEFINE S == {j \in Nat : j <= m /\ j <= n => p[j] = q[j]}
<1>1. 0 \in S
  BY DEF Powers
<1>2. ASSUME NEW j \in S PROVE j + 1 \in S
  <2>1. j \in Nat /\ (j + 1) - 1 = j /\ j + 1 # 0
    OBVIOUS
  <2>2. ASSUME j + 1 <= m, j + 1 <= n PROVE p[j + 1] = q[j + 1]
    <3>1. j + 1 \in 0..m /\ j + 1 \in 0..n /\ p[j] = q[j]
      BY <2>1, <2>2
    <3>2. p[j + 1] = (p[j] * b) % Prime /\ q[j + 1] = (q[j] * b) % Prime
      BY <2>1, <3>1 DEF Powers
    <3> QED BY <3>1, <3>2
  <2> QED BY <2>1, <2>2
<1>3. S = Nat
  <2> HIDE DEF S
  <2>1. S \subseteq Nat BY DEF S
  <2> QED BY <1>1, <1>2, <2>1, SetInduction
<1> QED BY <1>3

LEMMA ModPowIs ==
  ASSUME NEW b, NEW n \in Nat
  PROVE  \E p : Powers(b, p, n) /\ ModPow(b, n) = p[n]
<1>1. ModPow(b, n) = (CHOOSE p : Powers(b, p, n))[n]
  BY DEF ModPow, Powers
<1>2. Powers(b, CHOOSE p : Powers(b, p, n), n)
  BY PowersExist
<1> QED BY <1>1, <1>2

\* What ModPow computes: its recursion, on naturals.
LEMMA ModPowSteps ==
  ASSUME NEW b \in Int
  PROVE  /\ ModPow(b, 0) = 1
         /\ \A n \in Nat : ModPow(b, n + 1) = (ModPow(b, n) * b) % Prime
<1>1. ModPow(b, 0) = 1
  <2>1. PICK p : Powers(b, p, 0) /\ ModPow(b, 0) = p[0]
    BY ModPowIs
  <2> QED BY <2>1 DEF Powers
<1>2. ASSUME NEW n \in Nat PROVE ModPow(b, n + 1) = (ModPow(b, n) * b) % Prime
  <2>1. n + 1 \in Nat /\ (n + 1) - 1 = n /\ n + 1 # 0 /\ n + 1 \in 0..(n + 1) /\ n <= n + 1
    OBVIOUS
  <2>2. PICK p : Powers(b, p, n) /\ ModPow(b, n) = p[n]
    BY ModPowIs
  <2>3. PICK q : Powers(b, q, n + 1) /\ ModPow(b, n + 1) = q[n + 1]
    BY <2>1, ModPowIs
  <2>4. p[n] = q[n]
    BY <2>1, <2>2, <2>3, PowersAgree
  <2>5. q[n + 1] = (q[n] * b) % Prime
    BY <2>1, <2>3 DEF Powers
  <2> QED BY <2>2, <2>3, <2>4, <2>5
<1> QED BY <1>1, <1>2

LEMMA ModPowType ==
  ASSUME NEW b \in Int, NEW n \in Nat
  PROVE  ModPow(b, n) \in 0..(Prime - 1) /\ ModPow(b, n) \in Int
<1> DEFINE S == {m \in Nat : ModPow(b, m) \in 0..(Prime - 1)}
<1>1. 0 \in S
  BY ModPowSteps, SrpAssumption
<1>2. ASSUME NEW m \in S PROVE m + 1 \in S
  <2>1. m \in Nat /\ m + 1 \in Nat /\ ModPow(b, m) \in Int
    BY SrpAssumption
  <2>2. ModPow(b, m) * b \in Int
    BY <2>1
  <2>3. ModPow(b, m + 1) = (ModPow(b, m) * b) % Prime
    BY <2>1, ModPowSteps
  <2> QED BY <2>1, <2>2, <2>3, ModFacts
<1>3. S = Nat
  <2> HIDE DEF S
  <2>1. S \subseteq Nat BY DEF S
  <2> QED BY <1>1, <1>2, <2>1, SetInduction
<1>4. ModPow(b, n) \in 0..(Prime - 1)
  BY <1>3
<1> QED BY <1>4, SrpAssumption

\* The recursion, up to congruence.
LEMMA ModPowNext ==
  ASSUME NEW b \in Int, NEW n \in Nat
  PROVE  Cong(ModPow(b, n + 1), ModPow(b, n) * b)
<1>1. ModPow(b, n) \in Int /\ ModPow(b, n) * b \in Int
  BY ModPowType
<1> QED BY <1>1, ModPowSteps, ModFacts

-----------------------------------------------------------------------------
\* The laws of powers, modulo the prime.

LEMMA CongruentBases ==
  ASSUME NEW b \in Int, NEW c \in Int, Cong(b, c), NEW n \in Nat
  PROVE  ModPow(b, n) = ModPow(c, n)
<1> DEFINE S == {m \in Nat : ModPow(b, m) = ModPow(c, m)}
<1>1. 0 \in S
  BY ModPowSteps
<1>2. ASSUME NEW m \in S PROVE m + 1 \in S
  <2>1. m \in Nat /\ m + 1 \in Nat /\ ModPow(b, m) = ModPow(c, m)
    OBVIOUS
  <2> DEFINE h == ModPow(b, m)
  <2>2. h \in Int
    BY <2>1, ModPowType
  <2>3. ModPow(b, m + 1) = (h * b) % Prime /\ ModPow(c, m + 1) = (h * c) % Prime
    BY <2>1, ModPowSteps
  <2> HIDE DEF h
  <2>4. h * b \in Int /\ h * c \in Int /\ Cong(h * b, h * c)
    BY <2>2, CongRules
  <2>5. (h * b) % Prime = (h * c) % Prime
    BY <2>4, SameResidue
  <2> QED BY <2>1, <2>3, <2>5
<1>3. S = Nat
  <2> HIDE DEF S
  <2>1. S \subseteq Nat BY DEF S
  <2> QED BY <1>1, <1>2, <2>1, SetInduction
<1> QED BY <1>3

LEMMA PowerOfSum ==
  ASSUME NEW b \in Int, NEW m \in Nat, NEW n \in Nat
  PROVE  Cong(ModPow(b, m + n), ModPow(b, m) * ModPow(b, n))
<1> DEFINE S == {i \in Nat : Cong(ModPow(b, m + i), ModPow(b, m) * ModPow(b, i))}
<1>0. ModPow(b, m) \in Int
  BY ModPowType
<1>1. 0 \in S
  <2>1. m + 0 = m /\ ModPow(b, 0) = 1 /\ ModPow(b, m) * 1 = ModPow(b, m)
    BY <1>0, ModPowSteps
  <2> QED BY <1>0, <2>1, CongRules
<1>2. ASSUME NEW i \in S PROVE i + 1 \in S
  <2>1. i \in Nat /\ m + i \in Nat /\ m + (i + 1) = (m + i) + 1
    OBVIOUS
  <2> DEFINE x == ModPow(b, m)
             y == ModPow(b, i)
             z == ModPow(b, m + i)
             y1 == ModPow(b, i + 1)
             z1 == ModPow(b, (m + i) + 1)
  <2>2. x \in Int /\ y \in Int /\ z \in Int /\ y1 \in Int /\ z1 \in Int
    <3>1. \A k \in Nat : ModPow(b, k) \in Int
      BY ModPowType
    <3>2. i \in Nat /\ m + i \in Nat /\ i + 1 \in Nat /\ (m + i) + 1 \in Nat
      BY <2>1
    <3> QED BY <3>1, <3>2
  <2>3. Cong(z, x * y) /\ Cong(y1, y * b) /\ Cong(z1, z * b)
    BY <2>1, ModPowNext
  <2> HIDE DEF x, y, z, y1, z1
  <2>4. z * b \in Int /\ y * b \in Int /\ x * y \in Int /\ (x * y) * b \in Int /\ x * y1 \in Int
        /\ (x * y) * b = x * (y * b)
    BY <2>2
  <2>5. Cong(z * b, (x * y) * b)
    BY <2>2, <2>3, <2>4, CongRules
  <2>6. Cong(x * (y * b), x * y1)
    BY <2>2, <2>3, <2>4, CongRules
  <2>7. Cong(z1, x * y1)
    BY <2>2, <2>3, <2>4, <2>5, <2>6, CongRules
  <2> QED BY <2>1, <2>7 DEF x, y1, z1
<1>3. S = Nat
  <2> HIDE DEF S
  <2>1. S \subseteq Nat BY DEF S
  <2> QED BY <1>1, <1>2, <2>1, SetInduction
<1> QED BY <1>3

LEMMA PowerOfPower ==
  ASSUME NEW b \in Int, NEW m \in Nat, NEW n \in Nat
  PROVE  ModPow(ModPow(b, m), n) = ModPow(b, m * n)
<1> DEFINE h == ModPow(b, m)
           S == {i \in Nat : ModPow(h, i) = ModPow(b, m * i)}
<1>0. h \in Int
  BY ModPowType
<1>1. 0 \in S
  <2>1. m * 0 = 0
    OBVIOUS
  <2> QED BY <1>0, <2>1, ModPowSteps
<1>2. ASSUME NEW i \in S PROVE i + 1 \in S
  <2>1. i \in Nat /\ i + 1 \in Nat /\ m * i \in Nat /\ m * (i + 1) = m * i + m /\ m * (i + 1) \in Nat
    OBVIOUS
  <2> DEFINE y == ModPow(h, i)
             y1 == ModPow(h, i + 1)
             z1 == ModPow(b, m * i + m)
  <2>2. y \in Int /\ y1 \in 0..(Prime - 1) /\ y1 \in Int /\ z1 \in 0..(Prime - 1) /\ z1 \in Int
    BY <1>0, <2>1, ModPowType
  <2>3. Cong(y1, y * h)
    BY <1>0, <2>1, ModPowNext
  <2>4. Cong(z1, ModPow(b, m * i) * h)
    BY <2>1, PowerOfSum
  <2>5. y = ModPow(b, m * i)
    OBVIOUS
  <2> HIDE DEF y, y1, z1, h
  <2>6. y * h \in Int /\ Cong(z1, y * h)
    BY <1>0, <2>2, <2>4, <2>5
  <2>7. Cong(y1, z1)
    BY <2>2, <2>3, <2>6, CongRules
  <2>8. y1 = z1
    BY <2>2, <2>7, Residues
  <2> QED BY <2>1, <2>8 DEF y1, z1
<1>3. S = Nat
  <2> HIDE DEF S
  <2>1. S \subseteq Nat BY DEF S
  <2> QED BY <1>1, <1>2, <2>1, SetInduction
<1> QED BY <1>3

-----------------------------------------------------------------------------
\* Neither factor vanishes modulo the prime, so the product does not (Euclid).
LEMMA NoZeroDivisors ==
  ASSUME NEW i \in 1..(Prime - 1), NEW j \in 1..(Prime - 1)
  PROVE  (i * j) % Prime # 0
<1>0. Prime \in Nat /\ Prime > 2 /\ i \in Nat /\ j \in Nat /\ i \in Int /\ j \in Int
  BY SrpAssumption
<1>1. SUFFICES ASSUME (i * j) % Prime = 0 PROVE FALSE
  OBVIOUS
<1> DEFINE S == {n \in Nat : n > 0 /\ Cong(n * j, 0)}
<1>2. i \in S
  <2>1. i * j \in Int
    BY <1>0
  <2> QED BY <1>0, <1>1, <2>1, ModFacts
<1>3. PICK m \in S : \A n \in S : m <= n
  <2>1. S \subseteq Nat /\ S # {}
    BY <1>2
  <2> HIDE DEF S
  <2> QED BY <2>1, LeastNat
<1>4. m \in Nat /\ m > 0 /\ m <= i /\ m < Prime /\ Cong(m * j, 0)
  BY <1>0, <1>2, <1>3
<1> DEFINE q == Prime \div m
           r == Prime % m
<1>5. q \in Int /\ r \in Nat /\ r < m /\ Prime = m * q + r
  BY <1>0, <1>4
<1>6. Cong(r * j, 0)
  <2>1. PICK k \in Int : m * j = 0 + k * Prime
    BY <1>4 DEF Cong
  <2> HIDE DEF q, r
  <2>2. r = Prime - m * q
    BY <1>0, <1>4, <1>5
  <2>3. r * j = Prime * j - q * (m * j)
    BY <1>0, <1>4, <1>5, <2>2
  <2>4. m * j = k * Prime
    BY <1>0, <2>1
  <2>5. q * (m * j) = (q * k) * Prime
    BY <1>0, <1>5, <2>4
  <2>6. r * j = 0 + (j - q * k) * Prime /\ j - q * k \in Int
    BY <1>0, <1>5, <2>3, <2>5
  <2> QED BY <2>6 DEF Cong
<1>7. r = 0
  <2> HIDE DEF r
  <2>1. r > 0 => r \in S
    BY <1>5, <1>6
  <2> QED BY <1>3, <1>4, <1>5, <2>1
<1>8. m = 1
  <2>1. m \notin 2..(Prime - 1)
    BY <1>7, SrpAssumption
  <2> QED BY <1>0, <1>4, <2>1
<1>9. PICK k \in Int : j = k * Prime
  <2>1. m * j = j
    BY <1>0, <1>8
  <2>2. Cong(j, 0)
    BY <1>4, <2>1
  <2>3. PICK k \in Int : j = 0 + k * Prime
    BY <2>2 DEF Cong
  <2> QED BY <1>0, <2>3
<1>10. k * Prime \in Int /\ (k >= 1 => k * Prime >= Prime) /\ (k <= -1 => k * Prime <= -Prime)
  BY <1>0, Products
<1>11. k # 0
  BY <1>0, <1>9
<1> QED BY <1>0, <1>9, <1>10, <1>11

LEMMA PowersDoNotVanish ==
  ASSUME NEW b \in 1..(Prime - 1), NEW n \in Nat
  PROVE  ModPow(b, n) \in 1..(Prime - 1)
<1> DEFINE S == {m \in Nat : ModPow(b, m) \in 1..(Prime - 1)}
<1>0. b \in Int
  BY SrpAssumption
<1>1. 0 \in S
  BY <1>0, ModPowSteps, SrpAssumption
<1>2. ASSUME NEW m \in S PROVE m + 1 \in S
  <2>1. m \in Nat /\ m + 1 \in Nat /\ ModPow(b, m) \in 1..(Prime - 1)
    OBVIOUS
  <2>2. ModPow(b, m + 1) = (ModPow(b, m) * b) % Prime
    BY <1>0, <2>1, ModPowSteps
  <2>3. ModPow(b, m + 1) # 0
    BY <2>1, <2>2, NoZeroDivisors
  <2>4. ModPow(b, m + 1) \in 0..(Prime - 1)
    BY <1>0, <2>1, ModPowType
  <2> QED BY <2>1, <2>3, <2>4, SrpAssumption
<1>3. S = Nat
  <2> HIDE DEF S
  <2>1. S \subseteq Nat BY DEF S
  <2> QED BY <1>1, <1>2, <2>1, SetInduction
<1> QED BY <1>3

-----------------------------------------------------------------------------
\* Both ends raise the generator to the same power.
LEMMA ServerPower ==
  ASSUME NEW a \in Nat, NEW b \in Nat, NEW x \in Nat, NEW u \in Nat
  PROVE  ServerSecret(PublicA(a), Verifier(x), u, b) = ModPow(Generator, (a + x * u) * b)
<1> DEFINE A == ModPow(Generator, a)
           V == ModPow(Generator, x * u)
<1>0. Generator \in Int /\ x * u \in Nat /\ a + x * u \in Nat
  BY SrpAssumption
<1>1. ModPow(Verifier(x), u) = V
  BY <1>0, PowerOfPower DEF Verifier
<1>2. A \in Int /\ V \in Int /\ A * V \in Int /\ ModPow(Generator, a + x * u) \in Int
  <2>1. A \in Int /\ V \in Int /\ ModPow(Generator, a + x * u) \in Int
    BY <1>0, ModPowType
  <2> HIDE DEF A, V
  <2> QED BY <2>1
<1>3. Cong(ModPow(Generator, a + x * u), A * V)
  BY <1>0, PowerOfSum
<1> HIDE DEF A, V
<1>4. Cong((A * V) % Prime, A * V) /\ (A * V) % Prime \in Int
  BY <1>2, ModFacts, SrpAssumption
<1>5. Cong((A * V) % Prime, ModPow(Generator, a + x * u))
  BY <1>2, <1>3, <1>4, CongRules
<1>6. ModPow((A * V) % Prime, b) = ModPow(ModPow(Generator, a + x * u), b)
  BY <1>2, <1>4, <1>5, CongruentBases
<1>7. ModPow(ModPow(Generator, a + x * u), b) = ModPow(Generator, (a + x * u) * b)
  BY <1>0, PowerOfPower
<1>8. ServerSecret(PublicA(a), Verifier(x), u, b) = ModPow((A * V) % Prime, b)
  BY <1>1 DEF ServerSecret, PublicA, A
<1> QED BY <1>6, <1>7, <1>8

\* What the client subtracts of B is what the receiver added.
LEMMA ClientBase ==
  ASSUME NEW b \in Nat, NEW x \in Nat, NEW k \in Nat
  PROVE  (PublicB(k, Verifier(x), b) + Prime - ((k * Verifier(x)) % Prime)) % Prime
           = ModPow(Generator, b)
<1> DEFINE v == Verifier(x)
           h == ModPow(Generator, b)
           B == (k * v + h) % Prime
           w == (k * v) % Prime
<1>0. Generator \in Int /\ Prime \in Int /\ k \in Int
  BY SrpAssumption
<1>1. v \in Int /\ h \in 0..(Prime - 1) /\ h \in Int
  BY <1>0, ModPowType DEF Verifier
<1> HIDE DEF v, h
<1>2. k * v \in Int /\ k * v + h \in Int
  BY <1>0, <1>1
<1>3. PICK i \in Int : B = (k * v + h) + i * Prime
  BY <1>2, ModFacts DEF Cong
<1>4. PICK j \in Int : w = k * v + j * Prime
  BY <1>2, ModFacts DEF Cong
<1>5. B \in Int /\ w \in Int
  BY <1>0, <1>2, ModFacts
<1> HIDE DEF B, w
<1>6. B + Prime - w = h + (i + 1 - j) * Prime /\ i + 1 - j \in Int /\ B + Prime - w \in Int
  BY <1>0, <1>1, <1>2, <1>3, <1>4, <1>5
<1>7. Cong(B + Prime - w, h)
  BY <1>6 DEF Cong
<1>8. (B + Prime - w) % Prime = h
  BY <1>1, <1>6, <1>7, SameResidue, OwnResidue
<1> QED BY <1>8 DEF PublicB, B, w, v, h

LEMMA ClientPower ==
  ASSUME NEW a \in Nat, NEW b \in Nat, NEW x \in Nat, NEW u \in Nat, NEW k \in Nat
  PROVE  ClientSecret(PublicB(k, Verifier(x), b), k, x, a, u) = ModPow(Generator, b * (a + u * x))
<1>1. Generator \in Int /\ a + u * x \in Nat
  BY SrpAssumption
<1>2. ModPow(ModPow(Generator, b), a + u * x) = ModPow(Generator, b * (a + u * x))
  BY <1>1, PowerOfPower
<1> QED BY <1>2, ClientBase DEF ClientSecret

\* srp.rs: with one password on both sides, and whatever numbers both ends
\* choose, the receiver accepts the sender's proof, both hold the same key, and
\* it is not zero; modulo any prime, for any generator.
THEOREM SecretIsShared == SameSecret
<1> SUFFICES ASSUME NEW a \in Exponents, NEW b \in Exponents, NEW x \in Exponents,
                    NEW k \in Scramblers, NEW u \in Scramblers
             PROVE  LET B == PublicB(k, Verifier(x), b)
                        s == ServerSecret(PublicA(a), Verifier(x), u, b)
                        c == ClientSecret(B, k, x, a, u)
                    IN  /\ s = c /\ s # 0
                        /\ Accepts(PublicA(a), Proof("salt", PublicA(a), B, c), "salt", B, s)
  BY DEF SameSecret
<1> DEFINE B == PublicB(k, Verifier(x), b)
           s == ServerSecret(PublicA(a), Verifier(x), u, b)
           c == ClientSecret(B, k, x, a, u)
<1>1. a \in Nat /\ b \in Nat /\ x \in Nat /\ k \in Nat /\ u \in Nat
  BY SrpAssumption DEF Exponents, Scramblers
<1>2. (a + x * u) * b \in Nat /\ (a + x * u) * b = b * (a + u * x)
  BY <1>1
<1>3. s = ModPow(Generator, (a + x * u) * b)
  BY <1>1, ServerPower
<1>4. c = ModPow(Generator, b * (a + u * x))
  BY <1>1, ClientPower
<1>5. s = c
  BY <1>2, <1>3, <1>4
<1>6. s # 0
  BY <1>2, <1>3, PowersDoNotVanish, SrpAssumption
<1>7. PublicA(a) % Prime # 0
  <2>1. PublicA(a) \in 1..(Prime - 1)
    BY <1>1, PowersDoNotVanish, SrpAssumption DEF PublicA
  <2>2. PublicA(a) % Prime = PublicA(a)
    BY <2>1, OwnResidue, SrpAssumption
  <2> QED BY <2>1, <2>2
<1>8. Accepts(PublicA(a), Proof("salt", PublicA(a), B, c), "salt", B, s)
  BY <1>5, <1>7 DEF Accepts
<1> QED BY <1>5, <1>6, <1>8

\* The powers of the generator differ.
LEMMA VerifiersDiffer ==
  ASSUME NEW x \in Exponents, NEW y \in Exponents, x # y
  PROVE  Verifier(x) # Verifier(y)
BY SrpAssumption DEF Exponents, Verifier

\* srp.rs: whatever the multiplier, with two passwords some choice of the ends
\* gives them two keys.
THEOREM SecretsAreTold == SecretsDiffer
<1> SUFFICES ASSUME NEW x \in Exponents, NEW y \in Exponents, NEW k \in Scramblers, x # y
             PROVE  \E a, b \in Exponents, u \in Scramblers :
                      ServerSecret(PublicA(a), Verifier(x), u, b)
                        # ClientSecret(PublicB(k, Verifier(x), b), k, y, a, u)
  BY DEF SecretsDiffer
<1>0. /\ x \in Nat /\ y \in Nat /\ k \in Nat /\ Generator \in Int
      /\ 1 \in Exponents /\ 0 \in Scramblers /\ 1 \in Scramblers /\ 1 \in Nat /\ 0 \in Nat
      /\ Prime \in Int /\ Prime > 2
  BY SrpAssumption DEF Exponents, Scramblers
<1> DEFINE B == PublicB(k, Verifier(x), 1)
           base == (B + Prime - ((k * Verifier(y)) % Prime)) % Prime
<1>1. CASE k = 0
  <2>1. base = ModPow(Generator, 1)
    <3>1. Verifier(x) \in Int /\ Verifier(y) \in Int
      BY <1>0, ModPowType DEF Verifier
    <3>2. k * Verifier(x) = 0 /\ k * Verifier(y) = 0
      BY <1>1, <3>1
    <3>3. base = (PublicB(k, Verifier(x), 1) + Prime - ((k * Verifier(x)) % Prime)) % Prime
      BY <3>2
    <3> QED BY <1>0, <3>3, ClientBase
  <2>2. ClientSecret(B, k, y, 1, 1) = ModPow(Generator, 1 * (1 + 1 * y))
    <3>1. 1 + 1 * y \in Nat
      BY <1>0
    <3>2. ClientSecret(B, k, y, 1, 1) = ModPow(ModPow(Generator, 1), 1 + 1 * y)
      BY <2>1 DEF ClientSecret
    <3> QED BY <1>0, <3>1, <3>2, PowerOfPower
  <2>3. ServerSecret(PublicA(1), Verifier(x), 1, 1) = ModPow(Generator, (1 + x * 1) * 1)
    BY <1>0, ServerPower
  <2>4. 1 * (1 + 1 * y) = y + 1 /\ (1 + x * 1) * 1 = x + 1 /\ x + 1 # y + 1
        /\ x + 1 \in 1..(Prime - 1) /\ y + 1 \in 1..(Prime - 1)
    BY <1>0 DEF Exponents
  <2>5. ModPow(Generator, x + 1) # ModPow(Generator, y + 1)
    BY <2>4, SrpAssumption
  <2> QED BY <1>0, <2>2, <2>3, <2>4, <2>5
<1>2. CASE k # 0
  <2> DEFINE v == Verifier(x)
             w == Verifier(y)
             h == ModPow(Generator, 1)
  <2>1. v \in 0..(Prime - 1) /\ v \in Int /\ w \in 0..(Prime - 1) /\ w \in Int
        /\ h \in 0..(Prime - 1) /\ h \in Int
    BY <1>0, ModPowType DEF Verifier
  <2>2. v # w
    BY VerifiersDiffer
  <2>3. ServerSecret(PublicA(1), Verifier(x), 0, 1) = h
    <3>1. (1 + x * 0) * 1 = 1
      BY <1>0
    <3> QED BY <1>0, <3>1, ServerPower
  <2>4. base \in Int /\ base \in 0..(Prime - 1) /\ Cong(base, (k * v + h) - k * w)
    <3> HIDE DEF v, w, h
    <3> DEFINE s == k * v + h
               z == k * w
               p == s % Prime
               r == z % Prime
    <3>1. s \in Int /\ z \in Int /\ s - z \in Int
      BY <1>0, <2>1
    <3> HIDE DEF s, z
    <3>2. PICK i \in Int : p = s + i * Prime
      BY <3>1, ModFacts DEF Cong
    <3>3. PICK j \in Int : r = z + j * Prime
      BY <3>1, ModFacts DEF Cong
    <3>4. p \in Int /\ r \in Int
      BY <1>0, <3>1, ModFacts
    <3> HIDE DEF p, r
    <3> DEFINE whole == p + Prime - r
               diff == s - z
    <3>5. whole = diff + (i + 1 - j) * Prime /\ i + 1 - j \in Int /\ whole \in Int /\ diff \in Int
      BY <1>0, <3>1, <3>2, <3>3, <3>4
    <3>6. base = whole % Prime
      BY DEF PublicB, p, r, s, z, v, w, h
    <3> HIDE DEF base, whole, diff
    <3>7. Cong(whole, diff)
      BY <3>5 DEF Cong
    <3>8. base \in Int /\ base \in 0..(Prime - 1) /\ Cong(base, whole)
      <4>1. whole % Prime \in 0..(Prime - 1) /\ Cong(whole % Prime, whole)
        BY <3>5, ModFacts, Zenon
      <4>2. base \in 0..(Prime - 1) /\ Cong(base, whole)
        BY <3>6, <4>1, Zenon
      <4> QED BY <1>0, <4>2
    <3>9. Cong(base, diff)
      BY <3>5, <3>7, <3>8, CongRules
    <3> QED BY <3>8, <3>9, Zenon DEF s, z, diff
  <2>5. ClientSecret(B, k, y, 1, 0) = base
    <3>1. 1 + 0 * y = 0 + 1
      BY <1>0
    <3>2. ClientSecret(B, k, y, 1, 0) = ModPow(base, 0 + 1)
      BY <3>1 DEF ClientSecret
    <3> HIDE DEF base
    <3>3. ModPow(base, 0 + 1) = (1 * base) % Prime
      BY <1>0, <2>4, ModPowSteps
    <3>4. 1 * base = base
      BY <2>4
    <3> QED BY <2>4, <3>2, <3>3, <3>4, OwnResidue
  <2>6. base # h
    <3> HIDE DEF base, v, w, h
    <3>1. SUFFICES ASSUME base = h PROVE FALSE
      OBVIOUS
    <3>2. PICK i \in Int : h = ((k * v + h) - k * w) + i * Prime
      BY <2>4, <3>1 DEF Cong
    <3>3. k * (v - w) = (-i) * Prime /\ k * (w - v) = i * Prime
      BY <1>0, <2>1, <3>2
    <3>4. k \in 1..(Prime - 1)
      BY <1>0, <1>2 DEF Scramblers
    <3>5. ASSUME NEW d \in 1..(Prime - 1), NEW n \in Int, k * d = n * Prime PROVE FALSE
      <4>1. k * d \in Int /\ k * d = 0 + n * Prime
        BY <1>0, <3>5
      <4>2. Cong(k * d, 0)
        BY <4>1 DEF Cong
      <4>3. (k * d) % Prime = 0 % Prime /\ 0 % Prime = 0
        BY <1>0, <4>1, <4>2, SameResidue, OwnResidue
      <4> QED BY <3>4, <4>3, NoZeroDivisors
    <3>6. v - w \in 1..(Prime - 1) \/ w - v \in 1..(Prime - 1)
      BY <1>0, <2>1, <2>2
    <3>7. -i \in Int
      OBVIOUS
    <3> QED BY <3>3, <3>5, <3>6, <3>7
  <2> HIDE DEF base, v, w, h
  <2>7. ServerSecret(PublicA(1), Verifier(x), 0, 1) # ClientSecret(B, k, y, 1, 0)
    BY <2>3, <2>5, <2>6
  <2> QED BY <1>0, <2>7
<1> QED BY <1>1, <1>2

\* pairing.rs and srp.rs: what the model's gate decides by who knows the password
\* is what the two ends compute in the exchange the receiver has begun.
THEOREM PasswordDecides == Spec => []SrpAgrees
<1>1. SrpAgrees
  BY SecretIsShared, SecretsAreTold DEF SrpAgrees
<1> QED BY <1>1, PTL

-----------------------------------------------------------------------------
\* The items read from a wire's first fragments, as Decode reads them.
Reads(read, wire, n) ==
  read = [i \in 0..n |-> IF i = 0 THEN <<>> ELSE Add(read[i - 1], wire[i])]

LEMMA ReadsExist ==
  ASSUME NEW wire, NEW n \in Nat
  PROVE  \E read : Reads(read, wire, n)
<1> DEFINE S == {m \in Nat : \E read : Reads(read, wire, m)}
<1>1. 0 \in S
  <2> DEFINE r == [i \in 0..0 |-> <<>>]
  <2>1. Reads(r, wire, 0)
    BY DEF Reads
  <2> QED BY <2>1
<1>2. ASSUME NEW m \in S PROVE m + 1 \in S
  <2>1. PICK read : Reads(read, wire, m)
    OBVIOUS
  <2> DEFINE next == Add(read[m], wire[m + 1])
             r == [i \in 0..(m + 1) |-> IF i = m + 1 THEN next ELSE read[i]]
  <2>2. m \in Nat /\ m + 1 \in Nat
    OBVIOUS
  <2>3. ASSUME NEW i \in 0..(m + 1)
        PROVE  r[i] = IF i = 0 THEN <<>> ELSE Add(r[i - 1], wire[i])
    <3>1. CASE i = m + 1
      <4>1. i # 0 /\ i - 1 = m /\ m \in 0..(m + 1) /\ m # m + 1
        BY <2>2, <3>1
      <4>2. r[i] = Add(read[m], wire[i]) /\ r[i - 1] = read[m]
        BY <3>1, <4>1
      <4> HIDE DEF r
      <4> QED BY <4>1, <4>2
    <3>2. CASE i # m + 1
      <4>1. i \in 0..m /\ (i # 0 => i - 1 \in 0..(m + 1) /\ i - 1 # m + 1)
        BY <2>2, <3>2
      <4>2. r[i] = read[i] /\ (i # 0 => r[i - 1] = read[i - 1])
        BY <3>2, <4>1
      <4>3. read[i] = IF i = 0 THEN <<>> ELSE Add(read[i - 1], wire[i])
        BY <2>1, <4>1 DEF Reads
      <4> HIDE DEF r
      <4> QED BY <4>2, <4>3
    <3> QED BY <3>1, <3>2
  <2>4. Reads(r, wire, m + 1)
    <3>1. r = [i \in 0..(m + 1) |-> r[i]]
      OBVIOUS
    <3> HIDE DEF r
    <3> QED BY <2>3, <3>1 DEF Reads
  <2> QED BY <2>2, <2>4
<1>3. S = Nat
  <2> HIDE DEF S
  <2>1. S \subseteq Nat BY DEF S
  <2> QED BY <1>1, <1>2, <2>1, SetInduction
<1> QED BY <1>3

\* Wires that begin alike are read alike that far.
LEMMA ReadsAgree ==
  ASSUME NEW n \in Nat, NEW p, NEW q, \A i \in 1..n : p[i] = q[i],
         NEW r, Reads(r, p, n), NEW s, Reads(s, q, n + 1)
  PROVE  r[n] = s[n]
<1> DEFINE S == {j \in Nat : j <= n => r[j] = s[j]}
<1>1. 0 \in S
  BY DEF Reads
<1>2. ASSUME NEW j \in S PROVE j + 1 \in S
  <2>1. j \in Nat /\ (j + 1) - 1 = j /\ j + 1 # 0
    OBVIOUS
  <2>2. ASSUME j + 1 <= n PROVE r[j + 1] = s[j + 1]
    <3>1. j + 1 \in 0..n /\ j + 1 \in 0..(n + 1) /\ j + 1 \in 1..n /\ r[j] = s[j]
      BY <2>1, <2>2
    <3>2. r[j + 1] = Add(r[j], p[j + 1]) /\ s[j + 1] = Add(s[j], q[j + 1])
      BY <2>1, <3>1 DEF Reads
    <3>3. p[j + 1] = q[j + 1]
      BY <3>1
    <3> QED BY <3>1, <3>2, <3>3
  <2> QED BY <2>1, <2>2
<1>3. S = Nat
  <2> HIDE DEF S
  <2>1. S \subseteq Nat BY DEF S
  <2> QED BY <1>1, <1>2, <2>1, SetInduction
<1> QED BY <1>3

LEMMA DecodeIs ==
  ASSUME NEW F, NEW wire \in Seq(F)
  PROVE  \E read : Reads(read, wire, Len(wire)) /\ Decode(wire) = read[Len(wire)]
<1>1. Len(wire) \in Nat
  OBVIOUS
<1>2. Reads(CHOOSE read : Reads(read, wire, Len(wire)), wire, Len(wire))
  BY <1>1, ReadsExist
<1>3. Decode(wire) = (CHOOSE read : Reads(read, wire, Len(wire)))[Len(wire)]
  BY DEF Decode, Reads
<1> QED BY <1>2, <1>3

\* Decode, one fragment at a time.
LEMMA DecodeNothing == Decode(<<>>) = <<>>
<1>1. <<>> \in Seq({}) /\ Len(<<>>) = 0
  OBVIOUS
<1>2. PICK read : Reads(read, <<>>, Len(<<>>)) /\ Decode(<<>>) = read[Len(<<>>)]
  BY <1>1, DecodeIs
<1>3. read[0] = <<>>
  BY <1>1, <1>2 DEF Reads
<1> QED BY <1>1, <1>2, <1>3

LEMMA DecodeAppend ==
  ASSUME NEW F, NEW wire \in Seq(F), NEW f \in F
  PROVE  Decode(Append(wire, f)) = Add(Decode(wire), f)
<1> DEFINE n == Len(wire)
           w == Append(wire, f)
<1>1. n \in Nat /\ w \in Seq(F) /\ Len(w) = n + 1 /\ (\A i \in 1..n : wire[i] = w[i]) /\ w[n + 1] = f
  OBVIOUS
<1>2. PICK r : Reads(r, wire, n) /\ Decode(wire) = r[n]
  BY DecodeIs
<1> HIDE DEF n, w
<1>3. PICK s : Reads(s, w, n + 1) /\ Decode(w) = s[n + 1]
  BY <1>1, DecodeIs
<1>4. n + 1 \in Nat /\ n + 1 # 0 /\ n + 1 \in 0..(n + 1) /\ (n + 1) - 1 = n
  BY <1>1
<1>5. s[n] = r[n]
  BY <1>1, <1>2, <1>3, <1>4, ReadsAgree
<1>6. s[n + 1] = Add(s[n], w[n + 1])
  BY <1>3, <1>4 DEF Reads
<1>7. Decode(w) = Add(Decode(wire), f)
  BY <1>1, <1>2, <1>3, <1>5, <1>6
<1> QED BY <1>7 DEF w

-----------------------------------------------------------------------------
\* A value's chunks.

LEMMA Quotient ==
  ASSUME NEW n \in Nat \ {0}
  PROVE  LET k == (n + Fragment - 1) \div Fragment
         IN  /\ k \in Nat /\ k >= 1
             /\ k * Fragment >= n
             /\ \A c \in Nat : c < k => c * Fragment < n
<1> DEFINE x == n + Fragment - 1
           k == x \div Fragment
           r == x % Fragment
<1>0. Fragment \in Nat /\ Fragment > 0 /\ n \in Nat /\ n > 0 /\ x \in Nat
  BY TlvAssumption
<1>1. k \in Int /\ r \in 0..(Fragment - 1) /\ x = Fragment * k + r
  BY <1>0
<1>2. x = n + Fragment - 1
  OBVIOUS
<1> HIDE DEF x, k, r
<1>3. k * Fragment = n + Fragment - 1 - r /\ k * Fragment >= n /\ k * Fragment < n + Fragment
  BY <1>0, <1>1, <1>2
<1>4. k >= 1
  <2>1. k <= 0 => k * Fragment <= 0
    BY <1>0, <1>1
  <2> QED BY <1>0, <1>1, <1>3, <2>1
<1>5. ASSUME NEW c \in Nat, c < k PROVE c * Fragment < n
  <2>1. k - c - 1 \in Nat
    BY <1>1, <1>5
  <2>2. (k - c - 1) * Fragment >= 0 /\ (k - c - 1) * Fragment = k * Fragment - c * Fragment - Fragment
    BY <1>0, <1>1, <2>1
  <2>3. c * Fragment \in Int /\ k * Fragment \in Int
    BY <1>0, <1>1
  <2> QED BY <1>0, <1>3, <2>2, <2>3
<1>6. k \in Nat
  BY <1>1, <1>4
<1> QED BY <1>3, <1>4, <1>5, <1>6 DEF k, x

\* A prefix of a value, and the next of its bytes.
LEMMA SubSeqsOfValue ==
  ASSUME NEW Byte, NEW val \in Seq(Byte), NEW a \in 0..Len(val), NEW b \in a..Len(val)
  PROVE  /\ SubSeq(val, 1, a) \in Seq(Byte) /\ Len(SubSeq(val, 1, a)) = a
         /\ SubSeq(val, a + 1, b) \in Seq(Byte)
         /\ SubSeq(val, 1, a) \o SubSeq(val, a + 1, b) = SubSeq(val, 1, b)
OBVIOUS

LEMMA LastOfAppend ==
  ASSUME NEW T, NEW s \in Seq(T), NEW x \in T
  PROVE  /\ Append(s, x) # <<>> /\ Append(s, x) \in Seq(T)
         /\ Last(Append(s, x)) = x /\ Front(Append(s, x)) = s
BY DEF Last, Front

-----------------------------------------------------------------------------
Items(T, B) == [ty : T, val : Seq(B)]

LEMMA ItemType ==
  ASSUME NEW T, NEW B, NEW ty \in T, NEW v \in Seq(B)
  PROVE  Item(ty, v) \in Items(T, B) /\ Item(ty, v).ty = ty /\ Item(ty, v).val = v
BY DEF Item, Items

\* The c-th chunk of a value ends at the c-th multiple of a fragment, or with it.
End(v, c) == IF c * Fragment < Len(v) THEN c * Fragment ELSE Len(v)

LEMMA ChunksAre ==
  ASSUME NEW B, NEW v \in Seq(B), v # <<>>
  PROVE  LET n == Len(Chunks(v))
         IN  /\ n \in Nat /\ n >= 1 /\ End(v, n) = Len(v)
             /\ Chunks(v) \in Seq(Seq(B))
             /\ \A c \in Nat : c < n =>
                  /\ End(v, c) = c * Fragment /\ End(v, c) \in 0..Len(v)
                  /\ End(v, c + 1) \in End(v, c)..Len(v) /\ End(v, c + 1) > End(v, c)
                  /\ c + 1 \in 1..n
                  /\ Chunks(v)[c + 1] = SubSeq(v, End(v, c) + 1, End(v, c + 1))
<1> DEFINE L == Len(v)
           k == (L + Fragment - 1) \div Fragment
           chunk(i) == SubSeq(v, (i - 1) * Fragment + 1, IF i * Fragment < Len(v) THEN i * Fragment ELSE Len(v))
<1>0. L \in Nat \ {0} /\ Fragment \in Nat /\ Fragment > 0
  BY TlvAssumption
<1>1. k \in Nat /\ k >= 1 /\ k * Fragment >= L /\ \A c \in Nat : c < k => c * Fragment < L
  <2> HIDE DEF L
  <2> QED BY <1>0, Quotient
<1>2. Chunks(v) = [i \in 1..k |-> chunk(i)]
  BY DEF Chunks
<1> HIDE DEF k
<1>3. ASSUME NEW i \in 1..k PROVE chunk(i) \in Seq(B)
  <2>1. (i - 1) * Fragment \in Nat
    <3>1. i - 1 \in Nat
      BY <1>1
    <3> QED BY <1>0, <3>1
  <2>2. ASSUME NEW a \in Nat, NEW b \in Nat, b <= Len(v) PROVE SubSeq(v, a + 1, b) \in Seq(B)
    BY <2>2
  <2>3. i * Fragment \in Nat
    <3>1. i \in Nat
      BY <1>1
    <3> QED BY <1>0, <3>1
  <2> DEFINE b == IF i * Fragment < Len(v) THEN i * Fragment ELSE Len(v)
  <2>4. b \in Nat /\ b <= Len(v)
    BY <1>0, <2>3
  <2> HIDE DEF b
  <2>5. SubSeq(v, (i - 1) * Fragment + 1, b) \in Seq(B)
    BY <2>1, <2>2, <2>4
  <2> QED BY <2>5 DEF b
<1>4. Chunks(v) \in Seq(Seq(B)) /\ Len(Chunks(v)) = k
  <2> HIDE DEF chunk
  <2> QED BY <1>1, <1>2, <1>3
<1>5. End(v, k) = L
  BY <1>0, <1>1 DEF End
<1>6. ASSUME NEW c \in Nat, c < k
      PROVE  /\ End(v, c) = c * Fragment /\ End(v, c) \in 0..L
             /\ End(v, c + 1) \in End(v, c)..L /\ End(v, c + 1) > End(v, c)
             /\ c + 1 \in 1..k
             /\ Chunks(v)[c + 1] = SubSeq(v, End(v, c) + 1, End(v, c + 1))
  <2>1. c * Fragment < L /\ c * Fragment \in Nat /\ (c + 1) * Fragment = c * Fragment + Fragment
    BY <1>0, <1>1, <1>6
  <2>2. End(v, c) = c * Fragment
    BY <2>1 DEF End
  <2>3. End(v, c + 1) = IF c * Fragment + Fragment < L THEN c * Fragment + Fragment ELSE L
    BY <2>1 DEF End
  <2>4. End(v, c + 1) \in (c * Fragment)..L /\ End(v, c + 1) > c * Fragment /\ c * Fragment \in 0..L
    <3> DEFINE x == c * Fragment
    <3>1. x \in Nat /\ x < L /\ End(v, c + 1) = IF x + Fragment < L THEN x + Fragment ELSE L
      BY <2>1, <2>3
    <3> HIDE DEF x, L
    <3>2. End(v, c + 1) \in x..L /\ End(v, c + 1) > x /\ x \in 0..L
      BY <1>0, <3>1
    <3> QED BY <3>2 DEF x
  <2>5. c + 1 \in 1..k /\ (c + 1) - 1 = c
    BY <1>1, <1>6
  <2>6. Chunks(v)[c + 1] = SubSeq(v, c * Fragment + 1, End(v, c + 1))
    <3>1. Chunks(v)[c + 1] = chunk(c + 1)
      <4> HIDE DEF chunk
      <4> QED BY <1>2, <2>5
    <3> QED BY <2>5, <3>1 DEF End
  <2> QED BY <2>2, <2>4, <2>5, <2>6
<1> QED BY <1>1, <1>4, <1>5, <1>6

\* What decides whether a fragment of type ty continues an item.
Joins(last, ty) == last.ty = ty /\ last.val # <<>> /\ Len(last.val) % Fragment = 0

LEMMA AddNew ==
  ASSUME NEW F, NEW acc \in Seq(F), NEW f \in F, acc = <<>> \/ ~ Joins(Last(acc), f.ty)
  PROVE  Add(acc, f) = Append(acc, f)
BY DEF Add, Continues, Joins

LEMMA AddMore ==
  ASSUME NEW F, NEW acc \in Seq(F), NEW item \in F, NEW f, Joins(item, f.ty)
  PROVE  Add(Append(acc, item), f) = Append(acc, Item(f.ty, item.val \o f.val))
<1>1. Append(acc, item) # <<>> /\ Last(Append(acc, item)) = item /\ Front(Append(acc, item)) = acc
  BY LastOfAppend
<1> QED BY <1>1 DEF Add, Continues, Joins

LEMMA FragmentsType ==
  ASSUME NEW T, NEW B, NEW item \in Items(T, B)
  PROVE  Fragments(item) \in Seq(Items(T, B))
<1>1. CASE item.val = <<>>
  <2>1. <<item>> \in Seq(Items(T, B))
    OBVIOUS
  <2> QED BY <1>1, <2>1 DEF Fragments
<1>2. CASE item.val # <<>>
  <2> DEFINE n == Len(Chunks(item.val))
  <2>1. item.ty \in T /\ item.val \in Seq(B)
    BY DEF Items
  <2>2. n \in Nat /\ Chunks(item.val) \in Seq(Seq(B))
    BY <1>2, <2>1, ChunksAre
  <2>3. \A i \in 1..n : Chunks(item.val)[i] \in Seq(B)
    BY <2>2
  <2>4. \A i \in 1..n : Item(item.ty, Chunks(item.val)[i]) \in Items(T, B)
    BY <2>1, <2>3, ItemType
  <2>5. Fragments(item) = [i \in 1..n |-> Item(item.ty, Chunks(item.val)[i])]
    BY <1>2 DEF Fragments
  <2> HIDE DEF n
  <2> QED BY <2>2, <2>4, <2>5
<1> QED BY <1>1, <1>2

\* An item's fragments are read as that item, behind one they do not continue.
LEMMA ItemReads ==
  ASSUME NEW T, NEW B, NEW wire \in Seq(Items(T, B)), NEW item \in Items(T, B),
         Decode(wire) \in Seq(Items(T, B)),
         Decode(wire) = <<>> \/ ~ Joins(Last(Decode(wire)), item.ty)
  PROVE  Decode(wire \o Fragments(item)) = Append(Decode(wire), item)
<1> DEFINE F == Items(T, B)
           acc == Decode(wire)
           ty == item.ty
           v == item.val
           n == Len(Chunks(v))
           frags == Fragments(item)
<1>0. /\ ty \in T /\ v \in Seq(B) /\ item = Item(ty, v)
      /\ wire \in Seq(F) /\ item \in F /\ acc \in Seq(F) /\ frags \in Seq(F)
      /\ acc = <<>> \/ ~ Joins(Last(acc), ty)
  BY FragmentsType DEF Items, Item
<1>1. CASE v = <<>>
  <2>1. frags = <<item>>
    BY <1>1 DEF Fragments
  <2>2. wire \o <<item>> = Append(wire, item)
    OBVIOUS
  <2>3. Decode(Append(wire, item)) = Add(acc, item)
    BY DecodeAppend
  <2>4. Add(acc, item) = Append(acc, item)
    <3> HIDE DEF acc
    <3> QED BY <1>0, AddNew
  <2> QED BY <2>1, <2>2, <2>3, <2>4
<1>2. CASE v # <<>>
  <2> DEFINE first(c) == SubSeq(frags, 1, c)
             part(c) == Item(ty, SubSeq(v, 1, End(v, c)))
             S == {c \in Nat : c >= 1 /\ c <= n => Decode(wire \o first(c)) = Append(acc, part(c))}
  <2>1. /\ n \in Nat /\ n >= 1 /\ End(v, n) = Len(v)
        /\ Chunks(v) \in Seq(Seq(B))
        /\ \A c \in Nat : c < n =>
              /\ End(v, c) = c * Fragment /\ End(v, c) \in 0..Len(v)
              /\ End(v, c + 1) \in End(v, c)..Len(v) /\ End(v, c + 1) > End(v, c)
              /\ c + 1 \in 1..n
              /\ Chunks(v)[c + 1] = SubSeq(v, End(v, c) + 1, End(v, c + 1))
    <3> HIDE DEF v
    <3> QED BY <1>0, <1>2, ChunksAre
  <2>2. frags = [i \in 1..n |-> Item(ty, Chunks(v)[i])] /\ Len(frags) = n
        /\ \A i \in 1..n : frags[i] = Item(ty, Chunks(v)[i])
    <3>1. frags = [i \in 1..n |-> Item(ty, Chunks(v)[i])]
      BY <1>2 DEF Fragments
    <3> HIDE DEF frags, n
    <3> QED BY <2>1, <3>1
  <2> HIDE DEF n, frags, ty, v, acc, F
  <2>3. ASSUME NEW c \in Nat, c < n
        PROVE  /\ wire \o first(c + 1) = Append(wire \o first(c), frags[c + 1])
               /\ wire \o first(c) \in Seq(F) /\ frags[c + 1] \in F
               /\ frags[c + 1] = Item(ty, SubSeq(v, End(v, c) + 1, End(v, c + 1)))
    <3>1. c + 1 \in 1..n /\ c + 1 \in 1..Len(frags)
      BY <2>1, <2>2, <2>3
    <3>2. frags[c + 1] \in F
      BY <1>0, <3>1
    <3>3. first(c) \in Seq(F) /\ first(c + 1) = Append(first(c), frags[c + 1])
      BY <1>0, <3>1
    <3> HIDE DEF first
    <3>4. wire \o Append(first(c), frags[c + 1]) = Append(wire \o first(c), frags[c + 1])
          /\ wire \o first(c) \in Seq(F)
      <4> DEFINE p == first(c)
                 f == frags[c + 1]
      <4>1. p \in Seq(F) /\ f \in F
        BY <3>2, <3>3
      <4> HIDE DEF p, f
      <4>2. wire \o Append(p, f) = Append(wire \o p, f) /\ wire \o p \in Seq(F)
        BY <1>0, <4>1
      <4> QED BY <4>2 DEF p, f
    <3>5. frags[c + 1] = Item(ty, Chunks(v)[c + 1])
      BY <2>2, <3>1
    <3> QED BY <2>1, <2>3, <3>2, <3>3, <3>4, <3>5
  <2>4. 0 \in S
    OBVIOUS
  <2>5. ASSUME NEW c \in S PROVE c + 1 \in S
    <3>1. c \in Nat /\ c + 1 \in Nat
      OBVIOUS
    <3>2. SUFFICES ASSUME c + 1 <= n
                   PROVE  Decode(wire \o first(c + 1)) = Append(acc, part(c + 1))
      BY <3>1
    <3>3. c < n
      BY <2>1, <3>1, <3>2
    <3> DEFINE f == frags[c + 1]
               chunk == SubSeq(v, End(v, c) + 1, End(v, c + 1))
    <3>4. Decode(wire \o first(c + 1)) = Add(Decode(wire \o first(c)), f)
      <4> HIDE DEF first
      <4> QED BY <2>3, <3>1, <3>3, DecodeAppend
    <3>5. f = Item(ty, chunk) /\ f \in F /\ f.ty = ty /\ f.val = chunk
      BY <2>3, <3>1, <3>3 DEF Item
    <3>6. /\ SubSeq(v, 1, End(v, c)) \in Seq(B) /\ Len(SubSeq(v, 1, End(v, c))) = End(v, c)
          /\ SubSeq(v, 1, End(v, c)) \o chunk = SubSeq(v, 1, End(v, c + 1))
          /\ chunk \in Seq(B)
      <4> DEFINE d == End(v, c)
                 e == End(v, c + 1)
      <4>1. v \in Seq(B) /\ d \in 0..Len(v) /\ e \in d..Len(v)
        BY <1>0, <2>1, <3>1, <3>3
      <4> HIDE DEF d, e
      <4>2. /\ SubSeq(v, 1, d) \in Seq(B) /\ Len(SubSeq(v, 1, d)) = d
            /\ SubSeq(v, 1, d) \o SubSeq(v, d + 1, e) = SubSeq(v, 1, e)
            /\ SubSeq(v, d + 1, e) \in Seq(B)
        BY <4>1, SubSeqsOfValue
      <4> QED BY <4>2 DEF d, e
    <3>7. CASE c = 0
      <4>1. first(0) = <<>> /\ wire \o <<>> = wire
        BY <1>0
      <4>2. End(v, 0) = 0
        BY <2>1, <3>3, <3>7, TlvAssumption
      <4>3. Add(acc, f) = Append(acc, f)
        <5> HIDE DEF f
        <5> QED BY <1>0, <3>5, AddNew
      <4>4. f = part(c + 1)
        <5>1. SubSeq(v, 1, End(v, c)) = <<>> /\ <<>> \o chunk = chunk
          <6>1. End(v, c) = 0
            BY <3>7, <4>2
          <6>2. SubSeq(v, 1, 0) = <<>>
            BY <1>0
          <6>3. <<>> \o chunk = chunk
            <7> HIDE DEF chunk
            <7> QED BY <3>6
          <6> QED BY <6>1, <6>2, <6>3
        <5> HIDE DEF chunk, f
        <5> QED BY <3>5, <3>6, <5>1
      <4> HIDE DEF first, part, f
      <4> QED BY <3>4, <3>7, <4>1, <4>3, <4>4 DEF acc
    <3>8. CASE c # 0
      <4>1. Decode(wire \o first(c)) = Append(acc, part(c))
        <5>1. c >= 1 /\ c <= n
          BY <2>1, <3>1, <3>3, <3>8
        <5> QED BY <5>1
      <4>2. part(c).ty = ty /\ part(c).val = SubSeq(v, 1, End(v, c)) /\ part(c) \in F
        <5> DEFINE w == SubSeq(v, 1, End(v, c))
        <5>1. ty \in T /\ w \in Seq(B)
          BY <1>0, <3>6
        <5> HIDE DEF w
        <5>2. Item(ty, w).ty = ty /\ Item(ty, w).val = w /\ Item(ty, w) \in Items(T, B)
          BY <5>1, ItemType
        <5> QED BY <5>2 DEF w, F
      <4>3. Joins(part(c), f.ty)
        <5>1. End(v, c) = c * Fragment /\ Len(part(c).val) = c * Fragment
          BY <2>1, <3>1, <3>3, <3>6, <4>2
        <5>2. c * Fragment > 0 /\ (c * Fragment) % Fragment = 0
          <6>1. Fragment \in Nat /\ Fragment > 0 /\ c \in Nat /\ c > 0
            BY <3>1, <3>8, TlvAssumption
          <6>2. c * Fragment > 0
            BY <6>1
          <6> QED BY <6>1, <6>2
        <5>3. part(c).val # <<>>
          BY <5>1, <5>2
        <5> QED BY <3>5, <4>2, <5>1, <5>2, <5>3 DEF Joins
      <4>4. Add(Append(acc, part(c)), f) = Append(acc, Item(f.ty, part(c).val \o f.val))
        <5> HIDE DEF part, f
        <5> QED BY <1>0, <4>2, <4>3, AddMore
      <4>5. Item(f.ty, part(c).val \o f.val) = part(c + 1)
        <5>1. part(c).val \o f.val = SubSeq(v, 1, End(v, c + 1))
          BY <3>5, <3>6, <4>2
        <5> QED BY <3>5, <5>1
      <4> HIDE DEF part, f, first
      <4> QED BY <3>4, <4>1, <4>4, <4>5
    <3> QED BY <3>7, <3>8
  <2>6. S = Nat
    <3> HIDE DEF S
    <3>1. S \subseteq Nat BY DEF S
    <3> QED BY <2>4, <2>5, <3>1, SetInduction
  <2>7. Decode(wire \o first(n)) = Append(acc, part(n))
    <3>1. n \in S /\ n >= 1 /\ n <= n
      <4> HIDE DEF S
      <4> QED BY <2>1, <2>6
    <3> HIDE DEF first, part
    <3> QED BY <3>1
  <2>8. first(n) = frags
    <3>1. frags \in Seq(F) /\ n = Len(frags)
      BY <1>0, <2>2
    <3>2. SubSeq(frags, 1, Len(frags)) = frags
      BY <3>1
    <3> QED BY <3>1, <3>2
  <2>9. part(n) = item
    <3>1. v \in Seq(B) /\ End(v, n) = Len(v) /\ item = Item(ty, v)
      BY <1>0, <2>1
    <3>2. SubSeq(v, 1, Len(v)) = v
      BY <3>1
    <3> QED BY <3>1, <3>2
  <2> QED BY <2>7, <2>8, <2>9 DEF frags, acc
<1> QED BY <1>1, <1>2

-----------------------------------------------------------------------------
\* Encode, one item at a time: the fragments of a message's first items.
Flattened(flat, seqs, n) ==
  flat = [i \in 1..n |-> IF i = 1 THEN seqs[i] ELSE flat[i - 1] \o seqs[i]]

LEMMA FlattenedExist ==
  ASSUME NEW seqs, NEW n \in Nat
  PROVE  \E flat : Flattened(flat, seqs, n)
<1> DEFINE S == {m \in Nat : \E flat : Flattened(flat, seqs, m)}
<1>1. 0 \in S
  <2> DEFINE r == [i \in 1..0 |-> <<>>]
  <2>1. r = [i \in 1..0 |-> IF i = 1 THEN seqs[i] ELSE r[i - 1] \o seqs[i]]
    <3>1. \A i \in 1..0 : FALSE
      OBVIOUS
    <3> QED BY <3>1
  <2>2. Flattened(r, seqs, 0)
    <3> HIDE DEF r
    <3> QED BY <2>1 DEF Flattened
  <2> QED BY <2>2
<1>2. ASSUME NEW m \in S PROVE m + 1 \in S
  <2>1. PICK flat : Flattened(flat, seqs, m)
    OBVIOUS
  <2> DEFINE next == IF m = 0 THEN seqs[1] ELSE flat[m] \o seqs[m + 1]
             r == [i \in 1..(m + 1) |-> IF i = m + 1 THEN next ELSE flat[i]]
  <2>2. m \in Nat /\ m + 1 \in Nat
    OBVIOUS
  <2>3. ASSUME NEW i \in 1..(m + 1)
        PROVE  r[i] = IF i = 1 THEN seqs[i] ELSE r[i - 1] \o seqs[i]
    <3>1. CASE i = m + 1
      <4>1. (i = 1 <=> m = 0) /\ i - 1 = m /\ (m # 0 => m \in 1..(m + 1)) /\ m # m + 1
        BY <2>2, <3>1
      <4>2. r[i] = next /\ (m # 0 => r[i - 1] = flat[m])
        <5> HIDE DEF next
        <5> QED BY <3>1, <4>1
      <4>3. next = IF i = 1 THEN seqs[i] ELSE flat[m] \o seqs[i]
        BY <3>1, <4>1
      <4> HIDE DEF r, next
      <4> QED BY <4>1, <4>2, <4>3
    <3>2. CASE i # m + 1
      <4>1. i \in 1..m /\ (i # 1 => i - 1 \in 1..(m + 1) /\ i - 1 # m + 1)
        BY <2>2, <3>2
      <4>2. r[i] = flat[i] /\ (i # 1 => r[i - 1] = flat[i - 1])
        <5> HIDE DEF next
        <5> QED BY <3>2, <4>1
      <4>3. flat[i] = IF i = 1 THEN seqs[i] ELSE flat[i - 1] \o seqs[i]
        BY <2>1, <4>1 DEF Flattened
      <4> HIDE DEF r
      <4> QED BY <4>2, <4>3
    <3> QED BY <3>1, <3>2
  <2>4. Flattened(r, seqs, m + 1)
    <3>1. r = [i \in 1..(m + 1) |-> r[i]]
      OBVIOUS
    <3> HIDE DEF r
    <3> QED BY <2>3, <3>1 DEF Flattened
  <2> QED BY <2>2, <2>4
<1>3. S = Nat
  <2> HIDE DEF S
  <2>1. S \subseteq Nat BY DEF S
  <2> QED BY <1>1, <1>2, <2>1, SetInduction
<1> QED BY <1>3

LEMMA FlattenIs ==
  ASSUME NEW F, NEW seqs \in Seq(F), seqs # <<>>
  PROVE  \E flat : Flattened(flat, seqs, Len(seqs)) /\ FlattenSeq(seqs) = flat[Len(seqs)]
<1>1. Len(seqs) \in Nat /\ Len(seqs) # 0
  OBVIOUS
<1>2. Flattened(CHOOSE flat : Flattened(flat, seqs, Len(seqs)), seqs, Len(seqs))
  BY <1>1, FlattenedExist
<1>3. FlattenSeq(seqs) = (CHOOSE flat : Flattened(flat, seqs, Len(seqs)))[Len(seqs)]
  BY <1>1 DEF FlattenSeq, Flattened
<1> QED BY <1>2, <1>3

\* tlv.rs: whatever their types, bytes and lengths and however many they are, a
\* message's items are decoded as they were encoded, as long as no item ends in
\* a full fragment before one of its type.
THEOREM DecodesEncoded ==
  ASSUME NEW T, NEW B, NEW m \in Seq(Items(T, B)), Separable(m)
  PROVE  Decode(Encode(m)) = m
<1> DEFINE F == Items(T, B)
           N == Len(m)
           seqs == [i \in 1..N |-> Fragments(m[i])]
<1>0. /\ N \in Nat /\ m \in Seq(F) /\ Len(m) = N
      /\ \A i \in 1..N : m[i] \in F /\ Fragments(m[i]) \in Seq(F)
  BY FragmentsType
<1>1. seqs \in Seq(Seq(F)) /\ Len(seqs) = N /\ \A i \in 1..N : seqs[i] = Fragments(m[i])
  <2> HIDE DEF N, F
  <2> QED BY <1>0
<1>2. Encode(m) = FlattenSeq(seqs)
  BY DEF Encode
<1>3. CASE N = 0
  <2>1. m = <<>>
    BY <1>3
  <2>2. FlattenSeq(seqs) = <<>>
    <3>1. seqs = <<>>
      <4> HIDE DEF seqs, F
      <4> QED BY <1>1, <1>3
    <3> HIDE DEF seqs
    <3> QED BY <3>1 DEF FlattenSeq
  <2> HIDE DEF seqs
  <2> QED BY <1>2, <2>1, <2>2, DecodeNothing
<1>4. CASE N # 0
  <2> HIDE DEF F, N, seqs
  <2>1. PICK flat : Flattened(flat, seqs, N) /\ FlattenSeq(seqs) = flat[N]
    <3>1. seqs # <<>>
      BY <1>1, <1>4
    <3> QED BY <1>1, <3>1, FlattenIs
  <2>2. ASSUME NEW i \in 1..N
        PROVE  flat[i] = IF i = 1 THEN Fragments(m[i]) ELSE flat[i - 1] \o Fragments(m[i])
    <3>1. flat[i] = IF i = 1 THEN seqs[i] ELSE flat[i - 1] \o seqs[i]
      BY <2>1 DEF Flattened
    <3> QED BY <1>1, <3>1
  <2> DEFINE S == {c \in Nat : c >= 1 /\ c <= N =>
                      flat[c] \in Seq(F) /\ Decode(flat[c]) = SubSeq(m, 1, c)}
  <2>3. 0 \in S
    OBVIOUS
  <2>4. ASSUME NEW c \in S PROVE c + 1 \in S
    <3>1. c \in Nat /\ c + 1 \in Nat
      OBVIOUS
    <3>2. SUFFICES ASSUME c + 1 <= N
                   PROVE  flat[c + 1] \in Seq(F) /\ Decode(flat[c + 1]) = SubSeq(m, 1, c + 1)
      BY <3>1
    <3>3. c + 1 \in 1..N /\ m[c + 1] \in F /\ Fragments(m[c + 1]) \in Seq(F)
      BY <1>0, <3>1, <3>2
    <3>4. SubSeq(m, 1, c + 1) = Append(SubSeq(m, 1, c), m[c + 1]) /\ SubSeq(m, 1, c) \in Seq(F)
      BY <1>0, <3>1, <3>2, <3>3
    <3>5. CASE c = 0
      <4>1. flat[c + 1] = Fragments(m[c + 1])
        BY <2>2, <3>3, <3>5
      <4>2. <<>> \o Fragments(m[c + 1]) = Fragments(m[c + 1]) /\ <<>> \in Seq(F)
        <5> DEFINE g == Fragments(m[c + 1])
        <5>1. g \in Seq(F)
          BY <3>3
        <5> HIDE DEF g
        <5>2. <<>> \o g = g /\ <<>> \in Seq(F)
          BY <5>1
        <5> QED BY <5>2 DEF g
      <4>3. Decode(<<>> \o Fragments(m[c + 1])) = Append(<<>>, m[c + 1])
        <5>1. Decode(<<>>) = <<>>
          BY DecodeNothing
        <5> DEFINE item == m[c + 1]
                   wire == <<>>
        <5>2. /\ item \in Items(T, B) /\ wire \in Seq(Items(T, B))
              /\ Decode(wire) \in Seq(Items(T, B))
              /\ Decode(wire) = <<>> \/ ~ Joins(Last(Decode(wire)), item.ty)
          BY <3>3, <4>2, <5>1 DEF F
        <5> HIDE DEF item, wire
        <5>3. Decode(wire \o Fragments(item)) = Append(Decode(wire), item)
          BY <5>2, ItemReads
        <5> QED BY <5>1, <5>3 DEF item, wire
      <4>4. SubSeq(m, 1, c) = <<>>
        BY <1>0, <3>5
      <4> HIDE DEF S
      <4> QED BY <3>3, <3>4, <4>1, <4>2, <4>3, <4>4
    <3>6. CASE c # 0
      <4>1. c >= 1 /\ c <= N /\ c \in 1..N /\ (c + 1) - 1 = c /\ c + 1 # 1
        BY <1>0, <3>1, <3>2, <3>6
      <4>2. flat[c] \in Seq(F) /\ Decode(flat[c]) = SubSeq(m, 1, c)
        BY <4>1
      <4> HIDE DEF S
      <4>3. flat[c + 1] = flat[c] \o Fragments(m[c + 1])
        BY <2>2, <3>3, <4>1
      <4>4. Last(SubSeq(m, 1, c)) = m[c] /\ SubSeq(m, 1, c) # <<>>
        BY <1>0, <4>1 DEF Last
      <4>5. ~ Joins(m[c], m[c + 1].ty)
        <5>1. c \in 1..(Len(m) - 1)
          BY <1>0, <3>1, <3>2, <4>1
        <5>2. m[c].ty = m[c + 1].ty => m[c].val = <<>> \/ Len(m[c].val) % Fragment # 0
          BY <5>1 DEF Separable
        <5> QED BY <5>2 DEF Joins
      <4>6. Decode(flat[c] \o Fragments(m[c + 1])) = Append(Decode(flat[c]), m[c + 1])
        <5> DEFINE item == m[c + 1]
                   wire == flat[c]
        <5>1. Decode(wire) \in Seq(F) /\ ~ Joins(Last(Decode(wire)), item.ty)
          BY <3>4, <4>2, <4>4, <4>5
        <5>2. /\ item \in Items(T, B) /\ wire \in Seq(Items(T, B))
              /\ Decode(wire) \in Seq(Items(T, B)) /\ ~ Joins(Last(Decode(wire)), item.ty)
          BY <3>3, <4>2, <5>1 DEF F
        <5> HIDE DEF item, wire
        <5>3. Decode(wire \o Fragments(item)) = Append(Decode(wire), item)
          BY <5>2, ItemReads
        <5> QED BY <5>3 DEF item, wire
      <4>7. flat[c] \o Fragments(m[c + 1]) \in Seq(F)
        <5> DEFINE g == Fragments(m[c + 1])
                   h == flat[c]
        <5>1. g \in Seq(F) /\ h \in Seq(F)
          BY <3>3, <4>2
        <5> HIDE DEF g, h
        <5>2. h \o g \in Seq(F)
          BY <5>1
        <5> QED BY <5>2 DEF g, h
      <4> QED BY <3>4, <4>2, <4>3, <4>6, <4>7
    <3> QED BY <3>5, <3>6
  <2>5. S = Nat
    <3> HIDE DEF S
    <3>1. S \subseteq Nat BY DEF S
    <3> QED BY <2>3, <2>4, <3>1, SetInduction
  <2>6. Decode(flat[N]) = SubSeq(m, 1, N)
    <3>1. N \in S /\ N >= 1 /\ N <= N
      <4> HIDE DEF S
      <4> QED BY <1>0, <1>4, <2>5
    <3> QED BY <3>1
  <2>7. SubSeq(m, 1, N) = m
    BY <1>0
  <2> QED BY <1>2, <2>1, <2>6, <2>7
<1> QED BY <1>3, <1>4

\* The same of the messages TLC tries, for any size of a fragment.
LEMMA MessageReadsBack == RoundTrips
<1> DEFINE V == [ty : {1, 2}, val : Values(2 * Fragment + 1)]
<1>1. V \subseteq Items({1, 2}, {0})
  <2>1. Values(2 * Fragment + 1) \subseteq Seq({0})
    <3>1. 0..(2 * Fragment + 1) \subseteq Nat
      BY TlvAssumption
    <3>2. ASSUME NEW k \in Nat, NEW w \in [1..k -> {0}] PROVE w \in Seq({0})
      OBVIOUS
    <3> QED BY <3>1, <3>2 DEF Values
  <2> QED BY <2>1 DEF Items
<1> HIDE DEF V
<1>2. Messages = UNION {[1..k -> V] : k \in 0..3}
  BY DEF Messages, V
<1>3. ASSUME NEW m \in Messages PROVE m \in Seq(Items({1, 2}, {0}))
  <2>1. PICK k \in 0..3 : m \in [1..k -> V]
    BY <1>2
  <2>2. k \in Nat /\ m \in [1..k -> Items({1, 2}, {0})]
    BY <1>1, <2>1
  <2> QED BY <2>2
<1> QED BY <1>3, DecodesEncoded DEF RoundTrips

\* pairing.rs and tlv.rs: a pairing response on its way is read as the items it
\* was made of.
THEOREM ResponsesReadBack == Spec => []TlvRoundTrips
<1>1. TlvRoundTrips
  BY MessageReadsBack DEF TlvRoundTrips
<1> QED BY <1>1, PTL
=============================================================================
