--------------------------- MODULE ControlChannel ---------------------------
(***************************************************************************)
(* A receiver's control connections from accept to close                   *)
(* (openairplay2/src/server.rs): the connection permits, reading requests  *)
(* in the clear or through the cipher (crypto_stream.rs, cipher.rs), the   *)
(* handshake timeout, transient pairing (pairing.rs) with its switch to    *)
(* encryption, and the gate in front of a session's methods.  What happens *)
(* behind the gate is modules Takeover and Session.                        *)
(*                                                                         *)
(* A request is read in parts, its head and what its body comes in; a part *)
(* is where its last byte is.  The wire carries pieces: a part in the      *)
(* clear, and the two halves of a block, whose second half completes it.   *)
(* A block holds any number of parts, of one request or of several.  A key *)
(* is the number of the SRP exchange it comes from (module Srp); no one    *)
(* else knows it.                                                          *)
(***************************************************************************)
EXTENDS Naturals, FiniteSets, Sequences, SequencesExt

CONSTANTS
  Conns,          \* connections
  Knowing,        \* those whose sender knows the password
  MaxConnections, \* MAX_CONNECTIONS
  Kinds,          \* kinds of request each sender makes
  MaxRequests,    \* bound: requests made on each connection
  WireRoom        \* pieces a wire holds before its writer must wait

ASSUME ControlAssumption ==
  /\ Knowing \subseteq Conns
  /\ MaxConnections \in Nat /\ MaxRequests \in [Conns -> Nat] /\ WireRoom \in Nat
  /\ Kinds \in [Conns -> SUBSET {"info", "bad", "garbled", "m1", "m1 persistent", "m3", "session"}]

Clear == 0 \* the key of a channel that has none

\* A request: "info" stands for what is answered without pairing, "session"
\* for what is not; an M3 proves a password over one exchange.
Request(id, kind, exchange, right) ==
  [id |-> id, kind |-> kind, exchange |-> exchange, right |-> right]

\* The parts of a request: the body of a session's is the longest.
Size(r) == IF r.kind = "info" THEN 1 ELSE IF r.kind = "session" THEN 3 ELSE 2
Parts(r) == [i \in 1..Size(r) |-> [req |-> r, part |-> i]]
Completes(p) == p.part = Size(p.req)

\* Pieces on the wire.
Piece(key, n, whole, parts) == [key |-> key, n |-> n, whole |-> whole, parts |-> parts]
Bare(parts) == [i \in 1..Len(parts) |-> Piece(Clear, 0, TRUE, <<parts[i]>>)]
Block(key, n, parts) == <<Piece(key, n, FALSE, <<>>), Piece(key, n, TRUE, parts)>>

VARIABLES
  rx,   \* the receiver's end of each connection
  tx,   \* the sender's end
  up,   \* pieces on their way to the receiver
  down, \* responses on their way to the sender
  done, \* history: the last request the receiver handled
  served \* history: did it serve a session's method?

vars == <<rx, tx, up, down, done, served>>

\* Receiver: key, encN and decN are its two cipher halves, plain and pending the buffers
\* of ControlConnection, head the head of the request being read, exchange
\* and transient the PairSetup.
Fresh == [pc |-> "none", key |-> Clear, encN |-> 0, decN |-> 0,
          plain |-> <<>>, pending |-> <<>>, head |-> FALSE,
          exchange |-> 0, made |-> 0, transient |-> FALSE]

\* Sender: its cipher, the requests it has made and the parts of them that it
\* has not written yet, the exchange M2 announced and its M3 that is unanswered;
\* hasty once it has made a request on top of that M3; lost once it cannot read
\* a response.
Sender == [up |-> TRUE, key |-> Clear, out |-> 0, in |-> 0, sent |-> 0, held |-> <<>>,
           exchange |-> 0, transient |-> FALSE, waiting |-> 0, hasty |-> FALSE,
           lost |-> FALSE]

Init ==
  /\ rx = [c \in Conns |-> Fresh] /\ tx = [c \in Conns |-> Sender]
  /\ up = [c \in Conns |-> <<>>] /\ down = [c \in Conns |-> <<>>]
  /\ done = [c \in Conns |-> 0] /\ served = [c \in Conns |-> FALSE]

Open(c) == rx[c].pc \notin {"none", "closed"}
Permits == MaxConnections - Cardinality({c \in Conns : Open(c)})
Encrypted(c) == rx[c].key # Clear

Rx(c, r) == rx' = [rx EXCEPT ![c] = r]
Tx(c, s) == tx' = [tx EXCEPT ![c] = s]
At(c, pc) == rx[c].pc = pc

-----------------------------------------------------------------------------
\* serve: a connection over the ceiling is accepted and dropped.
Accept(c) ==
  /\ At(c, "none")
  /\ Rx(c, [rx[c] EXCEPT !.pc = IF Permits > 0 THEN "reading" ELSE "closed"])
  /\ UNCHANGED <<tx, up, down, done, served>>

-----------------------------------------------------------------------------
\* The sender.  It may pipeline, write what it has in blocks of any size, break
\* off between two parts, or hang up.

Ask(c, kind) ==
  LET r == Request(tx[c].sent + 1, kind, tx[c].exchange, c \in Knowing) IN
  /\ Open(c) /\ tx[c].up /\ tx[c].sent < MaxRequests[c]
  /\ kind = "m3" => tx[c].exchange > 0
  /\ Tx(c, [tx[c] EXCEPT !.sent = @ + 1, !.held = @ \o Parts(r),
                         !.transient = IF kind \in {"m1", "m1 persistent"}
                                       THEN kind = "m1" ELSE @,
                         !.waiting = IF kind = "m3" THEN r.id ELSE @,
                         !.hasty = @ \/ tx[c].waiting > 0])
  /\ UNCHANGED <<rx, up, down, done, served>>

AskSomething(c) == \E kind \in Kinds[c] : Ask(c, kind)

Frame(c, parts) ==
  IF tx[c].key = Clear THEN Bare(parts) ELSE Block(tx[c].key, tx[c].out, parts)

\* Encryptor::encrypt cuts what it is given at BLOCK_MAX, wherever a request
\* ends, and counts the blocks.
Send(c) ==
  /\ Open(c) /\ tx[c].up
  /\ \E k \in 1..Len(tx[c].held) :
       LET frame == Frame(c, SubSeq(tx[c].held, 1, k)) IN
       /\ Len(up[c]) + Len(frame) <= WireRoom
       /\ up' = [up EXCEPT ![c] = @ \o frame]
       /\ Tx(c, [tx[c] EXCEPT !.out = IF tx[c].key = Clear THEN @ ELSE @ + 1,
                              !.held = SubSeq(@, k + 1, Len(@))])
  /\ UNCHANGED <<rx, down, done, served>>

HangUp(c) ==
  /\ tx[c].up
  /\ Tx(c, [tx[c] EXCEPT !.up = FALSE, !.held = <<>>])
  /\ UNCHANGED <<rx, up, down, done, served>>

\* The sender takes up the key when the receiver's own proof checks out.
ReadResponse(c) ==
  /\ tx[c].up /\ ~ tx[c].lost /\ down[c] # <<>>
  /\ LET a == Head(down[c])
         read == [tx[c] EXCEPT !.in = @ + 1, !.waiting = IF a.id = @ THEN 0 ELSE @]
     IN Tx(c, IF a.key # tx[c].key \/ (a.key # Clear /\ a.n # tx[c].in)
              THEN [tx[c] EXCEPT !.lost = TRUE]
              ELSE IF a.status = "m2" THEN [read EXCEPT !.exchange = a.exchange]
              ELSE IF a.status = "m4" /\ tx[c].transient
              THEN [read EXCEPT !.key = a.exchange, !.out = 0, !.in = 0]
              ELSE read)
  /\ down' = [down EXCEPT ![c] = Tail(@)]
  /\ UNCHANGED <<rx, up, done, served>>

-----------------------------------------------------------------------------
\* ControlConnection.

\* A connection that ends gives its permit back, and all it held is gone.
Close(c) ==
  /\ Rx(c, [Fresh EXCEPT !.pc = "closed"])
  /\ Tx(c, [Sender EXCEPT !.up = FALSE])
  /\ up' = [up EXCEPT ![c] = <<>>] /\ down' = [down EXCEPT ![c] = <<>>]
  /\ UNCHANGED <<done, served>>

\* read_byte and read_exact_n in the clear take no more than they need.  (A
\* block read in the clear is no request: it ends in Timeout.)
ReadClear(c) ==
  /\ At(c, "reading") /\ ~ Encrypted(c) /\ rx[c].plain = <<>>
  /\ up[c] # <<>> /\ Head(up[c]).key = Clear
  /\ Rx(c, [rx[c] EXCEPT !.plain = Head(up[c]).parts])
  /\ up' = [up EXCEPT ![c] = Tail(@)]
  /\ UNCHANGED <<tx, down, done, served>>

\* No block is left to decrypt: all that a read completes are decrypted before
\* any of it is used.
Drained(c) == \A i \in 1..Len(rx[c].pending) : ~ rx[c].pending[i].whole

\* fill_encrypted reads what has arrived, whatever it is part of.
ReadCipher(c) ==
  /\ At(c, "reading") /\ Encrypted(c) /\ rx[c].plain = <<>> /\ Drained(c)
  /\ \E k \in 1..Len(up[c]) :
       /\ Rx(c, [rx[c] EXCEPT !.pending = @ \o SubSeq(up[c], 1, k)])
       /\ up' = [up EXCEPT ![c] = SubSeq(@, k + 1, Len(@))]
  /\ UNCHANGED <<tx, down, done, served>>

\* decrypt_available, block by block: the tag holds under this key and count.
Opens(c) == LET b == rx[c].pending[2]
            IN b.whole /\ b.key = rx[c].key /\ b.n = rx[c].decN
\* Mutant of Decrypt: what a block held goes in front of what is waiting.
DecryptInFront(c) ==
  /\ At(c, "reading") /\ Encrypted(c) /\ Len(rx[c].pending) >= 2 /\ Opens(c)
  /\ Rx(c, [rx[c] EXCEPT !.plain = rx[c].pending[2].parts \o @, !.decN = @ + 1,
                         !.pending = SubSeq(@, 3, Len(@))])
  /\ UNCHANGED <<tx, up, down, done, served>>

Decrypt(c) ==
  /\ At(c, "reading") /\ Encrypted(c) /\ Len(rx[c].pending) >= 2 /\ Opens(c)
  /\ Rx(c, [rx[c] EXCEPT !.plain = @ \o rx[c].pending[2].parts, !.decN = @ + 1,
                         !.pending = SubSeq(@, 3, Len(@))])
  /\ UNCHANGED <<tx, up, down, done, served>>

\* Anything else that looks complete fails authentication.  What is not a
\* block at all may also claim a length that never arrives.
Unreadable(c) ==
  \/ rx[c].pending # <<>> /\ Head(rx[c].pending).whole
  \/ Len(rx[c].pending) >= 2 /\ ~ Opens(c)
Reject(c) ==
  At(c, "reading") /\ Encrypted(c) /\ Unreadable(c) /\ Close(c)

\* The end of the stream, at a message boundary or inside one.
Eof(c) ==
  /\ At(c, "reading") /\ rx[c].plain = <<>> /\ Drained(c) /\ up[c] = <<>> /\ ~ tx[c].up
  /\ Close(c)

\* Mutant of Timeout: the clear channel may idle like the encrypted one.
TimeoutNever(c) == FALSE /\ UNCHANGED vars

\* HANDSHAKE_TIMEOUT, in the clear only: it runs while one request is read, and
\* anew for the next.
Timeout(c) ==
  /\ At(c, "reading") /\ ~ Encrypted(c) /\ rx[c].plain = <<>>
  /\ Close(c)

\* What read_request takes next.
Incoming(c) == Head(rx[c].plain)
Reading(c) == At(c, "reading") /\ rx[c].plain # <<>> /\ Drained(c)

\* A head that does not parse or that declares too long a body ends it all.
Garbled(c) == Reading(c) /\ Incoming(c).req.kind = "garbled" /\ Close(c)

ReadHead(c) ==
  /\ Reading(c) /\ Incoming(c).req.kind # "garbled" /\ ~ Completes(Incoming(c))
  /\ Rx(c, [rx[c] EXCEPT !.plain = Tail(@), !.head = TRUE])
  /\ UNCHANGED <<tx, up, down, done, served>>

-----------------------------------------------------------------------------
\* handle_connection, one request.

\* Mutant of MayServe: the gate is pairing begun.
MayServeBegun(c, r) == Encrypted(c) \/ rx[c].exchange > 0 \/ r.kind # "session"

\* The gate: in the clear only discovery and pairing.
MayServe(c, r) == Encrypted(c) \/ r.kind # "session"

\* SrpServer::verify, of a proof over an exchange.
Verifies(c, r) == r.right /\ r.exchange = rx[c].exchange

\* What PairSetup::handle, the gate and the dispatch answer.
Status(c, r) ==
  CASE r.kind \in {"m1", "m1 persistent"} -> "m2"
    [] r.kind = "m3" -> IF rx[c].exchange > 0 /\ Verifies(c, r) THEN "m4" ELSE "failed"
    [] r.kind = "bad" -> "failed"
    [] r.kind = "info" -> "ok"
    [] r.kind = "session" -> IF MayServe(c, r) THEN "ok" ELSE "forbidden"

\* handle_m1 makes a new SrpServer whatever came before.
Paired(c, r) ==
  IF r.kind \in {"m1", "m1 persistent"}
  THEN [rx[c] EXCEPT !.made = @ + 1, !.exchange = rx[c].made + 1,
                     !.transient = r.kind = "m1"]
  ELSE rx[c]

Serve(c) ==
  /\ Reading(c) /\ Incoming(c).req.kind # "garbled" /\ Completes(Incoming(c))
  /\ Len(down[c]) < WireRoom
  /\ LET r == Incoming(c).req
         p == Paired(c, r)
         status == Status(c, r)
         switches == status = "m4" /\ p.transient
     IN /\ Rx(c, [p EXCEPT !.plain = Tail(@), !.head = FALSE, !.encN = @ + 1,
                           !.pc = IF switches THEN "switching" ELSE "reading"])
        /\ down' = [down EXCEPT ![c] = Append(@,
             [id |-> r.id, status |-> status, exchange |-> p.exchange,
              key |-> rx[c].key, n |-> rx[c].encN])]
        /\ done' = [done EXCEPT ![c] = r.id]
        /\ served' = [served EXCEPT ![c] = @ \/ (r.kind = "session" /\ status = "ok")]
  /\ UNCHANGED <<tx, up>>

\* Mutant of Switch: the counters run on.
SwitchKeepsCount(c) ==
  /\ At(c, "switching")
  /\ Rx(c, [rx[c] EXCEPT !.pc = "reading", !.key = rx[c].exchange])
  /\ UNCHANGED <<tx, up, down, done, served>>

\* The cipher goes in once the M4 is written; both buffers stay as they are.
Switch(c) ==
  /\ At(c, "switching")
  /\ Rx(c, [rx[c] EXCEPT !.pc = "reading", !.key = rx[c].exchange,
                         !.encN = 0, !.decN = 0])
  /\ UNCHANGED <<tx, up, down, done, served>>

\* A response that cannot be written ends the connection.
WriteFails(c) == Open(c) /\ ~ tx[c].up /\ Close(c)

-----------------------------------------------------------------------------
Receiver(c) ==
  \/ Accept(c) \/ ReadClear(c) \/ ReadCipher(c) \/ Decrypt(c) \/ Reject(c) \/ Eof(c)
  \/ Timeout(c) \/ Garbled(c) \/ ReadHead(c) \/ Serve(c) \/ Switch(c) \/ WriteFails(c)

Next == \E c \in Conns :
  Receiver(c) \/ AskSomething(c) \/ Send(c) \/ HangUp(c) \/ ReadResponse(c)

Spec == Init /\ [][Next]_vars

\* The runtime runs a connection's task and its timer.  A sender need not ask
\* for anything, but it reads what it is sent: a write has no timeout.
FairSpec == Spec /\ \A c \in Conns : WF_vars(Receiver(c)) /\ WF_vars(ReadResponse(c))

-----------------------------------------------------------------------------
TypeOK ==
  /\ Permits \in 0..MaxConnections
  /\ \A c \in Conns :
       /\ rx[c].pc \in {"none", "reading", "switching", "closed"}
       /\ rx[c].exchange \in 0..rx[c].made /\ rx[c].key \in 0..rx[c].made
       /\ tx[c].sent \in 0..MaxRequests[c] /\ done[c] \in 0..MaxRequests[c]

\* Requests are handled once each and in the order they were made in, however
\* they are pipelined, framed and cut: what is handled next is always the one
\* after the last.  What is lost is lost at the end.
InOrder ==
  [][\A c \in Conns : done'[c] = IF Serve(c) THEN done[c] + 1 ELSE done[c]]_vars

\* Both ends change keys at the same request: unless the sender sent on top of
\* its M3, the receiver never sees a block that does not open, and the sender
\* never a response it cannot read.
InStep ==
  \A c \in Conns :
    ~ tx[c].hasty => ~ tx[c].lost /\ ~ (Encrypted(c) /\ Unreadable(c))

\* A session's method is served only to a sender that knows the password
\* (server.rs: what stops an unpaired peer from evicting the playing one).
PairedFirst == \A c \in Conns : served[c] => c \in Knowing

\* A sender that stops delivering requests in the clear does not keep its permit
\* (server.rs: an unpaired peer that stops sending is a resource leak): it pairs
\* or is closed.  One that goes on being answered in the clear may stay, since
\* the timeout is for each request.
ClearEnds ==
  \A c \in Conns : []<>(Encrypted(c) \/ ~ Open(c)) \/ []<><<Serve(c)>>_vars
=============================================================================
