------------------------------ MODULE Takeover ------------------------------
(***************************************************************************)
(* Last stream wins: the active-session slot (openairplay2/src/takeover.rs) *)
(* as the connections of one receiver use it (server.rs,                   *)
(* handle_connection) and as a session's teardown gives it back            *)
(* (session.rs, Drop).                                                     *)
(*                                                                         *)
(* A claim's oneshot is a token: it is alive while the claim in progress   *)
(* or the guard in a session owns its sender; dropping that is the signal. *)
(* Every connection here is past pairing, so a SETUP reaches the slot.     *)
(***************************************************************************)
EXTENDS Naturals, FiniteSets

CONSTANTS
  Conns,       \* connections, one sender each
  NoConn,      \* no connection: the slot is vacant
  MaxRequests, \* bound: requests read on one connection
  Timeouts,    \* when TAKEOVER_TIMEOUT fires: "never", "stuck" or "any"
  Crosses      \* may a takeover begin between a connection's read of a SETUP
               \* and the claim made for it?

ASSUME TakeoverAssumption ==
  /\ NoConn \notin Conns
  /\ MaxRequests \in Nat
  /\ Timeouts \in {"never", "stuck", "any"}
  /\ Crosses \in BOOLEAN

Setups == {"setup1", "setup2"}
Requests == Setups \cup {"teardown"}
NoToken == 0

VARIABLES
  holderId, holderTok, \* the slot: who holds it, and its `finished' channel
  tokens,              \* tokens made so far
  evict,               \* the stored permit of each connection's Notify
  pc, req, reads,      \* where a connection is, its request, requests read
  claimTok, waitTok,   \* in `claim': its own token, the previous holder's
  prev,                \* and that holder's connection
  guard,               \* the token of the session's active_guard
  sinks,               \* sinks the session's players hold open
  active               \* session_active: SessionStarted without SessionEnded

vars == <<holderId, holderTok, tokens, evict, pc, req, reads, claimTok, waitTok,
          prev, guard, sinks, active>>
slot == <<holderId, holderTok, tokens>>
audio == <<sinks, active>>

Live == ({claimTok[c] : c \in Conns} \cup {guard[c] : c \in Conns}) \ {NoToken}

Init ==
  /\ holderId = NoConn /\ holderTok = NoToken /\ tokens = 0
  /\ evict = [c \in Conns |-> FALSE]
  /\ pc = [c \in Conns |-> "reading"]
  /\ req = [c \in Conns |-> "setup1"] /\ reads = [c \in Conns |-> 0]
  /\ claimTok = [c \in Conns |-> NoToken]
  /\ waitTok = [c \in Conns |-> NoToken]
  /\ prev = [c \in Conns |-> NoConn]
  /\ guard = [c \in Conns |-> NoToken]
  /\ sinks = [c \in Conns |-> 0]
  /\ active = [c \in Conns |-> FALSE]

Goto(c, from, to) == pc[c] = from /\ pc' = [pc EXCEPT ![c] = to]

\* Mutant of Vacate: the slot is not given back.
VacateNever(c) == UNCHANGED <<holderId, holderTok>>

\* ActiveGuard's Drop, for connection c.
Vacate(c) ==
  IF holderId = c
  THEN holderId' = NoConn /\ holderTok' = NoToken
  ELSE UNCHANGED <<holderId, holderTok>>

-----------------------------------------------------------------------------
\* The request loop.

\* The select is biased: a request is taken only when no permit is stored.
Receive(c, r) ==
  /\ ~ evict[c] /\ reads[c] < MaxRequests
  /\ Crosses \/ r \notin Setups
       \/ \A d \in Conns : pc[d] \notin {"claiming", "notifying"}
  /\ Goto(c, "reading", IF r \in Setups THEN "claiming" ELSE "dispatch")
  /\ req' = [req EXCEPT ![c] = r]
  /\ reads' = [reads EXCEPT ![c] = @ + 1]
  /\ UNCHANGED <<slot, evict, claimTok, waitTok, prev, guard, audio>>

\* Mutant of SeeEviction: the loop takes the permit and carries on.
SeeEvictionContinue(c) ==
  /\ evict[c] /\ pc[c] = "reading"
  /\ evict' = [evict EXCEPT ![c] = FALSE]
  /\ UNCHANGED <<slot, pc, req, reads, claimTok, waitTok, prev, guard, audio>>

SeeEviction(c) ==
  /\ evict[c]
  /\ Goto(c, "reading", "closing")
  /\ evict' = [evict EXCEPT ![c] = FALSE]
  /\ UNCHANGED <<slot, req, reads, claimTok, waitTok, prev, guard, audio>>

HangUp(c) ==
  /\ ~ evict[c]
  /\ Goto(c, "reading", "closing")
  /\ UNCHANGED <<slot, evict, req, reads, claimTok, waitTok, prev, guard, audio>>

\* Writing the response fails if the sender is gone, and ends the connection.
Respond(c) ==
  /\ \E next \in {"reading", "closing"} : Goto(c, "respond", next)
  /\ UNCHANGED <<slot, evict, req, reads, claimTok, waitTok, prev, guard, audio>>

-----------------------------------------------------------------------------
\* ActiveSlot::claim.

ClaimOwn(c) ==
  /\ holderId = c
  /\ Goto(c, "claiming", "dispatch")
  /\ UNCHANGED <<slot, evict, req, reads, claimTok, waitTok, prev, guard, audio>>

\* Mutant of Claim: no look at who holds the slot.
ClaimFromSelf(c) ==
  /\ tokens' = tokens + 1
  /\ holderId' = c /\ holderTok' = tokens + 1
  /\ claimTok' = [claimTok EXCEPT ![c] = tokens + 1]
  /\ waitTok' = [waitTok EXCEPT ![c] = holderTok]
  /\ prev' = [prev EXCEPT ![c] = holderId]
  /\ Goto(c, "claiming", IF holderId = NoConn THEN "granted" ELSE "notifying")
  /\ UNCHANGED <<evict, req, reads, guard, audio>>

Claim(c) ==
  /\ holderId # c
  /\ tokens' = tokens + 1
  /\ holderId' = c /\ holderTok' = tokens + 1
  /\ claimTok' = [claimTok EXCEPT ![c] = tokens + 1]
  /\ waitTok' = [waitTok EXCEPT ![c] = holderTok]
  /\ prev' = [prev EXCEPT ![c] = holderId]
  /\ Goto(c, "claiming", IF holderId = NoConn THEN "granted" ELSE "notifying")
  /\ UNCHANGED <<evict, req, reads, guard, audio>>

\* Mutants of Notify: the claim does not wait; the holder is not told.
NotifyNoWait(c) ==
  /\ Goto(c, "notifying", "granted")
  /\ evict' = [evict EXCEPT ![prev[c]] = TRUE]
  /\ UNCHANGED <<slot, req, reads, claimTok, waitTok, prev, guard, audio>>
NotifyNobody(c) ==
  /\ Goto(c, "notifying", "waiting")
  /\ UNCHANGED <<slot, evict, req, reads, claimTok, waitTok, prev, guard, audio>>

\* previous.evict.notify_one, after the lock is released.
Notify(c) ==
  /\ Goto(c, "notifying", "waiting")
  /\ evict' = [evict EXCEPT ![prev[c]] = TRUE]
  /\ UNCHANGED <<slot, req, reads, claimTok, waitTok, prev, guard, audio>>

Finished(c) ==
  /\ waitTok[c] \notin Live
  /\ Goto(c, "waiting", "granted")
  /\ UNCHANGED <<slot, evict, req, reads, claimTok, waitTok, prev, guard, audio>>

\* Does connection d move by itself, without a request and without a timeout?
Busy(d) ==
  \/ pc[d] \notin {"reading", "waiting", "closed"}
  \/ pc[d] = "reading" /\ evict[d]
  \/ pc[d] = "waiting" /\ waitTok[d] \notin Live

\* Mutant of TimeOut: the wait is not bounded.
TimeOutNever(c) ==
  /\ FALSE
  /\ UNCHANGED vars

\* "stuck": handlers and teardowns take no time next to TAKEOVER_TIMEOUT, so
\* it fires only when nobody can move.  "any": a wedged sink may hold a
\* teardown for longer.
TimeOut(c) ==
  /\ waitTok[c] \in Live
  /\ Timeouts = "any" \/ (Timeouts = "stuck" /\ \A d \in Conns : ~ Busy(d))
  /\ Goto(c, "waiting", "granted")
  /\ UNCHANGED <<slot, evict, req, reads, claimTok, waitTok, prev, guard, audio>>

\* set_active_guard: a guard already there is dropped.
Grant(c) ==
  /\ Goto(c, "granted", "dispatch")
  /\ guard' = [guard EXCEPT ![c] = claimTok[c]]
  /\ claimTok' = [claimTok EXCEPT ![c] = NoToken]
  /\ IF guard[c] # NoToken THEN Vacate(c) ELSE UNCHANGED <<holderId, holderTok>>
  /\ UNCHANGED <<tokens, evict, req, reads, waitTok, prev, audio>>

-----------------------------------------------------------------------------
\* dispatch_session, as far as the device and the session events go.  A
\* phase 2 whose key or format is bad starts nothing, like a phase 1.

Ports(c) ==
  /\ req[c] \in Setups
  /\ Goto(c, "dispatch", "respond")
  /\ UNCHANGED <<slot, evict, req, reads, claimTok, waitTok, prev, guard, audio>>

\* start_buffered_audio: SessionStarted, then the host's sink is made ...
StartStream(c) ==
  /\ req[c] = "setup2"
  /\ Goto(c, "dispatch", "replace")
  /\ active' = [active EXCEPT ![c] = TRUE]
  /\ sinks' = [sinks EXCEPT ![c] = @ + 1]
  /\ UNCHANGED <<slot, evict, req, reads, claimTok, waitTok, prev, guard>>

\* ... and a player the session already had is dropped, and joined.
ReplacePlayer(c) ==
  /\ Goto(c, "replace", "respond")
  /\ sinks' = [sinks EXCEPT ![c] = 1]
  /\ UNCHANGED <<slot, evict, req, reads, claimTok, waitTok, prev, guard, active>>

Teardown(c) ==
  /\ req[c] = "teardown"
  /\ Goto(c, "dispatch", "respond")
  /\ active' = [active EXCEPT ![c] = FALSE]
  /\ UNCHANGED <<slot, evict, req, reads, claimTok, waitTok, prev, guard, sinks>>

-----------------------------------------------------------------------------
\* Session's Drop: SessionEnded, then the player is joined, then the guard goes.

\* Mutant of EndSession: the drop reports nothing.
EndSessionSilently(c) ==
  /\ Goto(c, "closing", "joining")
  /\ UNCHANGED <<slot, evict, req, reads, claimTok, waitTok, prev, guard, audio>>

EndSession(c) ==
  /\ Goto(c, "closing", "joining")
  /\ active' = [active EXCEPT ![c] = FALSE]
  /\ UNCHANGED <<slot, evict, req, reads, claimTok, waitTok, prev, guard, sinks>>

JoinPlayer(c) ==
  /\ Goto(c, "joining", "releasing")
  /\ sinks' = [sinks EXCEPT ![c] = 0]
  /\ UNCHANGED <<slot, evict, req, reads, claimTok, waitTok, prev, guard, active>>

Release(c) ==
  /\ Goto(c, "releasing", "closed")
  /\ guard' = [guard EXCEPT ![c] = NoToken]
  /\ IF guard[c] # NoToken THEN Vacate(c) ELSE UNCHANGED <<holderId, holderTok>>
  /\ UNCHANGED <<tokens, evict, req, reads, claimTok, waitTok, prev, audio>>

-----------------------------------------------------------------------------
\* Steps of the connection's own task, which the runtime schedules.
Handle(c) ==
  \/ SeeEviction(c) \/ Respond(c)
  \/ ClaimOwn(c) \/ Claim(c) \/ Notify(c) \/ Finished(c) \/ TimeOut(c) \/ Grant(c)
  \/ Ports(c) \/ StartStream(c) \/ ReplacePlayer(c) \/ Teardown(c)
  \/ EndSession(c) \/ JoinPlayer(c) \/ Release(c)

\* Steps of its sender.
Sender(c) == HangUp(c) \/ \E r \in Requests : Receive(c, r)

Next == \E c \in Conns : Handle(c) \/ Sender(c)

Spec == Init /\ [][Next]_vars

\* The runtime runs every task that can move, and its timer fires.
FairSpec == Spec /\ \A c \in Conns : WF_vars(Handle(c))

-----------------------------------------------------------------------------
TypeOK ==
  /\ holderId \in Conns \cup {NoConn} /\ holderTok \in Nat /\ tokens \in Nat
  /\ evict \in [Conns -> BOOLEAN]
  /\ pc \in [Conns -> {"reading", "claiming", "notifying", "waiting", "granted",
                       "dispatch", "replace", "respond",
                       "closing", "joining", "releasing", "closed"}]
  /\ req \in [Conns -> Requests] /\ reads \in [Conns -> 0..MaxRequests]
  /\ claimTok \in [Conns -> Nat] /\ waitTok \in [Conns -> Nat]
  /\ prev \in [Conns -> Conns \cup {NoConn}] /\ guard \in [Conns -> Nat]
  /\ sinks \in [Conns -> 0..2] /\ active \in [Conns -> BOOLEAN]

\* Two connections never hold the host's audio device at once: the new stream
\* waits until the old player is joined (server.rs, the SETUP comment).
OneDevice == \A c, d \in Conns : sinks[c] > 0 /\ sinks[d] > 0 => c = d

\* The host never sees two sessions at once: the old SessionEnded precedes the
\* new SessionStarted ("+1,-1,+2, never +1,+2", tests/takeover.rs).
OneSession == \A c, d \in Conns : active[c] /\ active[d] => c = d

\* The last stream wins: the connection in the slot is not itself told to
\* close; only a later claim, which takes the slot, evicts it.
LastStreamWins == \A c \in Conns : holderId = c => ~ evict[c]

\* A vacant slot means nobody is playing, so a claim that finds it vacant may
\* start at once.
VacantIsSilent == holderId = NoConn => \A c \in Conns : sinks[c] = 0

\* Everyone who lost the slot has been told, or is about to be by the claim
\* that took it: no stream plays on unaware of its successor.
LosersAreTold ==
  \A c \in Conns :
    guard[c] # NoToken /\ holderId # c =>
      \/ evict[c]
      \/ pc[c] \in {"closing", "joining", "releasing"}
      \/ \E d \in Conns : pc[d] = "notifying" /\ prev[d] = c

\* The slot is never leaked: its holder still owns the token, so whoever
\* claims next waits for something that can still be dropped.
HolderIsAlive ==
  \A c \in Conns : holderId = c => holderTok \in {claimTok[c], guard[c]} \ {NoToken}

\* A claim is answered whatever the previous holder does: a SETUP is not held
\* hostage, even by two connections that wait for each other.
ClaimReturns == \A c \in Conns : pc[c] = "waiting" ~> pc[c] = "granted"

\* A connection that was told to close does close and gives the device back.
EvictedCloses ==
  \A c \in Conns : evict[c] /\ pc[c] # "closed" ~> (pc[c] = "closed" /\ sinks[c] = 0)
=============================================================================
