--------------------------- MODULE TakeoverProofs ---------------------------
(***************************************************************************)
(* What Takeover promises for every number of connections and requests:    *)
(* first with any timeout and any crossing, then what the device and the   *)
(* events gain when no takeover crosses a SETUP and handlers are quick.    *)
(***************************************************************************)
EXTENDS Takeover, WellFoundedInduction, TLAPS

Claiming == {"notifying", "waiting", "granted"}
Closing == {"closing", "joining", "releasing"}

\* Only while it replaces its player does a session hold two sinks open.
OneNewSink == \A c \in Conns : pc[c] # "replace" => sinks[c] <= 1

Typed == TypeOK /\ OneNewSink

-----------------------------------------------------------------------------
(* Types. *)

LEMMA InitTyped == ASSUME Init PROVE Typed
BY TakeoverAssumption DEF Init, Typed, TypeOK, OneNewSink, NoToken, Requests, Setups

LEMMA NextTyped ==
  ASSUME Typed, [Next]_vars
  PROVE  Typed'
<1> USE DEF slot, audio, Goto, Requests, Setups, NoToken
<1> SUFFICES ASSUME NEW c \in Conns, Handle(c) \/ Sender(c)
             PROVE  Typed'
  BY DEF Next, vars, Typed, TypeOK, OneNewSink
<1>1. ASSUME NEW r \in Requests, Receive(c, r) PROVE Typed'
  BY <1>1, TakeoverAssumption DEF Receive, Typed, TypeOK, OneNewSink
<1>2. CASE SeeEviction(c) BY <1>2 DEF SeeEviction, Typed, TypeOK, OneNewSink
<1>3. CASE HangUp(c) BY <1>3 DEF HangUp, Typed, TypeOK, OneNewSink
<1>4. CASE Respond(c) BY <1>4 DEF Respond, Typed, TypeOK, OneNewSink
<1>5. CASE ClaimOwn(c) BY <1>5 DEF ClaimOwn, Typed, TypeOK, OneNewSink
<1>6. CASE Claim(c) BY <1>6 DEF Claim, Typed, TypeOK, OneNewSink
<1>7. CASE Notify(c) BY <1>7 DEF Notify, Typed, TypeOK, OneNewSink
<1>8. CASE Finished(c) BY <1>8 DEF Finished, Typed, TypeOK, OneNewSink
<1>9. CASE TimeOut(c) BY <1>9 DEF TimeOut, Typed, TypeOK, OneNewSink
<1>10. CASE Grant(c) BY <1>10 DEF Grant, Vacate, Typed, TypeOK, OneNewSink
<1>11. CASE Ports(c) BY <1>11 DEF Ports, Typed, TypeOK, OneNewSink
<1>12. CASE StartStream(c) BY <1>12 DEF StartStream, Typed, TypeOK, OneNewSink
<1>13. CASE ReplacePlayer(c) BY <1>13 DEF ReplacePlayer, Typed, TypeOK, OneNewSink
<1>14. CASE Teardown(c) BY <1>14 DEF Teardown, Typed, TypeOK, OneNewSink
<1>15. CASE EndSession(c) BY <1>15 DEF EndSession, Typed, TypeOK, OneNewSink
<1>16. CASE JoinPlayer(c) BY <1>16 DEF JoinPlayer, Typed, TypeOK, OneNewSink
<1>17. CASE Release(c) BY <1>17 DEF Release, Vacate, Typed, TypeOK, OneNewSink
<1> QED
  BY <1>1, <1>2, <1>3, <1>4, <1>5, <1>6, <1>7, <1>8, <1>9, <1>10, <1>11, <1>12,
     <1>13, <1>14, <1>15, <1>16, <1>17 DEF Handle, Sender

LEMMA Types == Spec => []Typed
<1>1. Init => Typed BY InitTyped
<1>2. Typed /\ [Next]_vars => Typed' BY NextTyped
<1> QED BY <1>1, <1>2, PTL DEF Spec

\* Every variable of the slot and of the connections keeps its type, and a
\* session never holds more than the old and the new sink (session.rs,
\* start_buffered_audio).
THEOREM TypeCorrect == Spec => []TypeOK
<1>1. Typed => TypeOK BY DEF Typed
<1> QED BY <1>1, Types, PTL

-----------------------------------------------------------------------------
(* Who owns what: a claim owns its token until it is granted, and whoever is *)
(* in the slot owns the token the slot names.                               *)

ClaimOwns == \A c \in Conns : claimTok[c] # NoToken <=> pc[c] \in Claiming

ClosedOwnsNothing == \A c \in Conns : pc[c] = "closed" => guard[c] = NoToken

Owned == ClaimOwns /\ ClosedOwnsNothing /\ HolderIsAlive

LEMMA InitOwned == ASSUME Init PROVE Owned
BY TakeoverAssumption
   DEF Init, Owned, ClaimOwns, ClosedOwnsNothing, HolderIsAlive, Claiming, NoToken

\* The steps that leave the slot, the tokens and the guards alone, and neither
\* enter a claim nor leave it: they only move pc, and audio, req, reads.
Quiet(c) ==
  /\ UNCHANGED <<slot, claimTok, waitTok, prev, guard>>
  /\ \/ pc[c] \notin Claiming \cup {"closed"}
        /\ \E to \in {"reading", "dispatch", "replace", "respond", "closing",
                      "joining", "releasing", "claiming"} :
             pc' = [pc EXCEPT ![c] = to]
     \/ pc[c] \in {"notifying", "waiting"}
        /\ \E to \in {"waiting", "granted"} : pc' = [pc EXCEPT ![c] = to]

LEMMA StepKinds ==
  ASSUME Typed, NEW c \in Conns, Handle(c) \/ Sender(c)
  PROVE  Claim(c) \/ Grant(c) \/ Release(c) \/ Quiet(c)
<1> USE DEF slot, audio, Goto, Claiming, Quiet
<1>1. ASSUME NEW r \in Requests, Receive(c, r) PROVE Quiet(c)
  BY <1>1 DEF Receive
<1>2. SeeEviction(c) \/ HangUp(c) \/ Respond(c) \/ ClaimOwn(c) => Quiet(c)
  BY DEF SeeEviction, HangUp, Respond, ClaimOwn
<1>3. Notify(c) \/ Finished(c) \/ TimeOut(c) \/ Ports(c) \/ StartStream(c) => Quiet(c)
  BY DEF Notify, Finished, TimeOut, Ports, StartStream
<1>4. ReplacePlayer(c) \/ Teardown(c) \/ EndSession(c) \/ JoinPlayer(c) => Quiet(c)
  BY DEF ReplacePlayer, Teardown, EndSession, JoinPlayer
<1> QED
  BY <1>1, <1>2, <1>3, <1>4 DEF Handle, Sender

LEMMA NextOwned ==
  ASSUME Typed, Owned, [Next]_vars
  PROVE  Owned'
<1> USE DEF slot, audio, Goto, Claiming, NoToken
<1>1. CASE UNCHANGED vars
  BY <1>1 DEF vars, Owned, ClaimOwns, ClosedOwnsNothing, HolderIsAlive
<1>2. ASSUME NEW c \in Conns, Handle(c) \/ Sender(c)
      PROVE  Owned'
  <2>1. CASE Claim(c)
    <3>1. ClaimOwns' /\ ClosedOwnsNothing'
      BY <2>1 DEF Claim, Owned, ClaimOwns, ClosedOwnsNothing, Typed, TypeOK
    <3>2. HolderIsAlive'
      BY <2>1 DEF Claim, HolderIsAlive, Typed, TypeOK
    <3> QED BY <3>1, <3>2 DEF Owned
  <2>2. CASE Grant(c)
    <3>1. ClaimOwns' /\ ClosedOwnsNothing'
      BY <2>2 DEF Grant, Owned, ClaimOwns, ClosedOwnsNothing, Typed, TypeOK
    <3>2. HolderIsAlive'
      BY <2>2, TakeoverAssumption DEF Grant, Vacate, Owned, ClaimOwns, HolderIsAlive, Typed, TypeOK
    <3> QED BY <3>1, <3>2 DEF Owned
  <2>3. CASE Release(c)
    <3>1. ClaimOwns' /\ ClosedOwnsNothing'
      BY <2>3 DEF Release, Owned, ClaimOwns, ClosedOwnsNothing, Typed, TypeOK
    <3>2. HolderIsAlive'
      BY <2>3, TakeoverAssumption DEF Release, Vacate, Owned, ClaimOwns, HolderIsAlive, Typed, TypeOK
    <3> QED BY <3>1, <3>2 DEF Owned
  <2>4. CASE Quiet(c)
    BY <2>4 DEF Quiet, Owned, ClaimOwns, ClosedOwnsNothing, HolderIsAlive, Typed, TypeOK
  <2> QED BY <1>2, <2>1, <2>2, <2>3, <2>4, StepKinds
<1> QED BY <1>1, <1>2 DEF Next

LEMMA Ownership == Spec => []Owned
<1>1. Init => Owned BY InitOwned
<1>2. Typed /\ Owned /\ [Next]_vars => Owned' BY NextOwned
<1> QED BY <1>1, <1>2, Types, PTL DEF Spec

\* Whatever times out and whatever crosses, the connection in the slot still
\* owns the sender of the channel the next claim will wait on (takeover.rs,
\* ActiveGuard): the slot is never held by nobody.
THEOREM SlotNotLeaked == Spec => []HolderIsAlive
<1>1. Owned => HolderIsAlive BY DEF Owned
<1> QED BY <1>1, Ownership, PTL

-----------------------------------------------------------------------------
(* Who has been told.  A connection whose old session still has a guard may  *)
(* be claiming again, so the invariant speaks of everything it owns.         *)

Told(c) ==
  \/ evict[c]
  \/ pc[c] \in Closing
  \/ \E d \in Conns : pc[d] = "notifying" /\ prev[d] = c

Lost(c) ==
  \/ holderId # c /\ (claimTok[c] # NoToken \/ guard[c] # NoToken)
  \/ claimTok[c] # NoToken /\ guard[c] # NoToken

LosersTold == \A c \in Conns : Lost(c) => Told(c)

\* What was told stays told: only a connection that closes takes its permit.
LEMMA ToldStays ==
  ASSUME Typed, NEW c \in Conns, Handle(c) \/ Sender(c),
         NEW d \in Conns, Told(d), ~ Release(c) \/ c # d
  PROVE  Told(d)'
<1> USE DEF slot, audio, Goto, Told, Closing, Typed, TypeOK
<1>1. ASSUME NEW r \in Requests, Receive(c, r) PROVE Told(d)'
  BY <1>1 DEF Receive
<1>2. CASE SeeEviction(c) BY <1>2 DEF SeeEviction
<1>3. CASE HangUp(c) BY <1>3 DEF HangUp
<1>4. CASE Respond(c) BY <1>4 DEF Respond
<1>5. CASE ClaimOwn(c) BY <1>5 DEF ClaimOwn
<1>6. CASE Claim(c) BY <1>6 DEF Claim
<1>7. CASE Notify(c) BY <1>7 DEF Notify
<1>8. CASE Finished(c) BY <1>8 DEF Finished
<1>9. CASE TimeOut(c) BY <1>9 DEF TimeOut
<1>10. CASE Grant(c) BY <1>10 DEF Grant
<1>11. CASE Ports(c) BY <1>11 DEF Ports
<1>12. CASE StartStream(c) BY <1>12 DEF StartStream
<1>13. CASE ReplacePlayer(c) BY <1>13 DEF ReplacePlayer
<1>14. CASE Teardown(c) BY <1>14 DEF Teardown
<1>15. CASE EndSession(c) BY <1>15 DEF EndSession
<1>16. CASE JoinPlayer(c) BY <1>16 DEF JoinPlayer
<1>17. CASE Release(c) BY <1>17 DEF Release
<1> QED
  BY <1>1, <1>2, <1>3, <1>4, <1>5, <1>6, <1>7, <1>8, <1>9, <1>10, <1>11, <1>12,
     <1>13, <1>14, <1>15, <1>16, <1>17 DEF Handle, Sender

LEMMA InitLosersTold == ASSUME Init PROVE LosersTold
BY DEF Init, LosersTold, Lost, NoToken

LEMMA NextLosersTold ==
  ASSUME Typed, Owned, LosersTold, [Next]_vars
  PROVE  LosersTold'
<1> USE DEF slot, audio, Goto
<1>1. CASE UNCHANGED vars
  BY <1>1 DEF vars, LosersTold, Lost, Told
<1>2. ASSUME NEW c \in Conns, Handle(c) \/ Sender(c), NEW d \in Conns, Lost(d)'
      PROVE  Told(d)'
  <2>1. CASE Claim(c)
    <3>1. CASE d = c
      <4>1. Lost(d)
        BY <1>2, <2>1, <3>1 DEF Claim, Lost, Typed, TypeOK
      <4> QED BY <4>1, <1>2, <2>1, ToldStays DEF LosersTold, Claim, Release
    <3>2. CASE d # c /\ holderId = d
      <4>1. holderId # NoConn
        BY <3>2, TakeoverAssumption
      <4>2. pc'[c] = "notifying" /\ prev'[c] = d
        BY <2>1, <3>2, <4>1 DEF Claim, Typed, TypeOK
      <4> QED BY <4>2 DEF Told
    <3>3. CASE d # c /\ holderId # d
      <4>1. Lost(d)
        BY <1>2, <2>1, <3>3 DEF Claim, Lost, Typed, TypeOK
      <4> QED BY <3>3, <4>1, <1>2, ToldStays DEF LosersTold
    <3> QED BY <3>1, <3>2, <3>3
  <2>2. CASE Grant(c)
    <3>1. Lost(d)
      <4>1. CASE d = c
        BY <1>2, <2>2, <4>1 DEF Grant, Vacate, Lost, Owned, ClaimOwns, Claiming, Typed, TypeOK
      <4>2. CASE d # c
        BY <1>2, <2>2, <4>2 DEF Grant, Vacate, Lost, Typed, TypeOK
      <4> QED BY <4>1, <4>2
    <3> QED BY <3>1, <1>2, <2>2, ToldStays DEF LosersTold, Grant, Release
  <2>3. CASE Release(c)
    <3>1. claimTok[c] = NoToken
      BY <2>3 DEF Release, Owned, ClaimOwns, Claiming
    <3>2. d # c
      BY <1>2, <2>3, <3>1 DEF Release, Lost, Typed, TypeOK
    <3>3. Lost(d)
      BY <1>2, <2>3, <3>2 DEF Release, Vacate, Lost, Typed, TypeOK
    <3> QED BY <3>2, <3>3, <1>2, ToldStays DEF LosersTold
  <2>4. CASE Quiet(c)
    <3>1. Lost(d)
      BY <1>2, <2>4 DEF Quiet, Lost
    <3>2. ~ Release(c)
      BY <2>4 DEF Quiet, Release, Typed, TypeOK
    <3> QED BY <3>1, <3>2, <1>2, ToldStays DEF LosersTold
  <2> QED BY <1>2, <2>1, <2>2, <2>3, <2>4, StepKinds
<1> QED BY <1>1, <1>2 DEF Next, LosersTold

LEMMA Losers == Spec => []LosersTold
<1>1. Init => LosersTold BY InitLosersTold
<1>2. Typed /\ Owned /\ LosersTold /\ [Next]_vars => LosersTold' BY NextLosersTold
<1> QED BY <1>1, <1>2, Types, Ownership, PTL DEF Spec

\* No stream plays on unaware of its successor, even when two takeovers cross
\* and time out: whoever lost the slot has a permit stored, is closing, or is
\* about to be told by the claim that took it (takeover.rs, claim).
THEOREM EveryLoserTold == Spec => []LosersAreTold
<1>1. LosersTold => LosersAreTold
  BY DEF LosersTold, LosersAreTold, Lost, Told, Closing
<1> QED BY <1>1, Losers, PTL

-----------------------------------------------------------------------------
(* Without crossing: claims are made one at a time, by connections that have *)
(* not been told to close.                                                   *)

Orderly == ~ Crosses

OneClaimer ==
  \A c, d \in Conns :
    pc[c] \in {"claiming", "notifying"} /\ pc[d] \in {"claiming", "notifying"} => c = d

\* The connection about to claim holds the slot or owns nothing, and stays.
FreshClaim ==
  \A c \in Conns :
    pc[c] = "claiming" => ~ evict[c] /\ (holderId = c \/ guard[c] = NoToken)

ClaimsOnce == \A c \in Conns : claimTok[c] # NoToken => guard[c] = NoToken

TellsAnother ==
  \A c \in Conns : pc[c] = "notifying" => holderId = c /\ prev[c] \in Conns /\ prev[c] # c

Claims == OneClaimer /\ FreshClaim /\ ClaimsOnce /\ TellsAnother /\ LastStreamWins

LEMMA InitClaims == ASSUME Init PROVE Claims
BY TakeoverAssumption
   DEF Init, Claims, OneClaimer, FreshClaim, ClaimsOnce, TellsAnother, LastStreamWins

LEMMA NextClaims ==
  ASSUME Orderly, Typed, Owned, LosersTold, Claims, [Next]_vars
  PROVE  Claims'
<1> USE DEF slot, audio, Goto, Typed, TypeOK, Claims
<1>1. CASE UNCHANGED vars
  BY <1>1 DEF vars, OneClaimer, FreshClaim, ClaimsOnce, TellsAnother, LastStreamWins
<1>2. ASSUME NEW c \in Conns, NEW r \in Requests, Receive(c, r)
      PROVE  Claims'
  <2> USE <1>2 DEF Receive
  <2>1. OneClaimer'
    BY DEF Orderly, OneClaimer
  <2>2. FreshClaim'
    <3>1. CASE r \in Setups
      <4>1. holderId = c \/ guard[c] = NoToken
        BY <3>1 DEF Orderly, LosersTold, Lost, Told, Closing
      <4> QED BY <4>1, <3>1 DEF FreshClaim
    <3>2. CASE r \notin Setups
      BY <3>2 DEF FreshClaim
    <3> QED BY <3>1, <3>2
  <2>3. ClaimsOnce' /\ LastStreamWins'
    BY DEF ClaimsOnce, LastStreamWins
  <2>4. TellsAnother'
    BY DEF TellsAnother
  <2> QED BY <2>1, <2>2, <2>3, <2>4
<1>3. ASSUME NEW c \in Conns, Claim(c) PROVE Claims'
  <2> USE <1>3 DEF Claim
  <2>1. OneClaimer'
    BY DEF OneClaimer
  <2>2. FreshClaim'
    BY DEF OneClaimer, FreshClaim
  <2>3. ClaimsOnce'
    BY DEF ClaimsOnce, FreshClaim
  <2>4. TellsAnother'
    BY TakeoverAssumption DEF TellsAnother, OneClaimer
  <2>5. LastStreamWins'
    BY DEF LastStreamWins, FreshClaim
  <2> QED BY <2>1, <2>2, <2>3, <2>4, <2>5
<1>4. ASSUME NEW c \in Conns, Notify(c) PROVE Claims'
  <2> USE <1>4 DEF Notify
  <2>1. OneClaimer' /\ ClaimsOnce'
    BY DEF OneClaimer, ClaimsOnce
  <2>2. FreshClaim'
    BY DEF OneClaimer, FreshClaim
  <2>3. TellsAnother'
    BY DEF TellsAnother
  <2>4. LastStreamWins'
    BY DEF LastStreamWins, TellsAnother
  <2> QED BY <2>1, <2>2, <2>3, <2>4
<1>5. ASSUME NEW c \in Conns, Grant(c) PROVE Claims'
  <2>1. UNCHANGED slot
    BY <1>5 DEF Grant, Owned, ClaimOwns, Claiming, ClaimsOnce
  <2> QED
    BY <1>5, <2>1
    DEF Grant, OneClaimer, FreshClaim, ClaimsOnce, TellsAnother, LastStreamWins
<1>6. ASSUME NEW c \in Conns, Release(c) PROVE Claims'
  <2> USE <1>6, TakeoverAssumption DEF Release, Vacate
  <2>1. OneClaimer' /\ ClaimsOnce' /\ LastStreamWins'
    BY DEF OneClaimer, ClaimsOnce, LastStreamWins
  <2>2. FreshClaim'
    BY DEF FreshClaim
  <2>3. TellsAnother'
    BY DEF TellsAnother
  <2> QED BY <2>1, <2>2, <2>3
<1>7. ASSUME NEW c \in Conns, SeeEviction(c) PROVE Claims'
  BY <1>7 DEF SeeEviction, OneClaimer, FreshClaim, ClaimsOnce, TellsAnother, LastStreamWins
<1>8. ASSUME NEW c \in Conns,
             Quiet(c), UNCHANGED evict,
             pc'[c] \notin {"claiming", "notifying"}
      PROVE  Claims'
  BY <1>8
  DEF Quiet, OneClaimer, FreshClaim, ClaimsOnce, TellsAnother, LastStreamWins
<1>9. ASSUME NEW c \in Conns,
             HangUp(c) \/ Respond(c) \/ ClaimOwn(c) \/ Finished(c) \/ TimeOut(c)
               \/ Ports(c) \/ StartStream(c) \/ ReplacePlayer(c) \/ Teardown(c)
               \/ EndSession(c) \/ JoinPlayer(c)
      PROVE  Quiet(c) /\ UNCHANGED evict /\ pc'[c] \notin {"claiming", "notifying"}
  <2> USE DEF Quiet, Claiming
  <2>1. CASE HangUp(c) \/ Respond(c) \/ ClaimOwn(c)
    BY <2>1 DEF HangUp, Respond, ClaimOwn
  <2>2. CASE Finished(c) \/ TimeOut(c)
    BY <2>2 DEF Finished, TimeOut
  <2>3. CASE Ports(c) \/ StartStream(c) \/ ReplacePlayer(c)
    BY <2>3 DEF Ports, StartStream, ReplacePlayer
  <2>4. CASE Teardown(c) \/ EndSession(c) \/ JoinPlayer(c)
    BY <2>4 DEF Teardown, EndSession, JoinPlayer
  <2> QED BY <1>9, <2>1, <2>2, <2>3, <2>4
<1> QED
  BY <1>1, <1>2, <1>3, <1>4, <1>5, <1>6, <1>7, <1>8, <1>9 DEF Next, Handle, Sender

LEMMA ClaimsHold == ASSUME Orderly PROVE Spec => []Claims
<1>1. Init => Claims BY InitClaims
<1>2. Typed /\ Owned /\ LosersTold /\ Claims /\ [Next]_vars => Claims' BY NextClaims
<1> QED BY <1>1, <1>2, Types, Ownership, Losers, PTL DEF Spec

\* The last stream wins, for any number of senders and any timeout, as long as
\* no takeover slips in between a connection's read of a SETUP and its claim:
\* the connection in the slot is never itself told to close.
THEOREM LastWins == ASSUME Orderly PROVE Spec => []LastStreamWins
<1>1. Claims => LastStreamWins BY DEF Claims
<1> QED BY <1>1, ClaimsHold, PTL

-----------------------------------------------------------------------------
(* Tokens are handed on in order.  With claims made once, a connection owns  *)
(* at most one token; the one in the slot is the youngest, and whoever does  *)
(* not wait owns the oldest.                                                 *)

Quick == Timeouts # "any"

Tok(c) == IF claimTok[c] # NoToken THEN claimTok[c] ELSE guard[c]

TokensDiffer ==
  \A c, d \in Conns : Tok(c) # NoToken /\ Tok(c) = Tok(d) => c = d

SlotIsYoungest ==
  /\ \A c \in Conns : holderId = c => holderTok = Tok(c)
  /\ \A c, d \in Conns : holderId = c => Tok(d) <= Tok(c)
  /\ holderId = NoConn => \A c \in Conns : Tok(c) = NoToken
  /\ \A c \in Conns : Tok(c) <= tokens

FreeIsOldest ==
  \A c, d \in Conns :
    /\ pc[c] \notin {"notifying", "waiting"}
    /\ Tok(c) # NoToken /\ Tok(d) # NoToken
    => Tok(c) <= Tok(d)

WaitsForNext ==
  \A c \in Conns : pc[c] \in {"notifying", "waiting"} =>
    /\ NoToken < waitTok[c] /\ waitTok[c] < Tok(c)
    /\ \A d \in Conns : Tok(d) < Tok(c) => Tok(d) <= waitTok[c]
    /\ (\A d \in Conns : Tok(d) # waitTok[c]) =>
         \A d \in Conns : Tok(d) < Tok(c) => Tok(d) = NoToken

TokOrder == TokensDiffer /\ SlotIsYoungest /\ FreeIsOldest /\ WaitsForNext

LEMMA TokTyped == ASSUME Typed, NEW c \in Conns PROVE Tok(c) \in Nat
BY DEF Typed, TypeOK, Tok

LEMMA LiveTokens ==
  ASSUME Typed, Claims
  PROVE  Live = {Tok(c) : c \in Conns} \ {NoToken}
BY DEF Typed, TypeOK, Claims, ClaimsOnce, Live, Tok, NoToken

\* A nonempty set of naturals has a least element.
LEMMA Least ==
  ASSUME NEW S, S \subseteq Nat, S # {}
  PROVE  \E m \in S : \A n \in S : m <= n
<1> DEFINE below == {ss \in Nat \X Nat : ss[1] < ss[2]}
<1>1. IsWellFoundedOn(below, Nat)
  BY NatLessThanWellFounded DEF OpToRel
<1> HIDE DEF below
<1>2. PICK m \in S : \A n \in S : ~ (<<n, m>> \in below)
  BY <1>1, WFMin
<1>3. \A n \in S : ~ (n < m)
  BY <1>2 DEF below
<1> QED BY <1>3

\* When handlers are quick, no wait runs out: the owner of the oldest token
\* can always move.
LEMMA NoTimeOut ==
  ASSUME Quick, Typed, Owned, LosersTold, Claims, TokOrder,
         NEW c \in Conns, TimeOut(c)
  PROVE  FALSE
<1> USE DEF Typed, TypeOK
<1>1. /\ waitTok[c] \in Live /\ pc[c] = "waiting"
      /\ \A d \in Conns : ~ Busy(d)
  BY DEF TimeOut, Quick, Goto
<1>2. Live \subseteq Nat
  BY LiveTokens, TokTyped
<1>3. PICK m \in Live : \A n \in Live : m <= n
  BY <1>1, <1>2, Least
<1>4. PICK w \in Conns : Tok(w) = m /\ m # NoToken
  BY LiveTokens
<1>5. ~ Busy(w)
  BY <1>1
<1>6. CASE pc[w] = "closed"
  BY <1>4, <1>6 DEF Owned, ClaimOwns, ClosedOwnsNothing, Claiming, Tok
<1>7. CASE pc[w] = "waiting"
  <2>1. waitTok[w] \in Live
    BY <1>5, <1>7 DEF Busy
  <2>2. waitTok[w] < Tok(w)
    BY <1>7 DEF TokOrder, WaitsForNext
  <2> QED BY <1>2, <1>3, <1>4, <2>1, <2>2
<1>8. CASE pc[w] = "reading"
  <2>1. ~ evict[w]
    BY <1>5, <1>8 DEF Busy
  <2>2. \A d \in Conns : pc[d] # "notifying"
    BY <1>1 DEF Busy
  <2>3. holderId = w
    BY <1>4, <1>8, <2>1, <2>2 DEF LosersTold, Lost, Told, Closing, Tok
  <2>4. Tok(c) <= Tok(w)
    BY <2>3 DEF TokOrder, SlotIsYoungest
  <2>5. waitTok[c] < Tok(c)
    BY <1>1 DEF TokOrder, WaitsForNext
  <2>6. m <= waitTok[c]
    BY <1>1, <1>3
  <2> QED BY <1>4, <2>4, <2>5, <2>6, TokTyped
<1> QED BY <1>5, <1>6, <1>7, <1>8 DEF Busy

LEMMA InitTokOrder == ASSUME Init PROVE TokOrder
BY TakeoverAssumption
   DEF Init, TokOrder, TokensDiffer, SlotIsYoungest, FreeIsOldest, WaitsForNext, Tok, NoToken

\* Only an answered wait is granted without a claim.
LEMMA GrantedInOrder ==
  ASSUME Quick, Typed, Owned, LosersTold, Claims, TokOrder,
         NEW c \in Conns, Handle(c) \/ Sender(c), Quiet(c),
         pc[c] \in {"notifying", "waiting"}, pc'[c] \notin {"notifying", "waiting"}
  PROVE  waitTok[c] \notin Live
<1> USE DEF Goto, Typed, TypeOK
<1>1. ~ TimeOut(c) BY NoTimeOut
<1>2. CASE Finished(c) BY <1>2 DEF Finished
<1>3. CASE Notify(c) BY <1>3 DEF Notify
<1>4. CASE SeeEviction(c) \/ Respond(c) \/ ClaimOwn(c) \/ Claim(c) \/ Grant(c)
  BY <1>4 DEF SeeEviction, Respond, ClaimOwn, Claim, Grant
<1>5. CASE Ports(c) \/ StartStream(c) \/ ReplacePlayer(c) \/ Teardown(c)
  BY <1>5 DEF Ports, StartStream, ReplacePlayer, Teardown
<1>6. CASE EndSession(c) \/ JoinPlayer(c) \/ Release(c) \/ HangUp(c)
  BY <1>6 DEF EndSession, JoinPlayer, Release, HangUp
<1>7. ASSUME NEW r \in Requests, Receive(c, r) PROVE waitTok[c] \notin Live
  BY <1>7 DEF Receive
<1> QED
  BY <1>1, <1>2, <1>3, <1>4, <1>5, <1>6, <1>7 DEF Handle, Sender

LEMMA NextTokOrder ==
  ASSUME Quick, Typed, Owned, LosersTold, Claims, TokOrder, [Next]_vars
  PROVE  TokOrder'
<1> USE DEF slot, audio, Goto, NoToken
<1>1. CASE UNCHANGED vars
  BY <1>1 DEF vars, TokOrder, TokensDiffer, SlotIsYoungest, FreeIsOldest, WaitsForNext, Tok
<1>0. \A c \in Conns : Tok(c) \in Nat
  BY TokTyped
<1>2. ASSUME NEW c \in Conns, Handle(c) \/ Sender(c)
      PROVE  TokOrder'
  <2>1. CASE Claim(c)
    <3>1. Tok(c) = 0
      BY <2>1 DEF Claim, Claims, FreshClaim, Owned, ClaimOwns, Claiming, Tok
    <3>2. /\ Tok(c)' = tokens + 1 /\ tokens' = tokens + 1 /\ tokens \in Nat
          /\ holderId' = c /\ holderTok' = tokens + 1
          /\ waitTok'[c] = holderTok
          /\ pc'[c] = IF holderId = NoConn THEN "granted" ELSE "notifying"
      BY <2>1 DEF Claim, Tok, Typed, TypeOK
    <3>3. \A d \in Conns \ {c} : /\ Tok(d)' = Tok(d) /\ pc'[d] = pc[d]
                                 /\ waitTok'[d] = waitTok[d]
      BY <2>1 DEF Claim, Tok, Typed, TypeOK
    <3>4. \A d \in Conns : Tok(d) <= tokens
      BY DEF TokOrder, SlotIsYoungest
    <3>5. TokensDiffer'
      BY <1>0, <3>2, <3>3, <3>4 DEF TokensDiffer, TokOrder
    <3>6. SlotIsYoungest'
      BY <1>0, <3>2, <3>3, <3>4, TakeoverAssumption DEF SlotIsYoungest
    <3>7. FreeIsOldest'
      <4>1. ASSUME NEW d \in Conns, NEW e \in Conns,
                   pc'[d] \notin {"notifying", "waiting"}, Tok(d)' # 0, Tok(e)' # 0
            PROVE  Tok(d)' <= Tok(e)'
        <5>1. CASE d # c /\ e # c
          BY <3>3, <4>1, <5>1 DEF TokOrder, FreeIsOldest
        <5>2. CASE d # c /\ e = c
          BY <1>0, <3>2, <3>3, <3>4, <5>2
        <5>3. CASE d = c /\ e # c
          <6>1. holderId = NoConn
            BY <3>2, <4>1, <5>3
          <6> QED BY <3>3, <4>1, <5>3, <6>1 DEF TokOrder, SlotIsYoungest
        <5>4. CASE d = c /\ e = c
          BY <3>2, <5>4
        <5> QED BY <5>1, <5>2, <5>3, <5>4
      <4> QED BY <4>1 DEF FreeIsOldest
    <3>8. WaitsForNext'
      <4>1. ASSUME holderId # NoConn
            PROVE  /\ 0 < holderTok /\ holderTok < tokens + 1
                   /\ \A d \in Conns : Tok(d) <= holderTok
                   /\ \E d \in Conns \ {c} : Tok(d) = holderTok
        <5>1. holderId \in Conns /\ holderId # c /\ holderTok = Tok(holderId)
          BY <2>1, <4>1 DEF Claim, Typed, TypeOK, TokOrder, SlotIsYoungest
        <5>2. holderTok # 0
          BY <5>1 DEF Owned, HolderIsAlive
        <5> QED BY <1>0, <3>2, <3>4, <5>1, <5>2 DEF TokOrder, SlotIsYoungest
      <4>2. ASSUME NEW d \in Conns, pc'[d] \in {"notifying", "waiting"}
            PROVE  /\ 0 < waitTok'[d] /\ waitTok'[d] < Tok(d)'
                   /\ \A e \in Conns : Tok(e)' < Tok(d)' => Tok(e)' <= waitTok'[d]
                   /\ (\A e \in Conns : Tok(e)' # waitTok'[d]) =>
                        \A e \in Conns : Tok(e)' < Tok(d)' => Tok(e)' = 0
        <5>1. CASE d = c
          BY <1>0, <3>2, <3>3, <4>1, <4>2, <5>1
        <5>2. CASE d # c
          <6>1. /\ 0 < waitTok[d] /\ waitTok[d] < Tok(d)
                /\ \A e \in Conns : Tok(e) < Tok(d) => Tok(e) <= waitTok[d]
                /\ (\A e \in Conns : Tok(e) # waitTok[d]) =>
                     \A e \in Conns : Tok(e) < Tok(d) => Tok(e) = 0
            BY <3>3, <4>2, <5>2 DEF TokOrder, WaitsForNext
          <6> QED BY <1>0, <3>1, <3>2, <3>3, <3>4, <5>2, <6>1
        <5> QED BY <5>1, <5>2
      <4> QED BY <4>2 DEF WaitsForNext
    <3> QED BY <3>5, <3>6, <3>7, <3>8 DEF TokOrder
  <2>2. CASE Grant(c)
    <3>1. UNCHANGED slot /\ waitTok' = waitTok
      BY <2>2 DEF Grant, Owned, ClaimOwns, Claiming, Claims, ClaimsOnce
    <3>2. \A d \in Conns : Tok(d)' = Tok(d)
      BY <2>2 DEF Grant, Tok, Owned, ClaimOwns, Claiming, Typed, TypeOK
    <3>3. \A d \in Conns : pc'[d] \in {"notifying", "waiting"}
                             <=> pc[d] \in {"notifying", "waiting"}
      BY <2>2 DEF Grant, Typed, TypeOK
    <3> QED
      BY <3>1, <3>2, <3>3
      DEF TokOrder, TokensDiffer, SlotIsYoungest, FreeIsOldest, WaitsForNext
  <2>3. CASE Release(c)
    <3>1. Tok(c)' = 0 /\ pc[c] = "releasing" /\ pc'[c] = "closed"
          /\ tokens' = tokens /\ waitTok' = waitTok
      BY <2>3 DEF Release, Tok, Owned, ClaimOwns, Claiming, Typed, TypeOK
    <3>2. \A d \in Conns \ {c} : Tok(d)' = Tok(d) /\ pc'[d] = pc[d]
      BY <2>3 DEF Release, Tok, Typed, TypeOK
    <3>3. TokensDiffer'
      BY <1>0, <3>1, <3>2 DEF TokOrder, TokensDiffer
    <3>4. FreeIsOldest'
      BY <1>0, <3>1, <3>2 DEF TokOrder, FreeIsOldest
    <3>5. guard[c] # 0 <=> Tok(c) # 0
      BY <2>3 DEF Release, Tok, Owned, ClaimOwns, Claiming
    <3>6. SlotIsYoungest'
      <4>1. CASE holderId = c
        <5>1. Tok(c) # 0
          BY <4>1, <3>1 DEF Owned, ClaimOwns, Claiming, HolderIsAlive, Tok
        <5>2. holderId' = NoConn
          BY <2>3, <3>5, <4>1, <5>1 DEF Release, Vacate
        <5>3. \A d \in Conns \ {c} : Tok(d) = 0
          <6>1. \A d \in Conns : Tok(d) # 0 => Tok(c) <= Tok(d)
            BY <3>1, <5>1 DEF TokOrder, FreeIsOldest
          <6>2. \A d \in Conns : Tok(d) <= Tok(c)
            BY <4>1 DEF TokOrder, SlotIsYoungest
          <6> QED BY <1>0, <5>1, <6>1, <6>2 DEF TokOrder, TokensDiffer
        <5> QED
          BY <1>0, <3>1, <3>2, <5>2, <5>3, TakeoverAssumption
          DEF TokOrder, SlotIsYoungest, Typed, TypeOK
      <4>2. CASE holderId # c
        <5>1. holderId' = holderId /\ holderTok' = holderTok
          BY <2>3, <4>2 DEF Release, Vacate
        <5> QED
          BY <1>0, <3>1, <3>2, <4>2, <5>1 DEF TokOrder, SlotIsYoungest, Typed, TypeOK
      <4> QED BY <4>1, <4>2
    <3>7. WaitsForNext'
      <4>1. ASSUME NEW d \in Conns, pc'[d] \in {"notifying", "waiting"}
            PROVE  /\ 0 < waitTok'[d] /\ waitTok'[d] < Tok(d)'
                   /\ \A e \in Conns : Tok(e)' < Tok(d)' => Tok(e)' <= waitTok'[d]
                   /\ (\A e \in Conns : Tok(e)' # waitTok'[d]) =>
                        \A e \in Conns : Tok(e)' < Tok(d)' => Tok(e)' = 0
        <5>1. d # c /\ Tok(d)' = Tok(d) /\ waitTok'[d] = waitTok[d] /\ waitTok[d] \in Nat
          BY <3>1, <3>2, <4>1 DEF Typed, TypeOK
        <5>2. /\ 0 < waitTok[d] /\ waitTok[d] < Tok(d)
              /\ \A e \in Conns : Tok(e) < Tok(d) => Tok(e) <= waitTok[d]
              /\ (\A e \in Conns : Tok(e) # waitTok[d]) =>
                   \A e \in Conns : Tok(e) < Tok(d) => Tok(e) = 0
          BY <3>2, <4>1, <5>1 DEF TokOrder, WaitsForNext
        <5>3. ASSUME Tok(c) = waitTok[d], NEW e \in Conns \ {c}, Tok(e) < Tok(d)
              PROVE  Tok(e) = 0
          <6>1. Tok(e) <= Tok(c)
            BY <5>2, <5>3
          <6>2. Tok(e) # 0 => Tok(c) <= Tok(e)
            BY <3>1, <5>2, <5>3 DEF TokOrder, FreeIsOldest
          <6> QED BY <1>0, <5>3, <6>1, <6>2 DEF TokOrder, TokensDiffer
        <5> QED BY <1>0, <3>1, <3>2, <5>1, <5>2, <5>3
      <4> QED BY <4>1 DEF WaitsForNext
    <3> QED BY <3>3, <3>4, <3>6, <3>7 DEF TokOrder
  <2>4. CASE Quiet(c)
    <3>1. UNCHANGED slot /\ waitTok' = waitTok /\ \A d \in Conns : Tok(d)' = Tok(d)
      BY <2>4 DEF Quiet, Tok
    <3>2. \A d \in Conns \ {c} : pc'[d] = pc[d]
      BY <2>4 DEF Quiet, Typed, TypeOK
    <3>3. pc'[c] \in {"notifying", "waiting"} => pc[c] \in {"notifying", "waiting"}
      BY <2>4 DEF Quiet, Typed, TypeOK, Claiming
    <3>4. TokensDiffer' /\ SlotIsYoungest'
      BY <3>1 DEF TokOrder, TokensDiffer, SlotIsYoungest
    <3>5. WaitsForNext'
      BY <3>1, <3>2, <3>3 DEF TokOrder, WaitsForNext
    <3>6. ASSUME NEW d \in Conns, pc'[c] \notin {"notifying", "waiting"},
                 Tok(c) # 0, Tok(d) # 0
          PROVE  Tok(c) <= Tok(d)
      <4>1. CASE pc[c] \notin {"notifying", "waiting"}
        BY <3>6, <4>1 DEF TokOrder, FreeIsOldest
      <4>2. CASE pc[c] \in {"notifying", "waiting"}
        <5>1. waitTok[c] \notin Live
          BY <1>2, <2>4, <3>6, <4>2, GrantedInOrder
        <5>2. \A e \in Conns : Tok(e) # waitTok[c]
          BY <4>2, <5>1, LiveTokens DEF TokOrder, WaitsForNext
        <5> QED BY <1>0, <3>6, <4>2, <5>2 DEF TokOrder, WaitsForNext
      <4> QED BY <4>1, <4>2
    <3>7. FreeIsOldest'
      BY <3>1, <3>2, <3>6 DEF TokOrder, FreeIsOldest
    <3> QED BY <3>4, <3>5, <3>7 DEF TokOrder
  <2> QED BY <1>2, <2>1, <2>2, <2>3, <2>4, StepKinds
<1> QED BY <1>1, <1>2 DEF Next

LEMMA Order == ASSUME Orderly, Quick PROVE Spec => []TokOrder
<1>1. Init => TokOrder BY InitTokOrder
<1>2. Typed /\ Owned /\ LosersTold /\ Claims /\ TokOrder /\ [Next]_vars => TokOrder'
  BY NextTokOrder
<1> QED BY <1>1, <1>2, Types, Ownership, Losers, ClaimsHold, PTL DEF Spec

-----------------------------------------------------------------------------
(* The device.  Only a session with a guard plays, and it stops before its   *)
(* guard goes.                                                               *)

PlaysGuarded ==
  \A c \in Conns :
    \/ sinks[c] > 0 \/ active[c] \/ pc[c] = "replace"
    \/ pc[c] = "dispatch" /\ req[c] \in Setups
    => guard[c] # NoToken

StopsFirst ==
  \A c \in Conns :
    /\ pc[c] \in {"joining", "releasing", "closed"} => ~ active[c]
    /\ pc[c] \in {"releasing", "closed"} => sinks[c] = 0

Device == PlaysGuarded /\ StopsFirst

LEMMA InitDevice == ASSUME Init PROVE Device
BY DEF Init, Device, PlaysGuarded, StopsFirst

LEMMA NextDevice ==
  ASSUME Typed, Owned, Device, [Next]_vars
  PROVE  Device'
<1> USE DEF slot, audio, Goto, NoToken, Typed, TypeOK, Device
<1>0. CASE UNCHANGED vars
  BY <1>0 DEF vars, PlaysGuarded, StopsFirst
<1>1. ASSUME NEW c \in Conns, NEW r \in Requests, Receive(c, r) PROVE Device'
  BY <1>1 DEF Receive, PlaysGuarded, StopsFirst
<1>2. ASSUME NEW c \in Conns, SeeEviction(c) \/ HangUp(c) \/ Respond(c) PROVE Device'
  <2>1. CASE SeeEviction(c) BY <2>1 DEF SeeEviction, PlaysGuarded, StopsFirst
  <2>2. CASE HangUp(c) BY <2>2 DEF HangUp, PlaysGuarded, StopsFirst
  <2>3. CASE Respond(c) BY <2>3 DEF Respond, PlaysGuarded, StopsFirst
  <2> QED BY <1>2, <2>1, <2>2, <2>3
<1>3. ASSUME NEW c \in Conns, ClaimOwn(c) PROVE Device'
  <2>1. guard[c] # 0
    BY <1>3 DEF ClaimOwn, Owned, ClaimOwns, Claiming, HolderIsAlive
  <2> QED BY <1>3, <2>1 DEF ClaimOwn, PlaysGuarded, StopsFirst
<1>4. ASSUME NEW c \in Conns, Claim(c) PROVE Device'
  BY <1>4 DEF Claim, PlaysGuarded, StopsFirst
<1>5. ASSUME NEW c \in Conns, Notify(c) \/ Finished(c) \/ TimeOut(c) PROVE Device'
  <2>1. CASE Notify(c) BY <2>1 DEF Notify, PlaysGuarded, StopsFirst
  <2>2. CASE Finished(c) BY <2>2 DEF Finished, PlaysGuarded, StopsFirst
  <2>3. CASE TimeOut(c) BY <2>3 DEF TimeOut, PlaysGuarded, StopsFirst
  <2> QED BY <1>5, <2>1, <2>2, <2>3
<1>6. ASSUME NEW c \in Conns, Grant(c) PROVE Device'
  <2>1. claimTok[c] # 0
    BY <1>6 DEF Grant, Owned, ClaimOwns, Claiming
  <2> QED BY <1>6, <2>1 DEF Grant, PlaysGuarded, StopsFirst
<1>7. ASSUME NEW c \in Conns, Ports(c) \/ StartStream(c) \/ ReplacePlayer(c) \/ Teardown(c)
      PROVE  Device'
  <2>1. CASE Ports(c) BY <2>1 DEF Ports, PlaysGuarded, StopsFirst
  <2>2. CASE StartStream(c) BY <2>2 DEF StartStream, Setups, PlaysGuarded, StopsFirst
  <2>3. CASE ReplacePlayer(c) BY <2>3 DEF ReplacePlayer, PlaysGuarded, StopsFirst
  <2>4. CASE Teardown(c) BY <2>4 DEF Teardown, PlaysGuarded, StopsFirst
  <2> QED BY <1>7, <2>1, <2>2, <2>3, <2>4
<1>8. ASSUME NEW c \in Conns, EndSession(c) \/ JoinPlayer(c) \/ Release(c) PROVE Device'
  <2>1. CASE EndSession(c) BY <2>1 DEF EndSession, PlaysGuarded, StopsFirst
  <2>2. CASE JoinPlayer(c) BY <2>2 DEF JoinPlayer, PlaysGuarded, StopsFirst
  <2>3. CASE Release(c) BY <2>3 DEF Release, PlaysGuarded, StopsFirst
  <2> QED BY <1>8, <2>1, <2>2, <2>3
<1> QED
  BY <1>0, <1>1, <1>2, <1>3, <1>4, <1>5, <1>6, <1>7, <1>8 DEF Next, Handle, Sender

LEMMA Guarded == Spec => []Device
<1>1. Init => Device BY InitDevice
<1>2. Typed /\ Owned /\ Device /\ [Next]_vars => Device' BY NextDevice
<1> QED BY <1>1, <1>2, Types, Ownership, PTL DEF Spec

\* Of the connections that own a token, at most one is not waiting.
LEMMA OneGuard ==
  ASSUME Typed, Owned, Claims, TokOrder,
         NEW c \in Conns, NEW d \in Conns, guard[c] # NoToken, guard[d] # NoToken
  PROVE  c = d
<1>1. /\ pc[c] \notin {"notifying", "waiting"} /\ Tok(c) # NoToken
      /\ pc[d] \notin {"notifying", "waiting"} /\ Tok(d) # NoToken
  BY DEF Owned, ClaimOwns, Claiming, Claims, ClaimsOnce, Tok
<1>2. Tok(c) <= Tok(d) /\ Tok(d) <= Tok(c)
  BY <1>1 DEF TokOrder, FreeIsOldest
<1> QED BY <1>1, <1>2, TokTyped DEF TokOrder, TokensDiffer

\* With no crossing and quick handlers, two connections never hold the device
\* at once, however many senders take the receiver from each other (takeover.rs,
\* the wait in claim; session.rs, the order of the fields dropped).
THEOREM OneHoldsDevice == ASSUME Orderly, Quick PROVE Spec => []OneDevice
<1>1. Typed /\ Owned /\ Claims /\ TokOrder /\ Device => OneDevice
  BY OneGuard DEF OneDevice, Device, PlaysGuarded
<1> QED BY <1>1, Types, Ownership, ClaimsHold, Order, Guarded, PTL

\* Under the same conditions the host never sees two sessions at once: the old
\* session's end precedes the new one's start (tests/takeover.rs).
THEOREM OneSessionAtATime == ASSUME Orderly, Quick PROVE Spec => []OneSession
<1>1. Typed /\ Owned /\ Claims /\ TokOrder /\ Device => OneSession
  BY OneGuard DEF OneSession, Device, PlaysGuarded
<1> QED BY <1>1, Types, Ownership, ClaimsHold, Order, Guarded, PTL

\* Under the same conditions a vacant slot means silence, so the claim that
\* finds it vacant may start without waiting (takeover.rs, claim).
THEOREM VacantMeansSilent == ASSUME Orderly, Quick PROVE Spec => []VacantIsSilent
<1>1. Typed /\ Claims /\ TokOrder /\ Device => VacantIsSilent
  <2> SUFFICES ASSUME Typed, Claims, TokOrder, Device,
                      holderId = NoConn, NEW c \in Conns
               PROVE  sinks[c] = 0
    BY DEF VacantIsSilent
  <2>1. Tok(c) = NoToken
    BY DEF TokOrder, SlotIsYoungest
  <2>2. guard[c] = NoToken
    BY <2>1 DEF Tok
  <2> QED BY <2>2 DEF Device, PlaysGuarded, Typed, TypeOK
<1> QED BY <1>1, Types, ClaimsHold, Order, Guarded, PTL
=============================================================================
