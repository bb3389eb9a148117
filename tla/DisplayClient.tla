--------------------------- MODULE DisplayClient ---------------------------
(***************************************************************************)
(* The display: its client task, which looks for a receiver and holds the  *)
(* connection (openairplay2-tui/src/client.rs, main.rs), the discovery     *)
(* task (Roster), and the event loop with its picker and the cover art on  *)
(* the terminal (tui.rs, images.rs).  The tasks meet in two channels:      *)
(* updates to the screen, selections to the client.                        *)
(*                                                                         *)
(* Delays are not modelled: a backoff ends at any time.  Of a receiver's   *)
(* messages only the artwork is kept; module NowPlaying has the others.    *)
(***************************************************************************)
EXTENDS Roster, TerminalGraphics

CONSTANTS
  Local,     \* the local candidates, most preferred first
  Lockable,  \* the hosts that may refuse a display without the password
  Given,     \* the host an endpoint argument names
  Covers,    \* pictures a receiver may send
  Unusable,  \* those that do not decode
  Environments, \* what the display may be started in
  None,      \* no host, no picture
  MaxUpdates,\* bound: updates in the channel
  MaxEvents  \* bound: moves of the surroundings and of the user

Names == {NameOrder[i] : i \in DOMAIN NameOrder}

\* Where a receiver may answer: an advertisement is an address of its receiver,
\* and the same receiver on another net has another one.
Hosts == {Local[i] : i \in DOMAIN Local} \union Ads \union {Given}

ASSUME DisplayAssumption ==
  /\ Local \in Seq(Hosts) /\ Lockable \subseteq Hosts /\ Given \notin Ads
  /\ Unusable \subseteq Covers
  /\ None \notin Hosts \union Names \union Covers
  /\ MaxUpdates \in Nat /\ MaxEvents \in Nat

VARIABLES
  answers,   \* what a host does with a connection: "down", "up", "locked" or "silent"
  pc,        \* the client: "probe", "pending", "live" or "wait"
  target,    \* None: the local candidates or a choice; else the one endpoint
  candidates,\* the local candidates of this mode
  index,     \* the endpoint of this round
  verdict,   \* run's update at the end of a round
  updates, selections, \* the two channels
  connection, label,   \* the screen's connection and the endpoint it names
  picker,    \* 0, or the highlighted row
  listed,    \* discovered
  chosen,    \* a row was chosen
  artwork,   \* the picture the screen wants
  terminal, visible, \* what the display runs in; is its pane on the screen?
  focusEvents, focused, drawn, \* ArtworkOnScreen and the events it waits for
  picture,   \* what the terminal has of ours
  aim,       \* history: the receiver the user moved to
  events     \* bound

client == <<pc, target, candidates, index, verdict>>
screen == <<connection, label, picker, listed, chosen, aim>>
cover == <<artwork, focusEvents, focused, drawn, picture, visible>>
vars == <<roster, answers, client, updates, selections, screen, cover, terminal,
          events>>

-----------------------------------------------------------------------------
Init ==
  /\ RosterInit
  /\ answers = [h \in Hosts |-> "down"]
  /\ \/ target = Given /\ candidates = <<>> /\ picker = 0 \* an endpoint argument
     \/ target = None /\ candidates = <<>> /\ picker = 1  \* --discover
     \/ target = None /\ candidates = Local /\ picker = 0
  /\ pc = "probe" /\ index = 1 /\ verdict = "lost"
  /\ updates = <<>> /\ selections = <<>>
  /\ connection = "connecting" /\ label = None /\ listed = <<>> /\ chosen = FALSE
  /\ artwork = None /\ visible = TRUE
  /\ \E env \in Environments : terminal = Started(env)
  /\ focusEvents = <<>> /\ focused = TRUE /\ drawn = None /\ picture = None
  /\ aim = None /\ events = 0

\* Something outside the display's tasks happens.
External == events < MaxEvents /\ events' = events + 1

Send(u) == Len(updates) < MaxUpdates /\ updates' = Append(updates, u)

-----------------------------------------------------------------------------
\* The surroundings.

Turn(h, a) ==
  /\ External
  /\ (answers[h] = "down") # (a = "down")
  /\ a = "locked" => h \in Lockable
  /\ answers' = [answers EXCEPT ![h] = a]
  /\ UNCHANGED <<roster, client, updates, selections, screen, cover, terminal>>

Advertisement(ad) ==
  /\ External /\ target # Given
  /\ Advertise(ad)
  /\ UNCHANGED <<answers, client, updates, selections, screen, cover, terminal>>

\* discover::browse, for one signal.
Browse(answer) ==
  /\ HandleSignal(answer)
  /\ IF Reports(Head(signals), answer)
     THEN Send([op |-> "list", list |-> Receivers(entries')])
     ELSE UNCHANGED updates
  /\ UNCHANGED <<answers, client, selections, screen, cover, terminal, events>>

-----------------------------------------------------------------------------
\* The client task.

Endpoints == IF target = None THEN candidates ELSE <<target>>
Endpoint == Endpoints[index]

\* run(vec![selected]).
TakeSelection ==
  /\ target' = Head(selections) /\ selections' = Tail(selections)
  /\ pc' = "probe" /\ index' = 1 /\ verdict' = "lost"
  /\ UNCHANGED <<roster, answers, candidates, updates, screen, cover, terminal,
                 events>>

\* A choice made while probing wins over more probing.
Selected ==
  /\ target = None /\ selections # <<>>
  /\ pc = "wait" \/ (pc = "probe" /\ index <= Len(candidates))
  /\ TakeSelection

Attempts == pc = "probe" /\ index <= Len(Endpoints) /\ (target = None => selections = <<>>)

ClientOnly ==
  UNCHANGED <<roster, answers, target, candidates, selections, screen, cover, terminal,
              events>>

Connect ==
  /\ Attempts /\ answers[Endpoint] = "up"
  /\ Send([op |-> "connected", host |-> Endpoint])
  /\ pc' = "live"
  /\ UNCHANGED <<index, verdict>> /\ ClientOnly

\* The host accepts and never answers the handshake, which has no timeout.
Hang ==
  /\ Attempts /\ answers[Endpoint] = "silent"
  /\ pc' = "pending"
  /\ UNCHANGED <<index, verdict, updates>> /\ ClientOnly

\* In its own time such a host answers after all, or the connection is reset.
LateAnswer ==
  /\ pc = "pending" /\ External
  /\ \/ /\ answers[Endpoint] = "up"
        /\ Send([op |-> "connected", host |-> Endpoint])
        /\ pc' = "live" /\ UNCHANGED index
     \/ pc' = "probe" /\ index' = index + 1 /\ UNCHANGED updates
  /\ UNCHANGED <<roster, answers, target, candidates, verdict, selections, screen, cover,
                 terminal>>

\* Refused, or told 401.
Fail ==
  /\ Attempts /\ answers[Endpoint] \in {"down", "locked"}
  /\ index' = index + 1
  /\ verdict' = IF answers[Endpoint] = "locked" THEN "unauthorized" ELSE verdict
  /\ UNCHANGED <<pc, updates>> /\ ClientOnly

\* A message of the receiver: a picture, or the end of one.
Hear(art) ==
  /\ pc = "live" /\ External
  /\ Send([op |-> "art", art |-> art])
  /\ UNCHANGED <<roster, answers, client, selections, screen, cover, terminal>>

\* The connection closes.  The local mode says so and goes on with the round;
\* the other ends its round and says so there.
Close ==
  /\ pc = "live" /\ answers[Endpoint] # "up"
  /\ pc' = "probe" /\ verdict' = "lost"
  /\ IF target = None
     THEN Send([op |-> "lost"]) /\ index' = index + 1
     ELSE index' = Len(Endpoints) + 1 /\ UNCHANGED updates
  /\ ClientOnly

\* The connection breaks (connected's `frame?`): both take it for an endpoint
\* that failed, and the local mode does not say that it was connected.
Break ==
  /\ pc = "live" /\ answers[Endpoint] # "up"
  /\ pc' = "probe" /\ index' = index + 1
  /\ UNCHANGED <<verdict, updates>> /\ ClientOnly

\* Mutant of EndRound: run waits without a word.
EndRoundSilently ==
  /\ pc = "probe" /\ index > Len(Endpoints)
  /\ pc' = "wait"
  /\ IF target = None THEN Send([op |-> "nolocal"]) ELSE UNCHANGED updates
  /\ UNCHANGED <<index, verdict>> /\ ClientOnly

EndRound ==
  /\ pc = "probe" /\ index > Len(Endpoints)
  /\ pc' = "wait"
  /\ Send([op |-> IF target = None THEN "nolocal" ELSE verdict])
  /\ UNCHANGED <<index, verdict>> /\ ClientOnly

\* Mutant of Retry: the next round goes on where this one stopped.
RetryNowhere ==
  /\ pc = "wait" /\ pc' = "probe"
  /\ verdict' = "lost"
  /\ UNCHANGED <<index, updates>> /\ ClientOnly

Retry ==
  /\ pc = "wait" /\ pc' = "probe" /\ index' = 1
  /\ verdict' = "lost"
  /\ UNCHANGED updates /\ ClientOnly

-----------------------------------------------------------------------------
\* The event loop: one event, then the screen is drawn and sync brings the
\* picture up to date.

\* Do our escapes get through to the terminal now?  tmux's allow-passthrough.
Passes == terminal.passes = "all" \/ (terminal.passes = "visible" /\ visible)

\* Graphics::draw: what does not decode leaves the screen text-only.
Draws(art) == terminal.draws /\ art \notin Unusable

Wanted == IF Draws(artwork') THEN artwork' ELSE None

\* Mutant of Sync: focus is only a trigger.
SyncAlways ==
  /\ drawn' = Wanted
  /\ picture' = IF Wanted # drawn /\ Passes THEN Wanted ELSE picture

\* Nothing is sent while another pane is looked at.
Sync ==
  IF focused
  THEN /\ drawn' = Wanted
       /\ picture' = IF Wanted # drawn /\ Passes THEN Wanted ELSE picture
  ELSE UNCHANGED <<drawn, picture>>

LoopOnly == UNCHANGED <<roster, answers, client, terminal>>

\* Mutant of Anchored: the highlight keeps its row.
AnchoredToRow(list) == IF picker <= Len(list) THEN picker ELSE 1

\* The highlighted receiver's row in a new list, or the first.
Anchored(list) ==
  LET rows == {i \in DOMAIN list : picker <= Len(listed) /\ list[i].name = listed[picker].name}
  IN  IF rows = {} THEN 1 ELSE CHOOSE i \in rows : TRUE

Show(u) ==
  \/ /\ u.op = "connected"
     /\ connection' = "connected" /\ label' = u.host /\ picker' = 0 /\ aim' = None
     /\ UNCHANGED <<listed, chosen, artwork>>
  \/ /\ u.op \in {"lost", "unauthorized"}
     /\ connection' = u.op
     /\ UNCHANGED <<label, picker, listed, chosen, aim, artwork>>
  \/ /\ u.op = "art"
     /\ artwork' = u.art
     /\ UNCHANGED screen
  \/ /\ u.op = "nolocal"
     /\ picker' = IF ~ chosen /\ picker = 0 THEN 1 ELSE picker
     /\ UNCHANGED <<connection, label, listed, chosen, aim, artwork>>
  \/ /\ u.op = "list"
     /\ listed' = u.list
     /\ picker' = IF picker = 0 THEN 0 ELSE Anchored(u.list)
     /\ aim' = IF \E i \in DOMAIN u.list : u.list[i].name = aim THEN aim ELSE None
     /\ UNCHANGED <<connection, label, chosen, artwork>>

Update ==
  /\ updates # <<>>
  /\ updates' = Tail(updates)
  /\ Show(Head(updates)) /\ Sync
  /\ UNCHANGED <<selections, visible, focusEvents, focused, events>> /\ LoopOnly

Move(step) ==
  /\ External
  /\ picker # 0 /\ listed # <<>>
  /\ picker' = IF picker + step \in DOMAIN listed THEN picker + step ELSE picker
  /\ aim' = listed[picker'].name
  /\ UNCHANGED artwork /\ Sync
  /\ UNCHANGED <<updates, selections, connection, label, listed, chosen, visible,
                 focusEvents, focused>> /\ LoopOnly

\* The endpoint is the row's address, from now on the only one.
Choose ==
  /\ External
  /\ picker \in DOMAIN listed
  /\ label' = listed[picker]
  /\ selections' = Append(selections, label')
  /\ connection' = "connecting" /\ chosen' = TRUE /\ picker' = 0 /\ aim' = None
  /\ UNCHANGED artwork /\ Sync
  /\ UNCHANGED <<updates, listed, visible, focusEvents, focused>> /\ LoopOnly

\* The user looks at another tmux window, or at this one again.
Switch ==
  /\ terminal.tmux /\ External
  /\ visible' = ~ visible
  /\ focusEvents' = Append(focusEvents, visible')
  /\ UNCHANGED <<roster, answers, client, updates, selections, screen, artwork,
                 focused, drawn, picture, terminal>>

\* focus_lost.
Unfocus ==
  /\ drawn' = None
  /\ picture' = IF drawn # None /\ Passes THEN None ELSE picture

\* focus_gained's redraw is the next one, which comes at once.
Refocus ==
  /\ drawn' = Wanted
  /\ picture' = IF Wanted # drawn /\ Passes THEN Wanted ELSE picture

Focus ==
  /\ focusEvents # <<>>
  /\ focusEvents' = Tail(focusEvents)
  /\ focused' = Head(focusEvents)
  /\ UNCHANGED artwork
  /\ IF focused' THEN Refocus ELSE Unfocus
  /\ UNCHANGED <<updates, selections, screen, visible, events>> /\ LoopOnly

-----------------------------------------------------------------------------
ClientStep ==
  Selected \/ Connect \/ Hang \/ Fail \/ Close \/ Break \/ EndRound \/ Retry

Next ==
  \/ \E h \in Hosts, a \in {"down", "up", "locked", "silent"} : Turn(h, a)
  \/ \E ad \in Ads : Advertisement(ad)
  \/ \E answer \in Answers : Browse(answer)
  \/ ClientStep \/ LateAnswer
  \/ \E art \in Covers \union {None} : Hear(art)
  \/ Update \/ \E step \in {-1, 1} : Move(step)
  \/ Choose \/ Switch \/ Focus

Spec == Init /\ [][Next]_vars

\* The tasks run; hosts, users and senders do what they like.
FairSpec ==
  /\ Spec
  /\ WF_vars(ClientStep) /\ WF_vars(Update) /\ WF_vars(Focus)
  /\ WF_vars(\E answer \in Answers : Browse(answer))

-----------------------------------------------------------------------------
\* A receiver that is up for good, at an address the client looks for, is found:
\* whatever refuses, locks or drops the display elsewhere, and however often the
\* connection went before, unless an attempt hangs for ever: then no other
\* endpoint is tried.
HostFound ==
  \A h \in Hosts :
    /\ <>[](answers[h] = "up" /\ \E i \in DOMAIN Endpoints : Endpoints[i] = h)
    /\ []<>(pc # "pending")
    => []<>(pc = "live")

\* Once it has seen every update, the screen names the receiver the client is
\* connected to, and claims no connection while the client waits for the next
\* round.
ScreenTells ==
  updates = <<>> /\ selections = <<>> =>
    /\ pc = "live" => connection = "connected" /\ label = Endpoint /\ picker = 0
    /\ pc = "wait" => connection # "connected" \/ picker # 0

\* Enter connects to the receiver the user moved to, whatever the list did
\* meanwhile, unless that receiver left it.
ChoiceIsAimed == [][Choose /\ aim # None => label'.name = aim]_vars

\* With no signal and no list under way, the screen offers exactly the
\* receivers with an advertisement that stands and was resolved, each once and
\* at the address of such an advertisement.
ListIsCurrent ==
  signals = <<>> /\ (\A i \in DOMAIN updates : updates[i].op # "list") =>
    /\ {listed[i].name : i \in DOMAIN listed} = {ad.name : ad \in found}
    /\ \A i \in DOMAIN listed : listed[i] \in found
    /\ \A i, j \in DOMAIN listed : listed[i].name = listed[j].name => i = j

\* Under allow-passthrough all, once the pane's focus events are handled, the
\* terminal has the picture the screen wants, if it can be drawn and the pane
\* is looked at, and otherwise no picture of ours.
PictureAgrees ==
  terminal.passes = "all" /\ focusEvents = <<>> =>
    picture = IF visible /\ Draws(artwork) THEN artwork ELSE None
=============================================================================
