------------------------------- MODULE Roster -------------------------------
(***************************************************************************)
(* Receivers on the network (openairplay2-tui/src/discover.rs): Avahi's    *)
(* signals, resolved one by one into a roster that is keyed the way Avahi  *)
(* keys its advertisements and shown one row per receiver name.            *)
(*                                                                         *)
(* An advertisement is a receiver's name on one net, an interface and an   *)
(* address family; nets are numbered in the order of the roster's keys.    *)
(***************************************************************************)
EXTENDS Integers, Sequences

CONSTANTS
  Ads,       \* the advertisements there may be: [net : Nat, name : a name]
  NameOrder  \* the receivers' names, sorted

ASSUME RosterAssumption ==
  /\ NameOrder \in Seq({NameOrder[i] : i \in DOMAIN NameOrder})
  /\ \A i, j \in DOMAIN NameOrder : NameOrder[i] = NameOrder[j] => i = j
  /\ \A ad \in Ads : ad.net \in Nat /\ \E i \in DOMAIN NameOrder : NameOrder[i] = ad.name

VARIABLES
  world,   \* what is advertised
  signals, \* the browser's signals not yet handled
  entries, \* per advertisement, the family of the address it resolved to
  found    \* history: the advertisements that stand and were resolved

roster == <<world, signals, entries, found>>

RosterInit ==
  /\ world = {} /\ signals = <<>> /\ found = {}
  /\ entries = [ad \in Ads |-> "none"]

-----------------------------------------------------------------------------
Seen(e, name) == {ad \in Ads : ad.name = name /\ e[ad] # "none"}

\* Of a name's addresses the first IPv4 one, or the first.
Preferred(e, name) ==
  LET v4 == {ad \in Seen(e, name) : e[ad] = "v4"}
      best == IF v4 # {} THEN v4 ELSE Seen(e, name)
  IN  CHOOSE ad \in best : \A other \in best : ad.net <= other.net

\* The rows to offer: one for each name seen, in the order of the names.
Receivers(e) ==
  LET rows[n \in 0..Len(NameOrder)] ==
        IF n = 0 THEN <<>>
        ELSE IF Seen(e, NameOrder[n]) = {} THEN rows[n - 1]
        ELSE Append(rows[n - 1], Preferred(e, NameOrder[n]))
  IN  rows[Len(NameOrder)]

-----------------------------------------------------------------------------
\* Avahi: an advertisement comes or goes.
Advertise(ad) ==
  /\ world' = IF ad \in world THEN world \ {ad} ELSE world \union {ad}
  /\ signals' = Append(signals, [new |-> ad \notin world, ad |-> ad])
  /\ found' = found \ {ad}
  /\ UNCHANGED entries

\* resolve: an address, or nothing a display could use: a link-local address,
\* or an error, as when the service is gone again.
Answers == {"v4", "v6", "unusable"}

\* Mutant of AfterSignal: a name that goes on one net goes on all.
AfterSignalByName(s, answer) ==
  IF s.new
  THEN IF answer = "unusable" THEN entries ELSE [entries EXCEPT ![s.ad] = answer]
  ELSE [ad \in Ads |-> IF ad.name = s.ad.name THEN "none" ELSE entries[ad]]

\* The roster after a signal: one entry, of exactly the key it names.
AfterSignal(s, answer) ==
  IF s.new
  THEN IF answer = "unusable" THEN entries ELSE [entries EXCEPT ![s.ad] = answer]
  ELSE [entries EXCEPT ![s.ad] = "none"]

\* The rows are reported after every removal and every useful resolution.
Reports(s, answer) == ~ s.new \/ answer # "unusable"

HandleSignal(answer) ==
  /\ signals # <<>>
  /\ entries' = AfterSignal(Head(signals), answer)
  /\ signals' = Tail(signals)
  /\ LET s == Head(signals)
         last == \A i \in DOMAIN signals' : signals'[i].ad # s.ad
     IN  found' = IF s.new /\ answer # "unusable" /\ last THEN found \union {s.ad} ELSE found
  /\ UNCHANGED world
=============================================================================
