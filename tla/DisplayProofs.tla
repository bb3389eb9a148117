---------------------------- MODULE DisplayProofs ----------------------------
(***************************************************************************)
(* What is proved of the displays: of the client, its picker, its list and *)
(* its picture (module DisplayClient, with Roster), and of what a receiver *)
(* sends them (module NowPlaying).                                         *)
(*                                                                         *)
(* For the client, five strengthenings, each about one pair of actors:     *)
(*   Standing  - the browser's signals under way and the roster,           *)
(*   Listing   - the roster and the list on its way to the screen,         *)
(*   Telling   - what the client last said and where it stands,            *)
(*   Aimed     - the highlight and the row the user moved to,              *)
(*   Drawing   - the pane's focus events and the picture.                  *)
(* For the feed, Held and Reached: the snapshot is a fixed point of all    *)
(* that the channel still keeps, and a display that is not behind comes to *)
(* the snapshot.                                                           *)
(***************************************************************************)
EXTENDS DisplayClient, NowPlaying, SequenceTheorems, WellFoundedInduction, TLAPS

-----------------------------------------------------------------------------
\* Naturals.

LEMMA SetInduction ==
  ASSUME NEW S \in SUBSET Nat, 0 \in S, \A n \in S : n + 1 \in S
  PROVE  S = Nat
<1> DEFINE T == Nat \ S
<1>1. SUFFICES ASSUME T # {} PROVE FALSE
  OBVIOUS
<1>2. IsWellFoundedOn(OpToRel(<, Nat), Nat)
  BY NatLessThanWellFounded
<1>3. PICK x \in T : \A y \in T : ~ (<<y, x>> \in OpToRel(<, Nat))
  <2> HIDE DEF T
  <2> T \subseteq Nat BY DEF T
  <2> QED BY <1>1, <1>2, WFMin
<1>4. x \in Nat /\ x # 0 /\ x - 1 \in Nat /\ x - 1 < x
  BY DEF T
<1>5. x - 1 \notin T
  BY <1>3, <1>4 DEF OpToRel
<1>6. x - 1 \in S /\ (x - 1) + 1 = x /\ x \notin S
  BY <1>4, <1>5
<1> QED BY <1>6

(* A nonempty set of naturals has a least element. *)
LEMMA LeastAd ==
  ASSUME NEW A, \A a \in A : a.net \in Nat, A # {}
  PROVE  \E a \in A : \A other \in A : a.net <= other.net
<1> DEFINE T == {a.net : a \in A}
<1>1. T \subseteq Nat /\ T # {}
  OBVIOUS
<1>2. IsWellFoundedOn(OpToRel(<, Nat), Nat)
  BY NatLessThanWellFounded
<1>3. PICK x \in T : \A y \in T : ~ (<<y, x>> \in OpToRel(<, Nat))
  <2> HIDE DEF T
  <2>1. T \subseteq Nat /\ T # {} BY <1>1
  <2> QED BY <1>2, <2>1, WFMin
<1>4. \A y \in T : x <= y
  <2> HIDE DEF T
  <2>1. ASSUME NEW y \in T PROVE ~ (y < x)
    <3>1. x \in Nat /\ y \in Nat
      BY <1>1
    <3> QED BY <1>3, <3>1, Zenon DEF OpToRel
  <2>2. x \in Nat /\ \A y \in T : y \in Nat
    BY <1>1
  <2> QED BY <2>1, <2>2
<1> QED BY <1>4

(* The row of a name is one of its advertisements (Preferred). *)
LEMMA PreferredIsSeen ==
  ASSUME NEW e, NEW name, Seen(e, name) # {}
  PROVE  Preferred(e, name) \in Seen(e, name)
<1> DEFINE v4 == {ad \in Seen(e, name) : e[ad] = "v4"}
           best == IF v4 # {} THEN v4 ELSE Seen(e, name)
<1>1. best # {} /\ best \subseteq Seen(e, name)
  OBVIOUS
<1>2. \A ad \in Seen(e, name) : ad.net \in Nat
  BY RosterAssumption DEF Seen
<1>3. \E ad \in best : \A other \in best : ad.net <= other.net
  <2> HIDE DEF best
  <2> QED BY <1>1, <1>2, LeastAd
<1>4. Preferred(e, name) = CHOOSE ad \in best : \A other \in best : ad.net <= other.net
  BY DEF Preferred
<1>5. Preferred(e, name) \in best
  <2> HIDE DEF best
  <2> QED BY <1>3, <1>4
<1> QED BY <1>1, <1>5

(***************************************************************************)
(* The rows after the first n names, as Receivers builds them.             *)
(***************************************************************************)
Builds(e, rows, n) ==
  rows = [k \in 0..n |->
            IF k = 0 THEN <<>>
            ELSE IF Seen(e, NameOrder[k]) = {} THEN rows[k - 1]
            ELSE Append(rows[k - 1], Preferred(e, NameOrder[k]))]

\* Such rows exist, so Receivers, which chooses them, has them.
LEMMA RowsExist ==
  ASSUME NEW e, NEW n \in Nat
  PROVE  \E rows : Builds(e, rows, n)
<1> DEFINE S == {m \in Nat : \E rows : Builds(e, rows, m)}
<1>1. 0 \in S
  <2> DEFINE r == [k \in 0..0 |-> <<>>]
  <2>1. Builds(e, r, 0)
    BY DEF Builds
  <2> QED BY <2>1
<1>2. ASSUME NEW m \in S PROVE m + 1 \in S
  <2>1. PICK rows : Builds(e, rows, m)
    OBVIOUS
  <2> DEFINE next == IF Seen(e, NameOrder[m + 1]) = {} THEN rows[m]
                     ELSE Append(rows[m], Preferred(e, NameOrder[m + 1]))
             r == [k \in 0..(m + 1) |-> IF k = m + 1 THEN next ELSE rows[k]]
  <2>2. m \in Nat /\ m + 1 \in Nat
    OBVIOUS
  <2>3. ASSUME NEW k \in 0..(m + 1)
        PROVE  r[k] = IF k = 0 THEN <<>>
                      ELSE IF Seen(e, NameOrder[k]) = {} THEN r[k - 1]
                      ELSE Append(r[k - 1], Preferred(e, NameOrder[k]))
    <3>1. CASE k = m + 1
      <4>1. k # 0 /\ k - 1 = m /\ m \in 0..(m + 1) /\ m # m + 1
        BY <2>2, <3>1
      <4>2. r[k] = next /\ r[k - 1] = rows[m]
        BY <3>1, <4>1
      <4> HIDE DEF r
      <4> QED BY <3>1, <4>1, <4>2
    <3>2. CASE k = 0
      BY <2>1, <2>2, <3>2 DEF Builds
    <3>3. CASE k # 0 /\ k # m + 1
      <4>1. k \in 0..m /\ k - 1 \in 0..m /\ k - 1 \in 0..(m + 1) /\ k - 1 # m + 1
        BY <2>2, <3>3
      <4>2. r[k] = rows[k] /\ r[k - 1] = rows[k - 1]
        BY <3>3, <4>1
      <4> HIDE DEF r
      <4> QED BY <2>1, <3>3, <4>1, <4>2 DEF Builds
    <3> QED BY <3>1, <3>2, <3>3
  <2>4. r = [k \in 0..(m + 1) |->
            IF k = 0 THEN <<>>
            ELSE IF Seen(e, NameOrder[k]) = {} THEN r[k - 1]
            ELSE Append(r[k - 1], Preferred(e, NameOrder[k]))]
    <3>1. r = [k \in 0..(m + 1) |-> r[k]]
      OBVIOUS
    <3> HIDE DEF r
    <3> QED BY <2>3, <3>1
  <2>5. Builds(e, r, m + 1)
    <3> HIDE DEF r
    <3> QED BY <2>4 DEF Builds
  <2> QED BY <2>2, <2>5
<1>3. S = Nat
  <2> HIDE DEF S
  <2>1. S \subseteq Nat BY DEF S
  <2> QED BY <1>1, <1>2, <2>1, SetInduction
<1> QED BY <1>3

(* After n names the rows are those of the names seen so far, one each.    *)
RowsOf(e, list, n) ==
  /\ list \in Seq(Ads)
  /\ \A i \in DOMAIN list :
       \E k \in 1..n : list[i] \in Seen(e, NameOrder[k]) /\ list[i].name = NameOrder[k]
  /\ \A k \in 1..n : Seen(e, NameOrder[k]) # {} =>
       \E i \in DOMAIN list : list[i].name = NameOrder[k]
  /\ \A i, j \in DOMAIN list : list[i].name = list[j].name => i = j

LEMMA RowsStep ==
  ASSUME NEW e, NEW list, NEW n \in Nat, n + 1 \in DOMAIN NameOrder, RowsOf(e, list, n),
         NEW next,
         next = IF Seen(e, NameOrder[n + 1]) = {} THEN list
                ELSE Append(list, Preferred(e, NameOrder[n + 1]))
  PROVE  RowsOf(e, next, n + 1)
<1> DEFINE name == NameOrder[n + 1]
           row == Preferred(e, name)
<1>0. NameOrder \in Seq({NameOrder[i] : i \in DOMAIN NameOrder})
  BY RosterAssumption
<1>1. \A k \in 1..n : k \in DOMAIN NameOrder /\ NameOrder[k] # name
  <2>1. \A k \in 1..n : k \in 1..Len(NameOrder) /\ k # n + 1
    BY <1>0
  <2> QED BY <1>0, <2>1, RosterAssumption
<1>2. \A k \in 1..(n + 1) : k \in 1..n \/ k = n + 1
  OBVIOUS
<1>3. 1..n \subseteq 1..(n + 1) /\ n + 1 \in 1..(n + 1)
  OBVIOUS
<1>4. CASE Seen(e, name) = {}
  BY <1>2, <1>3, <1>4 DEF RowsOf
<1>5. CASE Seen(e, name) # {}
  <2>1. row \in Seen(e, name)
    BY <1>5, PreferredIsSeen
  <2>2. row \in Ads /\ row.name = name
    BY <2>1 DEF Seen
  <2> HIDE DEF row, name
  <2>3. next = Append(list, row) /\ list \in Seq(Ads)
    BY <1>5 DEF row, name, RowsOf
  <2>4. next \in Seq(Ads) /\ Len(next) = Len(list) + 1 /\ Len(list) \in Nat
        /\ next[Len(list) + 1] = row /\ \A i \in 1..Len(list) : next[i] = list[i]
    BY <2>2, <2>3
  <2>5. DOMAIN next = 1..(Len(list) + 1) /\ DOMAIN list = 1..Len(list)
    BY <2>3, <2>4
  <2>6. \A i \in DOMAIN next : i \in DOMAIN list \/ i = Len(list) + 1
    BY <2>4, <2>5
  <2>7. DOMAIN list \subseteq DOMAIN next /\ Len(list) + 1 \in DOMAIN next
    BY <2>4, <2>5
  <2>8. \A i \in DOMAIN list : next[i] = list[i] /\ list[i].name # name
    BY <1>1, <2>4, <2>5 DEF RowsOf
  <2>9. \A i \in DOMAIN next :
          \E k \in 1..(n + 1) : next[i] \in Seen(e, NameOrder[k]) /\ next[i].name = NameOrder[k]
    <3>1. NameOrder[n + 1] = name BY DEF name
    <3>2. \A i \in DOMAIN list :
       \E k \in 1..n : list[i] \in Seen(e, NameOrder[k]) /\ list[i].name = NameOrder[k]
      BY DEF RowsOf
    <3>3. next[Len(list) + 1] \in Seen(e, NameOrder[n + 1]) /\ next[Len(list) + 1].name = NameOrder[n + 1]
      BY <2>1, <2>2, <2>4, <3>1
    <3> QED BY <1>3, <2>6, <2>8, <3>2, <3>3
  <2>10. \A k \in 1..(n + 1) : Seen(e, NameOrder[k]) # {} =>
           \E i \in DOMAIN next : next[i].name = NameOrder[k]
    <3>1. NameOrder[n + 1] = name BY DEF name
    <3>2. next[Len(list) + 1].name = NameOrder[n + 1]
      BY <2>2, <2>4, <3>1
    <3>3. \A k \in 1..n : Seen(e, NameOrder[k]) # {} =>
            \E i \in DOMAIN list : list[i].name = NameOrder[k]
      BY DEF RowsOf
    <3> QED BY <1>2, <2>7, <2>8, <3>2, <3>3
  <2>11. \A i, j \in DOMAIN next : next[i].name = next[j].name => i = j
    <3>1. \A i, j \in DOMAIN list : list[i].name = list[j].name => i = j
      BY DEF RowsOf
    <3> QED BY <2>2, <2>4, <2>6, <2>8, <3>1
  <2> QED BY <2>4, <2>9, <2>10, <2>11 DEF RowsOf
<1> QED BY <1>4, <1>5

(* The rows offered are those of every name seen, one each (Receivers).    *)
LEMMA ReceiversRows ==
  ASSUME NEW e
  PROVE  RowsOf(e, Receivers(e), Len(NameOrder))
<1> DEFINE N == Len(NameOrder)
<1>0. NameOrder \in Seq({NameOrder[i] : i \in DOMAIN NameOrder})
  BY RosterAssumption
<1>1. N \in Nat /\ DOMAIN NameOrder = 1..N
  BY <1>0
<1> HIDE DEF N
<1> DEFINE f == CHOOSE rows : Builds(e, rows, N)
<1>2. Builds(e, f, N)
  BY <1>1, RowsExist
<1>3. Receivers(e) = f[N]
  BY DEF Receivers, Builds, N
<1> HIDE DEF f
<1> DEFINE S == {n \in Nat : n <= N => RowsOf(e, f[n], n)}
<1>4. 0 \in S
  <2>1. f[0] = <<>>
    BY <1>1, <1>2 DEF Builds
  <2>2. <<>> \in Seq(Ads) /\ DOMAIN <<>> = {} /\ 1..0 = {}
    OBVIOUS
  <2>3. RowsOf(e, <<>>, 0)
    BY <2>2 DEF RowsOf
  <2> QED BY <2>1, <2>3
<1>5. ASSUME NEW n \in S PROVE n + 1 \in S
  <2>1. SUFFICES ASSUME n + 1 <= N PROVE RowsOf(e, f[n + 1], n + 1)
    OBVIOUS
  <2>2. n \in Nat /\ RowsOf(e, f[n], n) /\ n + 1 \in DOMAIN NameOrder
    BY <1>1, <2>1
  <2>3. f[n + 1] = IF Seen(e, NameOrder[n + 1]) = {} THEN f[n]
                   ELSE Append(f[n], Preferred(e, NameOrder[n + 1]))
    <3>1. n + 1 \in 0..N /\ n + 1 # 0 /\ (n + 1) - 1 = n
      BY <1>1, <2>1, <2>2
    <3> QED BY <1>2, <3>1 DEF Builds
  <2> QED BY <2>2, <2>3, RowsStep
<1>6. S = Nat
  <2> HIDE DEF S
  <2>1. S \subseteq Nat BY DEF S
  <2> QED BY <1>4, <1>5, <2>1, SetInduction
<1>7. RowsOf(e, f[N], N)
  BY <1>1, <1>6
<1> QED BY <1>3, <1>7 DEF N

LEMMA ReceiversType ==
  ASSUME NEW e
  PROVE  Receivers(e) \in Seq(Ads)
BY ReceiversRows DEF RowsOf

-----------------------------------------------------------------------------
\* What the network and the browser's table are made of (Roster).
RosterType ==
  /\ world \subseteq Ads /\ found \subseteq Ads
  /\ signals \in Seq([new : BOOLEAN, ad : Ads])
  /\ entries \in [Ads -> {"none", "v4", "v6"}]

\* An advertisement with a signal under way is not counted; the last signal
\* says how the network stands; signals of one advertisement alternate; what
\* the roster has of it, the first of them takes away.
Uncounted == \A i \in DOMAIN signals : signals[i].ad \notin found
Counted ==
  \A ad \in Ads : (\A i \in DOMAIN signals : signals[i].ad # ad) =>
    /\ ad \in found <=> entries[ad] # "none"
    /\ entries[ad] # "none" => ad \in world
LastStands ==
  \A i \in DOMAIN signals :
    (\A j \in DOMAIN signals : j > i => signals[j].ad # signals[i].ad)
      => signals[i].new = (signals[i].ad \in world)
Alternate ==
  \A i, j \in DOMAIN signals :
    /\ i < j /\ signals[i].ad = signals[j].ad
    /\ \A k \in DOMAIN signals : i < k /\ k < j => signals[k].ad # signals[i].ad
    => signals[i].new # signals[j].new
FirstTakes ==
  \A i \in DOMAIN signals :
    /\ \A j \in DOMAIN signals : j < i => signals[j].ad # signals[i].ad
    /\ entries[signals[i].ad] # "none"
    => signals[i].new = FALSE
Standing == Uncounted /\ Counted /\ LastStands /\ Alternate /\ FirstTakes

LEMMA SignalTypes ==
  ASSUME RosterType
  PROVE  /\ \A i \in DOMAIN signals : signals[i].ad \in Ads /\ signals[i].new \in BOOLEAN
         /\ signals # <<>> =>
              /\ Head(signals) = signals[1] /\ 1 \in DOMAIN signals
              /\ Head(signals) \in [new : BOOLEAN, ad : Ads]
              /\ Tail(signals) \in Seq([new : BOOLEAN, ad : Ads])
<1> DEFINE T == [new : BOOLEAN, ad : Ads]
<1>1. signals \in Seq(T)
  BY DEF RosterType
<1>2. \A t \in T : t.ad \in Ads /\ t.new \in BOOLEAN
  OBVIOUS
<1> HIDE DEF T
<1>3. \A i \in DOMAIN signals : signals[i] \in T
  BY <1>1
<1>4. signals # <<>> =>
        /\ Head(signals) = signals[1] /\ 1 \in DOMAIN signals
        /\ Head(signals) \in T /\ Tail(signals) \in Seq(T)
  BY <1>1
<1> QED BY <1>2, <1>3, <1>4 DEF T

LEMMA RosterTypeInit ==
  ASSUME RosterInit PROVE RosterType
BY DEF RosterInit, RosterType

LEMMA RosterTypeAdvertise ==
  ASSUME RosterType, NEW ad \in Ads, Advertise(ad)
  PROVE  RosterType'
<1> DEFINE s == [new |-> ad \notin world, ad |-> ad]
<1>1. s \in [new : BOOLEAN, ad : Ads]
  OBVIOUS
<1>2. signals' = Append(signals, s)
  BY DEF Advertise
<1>3. signals' \in Seq([new : BOOLEAN, ad : Ads])
  <2> HIDE DEF s
  <2> QED BY <1>1, <1>2 DEF RosterType
<1>4. world' \subseteq Ads /\ found' \subseteq Ads /\ entries' = entries
  BY DEF Advertise, RosterType
<1> QED BY <1>3, <1>4 DEF RosterType

LEMMA RosterTypeHandle ==
  ASSUME RosterType, NEW answer \in Answers, HandleSignal(answer)
  PROVE  RosterType'
<1>1. Head(signals) \in [new : BOOLEAN, ad : Ads]
      /\ Tail(signals) \in Seq([new : BOOLEAN, ad : Ads])
  BY SignalTypes DEF HandleSignal
<1>2. entries' \in [Ads -> {"none", "v4", "v6"}]
  BY <1>1 DEF RosterType, HandleSignal, AfterSignal, Answers
<1>3. found' \subseteq Ads
  <2>1. found' \subseteq found \union {Head(signals).ad}
    BY DEF HandleSignal
  <2> QED BY <1>1, <2>1 DEF RosterType
<1> QED BY <1>1, <1>2, <1>3 DEF RosterType, HandleSignal

LEMMA StandingInit ==
  ASSUME RosterInit PROVE Standing
BY DEF RosterInit, Standing, Uncounted, Counted, LastStands, Alternate, FirstTakes

LEMMA StandingAdvertise ==
  ASSUME RosterType, Standing, NEW ad \in Ads, Advertise(ad)
  PROVE  Standing'
<1> DEFINE s == [new |-> ad \notin world, ad |-> ad]
           n == Len(signals)
<1>0. s.new = (ad \notin world) /\ s.ad = ad /\ s \in [new : BOOLEAN, ad : Ads]
  OBVIOUS
<1>1. signals' = Append(signals, s) /\ entries' = entries /\ found' = found \ {ad}
  BY DEF Advertise
<1>2. ad \in world' <=> ad \notin world
  BY DEF Advertise
<1>3. \A b \in Ads : b # ad => (b \in world' <=> b \in world)
  BY DEF Advertise
<1> HIDE DEF s
<1>4. n \in Nat /\ DOMAIN signals = 1..n /\ DOMAIN signals' = 1..(n + 1)
      /\ signals'[n + 1] = s /\ \A i \in 1..n : signals'[i] = signals[i]
  BY <1>0, <1>1 DEF RosterType
<1>5. \A i \in 1..n : signals[i].ad \in Ads /\ signals[i].new \in BOOLEAN
  BY <1>4, SignalTypes
<1> HIDE DEF n
<1>6. \A i \in 1..(n + 1) : i \in 1..n \/ i = n + 1
  BY <1>4
<1>7. n + 1 \in 1..(n + 1) /\ \A i \in 1..n : i \in 1..(n + 1) /\ i < n + 1 /\ n + 1 > i
  BY <1>4
<1>8. Uncounted'
  BY <1>0, <1>1, <1>4, <1>6 DEF Standing, Uncounted
<1>9. Counted'
  <2>1. SUFFICES ASSUME NEW b \in Ads, \A i \in 1..(n + 1) : signals'[i].ad # b
                 PROVE  /\ b \in found' <=> entries'[b] # "none"
                        /\ entries'[b] # "none" => b \in world'
    BY <1>4 DEF Counted
  <2>2. b # ad /\ \A i \in DOMAIN signals : signals[i].ad # b
    BY <1>0, <1>4, <1>7, <2>1
  <2> QED BY <1>1, <1>3, <2>2 DEF Standing, Counted
<1>10. LastStands'
  <2>1. SUFFICES ASSUME NEW i \in 1..(n + 1),
                        \A j \in 1..(n + 1) : j > i => signals'[j].ad # signals'[i].ad
                 PROVE  signals'[i].new = (signals'[i].ad \in world')
    BY <1>4 DEF LastStands
  <2>2. CASE i = n + 1
    BY <1>0, <1>2, <1>4, <2>2
  <2>3. CASE i \in 1..n
    <3>1. signals[i].ad # ad
      BY <1>0, <1>4, <1>7, <2>1, <2>3
    <3>2. \A j \in DOMAIN signals : j > i => signals[j].ad # signals[i].ad
      BY <1>4, <1>7, <2>1, <2>3
    <3>3. signals[i].new = (signals[i].ad \in world)
      BY <1>4, <2>3, <3>2 DEF Standing, LastStands
    <3> QED BY <1>3, <1>4, <1>5, <2>3, <3>1, <3>3
  <2> QED BY <1>6, <2>2, <2>3
<1>11. Alternate'
  <2>1. SUFFICES ASSUME NEW i \in 1..(n + 1), NEW j \in 1..(n + 1),
                        i < j, signals'[i].ad = signals'[j].ad,
                        \A k \in 1..(n + 1) : i < k /\ k < j => signals'[k].ad # signals'[i].ad
                 PROVE  signals'[i].new # signals'[j].new
    BY <1>4 DEF Alternate
  <2>2. i \in 1..n
    BY <1>4, <2>1
  <2>3. CASE j \in 1..n
    <3>1. signals[i].ad = signals[j].ad
          /\ \A k \in DOMAIN signals : i < k /\ k < j => signals[k].ad # signals[i].ad
      BY <1>4, <1>7, <2>1, <2>2, <2>3
    <3> QED BY <1>4, <2>1, <2>2, <2>3, <3>1 DEF Standing, Alternate
  <2>4. CASE j = n + 1
    <3>1. signals[i].ad = ad
      BY <1>0, <1>4, <2>1, <2>2, <2>4
    <3>2. \A k \in DOMAIN signals : k > i => signals[k].ad # signals[i].ad
      BY <1>4, <1>7, <2>1, <2>2, <2>4
    <3>3. signals[i].new = (ad \in world)
      BY <1>4, <2>2, <3>1, <3>2 DEF Standing, LastStands
    <3> QED BY <1>0, <1>4, <2>2, <2>4, <3>3
  <2> QED BY <1>6, <2>3, <2>4
<1>12. FirstTakes'
  <2>1. SUFFICES ASSUME NEW i \in 1..(n + 1),
                        \A j \in 1..(n + 1) : j < i => signals'[j].ad # signals'[i].ad,
                        entries'[signals'[i].ad] # "none"
                 PROVE  signals'[i].new = FALSE
    BY <1>4 DEF FirstTakes
  <2>2. CASE i \in 1..n
    <3>1. \A j \in DOMAIN signals : j < i => signals[j].ad # signals[i].ad
      BY <1>4, <1>7, <2>1, <2>2
    <3> QED BY <1>1, <1>4, <2>1, <2>2, <3>1 DEF Standing, FirstTakes
  <2>3. CASE i = n + 1
    <3>1. \A j \in DOMAIN signals : signals[j].ad # ad
      BY <1>0, <1>4, <1>7, <2>1, <2>3
    <3>2. entries[ad] # "none"
      BY <1>0, <1>1, <1>4, <2>1, <2>3
    <3>3. ad \in world
      BY <3>1, <3>2 DEF Standing, Counted
    <3> QED BY <1>0, <1>4, <2>3, <3>3
  <2> QED BY <1>6, <2>2, <2>3
<1> QED BY <1>8, <1>9, <1>10, <1>11, <1>12 DEF Standing

LEMMA StandingHandle ==
  ASSUME RosterType, Standing, NEW answer \in Answers, HandleSignal(answer)
  PROVE  Standing'
<1> DEFINE s == Head(signals)
           n == Len(signals')
           last == \A i \in DOMAIN signals' : signals'[i].ad # s.ad
<1>1. signals # <<>> /\ signals' = Tail(signals) /\ world' = world
      /\ entries' = AfterSignal(s, answer)
      /\ found' = IF s.new /\ answer # "unusable" /\ last THEN found \union {s.ad} ELSE found
  BY DEF HandleSignal
<1>2. s = signals[1] /\ s.ad \in Ads /\ s.new \in BOOLEAN
  BY <1>1, SignalTypes
<1>3. n \in Nat /\ DOMAIN signals' = 1..n /\ DOMAIN signals = 1..(n + 1)
      /\ \A i \in 1..n : signals'[i] = signals[i + 1]
  BY <1>1 DEF RosterType
<1> HIDE DEF n, s
<1>4. \A i \in 1..n : i + 1 \in 1..(n + 1) /\ i + 1 > 1 /\ i + 1 # 1
  BY <1>3
<1>5. 1 \in 1..(n + 1)
      /\ \A i \in 1..(n + 1) : i = 1 \/ (i > 1 /\ i - 1 \in 1..n /\ (i - 1) + 1 = i)
  BY <1>3
<1>6. entries \in [Ads -> {"none", "v4", "v6"}] /\ entries' \in [Ads -> {"none", "v4", "v6"}]
  BY RosterTypeHandle DEF RosterType
<1>7. \A b \in Ads : b # s.ad => entries'[b] = entries[b]
  BY <1>1, <1>6 DEF AfterSignal
<1>8. entries'[s.ad] = IF s.new THEN (IF answer = "unusable" THEN entries[s.ad] ELSE answer)
                       ELSE "none"
  BY <1>1, <1>2, <1>6 DEF AfterSignal
<1>9. answer # "none"
  BY DEF Answers
<1>10. entries[s.ad] # "none" => s.new = FALSE
  <2>1. \A j \in DOMAIN signals : ~ (j < 1)
    BY <1>3
  <2> QED BY <1>2, <1>3, <1>5, <2>1 DEF Standing, FirstTakes
<1>11. s.ad \notin found
  BY <1>2, <1>3, <1>5 DEF Standing, Uncounted
<1>12. Uncounted'
  <2>1. SUFFICES ASSUME NEW i \in 1..n PROVE signals'[i].ad \notin found'
    BY <1>3 DEF Uncounted
  <2>2. signals'[i].ad \notin found
    BY <1>3, <1>4 DEF Standing, Uncounted
  <2> QED BY <1>1, <1>3, <2>2
<1>13. last => (s.new <=> s.ad \in world)
  <2>1. SUFFICES ASSUME last PROVE s.new = (s.ad \in world)
    OBVIOUS
  <2>2. \A j \in DOMAIN signals : j > 1 => signals[j].ad # signals[1].ad
    <3>1. SUFFICES ASSUME NEW j \in 1..(n + 1), j > 1 PROVE signals[j].ad # s.ad
      BY <1>2, <1>3
    <3>2. j - 1 \in 1..n /\ signals'[j - 1] = signals[j]
      BY <1>3, <1>5, <3>1
    <3> QED BY <1>3, <2>1, <3>2
  <2> QED BY <1>2, <1>3, <1>5, <2>2 DEF Standing, LastStands
<1>14. Counted'
  <2>1. SUFFICES ASSUME NEW b \in Ads, \A i \in 1..n : signals'[i].ad # b
                 PROVE  /\ b \in found' <=> entries'[b] # "none"
                        /\ entries'[b] # "none" => b \in world'
    BY <1>3 DEF Counted
  <2>2. CASE b = s.ad
    <3>1. last
      BY <1>3, <2>1, <2>2
    <3> HIDE DEF last
    <3>2. b \in found' <=> s.new /\ answer # "unusable"
      BY <1>1, <1>11, <2>2, <3>1
    <3>3. entries'[b] # "none" <=> s.new /\ answer # "unusable"
      BY <1>2, <1>8, <1>9, <1>10, <2>2
    <3> QED BY <1>1, <1>13, <2>2, <3>1, <3>2, <3>3
  <2>3. CASE b # s.ad
    <3>1. \A i \in DOMAIN signals : signals[i].ad # b
      <4>1. SUFFICES ASSUME NEW i \in 1..(n + 1) PROVE signals[i].ad # b
        BY <1>3
      <4>2. i # 1 => signals[i] = signals'[i - 1] /\ i - 1 \in 1..n
        BY <1>3, <1>5
      <4> QED BY <1>2, <2>1, <2>3, <4>2
    <3>2. b \in found' <=> b \in found
      BY <1>1, <2>3
    <3> QED BY <1>1, <1>7, <2>3, <3>1, <3>2 DEF Standing, Counted
  <2> QED BY <2>2, <2>3
<1>15. LastStands'
  <2>1. SUFFICES ASSUME NEW i \in 1..n,
                        \A j \in 1..n : j > i => signals'[j].ad # signals'[i].ad
                 PROVE  signals'[i].new = (signals'[i].ad \in world')
    BY <1>3 DEF LastStands
  <2>2. \A j \in DOMAIN signals : j > i + 1 => signals[j].ad # signals[i + 1].ad
    <3>1. SUFFICES ASSUME NEW j \in 1..(n + 1), j > i + 1 PROVE signals[j].ad # signals[i + 1].ad
      BY <1>3
    <3>2. j - 1 \in 1..n /\ j - 1 > i /\ (j - 1) + 1 = j
      BY <1>3, <3>1
    <3>3. signals'[j - 1] = signals[j] /\ signals'[i] = signals[i + 1]
      BY <1>3, <3>2
    <3> QED BY <2>1, <3>2, <3>3
  <2>3. signals[i + 1].new = (signals[i + 1].ad \in world)
    BY <1>3, <1>4, <2>2 DEF Standing, LastStands
  <2> QED BY <1>1, <1>3, <2>3
<1>16. Alternate'
  <2>1. SUFFICES ASSUME NEW i \in 1..n, NEW j \in 1..n,
                        i < j, signals'[i].ad = signals'[j].ad,
                        \A k \in 1..n : i < k /\ k < j => signals'[k].ad # signals'[i].ad
                 PROVE  signals'[i].new # signals'[j].new
    BY ZenonT(40), <1>3 DEF Alternate
  <2>2. i + 1 \in 1..(n + 1) /\ j + 1 \in 1..(n + 1) /\ i + 1 < j + 1
    BY <1>3, <2>1
  <2>3. \A k \in DOMAIN signals : i + 1 < k /\ k < j + 1 => signals[k].ad # signals[i + 1].ad
    <3>1. SUFFICES ASSUME NEW k \in 1..(n + 1), i + 1 < k, k < j + 1
                   PROVE  signals[k].ad # signals[i + 1].ad
      BY <1>3
    <3>2. k - 1 \in 1..n /\ i < k - 1 /\ k - 1 < j /\ (k - 1) + 1 = k
      BY <1>3, <3>1
    <3>3. signals'[k - 1] = signals[k] /\ signals'[i] = signals[i + 1]
      BY <1>3, <3>2
    <3> QED BY <2>1, <3>2, <3>3
  <2>4. signals'[i] = signals[i + 1] /\ signals'[j] = signals[j + 1]
    BY <1>3
  <2>5. signals[i + 1].ad = signals[j + 1].ad
    BY <2>1, <2>4
  <2>6. signals[i + 1].new # signals[j + 1].new
    BY <1>3, <2>2, <2>3, <2>5 DEF Standing, Alternate
  <2> QED BY <2>4, <2>6
<1>17. FirstTakes'
  <2>1. SUFFICES ASSUME NEW i \in 1..n,
                        \A j \in 1..n : j < i => signals'[j].ad # signals'[i].ad,
                        entries'[signals'[i].ad] # "none"
                 PROVE  signals'[i].new = FALSE
    BY <1>3 DEF FirstTakes
  <2>2. i + 1 \in 1..(n + 1) /\ signals'[i] = signals[i + 1] /\ 1 < i + 1
    BY <1>3
  <2>3. \A k \in DOMAIN signals : 1 < k /\ k < i + 1 => signals[k].ad # signals[i + 1].ad
    <3>1. SUFFICES ASSUME NEW k \in 1..(n + 1), 1 < k, k < i + 1
                   PROVE  signals[k].ad # signals[i + 1].ad
      BY <1>3
    <3>2. k - 1 \in 1..n /\ k - 1 < i /\ (k - 1) + 1 = k
      BY <1>3, <3>1
    <3>3. signals'[k - 1] = signals[k]
      BY <1>3, <3>2
    <3> QED BY <2>1, <2>2, <3>2, <3>3
  <2>4. signals[i + 1].ad \in Ads /\ signals[i + 1].new \in BOOLEAN
    BY <1>3, <2>2, SignalTypes
  <2>5. CASE signals[i + 1].ad = s.ad
    <3>1. s.new # signals[i + 1].new
      BY <1>2, <1>3, <1>5, <2>2, <2>3, <2>5 DEF Standing, Alternate
    <3>2. s.new = TRUE
      BY <1>2, <1>8, <2>1, <2>2, <2>5
    <3> QED BY <2>2, <2>4, <3>1, <3>2
  <2>6. CASE signals[i + 1].ad # s.ad
    <3>1. \A k \in DOMAIN signals : k < i + 1 => signals[k].ad # signals[i + 1].ad
      BY <1>2, <1>3, <1>5, <2>3, <2>6
    <3>2. entries[signals[i + 1].ad] # "none"
      BY <1>7, <2>1, <2>2, <2>4, <2>6
    <3> QED BY <1>3, <2>2, <3>1, <3>2 DEF Standing, FirstTakes
  <2> QED BY <2>5, <2>6
<1> QED BY <1>12, <1>14, <1>15, <1>16, <1>17 DEF Standing

-----------------------------------------------------------------------------
\* The covers a screen may hold, and what each variable of the client is made of.
Art == Covers \union {None}

UpdateType ==
  [op : {"connected"}, host : Hosts] \union [op : {"lost", "unauthorized", "nolocal"}]
    \union [op : {"art"}, art : Art] \union [op : {"list"}, list : Seq(Ads)]

ClientType ==
  /\ answers \in [Hosts -> {"down", "up", "locked", "silent"}]
  /\ pc \in {"probe", "pending", "live", "wait"}
  /\ target \in Hosts \union {None} /\ candidates \in Seq(Hosts)
  /\ index \in Nat \ {0} /\ verdict \in {"lost", "unauthorized"}
  /\ pc \in {"pending", "live"} => index \in DOMAIN Endpoints
ChannelType == updates \in Seq(UpdateType) /\ selections \in Seq(Ads)
ScreenType ==
  /\ connection \in {"connecting", "connected", "lost", "unauthorized"}
  /\ label \in Hosts \union {None} /\ picker \in Nat /\ listed \in Seq(Ads)
  /\ chosen \in BOOLEAN /\ aim \in Names \union {None}
CoverType ==
  /\ artwork \in Art /\ drawn \in Art /\ picture \in Art
  /\ visible \in BOOLEAN /\ focused \in BOOLEAN /\ focusEvents \in Seq(BOOLEAN)
TypeOK ==
  /\ RosterType /\ ClientType /\ ChannelType /\ ScreenType /\ CoverType
  /\ events \in Nat

LEMMA UpdateTypes ==
  /\ \A h \in Hosts : [op |-> "connected", host |-> h] \in UpdateType
  /\ \A o \in {"lost", "unauthorized", "nolocal"} : [op |-> o] \in UpdateType
  /\ \A a \in Art : [op |-> "art", art |-> a] \in UpdateType
  /\ \A l \in Seq(Ads) : [op |-> "list", list |-> l] \in UpdateType
BY DEF UpdateType

LEMMA UpdateFields ==
  ASSUME NEW u \in UpdateType
  PROVE  /\ u.op \in {"connected", "lost", "unauthorized", "nolocal", "art", "list"}
         /\ u.op = "connected" => u.host \in Hosts
         /\ u.op = "art" => u.art \in Art
         /\ u.op = "list" => u.list \in Seq(Ads)
BY DEF UpdateType

LEMMA NamesOfAds ==
  /\ \A ad \in Ads : ad.name \in Names
  /\ \A l \in Seq(Ads) : \A i \in DOMAIN l : l[i] \in Ads /\ l[i].name \in Names
  /\ Ads \subseteq Hosts /\ None \notin Names /\ None \notin Hosts
<1>1. \A ad \in Ads : ad.name \in Names
  BY RosterAssumption DEF Names
<1>2. \A l \in Seq(Ads) : \A i \in DOMAIN l : l[i] \in Ads
  OBVIOUS
<1>3. Ads \subseteq Hosts /\ None \notin Names /\ None \notin Hosts
  BY DisplayAssumption DEF Hosts
<1> QED BY <1>1, <1>2, <1>3

LEMMA EndpointType ==
  ASSUME ClientType, index <= Len(Endpoints)
  PROVE  index \in DOMAIN Endpoints /\ Endpoint \in Hosts
<1>1. Endpoints \in Seq(Hosts)
  BY DEF ClientType, Endpoints
<1>2. index \in Nat /\ index >= 1
  BY DEF ClientType
<1>3. DOMAIN Endpoints = 1..Len(Endpoints) /\ Len(Endpoints) \in Nat
  BY <1>1
<1>4. index \in DOMAIN Endpoints
  BY <1>2, <1>3
<1> QED BY <1>1, <1>4 DEF Endpoint

LEMMA SendType ==
  ASSUME NEW u \in UpdateType, ChannelType, Send(u)
  PROVE  updates' \in Seq(UpdateType)
BY DEF ChannelType, Send

LEMMA AnchoredType ==
  ASSUME NEW list \in Seq(Ads)
  PROVE  Anchored(list) \in Nat /\ (Anchored(list) = 1 \/ Anchored(list) \in DOMAIN list)
<1> DEFINE rows == {i \in DOMAIN list : picker <= Len(listed) /\ list[i].name = listed[picker].name}
<1>1. rows \subseteq DOMAIN list /\ DOMAIN list \subseteq Nat
  OBVIOUS
<1>2. Anchored(list) = IF rows = {} THEN 1 ELSE CHOOSE i \in rows : TRUE
  BY DEF Anchored
<1> HIDE DEF rows
<1>3. rows # {} => (CHOOSE i \in rows : TRUE) \in rows
  OBVIOUS
<1> QED BY <1>1, <1>2, <1>3

LEMMA SyncType ==
  ASSUME CoverType, artwork' \in Art, Sync
  PROVE  drawn' \in Art /\ picture' \in Art
BY DEF CoverType, Sync, Wanted, Art

LEMMA TypeInit ==
  ASSUME Init PROVE TypeOK
<1>1. RosterType
  BY RosterTypeInit DEF Init
<1>2. ClientType
  <2>1. target \in Hosts \union {None} /\ candidates \in Seq(Hosts)
    <3>1. Given \in Hosts /\ Local \in Seq(Hosts) /\ <<>> \in Seq(Hosts)
      BY DisplayAssumption DEF Hosts
    <3> QED BY <3>1 DEF Init
  <2>2. answers \in [Hosts -> {"down", "up", "locked", "silent"}]
    BY DEF Init
  <2> QED BY <2>1, <2>2 DEF Init, ClientType
<1>3. ChannelType
  <2>1. <<>> \in Seq(UpdateType) /\ <<>> \in Seq(Ads)
    OBVIOUS
  <2> QED BY <2>1 DEF Init, ChannelType
<1>4. ScreenType
  <2>1. <<>> \in Seq(Ads) /\ picker \in Nat
    BY DEF Init
  <2> QED BY <2>1 DEF Init, ScreenType
<1>5. CoverType
  <2>1. <<>> \in Seq(BOOLEAN) /\ None \in Art
    BY DEF Art
  <2> QED BY <2>1 DEF Init, CoverType
<1> QED BY <1>1, <1>2, <1>3, <1>4, <1>5 DEF Init, TypeOK

LEMMA TypeClient ==
  ASSUME TypeOK, ClientStep
  PROVE  ClientType' /\ ChannelType'
<1> USE DEF TypeOK
<1>1. CASE Selected
  <2>1. target' = Head(selections) /\ selections' = Tail(selections) /\ selections # <<>>
        /\ pc' = "probe" /\ index' = 1 /\ verdict' = "lost"
        /\ UNCHANGED <<answers, candidates, updates>>
    BY <1>1 DEF Selected, TakeSelection
  <2>2. Head(selections) \in Ads /\ Tail(selections) \in Seq(Ads)
    BY <2>1 DEF ChannelType
  <2>3. target' \in Hosts \union {None}
    BY <2>1, <2>2, NamesOfAds
  <2> QED BY <2>1, <2>2, <2>3 DEF ClientType, ChannelType
<1>2. CASE Connect
  <2>1. index \in DOMAIN Endpoints /\ Endpoint \in Hosts
    BY <1>2, EndpointType DEF Connect, Attempts
  <2>2. updates' \in Seq(UpdateType)
    BY <1>2, <2>1, UpdateTypes, SendType DEF Connect
  <2>3. Endpoints' = Endpoints /\ index' = index
    BY <1>2 DEF Connect, ClientOnly, Endpoints
  <2> QED BY <1>2, <2>1, <2>2, <2>3 DEF Connect, ClientOnly, ClientType, ChannelType
<1>3. CASE Fail
  BY <1>3 DEF Fail, Attempts, ClientOnly, ClientType, ChannelType
<1>4. CASE Close
  <2>1. updates' \in Seq(UpdateType)
    BY <1>4, UpdateTypes, SendType DEF Close, ChannelType
  <2>2. Len(Endpoints) + 1 \in Nat \ {0}
    <3>1. Endpoints \in Seq(Hosts)
      BY DEF ClientType, Endpoints
    <3> QED BY <3>1
  <2>3. index' \in Nat \ {0}
    BY <1>4, <2>2 DEF Close, ClientType
  <2> QED BY <1>4, <2>1, <2>3 DEF Close, ClientOnly, ClientType, ChannelType
<1>5. CASE Break
  BY <1>5 DEF Break, ClientOnly, ClientType, ChannelType
<1>6. CASE EndRound
  <2> DEFINE o == IF target = None THEN "nolocal" ELSE verdict
  <2>1. o \in {"lost", "unauthorized", "nolocal"}
    BY DEF ClientType
  <2> HIDE DEF o
  <2>2. updates' \in Seq(UpdateType)
    BY <1>6, <2>1, UpdateTypes, SendType DEF EndRound, o
  <2> QED BY <1>6, <2>2 DEF EndRound, ClientOnly, ClientType, ChannelType
<1>7. CASE Retry
  BY <1>7 DEF Retry, ClientOnly, ClientType, ChannelType
<1>8. CASE Hang
  <2>1. index \in DOMAIN Endpoints
    BY <1>8, EndpointType DEF Hang, Attempts
  <2>2. Endpoints' = Endpoints /\ index' = index
    BY <1>8 DEF Hang, ClientOnly, Endpoints
  <2> QED BY <1>8, <2>1, <2>2 DEF Hang, ClientOnly, ClientType, ChannelType
<1> QED BY <1>1, <1>2, <1>3, <1>4, <1>5, <1>6, <1>7, <1>8 DEF ClientStep

\* What a late answer says, if anything.
LEMMA LateAnswerSays ==
  ASSUME TypeOK, LateAnswer
  PROVE  /\ Endpoint \in Hosts /\ index \in DOMAIN Endpoints
         /\ [op |-> "connected", host |-> Endpoint] \in UpdateType
<1>1. Endpoints \in Seq(Hosts)
  BY DEF TypeOK, ClientType, Endpoints
<1>2. index \in DOMAIN Endpoints
  BY DEF LateAnswer, TypeOK, ClientType
<1> QED BY <1>1, <1>2, UpdateTypes DEF Endpoint

LEMMA TypeLateAnswer ==
  ASSUME TypeOK, LateAnswer
  PROVE  ClientType' /\ ChannelType' /\ events' \in Nat
<1>1. updates' \in Seq(UpdateType)
  <2>1. CASE Send([op |-> "connected", host |-> Endpoint])
    BY <2>1, LateAnswerSays, SendType DEF TypeOK
  <2>2. CASE UNCHANGED updates
    BY <2>2 DEF TypeOK, ChannelType
  <2> QED BY <2>1, <2>2 DEF LateAnswer
<1>2. index' \in Nat \ {0} /\ (pc' = "live" => index' = index) /\ pc' \in {"live", "probe"}
  BY DEF LateAnswer, TypeOK, ClientType
<1>3. Endpoints' = Endpoints
  BY DEF LateAnswer, Endpoints
<1>4. events' \in Nat
  BY DEF LateAnswer, External, TypeOK
<1> QED BY <1>1, <1>2, <1>3, <1>4, LateAnswerSays DEF LateAnswer, TypeOK, ClientType, ChannelType

LEMMA TypeShow ==
  ASSUME TypeOK, NEW u \in UpdateType, Show(u)
  PROVE  ScreenType' /\ artwork' \in Art
<1> USE UpdateFields DEF TypeOK
<1>1. CASE u.op = "connected"
  BY <1>1 DEF Show, ScreenType, CoverType
<1>2. CASE u.op \in {"lost", "unauthorized"}
  BY <1>2 DEF Show, ScreenType, CoverType
<1>3. CASE u.op = "art"
  BY <1>3 DEF Show, ScreenType, CoverType, screen
<1>4. CASE u.op = "nolocal"
  BY <1>4 DEF Show, ScreenType, CoverType
<1>5. CASE u.op = "list"
  <2>1. u.list \in Seq(Ads) /\ Anchored(u.list) \in Nat
    BY <1>5, AnchoredType
  <2>2. listed' = u.list /\ picker' \in Nat /\ aim' \in Names \union {None}
        /\ UNCHANGED <<connection, label, chosen, artwork>>
    BY <1>5, <2>1 DEF Show, ScreenType
  <2> QED BY <2>1, <2>2 DEF ScreenType, CoverType
<1> QED BY <1>1, <1>2, <1>3, <1>4, <1>5

LEMMA MoveFacts ==
  ASSUME TypeOK, NEW step \in {-1, 1}, Move(step),
         picker # 0 => picker = 1 \/ picker \in DOMAIN listed
  PROVE  picker' \in DOMAIN listed /\ picker' # 0 /\ aim' = listed[picker'].name
<1>1. listed \in Seq(Ads) /\ picker \in Nat /\ picker # 0 /\ listed # <<>>
  BY DEF Move, TypeOK, ScreenType
<1>2. 1 \in DOMAIN listed /\ 0 \notin DOMAIN listed
  BY <1>1
<1> QED BY <1>1, <1>2 DEF Move

\* The highlight is on a row of the list, or on the first of none; and on the
\* row the user moved to.
Aimed ==
  /\ picker # 0 => picker = 1 \/ picker \in DOMAIN listed
  /\ aim # None => picker \in DOMAIN listed /\ listed[picker].name = aim

LEMMA TypeStep ==
  ASSUME TypeOK, Aimed, [Next]_vars
  PROVE  TypeOK'
<1> USE DEF TypeOK
<1>1. CASE \E h \in Hosts, a \in {"down", "up", "locked", "silent"} : Turn(h, a)
  BY <1>1 DEF Turn, External, roster, client, screen, cover, RosterType, ClientType,
     Endpoints, ChannelType, ScreenType, CoverType
<1>2. CASE \E ad \in Ads : Advertisement(ad)
  <2>1. RosterType'
    BY <1>2, RosterTypeAdvertise DEF Advertisement
  <2> QED BY <1>2, <2>1 DEF Advertisement, External, client, screen, cover, ClientType,
          Endpoints, ChannelType, ScreenType, CoverType
<1>3. CASE \E answer \in Answers : Browse(answer)
  <2>1. PICK answer \in Answers : Browse(answer)
    BY <1>3
  <2>2. RosterType'
    BY <2>1, RosterTypeHandle DEF Browse
  <2>3. updates' \in Seq(UpdateType)
    <3>1. [op |-> "list", list |-> Receivers(entries')] \in UpdateType
      BY ReceiversType, UpdateTypes
    <3> QED BY <2>1, <3>1, SendType DEF Browse, ChannelType
  <2> QED BY <2>1, <2>2, <2>3 DEF Browse, client, screen, cover, ClientType,
          Endpoints, ChannelType, ScreenType, CoverType
<1>4. CASE ClientStep
  <2>1. ClientType' /\ ChannelType'
    BY <1>4, TypeClient
  <2>2. UNCHANGED <<roster, screen, cover, events>>
    BY <1>4 DEF ClientStep, Selected, TakeSelection, Connect, Hang, Fail, Close, Break,
       EndRound, Retry, ClientOnly
  <2> QED BY <2>1, <2>2 DEF roster, screen, cover, RosterType, ScreenType, CoverType
<1>5. CASE \E art \in Covers \union {None} : Hear(art)
  <2>1. PICK art \in Art : Hear(art)
    BY <1>5 DEF Art
  <2>2. updates' \in Seq(UpdateType)
    BY <2>1, UpdateTypes, SendType DEF Hear
  <2> QED BY <2>1, <2>2 DEF Hear, External, roster, client, screen, cover, RosterType,
          ClientType, Endpoints, ChannelType, ScreenType, CoverType
<1>6. CASE Update
  <2>1. Head(updates) \in UpdateType /\ Tail(updates) \in Seq(UpdateType)
    BY <1>6 DEF Update, ChannelType
  <2>2. ScreenType' /\ artwork' \in Art
    BY <1>6, <2>1, TypeShow DEF Update
  <2>3. drawn' \in Art /\ picture' \in Art
    BY <1>6, <2>2, SyncType DEF Update
  <2> QED BY <1>6, <2>1, <2>2, <2>3 DEF Update, LoopOnly, roster, client, RosterType,
          ClientType, Endpoints, ChannelType, CoverType
<1>7. CASE \E step \in {-1, 1} : Move(step)
  <2>1. PICK step \in {-1, 1} : Move(step)
    BY <1>7
  <2>2. picker' \in DOMAIN listed /\ picker' # 0 /\ aim' = listed[picker'].name
    BY <2>1, MoveFacts DEF Aimed
  <2>3. picker' \in Nat /\ aim' \in Names
    BY <2>2, NamesOfAds DEF ScreenType
  <2>4. drawn' \in Art /\ picture' \in Art
    BY <2>1, SyncType DEF Move, CoverType
  <2> QED BY <2>1, <2>3, <2>4 DEF Move, External, LoopOnly, roster, client, RosterType,
          ClientType, Endpoints, ChannelType, ScreenType, CoverType
<1>8. CASE Choose
  <2>1. label' \in Ads
    BY <1>8, NamesOfAds DEF Choose, ScreenType
  <2>2. selections' \in Seq(Ads)
    BY <1>8, <2>1 DEF Choose, ChannelType
  <2>3. drawn' \in Art /\ picture' \in Art
    BY <1>8, SyncType DEF Choose, CoverType
  <2>4. label' \in Hosts
    BY <2>1, NamesOfAds
  <2> QED BY <1>8, <2>2, <2>3, <2>4 DEF Choose, External, LoopOnly, roster, client, RosterType,
          ClientType, Endpoints, ChannelType, ScreenType, CoverType
<1>9. CASE Switch
  <2>1. visible' \in BOOLEAN /\ focusEvents' \in Seq(BOOLEAN)
    BY <1>9 DEF Switch, CoverType
  <2> QED BY <1>9, <2>1 DEF Switch, External, roster, client, screen, RosterType,
          ClientType, Endpoints, ChannelType, ScreenType, CoverType
<1>10. CASE Focus
  <2>1. focused' \in BOOLEAN /\ focusEvents' \in Seq(BOOLEAN)
    BY <1>10 DEF Focus, CoverType
  <2>2. drawn' \in Art /\ picture' \in Art
    BY <1>10 DEF Focus, Refocus, Unfocus, Wanted, CoverType, Art
  <2> QED BY <1>10, <2>1, <2>2 DEF Focus, LoopOnly, roster, client, screen, RosterType,
          ClientType, Endpoints, ChannelType, ScreenType, CoverType
<1>11. CASE UNCHANGED vars
  BY <1>11 DEF vars, roster, client, screen, cover, RosterType, ClientType,
     Endpoints, ChannelType, ScreenType, CoverType
<1>12. CASE LateAnswer
  <2>1. ClientType' /\ ChannelType' /\ events' \in Nat
    BY <1>12, TypeLateAnswer
  <2>2. UNCHANGED <<roster, screen, cover>>
    BY <1>12 DEF LateAnswer
  <2> QED BY <2>1, <2>2 DEF roster, screen, cover, RosterType, ScreenType, CoverType
<1> QED BY <1>1, <1>2, <1>3, <1>4, <1>5, <1>6, <1>7, <1>8, <1>9, <1>10, <1>11, <1>12 DEF Next

-----------------------------------------------------------------------------
\* Of a queue: only updates of the kinds Q; or the last other one is in S.
Settled(q, Q) == \A i \in DOMAIN q : q[i].op \in Q
Told(q, Q, S) ==
  \E i \in DOMAIN q : q[i] \in S /\ \A j \in DOMAIN q : j > i => q[j].op \in Q

LEMMA QueueAppend ==
  ASSUME NEW T, NEW q \in Seq(T), NEW u \in T, NEW Q, NEW S
  PROVE  /\ u.op \in Q /\ Settled(q, Q) => Settled(Append(q, u), Q)
         /\ u.op \in Q /\ Told(q, Q, S) => Told(Append(q, u), Q, S)
         /\ u \in S => Told(Append(q, u), Q, S)
<1> DEFINE r == Append(q, u)
           n == Len(q)
<1>1. n \in Nat /\ DOMAIN q = 1..n /\ DOMAIN r = 1..(n + 1) /\ r[n + 1] = u
      /\ \A i \in 1..n : r[i] = q[i]
  OBVIOUS
<1> HIDE DEF r, n
<1>2. \A i \in 1..(n + 1) : i \in 1..n \/ i = n + 1
  BY <1>1
<1>3. n + 1 \in 1..(n + 1) /\ \A i \in 1..n : i \in 1..(n + 1)
  BY <1>1
<1>4. u.op \in Q /\ Settled(q, Q) => Settled(r, Q)
  BY <1>1, <1>2 DEF Settled
<1>5. u.op \in Q /\ Told(q, Q, S) => Told(r, Q, S)
  <2>1. SUFFICES ASSUME u.op \in Q, NEW i \in 1..n, q[i] \in S,
                        \A j \in 1..n : j > i => q[j].op \in Q
                 PROVE  Told(r, Q, S)
    BY <1>1 DEF Told
  <2>2. r[i] \in S /\ \A j \in 1..(n + 1) : j > i => r[j].op \in Q
    BY <1>1, <1>2, <2>1
  <2> QED BY <1>1, <1>3, <2>2 DEF Told
<1>6. u \in S => Told(r, Q, S)
  <2>1. \A j \in 1..(n + 1) : ~ (j > n + 1)
    BY <1>1
  <2> QED BY <1>1, <1>3, <2>1 DEF Told
<1> QED BY <1>4, <1>5, <1>6 DEF r

LEMMA QueueTail ==
  ASSUME NEW T, NEW q \in Seq(T), q # <<>>, NEW Q, NEW S
  PROVE  /\ Head(q) \in T
         /\ Settled(q, Q) => Head(q).op \in Q /\ Settled(Tail(q), Q)
         /\ Told(q, Q, S) => Told(Tail(q), Q, S) \/ (Head(q) \in S /\ Settled(Tail(q), Q))
<1> DEFINE r == Tail(q)
           n == Len(r)
<1>1. n \in Nat /\ DOMAIN q = 1..(n + 1) /\ DOMAIN r = 1..n /\ Head(q) = q[1] /\ q[1] \in T
      /\ \A i \in 1..n : r[i] = q[i + 1]
  OBVIOUS
<1> HIDE DEF r, n
<1>2. 1 \in 1..(n + 1)
      /\ \A i \in 1..(n + 1) : i = 1 \/ (i > 1 /\ i - 1 \in 1..n /\ (i - 1) + 1 = i)
  BY <1>1
<1>3. \A i \in 1..n : i + 1 \in 1..(n + 1) /\ i + 1 > 1
  BY <1>1
<1>4. Settled(q, Q) => q[1].op \in Q /\ Settled(r, Q)
  BY <1>1, <1>2, <1>3 DEF Settled
<1>5. Told(q, Q, S) => Told(r, Q, S) \/ (q[1] \in S /\ Settled(r, Q))
  <2>1. SUFFICES ASSUME NEW i \in 1..(n + 1), q[i] \in S,
                        \A j \in 1..(n + 1) : j > i => q[j].op \in Q
                 PROVE  Told(r, Q, S) \/ (q[1] \in S /\ Settled(r, Q))
    BY <1>1 DEF Told
  <2>2. CASE i = 1
    BY <1>1, <1>3, <2>1, <2>2 DEF Settled
  <2>3. CASE i # 1
    <3>1. i - 1 \in 1..n /\ r[i - 1] = q[i]
      BY <1>1, <1>2, <2>3
    <3>2. ASSUME NEW j \in 1..n, j > i - 1 PROVE r[j].op \in Q
      <4>1. j + 1 \in 1..(n + 1) /\ j + 1 > i
        BY <1>1, <3>2
      <4> QED BY <1>1, <2>1, <4>1
    <3> QED BY <1>1, <2>1, <3>1, <3>2 DEF Told
  <2> QED BY <2>2, <2>3
<1> QED BY <1>1, <1>4, <1>5 DEF r

-----------------------------------------------------------------------------
LEMMA AimedShow ==
  ASSUME TypeOK, Aimed, NEW u \in UpdateType, Show(u)
  PROVE  Aimed'
<1>1. CASE u.op = "connected"
  BY <1>1 DEF Show, Aimed
<1>2. CASE u.op \in {"lost", "unauthorized"}
  BY <1>2 DEF Show, Aimed
<1>3. CASE u.op = "art"
  BY <1>3 DEF Show, Aimed, screen
<1>4. CASE u.op = "nolocal"
  <2>1. aim # None => picker # 0
    BY DEF Aimed, TypeOK, ScreenType
  <2> QED BY <1>4, <2>1 DEF Show, Aimed
<1>5. CASE u.op = "list"
  <2>1. u.list \in Seq(Ads) /\ listed \in Seq(Ads)
    BY <1>5, UpdateFields DEF TypeOK, ScreenType
  <2>2. listed' = u.list /\ picker' = (IF picker = 0 THEN 0 ELSE Anchored(u.list))
        /\ aim' = IF \E i \in DOMAIN u.list : u.list[i].name = aim THEN aim ELSE None
    BY <1>5 DEF Show
  <2>3. picker' # 0 => picker' = 1 \/ picker' \in DOMAIN listed'
    BY <2>1, <2>2, AnchoredType
  <2>4. ASSUME aim' # None PROVE picker' \in DOMAIN listed' /\ listed'[picker'].name = aim'
    <3>1. aim' = aim /\ aim # None /\ \E i \in DOMAIN u.list : u.list[i].name = aim
      BY <2>2, <2>4
    <3>2. picker \in DOMAIN listed /\ listed[picker].name = aim
      BY <3>1 DEF Aimed
    <3>3. picker <= Len(listed) /\ picker # 0
      BY <2>1, <3>2
    <3> DEFINE rows == {i \in DOMAIN u.list : picker <= Len(listed) /\ u.list[i].name = listed[picker].name}
    <3>4. rows # {}
      BY <3>1, <3>2, <3>3
    <3>5. Anchored(u.list) \in rows
      <4>1. Anchored(u.list) = IF rows = {} THEN 1 ELSE CHOOSE i \in rows : TRUE
        BY DEF Anchored
      <4> HIDE DEF rows
      <4> QED BY <3>4, <4>1
    <3> QED BY <2>2, <3>1, <3>2, <3>3, <3>5
  <2> QED BY <2>3, <2>4 DEF Aimed
<1> QED BY <1>1, <1>2, <1>3, <1>4, <1>5, UpdateFields

LEMMA AimedStep ==
  ASSUME TypeOK, Aimed, [Next]_vars
  PROVE  Aimed'
<1>1. CASE \/ UNCHANGED vars \/ ClientStep \/ LateAnswer
           \/ \E h \in Hosts, a \in {"down", "up", "locked", "silent"} : Turn(h, a)
           \/ \E ad \in Ads : Advertisement(ad)
           \/ \E answer \in Answers : Browse(answer)
           \/ \E art \in Covers \union {None} : Hear(art)
           \/ Switch \/ Focus
  <2>1. UNCHANGED screen
    BY <1>1 DEF vars, ClientStep, LateAnswer, Selected, TakeSelection, Connect, Hang, Fail, Close,
       Break, EndRound, Retry, ClientOnly, Turn, Advertisement, Browse, Hear, Switch, Focus
  <2> QED BY <2>1 DEF screen, Aimed
<1>2. CASE Update
  <2>1. Head(updates) \in UpdateType
    BY <1>2 DEF Update, TypeOK, ChannelType
  <2> QED BY <1>2, <2>1, AimedShow DEF Update
<1>3. CASE \E step \in {-1, 1} : Move(step)
  <2>1. PICK step \in {-1, 1} : Move(step)
    BY <1>3
  <2>2. picker' \in DOMAIN listed /\ picker' # 0 /\ aim' = listed[picker'].name
    BY <2>1, MoveFacts DEF Aimed
  <2> QED BY <2>1, <2>2 DEF Move, Aimed
<1>4. CASE Choose
  BY <1>4 DEF Choose, Aimed
<1> QED BY <1>1, <1>2, <1>3, <1>4 DEF Next

-----------------------------------------------------------------------------
\* The picture on the terminal is the one the screen wants.
Drawing ==
  /\ focusEvents = <<>> => focused = visible
  /\ focusEvents # <<>> => focusEvents[Len(focusEvents)] = visible
  /\ terminal.passes = "all" => picture = drawn
  /\ drawn = IF focused /\ Draws(artwork) THEN artwork ELSE None

LEMMA DrawingSync ==
  ASSUME Drawing, Sync, UNCHANGED <<visible, focusEvents, focused, terminal>>
  PROVE  Drawing'
<1>1. (terminal.passes = "all") => Passes
  BY DEF Passes
<1>2. (terminal.passes = "all") => picture' = drawn'
  BY <1>1 DEF Drawing, Sync
<1>3. drawn' = IF focused /\ Draws(artwork)' THEN artwork' ELSE None
  <2>1. Draws(artwork)' <=> Draws(artwork')
    BY DEF Draws
  <2>2. CASE focused
    BY <2>1, <2>2 DEF Sync, Wanted
  <2>3. CASE ~ focused
    BY <2>3 DEF Sync, Drawing
  <2> QED BY <2>2, <2>3
<1>4. (focusEvents' = <<>> => focused' = visible')
      /\ (focusEvents' # <<>> => focusEvents'[Len(focusEvents')] = visible')
  BY DEF Drawing
<1> QED BY <1>2, <1>3, <1>4 DEF Drawing

LEMMA DrawingStep ==
  ASSUME TypeOK, Drawing, [Next]_vars
  PROVE  Drawing'
<1>1. CASE \/ UNCHANGED vars \/ ClientStep \/ LateAnswer
           \/ \E h \in Hosts, a \in {"down", "up", "locked", "silent"} : Turn(h, a)
           \/ \E ad \in Ads : Advertisement(ad)
           \/ \E answer \in Answers : Browse(answer)
           \/ \E art \in Covers \union {None} : Hear(art)
  <2>1. UNCHANGED <<cover, terminal>>
    BY <1>1 DEF vars, ClientStep, LateAnswer, Selected, TakeSelection, Connect, Hang, Fail, Close,
       Break, EndRound, Retry, ClientOnly, Turn, Advertisement, Browse, Hear
  <2> QED BY <2>1 DEF cover, Drawing, Draws
<1>2. CASE Update \/ (\E step \in {-1, 1} : Move(step)) \/ Choose
  <2>1. Sync /\ UNCHANGED <<visible, focusEvents, focused, terminal>>
    BY <1>2 DEF Update, Move, Choose, LoopOnly
  <2> QED BY <2>1, DrawingSync
<1>3. CASE Switch
  <2>1. focusEvents' # <<>> /\ focusEvents'[Len(focusEvents')] = visible'
    BY <1>3 DEF Switch, TypeOK, CoverType
  <2> QED BY <1>3, <2>1 DEF Switch, Drawing, Draws
<1>4. CASE Focus
  <2>1. focusEvents \in Seq(BOOLEAN) /\ focusEvents # <<>> /\ focusEvents' = Tail(focusEvents)
        /\ focused' = Head(focusEvents) /\ UNCHANGED <<visible, artwork, terminal>>
    BY <1>4 DEF Focus, LoopOnly, TypeOK, CoverType
  <2>2. focusEvents[Len(focusEvents)] = visible
    BY <2>1 DEF Drawing
  <2>3. focusEvents' = <<>> => focused' = visible'
    <3>1. focusEvents # <<>> /\ Tail(focusEvents) = <<>> => Len(focusEvents) = 1
      <4>1. focusEvents # <<>> => Len(Tail(focusEvents)) = Len(focusEvents) - 1
                                  /\ Len(focusEvents) \in Nat
        BY <2>1, HeadTailProperties
      <4>2. \A n \in Nat : n - 1 = 0 => n = 1
        OBVIOUS
      <4>3. Tail(focusEvents) = <<>> => Len(Tail(focusEvents)) = 0
        <5>1. Len(<<>>) = 0
          OBVIOUS
        <5> QED BY <5>1, Zenon
      <4> QED BY <4>1, <4>2, <4>3
    <3>2. Head(focusEvents) = focusEvents[1]
      BY <2>1
    <3> QED BY <2>1, <2>2, <3>1, <3>2
  <2>4. focusEvents' # <<>> => focusEvents'[Len(focusEvents')] = visible'
    <3> DEFINE r == Tail(focusEvents)
    <3>1. focusEvents # <<>> => Len(r) = Len(focusEvents) - 1 /\ r \in Seq(BOOLEAN)
            /\ \A i \in 1..Len(r) : r[i] = focusEvents[i + 1]
      BY <2>1
    <3>2. r # <<>> => Len(r) \in 1..Len(r) /\ Len(r) + 1 = Len(focusEvents)
      BY <2>1, <3>1
    <3> HIDE DEF r
    <3>3. r # <<>> => r[Len(r)] = focusEvents[Len(focusEvents)]
      BY <2>1, <3>1, <3>2
    <3> QED BY <2>1, <2>2, <3>3 DEF r
  <2>5. CASE focused'
    <3>1. Refocus
      BY <1>4, <2>5 DEF Focus
    <3>2. (terminal.passes = "all") => picture' = drawn'
      BY <3>1 DEF Refocus, Drawing, Passes
    <3>3. drawn' = IF focused' /\ Draws(artwork)' THEN artwork' ELSE None
      <4>1. Draws(artwork)' <=> Draws(artwork')
        BY <2>1 DEF Draws
      <4> QED BY <2>5, <3>1, <4>1 DEF Refocus, Wanted
    <3> QED BY <2>1, <2>3, <2>4, <3>2, <3>3 DEF Drawing
  <2>6. CASE ~ focused'
    <3>1. Unfocus
      BY <1>4, <2>6 DEF Focus
    <3>2. (terminal.passes = "all") => picture' = drawn'
      BY <3>1 DEF Unfocus, Drawing, Passes
    <3>3. drawn' = IF focused' /\ Draws(artwork)' THEN artwork' ELSE None
      BY <2>6, <3>1 DEF Unfocus
    <3> QED BY <2>1, <2>3, <2>4, <3>2, <3>3 DEF Drawing
  <2> QED BY <2>5, <2>6
<1> QED BY <1>1, <1>2, <1>3, <1>4 DEF Next

-----------------------------------------------------------------------------
\* The list on its way to the screen, or on it, is the roster's.
Others == {"connected", "lost", "unauthorized", "nolocal", "art"}
ListOf(e) == {[op |-> "list", list |-> Receivers(e)]}
Listing ==
  Told(updates, Others, ListOf(entries))
    \/ (Settled(updates, Others) /\ listed = Receivers(entries))

LEMMA ListingSend ==
  ASSUME TypeOK, Listing, UNCHANGED <<listed, entries>>,
         NEW u \in UpdateType, u.op \in Others, Send(u)
  PROVE  Listing'
<1>1. updates' = Append(updates, u) /\ updates \in Seq(UpdateType)
  BY DEF Send, TypeOK, ChannelType
<1>2. Told(updates, Others, ListOf(entries)) => Told(updates', Others, ListOf(entries))
  BY <1>1, QueueAppend
<1>3. Settled(updates, Others) => Settled(updates', Others)
  BY <1>1, QueueAppend
<1> QED BY <1>2, <1>3 DEF Listing

LEMMA ListingStep ==
  ASSUME TypeOK, Listing, [Next]_vars
  PROVE  Listing'
<1>1. CASE UNCHANGED <<updates, listed, entries>>
  BY <1>1 DEF Listing
<1>2. CASE \E answer \in Answers : Browse(answer)
  <2>1. PICK answer \in Answers : Browse(answer)
    BY <1>2
  <2>2. CASE Reports(Head(signals), answer)
    <3> DEFINE u == [op |-> "list", list |-> Receivers(entries')]
    <3>1. u \in UpdateType
      BY ReceiversType, UpdateTypes
    <3>2. updates' = Append(updates, u) /\ updates \in Seq(UpdateType)
      BY <2>1, <2>2 DEF Browse, Send, TypeOK, ChannelType
    <3>3. u \in ListOf(entries')
      BY DEF ListOf
    <3> HIDE DEF u
    <3>4. Told(updates', Others, ListOf(entries'))
      BY <3>1, <3>2, <3>3, QueueAppend
    <3> QED BY <3>4 DEF Listing, ListOf
  <2>3. CASE ~ Reports(Head(signals), answer)
    BY <2>1, <2>3 DEF Browse, HandleSignal, AfterSignal, Reports, screen, Listing
  <2> QED BY <2>2, <2>3
<1>3. CASE ClientStep
  <2>1. UNCHANGED <<listed, entries>>
    BY <1>3 DEF ClientStep, Selected, TakeSelection, Connect, Hang, Fail, Close, Break,
       EndRound, Retry, ClientOnly, roster, screen
  <2>2. \/ UNCHANGED updates
        \/ \E u \in UpdateType : u.op \in Others /\ Send(u)
    <3>1. CASE Selected \/ Hang \/ Fail \/ Break \/ Retry
      BY <3>1 DEF Selected, TakeSelection, Hang, Fail, Break, Retry
    <3>2. CASE Connect
      <4>1. Endpoint \in Hosts
        BY <3>2, EndpointType DEF Connect, Attempts, TypeOK
      <4>2. [op |-> "connected", host |-> Endpoint] \in UpdateType
        BY <4>1, UpdateTypes
      <4> QED BY <3>2, <4>2 DEF Connect, Others
    <3>3. CASE Close
      BY <3>3, UpdateTypes DEF Close, Others
    <3>4. CASE EndRound
      <4> DEFINE o == IF target = None THEN "nolocal" ELSE verdict
      <4>1. o \in {"lost", "unauthorized", "nolocal"} /\ o \in Others
        BY DEF TypeOK, ClientType, Others
      <4>2. Send([op |-> o])
        BY <3>4 DEF EndRound
      <4> HIDE DEF o
      <4>3. [op |-> o] \in UpdateType /\ [op |-> o].op \in Others
        BY <4>1, UpdateTypes
      <4> QED BY <4>2, <4>3
    <3> QED BY <1>3, <3>1, <3>2, <3>3, <3>4 DEF ClientStep
  <2> QED BY <1>1, <2>1, <2>2, ListingSend
<1>4. CASE \E art \in Covers \union {None} : Hear(art)
  <2>1. PICK art \in Art : Hear(art)
    BY <1>4 DEF Art
  <2>2. [op |-> "art", art |-> art] \in UpdateType
    BY UpdateTypes
  <2>3. UNCHANGED <<listed, entries>> /\ Send([op |-> "art", art |-> art])
    BY <2>1 DEF Hear, roster, screen
  <2> QED BY <2>2, <2>3, ListingSend DEF Others
<1>5. CASE Update
  <2> DEFINE u == Head(updates)
  <2>1. updates' = Tail(updates) /\ updates # <<>> /\ updates \in Seq(UpdateType)
        /\ entries' = entries /\ Show(u) /\ u \in UpdateType
    BY <1>5 DEF Update, LoopOnly, roster, TypeOK, ChannelType
  <2>2. listed' = IF u.op = "list" THEN u.list ELSE listed
    BY <2>1 DEF Show, screen
  <2>3. Settled(updates, Others) => u.op \in Others /\ Settled(updates', Others)
    BY <2>1, QueueTail
  <2>4. Told(updates, Others, ListOf(entries)) =>
          Told(updates', Others, ListOf(entries))
            \/ (u \in ListOf(entries) /\ Settled(updates', Others))
    BY <2>1, QueueTail
  <2>5. u \in ListOf(entries) => u.op = "list" /\ u.list = Receivers(entries)
    BY DEF ListOf
  <2>6. "list" \notin Others
    BY DEF Others
  <2> HIDE DEF u
  <2>7. Told(updates', Others, ListOf(entries))
          \/ (Settled(updates', Others) /\ listed' = Receivers(entries))
    BY <2>2, <2>3, <2>4, <2>5, <2>6 DEF Listing
  <2> QED BY <2>1, <2>7 DEF Listing
<1>6. CASE \/ UNCHANGED vars
           \/ \E h \in Hosts, a \in {"down", "up", "locked", "silent"} : Turn(h, a)
           \/ \E ad \in Ads : Advertisement(ad)
           \/ (\E step \in {-1, 1} : Move(step)) \/ Choose \/ Switch \/ Focus
  <2>1. UNCHANGED <<updates, listed, entries>>
    BY <1>6 DEF vars, Turn, Advertisement, Advertise, Move, Choose, Switch, Focus, LoopOnly,
       roster, screen
  <2> QED BY <1>1, <2>1
<1>7. CASE LateAnswer
  <2>1. UNCHANGED <<listed, entries>>
    BY <1>7 DEF LateAnswer, roster, screen
  <2>2. CASE UNCHANGED updates
    BY <1>1, <2>1, <2>2
  <2>3. CASE Send([op |-> "connected", host |-> Endpoint])
    BY <1>7, <2>1, <2>3, LateAnswerSays, ListingSend DEF Others
  <2> QED BY <1>7, <2>2, <2>3 DEF LateAnswer
<1> QED BY <1>2, <1>3, <1>4, <1>5, <1>6, <1>7 DEF Next

-----------------------------------------------------------------------------
\* What the client last said, of all but pictures and lists, is what the
\* screen shows or will show.
Quiet == {"art", "list"}
Connected(h) == {[op |-> "connected", host |-> h]}
Ended == {[op |-> "lost"], [op |-> "unauthorized"]}
NoLocal == {[op |-> "nolocal"]}
ChosenIsTaken == chosen => selections # <<>> \/ target # None
LiveTold ==
  pc = "live" /\ selections = <<>> =>
    \/ Told(updates, Quiet, Connected(Endpoint))
    \/ Settled(updates, Quiet) /\ connection = "connected" /\ label = Endpoint /\ picker = 0
EndTold ==
  pc = "wait" /\ target # None =>
    Told(updates, Quiet, Ended) \/ (Settled(updates, Quiet) /\ connection # "connected")
NoLocalTold ==
  pc = "wait" /\ target = None /\ selections = <<>> =>
    Told(updates, Quiet, NoLocal) \/ (Settled(updates, Quiet) /\ picker # 0)
Telling == ChosenIsTaken /\ LiveTold /\ EndTold /\ NoLocalTold

\* A step that neither moves the client nor says anything but a picture or a
\* list.
LEMMA TellingQuiet ==
  ASSUME TypeOK, Telling, UNCHANGED <<client, selections, connection, label, chosen>>,
         (picker = 0) <=> (picker' = 0), picker = 0 => picker' = picker,
         \/ UNCHANGED updates
         \/ \E u \in UpdateType : u.op \in Quiet /\ Send(u)
  PROVE  Telling'
<1>1. UNCHANGED <<pc, target, candidates, index, selections, connection, label, chosen>>
  BY DEF client
<1>2. Endpoint' = Endpoint
  BY <1>1 DEF Endpoint, Endpoints
<1>3. ASSUME NEW S, Told(updates, Quiet, S) PROVE Told(updates', Quiet, S)
  <2>1. CASE UNCHANGED updates
    BY <1>3, <2>1
  <2>2. CASE \E u \in UpdateType : u.op \in Quiet /\ Send(u)
    <3>1. PICK u \in UpdateType : u.op \in Quiet /\ Send(u)
      BY <2>2
    <3>2. updates \in Seq(UpdateType) /\ updates' = Append(updates, u)
      BY <3>1 DEF Send, TypeOK, ChannelType
    <3> QED BY <1>3, <3>1, <3>2, QueueAppend
  <2> QED BY <2>1, <2>2
<1>4. ASSUME Settled(updates, Quiet) PROVE Settled(updates', Quiet)
  <2>1. CASE UNCHANGED updates
    BY <1>4, <2>1
  <2>2. CASE \E u \in UpdateType : u.op \in Quiet /\ Send(u)
    <3>1. PICK u \in UpdateType : u.op \in Quiet /\ Send(u)
      BY <2>2
    <3>2. updates \in Seq(UpdateType) /\ updates' = Append(updates, u)
      BY <3>1 DEF Send, TypeOK, ChannelType
    <3> QED BY <1>4, <3>1, <3>2, QueueAppend
  <2> QED BY <2>1, <2>2
<1>5. ChosenIsTaken'
  BY <1>1 DEF Telling, ChosenIsTaken
<1>6. LiveTold'
  BY <1>1, <1>2, <1>3, <1>4 DEF Telling, LiveTold
<1>7. EndTold'
  BY <1>1, <1>3, <1>4 DEF Telling, EndTold
<1>8. NoLocalTold'
  BY <1>1, <1>3, <1>4 DEF Telling, NoLocalTold
<1> QED BY <1>5, <1>6, <1>7, <1>8 DEF Telling

LEMMA TellingClient ==
  ASSUME TypeOK, Telling, ClientStep
  PROVE  Telling'
<1>1. updates \in Seq(UpdateType) /\ selections \in Seq(Ads)
  BY DEF TypeOK, ChannelType
<1>2. CASE Selected
  <2>1. pc' = "probe" /\ chosen' = chosen /\ target' = Head(selections) /\ selections # <<>>
    BY <1>2 DEF Selected, TakeSelection, screen
  <2>2. Head(selections) \in Ads
    BY <1>1, <2>1
  <2>3. target' # None
    BY <2>1, <2>2, NamesOfAds
  <2> QED BY <2>1, <2>3 DEF Telling, ChosenIsTaken, LiveTold, EndTold, NoLocalTold
<1>3. CASE Connect
  <2>1. Endpoint \in Hosts
    BY <1>3, EndpointType DEF Connect, Attempts, TypeOK
  <2> DEFINE u == [op |-> "connected", host |-> Endpoint]
  <2>2. u \in UpdateType
    BY <2>1, UpdateTypes
  <2>3. u \in Connected(Endpoint)
    BY DEF Connected
  <2> HIDE DEF u
  <2>4. updates' = Append(updates, u)
    BY <1>3 DEF Connect, Send, u
  <2>5. Told(updates', Quiet, Connected(Endpoint))
    BY <1>1, <2>2, <2>3, <2>4, QueueAppend
  <2>6. pc' = "live" /\ Endpoint' = Endpoint
        /\ UNCHANGED <<target, chosen, selections>>
    BY <1>3 DEF Connect, ClientOnly, Endpoint, Endpoints, screen
  <2> QED BY <2>5, <2>6 DEF Telling, ChosenIsTaken, LiveTold, EndTold, NoLocalTold
<1>4. CASE Hang \/ Fail \/ Close \/ Break \/ Retry
  <2>1. pc' \in {"pending", "probe"} /\ UNCHANGED <<target, chosen, selections>>
    BY <1>4 DEF Hang, Fail, Attempts, Close, Break, Retry, ClientOnly, screen
  <2> QED BY <2>1 DEF Telling, ChosenIsTaken, LiveTold, EndTold, NoLocalTold
<1>5. CASE EndRound
  <2> DEFINE o == IF target = None THEN "nolocal" ELSE verdict
             u == [op |-> o]
  <2>1. verdict \in {"lost", "unauthorized"}
    BY DEF TypeOK, ClientType
  <2>2. u \in UpdateType
    <3>1. o \in {"lost", "unauthorized", "nolocal"}
      BY <2>1
    <3> HIDE DEF o
    <3> QED BY <3>1, UpdateTypes
  <2>3. (target = None => u \in NoLocal) /\ (target # None => u \in Ended)
    BY <2>1 DEF NoLocal, Ended
  <2>4. updates' = Append(updates, u)
    BY <1>5 DEF EndRound, Send
  <2> HIDE DEF u, o
  <2>5. (target = None => Told(updates', Quiet, NoLocal))
        /\ (target # None => Told(updates', Quiet, Ended))
    BY <1>1, <2>2, <2>3, <2>4, QueueAppend
  <2>6. pc' = "wait" /\ UNCHANGED <<target, chosen, selections>>
    BY <1>5 DEF EndRound, ClientOnly, screen
  <2> QED BY <2>5, <2>6 DEF Telling, ChosenIsTaken, LiveTold, EndTold, NoLocalTold
<1> QED BY <1>2, <1>3, <1>4, <1>5 DEF ClientStep

LEMMA TellingLateAnswer ==
  ASSUME TypeOK, Telling, LateAnswer
  PROVE  Telling'
<1>1. updates \in Seq(UpdateType)
  BY DEF TypeOK, ChannelType
<1>2. UNCHANGED <<target, chosen, selections>>
  BY DEF LateAnswer, screen
<1>3. CASE pc' = "probe"
  BY <1>2, <1>3 DEF Telling, ChosenIsTaken, LiveTold, EndTold, NoLocalTold
<1>4. CASE pc' = "live" /\ index' = index /\ Send([op |-> "connected", host |-> Endpoint])
  <2> DEFINE u == [op |-> "connected", host |-> Endpoint]
  <2>1. u \in UpdateType /\ u \in Connected(Endpoint)
    BY LateAnswerSays DEF Connected
  <2>2. updates' = Append(updates, u)
    BY <1>4 DEF Send
  <2> HIDE DEF u
  <2>3. Told(updates', Quiet, Connected(Endpoint))
    BY <1>1, <2>1, <2>2, QueueAppend
  <2>4. Endpoint' = Endpoint
    BY <1>4 DEF LateAnswer, Endpoint, Endpoints
  <2> QED BY <1>2, <1>4, <2>3, <2>4 DEF Telling, ChosenIsTaken, LiveTold, EndTold, NoLocalTold
<1> QED BY <1>3, <1>4 DEF LateAnswer

LEMMA TellingUpdate ==
  ASSUME TypeOK, Telling, Update
  PROVE  Telling'
<1> DEFINE u == Head(updates)
<1>1. updates' = Tail(updates) /\ updates # <<>> /\ updates \in Seq(UpdateType)
      /\ UNCHANGED <<pc, target, candidates, index, selections>> /\ Show(u)
  BY DEF Update, LoopOnly, client, TypeOK, ChannelType
<1>2. u \in UpdateType
  BY <1>1
<1>3. Endpoint' = Endpoint
  BY <1>1 DEF Endpoint, Endpoints
<1>4. ASSUME NEW S PROVE Told(updates, Quiet, S) =>
        Told(updates', Quiet, S) \/ (u \in S /\ Settled(updates', Quiet))
  BY <1>1, QueueTail
<1>5. Settled(updates, Quiet) => u.op \in Quiet /\ Settled(updates', Quiet)
  BY <1>1, QueueTail
<1> HIDE DEF u
<1>6. u.op \in Quiet =>
        UNCHANGED <<connection, label, chosen>> /\ (picker = 0 <=> picker' = 0)
  <2>1. CASE u.op = "art"
    BY <1>1, <2>1 DEF Show, screen
  <2>2. CASE u.op = "list"
    <3>1. picker # 0 => picker' = Anchored(u.list) /\ Anchored(u.list) # 0
      <4>1. u.list \in Seq(Ads)
        BY <1>2, <2>2, UpdateFields
      <4>2. 0 \notin DOMAIN u.list
        BY <4>1
      <4> QED BY <2>2, <1>1, <4>1, <4>2, AnchoredType DEF Show
    <3> QED BY <1>1, <2>2, <3>1 DEF Show
  <2> QED BY <2>1, <2>2 DEF Quiet
<1>7. chosen' = chosen
  BY <1>1, <1>2, UpdateFields DEF Show, screen
<1>8. ChosenIsTaken'
  BY <1>1, <1>7 DEF Telling, ChosenIsTaken
<1>9. LiveTold'
  <2>1. u \in Connected(Endpoint) => connection' = "connected" /\ label' = Endpoint /\ picker' = 0
    BY <1>1 DEF Connected, Show
  <2> QED BY <1>1, <1>3, <1>4, <1>5, <1>6, <2>1 DEF Telling, LiveTold
<1>10. EndTold'
  <2>1. u \in Ended => connection' # "connected"
    BY <1>1 DEF Ended, Show
  <2> QED BY <1>1, <1>4, <1>5, <1>6, <2>1 DEF Telling, EndTold
<1>11. NoLocalTold'
  <2>1. u \in NoLocal /\ ~ chosen => picker' # 0
    BY <1>1 DEF NoLocal, Show
  <2>2. target = None /\ selections = <<>> => ~ chosen
    BY DEF Telling, ChosenIsTaken
  <2> QED BY <1>1, <1>4, <1>5, <1>6, <2>1, <2>2 DEF Telling, NoLocalTold
<1> QED BY <1>8, <1>9, <1>10, <1>11 DEF Telling

LEMMA TellingStep ==
  ASSUME TypeOK, Aimed, Telling, [Next]_vars
  PROVE  Telling'
<1>1. CASE \/ UNCHANGED vars
           \/ \E h \in Hosts, a \in {"down", "up", "locked", "silent"} : Turn(h, a)
           \/ \E ad \in Ads : Advertisement(ad)
           \/ Switch \/ Focus
  <2>1. UNCHANGED <<client, selections, screen, updates>>
    BY <1>1 DEF vars, Turn, Advertisement, Switch, Focus, LoopOnly
  <2> QED BY <2>1, TellingQuiet DEF screen
<1>2. CASE \E answer \in Answers : Browse(answer)
  <2>1. UNCHANGED <<client, selections, screen>>
    BY <1>2 DEF Browse
  <2>2. UNCHANGED updates \/ \E u \in UpdateType : u.op \in Quiet /\ Send(u)
    <3>1. [op |-> "list", list |-> Receivers(entries')] \in UpdateType
      BY ReceiversType, UpdateTypes
    <3> QED BY <1>2, <3>1 DEF Browse, Quiet
  <2> QED BY <2>1, <2>2, TellingQuiet DEF screen
<1>3. CASE \E art \in Covers \union {None} : Hear(art)
  <2>1. UNCHANGED <<client, selections, screen>>
    BY <1>3 DEF Hear
  <2>2. \E u \in UpdateType : u.op \in Quiet /\ Send(u)
    <3>1. \A art \in Art : [op |-> "art", art |-> art] \in UpdateType
      BY UpdateTypes
    <3> QED BY <1>3, <3>1 DEF Hear, Quiet, Art
  <2> QED BY <2>1, <2>2, TellingQuiet DEF screen
<1>4. CASE ClientStep
  BY <1>4, TellingClient
<1>5. CASE Update
  BY <1>5, TellingUpdate
<1>6. CASE \E step \in {-1, 1} : Move(step)
  <2>1. PICK step \in {-1, 1} : Move(step)
    BY <1>6
  <2>2. picker' # 0 /\ picker # 0
    BY <2>1, MoveFacts DEF Aimed, Move
  <2>3. UNCHANGED <<client, selections, connection, label, chosen, updates>>
    BY <2>1 DEF Move, LoopOnly
  <2> QED BY <2>2, <2>3, TellingQuiet
<1>7. CASE Choose
  <2>1. selections' # <<>> /\ connection' = "connecting"
        /\ UNCHANGED <<pc, target, updates>>
    <3>1. selections \in Seq(Ads)
      BY DEF TypeOK, ChannelType
    <3>2. label' \in Ads
      BY <1>7, NamesOfAds DEF Choose, TypeOK, ScreenType
    <3> QED BY <1>7, <3>1, <3>2 DEF Choose, LoopOnly, client
  <2> QED BY <2>1 DEF Telling, ChosenIsTaken, LiveTold, EndTold, NoLocalTold
<1>8. CASE LateAnswer
  BY <1>8, TellingLateAnswer
<1> QED BY <1>1, <1>2, <1>3, <1>4, <1>5, <1>6, <1>7, <1>8 DEF Next

-----------------------------------------------------------------------------
LEMMA StandingNext ==
  ASSUME TypeOK, Standing, [Next]_vars
  PROVE  Standing'
<1>1. CASE \E ad \in Ads : Advertisement(ad)
  BY <1>1, StandingAdvertise DEF Advertisement, TypeOK
<1>2. CASE \E answer \in Answers : Browse(answer)
  BY <1>2, StandingHandle DEF Browse, TypeOK
<1>3. CASE \/ UNCHANGED vars \/ ClientStep \/ LateAnswer
           \/ \E h \in Hosts, a \in {"down", "up", "locked", "silent"} : Turn(h, a)
           \/ \E art \in Covers \union {None} : Hear(art)
           \/ Update \/ (\E step \in {-1, 1} : Move(step)) \/ Choose \/ Switch \/ Focus
  <2>1. UNCHANGED roster
    BY <1>3 DEF vars, ClientStep, LateAnswer, Selected, TakeSelection, Connect, Hang, Fail, Close,
       Break, EndRound, Retry, ClientOnly, Turn, Hear, Update, Move, Choose, Switch, Focus, LoopOnly
  <2> QED BY <2>1 DEF roster, Standing, Uncounted, Counted, LastStands, Alternate, FirstTakes
<1> QED BY <1>1, <1>2, <1>3 DEF Next

\* The inductive invariant of the client: the five parts, and the types.
IInv == TypeOK /\ Aimed /\ Standing /\ Listing /\ Drawing /\ Telling

LEMMA IInvInit ==
  ASSUME Init PROVE IInv
<1>1. TypeOK
  BY TypeInit
<1>2. Aimed
  BY DEF Init, Aimed
<1>3. Standing
  BY StandingInit DEF Init
<1>4. Listing
  <2>1. \A name : Seen(entries, name) = {}
    BY DEF Init, RosterInit, Seen
  <2>2. Receivers(entries) \in Seq(Ads) /\ DOMAIN Receivers(entries) = {}
    <3>1. RowsOf(entries, Receivers(entries), Len(NameOrder))
      BY ReceiversRows
    <3> QED BY <2>1, <3>1 DEF RowsOf
  <2>3. Receivers(entries) = <<>>
    BY <2>2
  <2> QED BY <2>3 DEF Init, Listing, Settled
<1>5. Drawing
  BY DisplayAssumption DEF Init, Drawing
<1>6. Telling
  BY DEF Init, Telling, ChosenIsTaken, LiveTold, EndTold, NoLocalTold
<1> QED BY <1>1, <1>2, <1>3, <1>4, <1>5, <1>6 DEF IInv

LEMMA IInvStep ==
  ASSUME IInv, [Next]_vars PROVE IInv'
BY TypeStep, AimedStep, StandingNext, ListingStep, DrawingStep, TellingStep DEF IInv

\* The inductive invariant holds of every behaviour: it is what the theorems below
\* are read off.
THEOREM IInvHolds == Spec => []IInv
BY IInvInit, IInvStep, PTL DEF Spec

\* The types of the client's channels, screen and cover, for every roster of
\* advertisements and any number of updates on the way.
THEOREM TypeCorrect == Spec => []TypeOK
BY IInvHolds, PTL DEF IInv

\* The screen tells where the client stands (client.rs run_client, state.rs
\* apply): with every update handled it says "connected", and with the name of
\* the endpoint, while a live connection stands; it does not while the client
\* waits out a failure of its receiver; and with no receiver it shows the picker.
THEOREM ScreenIsTold == Spec => []ScreenTells
<1>1. IInv => ScreenTells
  BY DEF IInv, Telling, LiveTold, EndTold, NoLocalTold, Told, ScreenTells
<1> QED BY <1>1, IInvHolds, PTL

\* What Enter chooses is the receiver the user moved the highlight to, whatever
\* lists came in between, unless that receiver left them (tui.rs, the picker
\* anchored by name).
THEOREM ChoiceIsTheAim == Spec => ChoiceIsAimed
<1>1. IInv /\ [Next]_vars => [Choose /\ aim # None => label'.name = aim]_vars
  BY DEF IInv, Aimed, Choose
<1> QED BY <1>1, IInvHolds, PTL DEF Spec, ChoiceIsAimed

\* Under allow-passthrough all, with every change of focus handled, the terminal
\* has the cover the screen holds, if it can be drawn and the pane is looked at,
\* and otherwise no picture of ours (tui.rs, sync; images.rs).
THEOREM PictureIsWanted == Spec => []PictureAgrees
<1>1. IInv => PictureAgrees
  BY DEF IInv, Drawing, PictureAgrees
<1> QED BY <1>1, IInvHolds, PTL

\* With every signal of the browser and every list handled, the picker lists the
\* names of what the browser has found, each once and at an address found for it
\* (discover.rs, Receivers).
THEOREM ListIsRoster == Spec => []ListIsCurrent
<1>1. ASSUME IInv PROVE ListIsCurrent
  <2>1. SUFFICES ASSUME signals = <<>>, \A i \in DOMAIN updates : updates[i].op # "list"
                 PROVE  /\ {listed[i].name : i \in DOMAIN listed} = {ad.name : ad \in found}
                        /\ \A i \in DOMAIN listed : listed[i] \in found
                        /\ \A i, j \in DOMAIN listed : listed[i].name = listed[j].name => i = j
    BY DEF ListIsCurrent
  <2>2. listed = Receivers(entries)
    <3>1. ~ Told(updates, Others, ListOf(entries))
      <4>1. \A u \in ListOf(entries) : u.op = "list"
        BY DEF ListOf
      <4> QED BY <2>1, <4>1 DEF Told
    <3> QED BY <1>1, <3>1 DEF IInv, Listing
  <2>3. RowsOf(entries, listed, Len(NameOrder))
    BY <2>2, ReceiversRows
  <2>4. \A ad \in Ads : ad \in found <=> entries[ad] # "none"
    <3>1. DOMAIN signals = {}
      BY <2>1
    <3> QED BY <1>1, <3>1 DEF IInv, Standing, Counted
  <2>5. found \subseteq Ads
    BY <1>1 DEF IInv, TypeOK, RosterType
  <2>6. ASSUME NEW i \in DOMAIN listed PROVE listed[i] \in found
    <3>1. PICK k \in 1..Len(NameOrder) :
            listed[i] \in Seen(entries, NameOrder[k])
      BY <2>3 DEF RowsOf
    <3> QED BY <2>4, <3>1 DEF Seen
  <2>7. ASSUME NEW ad \in found PROVE \E i \in DOMAIN listed : ad.name = listed[i].name
    <3>1. PICK k \in 1..Len(NameOrder) : NameOrder[k] = ad.name
      <4>1. DOMAIN NameOrder = 1..Len(NameOrder)
        BY RosterAssumption
      <4> QED BY <2>5, <4>1, RosterAssumption
    <3>2. ad \in Seen(entries, NameOrder[k])
      BY <2>4, <2>5, <3>1 DEF Seen
    <3> QED BY ZenonT(40), <2>3, <3>1, <3>2 DEF RowsOf
  <2>8. {listed[i].name : i \in DOMAIN listed} = {ad.name : ad \in found}
    BY <2>6, <2>7
  <2> QED BY <2>3, <2>6, <2>8 DEF RowsOf
<1> QED BY <1>1, IInvHolds, PTL

-----------------------------------------------------------------------------
(***************************************************************************)
(* The feed (module NowPlaying).                                           *)
(***************************************************************************)
\* The part of a state of the display that NothingIsLost compares: all but the volume.
Fields == {"session", "track", "artwork", "progress", "paused"}
Same(s, t) == \A f \in Fields : s[f] = t[f]

LEMMA StatesType ==
  /\ Blank \in States
  /\ \A m \in Messages : m \in Frames
  /\ \A s \in States : Snap(s) \in Frames
BY DEF Blank, States, Optional, Frames

LEMMA FrameKinds ==
  ASSUME NEW m \in Frames
  PROVE  \/ m.type = "snapshot" /\ m.val \in States
         \/ m.type \in {"started", "metadata", "volume", "progress"} /\ m.val \in Values
         \/ m.type = "artwork" /\ m.val \in Optional
         \/ m.type \in {"paused", "resumed", "flushed", "ended"}
<1>1. CASE m \in {Snap(s) : s \in States}
  BY <1>1 DEF Snap, Msg
<1>2. CASE m \in Messages
  <2>1. CASE m \in {Msg(t, v) : t \in {"started", "metadata", "artwork", "volume", "progress"},
                                v \in Values}
    <3>1. PICK t \in {"started", "metadata", "artwork", "volume", "progress"}, v \in Values :
            m = Msg(t, v)
      BY <2>1
    <3>2. m.type = t /\ m.val = v
      BY <3>1 DEF Msg
    <3> QED BY <3>2 DEF Optional
  <2>2. CASE m \in {Msg(t, Nothing) : t \in {"artwork", "paused", "resumed", "flushed", "ended"}}
    <3>1. PICK t \in {"artwork", "paused", "resumed", "flushed", "ended"} :
            m = Msg(t, Nothing)
      BY <2>2
    <3>2. m.type = t /\ m.val = Nothing
      BY <3>1 DEF Msg
    <3> QED BY <3>2 DEF Optional
  <2> QED BY <1>2, <2>1, <2>2 DEF Messages
<1> QED BY <1>1, <1>2 DEF Frames

(* A message sets a field of the display's state or leaves it alone.       *)
LEMMA Effect ==
  ASSUME NEW m \in Frames, NEW f \in Fields
  PROVE  \/ \A s \in States : DisplayApply(s, m)[f] = s[f]
         \/ \A s, t \in States : DisplayApply(s, m)[f] = DisplayApply(t, m)[f]
<1> USE DEF DisplayApply, States, Fields
<1>1. CASE m.type = "snapshot"
  <2>1. ASSUME NEW s \in States PROVE DisplayApply(s, m)[f] = m.val[f]
    <3>1. /\ DisplayApply(s, m).session = m.val.session
          /\ DisplayApply(s, m).track = m.val.track
          /\ DisplayApply(s, m).artwork = m.val.artwork
          /\ DisplayApply(s, m).progress = m.val.progress
          /\ DisplayApply(s, m).paused = m.val.paused
      BY <1>1
    <3> HIDE DEF DisplayApply, States
    <3> QED BY <3>1
  <2> HIDE DEF DisplayApply, States
  <2> QED BY <2>1
<1>2. CASE m.type = "started"
  BY ZenonT(40), <1>2
<1>3. CASE m.type = "metadata"
  BY <1>3
<1>4. CASE m.type = "volume"
  BY <1>4
<1>5. CASE m.type = "progress"
  BY <1>5
<1>6. CASE m.type = "artwork"
  BY <1>6
<1>7. CASE m.type = "paused"
  BY ZenonT(40), <1>7
<1>8. CASE m.type = "resumed"
  BY ZenonT(40), <1>8
<1>9. CASE m.type = "flushed"
  BY <1>9
<1>10. CASE m.type = "ended"
  BY ZenonT(40), <1>10
<1> QED BY <1>1, <1>2, <1>3, <1>4, <1>5, <1>6, <1>7, <1>8, <1>9, <1>10, FrameKinds

LEMMA ApplyType ==
  ASSUME NEW m \in Frames, NEW s \in States
  PROVE  DisplayApply(s, m) \in States
<1> USE DEF DisplayApply, States, Optional
<1>1. CASE m.type = "snapshot" /\ m.val \in States
  BY <1>1
<1>2. CASE m.type = "started" /\ m.val \in Values
  BY <1>2
<1>3. CASE m.type = "metadata" /\ m.val \in Values
  BY <1>3
<1>4. CASE m.type = "volume" /\ m.val \in Values
  BY <1>4
<1>5. CASE m.type = "progress" /\ m.val \in Values
  BY <1>5
<1>6. CASE m.type = "artwork" /\ m.val \in Optional
  BY <1>6
<1>7. CASE m.type = "paused"
  BY <1>7
<1>8. CASE m.type = "resumed"
  BY <1>8
<1>9. CASE m.type = "flushed"
  BY <1>9
<1>10. CASE m.type = "ended"
  BY <1>10
<1> HIDE DEF DisplayApply, States, Optional
<1> QED BY <1>1, <1>2, <1>3, <1>4, <1>5, <1>6, <1>7, <1>8, <1>9, <1>10, FrameKinds

(* The receiver's fold and the display's agree on all but the volume.      *)
LEMMA Mirror ==
  ASSUME NEW m \in Messages, NEW s \in States
  PROVE  /\ SnapshotApply(s, m) \in States
         /\ Same(SnapshotApply(s, m), DisplayApply(s, m))
<1>0. m \in Frames /\ m.type # "snapshot"
  BY StatesType DEF Messages, Msg
<1> USE DEF DisplayApply, SnapshotApply, States, Optional, Same, Fields,
            Blank
<1>2. CASE m.type = "started" /\ m.val \in Values
  BY <1>2
<1>3. CASE m.type = "metadata" /\ m.val \in Values
  BY <1>3
<1>4. CASE m.type = "volume" /\ m.val \in Values
  BY <1>4
<1>5. CASE m.type = "progress" /\ m.val \in Values
  BY <1>5
<1>6. CASE m.type = "artwork" /\ m.val \in Optional
  BY <1>6
<1>7. CASE m.type = "paused"
  BY <1>7
<1>8. CASE m.type = "resumed"
  BY <1>8
<1>9. CASE m.type = "flushed"
  BY <1>9
<1>10. CASE m.type = "ended"
  <2>1. SnapshotApply(s, m) = Blank /\ Blank \in States
    BY <1>10, StatesType
  <2>2. /\ DisplayApply(s, m).session = Nothing
        /\ DisplayApply(s, m).track = Nothing
        /\ DisplayApply(s, m).artwork = Nothing
        /\ DisplayApply(s, m).progress = Nothing
        /\ DisplayApply(s, m).paused = FALSE
    BY <1>10
  <2>3. /\ Blank.session = Nothing /\ Blank.track = Nothing
        /\ Blank.artwork = Nothing /\ Blank.progress = Nothing
        /\ Blank.paused = FALSE
    OBVIOUS
  <2> HIDE DEF DisplayApply, SnapshotApply, States, Blank
  <2> QED BY <2>1, <2>2, <2>3
<1> HIDE DEF DisplayApply, SnapshotApply, States, Optional, Same
<1> QED BY <1>0, <1>2, <1>3, <1>4, <1>5, <1>6, <1>7, <1>8, <1>9, <1>10, FrameKinds

(* After a snapshot the display shows the snapshot.                        *)
LEMMA SnapshotShown ==
  ASSUME NEW s \in States, NEW t \in States
  PROVE  DisplayApply(s, Snap(t)) = t
BY DEF DisplayApply, States, Snap, Msg

LEMMA FieldsOfStates ==
  ASSUME NEW s \in States, NEW t \in States, Same(s, t)
  PROVE  [s EXCEPT !.volume = Nothing] = [t EXCEPT !.volume = Nothing]
BY DEF States, Same, Fields

-----------------------------------------------------------------------------
LEMMA SequenceInduction ==
  ASSUME NEW T, NEW P \in SUBSET Seq(T), <<>> \in P,
         \A q \in P : \A m \in T : Append(q, m) \in P
  PROVE  P = Seq(T)
<1> DEFINE S == {n \in Nat : \A q \in Seq(T) : Len(q) = n => q \in P}
<1>1. 0 \in S
  <2>1. \A q \in Seq(T) : Len(q) = 0 => q = <<>>
    OBVIOUS
  <2> QED BY <2>1
<1>2. ASSUME NEW n \in S PROVE n + 1 \in S
  <2>1. n \in Nat /\ \A q \in Seq(T) : Len(q) = n => q \in P
    OBVIOUS
  <2> HIDE DEF S
  <2>2. ASSUME NEW q \in Seq(T), Len(q) = n + 1 PROVE q \in P
    <3> DEFINE front == [i \in 1..n |-> q[i]]
               r == Append(front, q[n + 1])
    <3>1. DOMAIN q = 1..(n + 1) /\ n + 1 \in 1..(n + 1) /\ \A i \in 1..n : i \in 1..(n + 1)
      BY <2>1, <2>2
    <3>2. front \in Seq(T) /\ Len(front) = n /\ q[n + 1] \in T
      <4>1. \A i \in 1..(n + 1) : q[i] \in T
        BY <3>1
      <4>2. front \in [1..n -> T]
        BY <3>1, <4>1
      <4> QED BY <2>1, <3>1, <4>1, <4>2
    <3>3. Append(front, q[n + 1]) \in P
      <4> HIDE DEF front
      <4> QED BY <2>1, <3>2
    <3>4. \A i \in 1..n : front[i] = q[i]
      OBVIOUS
    <3> HIDE DEF front
    <3>5. r \in Seq(T) /\ Len(r) = n + 1 /\ r[n + 1] = q[n + 1] /\ \A i \in 1..n : r[i] = q[i]
      <4>1. r \in Seq(T) /\ Len(r) = Len(front) + 1 /\ r[Len(front) + 1] = q[n + 1]
            /\ \A i \in 1..Len(front) : r[i] = front[i]
        <5> DEFINE last == q[n + 1]
        <5>1. last \in T
          BY <3>2
        <5> HIDE DEF last
        <5>2. /\ Append(front, last) \in Seq(T)
              /\ Len(Append(front, last)) = Len(front) + 1
              /\ Append(front, last)[Len(front) + 1] = last
              /\ \A i \in 1..Len(front) : Append(front, last)[i] = front[i]
          <6>1. \A x \in Seq(T), y \in T :
                  /\ Append(x, y) \in Seq(T)
                  /\ Len(Append(x, y)) = Len(x) + 1
                  /\ Append(x, y)[Len(x) + 1] = y
                  /\ \A i \in 1..Len(x) : Append(x, y)[i] = x[i]
            BY AppendProperties
          <6> QED BY <3>2, <5>1, <6>1
        <5> QED BY <5>2 DEF last
      <4> HIDE DEF r
      <4> QED BY <2>1, <3>2, <3>4, <4>1
    <3> HIDE DEF r
    <3>6. \A i \in 1..(n + 1) : r[i] = q[i]
      <4>1. \A i \in 1..(n + 1) : i \in 1..n \/ i = n + 1
        BY <2>1
      <4> QED BY <3>5, <4>1
    <3>7. Len(r) = Len(q) /\ \A i \in 1..Len(r) : r[i] = q[i]
      BY <2>2, <3>5, <3>6
    <3>8. r = q
      BY <3>5, <3>7, SeqEqual
    <3> QED BY <3>3, <3>8 DEF r
  <2> QED BY <2>1, <2>2 DEF S
<1>3. S = Nat
  <2> HIDE DEF S
  <2>1. S \subseteq Nat BY DEF S
  <2> QED BY <1>1, <1>2, <2>1, SetInduction
<1>4. ASSUME NEW q \in Seq(T) PROVE q \in P
  <2>1. Len(q) \in Nat
    OBVIOUS
  <2> QED BY <1>3, <2>1
<1> QED BY <1>4

(***************************************************************************)
(* The states of a display that is sent the messages q in state s.         *)
(***************************************************************************)
Runs(run, s, q) ==
  run = [i \in 0..Len(q) |->
           IF i = 0 THEN s ELSE DisplayApply(run[i - 1], q[i])]
After(s, q) == (CHOOSE run : Runs(run, s, q))[Len(q)]

\* Such a run exists, so After is its last state.
LEMMA RunExists ==
  ASSUME NEW s, NEW q \in Seq(Frames)
  PROVE  \E run : Runs(run, s, q)
<1> DEFINE P == {r \in Seq(Frames) : \E run : Runs(run, s, r)}
<1>1. <<>> \in P
  <2> DEFINE run == [i \in 0..0 |-> s]
  <2>1. Len(<<>>) = 0
    OBVIOUS
  <2>2. Runs(run, s, <<>>)
    BY <2>1 DEF Runs
  <2> QED BY <2>2
<1>2. ASSUME NEW r \in P, NEW m \in Frames PROVE Append(r, m) \in P
  <2> DEFINE n == Len(r)
             a == Append(r, m)
  <2>1. r \in Seq(Frames)
    OBVIOUS
  <2>2. a \in Seq(Frames) /\ n \in Nat /\ Len(a) = n + 1 /\ a[n + 1] = m
        /\ \A i \in 1..n : a[i] = r[i]
    BY <2>1
  <2>3. PICK run : Runs(run, s, r)
    OBVIOUS
  <2> HIDE DEF n, a
  <2>4. /\ run[0] = s
        /\ \A i \in 1..n : run[i] = DisplayApply(run[i - 1], r[i])
    <3>1. run = [i \in 0..n |-> IF i = 0 THEN s ELSE DisplayApply(run[i - 1], r[i])]
      BY <2>3 DEF Runs, n
    <3>2. 0 \in 0..n /\ \A i \in 1..n : i \in 0..n /\ i # 0
      BY <2>2
    <3> QED BY <3>1, <3>2
  <2> DEFINE next == [i \in 0..(n + 1) |->
                        IF i = n + 1 THEN DisplayApply(run[n], m) ELSE run[i]]
  <2>5. ASSUME NEW i \in 0..(n + 1)
        PROVE  next[i] = IF i = 0 THEN s ELSE DisplayApply(next[i - 1], a[i])
    <3>1. CASE i = n + 1
      <4>1. i # 0 /\ i - 1 = n /\ n \in 0..(n + 1) /\ n # n + 1
        BY <2>2, <3>1
      <4>2. next[i] = DisplayApply(run[n], m) /\ next[i - 1] = run[n]
        BY <3>1, <4>1
      <4> HIDE DEF next
      <4> QED BY <2>2, <3>1, <4>1, <4>2
    <3>2. CASE i = 0
      BY <2>2, <2>4, <3>2
    <3>3. CASE i # 0 /\ i # n + 1
      <4>1. i \in 1..n /\ i - 1 \in 0..(n + 1) /\ i - 1 # n + 1
        BY <2>2, <3>3
      <4>2. next[i] = run[i] /\ next[i - 1] = run[i - 1]
        BY <3>3, <4>1
      <4> HIDE DEF next
      <4> QED BY <2>2, <2>4, <3>3, <4>1, <4>2
    <3> QED BY <3>1, <3>2, <3>3
  <2>6. next = [i \in 0..(n + 1) |-> IF i = 0 THEN s ELSE DisplayApply(next[i - 1], a[i])]
    <3>1. next = [i \in 0..(n + 1) |-> next[i]]
      OBVIOUS
    <3> HIDE DEF next
    <3> QED BY <2>5, <3>1
  <2>7. Runs(next, s, a)
    <3> HIDE DEF next
    <3> QED BY <2>2, <2>6 DEF Runs
  <2> QED BY <2>2, <2>7 DEF a
<1>3. P = Seq(Frames)
  <2> HIDE DEF P
  <2>1. P \subseteq Seq(Frames) BY DEF P
  <2> QED BY <1>1, <1>2, <2>1, SequenceInduction
<1> QED BY <1>3

LEMMA RunChosen ==
  ASSUME NEW s, NEW q \in Seq(Frames)
  PROVE  \E run : Runs(run, s, q) /\ After(s, q) = run[Len(q)]
<1>1. Runs(CHOOSE run : Runs(run, s, q), s, q)
  BY RunExists
<1> QED BY <1>1 DEF After

LEMMA AfterNothing ==
  ASSUME NEW s
  PROVE  After(s, <<>>) = s
<1>1. <<>> \in Seq(Frames) /\ Len(<<>>) = 0
  OBVIOUS
<1>2. PICK run : Runs(run, s, <<>>) /\ After(s, <<>>) = run[Len(<<>>)]
  BY <1>1, RunChosen
<1>3. run[0] = s
  <2>1. run = [i \in 0..0 |-> IF i = 0 THEN s ELSE DisplayApply(run[i - 1], <<>>[i])]
    BY <1>1, <1>2 DEF Runs
  <2> QED BY <2>1
<1> QED BY <1>1, <1>2, <1>3

LEMMA AfterAppend ==
  ASSUME NEW s, NEW q \in Seq(Frames), NEW m \in Frames
  PROVE  After(s, Append(q, m)) = DisplayApply(After(s, q), m)
<1> DEFINE n == Len(q)
           a == Append(q, m)
<1>1. a \in Seq(Frames) /\ n \in Nat /\ Len(a) = n + 1 /\ a[n + 1] = m
      /\ \A i \in 1..n : a[i] = q[i]
  OBVIOUS
<1>2. PICK r1 : Runs(r1, s, q) /\ After(s, q) = r1[n]
  BY RunChosen
<1> HIDE DEF n, a
<1>3. PICK r2 : Runs(r2, s, a) /\ After(s, a) = r2[n + 1]
  BY <1>1, RunChosen
<1>4. r1[0] = s /\ \A i \in 1..n : r1[i] = DisplayApply(r1[i - 1], q[i])
  <2>1. r1 = [i \in 0..n |-> IF i = 0 THEN s ELSE DisplayApply(r1[i - 1], q[i])]
    BY <1>2 DEF Runs, n
  <2>2. 0 \in 0..n /\ \A i \in 1..n : i \in 0..n /\ i # 0
    BY <1>1
  <2> QED BY <2>1, <2>2
<1>5. r2[0] = s /\ \A i \in 1..(n + 1) : r2[i] = DisplayApply(r2[i - 1], a[i])
  <2>1. r2 = [i \in 0..(n + 1) |-> IF i = 0 THEN s ELSE DisplayApply(r2[i - 1], a[i])]
    BY <1>1, <1>3 DEF Runs
  <2>2. 0 \in 0..(n + 1) /\ \A i \in 1..(n + 1) : i \in 0..(n + 1) /\ i # 0
    BY <1>1
  <2> QED BY <2>1, <2>2
<1> DEFINE S == {k \in Nat : k <= n => r1[k] = r2[k]}
<1>6. 0 \in S
  BY <1>4, <1>5
<1>7. ASSUME NEW k \in S PROVE k + 1 \in S
  <2>1. k \in Nat /\ (k <= n => r1[k] = r2[k])
    OBVIOUS
  <2> HIDE DEF S
  <2>2. ASSUME k + 1 <= n PROVE r1[k + 1] = r2[k + 1]
    <3>1. k + 1 \in 1..n /\ k + 1 \in 1..(n + 1) /\ (k + 1) - 1 = k /\ k <= n
      BY <1>1, <2>1, <2>2
    <3> QED BY <1>1, <1>4, <1>5, <2>1, <3>1
  <2> QED BY <2>1, <2>2 DEF S
<1>8. S = Nat
  <2> HIDE DEF S
  <2>1. S \subseteq Nat BY DEF S
  <2> QED BY <1>6, <1>7, <2>1, SetInduction
<1>9. r1[n] = r2[n]
  BY <1>1, <1>8
<1>10. n + 1 \in 1..(n + 1) /\ (n + 1) - 1 = n
  BY <1>1
<1> QED BY <1>1, <1>2, <1>3, <1>5, <1>9, <1>10 DEF a

LEMMA AfterType ==
  ASSUME NEW s \in States, NEW q \in Seq(Frames)
  PROVE  After(s, q) \in States
<1> DEFINE P == {r \in Seq(Frames) : After(s, r) \in States}
<1>1. <<>> \in P
  BY AfterNothing
<1>2. ASSUME NEW r \in P, NEW m \in Frames PROVE Append(r, m) \in P
  <2>1. r \in Seq(Frames) /\ Append(r, m) \in Seq(Frames)
    OBVIOUS
  <2> QED BY <2>1, AfterAppend, ApplyType
<1>3. P = Seq(Frames)
  <2> HIDE DEF P
  <2>1. P \subseteq Seq(Frames) BY DEF P
  <2> QED BY <1>1, <1>2, <2>1, SequenceInduction
<1> QED BY <1>3

(* Messages in two portions. *)
LEMMA AfterBoth ==
  ASSUME NEW s, NEW p \in Seq(Frames), NEW q \in Seq(Frames)
  PROVE  After(s, p \o q) = After(After(s, p), q)
<1> DEFINE P == {r \in Seq(Frames) : After(s, p \o r) = After(After(s, p), r)}
<1>1. <<>> \in P
  <2>1. p \o <<>> = p
    OBVIOUS
  <2> QED BY <2>1, AfterNothing
<1>2. ASSUME NEW r \in P, NEW m \in Frames PROVE Append(r, m) \in P
  <2>1. r \in Seq(Frames) /\ Append(r, m) \in Seq(Frames)
        /\ p \o r \in Seq(Frames)
    OBVIOUS
  <2>2. p \o Append(r, m) = Append(p \o r, m)
    BY <2>1
  <2>3. After(s, p \o Append(r, m)) = DisplayApply(After(s, p \o r), m)
    BY ZenonT(40), <2>1, <2>2, AfterAppend
  <2>4. After(After(s, p), Append(r, m)) = DisplayApply(After(After(s, p), r), m)
    BY <2>1, AfterAppend
  <2> QED BY <2>1, <2>3, <2>4
<1>3. P = Seq(Frames)
  <2> HIDE DEF P
  <2>1. P \subseteq Seq(Frames) BY DEF P
  <2> QED BY <1>1, <1>2, <2>1, SequenceInduction
<1> QED BY <1>3

(* Of a field, a sequence of messages sets it or leaves it alone. *)
LEMMA AfterField ==
  ASSUME NEW f \in Fields, NEW q \in Seq(Frames)
  PROVE  \/ \A s \in States : After(s, q)[f] = s[f]
         \/ \A s, t \in States : After(s, q)[f] = After(t, q)[f]
<1> DEFINE Sets(r) == \/ \A s \in States : After(s, r)[f] = s[f]
                      \/ \A s, t \in States : After(s, r)[f] = After(t, r)[f]
           P == {r \in Seq(Frames) : Sets(r)}
<1>1. <<>> \in P
  BY AfterNothing
<1>2. ASSUME NEW r \in P, NEW m \in Frames PROVE Append(r, m) \in P
  <2>1. r \in Seq(Frames) /\ Append(r, m) \in Seq(Frames) /\ Sets(r)
    OBVIOUS
  <2>2. \A s \in States : After(s, r) \in States
    BY <2>1, AfterType
  <2>3. \A s : After(s, Append(r, m)) = DisplayApply(After(s, r), m)
    BY <2>1, AfterAppend
  <2>4. CASE \A s \in States : DisplayApply(s, m)[f] = s[f]
    <3>1. \A s \in States : After(s, Append(r, m))[f] = After(s, r)[f]
      BY <2>2, <2>3, <2>4
    <3>2. Sets(Append(r, m))
      BY <2>1, <3>1
    <3> QED BY <2>1, <3>2
  <2>5. CASE \A s, t \in States : DisplayApply(s, m)[f] = DisplayApply(t, m)[f]
    <3>1. \A s, t \in States : After(s, Append(r, m))[f] = After(t, Append(r, m))[f]
      BY <2>2, <2>3, <2>5
    <3> QED BY <2>1, <3>1
  <2> QED BY <2>4, <2>5, Effect
<1>3. P = Seq(Frames)
  <2> HIDE DEF P
  <2>1. P \subseteq Seq(Frames) BY DEF P
  <2> QED BY <1>1, <1>2, <2>1, SequenceInduction
<1> QED BY <1>3

(* Who has the outcome of messages, and is sent only the last of them, keeps it. *)
LEMMA SuffixKeeps ==
  ASSUME NEW s \in States, NEW p \in Seq(Frames), NEW q \in Seq(Frames),
         Same(After(s, p \o q), s)
  PROVE  Same(After(s, q), s)
<1>1. After(s, p) \in States /\ After(s, p \o q) = After(After(s, p), q)
  BY AfterType, AfterBoth
<1>2. ASSUME NEW f \in Fields PROVE After(s, q)[f] = s[f]
  BY <1>1, AfterField DEF Same
<1> QED BY <1>2 DEF Same

(* Who has the outcome of messages keeps it when one more is applied first *)
(* and last: that is how a snapshot runs ahead of the channel.             *)
LEMMA AheadKeeps ==
  ASSUME NEW s \in States, NEW q \in Seq(Frames), Same(After(s, q), s),
         NEW m \in Frames, NEW t \in States, Same(t, DisplayApply(s, m))
  PROVE  Same(After(t, Append(q, m)), t)
<1>1. After(t, Append(q, m)) = DisplayApply(After(t, q), m)
  BY AfterAppend
<1>2. After(t, q) \in States
  BY AfterType
<1>3. ASSUME NEW f \in Fields PROVE DisplayApply(After(t, q), m)[f] = t[f]
  <2>1. t[f] = DisplayApply(s, m)[f] /\ After(s, q)[f] = s[f]
    BY DEF Same
  <2>2. CASE \A x \in States : DisplayApply(x, m)[f] = x[f]
    <3>1. t[f] = s[f]
      BY <2>1, <2>2
    <3>2. After(t, q)[f] = t[f]
      BY <2>1, <3>1, AfterField
    <3> QED BY <1>2, <2>2, <3>2
  <2>3. CASE \A x, y \in States : DisplayApply(x, m)[f] = DisplayApply(y, m)[f]
    BY <1>2, <2>1, <2>3
  <2> QED BY <2>2, <2>3, Effect
<1> QED BY <1>1, <1>3 DEF Same

(* Equal states stay equal. *)
LEMMA ApplySame ==
  ASSUME NEW s \in States, NEW t \in States, Same(s, t), NEW m \in Frames
  PROVE  Same(DisplayApply(s, m), DisplayApply(t, m))
<1>1. ASSUME NEW f \in Fields PROVE DisplayApply(s, m)[f] = DisplayApply(t, m)[f]
  BY Effect DEF Same
<1> QED BY <1>1 DEF Same

-----------------------------------------------------------------------------
\* What the channel, the wire and the displays are made of, with their bounds.
FeedType ==
  /\ snapshot \in States /\ published \in 0..MaxPublished
  /\ unsent = <<>> \/ \E m \in Messages : unsent = <<m>>
  /\ link \in [Displays -> {"down", "handshake", "up"}]
  /\ links \in [Displays -> 0..MaxLinks]
  /\ queue \in [Displays -> Seq(Messages)] /\ lagged \in [Displays -> BOOLEAN]
  /\ wire \in [Displays -> Seq(Frames)] /\ shown \in [Displays -> States]
  /\ \A d \in Displays : Len(queue[d]) <= Capacity /\ Len(wire[d]) <= WireRoom
  /\ \A d \in Displays : link[d] = "down" => queue[d] = <<>>
  /\ \A d \in Displays : link[d] # "up" => wire[d] = <<>>

\* The snapshot stands whatever of the channel is applied to it again; and a
\* display that is not behind comes to it.
Held(d) == Same(After(snapshot, queue[d] \o unsent), snapshot)
Reached(d) ==
  link[d] = "up" /\ ~ lagged[d] =>
    Same(After(shown[d], wire[d] \o (queue[d] \o unsent)), snapshot)
Current == \A d \in Displays : Held(d) /\ Reached(d)

\* The inductive invariant of the feed.
FInv == FeedType /\ Current

LEMMA Joins ==
  ASSUME NEW S, NEW p \in Seq(S), NEW q \in Seq(S), NEW r \in Seq(S)
  PROVE  /\ p \o <<>> = p /\ <<>> \o p = p
         /\ (p \o q) \o r = p \o (q \o r)
         /\ p \o q \in Seq(S)
         /\ \A m \in S : p \o <<m>> = Append(p, m)
OBVIOUS

LEMMA JoinsOfFrames ==
  /\ \A p \in Seq(Frames) : p \o <<>> = p /\ <<>> \o p = p
  /\ \A p, q, r \in Seq(Frames) : (p \o q) \o r = p \o (q \o r)
  /\ \A p, q \in Seq(Frames) : p \o q \in Seq(Frames)
  /\ \A p \in Seq(Frames) : \A m \in Frames : p \o <<m>> = Append(p, m)
BY Joins

LEMMA QueueTypes ==
  ASSUME FeedType, NEW d \in Displays
  PROVE  /\ queue[d] \in Seq(Messages) /\ queue[d] \in Seq(Frames)
         /\ unsent \in Seq(Messages) /\ unsent \in Seq(Frames)
         /\ wire[d] \in Seq(Frames)
         /\ queue[d] \o unsent \in Seq(Frames)
         /\ snapshot \in States /\ shown[d] \in States
         /\ Snap(snapshot) \in Frames
<1>1. Messages \subseteq Frames
  BY StatesType
<1>2. \A q \in Seq(Messages) : q \in Seq(Frames)
  BY <1>1
<1>3. unsent \in Seq(Messages)
  <2>1. <<>> \in Seq(Messages) /\ \A m \in Messages : <<m>> \in Seq(Messages)
    OBVIOUS
  <2> QED BY <2>1 DEF FeedType
<1>4. queue[d] \in Seq(Messages) /\ wire[d] \in Seq(Frames)
      /\ snapshot \in States /\ shown[d] \in States
  BY DEF FeedType
<1>5. queue[d] \o unsent \in Seq(Frames)
  BY <1>2, <1>3, <1>4
<1> QED BY <1>2, <1>3, <1>4, <1>5, StatesType

LEMMA FInvInit ==
  ASSUME FeedInit
  PROVE  FInv
<1>1. FeedType
  <2>1. <<>> \in Seq(Messages) /\ <<>> \in Seq(Frames) /\ Len(<<>>) = 0
    OBVIOUS
  <2> QED BY <2>1, StatesType, NowPlayingAssumption DEF FeedInit, FeedType
<1>2. ASSUME NEW d \in Displays PROVE Held(d) /\ Reached(d)
  <2>1. queue[d] \o unsent = <<>> /\ snapshot = Blank /\ link[d] = "down"
    BY DEF FeedInit
  <2> QED BY <2>1, AfterNothing DEF Held, Reached, Same
<1> QED BY <1>1, <1>2 DEF FInv, Current

LEMMA FInvPublish ==
  ASSUME FInv, NEW m \in Messages, Publish(m)
  PROVE  FInv'
<1>0. m \in Frames
  BY StatesType
<1>1. unsent = <<>> /\ unsent' = <<m>> /\ snapshot' = SnapshotApply(snapshot, m)
      /\ UNCHANGED <<link, links, queue, lagged, wire, shown>>
      /\ published < MaxPublished /\ published' = published + 1
  BY DEF Publish, peer
<1>2. snapshot' \in States /\ Same(snapshot', DisplayApply(snapshot, m))
      /\ snapshot \in States
  BY <1>1, Mirror DEF FInv, FeedType
<1>3. FeedType'
  <2>1. published' \in 0..MaxPublished
    BY <1>1, NowPlayingAssumption DEF FInv, FeedType
  <2> QED BY <1>1, <1>2, <2>1 DEF FInv, FeedType
<1>4. ASSUME NEW d \in Displays PROVE Held(d)' /\ Reached(d)'
  <2>1. queue[d] \in Seq(Frames) /\ wire[d] \in Seq(Frames)
        /\ shown[d] \in States /\ wire[d] \o queue[d] \in Seq(Frames)
    BY QueueTypes DEF FInv
  <2>2. queue[d] \o unsent = queue[d] /\ queue[d] \o <<m>> = Append(queue[d], m)
    BY <1>0, <1>1, <2>1, JoinsOfFrames
  <2>3. Held(d)'
    <3>1. Same(After(snapshot, queue[d]), snapshot)
      BY <2>2 DEF FInv, Current, Held
    <3>2. Same(After(snapshot', Append(queue[d], m)), snapshot')
      BY <1>0, <1>2, <2>1, <3>1, AheadKeeps
    <3> QED BY <1>1, <2>2, <3>2 DEF Held
  <2>4. Reached(d)'
    <3>1. SUFFICES ASSUME link[d] = "up", ~ lagged[d]
                   PROVE  Same(After(shown[d], wire[d] \o (queue[d] \o <<m>>)), snapshot')
      BY <1>1 DEF Reached
    <3>2. Same(After(shown[d], wire[d] \o queue[d]), snapshot)
      BY <2>2, <3>1 DEF FInv, Current, Reached
    <3>3. wire[d] \o Append(queue[d], m) = Append(wire[d] \o queue[d], m)
      <4> DEFINE w == wire[d]
                 q == queue[d]
      <4>1. w \in Seq(Frames) /\ q \in Seq(Frames)
        BY <2>1
      <4> HIDE DEF w, q
      <4>2. w \o Append(q, m) = Append(w \o q, m)
        BY <1>0, <4>1
      <4> QED BY <4>2 DEF w, q
    <3>4. After(shown[d], wire[d] \o (queue[d] \o <<m>>))
            = DisplayApply(After(shown[d], wire[d] \o queue[d]), m)
      <4>1. After(shown[d], Append(wire[d] \o queue[d], m))
              = DisplayApply(After(shown[d], wire[d] \o queue[d]), m)
        BY <1>0, <2>1, AfterAppend
      <4> QED BY <2>2, <3>3, <4>1
    <3>5. After(shown[d], wire[d] \o queue[d]) \in States
      BY <2>1, AfterType
    <3>6. Same(DisplayApply(After(shown[d], wire[d] \o queue[d]), m),
               DisplayApply(snapshot, m))
      BY <1>0, <1>2, <3>2, <3>5, ApplySame
    <3> QED BY <1>2, <3>4, <3>6 DEF Same
  <2> QED BY <2>3, <2>4
<1> QED BY <1>3, <1>4 DEF FInv, Current

LEMMA FInvBroadcast ==
  ASSUME FInv, Broadcast
  PROVE  FInv'
<1> DEFINE full(d) == Len(queue[d]) = Capacity
           kept(d) == IF full(d) THEN Tail(queue[d]) ELSE queue[d]
<1>1. unsent # <<>> /\ unsent' = <<>>
      /\ UNCHANGED <<snapshot, published, link, links, wire, shown>>
      /\ queue' = [d \in Displays |-> IF link[d] = "down" THEN queue[d] ELSE kept(d) \o unsent]
      /\ lagged' = [d \in Displays |-> lagged[d] \/ (link[d] # "down" /\ full(d))]
  BY DEF Broadcast
<1>2. PICK m \in Messages : unsent = <<m>>
  BY <1>1 DEF FInv, FeedType
<1>3. ASSUME NEW d \in Displays
      PROVE  /\ queue'[d] = IF link[d] = "down" THEN queue[d] ELSE kept(d) \o unsent
             /\ lagged'[d] = (lagged[d] \/ (link[d] # "down" /\ full(d)))
             /\ kept(d) \in Seq(Messages) /\ Len(kept(d)) + 1 <= Capacity
             /\ \E p \in Seq(Frames) : p \o kept(d) = queue[d]
             /\ Len(kept(d) \o unsent) <= Capacity
             /\ kept(d) \o unsent \in Seq(Messages)
  <2>1. queue[d] \in Seq(Messages) /\ Len(queue[d]) <= Capacity /\ Capacity \in Nat \ {0}
        /\ unsent \in Seq(Messages)
    BY QueueTypes, NowPlayingAssumption DEF FInv, FeedType
  <2>2. CASE full(d)
    <3>1. queue[d] # <<>>
      BY <2>1, <2>2
    <3>2. Tail(queue[d]) \in Seq(Messages) /\ Len(Tail(queue[d])) = Len(queue[d]) - 1
          /\ Head(queue[d]) \in Messages
      BY <2>1, <3>1
    <3>3. <<Head(queue[d])>> \o Tail(queue[d]) = queue[d]
      BY <2>1, <3>1
    <3>4. <<Head(queue[d])>> \in Seq(Frames)
      BY <3>2, StatesType
    <3>5. kept(d) = Tail(queue[d]) /\ Len(kept(d)) + 1 <= Capacity
      BY <2>1, <2>2, <3>2
    <3>6. kept(d) \o unsent \in Seq(Messages) /\ Len(kept(d) \o unsent) = Len(kept(d)) + 1
      BY <1>2, <2>1, <3>2, <3>5
    <3> HIDE DEF kept
    <3> QED BY <1>1, <3>2, <3>3, <3>4, <3>5, <3>6
  <2>3. CASE ~ full(d)
    <3>1. <<>> \o queue[d] = queue[d] /\ <<>> \in Seq(Frames)
      BY <2>1
    <3>2. kept(d) = queue[d] /\ Len(kept(d)) + 1 <= Capacity
      BY <2>1, <2>3
    <3>3. kept(d) \o unsent \in Seq(Messages) /\ Len(kept(d) \o unsent) = Len(kept(d)) + 1
      BY <1>2, <2>1, <3>2
    <3> HIDE DEF kept
    <3> QED BY <1>1, <2>1, <3>1, <3>2, <3>3
  <2> QED BY <2>2, <2>3
<1> HIDE DEF kept, full
<1>4. FeedType'
  <2>1. queue' \in [Displays -> Seq(Messages)] /\ lagged' \in [Displays -> BOOLEAN]
    <3>1. \A d \in Displays : queue'[d] \in Seq(Messages)
      BY <1>3 DEF FInv, FeedType
    <3>2. \A d \in Displays : lagged'[d] \in BOOLEAN
      BY <1>3
    <3> QED BY <1>1, <3>1, <3>2
  <2>2. \A d \in Displays : Len(queue'[d]) <= Capacity
    BY <1>3 DEF FInv, FeedType
  <2>3. \A d \in Displays : link[d] = "down" => queue'[d] = <<>>
    BY <1>3 DEF FInv, FeedType
  <2> QED BY <1>1, <2>1, <2>2, <2>3 DEF FInv, FeedType
<1>5. ASSUME NEW d \in Displays PROVE Held(d)' /\ Reached(d)'
  <2>0. /\ queue[d] \in Seq(Frames) /\ unsent \in Seq(Frames)
        /\ wire[d] \in Seq(Frames) /\ snapshot \in States
    BY QueueTypes DEF FInv
  <2>1. Same(After(snapshot, queue[d] \o unsent), snapshot)
    BY DEF FInv, Current, Held
  <2>2. CASE link[d] = "down"
    <3>1. queue'[d] \o unsent' = <<>>
      BY <1>1, <1>3, <2>2 DEF FInv, FeedType
    <3> QED BY <1>1, <2>2, <3>1, AfterNothing DEF Held, Reached, Same
  <2>3. CASE link[d] # "down"
    <3>1. kept(d) \in Seq(Messages) /\ kept(d) \o unsent \in Seq(Messages)
          /\ queue'[d] = kept(d) \o unsent
      BY <1>3, <2>3
    <3>2. \A q \in Seq(Messages) : q \in Seq(Frames)
      BY StatesType
    <3>3. queue'[d] \o unsent' = kept(d) \o unsent
      BY <1>1, <3>1
    <3>4. PICK p \in Seq(Frames) : p \o kept(d) = queue[d]
      BY <1>3
    <3>5. p \o (kept(d) \o unsent) = queue[d] \o unsent
      <4>1. p \in Seq(Frames) /\ kept(d) \in Seq(Frames) /\ unsent \in Seq(Frames)
        BY <2>0, <3>1, <3>2
      <4>2. p \o (kept(d) \o unsent) = (p \o kept(d)) \o unsent
        BY SMTT(30), <4>1, JoinsOfFrames
      <4> QED BY <3>4, <4>2
    <3>6. Held(d)'
      <4>1. kept(d) \o unsent \in Seq(Frames)
        BY <3>1, <3>2
      <4>2. Same(After(snapshot, kept(d) \o unsent), snapshot)
        BY <2>0, <2>1, <3>5, <4>1, SuffixKeeps
      <4> QED BY <1>1, <3>3, <4>2 DEF Held
    <3>7. Reached(d)'
      <4>1. SUFFICES ASSUME link[d] = "up", ~ lagged'[d]
                     PROVE  Same(After(shown[d], wire[d] \o (queue'[d] \o unsent')), snapshot)
        BY <1>1 DEF Reached
      <4>2. ~ lagged[d] /\ ~ full(d)
        BY <1>3, <2>3, <4>1
      <4>3. queue'[d] \o unsent' = queue[d] \o unsent
        BY <3>3, <4>2 DEF kept
      <4> QED BY <4>1, <4>2, <4>3 DEF FInv, Current, Reached
    <3> QED BY <3>6, <3>7
  <2> QED BY <2>2, <2>3
<1> QED BY <1>4, <1>5 DEF FInv, Current

(* What a step does to one display leaves the others as they were. *)
LEMMA FeedOther ==
  ASSUME FInv, UNCHANGED <<snapshot, unsent>>, NEW e \in Displays,
         link'[e] = link[e], queue'[e] = queue[e], lagged'[e] = lagged[e],
         wire'[e] = wire[e], shown'[e] = shown[e]
  PROVE  Held(e)' /\ Reached(e)'
BY DEF FInv, Current, Held, Reached

LEMMA FInvSubscribe ==
  ASSUME FInv, NEW d \in Displays, Subscribe(d)
  PROVE  FInv'
<1>1. link[d] = "down" /\ links[d] < MaxLinks
      /\ link' = [link EXCEPT ![d] = "handshake"] /\ links' = [links EXCEPT ![d] = @ + 1]
      /\ UNCHANGED <<snapshot, unsent, published, queue, lagged, wire, shown>>
  BY DEF Subscribe
<1>2. FeedType'
  <2>1. links' \in [Displays -> 0..MaxLinks]
    <3>1. links \in [Displays -> 0..MaxLinks] /\ MaxLinks \in Nat
      BY NowPlayingAssumption DEF FInv, FeedType
    <3>2. links[d] + 1 \in 0..MaxLinks
      BY <1>1, <3>1
    <3> QED BY <1>1, <3>1, <3>2
  <2>2. link' \in [Displays -> {"down", "handshake", "up"}]
        /\ \A e \in Displays : link'[e] = IF e = d THEN "handshake" ELSE link[e]
    BY <1>1 DEF FInv, FeedType
  <2> QED BY <1>1, <2>1, <2>2 DEF FInv, FeedType
<1>3. ASSUME NEW e \in Displays PROVE Held(e)' /\ Reached(e)'
  <2>1. CASE e # d
    <3>1. link'[e] = link[e]
      BY <1>1, <2>1 DEF FInv, FeedType
    <3> QED BY <1>1, <3>1, FeedOther
  <2>2. CASE e = d
    <3>1. link'[d] = "handshake"
      BY <1>1 DEF FInv, FeedType
    <3> QED BY <1>1, <2>2, <3>1 DEF FInv, Current, Held, Reached
  <2> QED BY <2>1, <2>2
<1> QED BY <1>2, <1>3 DEF FInv, Current

(* A snapshot on the wire, with what the channel still keeps behind it.    *)
LEMMA SnapshotReaches ==
  ASSUME FInv, NEW d \in Displays
  PROVE  LET w == Append(wire[d], Snap(snapshot))
         IN  Same(After(shown[d], w \o (queue[d] \o unsent)), snapshot)
<1> DEFINE m == Snap(snapshot)
           w == Append(wire[d], m)
           rest == queue[d] \o unsent
<1>1. /\ wire[d] \in Seq(Frames) /\ m \in Frames /\ rest \in Seq(Frames)
      /\ shown[d] \in States /\ snapshot \in States
  BY QueueTypes DEF FInv
<1>2. DisplayApply(After(shown[d], wire[d]), m) = snapshot
  BY <1>1, AfterType, SnapshotShown
<1>3. Same(After(snapshot, rest), snapshot)
  BY DEF FInv, Current, Held
<1> HIDE DEF m, rest
<1>4. w \in Seq(Frames)
  BY <1>1
<1>5. After(shown[d], w) = snapshot
  BY <1>1, <1>2, AfterAppend
<1> HIDE DEF w
<1>6. After(shown[d], w \o rest) = After(snapshot, rest)
  BY <1>1, <1>4, <1>5, AfterBoth
<1> QED BY <1>3, <1>6 DEF w, m, rest

LEMMA FInvSnapshot ==
  ASSUME FInv, NEW d \in Displays, SendSnapshot(d)
  PROVE  FInv'
<1>1. link[d] = "handshake" /\ link' = [link EXCEPT ![d] = "up"]
      /\ wire' = [wire EXCEPT ![d] = Append(@, Snap(snapshot))]
      /\ UNCHANGED <<snapshot, unsent, published, links, queue, lagged, shown>>
  BY DEF SendSnapshot
<1>2. link' \in [Displays -> {"down", "handshake", "up"}]
      /\ \A e \in Displays : link'[e] = IF e = d THEN "up" ELSE link[e]
  BY <1>1 DEF FInv, FeedType
<1>3. \A e \in Displays : wire'[e] = IF e = d THEN Append(wire[d], Snap(snapshot)) ELSE wire[e]
  BY <1>1 DEF FInv, FeedType
<1>4. wire[d] = <<>> /\ wire[d] \in Seq(Frames) /\ Snap(snapshot) \in Frames
  BY <1>1, QueueTypes DEF FInv, FeedType
<1>5. Append(wire[d], Snap(snapshot)) \in Seq(Frames)
      /\ Len(Append(wire[d], Snap(snapshot))) = 1
  BY <1>4
<1>6. FeedType'
  <2>1. wire' \in [Displays -> Seq(Frames)]
    BY <1>1, <1>5 DEF FInv, FeedType
  <2>2. ASSUME NEW e \in Displays PROVE Len(wire'[e]) <= WireRoom
    <3>1. CASE e = d
      <4>1. WireRoom \in Nat \ {0} => 1 <= WireRoom
        OBVIOUS
      <4> QED BY <1>3, <1>5, <3>1, <4>1, NowPlayingAssumption
    <3>2. CASE e # d
      BY <1>3, <3>2 DEF FInv, FeedType
    <3> QED BY <3>1, <3>2
  <2>3. \A e \in Displays : link'[e] # "up" => wire'[e] = <<>>
    BY <1>2, <1>3 DEF FInv, FeedType
  <2> QED BY <1>1, <1>2, <2>1, <2>2, <2>3 DEF FInv, FeedType
<1>7. ASSUME NEW e \in Displays PROVE Held(e)' /\ Reached(e)'
  <2>1. CASE e # d
    BY <1>1, <1>2, <1>3, <2>1, FeedOther
  <2>2. CASE e = d
    BY <1>1, <1>2, <1>3, <2>2, SnapshotReaches DEF FInv, Current, Held, Reached
  <2> QED BY <2>1, <2>2
<1> QED BY <1>6, <1>7 DEF FInv, Current

LEMMA FInvForward ==
  ASSUME FInv, NEW d \in Displays, Forward(d)
  PROVE  FInv'
<1>1. link[d] = "up" /\ Len(wire[d]) < WireRoom
      /\ UNCHANGED <<snapshot, unsent, published, link, links, shown>>
  BY DEF Forward
<1>0. /\ wire[d] \in Seq(Frames) /\ queue[d] \in Seq(Messages)
      /\ queue[d] \in Seq(Frames) /\ unsent \in Seq(Frames)
      /\ Snap(snapshot) \in Frames /\ snapshot \in States
      /\ queue[d] \o unsent \in Seq(Frames)
  BY QueueTypes DEF FInv
<1>2. CASE lagged[d]
  <2>1. lagged' = [lagged EXCEPT ![d] = FALSE]
        /\ wire' = [wire EXCEPT ![d] = Append(@, Snap(snapshot))] /\ queue' = queue
    BY <1>2 DEF Forward
  <2>2. \A e \in Displays :
          /\ wire'[e] = IF e = d THEN Append(wire[d], Snap(snapshot)) ELSE wire[e]
          /\ lagged'[e] = IF e = d THEN FALSE ELSE lagged[e]
    BY <2>1 DEF FInv, FeedType
  <2>3. Append(wire[d], Snap(snapshot)) \in Seq(Frames)
        /\ Len(Append(wire[d], Snap(snapshot))) = Len(wire[d]) + 1
        /\ Len(wire[d]) \in Nat
    BY <1>0
  <2>4. FeedType'
    <3>1. wire' \in [Displays -> Seq(Frames)] /\ lagged' \in [Displays -> BOOLEAN]
      BY <2>1, <2>3 DEF FInv, FeedType
    <3>2. ASSUME NEW e \in Displays PROVE Len(wire'[e]) <= WireRoom
      <4>1. CASE e = d
        <5>1. \A x, y \in Nat : x < y => x + 1 <= y
          OBVIOUS
        <5>2. Len(wire[d]) + 1 <= WireRoom
          BY <1>1, <2>3, <5>1, NowPlayingAssumption
        <5> QED BY <2>2, <2>3, <4>1, <5>2
      <4>2. CASE e # d
        BY <2>2, <4>2 DEF FInv, FeedType
      <4> QED BY <4>1, <4>2
    <3>3. \A e \in Displays : link[e] # "up" => wire'[e] = <<>>
      BY <1>1, <2>2 DEF FInv, FeedType
    <3> QED BY <1>1, <2>1, <3>1, <3>2, <3>3 DEF FInv, FeedType
  <2>5. ASSUME NEW e \in Displays PROVE Held(e)' /\ Reached(e)'
    <3>1. CASE e # d
      BY <1>1, <2>1, <2>2, <3>1, FeedOther
    <3>2. CASE e = d
      BY <1>1, <2>1, <2>2, <3>2, SnapshotReaches DEF FInv, Current, Held, Reached
    <3> QED BY <3>1, <3>2
  <2> QED BY <2>4, <2>5 DEF FInv, Current
<1>3. CASE ~ lagged[d]
  <2> DEFINE h == Head(queue[d])
             rest == Tail(queue[d])
  <2>1. queue[d] # <<>> /\ lagged' = lagged
        /\ wire' = [wire EXCEPT ![d] = Append(@, h)]
        /\ queue' = [queue EXCEPT ![d] = rest]
    BY <1>3 DEF Forward
  <2>2. h \in Messages /\ rest \in Seq(Messages) /\ <<h>> \o rest = queue[d]
        /\ Len(rest) = Len(queue[d]) - 1 /\ Len(queue[d]) \in Nat
    BY <1>0, <2>1
  <2>3. h \in Frames /\ rest \in Seq(Frames) /\ <<h>> \in Seq(Frames)
    <3> HIDE DEF h, rest
    <3>1. \A q \in Seq(Messages) : q \in Seq(Frames)
      BY StatesType
    <3> QED BY <2>2, <3>1, StatesType
  <2> HIDE DEF h, rest
  <2>4. \A e \in Displays :
          /\ wire'[e] = IF e = d THEN Append(wire[d], h) ELSE wire[e]
          /\ queue'[e] = IF e = d THEN rest ELSE queue[e]
    BY <2>1 DEF FInv, FeedType
  <2>5. Append(wire[d], h) \in Seq(Frames)
        /\ Len(Append(wire[d], h)) = Len(wire[d]) + 1 /\ Len(wire[d]) \in Nat
    BY <1>0, <2>3
  <2>6. FeedType'
    <3>1. wire' \in [Displays -> Seq(Frames)] /\ queue' \in [Displays -> Seq(Messages)]
      BY <2>1, <2>2, <2>5 DEF FInv, FeedType
    <3>2. ASSUME NEW e \in Displays PROVE Len(wire'[e]) <= WireRoom /\ Len(queue'[e]) <= Capacity
      <4>1. CASE e = d
        <5>1. /\ \A x, y \in Nat : x < y => x + 1 <= y
              /\ \A x, y \in Nat : x <= y => x - 1 <= y
          OBVIOUS
        <5>2. Len(wire[d]) + 1 <= WireRoom
          BY <1>1, <2>5, <5>1, NowPlayingAssumption
        <5>3. Len(queue[d]) - 1 <= Capacity
          BY <2>2, <5>1, NowPlayingAssumption DEF FInv, FeedType
        <5> QED BY <2>2, <2>4, <2>5, <4>1, <5>2, <5>3
      <4>2. CASE e # d
        BY <2>4, <4>2 DEF FInv, FeedType
      <4> QED BY <4>1, <4>2
    <3>3. \A e \in Displays : /\ link[e] # "up" => wire'[e] = <<>>
                              /\ link[e] = "down" => queue'[e] = <<>>
      BY <1>1, <2>4 DEF FInv, FeedType
    <3> QED BY <1>1, <2>1, <3>1, <3>2, <3>3 DEF FInv, FeedType
  <2>7. <<h>> \o (rest \o unsent) = queue[d] \o unsent /\ rest \o unsent \in Seq(Frames)
    <3> DEFINE u == unsent
    <3>1. u \in Seq(Frames)
      BY <1>0
    <3> HIDE DEF u
    <3>2. <<h>> \o (rest \o u) = (<<h>> \o rest) \o u /\ rest \o u \in Seq(Frames)
      BY <2>3, <3>1
    <3> QED BY <2>2, <3>2 DEF u
  <2>8. Append(wire[d], h) \o (rest \o unsent) = wire[d] \o (queue[d] \o unsent)
    <3>1. Append(wire[d], h) = wire[d] \o <<h>>
      BY <1>0, <2>3, JoinsOfFrames
    <3>2. (wire[d] \o <<h>>) \o (rest \o unsent) = wire[d] \o (<<h>> \o (rest \o unsent))
      <4> DEFINE w == wire[d]
                 r == rest \o unsent
      <4>1. w \in Seq(Frames) /\ r \in Seq(Frames)
        BY <1>0, <2>7
      <4> HIDE DEF w, r
      <4>2. (w \o <<h>>) \o r = w \o (<<h>> \o r)
        BY <2>3, <4>1
      <4> QED BY <4>2 DEF w, r
    <3> QED BY <2>7, <3>1, <3>2
  <2>9. Same(After(snapshot, rest \o unsent), snapshot)
    <3>1. Same(After(snapshot, <<h>> \o (rest \o unsent)), snapshot)
      BY <2>7 DEF FInv, Current, Held
    <3> QED BY <1>0, <2>3, <2>7, <3>1, SuffixKeeps
  <2>10. ASSUME NEW e \in Displays PROVE Held(e)' /\ Reached(e)'
    <3>1. CASE e # d
      BY <1>1, <2>1, <2>4, <3>1, FeedOther
    <3>2. CASE e = d
      BY <1>1, <2>1, <2>4, <2>8, <2>9, <3>2 DEF FInv, Current, Held, Reached
    <3> QED BY <3>1, <3>2
  <2> QED BY <2>6, <2>10 DEF FInv, Current
<1> QED BY <1>2, <1>3

LEMMA FInvRead ==
  ASSUME FInv, NEW d \in Displays, Read(d)
  PROVE  FInv'
<1> DEFINE h == Head(wire[d])
           rest == Tail(wire[d])
<1>1. wire[d] # <<>> /\ wire' = [wire EXCEPT ![d] = rest]
      /\ shown' = [shown EXCEPT ![d] = DisplayApply(@, h)]
      /\ UNCHANGED <<snapshot, unsent, published, link, links, queue, lagged>>
  BY DEF Read
<1>0. /\ wire[d] \in Seq(Frames) /\ queue[d] \o unsent \in Seq(Frames)
      /\ shown[d] \in States
  BY QueueTypes DEF FInv
<1>2. h \in Frames /\ rest \in Seq(Frames) /\ <<h>> \o rest = wire[d]
      /\ Len(rest) = Len(wire[d]) - 1 /\ Len(wire[d]) \in Nat /\ <<h>> = Append(<<>>, h)
      /\ <<h>> \in Seq(Frames)
  BY <1>0, <1>1
<1> HIDE DEF h, rest
<1>3. \A e \in Displays :
        /\ wire'[e] = IF e = d THEN rest ELSE wire[e]
        /\ shown'[e] = IF e = d THEN DisplayApply(shown[d], h) ELSE shown[e]
  BY <1>1 DEF FInv, FeedType
<1>4. DisplayApply(shown[d], h) \in States
  BY <1>0, <1>2, ApplyType
<1>5. FeedType'
  <2>1. wire' \in [Displays -> Seq(Frames)] /\ shown' \in [Displays -> States]
    BY <1>1, <1>2, <1>4 DEF FInv, FeedType
  <2>2. ASSUME NEW e \in Displays PROVE Len(wire'[e]) <= WireRoom
    <3>1. CASE e = d
      <4>1. \A x, y \in Nat : x <= y => x - 1 <= y
        OBVIOUS
      <4>2. Len(wire[d]) - 1 <= WireRoom
        BY <1>2, <4>1, NowPlayingAssumption DEF FInv, FeedType
      <4> QED BY <1>2, <1>3, <3>1, <4>2
    <3>2. CASE e # d
      BY <1>3, <3>2 DEF FInv, FeedType
    <3> QED BY <3>1, <3>2
  <2>3. \A e \in Displays : link[e] # "up" => wire'[e] = <<>>
    BY <1>1, <1>3 DEF FInv, FeedType
  <2> QED BY <1>1, <2>1, <2>2, <2>3 DEF FInv, FeedType
<1>6. After(shown[d], wire[d] \o (queue[d] \o unsent))
        = After(DisplayApply(shown[d], h), rest \o (queue[d] \o unsent))
  <2> DEFINE q == queue[d] \o unsent
  <2>1. q \in Seq(Frames) /\ <<>> \in Seq(Frames)
    BY <1>0
  <2> HIDE DEF q
  <2>2. wire[d] \o q = <<h>> \o (rest \o q) /\ rest \o q \in Seq(Frames)
    <3>1. <<h>> \o (rest \o q) = (<<h>> \o rest) \o q /\ rest \o q \in Seq(Frames)
      BY <1>2, <2>1
    <3> QED BY <1>2, <3>1
  <2>3. After(shown[d], <<h>>) = DisplayApply(shown[d], h)
    <3>1. After(shown[d], Append(<<>>, h)) = DisplayApply(After(shown[d], <<>>), h)
      BY <1>2, <2>1, AfterAppend
    <3>2. After(shown[d], <<>>) = shown[d]
      BY AfterNothing
    <3> QED BY <1>2, <3>1, <3>2
  <2> DEFINE r == rest \o q
             o == <<h>>
  <2>4. r \in Seq(Frames) /\ o \in Seq(Frames)
    BY <1>2, <2>2
  <2> HIDE DEF r, o
  <2>5. After(shown[d], o \o r) = After(After(shown[d], o), r)
    BY <2>4, AfterBoth
  <2> QED BY <2>2, <2>3, <2>5 DEF q, r, o
<1>7. ASSUME NEW e \in Displays PROVE Held(e)' /\ Reached(e)'
  <2>1. CASE e # d
    BY <1>1, <1>3, <2>1, FeedOther
  <2>2. CASE e = d
    BY <1>1, <1>3, <1>6, <2>2 DEF FInv, Current, Held, Reached
  <2> QED BY <2>1, <2>2
<1> QED BY <1>5, <1>7 DEF FInv, Current

LEMMA FInvDisconnect ==
  ASSUME FInv, NEW d \in Displays, Disconnect(d)
  PROVE  FInv'
<1>1. link' = [link EXCEPT ![d] = "down"] /\ queue' = [queue EXCEPT ![d] = <<>>]
      /\ lagged' = [lagged EXCEPT ![d] = FALSE] /\ wire' = [wire EXCEPT ![d] = <<>>]
      /\ UNCHANGED <<snapshot, unsent, published, links, shown>>
  BY DEF Disconnect
<1>2. \A e \in Displays :
        /\ link'[e] = IF e = d THEN "down" ELSE link[e]
        /\ queue'[e] = IF e = d THEN <<>> ELSE queue[e]
        /\ lagged'[e] = IF e = d THEN FALSE ELSE lagged[e]
        /\ wire'[e] = IF e = d THEN <<>> ELSE wire[e]
  BY <1>1 DEF FInv, FeedType
<1>3. FeedType'
  <2>1. <<>> \in Seq(Messages) /\ <<>> \in Seq(Frames) /\ Len(<<>>) = 0
    OBVIOUS
  <2>2. /\ link' \in [Displays -> {"down", "handshake", "up"}]
        /\ queue' \in [Displays -> Seq(Messages)] /\ lagged' \in [Displays -> BOOLEAN]
        /\ wire' \in [Displays -> Seq(Frames)]
    BY <1>1, <2>1 DEF FInv, FeedType
  <2>3. \A e \in Displays : Len(queue'[e]) <= Capacity /\ Len(wire'[e]) <= WireRoom
    <3>1. 0 <= Capacity /\ 0 <= WireRoom
      BY NowPlayingAssumption
    <3> QED BY <1>2, <2>1, <3>1 DEF FInv, FeedType
  <2>4. \A e \in Displays : /\ link'[e] # "up" => wire'[e] = <<>>
                            /\ link'[e] = "down" => queue'[e] = <<>>
    BY <1>2 DEF FInv, FeedType
  <2> QED BY <1>1, <2>2, <2>3, <2>4 DEF FInv, FeedType
<1>4. ASSUME NEW e \in Displays PROVE Held(e)' /\ Reached(e)'
  <2>1. CASE e # d
    BY <1>1, <1>2, <2>1, FeedOther
  <2>2. CASE e = d
    <3>1. queue[d] \in Seq(Frames) /\ unsent \in Seq(Frames) /\ snapshot \in States
      BY QueueTypes DEF FInv
    <3>2. Same(After(snapshot, unsent), snapshot)
      BY <3>1, SuffixKeeps DEF FInv, Current, Held
    <3>3. <<>> \o unsent = unsent
      BY <3>1
    <3>4. queue'[d] \o unsent' = unsent /\ snapshot' = snapshot /\ link'[d] = "down"
      BY <1>1, <1>2, <3>3
    <3>5. Held(d)'
      BY <3>2, <3>4 DEF Held
    <3>6. Reached(d)'
      BY <3>4 DEF Reached
    <3> QED BY <2>2, <3>5, <3>6
  <2> QED BY <2>1, <2>2
<1> QED BY <1>3, <1>4 DEF FInv, Current

LEMMA FInvStep ==
  ASSUME FInv, [FeedNext]_feed
  PROVE  FInv'
<1>1. CASE UNCHANGED feed
  <2>1. UNCHANGED <<snapshot, unsent, published, link, links, queue, lagged, wire, shown>>
    BY <1>1 DEF feed
  <2> QED BY <2>1 DEF FInv, FeedType, Current, Held, Reached
<1>2. CASE FeedNext
  BY <1>2, FInvPublish, FInvBroadcast, FInvSubscribe, FInvSnapshot, FInvForward, FInvRead,
     FInvDisconnect DEF FeedNext, Serve
<1> QED BY <1>1, <1>2

(* What is to come, as Eventually reads it. *)
LEMMA EventuallyIsAfter ==
  ASSUME NEW d
  PROVE  Eventually(d) = After(shown[d], Coming(d))
BY DEF Eventually, After, Runs

LEMMA NothingLostNow ==
  ASSUME FInv PROVE NothingIsLost
<1>1. SUFFICES ASSUME NEW d \in Displays, link[d] # "down"
               PROVE  [Eventually(d) EXCEPT !.volume = Nothing]
                        = [snapshot EXCEPT !.volume = Nothing]
  BY DEF NothingIsLost
<1>2. /\ wire[d] \in Seq(Frames) /\ queue[d] \in Seq(Frames)
      /\ unsent \in Seq(Frames) /\ queue[d] \o unsent \in Seq(Frames)
      /\ Snap(snapshot) \in Frames /\ snapshot \in States
      /\ shown[d] \in States
  BY QueueTypes DEF FInv
<1> DEFINE late == IF link[d] = "handshake" \/ lagged[d] THEN <<Snap(snapshot)>> ELSE <<>>
           rest == queue[d] \o unsent
<1>3. late \in Seq(Frames)
  BY <1>2
<1>4. Coming(d) = (wire[d] \o late) \o rest /\ wire[d] \o late \in Seq(Frames)
  <2>1. Coming(d) = ((wire[d] \o late) \o queue[d]) \o unsent
    BY DEF Coming
  <2> HIDE DEF late
  <2> DEFINE w == wire[d]
             q == queue[d]
             u == unsent
  <2>2. w \in Seq(Frames) /\ q \in Seq(Frames) /\ u \in Seq(Frames)
    BY <1>2
  <2> HIDE DEF w, q, u
  <2>3. ((w \o late) \o q) \o u = (w \o late) \o (q \o u) /\ w \o late \in Seq(Frames)
    BY <1>3, <2>2
  <2> QED BY <2>1, <2>3 DEF w, q, u
<1>5. Same(After(shown[d], (wire[d] \o late) \o rest), snapshot)
  <2>1. CASE link[d] = "handshake" \/ lagged[d]
    <3>1. wire[d] \o late = Append(wire[d], Snap(snapshot))
      BY <1>2, <2>1, JoinsOfFrames
    <3> QED BY <3>1, SnapshotReaches
  <2>2. CASE ~ (link[d] = "handshake" \/ lagged[d])
    <3>1. link[d] = "up" /\ ~ lagged[d]
      BY <1>1, <2>2 DEF FInv, FeedType
    <3>2. wire[d] \o late = wire[d]
      BY <1>2, <2>2, JoinsOfFrames
    <3> QED BY <3>1, <3>2 DEF FInv, Current, Reached
  <2> QED BY <2>1, <2>2
<1>6. After(shown[d], (wire[d] \o late) \o rest) \in States
  <2> HIDE DEF late, rest
  <2>1. rest \in Seq(Frames)
    BY <1>2 DEF rest
  <2>2. (wire[d] \o late) \o rest \in Seq(Frames)
    BY <1>4, <2>1, JoinsOfFrames
  <2> QED BY <1>2, <2>2, AfterType
<1>7. Eventually(d) = After(shown[d], (wire[d] \o late) \o rest)
  BY <1>4, EventuallyIsAfter
<1> HIDE DEF late, rest
<1> QED BY <1>2, <1>5, <1>6, <1>7, FieldsOfStates

\* The invariant of the feed holds of every behaviour, for any number of
\* displays and any capacity of the channel and of the wire.
THEOREM FeedInvariant == FeedSpec => []FInv
BY FInvInit, FInvStep, PTL DEF FeedSpec

\* A connected display that reads all that is on its way (the wire, the snapshot
\* it is still owed, the channel, the message being broadcast) comes to the
\* receiver's snapshot, though the channel overruns, the display subscribes
\* before it reads the snapshot, and the snapshot runs ahead of the channel
\* (the receiver's tui.rs, handle_client and its Lagged arm).
THEOREM NothingLost == FeedSpec => []NothingIsLost
<1>1. FInv => NothingIsLost
  BY NothingLostNow
<1> QED BY <1>1, FeedInvariant, PTL

\* The types and the bounds of the feed: neither the channel of a display nor its
\* wire holds more than it has room for.
THEOREM FeedTypeCorrect == FeedSpec => []FeedTypeOK
<1>1. ASSUME FInv PROVE FeedTypeOK
  <2>1. Len(unsent) <= 1 /\ \A i \in DOMAIN unsent : unsent[i] \in Messages
    <3>1. CASE unsent = <<>>
      BY <3>1
    <3>2. CASE unsent # <<>>
      <4>1. PICK m \in Messages : unsent = <<m>>
        BY <1>1, <3>2 DEF FInv, FeedType
      <4>2. Len(<<m>>) = 1 /\ DOMAIN <<m>> = {1} /\ <<m>>[1] = m
        OBVIOUS
      <4> QED BY <4>1, <4>2
    <3> QED BY <3>1, <3>2
  <2> QED BY <1>1, <2>1 DEF FInv, FeedType, FeedTypeOK
<1> QED BY <1>1, FeedInvariant, PTL
==============================================================================
