---------------------------- MODULE StartupProofs ----------------------------
(***************************************************************************)
(* For any number of processes, starts and options: an identity that was   *)
(* served stays the file's, first runs that meet make no more identities   *)
(* than there are processes, and a receiver that runs alone is reached.    *)
(* How options are parsed plays no part; Parse and Resolve stay closed.    *)
(***************************************************************************)
EXTENDS Startup, FiniteSetTheorems, TLAPS

Places == {"off", "load", "open", "write", "devices", "unlink", "bind", "listen",
           "run", "serving", "clean"}
Early == {"off", "load", "open", "write"} \* not yet past the identity

Typed ==
  /\ pc \in [Procs -> Places]
  /\ id \in [Procs -> Nat]
  /\ bound \in [Procs -> BOOLEAN]
  /\ alone \in [Procs -> BOOLEAN]
  /\ file \in Nat \cup {-1}
  /\ made \in Nat
  /\ raced \in BOOLEAN

\* A process about to store an identity has one.
HasMade == \A p \in Procs : pc[p] \in {"open", "write"} => id[p] > 0

\* One first run at a time; while it lasts the file is what it left there.
OneFirstRun == \A p, q \in FirstRuns : p = q
FileOfFirstRun ==
  \A p \in Procs : /\ pc[p] = "open" => file = -1
                   /\ pc[p] = "write" => file = 0

\* Without a stored identity nobody is past loading it; with one everybody
\* who is uses that one.
NoIdentity == file <= 0 => served = {} /\ \A p \in Procs : pc[p] \in Early
TheIdentity ==
  file > 0 => /\ served \subseteq {file}
              /\ \A p \in Procs : pc[p] \notin Early => id[p] = file

FileInv ==
  /\ Typed /\ HasMade
  /\ ~ raced => OneFirstRun /\ FileOfFirstRun /\ NoIdentity /\ TheIdentity

LEMMA FileInvInit == Init => FileInv
<1> SUFFICES ASSUME Init PROVE FileInv
  OBVIOUS
<1>1. \A p \in Procs : pc[p] = "off"
  BY DEF Init
<1>2. Typed
  BY DEF Init, Typed, Places
<1>3. HasMade /\ OneFirstRun /\ FileOfFirstRun
  BY <1>1 DEF HasMade, OneFirstRun, FileOfFirstRun, FirstRuns
<1>4. NoIdentity /\ TheIdentity
  BY <1>1 DEF Init, NoIdentity, TheIdentity, Early
<1> QED BY <1>2, <1>3, <1>4 DEF FileInv

\* An exit, at whatever place and whatever the socket is then.
LEMMA FileInvExit ==
  ASSUME FileInv, NEW p \in Procs, NEW c, Exit(p, c)
  PROVE  FileInv'
<1>1. Typed'
  BY DEF FileInv, Typed, Exit, Goto, history, Places
<1>2. HasMade'
  BY DEF FileInv, Typed, HasMade, Exit, Goto, history
<1>3. raced' = raced /\ file' = file /\ served' = served
  BY DEF Exit, history
<1>4. \A q \in Procs : pc'[q] = (IF q = p THEN "off" ELSE pc[q])
                       /\ id'[q] = (IF q = p THEN 0 ELSE id[q])
  BY DEF FileInv, Typed, Exit, Goto
<1>5. ~ raced' => OneFirstRun'
  BY <1>3, <1>4 DEF FileInv, OneFirstRun, FirstRuns
<1>6. ~ raced' => FileOfFirstRun'
  BY <1>3, <1>4 DEF FileInv, FileOfFirstRun
<1>7. ~ raced' => NoIdentity'
  BY <1>3, <1>4 DEF FileInv, NoIdentity, Early
<1>8. ~ raced' => TheIdentity'
  BY <1>3, <1>4 DEF FileInv, TheIdentity, Early
<1> QED BY <1>1, <1>2, <1>5, <1>6, <1>7, <1>8 DEF FileInv

\* A step between two places that are both before, or both after, the
\* identity, and that touches neither file nor identities.
LEMMA FileInvMove ==
  ASSUME FileInv, NEW p \in Procs, NEW to \in Places \ {"open", "write"},
         Goto(p, to), to \in Early <=> pc[p] \in Early,
         pc[p] \notin {"open", "write"},
         UNCHANGED <<id, file, made, raced>>,
         served' = served \/ (pc[p] \notin Early /\ served' = served \union {id[p]}),
         bound' \in [Procs -> BOOLEAN], alone' \in [Procs -> BOOLEAN]
  PROVE  FileInv'
<1>1. Typed'
  BY DEF FileInv, Typed, Goto
<1>2. \A q \in Procs : pc'[q] = (IF q = p THEN to ELSE pc[q])
  BY DEF FileInv, Typed, Goto
<1>3. HasMade'
  BY <1>2 DEF FileInv, HasMade
<1>4. ~ raced' => OneFirstRun'
  BY <1>2 DEF FileInv, OneFirstRun, FirstRuns
<1>5. ~ raced' => FileOfFirstRun'
  BY <1>2 DEF FileInv, FileOfFirstRun
<1>6. ~ raced' => NoIdentity'
  BY <1>2 DEF FileInv, NoIdentity
<1>7. ~ raced' => TheIdentity'
  <2> SUFFICES ASSUME ~ raced, file > 0 PROVE TheIdentity'
    BY DEF TheIdentity, FileInv, Typed
  <2>1. served' \subseteq {file}
    BY DEF FileInv, TheIdentity
  <2>2. \A q \in Procs : pc'[q] \notin Early => id[q] = file
    BY <1>2 DEF FileInv, TheIdentity
  <2> QED BY <2>1, <2>2 DEF TheIdentity
<1> QED BY <1>1, <1>3, <1>4, <1>5, <1>6, <1>7 DEF FileInv

\* Reading an identity, or making one.
LEMMA FileInvLoad ==
  ASSUME FileInv, NEW p \in Procs, Load(p)
  PROVE  FileInv'
<1>a. pc' \in [Procs -> Places]
  BY DEF FileInv, Typed, Load, Goto, Places
<1>b. raced' \in BOOLEAN
  BY Zenon DEF FileInv, Typed, Load
<1>c. made' \in Nat
  BY DEF FileInv, Typed, Load
<1>d. id' \in [Procs -> Nat]
  BY DEF FileInv, Typed, Load
<1>1. Typed'
  BY <1>a, <1>b, <1>c, <1>d DEF FileInv, Typed, Load
<1>2. CASE file > 0 /\ Goto(p, "devices") /\ id' = [id EXCEPT ![p] = file]
           /\ UNCHANGED <<made, raced>>
  <2>1. \A q \in Procs : /\ pc'[q] = (IF q = p THEN "devices" ELSE pc[q])
                         /\ id'[q] = (IF q = p THEN file ELSE id[q])
    BY <1>2 DEF FileInv, Typed, Goto
  <2>2. file' = file /\ served' = served /\ raced' = raced
    BY <1>2 DEF Load
  <2>3. HasMade'
    BY <2>1 DEF FileInv, HasMade
  <2>4. ~ raced' => OneFirstRun' /\ FileOfFirstRun'
    BY <2>1, <2>2 DEF FileInv, OneFirstRun, FileOfFirstRun, FirstRuns
  <2>5. ~ raced' => NoIdentity'
    BY <1>2, <2>2 DEF NoIdentity, FileInv, Typed
  <2>6. ~ raced' => TheIdentity'
    BY <2>1, <2>2 DEF FileInv, TheIdentity
  <2> QED BY <1>1, <2>3, <2>4, <2>5, <2>6 DEF FileInv
<1>3. CASE file = -1 /\ Goto(p, "open") /\ id' = [id EXCEPT ![p] = made + 1]
           /\ raced' = (raced \/ FirstRuns # {})
  <2>1. \A q \in Procs : /\ pc'[q] = (IF q = p THEN "open" ELSE pc[q])
                         /\ id'[q] = (IF q = p THEN made + 1 ELSE id[q])
    BY <1>3 DEF FileInv, Typed, Goto
  <2>2. file' = file /\ served' = served
    BY DEF Load
  <2>3. HasMade'
    BY <2>1 DEF FileInv, HasMade, Typed
  <2> SUFFICES ASSUME ~ raced'
               PROVE  OneFirstRun' /\ FileOfFirstRun' /\ NoIdentity' /\ TheIdentity'
    BY <1>1, <2>3 DEF FileInv
  <2>4. ~ raced /\ FirstRuns = {}
    BY <1>3 DEF FileInv, Typed
  <2>5. \A q \in Procs : pc[q] \notin {"open", "write"}
    BY <2>4 DEF FirstRuns
  <2>6. OneFirstRun'
    BY <2>1, <2>5 DEF OneFirstRun, FirstRuns
  <2>7. FileOfFirstRun'
    BY <1>3, <2>1, <2>2, <2>5 DEF FileOfFirstRun
  <2>8. NoIdentity'
    BY <1>3, <2>1, <2>2, <2>4 DEF FileInv, NoIdentity, Early
  <2>9. TheIdentity'
    BY <1>3, <2>2 DEF TheIdentity
  <2> QED BY <2>6, <2>7, <2>8, <2>9
<1> QED BY <1>2, <1>3 DEF Load

\* Storing it: truncate, then write.
LEMMA FileInvStore ==
  ASSUME FileInv, NEW p \in Procs, OpenFile(p) \/ WriteFile(p)
  PROVE  FileInv'
<1>1. raced' = raced /\ served' = served /\ id' = id
  BY DEF OpenFile, WriteFile, history
<1>2. CASE OpenFile(p)
  <2>1. Typed'
    BY <1>2 DEF FileInv, Typed, OpenFile, Goto, Places, history
  <2>2. \A q \in Procs : pc'[q] = (IF q = p THEN "write" ELSE pc[q])
    BY <1>2 DEF FileInv, Typed, OpenFile, Goto
  <2>3. pc[p] = "open" /\ file' = 0
    BY <1>2 DEF OpenFile
  <2>4. HasMade'
    BY <1>1, <2>2, <2>3 DEF FileInv, HasMade
  <2> SUFFICES ASSUME ~ raced
               PROVE  OneFirstRun' /\ FileOfFirstRun' /\ NoIdentity' /\ TheIdentity'
    BY <1>1, <2>1, <2>4 DEF FileInv
  <2>5. file = -1 /\ \A q \in Procs : pc[q] \in {"open", "write"} => q = p
    BY <2>3 DEF FileInv, FileOfFirstRun, OneFirstRun, FirstRuns
  <2>6. OneFirstRun' /\ FileOfFirstRun'
    BY <2>2, <2>3, <2>5 DEF OneFirstRun, FileOfFirstRun, FirstRuns
  <2>7. NoIdentity' /\ TheIdentity'
    BY <1>1, <2>2, <2>3, <2>5 DEF FileInv, NoIdentity, TheIdentity, Early
  <2> QED BY <2>6, <2>7
<1>3. CASE WriteFile(p)
  <2>1. Typed'
    BY <1>3 DEF FileInv, Typed, WriteFile, Goto, Places, history
  <2>2. \A q \in Procs : pc'[q] = (IF q = p THEN "devices" ELSE pc[q])
    BY <1>3 DEF FileInv, Typed, WriteFile, Goto
  <2>3. pc[p] = "write" /\ file' = id[p] /\ id[p] > 0 /\ id[p] \in Nat
    BY <1>3 DEF WriteFile, FileInv, HasMade, Typed
  <2>4. HasMade'
    BY <1>1, <2>2 DEF FileInv, HasMade
  <2> SUFFICES ASSUME ~ raced
               PROVE  OneFirstRun' /\ FileOfFirstRun' /\ NoIdentity' /\ TheIdentity'
    BY <1>1, <2>1, <2>4 DEF FileInv
  <2>5. file = 0 /\ \A q \in Procs : pc[q] \in {"open", "write"} => q = p
    BY <2>3 DEF FileInv, FileOfFirstRun, OneFirstRun, FirstRuns
  <2>6. OneFirstRun' /\ FileOfFirstRun'
    BY <2>2, <2>5 DEF OneFirstRun, FileOfFirstRun, FirstRuns
  <2>7. served = {} /\ \A q \in Procs : pc[q] \in Early
    BY <2>5 DEF FileInv, NoIdentity
  <2>8. NoIdentity' /\ TheIdentity'
    BY <1>1, <2>2, <2>3, <2>7 DEF NoIdentity, TheIdentity, Early
  <2> QED BY <2>6, <2>8
<1> QED BY <1>2, <1>3

\* Every other step leaves the file, the identities and who is early alone.
LEMMA FileInvElse ==
  ASSUME FileInv, NEW p \in Procs,
         \/ Devices(p) \/ Unlink(p) \/ Bind(p) \/ Listen(p)
         \/ Run(p) \/ Shutdown(p)
  PROVE  FileInv'
<1>1. CASE Devices(p)
  BY <1>1, FileInvMove DEF Devices, history, Places, Early, FileInv, Typed
<1>2. CASE Unlink(p)
  BY <1>2, FileInvMove DEF Unlink, history, Places, Early, FileInv, Typed
<1>3. CASE Bind(p)
  <2>1. bound' \in [Procs -> BOOLEAN]
    BY <1>3 DEF Bind, FileInv, Typed
  <2> QED BY <1>3, <2>1, FileInvMove DEF Bind, history, Places, Early, FileInv, Typed
<1>4. CASE Listen(p)
  BY <1>4, FileInvMove DEF Listen, history, Places, Early, FileInv, Typed
<1>5. CASE Run(p)
  <2>1. PICK to \in {"serving", "clean"} : Goto(p, to)
    BY <1>5 DEF Run
  <2>2. served' = served \/ served' = served \union {id[p]}
    BY <1>5 DEF Run
  <2>3. UNCHANGED <<id, file, made, raced, bound, alone>> /\ pc[p] = "run"
    BY <1>5 DEF Run
  <2> QED BY <2>1, <2>2, <2>3, FileInvMove DEF Places, Early, FileInv, Typed
<1>6. CASE Shutdown(p)
  BY <1>6, FileInvMove DEF Shutdown, history, Places, Early, FileInv, Typed
<1> QED BY <1>1, <1>2, <1>3, <1>4, <1>5, <1>6

LEMMA FileInvStart ==
  ASSUME FileInv, NEW p \in Procs, Start(p)
  PROVE  FileInv'
<1>1. UNCHANGED <<id, bound, file, made, served, raced>> /\ pc[p] = "off"
  BY DEF Start
<1>2. CASE UNCHANGED <<pc, alone>>
  BY <1>1, <1>2 DEF FileInv, Typed, HasMade, OneFirstRun, FileOfFirstRun, NoIdentity,
                    TheIdentity, FirstRuns
<1>3. CASE Goto(p, "load") /\ alone' \in [Procs -> BOOLEAN]
  BY <1>1, <1>3, FileInvMove DEF Places, Early, FileInv, Typed
<1>4. UNCHANGED <<pc, alone>> \/ (Goto(p, "load") /\ alone' \in [Procs -> BOOLEAN])
  <2>1. PICK s \in Settings :
          \/ UNCHANGED <<pc, alone, options>>
          \/ /\ Goto(p, "load")
             /\ alone' = [q \in Procs |-> q = p /\ \A r \in Procs : pc[r] = "off"]
    BY DEF Start
  <2>2. [q \in Procs |-> q = p /\ \A r \in Procs : pc[r] = "off"] \in [Procs -> BOOLEAN]
    OBVIOUS
  <2>3. CASE UNCHANGED <<pc, alone, options>>
    BY <2>3
  <2>4. CASE /\ Goto(p, "load")
             /\ alone' = [q \in Procs |-> q = p /\ \A r \in Procs : pc[r] = "off"]
    BY <2>2, <2>4
  <2> QED BY <2>1, <2>3, <2>4
<1> QED BY <1>2, <1>3, <1>4

\* Clean is an exit that keeps no socket file behind.
LEMMA FileInvClean ==
  ASSUME FileInv, NEW p \in Procs, Clean(p)
  PROVE  FileInv'
<1>1. Typed'
  BY DEF FileInv, Typed, Clean, Goto, history, Places
<1>2. raced' = raced /\ file' = file /\ served' = served
  BY DEF Clean, history
<1>3. \A q \in Procs : pc'[q] = (IF q = p THEN "off" ELSE pc[q])
                       /\ id'[q] = (IF q = p THEN 0 ELSE id[q])
  BY DEF FileInv, Typed, Clean, Goto
<1>4. HasMade'
  BY <1>3 DEF FileInv, HasMade
<1>5. ~ raced' => OneFirstRun' /\ FileOfFirstRun'
  BY <1>2, <1>3 DEF FileInv, OneFirstRun, FileOfFirstRun, FirstRuns
<1>6. ~ raced' => NoIdentity' /\ TheIdentity'
  BY <1>2, <1>3 DEF FileInv, NoIdentity, TheIdentity, Early
<1> QED BY <1>1, <1>4, <1>5, <1>6 DEF FileInv

LEMMA FileInvStep == FileInv /\ [Next]_vars => FileInv'
<1> SUFFICES ASSUME FileInv, [Next]_vars PROVE FileInv'
  OBVIOUS
<1>1. CASE UNCHANGED vars
  BY <1>1 DEF vars, FileInv, Typed, HasMade, OneFirstRun, FileOfFirstRun, NoIdentity,
              TheIdentity, FirstRuns
<1>2. CASE Next
  <2>1. PICK p \in Procs : Main(p)
    BY <1>2 DEF Next
  <2>2. CASE \E c \in {Signal, Config} : Exit(p, c)
    BY <2>2, FileInvExit
  <2>3. CASE Load(p)
    BY <2>3, FileInvLoad
  <2>4. CASE OpenFile(p) \/ WriteFile(p)
    BY <2>4, FileInvStore
  <2>5. CASE Start(p)
    BY <2>5, FileInvStart
  <2>6. CASE Clean(p)
    BY <2>6, FileInvClean
  <2>7. CASE \/ Devices(p) \/ Unlink(p) \/ Bind(p) \/ Listen(p)
             \/ Run(p) \/ Shutdown(p)
    BY <2>7, FileInvElse
  <2> QED
    BY <2>1, <2>2, <2>3, <2>4, <2>5, <2>6, <2>7
    DEF Main, Crash, LoadMalformed, FileFails, NoDevice, BindFails, ListenFails
<1> QED BY <1>1, <1>2

-----------------------------------------------------------------------------
\* First runs that meet.

\* Who has an identity, and the identities there are: what senders saw, what
\* processes have, and the file's.
Bearers == {p \in Procs : pc[p] \notin {"off", "load"}}
Known == served \union {id[p] : p \in Bearers} \union (IF file > 0 THEN {file} ELSE {})

\* Until a first run has opened the file nobody is further; from then on no
\* identity is added to those there are.
Unopened == served = {} /\ \A p \in Procs : pc[p] \in {"off", "load", "open"}
FewInv ==
  /\ file = -1 => Unopened
  /\ file # -1 => IsFiniteSet(Known) /\ Cardinality(Known) <= Cardinality(Procs)

LEMMA FewInvInit == Init => FewInv
BY DEF Init, FewInv, Unopened

\* What some processes have is no more than there are processes.
LEMMA NoMoreThanProcs ==
  ASSUME NEW P \in SUBSET Procs, NEW has
  PROVE  IsFiniteSet({has[p] : p \in P}) /\ Cardinality({has[p] : p \in P}) <= Cardinality(Procs)
<1> DEFINE T == {has[p] : p \in P}
           f == [p \in P |-> has[p]]
<1>1. IsFiniteSet(P) /\ Cardinality(P) <= Cardinality(Procs)
  BY StartupAssumption, FS_Subset
<1>2. f \in Surjection(P, T)
  BY DEF Surjection
<1> HIDE DEF T, f
<1>3. IsFiniteSet(T) /\ Cardinality(T) <= Cardinality(P)
  BY <1>1, <1>2, FS_Surjection
<1>4. Cardinality(T) \in Nat /\ Cardinality(P) \in Nat /\ Cardinality(Procs) \in Nat
  BY <1>1, <1>3, StartupAssumption, FS_CardinalityType
<1>5. Cardinality(T) <= Cardinality(Procs)
  BY <1>1, <1>3, <1>4
<1> QED BY <1>3, <1>5 DEF T

\* What a step of a process does to its place, its identity and the file.
LEMMA OneProcess ==
  ASSUME FileInv, NEW p \in Procs, Main(p)
  PROVE  /\ \A q \in Procs \ {p} : pc'[q] = pc[q] /\ id'[q] = id[q]
         /\ \/ /\ pc'[p] \in {"off", "load"} /\ file' = file /\ served' = served
            \/ /\ pc[p] = "load" /\ pc'[p] = "devices" /\ file > 0 /\ id'[p] = file
               /\ file' = file /\ served' = served
            \/ /\ pc[p] = "load" /\ pc'[p] = "open" /\ file = -1
               /\ file' = file /\ served' = served
            \/ /\ pc[p] = "open" /\ pc'[p] = "write" /\ id'[p] = id[p]
               /\ file' = 0 /\ served' = served
            \/ /\ pc[p] = "write" /\ id'[p] = id[p] /\ file' = id[p] /\ file' > 0 /\ served' = served
            \/ /\ pc[p] \notin Early /\ id'[p] = id[p] /\ file' = file
               /\ served' \subseteq served \union {id[p]}
<1> USE DEF FileInv, Typed
<1>1. CASE \/ Crash(p) \/ LoadMalformed(p) \/ FileFails(p) \/ NoDevice(p) \/ BindFails(p)
           \/ ListenFails(p)
  <2>1. PICK c : Exit(p, c)
    BY <1>1 DEF Crash, LoadMalformed, FileFails, NoDevice, BindFails, ListenFails
  <2>2. /\ pc' = [pc EXCEPT ![p] = "off"] /\ id' = [id EXCEPT ![p] = 0]
        /\ file' = file /\ served' = served
    BY <2>1 DEF Exit, Goto, history
  <2> QED BY <2>2
<1>2. CASE Clean(p)
  BY <1>2 DEF Clean, Goto, history
<1>3. CASE Start(p)
  <2>1. pc[p] = "off" /\ UNCHANGED <<id, file, served>>
    BY <1>3 DEF Start
  <2>2. pc' = pc \/ pc' = [pc EXCEPT ![p] = "load"]
    BY <1>3 DEF Start, Goto
  <2> QED BY <2>1, <2>2
<1>4. CASE Load(p)
  BY <1>4 DEF Load, Goto
<1>5. CASE OpenFile(p)
  BY <1>5 DEF OpenFile, Goto, history
<1>6. CASE WriteFile(p)
  BY <1>6 DEF WriteFile, Goto, history, HasMade
<1>7. CASE Devices(p) \/ Unlink(p) \/ Bind(p) \/ Listen(p) \/ Run(p) \/ Shutdown(p)
  <2>1. UNCHANGED <<id, file>> /\ pc[p] \notin Early
    BY <1>7 DEF Devices, Unlink, Bind, Listen, Run, Shutdown, history, Early
  <2>2. \E to \in Places : pc' = [pc EXCEPT ![p] = to]
    BY <1>7 DEF Devices, Unlink, Bind, Listen, Run, Shutdown, Goto, Places
  <2>3. served' = served \/ served' = served \union {id[p]}
    BY <1>7 DEF Devices, Unlink, Bind, Listen, Run, Shutdown, history
  <2> QED BY <2>1, <2>2, <2>3
<1> QED BY <1>1, <1>2, <1>3, <1>4, <1>5, <1>6, <1>7 DEF Main

LEMMA FewInvStep == FileInv /\ FewInv /\ [Next]_vars => FewInv'
<1> SUFFICES ASSUME FileInv, FewInv, [Next]_vars PROVE FewInv'
  OBVIOUS
<1>1. CASE UNCHANGED vars
  <2>1. UNCHANGED <<pc, id, file, served>>
    BY <1>1 DEF vars
  <2>2. Known' = Known
    BY <2>1 DEF Known, Bearers
  <2> QED BY <2>1, <2>2 DEF FewInv, Unopened
<1>2. CASE Next
  <2>0. PICK p \in Procs : Main(p)
    BY <1>2 DEF Next
  <2>1. /\ \A q \in Procs \ {p} : pc'[q] = pc[q] /\ id'[q] = id[q]
        /\ \/ /\ pc'[p] \in {"off", "load"} /\ file' = file /\ served' = served
           \/ /\ pc[p] = "load" /\ pc'[p] = "devices" /\ file > 0 /\ id'[p] = file
              /\ file' = file /\ served' = served
           \/ /\ pc[p] = "load" /\ pc'[p] = "open" /\ file = -1
              /\ file' = file /\ served' = served
           \/ /\ pc[p] = "open" /\ pc'[p] = "write" /\ id'[p] = id[p]
              /\ file' = 0 /\ served' = served
           \/ /\ pc[p] = "write" /\ id'[p] = id[p] /\ file' = id[p] /\ file' > 0 /\ served' = served
           \/ /\ pc[p] \notin Early /\ id'[p] = id[p] /\ file' = file
              /\ served' \subseteq served \union {id[p]}
    BY <2>0, OneProcess
  <2>2. file \in Nat \union {-1}
    BY DEF FileInv, Typed
  <2>3. CASE file = -1 /\ file' = -1
    <3>1. Unopened
      BY <2>3 DEF FewInv
    <3>2. served' = {} /\ pc'[p] \in {"off", "load", "open"}
      BY <2>1, <2>3, <3>1 DEF Unopened, Early
    <3>3. Unopened'
      BY <2>1, <3>1, <3>2 DEF Unopened
    <3> QED BY <2>3, <3>3 DEF FewInv
  <2>4. CASE file = -1 /\ file' # -1
    <3>1. Unopened
      BY <2>4 DEF FewInv
    <3>2. file' = 0 /\ served' = {}
      BY <2>1, <2>4, <3>1 DEF Unopened, Early
    <3>3. Known' = {id'[q] : q \in Bearers'}
      BY <3>2 DEF Known
    <3>4. /\ IsFiniteSet({id'[q] : q \in Bearers'})
          /\ Cardinality({id'[q] : q \in Bearers'}) <= Cardinality(Procs)
      <4>1. Bearers' \in SUBSET Procs
        BY DEF Bearers
      <4> QED BY <4>1, NoMoreThanProcs
    <3> QED BY <3>2, <3>3, <3>4 DEF FewInv
  <2>5. CASE file # -1
    <3>1. IsFiniteSet(Known) /\ Cardinality(Known) <= Cardinality(Procs)
      BY <2>5 DEF FewInv
    <3>2. Known' \subseteq Known
      <4>1. pc[p] \notin {"off", "load"} => id[p] \in Known
        BY DEF Known, Bearers
      <4>2. served' \subseteq Known
        BY <2>1, <4>1 DEF Known, Early
      <4>3. file' > 0 => file' \in Known
        BY <2>1, <4>1 DEF Known
      <4>4. ASSUME NEW q \in Procs, pc'[q] \notin {"off", "load"} PROVE id'[q] \in Known
        <5>1. CASE q = p
          BY <2>1, <2>5, <4>1, <4>4, <5>1 DEF Known, Early
        <5>2. CASE q # p
          BY <2>1, <4>4, <5>2 DEF Known, Bearers
        <5> QED BY <5>1, <5>2
      <4> QED BY <4>2, <4>3, <4>4 DEF Known, Bearers
    <3>3. file' # -1
      BY <2>1, <2>2, <2>5
    <3>4. IsFiniteSet(Known') /\ Cardinality(Known') <= Cardinality(Known)
      BY <3>1, <3>2, FS_Subset
    <3>5. Cardinality(Known') \in Nat /\ Cardinality(Known) \in Nat /\ Cardinality(Procs) \in Nat
      BY <3>1, <3>4, StartupAssumption, FS_CardinalityType
    <3>6. Cardinality(Known') <= Cardinality(Procs)
      BY <3>1, <3>4, <3>5
    <3> QED BY <3>3, <3>4, <3>6 DEF FewInv
  <2> QED BY <2>3, <2>4, <2>5
<1> QED BY <1>1, <1>2

\* identity.rs, load_or_create: whatever crashes, fails or is started again at
\* any point, no second identity is served, unless two first runs met; and however
\* many met, no more are served than there are processes at one time.
THEOREM OneIdentity == Spec => []IdentityStable
<1>1. FileInv /\ ~ raced => Cardinality(served) <= 1
  <2> SUFFICES ASSUME FileInv, ~ raced PROVE Cardinality(served) <= 1
    OBVIOUS
  <2>1. file <= 0 \/ file > 0
    BY DEF FileInv, Typed
  <2>2. served = {} \/ served = {file}
    BY <2>1 DEF FileInv, NoIdentity, TheIdentity
  <2>3. Cardinality({}) = 0 /\ Cardinality({file}) = 1
    BY FS_EmptySet, FS_Singleton
  <2> QED BY <2>2, <2>3
<1>2. FewInv => Cardinality(served) <= Cardinality(Procs)
  <2> SUFFICES ASSUME FewInv PROVE Cardinality(served) <= Cardinality(Procs)
    OBVIOUS
  <2>0. Cardinality(Procs) \in Nat
    BY StartupAssumption, FS_CardinalityType
  <2>1. CASE file = -1
    BY <2>0, <2>1, FS_EmptySet DEF FewInv, Unopened
  <2>2. CASE file # -1
    <3>1. served \in SUBSET Known /\ IsFiniteSet(Known) /\ Cardinality(Known) <= Cardinality(Procs)
      BY <2>2 DEF FewInv, Known
    <3>2. IsFiniteSet(served) /\ Cardinality(served) <= Cardinality(Known)
      BY <3>1, FS_Subset
    <3>3. Cardinality(served) \in Nat /\ Cardinality(Known) \in Nat
      BY <3>1, <3>2, FS_CardinalityType
    <3> QED BY <2>0, <3>1, <3>2, <3>3
  <2> QED BY <2>1, <2>2
<1>3. FileInv /\ FewInv => IdentityStable
  BY <1>1, <1>2 DEF IdentityStable
<1> QED BY <1>3, FewInvInit, FewInvStep, FileInvInit, FileInvStep, PTL DEF Spec

-----------------------------------------------------------------------------
\* The socket of a receiver that runs alone.

\* A receiver that met no other one is alone, and has the path from the moment
\* it cleared it.
Alone(p) == \A q \in Procs : q # p => pc[q] = "off"
HasPath(p) ==
  /\ pc[p] = "bind" => socket = Nobody
  /\ pc[p] \in {"listen", "run", "serving"} /\ HasSocket(options[p])
       => bound[p] /\ socket = p

PathInv == Typed /\ \A p \in Procs : alone[p] => Alone(p) /\ HasPath(p)

LEMMA PathInvInit == Init => PathInv
<1> SUFFICES ASSUME Init PROVE PathInv
  OBVIOUS
<1>1. Typed
  BY DEF Init, Typed, Places
<1> QED BY <1>1 DEF Init, PathInv

LEMMA TypedStep == FileInv /\ [Next]_vars => Typed'
BY FileInvStep DEF FileInv

\* A process that is alone is the one that steps.
LEMMA PathInvStep == FileInv /\ PathInv /\ [Next]_vars => PathInv'
<1> SUFFICES ASSUME FileInv, PathInv, [Next]_vars PROVE PathInv'
  OBVIOUS
<1>1. Typed'
  BY TypedStep
<1>2. CASE UNCHANGED vars
  BY <1>1, <1>2 DEF vars, PathInv, Alone, HasPath
<1>3. CASE Next
  <2> SUFFICES ASSUME NEW p \in Procs, alone'[p] PROVE Alone(p)' /\ HasPath(p)'
    BY <1>1 DEF PathInv
  <2>1. PICK q \in Procs : Main(q)
    BY <1>3 DEF Next
  <2>2. CASE Start(q) /\ ~ UNCHANGED pc
    <3>1. /\ Goto(q, "load")
          /\ alone' = [x \in Procs |-> x = q /\ \A r \in Procs : pc[r] = "off"]
      BY <2>2 DEF Start
    <3>2. p = q /\ \A r \in Procs : pc[r] = "off"
      BY <3>1
    <3>3. \A r \in Procs : pc'[r] = IF r = q THEN "load" ELSE pc[r]
      BY <3>1 DEF Goto, PathInv, Typed
    <3> QED BY <3>2, <3>3 DEF Alone, HasPath
  <2>3. CASE Start(q) /\ UNCHANGED pc
    <3>1. UNCHANGED <<alone, options, socket, bound>>
      <4>1. pc[q] = "off"
        BY <2>3 DEF Start
      <4>2. ~ Goto(q, "load")
        BY <2>3, <4>1 DEF Goto, PathInv, Typed
      <4>3. UNCHANGED <<socket, bound>>
        BY <2>3 DEF Start
      <4>4. UNCHANGED <<alone, options>>
        BY <2>3, <4>2 DEF Start
      <4> QED BY <4>3, <4>4
    <3> QED BY <2>3, <3>1 DEF PathInv, Alone, HasPath
  <2>4. CASE ~ Start(q)
    <3>1. alone' = alone /\ pc[q] # "off"
      BY <2>1, <2>4 DEF Main, Crash, Load, LoadMalformed, OpenFile, WriteFile, FileFails,
           Devices, NoDevice, Unlink, Bind, BindFails, Listen, ListenFails, Run, Shutdown,
           Clean, Exit, history
    <3>2. p = q /\ Alone(p) /\ HasPath(p)
      BY <3>1 DEF PathInv, Alone
    <3>3. \E to \in Places : Goto(p, to)
      BY <2>1, <2>4, <3>2 DEF Main, Crash, Load, LoadMalformed, OpenFile, WriteFile,
           FileFails, Devices, NoDevice, Unlink, Bind, BindFails, Listen, ListenFails, Run,
           Shutdown, Clean, Exit, Places
    <3>4. Alone(p)'
      BY <3>2, <3>3 DEF Alone, Goto, PathInv, Typed
    <3>5. PICK to \in Places : Goto(p, to) /\ pc'[p] = to
      BY <3>3 DEF Goto, PathInv, Typed
    <3>6. CASE to \notin {"bind", "listen", "run", "serving"}
      BY <3>4, <3>5, <3>6 DEF HasPath
    <3>7. CASE pc[p] = "unlink" /\ Unlink(p)
      <4>1. pc'[p] = IF HasSocket(options[p]) THEN "bind" ELSE "listen"
        BY <3>7 DEF Unlink, Goto, PathInv, Typed
      <4> QED BY <3>4, <3>7, <4>1 DEF Unlink, HasPath
    <3>8. CASE pc[p] = "bind" /\ Bind(p)
      <4>1. socket = Nobody
        BY <3>2, <3>8 DEF HasPath
      <4>2. socket' = p /\ bound' = [bound EXCEPT ![p] = TRUE]
        BY <3>8, <4>1 DEF Bind
      <4>3. pc'[p] = "listen"
        BY <3>8 DEF Bind, Goto, PathInv, Typed
      <4> QED BY <3>4, <4>2, <4>3 DEF HasPath, PathInv, Typed
    <3>9. CASE (pc[p] = "listen" /\ Listen(p)) \/ (pc[p] = "run" /\ Run(p))
      <4>1. UNCHANGED <<socket, bound, options>>
        BY <3>9 DEF Listen, Run
      <4>2. pc'[p] \in {"run", "serving", "clean"}
        BY <3>9 DEF Listen, Run, Goto, PathInv, Typed
      <4> QED BY <3>2, <3>4, <3>9, <4>1, <4>2 DEF HasPath
    <3>10. \/ to \notin {"bind", "listen", "run", "serving"}
           \/ Unlink(p) \/ Bind(p) \/ Listen(p) \/ Run(p)
      BY <2>1, <2>4, <3>2, <3>5 DEF Main, Crash, Load, LoadMalformed, OpenFile, WriteFile,
           FileFails, Devices, NoDevice, BindFails, ListenFails, Shutdown, Clean, Exit, Goto,
           PathInv, Typed
    <3> QED BY <3>4, <3>6, <3>7, <3>8, <3>9, <3>10 DEF Unlink, Bind, Listen, Run
  <2> QED BY <2>2, <2>3, <2>4
<1> QED BY <1>2, <1>3

\* tui.rs, bind_socket: a receiver that met no other one since it started is
\* reached at the socket's path, whatever a crash before it left there.
THEOREM LoneReceiverIsReached == Spec => []AloneIsReached
<1>1. PathInv => AloneIsReached
  BY DEF PathInv, HasPath, AloneIsReached
<1> QED BY <1>1, FileInvInit, FileInvStep, PathInvInit, PathInvStep, PTL DEF Spec
=============================================================================
