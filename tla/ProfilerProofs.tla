--------------------------- MODULE ProfilerProofs ---------------------------
(***************************************************************************)
(* Proofs about the two profilers that aperf starts and waits for.  Of     *)
(* JavaProfiler: no JVM is launched for twice and no profile is lost but   *)
(* those whose copying fails, for any number of JVMs and any period.  Of   *)
(* PerfProfile: the functions shown are those of all that perf record has  *)
(* recorded, for any number of blocks and rounds and any interleaving of   *)
(* the two writers of one file.                                            *)
(***************************************************************************)
EXTENDS JavaProfiler, PerfProfile, SequenceTheorems, TLAPS

-----------------------------------------------------------------------------
(***************************************************************************)
(* The inductive invariant.  What keeps asprof from being launched twice   *)
(* is that a pid enters the process map before it is launched for and      *)
(* never leaves the map; what keeps a profile from being lost is that      *)
(* every asprof launched is on the stack until it has been waited for, and *)
(* that the walk over the map passes every pid launched for.               *)
(***************************************************************************)

Launched == {p \in Pids : launches[p] > 0}

\* An entry of the process map is the name of its JVM or stands for it.
MapInv == \A p \in Pids : process_map[p] \in {Absent, Unresolved, NameOf[p]}

\* Where pids wait to be launched for, they are known and have not been.
JidsInv == /\ pc \notin {"collectJps", "launch", "failed"} => jids = {}
           /\ \A p \in jids : p \in Known /\ launches[p] = 0
           /\ jids # {} => elapsed_time < CollectionTime
           /\ request # AllJvms =>
                \A p \in jids : p \in request \/ NameOf[p] \in request

\* What has been launched is known, was told a time and is not forgotten.
LaunchInv == /\ \A p \in Pids : launches[p] \in {0, 1}
             /\ Launched \subseteq Known
             /\ tmpHtml \subseteq exited /\ exited \subseteq Launched
             /\ \A p \in Launched :
                    p \in exited \/ \E i \in 1..Len(children) : children[i] = p

\* While profiles are copied those passed are whole, unless copying them failed.
CopyInv == pc = "copy" => \A p \in tmpHtml \ uncopied : p \in tocopy \/ html[p] = "whole"

\* Before the first launch nothing is launched, and no time has passed.
StartInv == pc \in {"prepare", "prepareJps"} => Launched = {} /\ elapsed_time = 0

Inv == /\ TypeOK
       /\ MapInv
       /\ JidsInv
       /\ LaunchInv
       /\ StartInv
       /\ SpansPositive
       /\ OnlySelected
       /\ CopyInv
       /\ ProfilesSurvive

LEMMA Initially == Init => Inv
  BY JvmValues, Times DEF Init, Inv, TypeOK, MapInv, JidsInv, LaunchInv, StartInv, Launched,
     Known, SpansPositive, OnlySelected, CopyInv, ProfilesSurvive, Ended, AllJvms

-----------------------------------------------------------------------------
\* Lemmas about the process map, the arguments and the stack.

\* Both ways to extend the map keep what it knows and add nothing but names.
LEMMA MapGrows ==
    ASSUME TypeOK, MapInv
    PROVE  /\ \A m \in {WithFresh, WithNames} :
                /\ m \in [Pids -> Names \cup {Absent, Unresolved}]
                /\ \A p \in Pids : m[p] \in {Absent, Unresolved, NameOf[p]}
                /\ \A p \in Known : m[p] # Absent
           /\ \A p \in Fresh : WithFresh[p] # Absent /\ p \notin Known /\ p \in Pids
  BY JvmValues DEF TypeOK, MapInv, WithFresh, WithNames, Fresh, Known

\* An argument selects a JVM by its pid or by its name and in no other way.
LEMMA SelectedAreNamed ==
    ASSUME TypeOK, NEW m, \A p \in Pids : m[p] \in {Absent, Unresolved, NameOf[p]}
    PROVE  \A p \in Selected(m) :
              /\ p \in Pids /\ m[p] # Absent
              /\ p \in request \/ NameOf[p] \in request
  <1> SUFFICES ASSUME NEW p \in Selected(m)
               PROVE  /\ p \in Pids /\ m[p] # Absent
                      /\ p \in request \/ NameOf[p] \in request
    OBVIOUS
  <1>1. p \in Pids /\ m[p] # Absent
    BY DEF Selected
  <1>2. PICK a \in request : /\ a \in {p, m[p]}
                             /\ \/ a \in Pids
                                \/ \E q \in Pids : a = NameOf[q]
    BY DEF Selected, TypeOK
  <1>3. a # Unresolved
    BY <1>2, JvmValues
  <1> QED
    BY <1>1, <1>2, <1>3

\* Popping a stack that is not empty takes its last element and no other.
LEMMA PoppedStack ==
    ASSUME NEW S, NEW s \in Seq(S), s # <<>>
    PROVE  LET t == SubSeq(s, 1, Len(s) - 1)
           IN /\ Len(s) \in Nat \ {0}
              /\ t \in Seq(S) /\ Len(t) = Len(s) - 1
              /\ \A i \in 1..Len(t) : t[i] = s[i]
  BY SubSeqProperties

-----------------------------------------------------------------------------
\* Steps that leave all but the JVMs alone, and those that only move on.

LEMMA JvmStep ==
    ASSUME Inv, NEW p \in Pids, Start(p) \/ Stop(p)
    PROVE  Inv'
  <1>1. TypeOK'
    BY DEF Inv, Start, Stop, TypeOK, asprofs, copies
  <1>2. MapInv' /\ JidsInv' /\ LaunchInv' /\ StartInv'
    BY DEF Inv, Start, Stop, MapInv, JidsInv, LaunchInv, StartInv, Launched, Known, jvms, asprofs, copies
  <1>3. SpansPositive' /\ OnlySelected' /\ CopyInv' /\ ProfilesSurvive'
    BY DEF Inv, Start, Stop, SpansPositive, OnlySelected, CopyInv, ProfilesSurvive, Launched, Known,
       jvms, asprofs, copies
  <1> QED
    BY <1>1, <1>2, <1>3 DEF Inv

LEMMA ExitStep ==
    ASSUME Inv, NEW p \in Pids, AsprofExits(p)
    PROVE  Inv'
  BY DEF Inv, AsprofExits, TypeOK, MapInv, JidsInv, LaunchInv, StartInv, Launched, Known,
     SpansPositive, OnlySelected, CopyInv, ProfilesSurvive, jvms, asprofs, copies, Ended

LEMMA MoveStep ==
    ASSUME Inv, LaunchOver \/ Finish \/ Fail
    PROVE  Inv'
  <1> USE DEF Inv, TypeOK, MapInv, JidsInv, LaunchInv, StartInv, Launched, Known,
              SpansPositive, OnlySelected, CopyInv, ProfilesSurvive, jvms, asprofs, copies, Ended
  <1>1. CASE LaunchOver
    BY <1>1 DEF LaunchOver
  <1>2. CASE Finish
    BY <1>2 DEF Finish
  <1>3. CASE Fail
    BY <1>3 DEF Fail
  <1> QED
    BY <1>1, <1>2, <1>3

-----------------------------------------------------------------------------
\* Steps that extend the process map.

LEMMA PgrepFirstStep ==
    ASSUME Inv, PgrepFirst
    PROVE  Inv'
  <1> USE DEF Inv, PgrepFirst, jvms, asprofs, copies
  <1>1. TypeOK' /\ MapInv' /\ Known \subseteq Known'
    BY MapGrows DEF TypeOK, MapInv, Known
  <1>2. JidsInv' /\ StartInv'
    BY DEF JidsInv, StartInv, Launched
  <1>3. LaunchInv'
    BY <1>1 DEF LaunchInv, Launched
  <1>4. SpansPositive' /\ OnlySelected' /\ CopyInv' /\ ProfilesSurvive'
    BY DEF SpansPositive, OnlySelected, CopyInv, ProfilesSurvive
  <1> QED
    BY <1>1, <1>2, <1>3, <1>4

LEMMA JpsFirstStep ==
    ASSUME Inv, JpsFirst
    PROVE  Inv'
  <1> USE DEF Inv, JpsFirst, jvms, asprofs, copies
  <1>1. MapInv' /\ Known \subseteq Known' /\ process_map' \in [Pids -> Names \cup {Absent, Unresolved}]
    BY MapGrows DEF TypeOK, MapInv, Known
  <1>2. /\ jids' \subseteq Pids
        /\ \A p \in jids' : p \in Known'
        /\ request # AllJvms => \A p \in jids' : p \in request \/ NameOf[p] \in request
    <2>1. \A p \in Pids : WithNames[p] \in {Absent, Unresolved, NameOf[p]}
      BY MapGrows
    <2>2. \A p \in Selected(WithNames) :
              /\ p \in Pids /\ WithNames[p] # Absent
              /\ p \in request \/ NameOf[p] \in request
      BY <2>1, SelectedAreNamed
    <2> QED
      BY <2>2 DEF Known
  <1>3. \A p \in Pids : launches[p] = 0
    BY DEF StartInv, Launched, LaunchInv
  <1>4. TypeOK'
    BY <1>1, <1>2 DEF TypeOK
  <1>5. JidsInv'
    BY <1>2, <1>3, Times DEF JidsInv, StartInv
  <1>6. LaunchInv' /\ StartInv'
    BY <1>1 DEF LaunchInv, Launched, StartInv
  <1>7. SpansPositive' /\ OnlySelected' /\ CopyInv' /\ ProfilesSurvive'
    BY <1>3 DEF SpansPositive, OnlySelected, CopyInv, ProfilesSurvive
  <1> QED
    BY <1>1, <1>4, <1>5, <1>6, <1>7

LEMMA CollectStep ==
    ASSUME Inv, Collect
    PROVE  Inv'
  <1> USE DEF Inv, jvms, asprofs, copies
  <1>1. /\ pc = "idle" /\ elapsed_time' \in elapsed_time..MaxElapsed
        /\ UNCHANGED <<request, up, children, exited, tmpHtml, launches, span, html, tocopy, uncopied>>
    BY DEF Collect
  <1>2. process_map' \in {process_map, WithFresh}
    BY DEF Collect
  <1>3. /\ MapInv' /\ Known \subseteq Known'
        /\ process_map' \in [Pids -> Names \cup {Absent, Unresolved}]
    BY <1>1, <1>2, MapGrows DEF TypeOK, MapInv, Known
  <1>4. \/ pc' = pc /\ jids' = jids
        \/ /\ request = AllJvms /\ pc' = "collectJps" /\ jids' = Fresh
           /\ process_map' = WithFresh /\ elapsed_time' < CollectionTime
    BY DEF Collect, TimeLeft
  <1>5. TypeOK'
    BY <1>1, <1>3, <1>4, MapGrows, Times DEF TypeOK
  <1>6. JidsInv'
    <2>1. CASE pc' = pc /\ jids' = jids
      BY <1>1, <2>1 DEF JidsInv
    <2>2. CASE /\ request = AllJvms /\ pc' = "collectJps" /\ jids' = Fresh
               /\ process_map' = WithFresh /\ elapsed_time' < CollectionTime
      <3>1. \A p \in Fresh : p \in Known' /\ p \in Pids /\ p \notin Known
        BY <2>2, MapGrows DEF Known
      <3>2. \A p \in Fresh : launches[p] = 0
        BY <3>1 DEF LaunchInv, Launched
      <3> QED
        BY <1>1, <2>2, <3>1, <3>2 DEF JidsInv
    <2> QED
      BY <1>4, <2>1, <2>2
  <1>7. LaunchInv' /\ StartInv'
    BY <1>1, <1>3, <1>4 DEF LaunchInv, Launched, StartInv
  <1>8. SpansPositive' /\ OnlySelected' /\ CopyInv' /\ ProfilesSurvive'
    BY <1>1, <1>4 DEF SpansPositive, OnlySelected, CopyInv, ProfilesSurvive
  <1> QED
    BY <1>3, <1>5, <1>6, <1>7, <1>8

LEMMA JpsAgainStep ==
    ASSUME Inv, JpsAgain
    PROVE  Inv'
  <1> USE DEF Inv, JpsAgain, jvms, asprofs, copies
  <1>1. TypeOK' /\ MapInv' /\ Known \subseteq Known'
    BY MapGrows DEF TypeOK, MapInv, Known
  <1>2. JidsInv' /\ StartInv'
    BY <1>1 DEF JidsInv, StartInv
  <1>3. LaunchInv'
    BY <1>1 DEF LaunchInv, Launched
  <1>4. SpansPositive' /\ OnlySelected' /\ CopyInv' /\ ProfilesSurvive'
    BY DEF SpansPositive, OnlySelected, CopyInv, ProfilesSurvive
  <1> QED
    BY <1>1, <1>2, <1>3, <1>4

-----------------------------------------------------------------------------
\* Steps that launch, wait and copy.

LEMMA LaunchStep ==
    ASSUME Inv, NEW p \in Pids, LaunchOne(p)
    PROVE  Inv'
  <1> USE DEF Inv, LaunchOne, jvms, asprofs, copies
  <1>1. TypeOK'
    <2>1. children' \in Seq(Pids)
      BY DEF TypeOK
    <2>2. span' \in [Pids -> Int] /\ launches' \in [Pids -> Nat]
      BY Times DEF TypeOK
    <2> QED
      BY <2>1, <2>2 DEF TypeOK
  <1>2. /\ launches[p] = 0 /\ p \in Known
        /\ elapsed_time < CollectionTime /\ Known' = Known
        /\ request # AllJvms => p \in request \/ NameOf[p] \in request
    BY DEF JidsInv, Known
  <1>3. /\ launches' \in [Pids -> Nat] /\ launches'[p] = 1
        /\ \A q \in Pids \ {p} : launches'[q] = launches[q] /\ span'[q] = span[q]
        /\ span'[p] = CollectionTime - elapsed_time
    BY <1>1, <1>2 DEF TypeOK
  <1>4. JidsInv' /\ MapInv'
    BY <1>2, <1>3 DEF JidsInv, MapInv, TypeOK
  <1>5. LaunchInv'
    <2>1. Launched' = Launched \cup {p}
      BY <1>2, <1>3 DEF Launched
    <2>2. /\ children \in Seq(Pids) /\ Len(children') = Len(children) + 1
          /\ children'[Len(children')] = p
          /\ \A i \in 1..Len(children) : children'[i] = children[i]
      BY DEF TypeOK
    <2>3. \A q \in Launched' :
             q \in exited' \/ \E i \in 1..Len(children') : children'[i] = q
      <3> SUFFICES ASSUME NEW q \in Launched', q \notin exited
                   PROVE  \E i \in 1..Len(children') : children'[i] = q
        OBVIOUS
      <3>1. CASE q = p
        BY <2>2, <3>1
      <3>2. CASE q # p
        <4>1. PICK i \in 1..Len(children) : children[i] = q
          BY <2>1, <3>2 DEF LaunchInv
        <4>2. i \in 1..Len(children') /\ children'[i] = q
          BY <2>2, <4>1
        <4> QED
          BY <4>2
      <3> QED
        BY <3>1, <3>2
    <2> QED
      BY <1>2, <1>3, <2>1, <2>3 DEF LaunchInv
  <1>6. SpansPositive' /\ OnlySelected'
    BY <1>2, <1>3, Times DEF SpansPositive, OnlySelected, TypeOK
  <1>7. CopyInv' /\ ProfilesSurvive' /\ StartInv'
    BY DEF CopyInv, ProfilesSurvive, StartInv
  <1> QED
    BY <1>1, <1>4, <1>5, <1>6, <1>7

LEMMA WaitStep ==
    ASSUME Inv, Wait
    PROVE  Inv'
  <1> USE DEF Inv, Wait, Popped, MoreChildren, jvms, asprofs, copies
  <1>1. /\ children \in Seq(Pids) /\ children # <<>> /\ Len(children) \in Nat \ {0}
        /\ children' \in Seq(Pids) /\ Len(children') = Len(children) - 1
        /\ \A i \in 1..Len(children') : children'[i] = children[i]
    BY PoppedStack DEF TypeOK
  <1>2. TypeOK' /\ MapInv' /\ JidsInv' /\ StartInv'
    BY <1>1 DEF TypeOK, MapInv, JidsInv, StartInv, Known, Launched
  <1>3. LaunchInv'
    <2>1. \A q \in Launched :
             q \in exited \/ \E i \in 1..Len(children') : children'[i] = q
      <3> SUFFICES ASSUME NEW q \in Launched, q \notin exited
                   PROVE  \E i \in 1..Len(children') : children'[i] = q
        OBVIOUS
      <3>1. PICK i \in 1..Len(children) : children[i] = q
        BY DEF LaunchInv
      <3>2. i # Len(children)
        BY <3>1
      <3>3. i \in 1..Len(children') /\ children'[i] = q
        BY <1>1, <3>1, <3>2
      <3> QED
        BY <3>3
    <2> QED
      BY <2>1 DEF LaunchInv, Launched, Known
  <1>4. SpansPositive' /\ OnlySelected' /\ CopyInv' /\ ProfilesSurvive'
    BY DEF SpansPositive, OnlySelected, CopyInv, ProfilesSurvive
  <1> QED
    BY <1>2, <1>3, <1>4

LEMMA WaitOverStep ==
    ASSUME Inv, WaitOver
    PROVE  Inv'
  <1> USE DEF Inv, WaitOver, MoreChildren, jvms, asprofs
  <1>1. TypeOK' /\ MapInv' /\ JidsInv' /\ StartInv' /\ LaunchInv'
    BY DEF TypeOK, MapInv, JidsInv, StartInv, LaunchInv, Known, Launched, Ended
  <1>2. Launched \subseteq exited
    BY DEF LaunchInv
  <1>3. tmpHtml \subseteq Known
    BY DEF LaunchInv
  <1>4. CopyInv' /\ ProfilesSurvive'
    BY <1>2, <1>3 DEF CopyInv, ProfilesSurvive, Launched
  <1>5. SpansPositive' /\ OnlySelected'
    BY DEF SpansPositive, OnlySelected
  <1> QED
    BY <1>1, <1>4, <1>5

LEMMA CopyStep ==
    ASSUME Inv, NEW p \in Pids, CopyOne(p) \/ CopyFails(p)
    PROVE  Inv'
  <1> USE DEF Inv, CopyOne, CopyFails, VisitKey, jvms, asprofs
  <1>1. /\ html' \in [Pids -> {"none", "cut", "whole"}]
        /\ \A q \in Pids \ {p} : html'[q] = html[q]
        /\ p \in uncopied' \/ html'[p] = "whole"
        /\ uncopied \subseteq uncopied' /\ uncopied' \subseteq Pids
        /\ tocopy \ {p} \subseteq tocopy'
    BY DEF TypeOK
  <1>2. TypeOK' /\ MapInv' /\ JidsInv' /\ StartInv' /\ LaunchInv'
    BY <1>1 DEF TypeOK, MapInv, JidsInv, StartInv, LaunchInv, Known, Launched
  <1>3. CopyInv'
    BY <1>1 DEF CopyInv, TypeOK
  <1>4. SpansPositive' /\ OnlySelected' /\ ProfilesSurvive'
    BY DEF SpansPositive, OnlySelected, ProfilesSurvive
  <1> QED
    BY <1>2, <1>3, <1>4

LEMMA CopyOverStep ==
    ASSUME Inv, CopyOver
    PROVE  Inv'
  <1> USE DEF Inv, CopyOver, MoreCopies, jvms, asprofs, copies
  <1>1. TypeOK' /\ MapInv' /\ JidsInv' /\ StartInv' /\ LaunchInv'
    BY DEF TypeOK, MapInv, JidsInv, StartInv, LaunchInv, Known, Launched, Ended
  <1>2. CopyInv' /\ ProfilesSurvive'
    BY DEF CopyInv, ProfilesSurvive
  <1>3. SpansPositive' /\ OnlySelected'
    BY DEF SpansPositive, OnlySelected
  <1> QED
    BY <1>1, <1>2, <1>3

-----------------------------------------------------------------------------
\* Every step keeps the invariant.
LEMMA Inductive == Inv /\ [Next]_vars => Inv'
  <1> SUFFICES ASSUME Inv, [Next]_vars
               PROVE  Inv'
    OBVIOUS
  <1>1. CASE \E p \in Pids : Start(p) \/ Stop(p)
    BY <1>1, JvmStep
  <1>2. CASE \E p \in Pids : AsprofExits(p)
    BY <1>2, ExitStep
  <1>3. CASE LaunchOver \/ Finish \/ Fail
    BY <1>3, MoveStep
  <1>4. CASE PgrepFirst
    BY <1>4, PgrepFirstStep
  <1>5. CASE JpsFirst
    BY <1>5, JpsFirstStep
  <1>6. CASE Collect
    BY <1>6, CollectStep
  <1>7. CASE JpsAgain
    BY <1>7, JpsAgainStep
  <1>8. CASE \E p \in Pids : LaunchOne(p)
    BY <1>8, LaunchStep
  <1>9. CASE Wait
    BY <1>9, WaitStep
  <1>10. CASE WaitOver
    BY <1>10, WaitOverStep
  <1>11. CASE \E p \in Pids : CopyOne(p) \/ CopyFails(p)
    BY <1>11, CopyStep
  <1>12. CASE CopyOver
    BY <1>12, CopyOverStep
  <1>13. CASE UNCHANGED vars
    BY <1>13 DEF vars, jvms, asprofs, copies, Inv, TypeOK, MapInv, JidsInv, LaunchInv, StartInv,
       Launched, Known, SpansPositive, OnlySelected, CopyInv, ProfilesSurvive
  <1> QED
    BY <1>1, <1>2, <1>3, <1>4, <1>5, <1>6, <1>7, <1>8, <1>9, <1>10, <1>11,
       <1>12, <1>13
       DEF Next, Step, Terminated

LEMMA Invariance == Spec => []Inv
  BY Initially, Inductive, PTL DEF Spec

-----------------------------------------------------------------------------
\* async-profiler refuses to attach twice: no JVM is ever launched for twice,
\* however JVMs come and go between pgrep and jps.
THEOREM OneProfilerEach == Spec => []AtMostOneProfiler
  <1>1. Inv => AtMostOneProfiler
    BY DEF Inv, LaunchInv, AtMostOneProfiler
  <1> QED
    BY <1>1, Invariance, PTL

\* `collection_time - elapsed_time' never wraps and never is zero.
THEOREM SpansArePositive == Spec => []SpansPositive
  <1>1. Inv => SpansPositive
    BY DEF Inv
  <1> QED
    BY <1>1, Invariance, PTL

\* The profiler's variables have values of their kinds, for any JVMs.
THEOREM ProfilerTypes == Spec => []TypeOK
  <1>1. Inv => TypeOK
    BY DEF Inv
  <1> QED
    BY <1>1, Invariance, PTL

\* With arguments, only the JVMs they name are profiled.
THEOREM OnlySelectedProfiled == Spec => []OnlySelected
  <1>1. Inv => OnlySelected
    BY DEF Inv
  <1> QED
    BY <1>1, Invariance, PTL

\* Whatever an asprof wrote is in the directory of the run at the end, but for the
\* profiles that could not be copied: no failure of one costs another.
THEOREM NoProfileLost == Spec => []ProfilesSurvive
  <1>1. Inv => ProfilesSurvive
    BY DEF Inv
  <1> QED
    BY <1>1, Invariance, PTL

-----------------------------------------------------------------------------
(***************************************************************************)
(* PerfProfile.                                                            *)
(***************************************************************************)
Cell == [of : {"header", "perf", "features", "aperf"}, number : Nat]

-----------------------------------------------------------------------------
\* The cells of the file.

\* The named cells are cells.
LEMMA Cells == /\ \A n \in Nat : Header(n) \in Cell /\ Block(n) \in Cell
               /\ Features \in Cell /\ Record \in Cell
    BY DEF Cell, Header, Block, Features, Record

\* A cell written within the file or right behind its end replaces that cell and
\* no other one.
LEMMA Writing ==
    ASSUME NEW f \in Seq(Cell), NEW i \in Nat \ {0}, NEW c \in Cell, i <= Len(f) + 1
    PROVE  /\ WrittenAt(f, i, c) \in Seq(Cell)
           /\ Len(WrittenAt(f, i, c)) = IF i > Len(f) THEN i ELSE Len(f)
           /\ \A j \in 1..Len(WrittenAt(f, i, c)) :
                WrittenAt(f, i, c)[j] = IF j = i THEN c ELSE f[j]
  <1> DEFINE n == IF i > Len(f) THEN i ELSE Len(f)
  <1>1. n \in Nat /\ \A j \in 1..n : j = i \/ j \in 1..Len(f)
      OBVIOUS
  <1>2. \A j \in 1..n : (IF j = i THEN c ELSE f[j]) \in Cell
      BY <1>1
  <1>3. WrittenAt(f, i, c) \in [1..n -> Cell]
      BY <1>1, <1>2 DEF WrittenAt
  <1>4. WrittenAt(f, i, c) \in Seq(Cell) /\ Len(WrittenAt(f, i, c)) = n
      BY <1>1, <1>3
  <1>5. \A j \in 1..n : WrittenAt(f, i, c)[j] = IF j = i THEN c ELSE f[j]
      BY <1>1 DEF WrittenAt
  <1> QED BY <1>4, <1>5

-----------------------------------------------------------------------------
\* The inductive invariant.

\* perf has written its header, which counts nothing yet, and blocks behind it.
Underway == /\ Len(file) >= blocks + 1
            /\ file[1] = Header(0)
            /\ \A i \in 1..blocks : file[i + 1] = Block(i)

\* perf has ended its file.
Complete == /\ Len(file) >= blocks + 2
            /\ file[1] = Header(blocks)
            /\ \A i \in 1..blocks : file[i + 1] = Block(i)
            /\ file[blocks + 2] = Features

\* Only aperf has written to the file.
OnlyRecords == blocks = 0 /\ (file # <<>> => file[1] = Record)

\* The file is that of the state of perf.
FileOfPerf == /\ perf \in {"none", "started", "dying"} => OnlyRecords
              /\ perf \in {"running", "stopping"} => Underway
              /\ perf = "ended" => OnlyRecords \/ Complete

\* The collector does not go on before perf has ended.
Waited == /\ stage = "prepare" => perf = "none" /\ top = Missing
          /\ stage = "record" => perf \in {"started", "running", "ended"} /\ top = Missing
          /\ stage = "wait" => perf \in {"dying", "stopping", "ended"} /\ top = Missing
          /\ stage = "report" => perf = "ended" /\ top = Cut
          /\ stage = "done" /\ top = Missing => perf = "none"

\* top_functions is made when perf has ended, of the whole file.
TopOfFile == /\ top # Missing => perf = "ended"
             /\ top.of = "functions" => perf = "ended" /\ top.number = blocks
             /\ top = NoData => blocks = 0

\* What is shown is what is in top_functions, if anything is.
ShownIsTop == shown # Missing =>
                /\ stage \in ProfileOver
                /\ shown = IF top = Missing THEN NoData ELSE top

IInv == ProfileTypeOK /\ FileOfPerf /\ Waited /\ TopOfFile /\ ShownIsTop

\* The texts can be told from each other.
LEMMA Texts == /\ NoData # Missing /\ Cut # Missing /\ Cut # NoData /\ Skipped # NoData
               /\ Skipped # Missing /\ NoData.of # "functions" /\ Cut.of # "functions"
               /\ Skipped.of # "functions" /\ Missing.of # "functions"
               /\ \A n \in Nat : /\ Functions(n) # NoData /\ Functions(n) # Missing
                                 /\ Functions(n).of = "functions" /\ Functions(n).number = n
               /\ NoData.number = 0 /\ Cut.number = 0 /\ Skipped.number = 0 /\ Missing.number = 0
    BY DEF NoData, Missing, Cut, Skipped, Functions, Message

\* What perf report can read are all blocks.
LEMMA ReadableIsComplete ==
    ASSUME ProfileTypeOK, perf = "ended", FileOfPerf
    PROVE  /\ ReadByPerf(file) => file[1].number = blocks
           /\ ~ReadByPerf(file) => blocks = 0
  <1>1. CASE Complete
    <2>1. file[1].of = "header" /\ file[1].number = blocks
        BY <1>1 DEF Complete, Header
    <2>2. blocks > 0 => ReadByPerf(file)
      <3> SUFFICES ASSUME blocks > 0 PROVE ReadByPerf(file)
          OBVIOUS
      <3>1. file # <<>>
          BY <1>1 DEF Complete, ProfileTypeOK
      <3> QED BY <1>1, <2>1, <3>1 DEF Complete, ReadByPerf
    <2> QED BY <2>1, <2>2 DEF ProfileTypeOK
  <1>2. CASE OnlyRecords
    <2>1. ~ReadByPerf(file)
        BY <1>2 DEF OnlyRecords, ReadByPerf, Record
    <2> QED BY <1>2, <2>1 DEF OnlyRecords
  <1> QED BY <1>1, <1>2 DEF FileOfPerf

LEMMA InitIInv == ProfileInit => IInv
  <1> SUFFICES ASSUME ProfileInit PROVE IInv
      OBVIOUS
  <1>1. ProfileTypeOK
      BY Texts DEF ProfileInit, ProfileTypeOK
  <1> QED BY <1>1, Texts DEF ProfileInit, IInv, FileOfPerf, OnlyRecords, Waited, TopOfFile, ShownIsTop

-----------------------------------------------------------------------------
\* The steps of perf record.

LEMMA OpensIInv == IInv /\ PerfOpens => IInv'
  <1> SUFFICES ASSUME IInv, PerfOpens PROVE IInv'
      OBVIOUS
  <1>1. blocks = 0 /\ stage \notin {"prepare", "report"}
      BY DEF IInv, PerfOpens, FileOfPerf, OnlyRecords, Waited
  <1>2. ProfileTypeOK'
    <2>1. file' \in Seq(Cell)
        BY Cells DEF PerfOpens
    <2>2. shared' \in BOOLEAN
        BY DEF PerfOpens
    <2>3. perf' \in {"running", "stopping"}
        BY DEF PerfOpens
    <2>4. UNCHANGED <<stage, blocks, rounds, top, shown>>
        BY DEF PerfOpens
    <2> QED BY <2>1, <2>2, <2>3, <2>4 DEF IInv, ProfileTypeOK, Cell
  <1>3. Underway'
      BY <1>1 DEF PerfOpens, Underway
  <1>4. FileOfPerf'
      BY <1>3 DEF PerfOpens, FileOfPerf
  <1>5. top = Missing
      BY DEF IInv, PerfOpens, TopOfFile
  <1>6. Waited' /\ ShownIsTop'
      BY <1>1, <1>5 DEF IInv, PerfOpens, Waited, ShownIsTop
  <1>7. TopOfFile'
      BY <1>5, Texts DEF PerfOpens, TopOfFile
  <1> QED BY <1>2, <1>4, <1>6, <1>7 DEF IInv

LEMMA WritesIInv == IInv /\ PerfWrites => IInv'
  <1> SUFFICES ASSUME IInv, PerfWrites PROVE IInv'
      OBVIOUS
  <1>1. Underway /\ blocks \in Nat /\ blocks' = blocks + 1 /\ file \in Seq(Cell)
      BY DEF IInv, PerfWrites, FileOfPerf, ProfileTypeOK, Cell
  <1>2. Block(blocks + 1) \in Cell /\ blocks + 2 \in Nat \ {0} /\ blocks + 2 <= Len(file) + 1
      BY <1>1, Cells DEF Underway
  <1>3. /\ file' \in Seq(Cell)
        /\ Len(file') = IF blocks + 2 > Len(file) THEN blocks + 2 ELSE Len(file)
        /\ \A j \in 1..Len(file') : file'[j] = IF j = blocks + 2 THEN Block(blocks + 1) ELSE file[j]
      BY <1>1, <1>2, Writing DEF PerfWrites
  <1>4. ProfileTypeOK'
      BY <1>1, <1>3 DEF IInv, ProfileTypeOK, PerfWrites, Cell
  <1>5. Underway'
    <2>1. Len(file') \in Nat /\ Len(file') >= blocks + 2
        BY <1>1, <1>3
    <2>2. file'[1] = Header(0)
        BY <1>1, <1>3, <2>1 DEF Underway
    <2>3. ASSUME NEW i \in 1..(blocks + 1) PROVE file'[i + 1] = Block(i)
        BY <1>1, <1>3, <2>1 DEF Underway
    <2> QED BY <1>1, <2>1, <2>2, <2>3 DEF Underway
  <1>6. FileOfPerf'
      BY <1>5 DEF PerfWrites, FileOfPerf
  <1>7. Waited' /\ ShownIsTop'
      BY DEF IInv, PerfWrites, Waited, ShownIsTop
  <1>8. TopOfFile'
      BY Texts DEF IInv, PerfWrites, TopOfFile
  <1> QED BY <1>4, <1>6, <1>7, <1>8 DEF IInv

LEMMA EndsIInv == IInv /\ PerfEnds => IInv'
  <1> SUFFICES ASSUME IInv, PerfEnds PROVE IInv'
      OBVIOUS
  <1> DEFINE f == WrittenAt(file, 1, Header(blocks))
  <1>1. Underway /\ blocks \in Nat /\ blocks' = blocks /\ file \in Seq(Cell)
      BY DEF IInv, PerfEnds, FileOfPerf, ProfileTypeOK, Cell
  <1>2. /\ f \in Seq(Cell) /\ Len(f) = Len(file)
        /\ \A j \in 1..Len(f) : f[j] = IF j = 1 THEN Header(blocks) ELSE file[j]
    <2>1. Header(blocks) \in Cell /\ 1 <= Len(file) + 1 /\ 1 <= Len(file)
        BY <1>1, Cells DEF Underway
    <2>2. /\ f \in Seq(Cell)
          /\ Len(f) = IF 1 > Len(file) THEN 1 ELSE Len(file)
          /\ \A j \in 1..Len(f) : f[j] = IF j = 1 THEN Header(blocks) ELSE file[j]
        BY <1>1, <2>1, Writing
    <2> QED BY <2>1, <2>2, <1>1
  <1>3. file' = WrittenAt(f, blocks + 2, Features)
      BY DEF PerfEnds
  <1> HIDE DEF f
  <1>4. Features \in Cell /\ blocks + 2 \in Nat \ {0} /\ blocks + 2 <= Len(f) + 1
      BY <1>1, <1>2, Cells DEF Underway
  <1>5. /\ file' \in Seq(Cell)
        /\ Len(file') = IF blocks + 2 > Len(f) THEN blocks + 2 ELSE Len(f)
        /\ \A j \in 1..Len(file') : file'[j] = IF j = blocks + 2 THEN Features ELSE f[j]
    <2> DEFINE k == blocks + 2
               g == WrittenAt(f, k, Features)
    <2>1. f \in Seq(Cell) /\ k \in Nat \ {0} /\ k <= Len(f) + 1 /\ Features \in Cell
        BY <1>2, <1>4
    <2>2. file' = g
        BY <1>3
    <2> HIDE DEF k
    <2>3. /\ g \in Seq(Cell)
          /\ Len(g) = IF k > Len(f) THEN k ELSE Len(f)
          /\ \A j \in 1..Len(g) : g[j] = IF j = k THEN Features ELSE f[j]
        BY <2>1, Writing
    <2> USE DEF k
    <2> QED BY <2>2, <2>3
  <1>6. ProfileTypeOK'
      BY <1>1, <1>5 DEF IInv, ProfileTypeOK, PerfEnds, Cell
  <1>7. Complete'
    <2>1. Len(file') \in Nat /\ Len(file') >= blocks + 2 /\ Len(f) >= blocks + 1
        BY <1>1, <1>2, <1>5 DEF Underway
    <2>2. file'[1] = Header(blocks)
        BY <1>1, <1>2, <1>5, <2>1
    <2>3. ASSUME NEW i \in 1..blocks PROVE file'[i + 1] = Block(i)
      <3>1. i + 1 \in 1..Len(f) /\ i + 1 \in 1..Len(file') /\ i + 1 # blocks + 2 /\ i + 1 # 1
          BY <1>1, <1>2, <2>1
      <3> QED BY <1>1, <1>2, <1>5, <3>1 DEF Underway
    <2>4. file'[blocks + 2] = Features
        BY <1>1, <1>5, <2>1
    <2> QED BY <1>1, <2>1, <2>2, <2>3, <2>4 DEF Complete
  <1>8. FileOfPerf'
      BY <1>7 DEF PerfEnds, FileOfPerf
  <1>9. Waited' /\ ShownIsTop'
      BY DEF IInv, PerfEnds, Waited, ShownIsTop, TopOfFile
  <1>10. TopOfFile'
      BY Texts DEF IInv, PerfEnds, TopOfFile
  <1> QED BY <1>6, <1>8, <1>9, <1>10 DEF IInv

LEMMA GivesUpIInv == IInv /\ PerfGivesUp => IInv'
  <1> SUFFICES ASSUME IInv, PerfGivesUp PROVE IInv'
      OBVIOUS
  <1>1. ProfileTypeOK'
      BY DEF IInv, PerfGivesUp, ProfileTypeOK
  <1>2. FileOfPerf'
      BY DEF IInv, PerfGivesUp, FileOfPerf, OnlyRecords
  <1>3. Waited' /\ ShownIsTop'
      BY DEF IInv, PerfGivesUp, Waited, ShownIsTop, TopOfFile
  <1>4. TopOfFile'
      BY Texts DEF IInv, PerfGivesUp, TopOfFile
  <1> QED BY <1>1, <1>2, <1>3, <1>4 DEF IInv

-----------------------------------------------------------------------------
\* The steps of aperf.

\* A record at the end of the file disturbs nothing that perf has written.
LEMMA RoundIInv == IInv /\ Round => IInv'
  <1> SUFFICES ASSUME IInv, Round PROVE IInv'
      OBVIOUS
  <1>1. file \in Seq(Cell) /\ blocks \in Nat /\ rounds' \in Nat
      BY DEF IInv, Round, ProfileTypeOK, Cell
  <1>2. /\ file' \in Seq(Cell) /\ Len(file') >= Len(file)
        /\ \A j \in 1..Len(file) : file'[j] = file[j]
        /\ file = <<>> => file' = <<>> \/ file'[1] = Record
    <2>1. CASE file' = file
        BY <1>1, <2>1
    <2>2. CASE file' = Append(file, Record)
        BY <1>1, <2>2, Cells
    <2> QED BY <2>1, <2>2 DEF Round, Appended
  <1>3. ProfileTypeOK'
      BY <1>1, <1>2 DEF IInv, ProfileTypeOK, Round, Cell
  <1>4. OnlyRecords => OnlyRecords'
    <2>1. file # <<>> => 1 \in 1..Len(file)
        BY <1>1
    <2> QED BY <1>2, <2>1 DEF OnlyRecords, Round
  <1>5. Underway => Underway'
    <2> SUFFICES ASSUME Underway PROVE Underway'
        OBVIOUS
    <2>1. blocks' = blocks /\ 1 \in 1..Len(file) /\ \A i \in 1..blocks : i + 1 \in 1..Len(file)
        BY <1>1 DEF Underway, Round
    <2>2. Len(file') >= blocks + 1
        BY <1>1, <1>2 DEF Underway
    <2>3. file'[1] = Header(0) /\ \A i \in 1..blocks : file'[i + 1] = Block(i)
        BY <1>2, <2>1 DEF Underway
    <2> QED BY <2>1, <2>2, <2>3 DEF Underway
  <1>6. Complete => Complete'
    <2> SUFFICES ASSUME Complete PROVE Complete'
        OBVIOUS
    <2>1. /\ blocks' = blocks /\ 1 \in 1..Len(file) /\ blocks + 2 \in 1..Len(file)
          /\ \A i \in 1..blocks : i + 1 \in 1..Len(file)
        BY <1>1 DEF Complete, Round
    <2> QED BY <1>1, <1>2, <2>1 DEF Complete
  <1>7. FileOfPerf'
      BY <1>4, <1>5, <1>6 DEF IInv, Round, FileOfPerf
  <1>8. Waited' /\ ShownIsTop'
      BY DEF IInv, Round, Waited, ShownIsTop
  <1>9. TopOfFile'
      BY Texts DEF IInv, Round, TopOfFile
  <1> QED BY <1>3, <1>7, <1>8, <1>9 DEF IInv

LEMMA PrepareIInv == IInv /\ Prepare => IInv'
  <1> SUFFICES ASSUME IInv, Prepare PROVE IInv'
      OBVIOUS
  <1>1. perf = "none" /\ top = Missing /\ OnlyRecords
      BY DEF IInv, Prepare, Waited, FileOfPerf
  <1>2. ProfileTypeOK'
      BY DEF IInv, Prepare, ProfileTypeOK, ProfileOver
  <1>3. FileOfPerf'
      BY <1>1 DEF Prepare, FileOfPerf, OnlyRecords
  <1>4. Waited' /\ ShownIsTop'
      BY <1>1 DEF IInv, Prepare, Waited, ShownIsTop, ProfileOver
  <1>5. TopOfFile'
      BY <1>1, Texts DEF Prepare, TopOfFile
  <1> QED BY <1>2, <1>3, <1>4, <1>5 DEF IInv

LEMMA FinishIInv == IInv /\ FinishRecording => IInv'
  <1> SUFFICES ASSUME IInv, FinishRecording PROVE IInv'
      OBVIOUS
  <1>1. /\ top = Missing
        /\ \/ perf = "started" /\ perf' = "dying"
           \/ perf = "running" /\ perf' = "stopping"
           \/ perf = "ended" /\ perf' = "ended"
      BY DEF IInv, FinishRecording, Waited
  <1>2. ProfileTypeOK'
      BY <1>1 DEF IInv, FinishRecording, ProfileTypeOK
  <1>3. FileOfPerf'
    <2>1. /\ OnlyRecords => OnlyRecords'
          /\ Underway => Underway'
          /\ Complete => Complete'
        BY DEF FinishRecording, OnlyRecords, Underway, Complete
    <2> QED BY <1>1, <2>1 DEF IInv, FileOfPerf
  <1>4. Waited' /\ ShownIsTop'
      BY <1>1 DEF IInv, FinishRecording, Waited, ShownIsTop, ProfileOver
  <1>5. TopOfFile'
      BY <1>1, Texts DEF FinishRecording, TopOfFile
  <1> QED BY <1>2, <1>3, <1>4, <1>5 DEF IInv

\* The steps that leave perf and its file alone.
LEMMA FileLeft ==
    ASSUME IInv, UNCHANGED <<perf, file, blocks>>
    PROVE  FileOfPerf'
    BY DEF IInv, FileOfPerf, OnlyRecords, Underway, Complete

LEMMA CreateTopIInv == IInv /\ CreateTop => IInv'
  <1> SUFFICES ASSUME IInv, CreateTop PROVE IInv'
      OBVIOUS
  <1>1. ProfileTypeOK'
      BY Texts DEF IInv, CreateTop, ProfileTypeOK
  <1>2. FileOfPerf'
      BY FileLeft DEF CreateTop
  <1>3. perf = "ended" /\ perf' = "ended" /\ shown = Missing /\ shown' = Missing
      BY DEF IInv, CreateTop, Reaped, ShownIsTop, ProfileOver
  <1>4. Waited' /\ ShownIsTop'
      BY <1>3, Texts DEF CreateTop, Waited, ShownIsTop
  <1>5. TopOfFile'
      BY <1>3, Texts DEF CreateTop, TopOfFile
  <1> QED BY <1>1, <1>2, <1>4, <1>5 DEF IInv

LEMMA ReportIInv == IInv /\ PerfReport => IInv'
  <1> SUFFICES ASSUME IInv, PerfReport PROVE IInv'
      OBVIOUS
  <1>1. perf = "ended" /\ perf' = "ended" /\ shown = Missing /\ shown' = Missing
      BY DEF IInv, PerfReport, Waited, ShownIsTop, ProfileOver
  <1>2. /\ ReadByPerf(file) => file[1].number = blocks
        /\ ~ReadByPerf(file) => blocks = 0
      BY <1>1, ReadableIsComplete DEF IInv
  <1>3. blocks \in Nat /\ blocks' = blocks
      BY DEF IInv, ProfileTypeOK, PerfReport
  <1>4. \/ top' = Functions(blocks)
        \/ top' = NoData /\ blocks = 0
        \/ top' = Skipped
      BY <1>2 DEF PerfReport
  <1>5. ProfileTypeOK'
      BY <1>3, <1>4, Texts DEF IInv, PerfReport, ProfileTypeOK, ProfileOver
  <1>6. FileOfPerf'
      BY FileLeft DEF PerfReport
  <1>7. Waited' /\ ShownIsTop'
      BY <1>1, <1>3, <1>4, Texts DEF PerfReport, Waited, ShownIsTop
  <1>8. TopOfFile'
      BY <1>1, <1>3, <1>4, Texts DEF TopOfFile
  <1> QED BY <1>5, <1>6, <1>7, <1>8 DEF IInv

LEMMA FailIInv == IInv /\ ProfileFails => IInv'
  <1> SUFFICES ASSUME IInv, ProfileFails PROVE IInv'
      OBVIOUS
  <1>1. ProfileTypeOK'
      BY DEF IInv, ProfileFails, ProfileTypeOK, ProfileOver
  <1>2. FileOfPerf'
      BY FileLeft DEF ProfileFails
  <1>3. Waited' /\ ShownIsTop'
      BY DEF IInv, ProfileFails, Waited, ShownIsTop, ProfileOver
  <1>4. TopOfFile'
      BY Texts DEF IInv, ProfileFails, TopOfFile
  <1> QED BY <1>1, <1>2, <1>3, <1>4 DEF IInv

LEMMA ShowIInv == IInv /\ Show => IInv'
  <1> SUFFICES ASSUME IInv, Show PROVE IInv'
      OBVIOUS
  <1>1. shown' = IF top = Missing THEN NoData ELSE top
      BY DEF Show
  <1>2. ProfileTypeOK'
      BY <1>1, Texts DEF IInv, Show, ProfileTypeOK
  <1>3. FileOfPerf'
      BY FileLeft DEF Show
  <1>4. Waited' /\ ShownIsTop'
      BY <1>1 DEF IInv, Show, Waited, ShownIsTop
  <1>5. TopOfFile'
      BY Texts DEF IInv, Show, TopOfFile
  <1> QED BY <1>2, <1>3, <1>4, <1>5 DEF IInv

-----------------------------------------------------------------------------
\* The theorems.

LEMMA StepIInv == IInv /\ [ProfileNext]_profileVars => IInv'
  <1> SUFFICES ASSUME IInv, [ProfileNext]_profileVars PROVE IInv'
      OBVIOUS
  <1>1. CASE Perf
      BY <1>1, OpensIInv, WritesIInv, EndsIInv, GivesUpIInv DEF Perf
  <1>2. CASE Aperf
      BY <1>2, PrepareIInv, RoundIInv, FinishIInv, CreateTopIInv, ReportIInv, FailIInv, ShowIInv
         DEF Aperf
  <1>3. CASE UNCHANGED profileVars
      BY <1>3 DEF profileVars, IInv, ProfileTypeOK, FileOfPerf, OnlyRecords, Underway, Complete, Waited,
                  TopOfFile, ShownIsTop
  <1> QED BY <1>1, <1>2, <1>3 DEF ProfileNext, ProfileTerminated

LEMMA SpecIInv == ProfileSpec => []IInv
    BY InitIInv, StepIInv, PTL DEF ProfileSpec

\* The variables of the collector and its child keep their types (the whole of
\* perf_profile.rs, with any number of blocks and rounds).
THEOREM ProfileTypes == ProfileSpec => []ProfileTypeOK
  <1>1. IInv => ProfileTypeOK
      BY DEF IInv
  <1> QED BY <1>1, SpecIInv, PTL

\* The report of a recording with --profile shows the functions of all that perf
\* has recorded, and says there are none only if there are none or the recording
\* was cut off (finish_data_collection and custom_raw_data_parser).
THEOREM FunctionsAreWhole == ProfileSpec => []TopFunctionsWhole
  <1>1. IInv => TopFunctionsWhole
    <2> SUFFICES ASSUME IInv, shown # Missing
                 PROVE  /\ shown.of = "functions" => perf = "ended" /\ shown.number = blocks
                        /\ shown = NoData => blocks = 0 \/ stage = "failed"
        BY DEF TopFunctionsWhole
    <2>1. CASE top = Missing
      <3>1. shown = NoData /\ stage \in {"done", "failed"}
          BY <2>1 DEF IInv, ShownIsTop, ProfileOver
      <3>2. stage = "done" => blocks = 0
          BY <2>1 DEF IInv, Waited, FileOfPerf, OnlyRecords
      <3> QED BY <3>1, <3>2, Texts
    <2>2. CASE top # Missing
        BY <2>2 DEF IInv, ShownIsTop, TopOfFile
    <2> QED BY <2>1, <2>2
  <1> QED BY <1>1, SpecIInv, PTL
=============================================================================
