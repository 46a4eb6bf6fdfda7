---------------------------- MODULE ReportProofs ----------------------------
(***************************************************************************)
(* Proofs about what a report shows: that runs are kept apart, for any     *)
(* recordings, reports and visualizers, and that the series plotted are    *)
(* what the counters say, for any samples and any number of them.          *)
(***************************************************************************)
EXTENDS Report, CounterSeries, SequenceTheorems, SumLemmas

-----------------------------------------------------------------------------
(***************************************************************************)
(* The inductive invariant.  A visualizer holds one run at a time, so the  *)
(* values of a run are safe once they are filed under its name, and stay   *)
(* so because no later run has that name.                                  *)
(***************************************************************************)

Finding == phase = "args"
Reading == phase \in {"init", "unpack"}
Shown == phase \in {"show", "done"}

\* The recordings found are where the arguments say, and there is one at least.
FoundInv == /\ \A i \in 1..Len(data_dirs) : data_dirs[i].from \in Reports
                    => data_dirs[i].place \in Inside[data_dirs[i].from]
            /\ Len(args) > 0
            /\ Finding => written = {} /\ (next > 1 => Len(data_dirs) > 0)
            /\ phase \in {"copy", "init", "unpack", "show", "done"} => Len(data_dirs) > 0
            /\ Reading => next \in 1..Len(data_dirs)
            /\ phase = "copy" => next \in 1..(Len(data_dirs) + 1)

\* From the copying on, no two recordings have the same name.
NamesInv == phase \in {"copy", "init", "unpack", "show", "done"} \/ written # {} =>
                \A i, j \in 1..Len(data_dirs) : NameAt(i) = NameAt(j) => i = j

\* The recordings whose archives are in the report, and whose values are kept.
Copied == IF Finding THEN {}
          ELSE IF phase = "copy" THEN 1..(next - 1)
          ELSE 1..Len(data_dirs)
Visited == IF Reading THEN 1..(next - 1)
           ELSE IF Shown THEN 1..Len(data_dirs)
           ELSE {}

\* Other reports keep their archives; this one gets those of its runs that it
\* did not hold itself, and a new one no other.
ArchiveInv ==
    /\ \A r \in Reports : r # Target =>
            \A p \in Inside[r] : archives[r][NameOf[p]] = p
    /\ phase \in {"args", "copy", "init", "unpack", "show", "done"} =>
            /\ \A i \in Copied : data_dirs[i].from # Target
                    => archives[Target][NameAt(i)] = PlaceAt(i)
            /\ Target = New => \A n \in Names : (\A i \in Copied : NameAt(i) # n)
                    => archives[New][n] = Nothing

\* What a visualizer reads of a recording that has a file for it.
ValueOf(v, p) == IF v = Flamegraph \/ v \in files[p].data THEN p ELSE Empty

\* The values of the runs visited are filed, and those of the run that is to be
\* read next are what every visualizer that has a file for it has turned to.
ValuesInv ==
    /\ \A i \in Visited, v \in Visualizers :
            /\ data_available[v][NameAt(i)] = (v \in files[PlaceAt(i)].file)
            /\ v \in files[PlaceAt(i)].file
                    => run_values[v][NameAt(i)] = ValueOf(v, PlaceAt(i))
    /\ phase = "unpack" => \A v \in Visualizers :
            /\ data_available[v][NameAt(next)] = (v \in files[PlaceAt(next)].file)
            /\ v \in files[PlaceAt(next)].file
                    => source[v] = PlaceAt(next) /\ offset[v] = "start"

Inv == /\ TypeOK
       /\ FoundInv
       /\ NamesInv
       /\ ArchiveInv
       /\ ValuesInv
       /\ phase = "refused" => written = {}
       /\ RunsKeptApart

-----------------------------------------------------------------------------
\* Lemmas about sequences and about the places found.

\* A function on 1..n is a sequence of length n.
LEMMA FunctionIsSeq ==
    ASSUME NEW S, NEW n \in Nat, NEW f \in [1..n -> S]
    PROVE  f \in Seq(S) /\ Len(f) = n
  OBVIOUS

\* A sequence whose elements are all in another set is a sequence over that set.
LEMMA SeqOfElements ==
    ASSUME NEW S, NEW T, NEW s \in Seq(S), \A i \in 1..Len(s) : s[i] \in T
    PROVE  s \in Seq(T)
  OBVIOUS

\* The archives of a report are a sequence of what it holds, and there is one.
LEMMA ArchivedAreInside ==
    ASSUME NEW r \in Reports, NEW order \in Archived(r)
    PROVE  /\ order \in Seq([place : Places, from : Reports \cup {Nothing}])
           /\ Len(order) > 0
           /\ \A i \in 1..Len(order) : order[i].from = r /\ order[i].place \in Inside[r]
  <1>1. /\ Inside[r] \subseteq Places /\ Inside[r] # {} /\ IsFiniteSet(Inside[r])
    BY Layout
  <1>2. Cardinality(Inside[r]) \in Nat /\ Cardinality(Inside[r]) # 0
    BY <1>1, FS_CardinalityType, FS_EmptySet
  <1>3. order \in [1..Cardinality(Inside[r]) -> [place : Inside[r], from : {r}]]
    BY DEF Archived
  <1>4. order \in Seq([place : Inside[r], from : {r}]) /\ Len(order) = Cardinality(Inside[r])
    BY <1>2, <1>3, FunctionIsSeq
  <1>5. \A i \in 1..Len(order) : order[i] \in [place : Inside[r], from : {r}]
    BY <1>2, <1>3, <1>4
  <1>6. \A i \in 1..Len(order) : /\ order[i] \in [place : Places, from : Reports \cup {Nothing}]
                                 /\ order[i].from = r /\ order[i].place \in Inside[r]
    BY <1>1, <1>5
  <1>7. order \in Seq([place : Places, from : Reports \cup {Nothing}])
    BY <1>4, <1>6, SeqOfElements
  <1>8. Len(order) > 0
    BY <1>2, <1>4
  <1> QED
    BY <1>6, <1>7, <1>8

\* Appending recordings whose origin is known keeps the origin of all known.
LEMMA FoundGrows ==
    ASSUME NEW s \in Seq([place : Places, from : Reports \cup {Nothing}]),
           NEW t \in Seq([place : Places, from : Reports \cup {Nothing}]), Len(t) > 0,
           \A i \in 1..Len(s) : s[i].from \in Reports => s[i].place \in Inside[s[i].from],
           \A i \in 1..Len(t) : t[i].from \in Reports => t[i].place \in Inside[t[i].from]
    PROVE  LET u == s \o t
           IN /\ u \in Seq([place : Places, from : Reports \cup {Nothing}])
              /\ Len(u) > 0
              /\ \A i \in 1..Len(u) :
                    u[i].from \in Reports => u[i].place \in Inside[u[i].from]
  <1> DEFINE u == s \o t
  <1>1. /\ u \in Seq([place : Places, from : Reports \cup {Nothing}])
        /\ Len(u) = Len(s) + Len(t)
        /\ \A i \in 1..Len(u) : u[i] = IF i <= Len(s) THEN s[i] ELSE t[i - Len(s)]
    BY ConcatProperties
  <1>2. \A i \in 1..Len(u) : u[i].from \in Reports => u[i].place \in Inside[u[i].from]
    <2> SUFFICES ASSUME NEW i \in 1..Len(u), u[i].from \in Reports
                 PROVE  u[i].place \in Inside[u[i].from]
      OBVIOUS
    <2>1. CASE i <= Len(s)
      BY <1>1, <2>1
    <2>2. CASE i > Len(s)
      <3>1. i - Len(s) \in 1..Len(t) /\ u[i] = t[i - Len(s)]
        BY <1>1, <2>2
      <3> QED
        BY <3>1
    <2> QED
      BY <2>1, <2>2
  <1> QED
    BY <1>1, <1>2

\* A recording found has a place and a name.
LEMMA PlacesHaveNames ==
    ASSUME TypeOK, NEW i \in 1..Len(data_dirs)
    PROVE  /\ PlaceAt(i) \in Places /\ NameAt(i) \in Names
           /\ data_dirs[i].from \in Reports \cup {Nothing}
           /\ NameAt(i) = NameOf[PlaceAt(i)]
  <1>1. data_dirs \in Seq([place : Places, from : Reports \cup {Nothing}])
    BY DEF TypeOK
  <1>2. data_dirs[i] \in [place : Places, from : Reports \cup {Nothing}]
    BY <1>1, ElementOfSeq
  <1> QED
    BY <1>2, Layout DEF PlaceAt, NameAt

LEMMA TargetType == TypeOK => Target \in Targets
  BY DEF TypeOK, Target, Targets

-----------------------------------------------------------------------------
LEMMA Initially == Init => Inv
  <1> SUFFICES ASSUME Init
               PROVE  Inv
    OBVIOUS
  <1> USE DEF Init
  <1>1. args \in Seq(Paths) /\ Len(args) > 0
    <2>1. PICK n \in 1..MaxArgs : args \in [1..n -> Paths]
      OBVIOUS
    <2>2. n \in Nat /\ n > 0
      BY Layout
    <2> QED
      BY <2>1, <2>2, FunctionIsSeq
  <1>2. \A r \in Reports : \A p \in Inside[r] : archives[r][NameOf[p]] = p
    <2> SUFFICES ASSUME NEW r \in Reports, NEW p \in Inside[r]
                 PROVE  archives[r][NameOf[p]] = p
      OBVIOUS
    <2>1. p \in Places /\ NameOf[p] \in Names /\ r # New /\ r \in Targets
      BY Layout DEF Targets
    <2>2. {q \in Inside[r] : NameOf[q] = NameOf[p]} = {p}
      BY Layout
    <2> QED
      BY <2>1, <2>2
  <1>3. archives \in [Targets -> [Names -> Places \cup {Nothing, Empty}]]
    <2> SUFFICES ASSUME NEW r \in Targets, NEW n \in Names
                 PROVE  (IF r = New THEN Nothing
                         ELSE LET here == {p \in Inside[r] : NameOf[p] = n}
                              IN IF here = {} THEN Nothing ELSE CHOOSE p \in here : TRUE)
                        \in Places \cup {Nothing, Empty}
      OBVIOUS
    <2>1. r # New => Inside[r] \subseteq Places
      BY Layout DEF Targets
    <2> QED
      BY <2>1
  <1>4. svgs \in [Targets -> SUBSET Names]
    <2> SUFFICES ASSUME NEW r \in Targets
                 PROVE  (IF r = New THEN {} ELSE
                         {NameOf[p] : p \in {q \in Inside[r] : Flamegraph \in files[q].file}})
                        \subseteq Names
      OBVIOUS
    <2>1. r # New => Inside[r] \subseteq Places
      BY Layout DEF Targets
    <2> QED
      BY <2>1, Layout
  <1>5. TypeOK
    BY <1>1, <1>3, <1>4 DEF TypeOK
  <1>6. FoundInv /\ NamesInv
    BY <1>1 DEF FoundInv, NamesInv, Finding, Reading
  <1>7. ArchiveInv
    <2>1. New \in Targets
      BY DEF Targets
    <2>2. \A n \in Names : archives[New][n] = Nothing
      BY <2>1
    <2> QED
      BY <1>2, <2>2 DEF ArchiveInv, Copied, Finding
  <1>8. ValuesInv /\ RunsKeptApart
    BY DEF ValuesInv, RunsKeptApart, Visited, Reading, Shown
  <1> QED
    BY <1>5, <1>6, <1>7, <1>8 DEF Inv

-----------------------------------------------------------------------------
LEMMA TakeArgStep ==
    ASSUME Inv, TakeArg
    PROVE  Inv'
  <1> USE DEF Inv, TakeArg, disk, visualizers, Goto
  <1>1. /\ \/ phase' = "args"
           \/ phase' = "failed" /\ data_dirs' = data_dirs
        /\ next' = next + 1 /\ phase = "args" /\ next \in Nat \ {0}
        /\ UNCHANGED <<args, name, files, archives, svgs, written, source, offset,
                       data_available, run_values, shown>>
    BY DEF TypeOK
  <1>2. /\ data_dirs' \in Seq([place : Places, from : Reports \cup {Nothing}])
        /\ \A i \in 1..Len(data_dirs') : data_dirs'[i].from \in Reports
                    => data_dirs'[i].place \in Inside[data_dirs'[i].from]
        /\ phase' = "args" => Len(data_dirs') > 0
    <2> DEFINE arg == args[next]
    <2>1. CASE arg \in Places /\ data_dirs' = data_dirs \o Recording(arg)
      <3>1. /\ Recording(arg) \in Seq([place : Places, from : Reports \cup {Nothing}])
            /\ Len(Recording(arg)) = 1 /\ Recording(arg)[1].from = Nothing
            /\ Recording(arg)[1].place = arg
        BY <2>1 DEF Recording
      <3>2. \A i \in 1..Len(Recording(arg)) : Recording(arg)[i].from \in Reports
                    => Recording(arg)[i].place \in Inside[Recording(arg)[i].from]
        <4>1. Nothing \notin Reports
          BY Distinct DEF Targets
        <4>2. \A i \in 1..Len(Recording(arg)) : i = 1
          BY <3>1
        <4> QED
          BY <3>1, <4>1, <4>2
      <3> QED
        <4>1. \A i \in 1..Len(data_dirs) : data_dirs[i].from \in Reports
                    => data_dirs[i].place \in Inside[data_dirs[i].from]
          BY DEF FoundInv
        <4>2. data_dirs \in Seq([place : Places, from : Reports \cup {Nothing}])
          BY DEF TypeOK
        <4> DEFINE t == Recording(arg)
        <4>3. /\ data_dirs \o t \in Seq([place : Places, from : Reports \cup {Nothing}])
              /\ Len(data_dirs \o t) > 0
              /\ \A i \in 1..Len(data_dirs \o t) : (data_dirs \o t)[i].from \in Reports
                    => (data_dirs \o t)[i].place \in Inside[(data_dirs \o t)[i].from]
          <5> HIDE DEF t
          <5> QED
            BY ONLY <3>1, <3>2, <4>1, <4>2, FoundGrows DEF t
        <4> QED
          BY ONLY <2>1, <4>3
    <2>2. CASE /\ arg \in Reports
               /\ \E order \in Archived(arg) : data_dirs' = data_dirs \o order
      <3>1. PICK order \in Archived(arg) : data_dirs' = data_dirs \o order
        BY <2>2
      <3>2. /\ order \in Seq([place : Places, from : Reports \cup {Nothing}])
            /\ Len(order) > 0
            /\ \A i \in 1..Len(order) : order[i].from = arg /\ order[i].place \in Inside[arg]
        BY <2>2, ArchivedAreInside
      <3>3. \A i \in 1..Len(order) : order[i].from \in Reports
                        => order[i].place \in Inside[order[i].from]
        BY <3>2
      <3> QED
        BY <3>1, <3>2, <3>3, FoundGrows DEF FoundInv, TypeOK
    <2>3. CASE data_dirs' = data_dirs /\ phase' = "failed"
      BY <2>3 DEF FoundInv, TypeOK
    <2> QED
      BY <2>1, <2>2, <2>3
  <1>3. TypeOK'
    BY <1>1, <1>2 DEF TypeOK, Ended
  <1>4. FoundInv' /\ NamesInv'
    BY <1>1, <1>2 DEF FoundInv, NamesInv, Finding, Reading
  <1>5. ArchiveInv' /\ ValuesInv' /\ RunsKeptApart'
    BY <1>1 DEF ArchiveInv, ValuesInv, RunsKeptApart, Copied, Visited, Finding, Reading,
       Shown, Target
  <1> QED
    BY <1>1, <1>3, <1>4, <1>5

LEMMA TakeNamesStep ==
    ASSUME Inv, TakeNames
    PROVE  Inv'
  <1> USE DEF Inv, TakeNames, visualizers, Goto
  <1>1. /\ phase = "args" /\ written = {} /\ Len(data_dirs) > 0 /\ Len(data_dirs) \in Nat
        /\ \/ phase' = "refused" /\ written' = {} /\ next' = next
           \/ phase' = "copy" /\ ~Duplicate /\ next' = 1 /\ written' = {Target}
        /\ UNCHANGED <<args, name, files, data_dirs, archives, svgs, source, offset,
                       data_available, run_values, shown>>
    BY DEF FoundInv, Finding, TypeOK
  <1>2. TypeOK'
    BY <1>1, TargetType DEF TypeOK, Ended
  <1>3. FoundInv' /\ NamesInv'
    BY <1>1 DEF FoundInv, NamesInv, Finding, Reading, Duplicate, NameAt
  <1>4. ArchiveInv'
    BY <1>1 DEF ArchiveInv, Copied, Finding, Target
  <1>5. ValuesInv' /\ RunsKeptApart'
    BY <1>1 DEF ValuesInv, RunsKeptApart, Visited, Reading, Shown
  <1> QED
    BY <1>1, <1>2, <1>3, <1>4, <1>5

LEMMA CopyArchiveStep ==
    ASSUME Inv, CopyArchive
    PROVE  Inv'
  <1> USE DEF Inv, CopyArchive, visualizers
  <1> DEFINE d == data_dirs[next]
  <1>1. /\ next \in 1..Len(data_dirs) /\ Len(data_dirs) \in Nat /\ phase = "copy"
        /\ Target \in Targets
    BY TargetType DEF TypeOK, FoundInv
  <1>2. /\ d.place \in Places /\ d.from \in Reports \cup {Nothing}
        /\ NameOf[d.place] \in Names
    BY <1>1, PlacesHaveNames DEF PlaceAt, NameAt
  <1>3. d.from # Target => Stored(d) = d.place
    <2>1. CASE d.from = Nothing
      BY <2>1 DEF Stored
    <2>2. CASE d.from \in Reports /\ d.from # Nothing
      BY <1>1, <2>2 DEF Stored, FoundInv, ArchiveInv
    <2> QED
      BY <1>2, <2>1, <2>2
  <1>4. Stored(d) \in Places \cup {Nothing, Empty}
    BY <1>2, <1>3 DEF Stored
  <1>5. TypeOK'
    BY <1>1, <1>2, <1>4 DEF TypeOK
  <1>6. FoundInv' /\ NamesInv' /\ ValuesInv' /\ RunsKeptApart'
    BY <1>1 DEF FoundInv, NamesInv, ValuesInv, RunsKeptApart, Finding, Reading, Shown,
       Visited, NameAt, PlaceAt
  <1>7. ArchiveInv'
    <2>1. \A r \in Reports : r # Target => archives'[r] = archives[r]
      BY <1>1 DEF TypeOK, Targets
    <2>2. Target = New => d.from # Target
      BY <1>2, Layout, Distinct DEF Targets
    <2>3. /\ d.from # Target => archives'[Target][NameAt(next)] = PlaceAt(next)
          /\ \A n \in Names : n # NameAt(next) => archives'[Target][n] = archives[Target][n]
      BY <1>1, <1>2, <1>3 DEF TypeOK, NameAt, PlaceAt
    <2>4. \A i \in 1..(next - 1) : NameAt(i) \in Names /\ NameAt(i) # NameAt(next)
      BY <1>1, PlacesHaveNames DEF NamesInv
    <2>5. Copied = 1..(next - 1) /\ Copied' = 1..next /\ Target' = Target /\ phase' = phase
          /\ next \in Nat
      BY <1>1 DEF Copied, Finding, Target
    <2>6. \A i \in 1..Len(data_dirs) : NameAt(i)' = NameAt(i) /\ PlaceAt(i)' = PlaceAt(i)
      BY DEF NameAt, PlaceAt
    <2>7. \A i \in Copied' : i \in Copied \/ i = next
      BY <1>1, <2>5
    <2>8. /\ \A i \in Copied' : data_dirs[i].from # Target
                => archives'[Target][NameAt(i)] = PlaceAt(i)
          /\ Target = New => \A n \in Names : (\A i \in Copied' : NameAt(i) # n)
                => archives'[New][n] = Nothing
      <3>1. \A i \in Copied : data_dirs[i].from # Target
                => archives'[Target][NameAt(i)] = PlaceAt(i)
        BY <1>1, <2>3, <2>4, <2>5 DEF ArchiveInv
      <3>2. ASSUME Target = New
            PROVE  \A n \in Names : (\A i \in Copied' : NameAt(i) # n)
                        => archives'[New][n] = Nothing
        BY <1>1, <2>3, <2>5, <3>2 DEF ArchiveInv
      <3> QED
        BY <2>3, <2>7, <3>1, <3>2
    <2>9. Copied' \subseteq 1..Len(data_dirs)
      BY <1>1, <2>5
    <2> QED
      BY <2>1, <2>5, <2>6, <2>8, <2>9 DEF ArchiveInv
  <1> QED
    BY <1>1, <1>5, <1>6, <1>7

LEMMA CopyOverStep ==
    ASSUME Inv, CopyOver
    PROVE  Inv'
  <1> USE DEF Inv, CopyOver, visualizers, disk, Goto
  <1>1. /\ phase = "copy" /\ phase' = "init" /\ next' = 1 /\ next = Len(data_dirs) + 1
        /\ Len(data_dirs) \in Nat /\ Len(data_dirs) > 0
        /\ UNCHANGED <<args, name, files, data_dirs, archives, svgs, written, source,
                       offset, data_available, run_values, shown>>
    BY DEF TypeOK, FoundInv
  <1>2. TypeOK' /\ FoundInv' /\ NamesInv'
    BY <1>1 DEF TypeOK, FoundInv, NamesInv, Finding, Reading, NameAt
  <1>3. ArchiveInv'
    <2>1. Copied' = Copied /\ Target' = Target
      BY <1>1 DEF Copied, Finding, Target
    <2> QED
      BY <1>1, <2>1 DEF ArchiveInv, NameAt, PlaceAt
  <1>4. ValuesInv' /\ RunsKeptApart'
    BY <1>1 DEF ValuesInv, RunsKeptApart, Visited, Reading, Shown
  <1> QED
    BY <1>1, <1>2, <1>3, <1>4

-----------------------------------------------------------------------------
LEMMA InitVisualizersStep ==
    ASSUME Inv, InitVisualizers
    PROVE  Inv'
  <1> USE DEF Inv, InitVisualizers, disk, Goto
  <1> DEFINE p == PlaceAt(next)
             n == NameAt(next)
             found == files[p].file
  <1>1. /\ phase = "init" /\ next \in 1..Len(data_dirs) /\ Len(data_dirs) \in Nat
        /\ phase' \in {"failed", "unpack"}
        /\ UNCHANGED <<args, name, files, next, data_dirs, archives, svgs, written, shown>>
    BY DEF TypeOK, FoundInv, Reading
  <1>2. p \in Places /\ n \in Names /\ n = NameOf[p]
    BY <1>1, PlacesHaveNames
  <1>3. \A v \in Visualizers :
           /\ data_available'[v] = [data_available[v] EXCEPT ![n] = v \in found]
           /\ v \in found => /\ source'[v] = p /\ offset'[v] = "start"
                             /\ run_values'[v] = [run_values[v] EXCEPT ![n] = Empty]
           /\ v \notin found => run_values'[v] = run_values[v]
    BY <1>1, <1>2 DEF Turned
  <1>4. TypeOK'
    <2>1. source' \in [Visualizers -> Places \cup {Nothing}]
      BY <1>2 DEF TypeOK, Turned
    <2>2. offset' \in [Visualizers -> {"start", "end"}]
      BY DEF TypeOK
    <2>3. data_available' \in [Visualizers -> [Names -> BOOLEAN]]
      <3>1. \A v \in Visualizers : data_available'[v] \in [Names -> BOOLEAN]
        BY <1>3, <1>2 DEF TypeOK
      <3> QED
        BY <3>1
    <2>4. run_values' \in [Visualizers -> [Names -> Places \cup {Nothing, Empty}]]
      <3>1. \A v \in Visualizers : run_values'[v] \in [Names -> Places \cup {Nothing, Empty}]
        BY <1>3, <1>2 DEF TypeOK
      <3> QED
        BY <3>1
    <2> QED
      BY <1>1, <2>1, <2>2, <2>3, <2>4 DEF TypeOK, Ended
  <1>5. FoundInv' /\ NamesInv'
    BY <1>1 DEF FoundInv, NamesInv, Finding, Reading, NameAt
  <1>6. ArchiveInv'
    BY <1>1 DEF ArchiveInv, Copied, Finding, Target, NameAt, PlaceAt
  <1>7. ValuesInv'
    <2>1. CASE phase' = "failed"
      BY <2>1 DEF ValuesInv, Visited, Reading, Shown
    <2>2. CASE phase' = "unpack"
      <3>1. Visited = 1..(next - 1) /\ Visited' = 1..(next - 1)
        BY <1>1, <2>2 DEF Visited, Reading
      <3>2. \A i \in 1..Len(data_dirs) : NameAt(i)' = NameAt(i) /\ PlaceAt(i)' = PlaceAt(i)
        BY <1>1 DEF NameAt, PlaceAt
      <3>3. \A i \in 1..(next - 1) :
               /\ i \in 1..Len(data_dirs) /\ NameAt(i) \in Names /\ NameAt(i) # n
        BY <1>1, PlacesHaveNames DEF NamesInv
      <3>4. \A i \in 1..(next - 1), v \in Visualizers :
               /\ data_available'[v][NameAt(i)] = data_available[v][NameAt(i)]
               /\ run_values'[v][NameAt(i)] = run_values[v][NameAt(i)]
        BY <1>2, <1>3, <3>3 DEF TypeOK
      <3>5. \A v \in Visualizers : data_available'[v][n] = (v \in found)
        BY <1>2, <1>3 DEF TypeOK
      <3>6. \A i \in 1..(next - 1), v \in Visualizers :
               /\ data_available'[v][NameAt(i)] = (v \in files[PlaceAt(i)].file)
               /\ v \in files[PlaceAt(i)].file
                    => run_values'[v][NameAt(i)] = ValueOf(v, PlaceAt(i))
        BY <3>1, <3>4 DEF ValuesInv
      <3>7. \A i \in Visited', v \in Visualizers :
               /\ data_available'[v][NameAt(i)'] = (v \in files'[PlaceAt(i)'].file)
               /\ v \in files'[PlaceAt(i)'].file
                    => run_values'[v][NameAt(i)'] = ValueOf(v, PlaceAt(i))'
        <4>1. Visited' = 1..(next - 1) /\ files' = files /\ data_dirs' = data_dirs
          BY <1>1, <3>1, <3>2, <3>3
        <4>2. \A i : NameAt(i)' = NameAt(i) /\ PlaceAt(i)' = PlaceAt(i)
          BY <1>1, <4>1 DEF NameAt, PlaceAt
        <4>3. \A v, p_ : ValueOf(v, p_)' = ValueOf(v, p_)
          BY <4>1 DEF ValueOf
        <4> QED
          BY ONLY <3>6, <4>1, <4>2, <4>3
      <3>8. \A v \in Visualizers :
               /\ data_available'[v][NameAt(next)'] = (v \in files'[PlaceAt(next)'].file)
               /\ v \in files'[PlaceAt(next)'].file
                    => source'[v] = PlaceAt(next)' /\ offset'[v] = "start"
        <4>1. NameAt(next)' = n /\ PlaceAt(next)' = p
          BY <1>1 DEF NameAt, PlaceAt
        <4> QED
          BY <1>1, <1>3, <3>5, <4>1
      <3> QED
        BY <1>1, <3>7, <3>8 DEF ValuesInv, NameAt, PlaceAt, ValueOf
    <2> QED
      BY <1>1, <2>1, <2>2
  <1>8. RunsKeptApart'
    BY <1>1 DEF RunsKeptApart
  <1> QED
    BY <1>1, <1>4, <1>5, <1>6, <1>7, <1>8

LEMMA UnpackDataStep ==
    ASSUME Inv, UnpackData
    PROVE  Inv'
  <1> USE DEF Inv, UnpackData, Goto
  <1> DEFINE n == NameAt(next)
  <1>1. /\ phase = "unpack" /\ next \in 1..Len(data_dirs) /\ Len(data_dirs) \in Nat
        /\ next \in Nat \ {0}
        /\ UNCHANGED <<args, name, files, data_dirs, archives, written, source,
                       data_available, shown>>
    BY DEF TypeOK, FoundInv, Reading
  <1>2. n \in Names /\ PlaceAt(next) \in Places /\ Target \in Targets
    BY <1>1, PlacesHaveNames, TargetType
  <1>3. CASE phase' = "failed" /\ UNCHANGED <<next, svgs, offset, run_values>>
    <2> USE <1>1, <1>3
    <2>1. TypeOK' /\ FoundInv' /\ NamesInv'
      BY DEF TypeOK, FoundInv, NamesInv, Finding, Reading, Ended, NameAt
    <2>2. ArchiveInv'
      BY DEF ArchiveInv, Copied, Finding, Target, NameAt, PlaceAt
    <2>3. ValuesInv' /\ RunsKeptApart' /\ phase' # "refused"
      BY DEF ValuesInv, RunsKeptApart, Visited, Reading, Shown
    <2> QED
      BY <2>1, <2>2, <2>3
  <1>4. CASE ~FileInTheWay(n)
    <2>1. /\ next' = next + 1
          /\ phase' = IF next = Len(data_dirs) THEN "show" ELSE "init"
          /\ \A v \in Visualizers :
                /\ Unpacks(v, n) => run_values'[v] = [run_values[v] EXCEPT ![n] = ValuesRead(v)]
                /\ ~Unpacks(v, n) => run_values'[v] = run_values[v]
      BY <1>4
    <2>2. \A v \in Visualizers : /\ Unpacks(v, n) = (v \in files[PlaceAt(next)].file)
                                 /\ Unpacks(v, n) => ValuesRead(v) = ValueOf(v, PlaceAt(next))
      BY <1>1 DEF Unpacks, ValuesRead, ValueOf, ValuesInv
    <2>3. \A v \in Visualizers : ValuesRead(v) \in Places \cup {Nothing, Empty}
      BY DEF ValuesRead, TypeOK
    <2>4. run_values' \in [Visualizers -> [Names -> Places \cup {Nothing, Empty}]]
      <3>1. ASSUME NEW v \in Visualizers
            PROVE  run_values'[v] \in [Names -> Places \cup {Nothing, Empty}]
        <4>1. run_values[v] \in [Names -> Places \cup {Nothing, Empty}]
          BY DEF TypeOK
        <4>2. CASE ~Unpacks(v, n)
          BY <2>1, <4>1, <4>2
        <4>3. CASE Unpacks(v, n)
          <5>1. run_values'[v] = [run_values[v] EXCEPT ![n] = ValuesRead(v)]
            BY <2>1, <4>3
          <5>2. ValuesRead(v) \in Places \cup {Nothing, Empty}
            BY <2>3
          <5> QED
            BY ONLY <1>2, <4>1, <5>1, <5>2
        <4> QED
          BY <4>2, <4>3
      <3>2. run_values' = [v \in Visualizers |-> run_values'[v]]
        BY <1>4
      <3> QED
        BY <3>1, <3>2
    <2>5. TypeOK'
      <3>1. svgs' \in [Targets -> SUBSET Names]
        <4>1. (IF Unpacks(Flamegraph, n) THEN svgs[Target] \cup {n} ELSE svgs[Target])
                 \subseteq Names
          BY <1>2 DEF TypeOK
        <4>2. svgs' = [svgs EXCEPT ![Target] =
                          IF Unpacks(Flamegraph, n) THEN svgs[Target] \cup {n} ELSE svgs[Target]]
          BY <1>4
        <4> QED
          BY <1>2, <4>1, <4>2 DEF TypeOK
      <3>2. offset' \in [Visualizers -> {"start", "end"}]
        BY <1>4 DEF TypeOK
      <3> QED
        BY <1>1, <2>1, <2>4, <3>1, <3>2 DEF TypeOK
    <2>6. FoundInv' /\ NamesInv'
      BY <1>1, <2>1 DEF FoundInv, NamesInv, Finding, Reading, NameAt
    <2>7. ArchiveInv'
      BY <1>1, <2>1 DEF ArchiveInv, Copied, Finding, Target, NameAt, PlaceAt
    <2>8. ValuesInv'
      <3>1. Visited = 1..(next - 1) /\ Visited' = 1..next
        BY <1>1, <2>1 DEF Visited, Reading, Shown
      <3>2. \A i \in 1..Len(data_dirs) : NameAt(i)' = NameAt(i) /\ PlaceAt(i)' = PlaceAt(i)
        BY <1>1 DEF NameAt, PlaceAt
      <3>3. \A i \in 1..(next - 1) :
               /\ i \in 1..Len(data_dirs) /\ NameAt(i) \in Names /\ NameAt(i) # n
        BY <1>1, PlacesHaveNames DEF NamesInv
      <3>4. \A i \in 1..(next - 1), v \in Visualizers :
               run_values'[v][NameAt(i)] = run_values[v][NameAt(i)]
        <4> SUFFICES ASSUME NEW i \in 1..(next - 1), NEW v \in Visualizers
                     PROVE  run_values'[v][NameAt(i)] = run_values[v][NameAt(i)]
          OBVIOUS
        <4>1. NameAt(i) \in Names /\ NameAt(i) # n
          BY <3>3
        <4>2. run_values[v] \in [Names -> Places \cup {Nothing, Empty}]
          BY DEF TypeOK
        <4>3. \/ run_values'[v] = run_values[v]
              \/ run_values'[v] = [run_values[v] EXCEPT ![n] = ValuesRead(v)]
          BY <2>1
        <4> QED
          BY <4>1, <4>2, <4>3
      <3>5. \A v \in Visualizers :
               /\ data_available[v][n] = (v \in files[PlaceAt(next)].file)
               /\ v \in files[PlaceAt(next)].file
                    => run_values'[v][n] = ValueOf(v, PlaceAt(next))
        BY <1>2, <2>1, <2>2 DEF TypeOK, Unpacks
      <3>6. \A i \in 1..next, v \in Visualizers :
               /\ data_available[v][NameAt(i)] = (v \in files[PlaceAt(i)].file)
               /\ v \in files[PlaceAt(i)].file
                    => run_values'[v][NameAt(i)] = ValueOf(v, PlaceAt(i))
        <4> SUFFICES ASSUME NEW i \in 1..next, NEW v \in Visualizers
                     PROVE  /\ data_available[v][NameAt(i)] = (v \in files[PlaceAt(i)].file)
                            /\ v \in files[PlaceAt(i)].file
                                => run_values'[v][NameAt(i)] = ValueOf(v, PlaceAt(i))
          OBVIOUS
        <4>1. CASE i = next
          BY <3>5, <4>1
        <4>2. CASE i \in 1..(next - 1)
          BY <3>1, <3>4, <4>2 DEF ValuesInv
        <4> QED
          BY <1>1, <4>1, <4>2
      <3>7. phase' # "unpack" /\ \A i \in 1..next : i \in 1..Len(data_dirs)
        BY <1>1, <2>1
      <3>8. \A v, p : ValueOf(v, p)' = ValueOf(v, p)
        BY <1>1 DEF ValueOf
      <3>9. \A i : NameAt(i)' = NameAt(i) /\ PlaceAt(i)' = PlaceAt(i)
        BY <1>1 DEF NameAt, PlaceAt
      <3> QED
        BY <1>1, <3>1, <3>2, <3>6, <3>7, <3>8, <3>9 DEF ValuesInv
    <2>9. RunsKeptApart' /\ phase' # "refused"
      BY <2>1 DEF RunsKeptApart
    <2> QED
      BY <2>5, <2>6, <2>7, <2>8, <2>9
  <1> QED
    BY <1>3, <1>4

LEMMA ShowStep ==
    ASSUME Inv, Show
    PROVE  Inv'
  <1> USE DEF Inv, Show, disk, visualizers, Goto
  <1>1. /\ phase = "show" /\ phase' = "done"
        /\ UNCHANGED <<args, name, files, next, data_dirs, archives, svgs, written, source,
                       offset, data_available, run_values>>
    OBVIOUS
  <1>2. \A i \in 1..Len(data_dirs), v \in Visualizers :
           shown'[v][NameAt(i)] = Answer(v, NameAt(i))
    BY PlacesHaveNames
  <1>3. \A i \in 1..Len(data_dirs), v \in Visualizers :
           Answer(v, NameAt(i)) =
                IF \/ v \in files[PlaceAt(i)].data
                   \/ v = Flamegraph /\ v \in files[PlaceAt(i)].file
                THEN PlaceAt(i) ELSE NoData
    <2> SUFFICES ASSUME NEW i \in 1..Len(data_dirs), NEW v \in Visualizers
                 PROVE  Answer(v, NameAt(i)) =
                            IF \/ v \in files[PlaceAt(i)].data
                               \/ v = Flamegraph /\ v \in files[PlaceAt(i)].file
                            THEN PlaceAt(i) ELSE NoData
      OBVIOUS
    <2>1. PlaceAt(i) \in Places /\ Empty # PlaceAt(i)
      BY PlacesHaveNames, Distinct
    <2>2. files[PlaceAt(i)].data \subseteq files[PlaceAt(i)].file
      <3>1. files[PlaceAt(i)] \in Contents
        BY <2>1 DEF TypeOK
      <3> QED
        BY <3>1, Layout
    <2>3. /\ data_available[v][NameAt(i)] = (v \in files[PlaceAt(i)].file)
          /\ v \in files[PlaceAt(i)].file
                    => run_values[v][NameAt(i)] = ValueOf(v, PlaceAt(i))
      BY <1>1 DEF ValuesInv, Visited, Reading, Shown
    <2> QED
      BY <2>1, <2>2, <2>3 DEF Answer, ValueOf
  <1>4. TypeOK'
    <2>1. shown' \in [Visualizers -> [Names -> Places \cup {Nothing, NoData}]]
      <3> SUFFICES ASSUME NEW v \in Visualizers, NEW m \in Names
                   PROVE  (IF \E i \in 1..Len(data_dirs) : NameAt(i) = m
                           THEN Answer(v, m) ELSE Nothing) \in Places \cup {Nothing, NoData}
        OBVIOUS
      <3> QED
        BY DEF Answer, TypeOK
    <2> QED
      BY <1>1, <2>1 DEF TypeOK, Ended
  <1>5. FoundInv' /\ NamesInv' /\ ArchiveInv' /\ ValuesInv'
    BY <1>1 DEF FoundInv, NamesInv, ArchiveInv, ValuesInv, Finding, Reading, Shown, Copied,
       Visited, Target, NameAt, PlaceAt, ValueOf
  <1>6. RunsKeptApart'
    BY <1>1, <1>2, <1>3 DEF RunsKeptApart, NameAt, PlaceAt
  <1> QED
    BY <1>1, <1>4, <1>5, <1>6

LEMMA FailStep ==
    ASSUME Inv, Fail
    PROVE  Inv'
  <1> USE DEF Fail, disk, visualizers, Goto
  <1>1. TypeOK' /\ RunsKeptApart' /\ phase' # "refused"
    BY DEF Inv, TypeOK, Ended, RunsKeptApart
  <1>2. FoundInv' /\ NamesInv'
    BY DEF Inv, FoundInv, NamesInv, Finding, Reading, NameAt
  <1>3. ArchiveInv'
    BY DEF Inv, ArchiveInv, Copied, Finding, Target, NameAt, PlaceAt
  <1>4. ValuesInv'
    BY DEF Inv, ValuesInv, Visited, Reading, Shown, NameAt, PlaceAt, ValueOf
  <1> QED
    BY <1>1, <1>2, <1>3, <1>4 DEF Inv

-----------------------------------------------------------------------------
\* Every step keeps the invariant.
LEMMA Inductive == Inv /\ [Next]_vars => Inv'
  <1>1. ASSUME Inv, UNCHANGED vars
        PROVE  Inv'
    <2> USE <1>1
    <2>9. /\ UNCHANGED <<args, name, files, phase, next, data_dirs, archives, svgs, written>>
          /\ UNCHANGED <<source, offset, data_available, run_values, shown>>
      BY DEF vars, disk, visualizers
    <2> USE <2>9
    <2>1. TypeOK' /\ RunsKeptApart' /\ (phase' = "refused" => written' = {})
      <3>1. TypeOK'
        BY DEF Inv, TypeOK
      <3>2. RunsKeptApart'
        BY DEF Inv, RunsKeptApart, NameAt, PlaceAt
      <3> QED
        BY <3>1, <3>2 DEF Inv
    <2>2. FoundInv' /\ NamesInv'
      BY DEF Inv, FoundInv, NamesInv, Finding, Reading, NameAt
    <2>3. ArchiveInv'
      BY DEF Inv, ArchiveInv, Copied, Finding, Target, NameAt, PlaceAt
    <2>4. ValuesInv'
      BY DEF Inv, ValuesInv, Visited, Reading, Shown, NameAt, PlaceAt, ValueOf
    <2> QED
      BY <2>1, <2>2, <2>3, <2>4 DEF Inv
  <1> QED
    BY <1>1, TakeArgStep, TakeNamesStep, CopyArchiveStep, CopyOverStep, InitVisualizersStep,
       UnpackDataStep, ShowStep, FailStep, Zenon DEF Next, Terminated

LEMMA Invariance == Spec => []Inv
  BY Initially, Inductive, PTL DEF Spec

-----------------------------------------------------------------------------
\* One visualizer reads all runs, yet the report shows each run its own data.
THEOREM RunsAreKeptApart == Spec => []RunsKeptApart
  <1>1. Inv => RunsKeptApart
    BY DEF Inv
  <1> QED
    BY <1>1, Invariance, PTL

\* No report has two runs of one name, and for such none is begun.
THEOREM NamesAreUnique == Spec => []NamesUnique
  <1>1. Inv => NamesUnique
    BY DEF Inv, NamesInv, NamesUnique
  <1> QED
    BY <1>1, Invariance, PTL

\* An archive in a report is that of the run, unless it was there before, and a
\* new report has no other.
THEOREM ArchivesAreCopied == Spec => []ArchivesCopied
  <1>1. phase \in {"init", "unpack", "show", "done"} => Copied = 1..Len(data_dirs)
    BY DEF Copied, Finding
  <1>2. Inv => ArchivesCopied
    BY <1>1 DEF Inv, ArchiveInv, ArchivesCopied
  <1> QED
    BY <1>2, Invariance, PTL

\* The report's variables have values of their kinds.
THEOREM ReportTypes == Spec => []TypeOK
  <1>1. Inv => TypeOK
    BY DEF Inv
  <1> QED
    BY <1>1, Invariance, PTL

-----------------------------------------------------------------------------
(***************************************************************************)
(* The series.  Each loop has its own part of the invariant, which relates *)
(* what is plotted so far to the samples before the one that is next.      *)
(***************************************************************************)

\* The samples recorded are of S.
Recorded(S) == /\ Len(samples) \in Nat \ {0} /\ DOMAIN samples = 1..Len(samples)
               /\ \A i \in 1..Len(samples) : samples[i] \in S

LEMMA RecordingIs ==
    ASSUME NEW S, samples \in Recordings(S)
    PROVE  Recorded(S) /\ samples[1] \in S
  <1>1. PICK n \in 1..MaxSamples : samples \in [1..n -> S]
      BY DEF Recordings
  <1>2. n \in Nat \ {0} /\ Len(samples) = n
      BY <1>1, Bounds
  <1> QED BY <1>1, <1>2 DEF Recorded

LEMMA PartIs ==
    ASSUME NEW S, NEW max \in Nat, NEW f \in PartOf(S, max)
    PROVE  /\ DOMAIN f \in SUBSET S
           /\ \A x \in DOMAIN f : f[x] \in Nat /\ f[x] <= max
  <1>1. PICK T \in SUBSET S : f \in [T -> 0..max]
      BY DEF PartOf
  <1> QED BY <1>1

\* A step of no file's loop changes nothing but the status.
Stays == UNCHANGED <<file, samples, at, prev, values, limits>>

\* The sample that the next one is compared with.
Past == samples[IF at = 1 THEN 1 ELSE at - 1]

Placed == at \in Nat \ {0} /\ at <= Len(samples) + 1

LEMMA Onward ==
    ASSUME Placed, Len(samples) \in Nat \ {0}, at <= Len(samples), Walk, prev' = Now
    PROVE  Placed' /\ prev' = Past' /\ at \in 1..Len(samples)
  BY DEF Placed, Walk, Now, Past

-----------------------------------------------------------------------------
\* Limits.

\* The limits l are those of the values P.
Limited(l, P) ==
    IF P = {} THEN l = NoLimits
    ELSE /\ l.init_done /\ l.low \in Nat /\ l.high \in Nat
         /\ \A n \in P : l.low <= Floor(n) /\ Ceil(n) <= l.high
         /\ \E n \in P : l.low = Floor(n)
         /\ l.high = 0 \/ \E n \in P : l.high = Ceil(n)

LEMMA RoundedTypes ==
    /\ Unit \in Nat \ {0}
    /\ \A n \in Int : Floor(n) \in Nat /\ Ceil(n) \in Nat
  <1>1. Unit \in Nat \ {0}
      BY Bounds DEF Unit
  <1>2. \A n \in Int : n \div Unit \in Int /\ -n \in Int /\ (-n) \div Unit \in Int
      BY <1>1
  <1>3. \A n \in Int : ToUnsigned(n) \in Nat
      BY DEF ToUnsigned
  <1> QED BY <1>1, <1>2, <1>3 DEF Floor, Ceil

LEMMA LimitsGrow ==
    ASSUME NEW l, NEW P \in SUBSET Int, NEW S \in SUBSET Int, IsFiniteSet(S), Limited(l, P)
    PROVE  Limited(WithLimits(l, S), P \cup S)
  <1>1. CASE S = {}
      BY <1>1 DEF WithLimits
  <1>2. CASE S # {}
    <2> DEFINE f == [n \in S |-> Floor(n)]
               c == [n \in S |-> Ceil(n)]
               lows == {Floor(n) : n \in S} \cup {low \in {l.low} : l.init_done}
               highs == {Ceil(n) : n \in S} \cup {l.high}
               w == WithLimits(l, S)
    <2>1. \A n \in S : f[n] = Floor(n) /\ f[n] \in Nat /\ c[n] = Ceil(n) /\ c[n] \in Nat
        BY RoundedTypes
    <2>2. \A n \in P : Floor(n) \in Nat /\ Ceil(n) \in Nat
        BY RoundedTypes
    <2> HIDE DEF f, c
    <2>3. PICK a \in S : \A n \in S : f[a] <= f[n]
      <3>1. \A n \in S : f[n] \in Int
          BY <2>1
      <3> QED BY ONLY <1>2, <3>1, IsFiniteSet(S), HasLeast
    <2>4. PICK b \in S : \A n \in S : c[n] <= c[b]
      <3>1. \A n \in S : c[n] \in Int
          BY <2>1
      <3> QED BY ONLY <1>2, <3>1, IsFiniteSet(S), HasGreatest
    <2>5. l.high \in Nat /\ (P # {} => l.init_done /\ l.low \in Nat) /\ (P = {} => ~l.init_done)
      <3>1. CASE P = {}
          BY <3>1 DEF Limited, NoLimits
      <3>2. CASE P # {}
          BY <3>2 DEF Limited
      <3> QED BY <3>1, <3>2
    <2>6. lows \in SUBSET Nat /\ highs \in SUBSET Nat
        BY <2>1, <2>5
    <2>7. \E m \in lows : \A y \in lows : m <= y
      <3>1. CASE l.init_done /\ l.low <= Floor(a)
          BY <2>1, <2>3, <2>5, <3>1
      <3>2. CASE ~(l.init_done /\ l.low <= Floor(a))
        <4>1. \A y \in lows : Floor(a) <= y
            BY <2>1, <2>3, <2>5, <3>2
        <4> QED BY <4>1
      <3> QED BY <3>1, <3>2
    <2>8. \E m \in highs : \A y \in highs : m >= y
      <3>1. CASE l.high >= Ceil(b)
          BY <2>1, <2>4, <2>5, <3>1
      <3>2. CASE ~(l.high >= Ceil(b))
        <4>1. \A y \in highs : Ceil(b) >= y
            BY <2>1, <2>4, <2>5, <3>2
        <4> QED BY <4>1
      <3> QED BY <3>1, <3>2
    <2> HIDE DEF lows, highs
    <2>9. Min(lows) \in lows /\ \A y \in lows : Min(lows) <= y
      <3>1. PICK m \in lows : \A y \in lows : m <= y
          BY <2>7
      <3>2. Min(lows) = m
          BY ONLY <2>6, <3>1, MinIs
      <3> QED BY <3>1, <3>2
    <2>10. Max(highs) \in highs /\ \A y \in highs : Max(highs) >= y
      <3>1. PICK m \in highs : \A y \in highs : m >= y
          BY <2>8
      <3>2. Max(highs) = m
          BY ONLY <2>6, <3>1, MaxIs
      <3> QED BY <3>1, <3>2
    <2>11. w = [low |-> Min(lows), high |-> Max(highs), init_done |-> TRUE]
        BY <1>2 DEF WithLimits, lows, highs
    <2>12. w.low \in lows /\ w.high \in highs /\ w.init_done /\ w.low \in Nat /\ w.high \in Nat
           /\ (\A y \in lows : w.low <= y) /\ (\A y \in highs : y <= w.high)
      <3>1. w.low = Min(lows) /\ w.high = Max(highs) /\ w.init_done
          BY <2>11
      <3> HIDE DEF w
      <3>2. \A y \in highs : y <= Max(highs)
          BY <2>6, <2>10
      <3> QED BY <2>6, <2>9, <2>10, <3>1, <3>2
    <2> HIDE DEF w
    <2> USE DEF lows, highs
    <2>13. P \cup S # {}
        BY <1>2
    <2>14. \A n \in P \cup S : w.low <= Floor(n) /\ Ceil(n) <= w.high
      <3>1. \A n \in S : w.low <= Floor(n) /\ Ceil(n) <= w.high
          BY <2>12
      <3>2. \A n \in P : w.low <= Floor(n) /\ Ceil(n) <= w.high
        <4>1. SUFFICES ASSUME NEW n \in P PROVE w.low <= Floor(n) /\ Ceil(n) <= w.high
            OBVIOUS
        <4>2. l.low <= Floor(n) /\ Ceil(n) <= l.high
            BY DEF Limited
        <4>3. w.low <= l.low /\ l.high <= w.high
            BY <2>5, <2>12, <4>1
        <4> QED BY <2>2, <2>5, <2>12, <4>1, <4>2, <4>3
      <3> QED BY <3>1, <3>2
    <2>15. \E n \in P \cup S : w.low = Floor(n)
      <3>1. CASE w.low \in {Floor(n) : n \in S}
          BY <3>1
      <3>2. CASE w.low \notin {Floor(n) : n \in S}
        <4>1. P # {} /\ w.low = l.low
            BY <2>5, <2>12, <3>2
        <4> QED BY <4>1 DEF Limited
      <3> QED BY <3>1, <3>2
    <2>16. w.high = 0 \/ \E n \in P \cup S : w.high = Ceil(n)
      <3>1. CASE w.high \in {Ceil(n) : n \in S}
          BY <3>1
      <3>2. CASE w.high = l.high
        <4>1. CASE P = {}
            BY <3>2, <4>1 DEF Limited, NoLimits
        <4>2. CASE P # {}
            BY <3>2, <4>2 DEF Limited
        <4> QED BY <4>1, <4>2
      <3> QED BY <2>12, <3>1, <3>2
    <2>17. Limited(w, P \cup S)
        BY <2>12, <2>13, <2>14, <2>15, <2>16 DEF Limited
    <2> QED BY <2>17 DEF w
  <1> QED BY <1>1, <1>2

\* What LimitsFit says of some values.
Fit(P) == /\ \A n \in P : limits.low * Unit <= n /\ n <= limits.high * Unit
          /\ \E n \in P : n < (limits.low + 1) * Unit
          /\ \E n \in P : n > (limits.high - 1) * Unit

LEMMA LimitsAre ==
    ASSUME NEW P \in SUBSET Nat, P # {}, Limited(limits, P)
    PROVE  Fit(P)
  <1> DEFINE u == Unit
             lo == limits.low
             hi == limits.high
             fl(n) == n \div u
             ce(n) == -((-n) \div u)
  <1>1. u \in Nat \ {0} /\ lo \in Nat /\ hi \in Nat
      BY RoundedTypes DEF Limited
  <1>2. \A n \in P : /\ Floor(n) = fl(n) /\ fl(n) \in Nat /\ fl(n) * u <= n /\ n < (fl(n) + 1) * u
                     /\ Ceil(n) = ce(n) /\ ce(n) \in Nat /\ n <= ce(n) * u /\ (ce(n) - 1) * u < n
    <2> HIDE DEF u
    <2>1. SUFFICES ASSUME NEW n \in P
                   PROVE /\ Floor(n) = fl(n) /\ fl(n) \in Nat /\ fl(n) * u <= n /\ n < (fl(n) + 1) * u
                         /\ Ceil(n) = ce(n) /\ ce(n) \in Nat /\ n <= ce(n) * u /\ (ce(n) - 1) * u < n
        OBVIOUS
    <2>2. n \in Nat
        BY <2>1
    <2>3. fl(n) \in Nat /\ fl(n) * u <= n /\ n < (fl(n) + 1) * u
        BY <1>1, <2>2
    <2>4. (-n) \div u \in Int /\ ((-n) \div u) * u <= -n /\ -n < (((-n) \div u) + 1) * u
        BY <1>1, <2>2
    <2>5. ce(n) \in Nat /\ n <= ce(n) * u /\ (ce(n) - 1) * u < n
        BY <1>1, <2>2, <2>4
    <2>6. Floor(n) = fl(n)
        BY <2>3 DEF Floor, ToUnsigned, u
    <2>7. Ceil(n) = ce(n)
        BY <2>5 DEF Ceil, ToUnsigned, u
    <2> QED BY <2>3, <2>5, <2>6, <2>7
  <1> HIDE DEF u, lo, hi, fl, ce
  <1>3. /\ \A n \in P : lo <= fl(n) /\ ce(n) <= hi
        /\ \E n \in P : lo = fl(n)
        /\ hi = 0 \/ \E n \in P : hi = ce(n)
      BY <1>2 DEF Limited, lo, hi
  <1>4. \A a, b \in Nat : a <= b => a * u <= b * u
      BY <1>1
  <1>5. \A n \in P : lo * u <= n /\ n <= hi * u
    <2> SUFFICES ASSUME NEW n \in P PROVE lo * u <= n /\ n <= hi * u
        OBVIOUS
    <2>1. lo * u <= fl(n) * u /\ ce(n) * u <= hi * u
        BY <1>1, <1>2, <1>3, <1>4
    <2>2. lo * u \in Int /\ hi * u \in Int /\ fl(n) * u \in Int /\ ce(n) * u \in Int /\ n \in Int
        BY <1>1, <1>2
    <2> QED BY <1>2, <2>1, <2>2
  <1>6. \E n \in P : n < (lo + 1) * u
      BY <1>2, <1>3
  <1>7. \E n \in P : n > (hi - 1) * u
    <2>1. CASE hi = 0
      <3>1. PICK n \in P : n \in Nat
          OBVIOUS
      <3>2. (hi - 1) * u < 0 /\ (hi - 1) * u \in Int
          BY <1>1, <2>1
      <3> QED BY <3>1, <3>2
    <2>2. CASE hi # 0
        BY <1>2, <1>3, <2>2
    <2> QED BY <2>1, <2>2
  <1> QED BY <1>5, <1>6, <1>7 DEF Fit, u, lo, hi

\* The limits of the next state are read in the same unit.
LEMMA LimitsStay ==
    ASSUME file' = file, NEW P, Limited(limits', P)
    PROVE  Limited(limits, P)'
  BY DEF Limited, Floor, Ceil, Unit, ToUnsigned, NoLimits

-----------------------------------------------------------------------------
\* Disks.

Points == UNION {Range(values[d]) : d \in DOMAIN values}

DiskTypes == /\ Recorded(PartOf(Disks, MaxCount)) /\ Placed /\ prev = Past
             /\ DOMAIN values = DOMAIN samples[1]
             /\ \A d \in DOMAIN values : values[d] \in Seq(Int)
             /\ Limited(limits, Points)

\* How many of the first i samples have the disk d.
Since(d, i) == Cardinality({j \in 1..i : d \in DOMAIN samples[j]})

Advanced(d) == SumFunction(values[d]) = prev[d] - samples[1][d] /\ Len(values[d]) = at - 1
Gauged(d) == /\ Len(values[d]) = Since(d, at - 1)
             /\ \A i \in 1..(at - 1) :
                    d \in DOMAIN samples[i] => values[d][Since(d, i)] = samples[i][d]

DiskInv == file \in {"disk", "disk_gauge"} =>
               /\ DiskTypes
               /\ file = "disk" => /\ DOMAIN prev \in SUBSET (DOMAIN values)
                                   /\ \A d \in DOMAIN prev : Advanced(d)
               /\ file = "disk_gauge" => \A d \in DOMAIN values : Gauged(d)

LEMMA SeqIs ==
    ASSUME NEW s \in Seq(Int)
    PROVE  /\ Len(s) \in Nat /\ s \in [1..Len(s) -> Int] /\ DOMAIN s = 1..Len(s)
  OBVIOUS

LEMMA Appended ==
    ASSUME NEW s \in Seq(Int), NEW n \in Int
    PROVE  /\ Append(s, n) \in Seq(Int)
           /\ Len(Append(s, n)) = Len(s) + 1
           /\ Append(s, n)[Len(s) + 1] = n
           /\ \A i \in 1..Len(s) : Append(s, n)[i] = s[i]
           /\ Range(Append(s, n)) = Range(s) \cup {n}
           /\ SumFunction(Append(s, n)) = SumFunction(s) + n
           /\ SumFunction(s) \in Int
  <1> DEFINE t == Append(s, n)
  <1>1. /\ t \in Seq(Int) /\ Len(t) = Len(s) + 1 /\ t[Len(s) + 1] = n
        /\ \A i \in 1..Len(s) : t[i] = s[i]
      BY AppendProperties
  <1>2. /\ Len(s) \in Nat /\ s \in [1..Len(s) -> Int] /\ DOMAIN s = 1..Len(s)
        /\ t \in [1..(Len(s) + 1) -> Int] /\ DOMAIN t = 1..(Len(s) + 1)
    <2> HIDE DEF t
    <2> QED BY <1>1, SeqIs
  <1> HIDE DEF t
  <1>3. Range(t) = Range(s) \cup {n}
    <2>1. \A i : i \in 1..(Len(s) + 1) <=> i \in 1..Len(s) \/ i = Len(s) + 1
        BY <1>2
    <2>2. Range(t) = {t[i] : i \in 1..(Len(s) + 1)} /\ Range(s) = {s[i] : i \in 1..Len(s)}
        BY <1>2 DEF Range
    <2>3. \A y : y \in Range(t) <=> y \in Range(s) \/ y = n
        BY <1>1, <2>1, <2>2
    <2> QED BY <2>3
  <1>4. SumFunction(t) = SumFunction(s) + t[Len(s) + 1] /\ SumFunction(s) \in Int
      BY ONLY <1>1, <1>2, SumAppend
  <1> QED BY <1>1, <1>3, <1>4 DEF t

LEMMA NothingPlotted == Range(<<>>) = {}
  <1>1. DOMAIN <<>> = {}
      OBVIOUS
  <1> QED BY <1>1 DEF Range

LEMMA SumNothing == SumFunction(<<>>) = 0
  <1>1. DOMAIN <<>> = {}
      OBVIOUS
  <1> QED BY <1>1, SumEmpty DEF SumFunction

LEMMA DiskInit == SeriesInit => DiskInv
  <1> SUFFICES ASSUME SeriesInit, file \in {"disk", "disk_gauge"} PROVE DiskInv
      BY DEF DiskInv
  <1>1. /\ samples \in Recordings(PartOf(Disks, MaxCount))
        /\ at = 1 /\ prev = samples[1] /\ limits = NoLimits
      BY DEF SeriesInit
  <1>2. Recorded(PartOf(Disks, MaxCount)) /\ samples[1] \in PartOf(Disks, MaxCount)
      BY <1>1, RecordingIs
  <1>3. Placed /\ prev = Past
      BY <1>1, <1>2 DEF Placed, Past, Recorded
  <1>4. DOMAIN values = DOMAIN samples[1] /\ \A d \in DOMAIN values : values[d] = <<>>
      BY DEF SeriesInit
  <1>5. Points = {}
    <2> QED BY <1>4, NothingPlotted DEF Points
  <1>6. DiskTypes
    <2>1. <<>> \in Seq(Int)
        BY EmptySeq
    <2> QED BY <1>1, <1>2, <1>3, <1>4, <1>5, <2>1 DEF DiskTypes, Limited
  <1>7. \A d \in DOMAIN samples[1] : samples[1][d] \in Nat
      BY <1>2, PartIs, Bounds
  <1>8. ASSUME NEW d \in DOMAIN values PROVE Advanced(d) /\ Gauged(d)
    <2>1. d \in DOMAIN samples[1] /\ Len(values[d]) = 0 /\ SumFunction(values[d]) = 0
        BY <1>4, <1>8, SumNothing
    <2>2. Advanced(d)
        BY <1>1, <1>7, <2>1 DEF Advanced
    <2>3. 1..(at - 1) = {}
        BY <1>1
    <2>4. Since(d, at - 1) = 0
        BY <2>3, FS_EmptySet DEF Since
    <2> QED BY <2>1, <2>2, <2>3, <2>4 DEF Gauged
  <1> QED BY <1>1, <1>4, <1>6, <1>8 DEF DiskInv

\* What both loops do with the values v of a sample.
Plotted(v) == /\ values' = [d \in DOMAIN values |->
                    IF d \in DOMAIN Now THEN Append(values[d], v[d]) ELSE values[d]]
              /\ limits' = WithLimits(limits, Range(v))

LEMMA DiskFed ==
    ASSUME DiskTypes, at <= Len(samples), Walk, prev' = Now,
           NEW v, DOMAIN v = DOMAIN Now, DOMAIN Now \in SUBSET (DOMAIN values),
           \A d \in DOMAIN v : v[d] \in Int, Plotted(v)
    PROVE  /\ DiskTypes' /\ DOMAIN values' = DOMAIN values
           /\ \A d \in DOMAIN values \ DOMAIN Now : values'[d] = values[d]
           /\ \A d \in DOMAIN Now : values'[d] = Append(values[d], v[d])
  <1>1. /\ DOMAIN values' = DOMAIN values
        /\ \A d \in DOMAIN values \ DOMAIN Now : values'[d] = values[d]
        /\ \A d \in DOMAIN Now : values'[d] = Append(values[d], v[d])
      BY DEF Plotted
  <1>2. file' = file /\ samples' = samples /\ at' = at + 1
      BY DEF Walk
  <1>3. Recorded(PartOf(Disks, MaxCount))'
      BY <1>2 DEF DiskTypes, Recorded
  <1>4. Placed' /\ prev' = Past' /\ at \in 1..Len(samples)
      BY Onward DEF DiskTypes, Recorded
  <1>9. \A d \in DOMAIN values : values[d] \in Seq(Int)
      BY DEF DiskTypes
  <1>10. ASSUME NEW d \in DOMAIN Now
         PROVE  values'[d] \in Seq(Int) /\ Range(values'[d]) = Range(values[d]) \cup {v[d]}
    <2>1. d \in DOMAIN values /\ values[d] \in Seq(Int) /\ v[d] \in Int
        BY <1>9, <1>10
    <2> DEFINE s == values[d]
               n == v[d]
    <2>2. s \in Seq(Int) /\ n \in Int
        BY <2>1
    <2>3. values'[d] = Append(s, n)
        BY <1>1, <1>10
    <2> HIDE DEF s, n
    <2>4. Append(s, n) \in Seq(Int) /\ Range(Append(s, n)) = Range(s) \cup {n}
        BY ONLY <2>2, Appended
    <2> QED BY <2>3, <2>4 DEF s, n
  <1>5. \A d \in DOMAIN values' : values'[d] \in Seq(Int)
      BY <1>1, <1>9, <1>10
  <1>6. Range(v) \in SUBSET Int /\ IsFiniteSet(Range(v))
    <2>1. DOMAIN v \in SUBSET Disks
        BY <1>4, PartIs, Bounds DEF Now, DiskTypes, Recorded
    <2>2. IsFiniteSet(DOMAIN v)
        BY <2>1, Bounds, FS_Subset
    <2>3. Range(v) = {v[d] : d \in DOMAIN v}
        BY DEF Range
    <2>4. [d \in DOMAIN v |-> v[d]] \in Surjection(DOMAIN v, Range(v))
        BY <2>3 DEF Surjection
    <2>5. IsFiniteSet(Range(v))
        BY <2>2, <2>4, FS_Surjection
    <2> QED BY <2>3, <2>5
  <1>7. Points' = Points \cup Range(v)
    <2>1. \A d \in DOMAIN Now : Range(values'[d]) = Range(values[d]) \cup {v[d]}
        BY <1>10
    <2>2. Range(v) = {v[d] : d \in DOMAIN Now}
        BY DEF Range
    <2>3. \A n : n \in Points' <=> \E d \in DOMAIN values : n \in Range(values'[d])
        BY <1>1 DEF Points
    <2>4. \A n : n \in Points <=> \E d \in DOMAIN values : n \in Range(values[d])
        BY DEF Points
    <2>5. \A d \in DOMAIN values : \A n :
              n \in Range(values'[d]) <=> n \in Range(values[d]) \/ (d \in DOMAIN Now /\ n = v[d])
        BY <1>1, <2>1
    <2>6. \A n : n \in Points' <=> n \in Points \/ n \in Range(v)
        BY <2>2, <2>3, <2>4, <2>5
    <2> QED BY <2>6
  <1>8. Limited(limits, Points)'
    <2>1. Points \in SUBSET Int
      <3>1. \A d \in DOMAIN values : Range(values[d]) \in SUBSET Int
          BY SeqIs DEF Range, DiskTypes
      <3> QED BY <3>1 DEF Points
    <2>2. Limited(limits', Points \cup Range(v))
        BY <1>6, <2>1, LimitsGrow DEF Plotted, DiskTypes
    <2> QED BY <1>2, <1>7, <2>2, LimitsStay
  <1> QED BY <1>1, <1>2, <1>3, <1>4, <1>5, <1>8 DEF DiskTypes

LEMMA DiskStays == DiskInv /\ Stays => DiskInv'
  <1> SUFFICES ASSUME DiskInv, Stays, file \in {"disk", "disk_gauge"} PROVE DiskInv'
      BY DEF DiskInv, Stays
  <1>1. /\ file' = file /\ samples' = samples /\ at' = at /\ prev' = prev /\ values' = values
        /\ limits' = limits
      BY DEF Stays
  <1>2. DiskTypes
      BY DEF DiskInv
  <1>3. Recorded(PartOf(Disks, MaxCount))' /\ Placed' /\ prev' = Past'
      BY <1>1, <1>2 DEF DiskTypes, Recorded, Placed, Past
  <1>4. Limited(limits, Points)'
    <2>1. Points' = Points
        BY <1>1 DEF Points
    <2> QED BY <1>1, <1>2, <2>1, LimitsStay DEF DiskTypes
  <1>5. DiskTypes'
      BY <1>1, <1>2, <1>3, <1>4 DEF DiskTypes
  <1>6. \A d : Advanced(d) => Advanced(d)'
      BY <1>1 DEF Advanced
  <1>7. \A d : Gauged(d) => Gauged(d)'
      BY <1>1 DEF Gauged, Since
  <1> QED BY <1>1, <1>5, <1>6, <1>7 DEF DiskInv

LEMMA DiskStep == ASSUME DiskInv, file = "disk", DiskSample PROVE DiskInv'
  <1> DEFINE diff == [d \in DOMAIN Now |-> Now[d] - prev[d]]
  <1>1. /\ DiskTypes /\ DOMAIN prev \in SUBSET (DOMAIN values)
        /\ \A d \in DOMAIN prev : Advanced(d)
      BY DEF DiskInv
  <1>2. /\ at <= Len(samples) /\ DOMAIN Now \in SUBSET (DOMAIN prev) /\ Walk /\ prev' = Now
        /\ Plotted(diff)
      BY DEF DiskSample, Known, Before, Plotted
  <1>3. /\ at \in 1..Len(samples) /\ (IF at = 1 THEN 1 ELSE at - 1) \in 1..Len(samples)
      BY <1>1, <1>2 DEF DiskTypes, Recorded, Placed
  <1>4. /\ \A d \in DOMAIN Now : Now[d] \in Int
        /\ \A d \in DOMAIN prev : prev[d] \in Int
        /\ \A d \in DOMAIN samples[1] : samples[1][d] \in Int
    <2>1. \A i \in 1..Len(samples) : \A d \in DOMAIN samples[i] : samples[i][d] \in Int
        BY <1>1, PartIs, Bounds DEF DiskTypes, Recorded
    <2>2. 1 \in 1..Len(samples)
        BY <1>3
    <2> QED BY <1>1, <1>3, <2>1, <2>2 DEF Now, Past, DiskTypes
  <1>5. \A d \in DOMAIN Now : diff[d] = Now[d] - prev[d] /\ diff[d] \in Int
      BY <1>2, <1>4
  <1>6. DOMAIN diff = DOMAIN Now
      OBVIOUS
  <1> HIDE DEF diff
  <1>7. /\ DiskTypes' /\ DOMAIN values' = DOMAIN values
        /\ \A d \in DOMAIN Now : values'[d] = Append(values[d], diff[d])
      BY <1>1, <1>2, <1>5, <1>6, DiskFed
  <1>8. file' = file /\ samples' = samples /\ at' = at + 1
      BY <1>2 DEF Walk
  <1>9. ASSUME NEW d \in DOMAIN Now PROVE Advanced(d)'
    <2>1. /\ values[d] \in Seq(Int) /\ Advanced(d) /\ d \in DOMAIN samples[1]
        BY <1>1, <1>2 DEF DiskTypes
    <2>2. /\ SumFunction(values'[d]) = SumFunction(values[d]) + diff[d]
          /\ Len(values'[d]) = Len(values[d]) + 1
      <3> DEFINE s == values[d]
                 n == diff[d]
      <3>1. s \in Seq(Int) /\ n \in Int /\ values'[d] = Append(s, n)
          BY <1>5, <1>7, <1>9, <2>1
      <3> HIDE DEF s, n
      <3>2. SumFunction(Append(s, n)) = SumFunction(s) + n /\ Len(Append(s, n)) = Len(s) + 1
          BY ONLY <3>1, Appended
      <3> QED BY <3>1, <3>2 DEF s, n
    <2>3. /\ at \in Int /\ Now[d] \in Int /\ prev[d] \in Int /\ samples[1][d] \in Int
          /\ diff[d] = Now[d] - prev[d]
        BY <1>2, <1>3, <1>4, <1>5, <1>9, <2>1
    <2>4. SumFunction(values[d]) = prev[d] - samples[1][d] /\ Len(values[d]) = at - 1
        BY <2>1 DEF Advanced
    <2>5. SumFunction(values'[d]) = Now[d] - samples[1][d] /\ Len(values'[d]) = at
        BY ONLY <2>2, <2>3, <2>4
    <2> QED BY <1>2, <1>8, <2>3, <2>5 DEF Advanced
  <1> QED BY <1>1, <1>2, <1>7, <1>8, <1>9 DEF DiskInv

LEMMA SinceNow ==
    ASSUME NEW d, at \in Nat \ {0}
    PROVE  /\ Since(d, at - 1) \in Nat
           /\ Since(d, at) = Since(d, at - 1) + (IF d \in DOMAIN samples[at] THEN 1 ELSE 0)
           /\ \A i \in 1..(at - 1) : d \in DOMAIN samples[i] => Since(d, i) \in 1..Since(d, at - 1)
  <1> DEFINE has(i) == {j \in 1..i : d \in DOMAIN samples[j]}
  <1>1. \A i \in Nat : IsFiniteSet(has(i)) /\ Cardinality(has(i)) \in Nat
    <2>1. \A i \in Nat : IsFiniteSet(1..i)
        BY FS_Interval
    <2>2. \A i \in Nat : has(i) \in SUBSET (1..i)
        OBVIOUS
    <2> QED BY <2>1, <2>2, FS_Subset, FS_CardinalityType
  <1>2. at - 1 \in Nat /\ at \in Nat /\ at \notin has(at - 1)
      OBVIOUS
  <1>3. /\ Since(d, at - 1) = Cardinality(has(at - 1)) /\ Since(d, at) = Cardinality(has(at))
        /\ \A i : Since(d, i) = Cardinality(has(i))
      BY DEF Since
  <1>4. Since(d, at) = Since(d, at - 1) + (IF d \in DOMAIN samples[at] THEN 1 ELSE 0)
    <2>1. CASE d \in DOMAIN samples[at]
      <3>1. has(at) = has(at - 1) \cup {at}
          BY <1>2, <2>1
      <3> HIDE DEF has
      <3>2. Cardinality(has(at - 1) \cup {at}) = Cardinality(has(at - 1)) + 1
          BY <1>1, <1>2, FS_AddElement
      <3> QED BY <1>3, <2>1, <3>1, <3>2
    <2>2. CASE d \notin DOMAIN samples[at]
      <3>1. has(at) = has(at - 1)
          BY <1>2, <2>2
      <3> HIDE DEF has
      <3> QED BY <1>1, <1>2, <1>3, <2>2, <3>1
    <2> QED BY <2>1, <2>2
  <1>5. ASSUME NEW i \in 1..(at - 1), d \in DOMAIN samples[i]
        PROVE  Since(d, i) \in 1..Since(d, at - 1)
    <2>1. has(i) \in SUBSET has(at - 1) /\ i \in has(i) /\ i \in Nat
        BY <1>5
    <2> HIDE DEF has
    <2>2. Cardinality(has(i)) <= Cardinality(has(at - 1))
        BY <1>1, <1>2, <2>1, FS_Subset
    <2>3. Cardinality(has(i)) # 0
        BY <1>1, <2>1, FS_EmptySet
    <2> QED BY <1>1, <1>2, <1>3, <2>1, <2>2, <2>3
  <1> HIDE DEF has
  <1> QED BY <1>1, <1>2, <1>3, <1>4, <1>5

LEMMA GaugeStep == ASSUME DiskInv, file = "disk_gauge", DiskGauge PROVE DiskInv'
  <1>1. DiskTypes /\ \A d \in DOMAIN values : Gauged(d)
      BY DEF DiskInv
  <1>2. /\ at <= Len(samples) /\ DOMAIN Now \in SUBSET (DOMAIN values) /\ Walk /\ prev' = Now
        /\ Plotted(Now)
      BY DEF DiskGauge, Before, Plotted
  <1>3. at \in 1..Len(samples)
      BY <1>1, <1>2 DEF DiskTypes, Recorded, Placed
  <1>4. \A d \in DOMAIN Now : Now[d] \in Int
      BY <1>1, <1>3, PartIs, Bounds DEF DiskTypes, Recorded, Now
  <1>5. /\ DiskTypes' /\ DOMAIN values' = DOMAIN values
        /\ \A d \in DOMAIN values \ DOMAIN Now : values'[d] = values[d]
        /\ \A d \in DOMAIN Now : values'[d] = Append(values[d], Now[d])
      BY <1>1, <1>2, <1>4, DiskFed
  <1>6. file' = file /\ samples' = samples /\ at' = at + 1 /\ at \in Nat \ {0}
      BY <1>1, <1>2 DEF Walk, DiskTypes, Placed
  <1>7. ASSUME NEW d \in DOMAIN values PROVE Gauged(d)'
    <2> DEFINE N == Since(d, at - 1)
               M == Since(d, at)
               s == values[d]
               t == values'[d]
               n == Now[d]
    <2>1. /\ N \in Nat /\ M = N + (IF d \in DOMAIN Now THEN 1 ELSE 0)
          /\ \A i \in 1..(at - 1) : d \in DOMAIN samples[i] => Since(d, i) \in 1..N
        BY <1>6, SinceNow DEF Now
    <2>2. /\ s \in Seq(Int) /\ Len(s) = N
          /\ \A i \in 1..(at - 1) : d \in DOMAIN samples[i] => s[Since(d, i)] = samples[i][d]
        BY <1>1, <1>7 DEF DiskTypes, Gauged
    <2>3. /\ Len(t) = M
          /\ \A i \in 1..at : d \in DOMAIN samples[i] => t[Since(d, i)] = samples[i][d]
      <3>1. CASE d \in DOMAIN Now
        <4>1. n \in Int /\ t = Append(s, n) /\ M = N + 1 /\ n = samples[at][d]
            BY <1>4, <1>5, <2>1, <3>1 DEF Now
        <4> HIDE DEF N, M, s, t, n
        <4>2. Len(t) = N + 1 /\ t[N + 1] = n /\ \A i \in 1..N : t[i] = s[i]
          <5>1. /\ Len(Append(s, n)) = Len(s) + 1 /\ Append(s, n)[Len(s) + 1] = n
                /\ \A i \in 1..Len(s) : Append(s, n)[i] = s[i]
              BY ONLY <2>2, <4>1, Appended
          <5> QED BY ONLY <2>2, <4>1, <5>1
        <4>3. \A i \in 1..at : i = at \/ i \in 1..(at - 1)
            BY <1>6
        <4> QED BY <2>1, <2>2, <4>1, <4>2, <4>3 DEF M
      <3>2. CASE d \notin DOMAIN Now
        <4>1. t = s /\ M = N /\ d \notin DOMAIN samples[at]
            BY <1>5, <1>7, <2>1, <3>2 DEF Now
        <4> HIDE DEF N, M, s, t, n
        <4>2. \A i \in 1..at : i = at \/ i \in 1..(at - 1)
            BY <1>6
        <4> QED BY <2>2, <4>1, <4>2
      <3> QED BY <3>1, <3>2
    <2>4. at' - 1 = at
        BY <1>6
    <2> QED BY <1>6, <2>3, <2>4 DEF Gauged, Since
  <1> QED BY <1>5, <1>6, <1>7 DEF DiskInv

-----------------------------------------------------------------------------
\* Counting modulo.

LEMMA Divided ==
    ASSUME NEW x \in Int, NEW M \in Nat \ {0}
    PROVE  /\ x % M \in Nat /\ x % M < M
           /\ x \div M \in Int /\ x = (x \div M) * M + (x % M)
  OBVIOUS

LEMMA Remainder ==
    ASSUME NEW x \in Int
    PROVE  /\ x % Modulus \in Nat /\ x % Modulus < Modulus
           /\ x \div Modulus \in Int /\ x = (x \div Modulus) * Modulus + (x % Modulus)
  <1>1. Modulus \in Nat \ {0}
      BY Bounds
  <1> QED BY <1>1, Divided

LEMMA SameRemainder ==
    ASSUME NEW x \in Int, NEW y \in Int, NEW k \in Int, x = y + k * Modulus
    PROVE  x % Modulus = y % Modulus
  <1> DEFINE M == Modulus
             r == x % M
             t == y % M
             p == x \div M
             q == y \div M
  <1>1. M \in Nat \ {0}
      BY Bounds
  <1>2. p \in Int /\ x = p * M + r /\ r \in Nat /\ r < M
      BY <1>1, Divided
  <1>3. q \in Int /\ y = q * M + t /\ t \in Nat /\ t < M
      BY <1>1, Divided
  <1>4. r \in Nat /\ r < M /\ t \in Nat /\ t < M /\ p \in Int /\ q \in Int
      BY <1>2, <1>3
  <1> HIDE DEF M, r, t, p, q
  <1>5. p * M + r = q * M + t + k * M
      BY <1>2, <1>3 DEF M
  <1> DEFINE j == q + k - p
  <1>6. j \in Int /\ r - t = j * M
      BY ONLY <1>1, <1>4, <1>5, k \in Int
  <1> HIDE DEF j
  <1>7. j = 0
    <2>1. j >= 1 => j * M >= M
        BY ONLY <1>1, <1>6
    <2>2. j <= -1 => j * M <= -M
        BY ONLY <1>1, <1>6
    <2> QED BY ONLY <1>1, <1>4, <1>6, <2>1, <2>2
  <1>8. r = t
      BY ONLY <1>1, <1>4, <1>6, <1>7
  <1> QED BY <1>8 DEF r, t, M

\* What is plotted of a counter that was at first and is at last, and rose if
\* rising says so.
Kept(s, first, last, rising) == /\ SumFunction(s) \in Int
                                /\ SumFunction(s) % Modulus = (last - first) % Modulus
                                /\ rising => SumFunction(s) = last - first

LEMMA KeptOn ==
    ASSUME NEW n \in Nat, NEW f \in [1..n -> Int], NEW g \in [1..(n + 1) -> Int],
           \A k \in 1..n : g[k] = f[k],
           NEW first \in Int, NEW last \in Nat, NEW now \in Nat, now <= MaxCount,
           g[n + 1] = (now - last) % Modulus,
           NEW rising, NEW rises, rises => rising /\ last <= now,
           Kept(f, first, last, rising)
    PROVE  Kept(g, first, now, rises)
  <1> DEFINE F == SumFunction(f)
             G == SumFunction(g)
             d == (now - last) % Modulus
             q == (now - last) \div Modulus
             a == F \div Modulus
             b == (last - first) \div Modulus
             r == F % Modulus
  <1>1. G = F + d /\ F \in Int
    <2>1. SumFunction(g) = SumFunction(f) + g[n + 1] /\ SumFunction(f) \in Int
        BY SumAppend
    <2> QED BY <2>1
  <1>2. /\ now - last \in Int /\ last - first \in Int /\ d \in Nat /\ q \in Int
        /\ now - last = q * Modulus + d
    <2>1. now - last \in Int /\ last - first \in Int
        OBVIOUS
    <2> QED BY <2>1, Remainder
  <1>5. a \in Int /\ r \in Nat /\ F = a * Modulus + r
      BY <1>1, Remainder
  <1>6. b \in Int /\ last - first = b * Modulus + r
    <2>1. r = (last - first) % Modulus
        BY DEF Kept
    <2>2. b \in Int /\ last - first = b * Modulus + ((last - first) % Modulus)
        BY <1>2, Remainder
    <2> QED BY <2>1, <2>2
  <1>7. Modulus \in Nat \ {0}
      BY Bounds
  <1>8. G % Modulus = (now - first) % Modulus
    <2> DEFINE k == a - b - q
               x == now - first
    <2> HIDE DEF F, G, d, r, q, a, b
    <2>1. k \in Int /\ G \in Int /\ x \in Int
        BY <1>1, <1>2, <1>5, <1>6
    <2>3. G = x + k * Modulus
        BY ONLY <1>1, <1>2, <1>5, <1>6, <1>7, first \in Int, last \in Nat, now \in Nat
    <2> HIDE DEF k, x
    <2> QED BY <2>1, <2>3, SameRemainder DEF x
  <1>9. ASSUME rises PROVE G = now - first
    <2>1. F = last - first /\ last <= now
        BY <1>9 DEF Kept
    <2>2. now - last \in Nat /\ now - last < Modulus
        BY <2>1, Bounds
    <2>3. d = now - last
      <3>1. \A x, M \in Nat : M # 0 /\ x < M => x % M = x
          OBVIOUS
      <3> QED BY <1>7, <2>2, <3>1
    <2> HIDE DEF F, G, d
    <2> QED BY <1>1, <2>1, <2>3
  <1>10. G \in Int
      BY <1>1, <1>2
  <1> QED BY <1>8, <1>9, <1>10 DEF Kept

\* The counter of x has only advanced so far.
Rose(x) == \A i \in 2..(at - 1) : samples[i - 1][x] <= samples[i][x]

LEMMA RoseSoFar ==
    ASSUME Placed, samples' = samples, at' = at + 1, prev = Past, NEW x, Rose(x)'
    PROVE  Rose(x) /\ (at > 1 => prev[x] <= samples[at][x])
  <1>1. at \in Nat \ {0} /\ at' - 1 = at
      BY DEF Placed
  <1>2. \A i \in 2..at : samples[i - 1][x] <= samples[i][x]
      BY <1>1 DEF Rose
  <1>3. Rose(x)
      BY <1>1, <1>2 DEF Rose
  <1>4. ASSUME at > 1 PROVE prev[x] <= samples[at][x]
    <2>1. at \in 2..at
        BY <1>1, <1>4
    <2>2. prev = samples[at - 1]
        BY <1>1, <1>4 DEF Past
    <2> QED BY <1>2, <2>1, <2>2
  <1> QED BY <1>3, <1>4

-----------------------------------------------------------------------------
\* The keys of netstat and vmstat.

KeyFiles == {"netstat", "vmstat", "vmstat_nr"}

KeyTypes == /\ Recorded(PartOf({Key}, MaxCount)) /\ Placed /\ prev = Past
            /\ Key \in DOMAIN samples[1] /\ Key \in DOMAIN prev
            /\ values \in Seq(Int) /\ Len(values) = at - 1
            /\ \A n \in Range(values) : n < Modulus

KeyInv == file \in KeyFiles =>
    /\ KeyTypes
    /\ Limited(limits, {n % Modulus : n \in Range(values)})
    /\ file = "vmstat" => SumFunction(values) = prev[Key] - samples[1][Key]
    /\ file = "netstat" => Kept(values, samples[1][Key], prev[Key], Rose(Key))

LEMMA KeyInit == SeriesInit => KeyInv
  <1> SUFFICES ASSUME SeriesInit, file \in KeyFiles PROVE KeyInv
      BY DEF KeyInv
  <1>1. /\ samples \in Recordings(PartOf({Key}, MaxCount)) /\ Key \in DOMAIN samples[1]
        /\ at = 1 /\ prev = samples[1] /\ limits = NoLimits
      BY DEF SeriesInit, KeyFiles
  <1>2. values = <<>>
      BY DEF SeriesInit, KeyFiles
  <1>3. Recorded(PartOf({Key}, MaxCount)) /\ samples[1] \in PartOf({Key}, MaxCount)
      BY <1>1, RecordingIs
  <1>4. Placed /\ prev = Past
      BY <1>1, <1>3 DEF Placed, Past, Recorded
  <1>5. values \in Seq(Int) /\ Len(values) = 0 /\ Range(values) = {} /\ SumFunction(values) = 0
      BY <1>2, EmptySeq, NothingPlotted, SumNothing
  <1>6. samples[1][Key] \in Int
      BY <1>1, <1>3, PartIs, Bounds
  <1>7. samples[1][Key] - samples[1][Key] = 0 /\ prev[Key] - samples[1][Key] = 0
      BY <1>1, <1>6
  <1>8. Kept(values, samples[1][Key], prev[Key], Rose(Key))
      BY <1>5, <1>7 DEF Kept
  <1>9. KeyTypes
      BY <1>1, <1>3, <1>4, <1>5 DEF KeyTypes
  <1> QED BY <1>1, <1>5, <1>7, <1>8, <1>9 DEF KeyInv, Limited

LEMMA KeyStays == KeyInv /\ Stays => KeyInv'
  <1> SUFFICES ASSUME KeyInv, Stays, file \in KeyFiles PROVE KeyInv'
      BY DEF KeyInv, Stays
  <1>1. /\ file' = file /\ samples' = samples /\ at' = at /\ prev' = prev /\ values' = values
        /\ limits' = limits
      BY DEF Stays
  <1>2. KeyTypes /\ Limited(limits, {n % Modulus : n \in Range(values)})
      BY DEF KeyInv
  <1>3. KeyTypes'
      BY <1>1, <1>2 DEF KeyTypes, Recorded, Placed, Past
  <1>4. Limited(limits, {n % Modulus : n \in Range(values)})'
    <2> DEFINE P == {n % Modulus : n \in Range(values)}
    <2>1. P' = P /\ Limited(limits', P)
        BY <1>1, <1>2
    <2> HIDE DEF P
    <2>2. Limited(limits, P)'
        BY <1>1, <2>1, LimitsStay
    <2> QED BY <2>2 DEF P
  <1>5. Kept(values, samples[1][Key], prev[Key], Rose(Key)) =>
            Kept(values, samples[1][Key], prev[Key], Rose(Key))'
      BY <1>1 DEF Kept, Rose
  <1> QED BY <1>1, <1>3, <1>4, <1>5 DEF KeyInv

LEMMA KeyStep == ASSUME KeyInv, file \in KeyFiles, KeySample PROVE KeyInv'
  <1> DEFINE d == Now[Key] - prev[Key]
             n == CASE file = "netstat"   -> d % Modulus
                    [] file = "vmstat"    -> d
                    [] file = "vmstat_nr" -> Now[Key]
             m == n % Modulus
             P == {k % Modulus : k \in Range(values)}
  <1>1. KeyTypes /\ Limited(limits, P)
      BY DEF KeyInv
  <1>2. /\ at <= Len(samples) /\ Key \in DOMAIN Now /\ Walk /\ prev' = Now
        /\ values' = Append(values, n) /\ limits' = WithLimits(limits, {m})
      BY DEF KeySample, Before
  <1>3. /\ at \in 1..Len(samples) /\ (IF at = 1 THEN 1 ELSE at - 1) \in 1..Len(samples)
        /\ 1 \in 1..Len(samples)
      BY <1>1, <1>2 DEF KeyTypes, Recorded, Placed
  <1>4. /\ Now[Key] \in Nat /\ prev[Key] \in Nat /\ samples[1][Key] \in Nat
        /\ Now[Key] <= MaxCount /\ prev[Key] <= MaxCount
    <2>1. \A i \in 1..Len(samples) : Key \in DOMAIN samples[i] =>
              samples[i][Key] \in Nat /\ samples[i][Key] <= MaxCount
        BY <1>1, PartIs, Bounds DEF KeyTypes, Recorded
    <2>2. prev = samples[IF at = 1 THEN 1 ELSE at - 1]
        BY <1>1 DEF KeyTypes, Past
    <2> QED BY <1>1, <1>2, <1>3, <2>1, <2>2 DEF KeyTypes, Now
  <1>5. d \in Int /\ d < Modulus
      BY <1>4, Bounds
  <1>6. n \in Int /\ n < Modulus
    <2>1. d % Modulus \in Nat /\ d % Modulus < Modulus
        BY <1>5, Remainder
    <2>2. Now[Key] \in Int /\ Now[Key] < Modulus
        BY <1>4, Bounds
    <2> HIDE DEF d
    <2> QED BY <1>5, <2>1, <2>2 DEF KeyFiles
  <1>7. m \in Int
    <2> HIDE DEF n
    <2> QED BY <1>6, Remainder
  <1>8. file' = file /\ samples' = samples /\ at' = at + 1
      BY <1>2 DEF Walk
  <1>9. /\ file = "netstat" => n = d % Modulus
        /\ file = "vmstat" => n = d
      OBVIOUS
  <1> HIDE DEF n
  <1>10. /\ values \in Seq(Int) /\ values' \in Seq(Int) /\ Len(values') = Len(values) + 1
         /\ values'[Len(values) + 1] = n /\ \A i \in 1..Len(values) : values'[i] = values[i]
         /\ Range(values') = Range(values) \cup {n}
         /\ SumFunction(values') = SumFunction(values) + n
    <2>1. values \in Seq(Int)
        BY <1>1 DEF KeyTypes
    <2> QED BY ONLY <1>2, <1>6, <2>1, Appended
  <1>11. KeyTypes'
    <2>1. Recorded(PartOf({Key}, MaxCount))'
        BY <1>1, <1>8 DEF KeyTypes, Recorded
    <2>2. Placed' /\ prev' = Past'
        BY <1>1, <1>2, Onward DEF KeyTypes, Recorded
    <2>3. Len(values') = at' - 1
        BY <1>1, <1>3, <1>8, <1>10 DEF KeyTypes
    <2> QED BY <1>1, <1>2, <1>6, <1>8, <1>10, <2>1, <2>2, <2>3 DEF KeyTypes
  <1>12. Limited(limits, {k % Modulus : k \in Range(values)})'
    <2>1. P' = P \cup {m}
        BY <1>10
    <2>2. P \in SUBSET Int
      <3>1. \A k \in Range(values) : k \in Int
          BY <1>10, SeqIs DEF Range
      <3> QED BY <3>1, Remainder
    <2>3. IsFiniteSet({m})
        BY FS_Singleton
    <2> HIDE DEF P, m
    <2>4. Limited(limits', P \cup {m})
        BY <1>1, <1>2, <1>7, <2>2, <2>3, LimitsGrow
    <2>5. Limited(limits, P)'
        BY <1>8, <2>1, <2>4, LimitsStay
    <2> QED BY <2>5 DEF P
  <1>13. file = "vmstat" => SumFunction(values') = Now[Key] - samples[1][Key]
    <2> SUFFICES ASSUME file = "vmstat" PROVE SumFunction(values') = Now[Key] - samples[1][Key]
        OBVIOUS
    <2>1. SumFunction(values) = prev[Key] - samples[1][Key]
        BY DEF KeyInv
    <2> QED BY <1>4, <1>9, <1>10, <2>1
  <1>14. ASSUME file = "netstat" PROVE Kept(values', samples[1][Key], Now[Key], Rose(Key)')
    <2> DEFINE first == samples[1][Key]
               last == prev[Key]
               now == Now[Key]
               rising == Rose(Key)
               rises == Rose(Key)'
               N == Len(values)
    <2>1. Kept(values, first, last, rising)
        BY <1>14 DEF KeyInv
    <2>2. N \in Nat /\ values \in [1..N -> Int] /\ values' \in [1..(N + 1) -> Int]
        BY <1>10, SeqIs
    <2>3. rises => rising /\ last <= now
      <3>1. at = 1 => Now[Key] = prev[Key]
          BY <1>1 DEF KeyTypes, Past, Now
      <3>2. at = 1 \/ at > 1
          BY <1>3
      <3>3. ASSUME Rose(Key)' PROVE Rose(Key) /\ (at > 1 => prev[Key] <= samples[at][Key])
          BY <1>1, <1>8, <3>3, RoseSoFar DEF KeyTypes
      <3> QED BY <1>4, <3>1, <3>2, <3>3 DEF Now
    <2>4. values'[N + 1] = (now - last) % Modulus /\ \A i \in 1..N : values'[i] = values[i]
        BY <1>9, <1>10, <1>14
    <2>5. first \in Int /\ last \in Nat /\ now \in Nat /\ now <= MaxCount
        BY <1>4
    <2> HIDE DEF first, last, now, rising, rises, N
    <2>6. Kept(values', first, now, rises)
        BY ONLY <2>1, <2>2, <2>3, <2>4, <2>5, KeptOn
    <2> QED BY <2>6 DEF first, now, rises
  <1> QED BY <1>2, <1>8, <1>11, <1>12, <1>13, <1>14 DEF KeyInv

-----------------------------------------------------------------------------
\* Interrupts.

\* What is plotted of the CPU c.
Series(c) == [i \in 1..(at - 1) |-> values[i][c]]

Lines == UNION {[T -> Int] : T \in SUBSET Cpus}

InterruptTypes == /\ Recorded(PartOf(Cpus, MaxCount)) /\ Placed /\ prev = Past
                  /\ values \in Seq(Lines) /\ Len(values) = at - 1
                  /\ DOMAIN prev \in SUBSET (DOMAIN samples[1])
                  /\ \A i \in 1..(at - 1) : \A c \in DOMAIN prev : values[i][c] \in Int

InterruptInv == file = "interrupt" =>
    /\ InterruptTypes
    /\ \A c \in DOMAIN prev : Kept(Series(c), samples[1][c], prev[c], Rose(c))

LEMMA InterruptInit == SeriesInit => InterruptInv
  <1> SUFFICES ASSUME SeriesInit, file = "interrupt" PROVE InterruptInv
      BY DEF InterruptInv
  <1> DEFINE S == {s \in PartOf(Cpus, MaxCount) : DOMAIN s # {}}
  <1>1. samples \in Recordings(S) /\ at = 1 /\ prev = samples[1]
      BY DEF SeriesInit
  <1>2. values = <<>>
      BY DEF SeriesInit
  <1>3. Recorded(PartOf(Cpus, MaxCount)) /\ samples[1] \in PartOf(Cpus, MaxCount)
    <2>1. Recorded(S) /\ samples[1] \in S
        BY <1>1, RecordingIs
    <2> QED BY <2>1 DEF Recorded
  <1>4. Placed /\ prev = Past
      BY <1>1, <1>3 DEF Placed, Past, Recorded
  <1>5. values \in Seq(Lines) /\ Len(values) = 0
      BY <1>2, EmptySeq
  <1>6. 1..(at - 1) = {}
      BY <1>1
  <1>7. InterruptTypes
      BY <1>1, <1>3, <1>4, <1>5, <1>6 DEF InterruptTypes
  <1>8. ASSUME NEW c \in DOMAIN prev PROVE Kept(Series(c), samples[1][c], prev[c], Rose(c))
    <2>1. samples[1][c] \in Int
        BY <1>1, <1>3, <1>8, PartIs, Bounds
    <2>2. prev[c] - samples[1][c] = 0
        BY <1>1, <2>1
    <2>3. DOMAIN Series(c) = {}
        BY <1>6 DEF Series
    <2>4. SumFunction(Series(c)) = 0
        BY <2>3, SumEmpty DEF SumFunction
    <2> QED BY <2>2, <2>4 DEF Kept
  <1> QED BY <1>7, <1>8 DEF InterruptInv

LEMMA InterruptStays == InterruptInv /\ Stays => InterruptInv'
  <1> SUFFICES ASSUME InterruptInv, Stays, file = "interrupt" PROVE InterruptInv'
      BY DEF InterruptInv, Stays
  <1>1. /\ file' = file /\ samples' = samples /\ at' = at /\ prev' = prev /\ values' = values
      BY DEF Stays
  <1>2. InterruptTypes'
      BY <1>1 DEF InterruptInv, InterruptTypes, Recorded, Placed, Past
  <1>3. \A c : Series(c)' = Series(c) /\ (Rose(c)' <=> Rose(c))
      BY <1>1 DEF Series, Rose
  <1>4. \A c \in DOMAIN prev : Kept(Series(c)', samples[1][c], prev[c], Rose(c)')
      BY <1>3 DEF InterruptInv, Kept
  <1> QED BY <1>1, <1>2, <1>4 DEF InterruptInv, Kept

LEMMA InterruptStep == ASSUME InterruptInv, file = "interrupt", InterruptSample PROVE InterruptInv'
  <1> DEFINE diff == [c \in DOMAIN Now |-> (Now[c] - prev[c]) % Modulus]
  <1>1. /\ InterruptTypes
        /\ \A c \in DOMAIN prev : Kept(Series(c), samples[1][c], prev[c], Rose(c))
      BY DEF InterruptInv
  <1>2. /\ at <= Len(samples) /\ DOMAIN Now \in SUBSET (DOMAIN prev) /\ Walk /\ prev' = Now
        /\ values' = Append(values, diff)
      BY DEF InterruptSample, Before
  <1>3. /\ at \in 1..Len(samples) /\ (IF at = 1 THEN 1 ELSE at - 1) \in 1..Len(samples)
        /\ 1 \in 1..Len(samples) /\ at \in Nat \ {0}
      BY <1>1, <1>2 DEF InterruptTypes, Recorded, Placed
  <1>4. /\ \A c \in DOMAIN Now : Now[c] \in Nat /\ Now[c] <= MaxCount
        /\ \A c \in DOMAIN prev : prev[c] \in Nat
        /\ \A c \in DOMAIN samples[1] : samples[1][c] \in Nat
        /\ DOMAIN Now \in SUBSET Cpus
    <2>1. \A i \in 1..Len(samples) :
              /\ DOMAIN samples[i] \in SUBSET Cpus
              /\ \A c \in DOMAIN samples[i] : samples[i][c] \in Nat /\ samples[i][c] <= MaxCount
        BY <1>1, PartIs, Bounds DEF InterruptTypes, Recorded
    <2>2. prev = samples[IF at = 1 THEN 1 ELSE at - 1]
        BY <1>1 DEF InterruptTypes, Past
    <2> QED BY <1>3, <2>1, <2>2 DEF Now
  <1>5. /\ DOMAIN diff = DOMAIN Now
        /\ \A c \in DOMAIN Now : diff[c] = (Now[c] - prev[c]) % Modulus /\ diff[c] \in Int
    <2>1. \A c \in DOMAIN Now : Now[c] - prev[c] \in Int
        BY <1>2, <1>4
    <2>2. \A c \in DOMAIN Now : (Now[c] - prev[c]) % Modulus \in Int
        BY <2>1, Remainder
    <2> QED BY <2>2
  <1>6. diff \in Lines
      BY <1>4, <1>5 DEF Lines
  <1>7. file' = file /\ samples' = samples /\ at' = at + 1
      BY <1>2 DEF Walk
  <1> HIDE DEF diff
  <1>8. /\ values \in Seq(Lines) /\ Len(values) = at - 1
        /\ values' \in Seq(Lines) /\ Len(values') = at
        /\ values'[at] = diff /\ \A i \in 1..(at - 1) : values'[i] = values[i]
    <2>1. values \in Seq(Lines) /\ Len(values) = at - 1
        BY <1>1 DEF InterruptTypes
    <2>2. /\ Append(values, diff) \in Seq(Lines) /\ Len(Append(values, diff)) = Len(values) + 1
          /\ Append(values, diff)[Len(values) + 1] = diff
          /\ \A i \in 1..Len(values) : Append(values, diff)[i] = values[i]
        BY ONLY <1>6, <2>1, AppendProperties
    <2> QED BY ONLY <1>2, <1>3, <2>1, <2>2
  <1>9. \A i \in 1..at : i = at \/ i \in 1..(at - 1)
      BY <1>3
  <1>10. \A i \in 1..at : \A c \in DOMAIN Now : values'[i][c] \in Int
    <2> SUFFICES ASSUME NEW i \in 1..at, NEW c \in DOMAIN Now PROVE values'[i][c] \in Int
        OBVIOUS
    <2>1. CASE i = at
        BY <1>5, <1>8, <2>1
    <2>2. CASE i \in 1..(at - 1)
        BY <1>1, <1>2, <1>8, <2>2 DEF InterruptTypes
    <2> QED BY <1>9, <2>1, <2>2
  <1>11. InterruptTypes'
    <2>1. Recorded(PartOf(Cpus, MaxCount))'
        BY <1>1, <1>7 DEF InterruptTypes, Recorded
    <2>2. Placed' /\ prev' = Past'
        BY <1>1, <1>2, Onward DEF InterruptTypes, Recorded
    <2>3. at' - 1 = at
        BY <1>3, <1>7
    <2> QED BY <1>1, <1>2, <1>7, <1>8, <1>10, <2>1, <2>2, <2>3 DEF InterruptTypes
  <1>12. ASSUME NEW c \in DOMAIN Now
         PROVE  Kept(Series(c)', samples[1][c], Now[c], Rose(c)')
    <2> DEFINE first == samples[1][c]
               last == prev[c]
               now == Now[c]
               rising == Rose(c)
               rises == Rose(c)'
               N == at - 1
               f == Series(c)
               g == [i \in 1..(N + 1) |-> values'[i][c]]
    <2>1. c \in DOMAIN prev /\ Kept(f, first, last, rising)
        BY <1>1, <1>2, <1>12
    <2>2. /\ N \in Nat /\ f \in [1..N -> Int] /\ g \in [1..(N + 1) -> Int] /\ N + 1 = at
          /\ \A k \in 1..N : g[k] = f[k]
      <3>1. N \in Nat /\ N + 1 = at
          BY <1>3
      <3>2. \A k \in 1..N : f[k] = values[k][c] /\ f[k] \in Int
          BY <1>1, <2>1 DEF InterruptTypes, Series
      <3>3. \A k \in 1..(N + 1) : g[k] = values'[k][c] /\ g[k] \in Int
          BY <1>10, <1>12, <3>1
      <3>4. \A k \in 1..N : k \in 1..(N + 1)
          BY <3>1
      <3>5. f = [k \in 1..N |-> f[k]]
          BY DEF Series
      <3> QED BY <1>8, <3>1, <3>2, <3>3, <3>4, <3>5
    <2>3. Series(c)' = g
      <3>1. at' - 1 = N + 1
          BY <1>3, <1>7
      <3> QED BY <3>1 DEF Series
    <2>4. rises => rising /\ last <= now
      <3>1. at = 1 => now = last
          BY <1>1 DEF InterruptTypes, Past, Now
      <3>2. at = 1 \/ at > 1
          BY <1>3
      <3>3. ASSUME Rose(c)' PROVE Rose(c) /\ (at > 1 => prev[c] <= samples[at][c])
          BY <1>1, <1>7, <3>3, RoseSoFar DEF InterruptTypes
      <3> QED BY <1>2, <1>4, <1>12, <3>1, <3>2, <3>3 DEF Now
    <2>5. first \in Int /\ last \in Nat /\ now \in Nat /\ now <= MaxCount
        BY <1>1, <1>4, <1>12, <2>1 DEF InterruptTypes
    <2>6. g[N + 1] = (now - last) % Modulus
        BY <1>5, <1>8, <1>12, <2>2
    <2> HIDE DEF first, last, now, rising, rises, N, f, g
    <2>7. Kept(g, first, now, rises)
        BY ONLY <2>1, <2>2, <2>4, <2>5, <2>6, KeptOn
    <2> QED BY <2>3, <2>7 DEF first, now, rises
  <1> QED BY <1>2, <1>7, <1>11, <1>12 DEF InterruptInv, Kept

-----------------------------------------------------------------------------
\* The values of one CPU.

Place(online, c) == Cardinality({d \in online : d < c})

LEMMA PlaceIs ==
    ASSUME NEW S \in SUBSET Nat, IsFiniteSet(S), NEW c \in S
    PROVE  /\ Place(S, c) \in 0..(Cardinality(S) - 1)
           /\ Numbered(S, Place(S, c)) = c
  <1> DEFINE below(x) == {d \in S : d < x}
             n(x) == Cardinality(below(x))
  <1>1. \A x \in S : /\ IsFiniteSet(below(x)) /\ n(x) \in Nat /\ below(x) \in SUBSET S
                     /\ below(x) # S
    <2>1. \A x \in S : below(x) \in SUBSET S /\ x \notin below(x)
        OBVIOUS
    <2> HIDE DEF below
    <2> QED BY <2>1, FS_Subset, FS_CardinalityType
  <1>2. ASSUME NEW x \in S, NEW y \in S, x < y PROVE n(x) < n(y)
    <2>1. below(x) \in SUBSET below(y) /\ x \in below(y) /\ x \notin below(x)
      <3>1. x \in Nat /\ y \in Nat /\ \A d \in S : d \in Nat
          OBVIOUS
      <3>2. \A d \in S : d < x => d < y
          BY <1>2, <3>1
      <3>3. x \in below(y) /\ x \notin below(x)
          BY <1>2, <3>1
      <3> QED BY <3>2, <3>3
    <2> HIDE DEF below
    <2>2. below(x) # below(y)
        BY <2>1
    <2>3. n(x) <= n(y) /\ n(x) # n(y)
        BY <1>1, <2>1, <2>2, FS_Subset
    <2> QED BY <1>1, <2>3
  <1>3. n(c) < Cardinality(S) /\ Cardinality(S) \in Nat
    <2>1. below(c) \in SUBSET S /\ below(c) # S
        BY <1>1
    <2> HIDE DEF below
    <2>2. n(c) <= Cardinality(S) /\ n(c) # Cardinality(S)
        BY <2>1, FS_Subset
    <2> QED BY <1>1, <2>2, FS_CardinalityType
  <1>4. \A x \in S : n(x) = n(c) => x = c
    <2> SUFFICES ASSUME NEW x \in S, n(x) = n(c) PROVE x = c
        OBVIOUS
    <2>1. x \in Nat /\ c \in Nat /\ n(c) \in Nat
        BY <1>1
    <2>2. ~(x < c) /\ ~(c < x)
        BY <1>1, <1>2
    <2> QED BY ONLY <2>1, <2>2
  <1>5. Numbered(S, n(c)) \in S /\ n(Numbered(S, n(c))) = n(c)
    <2> HIDE DEF n
    <2>1. \E x \in S : n(x) = n(c)
        OBVIOUS
    <2>2. Numbered(S, n(c)) = CHOOSE x \in S : n(x) = n(c)
        BY Zenon DEF Numbered, n
    <2> QED BY <2>1, <2>2, Zenon
  <1> HIDE DEF n
  <1>6. Numbered(S, n(c)) = c
      BY <1>4, <1>5
  <1>7. n(c) = Place(S, c)
      BY DEF n, Place
  <1> QED BY <1>1, <1>3, <1>6, <1>7 DEF n

\* CPUs of the same numbers up to c's.
LEMMA PlaceSame ==
    ASSUME NEW S \in SUBSET Nat, NEW T \in SUBSET Nat, NEW c \in T, S \cap (0..c) = T \cap (0..c)
    PROVE  c \in S /\ Place(S, c) = Place(T, c)
  <1>1. c \in Nat /\ c \in 0..c
      OBVIOUS
  <1>2. \A d \in Nat : d < c => d \in 0..c
      BY <1>1
  <1>3. \A d : d \in {e \in S : e < c} <=> d \in {e \in T : e < c}
      BY <1>2
  <1> QED BY <1>1, <1>3 DEF Place

LEMMA AppendSame ==
    ASSUME NEW c, NEW n \in Nat, NEW s, s = [j \in 1..n |-> c]
    PROVE  Append(s, c) = [j \in 1..(n + 1) |-> c]
  <1> DEFINE t == Append(s, c)
  <1>1. s \in Seq({c}) /\ Len(s) = n /\ \A j \in 1..n : s[j] = c
      OBVIOUS
  <1>2. /\ t \in Seq({c}) /\ Len(t) = n + 1 /\ t[n + 1] = c
        /\ \A j \in 1..n : t[j] = c
    <2>1. /\ t \in Seq({c}) /\ Len(t) = Len(s) + 1 /\ t[Len(s) + 1] = c
          /\ \A j \in 1..Len(s) : t[j] = s[j]
        BY <1>1, AppendProperties
    <2> QED BY <1>1, <2>1
  <1> HIDE DEF t
  <1>3. t = [j \in 1..(n + 1) |-> t[j]]
      BY <1>2
  <1>4. \A j \in 1..(n + 1) : t[j] = c
      BY <1>2
  <1> QED BY <1>3, <1>4 DEF t

\* The CPUs up to c are the same ones so far.
Steady(c) == \A j \in 1..(at - 1) : samples[j] \cap (0..c) = samples[1] \cap (0..c)

PerCpuInv == file = "percpu" =>
    /\ Recorded(SUBSET Cpus) /\ Placed
    /\ DOMAIN values = 0..(Cardinality(samples[1]) - 1)
    /\ \A c \in samples[1] :
           Steady(c) => values[Place(samples[1], c)] = [j \in 1..(at - 1) |-> c]

LEMMA PerCpuInit == SeriesInit => PerCpuInv
  <1> SUFFICES ASSUME SeriesInit, file = "percpu" PROVE PerCpuInv
      BY DEF PerCpuInv
  <1>1. /\ samples \in Recordings(SUBSET Cpus \ {{}}) /\ at = 1
        /\ values = [i \in 0..(Cardinality(samples[1]) - 1) |-> <<>>]
      BY DEF SeriesInit
  <1>2. Recorded(SUBSET Cpus \ {{}}) /\ samples[1] \in SUBSET Cpus \ {{}}
      BY <1>1, RecordingIs
  <1>3. Recorded(SUBSET Cpus) /\ samples[1] \in SUBSET Cpus
      BY <1>2 DEF Recorded
  <1>4. Placed
      BY <1>1, <1>3 DEF Placed, Recorded
  <1>5. ASSUME NEW c \in samples[1]
        PROVE  values[Place(samples[1], c)] = [j \in 1..(at - 1) |-> c]
    <2>1. samples[1] \in SUBSET Nat /\ IsFiniteSet(samples[1])
        BY <1>3, Bounds, FS_Subset
    <2>2. Place(samples[1], c) \in 0..(Cardinality(samples[1]) - 1)
        BY <1>5, <2>1, PlaceIs
    <2>3. values[Place(samples[1], c)] = <<>>
        BY <1>1, <2>2
    <2>4. 1..(at - 1) = {}
        BY <1>1
    <2>5. [j \in {} |-> c] = <<>>
        OBVIOUS
    <2> QED BY <2>3, <2>4, <2>5
  <1> QED BY <1>1, <1>3, <1>4, <1>5 DEF PerCpuInv

LEMMA PerCpuStays == PerCpuInv /\ Stays => PerCpuInv'
  BY DEF PerCpuInv, Stays, Recorded, Placed, Steady, Place

LEMMA PerCpuStep == ASSUME PerCpuInv, file = "percpu", PerCpuSample PROVE PerCpuInv'
  <1>1. /\ Recorded(SUBSET Cpus) /\ Placed
        /\ DOMAIN values = 0..(Cardinality(samples[1]) - 1)
        /\ \A c \in samples[1] :
               Steady(c) => values[Place(samples[1], c)] = [j \in 1..(at - 1) |-> c]
      BY DEF PerCpuInv
  <1>2. /\ at <= Len(samples) /\ Walk /\ prev' = Now
        /\ values' = [i \in DOMAIN values |->
               IF i < Cardinality(Now) THEN Append(values[i], Numbered(Now, i)) ELSE values[i]]
      BY DEF PerCpuSample, Before
  <1>3. file' = file /\ samples' = samples /\ at' = at + 1
      BY <1>2 DEF Walk
  <1>4. at \in 1..Len(samples) /\ 1 \in 1..Len(samples) /\ at \in Nat /\ at - 1 \in Nat
      BY <1>1, <1>2 DEF Recorded, Placed
  <1>5. Recorded(SUBSET Cpus)' /\ Placed'
      BY <1>1, <1>2, <1>3, <1>4 DEF Recorded, Placed
  <1>6. DOMAIN values' = DOMAIN values
      BY <1>2
  <1>7. /\ Now \in SUBSET Nat /\ IsFiniteSet(Now)
        /\ samples[1] \in SUBSET Nat /\ IsFiniteSet(samples[1])
    <2>1. Now \in SUBSET Cpus /\ samples[1] \in SUBSET Cpus
        BY <1>1, <1>4 DEF Recorded, Now
    <2> QED BY <2>1, Bounds, FS_Subset
  <1>8. ASSUME NEW c \in samples[1], Steady(c)'
        PROVE  values'[Place(samples[1], c)] = [j \in 1..at |-> c]
    <2>1. \A j \in 1..at : samples[j] \cap (0..c) = samples[1] \cap (0..c)
        BY <1>3, <1>4, <1>8 DEF Steady
    <2>2. Steady(c) /\ Now \cap (0..c) = samples[1] \cap (0..c)
        BY <1>4, <2>1 DEF Steady, Now
    <2> DEFINE i == Place(samples[1], c)
               s == values[i]
    <2>3. i \in DOMAIN values
        BY <1>1, <1>7, <1>8, PlaceIs
    <2>4. c \in Now /\ Place(Now, c) = i
        BY <1>7, <1>8, <2>2, PlaceSame
    <2>5. Place(Now, c) \in 0..(Cardinality(Now) - 1) /\ Numbered(Now, Place(Now, c)) = c
        BY <1>7, <2>4, PlaceIs
    <2>6. i < Cardinality(Now) /\ Numbered(Now, i) = c
      <3>1. Cardinality(Now) \in Nat
          BY <1>7, FS_CardinalityType
      <3> HIDE DEF i
      <3> QED BY <2>4, <2>5, <3>1
    <2>7. s = [j \in 1..(at - 1) |-> c]
        BY <1>1, <1>8, <2>2
    <2>8. values'[i] = Append(s, c)
      <3> HIDE DEF i
      <3> QED BY <1>2, <2>3, <2>6
    <2> HIDE DEF i, s
    <2>9. Append(s, c) = [j \in 1..((at - 1) + 1) |-> c]
        BY ONLY <1>4, <2>7, AppendSame
    <2>10. (at - 1) + 1 = at
        BY <1>4
    <2> QED BY <2>8, <2>9, <2>10 DEF i
  <1>9. at' - 1 = at
      BY <1>3, <1>4
  <1> QED BY <1>1, <1>3, <1>5, <1>6, <1>8, <1>9 DEF PerCpuInv

-----------------------------------------------------------------------------
\* CPU time.

\* The percentages v of a sample add up to 100, but for what is truncated.
Shares(v) == \/ \A k \in Kinds : v[k] = 0
             \/ Total(v) \in (100 - Cardinality(Kinds))..100

\* A percentage is the share of the value, or up to one less.
LEMMA PercentageIs ==
    ASSUME NEW value \in Nat, NEW total \in Nat \ {0}, NEW p \in Percentages(value, total)
    PROVE  p \in Nat /\ p * total <= value * 100 /\ value * 100 <= (p + 1) * total
  <1> DEFINE v == value * 100
             q == v \div total
             r == v % total
  <1>1. v \in Nat
      OBVIOUS
  <1>2. q \in Int /\ r \in Nat /\ r < total /\ v = q * total + r
    <2> HIDE DEF v
    <2> QED BY <1>1, Divided
  <1>3. q \in Nat
    <2>1. q < 0 => q * total <= -total
      <3> HIDE DEF q, r, v
      <3> QED BY ONLY <1>2, total \in Nat \ {0}
    <2>2. q * total \in Int
        BY ONLY <1>2, total \in Nat \ {0}
    <2> HIDE DEF q, r, v
    <2> QED BY <1>1, <1>2, <2>1, <2>2
  <1>4. p = q \/ (p = q - 1 /\ q > 0 /\ r = 0)
      BY DEF Percentages
  <1> HIDE DEF q, r, v
  <1>5. CASE p = q
    <2>1. (q + 1) * total = q * total + total /\ q * total \in Int
        BY ONLY <1>3, total \in Nat \ {0}
    <2> QED BY <1>2, <1>3, <1>5, <2>1 DEF v
  <1>6. CASE p = q - 1 /\ q > 0 /\ r = 0
    <2>1. p \in Nat /\ p + 1 = q
        BY <1>3, <1>6
    <2>2. p * total = q * total - total /\ q * total \in Int
        BY ONLY <1>3, <2>1, total \in Nat \ {0}
    <2>3. p * total <= v /\ v <= q * total
        BY <1>2, <1>6, <2>2
    <2> QED BY <2>1, <2>3 DEF v
  <1> QED BY <1>4, <1>5, <1>6

LEMMA SharesFit ==
    ASSUME NEW diff \in [Kinds -> Nat],
           NEW p, DOMAIN p = Kinds, \A k \in Kinds : p[k] \in Percentages(diff[k], Whole(diff))
    PROVE  (\A k \in Kinds : p[k] \in Nat) /\ Shares(p)
  <1> DEFINE total == SumFunctionOnSet(diff, Kinds)
             sum == SumFunctionOnSet(p, Kinds)
             N == Cardinality(Kinds)
  <1>1. IsFiniteSet(Kinds) /\ N \in Nat /\ \A k \in Kinds : diff[k] \in Nat /\ diff[k] \in Int
      BY Bounds, FS_CardinalityType
  <1>2. Whole(diff) = total /\ Total(p) = sum
      BY DEF Whole, Total, SumFunction
  <1>3. total \in Nat
      BY <1>1, SumTypes
  <1>4. CASE total = 0
    <2>1. \A k \in Kinds : p[k] = 0
        BY <1>2, <1>4 DEF Percentages
    <2> QED BY <2>1 DEF Shares
  <1>5. CASE total # 0
    <2> DEFINE one == [k \in Kinds |-> 1]
               more == [k \in Kinds |-> p[k] + 1]
               sumMore == SumFunctionOnSet(more, Kinds)
    <2>1. \A k \in Kinds : /\ p[k] \in Nat /\ p[k] \in Int
                           /\ p[k] * total <= diff[k] * 100 /\ diff[k] * 100 <= (p[k] + 1) * total
      <3>1. total \in Nat \ {0} /\ \A k \in Kinds : p[k] \in Percentages(diff[k], total)
          BY <1>2, <1>3, <1>5
      <3> HIDE DEF total
      <3> QED BY <1>1, <3>1, PercentageIs
    <2>2. \A k \in Kinds : one[k] = 1 /\ one[k] \in Int /\ more[k] = p[k] + 1
        OBVIOUS
    <2> HIDE DEF one, more
    <2>3. \A k \in Kinds : more[k] \in Int /\ more[k] = p[k] + one[k]
                           /\ diff[k] * 100 <= more[k] * total
        BY <2>1, <2>2
    <2>4. total \in Int /\ 100 \in Int /\ sum \in Int /\ sumMore \in Int
      <3>1. sum \in Int
          BY <1>1, <2>1, SumTypes
      <3>2. sumMore \in Int
          BY <1>1, <2>3, SumTypes
      <3> QED BY <1>3, <3>1, <3>2
    <2>5. sum * total <= total * 100
      <3>1. total \in Int
          BY <2>4
      <3> HIDE DEF total, sum
      <3>2. SumFunctionOnSet(p, Kinds) * total <= SumFunctionOnSet(diff, Kinds) * 100
          BY ONLY <1>1, <2>1, <3>1, SumCompare
      <3> QED BY <3>2 DEF total, sum
    <2>6. total * 100 <= sumMore * total
      <3>1. total \in Int
          BY <2>4
      <3> HIDE DEF total
      <3>2. SumFunctionOnSet(diff, Kinds) * 100 <= SumFunctionOnSet(more, Kinds) * total
          BY ONLY <1>1, <2>3, <3>1, SumCompare
      <3> QED BY <3>2 DEF total
    <2>7. sumMore = sum + N
      <3>1. SumFunctionOnSet(more, Kinds) = SumFunctionOnSet(p, Kinds) + SumFunctionOnSet(one, Kinds)
          BY ONLY <1>1, <2>1, <2>2, <2>3, SumPlus
      <3>2. SumFunctionOnSet(one, Kinds) = Cardinality(Kinds)
          BY ONLY <1>1, <2>2, SumOnes
      <3> QED BY <3>1, <3>2
    <2>8. sum <= 100 /\ 100 <= sumMore
      <3> HIDE DEF total, sum, sumMore
      <3>1. total \in Nat /\ total > 0
          BY <1>3, <1>5
      <3>2. \A x, y \in Int : x * total <= total * y => x <= y
          BY ONLY <3>1
      <3>3. total * 100 <= total * sumMore
          BY ONLY <2>4, <2>6
      <3>4. \A x, y \in Int : total * x <= total * y => x <= y
          BY ONLY <3>1
      <3> QED BY ONLY <2>4, <2>5, <3>2, <3>3, <3>4
    <2>9. sum \in (100 - N)..100
      <3> HIDE DEF total, sum, sumMore, N
      <3> QED BY ONLY <1>1, <2>4, <2>7, <2>8
    <2>10. Shares(p)
        BY <1>2, <2>9 DEF Shares
    <2> QED BY <2>1, <2>10
  <1> QED BY <1>4, <1>5

\* No kind of time has gone back at the sample j.
Forward(j) == j = 1 \/ \A k \in Kinds : samples[j][k] >= samples[j - 1][k]

\* The samples up to i that are plotted.
Counted(i) == {j \in 1..i : Forward(j)}

CpuInv == file = "cpu" =>
    /\ Recorded([Kinds -> 0..MaxTicks]) /\ Placed /\ prev = Past
    /\ values \in Seq([Kinds -> Nat]) /\ Len(values) = Cardinality(Counted(at - 1))
    /\ \A i \in 1..Len(values) : Shares(values[i])

LEMMA CountedNow ==
    ASSUME at \in Nat \ {0}
    PROVE  /\ Cardinality(Counted(at - 1)) \in Nat
           /\ Cardinality(Counted(at)) =
                  Cardinality(Counted(at - 1)) + (IF Forward(at) THEN 1 ELSE 0)
  <1>1. IsFiniteSet(Counted(at - 1)) /\ at \notin Counted(at - 1)
    <2>1. Counted(at - 1) \in SUBSET (1..(at - 1)) /\ IsFiniteSet(1..(at - 1)) /\ at \notin 1..(at - 1)
        BY FS_Interval DEF Counted
    <2> QED BY <2>1, FS_Subset
  <1>2. Cardinality(Counted(at - 1)) \in Nat
      BY <1>1, FS_CardinalityType
  <1>3. \A j : j \in 1..at <=> j \in 1..(at - 1) \/ j = at
      OBVIOUS
  <1>4. CASE Forward(at)
    <2>1. Counted(at) = Counted(at - 1) \cup {at}
        BY <1>3, <1>4 DEF Counted
    <2>2. Cardinality(Counted(at - 1) \cup {at}) = Cardinality(Counted(at - 1)) + 1
        BY <1>1, FS_AddElement
    <2> QED BY <1>2, <1>4, <2>1, <2>2
  <1>5. CASE ~Forward(at)
    <2>1. Counted(at) = Counted(at - 1)
        BY <1>3, <1>5 DEF Counted
    <2> QED BY <1>2, <1>5, <2>1
  <1> QED BY <1>2, <1>4, <1>5

LEMMA CpuInit == SeriesInit => CpuInv
  <1> SUFFICES ASSUME SeriesInit, file = "cpu" PROVE CpuInv
      BY DEF CpuInv
  <1>1. samples \in Recordings([Kinds -> 0..MaxTicks]) /\ at = 1 /\ prev = samples[1]
      BY DEF SeriesInit
  <1>2. values = <<>>
      BY DEF SeriesInit
  <1>3. Recorded([Kinds -> 0..MaxTicks])
      BY <1>1, RecordingIs
  <1>4. Placed /\ prev = Past
      BY <1>1, <1>3 DEF Placed, Past, Recorded
  <1>5. values \in Seq([Kinds -> Nat]) /\ Len(values) = 0
      BY <1>2, EmptySeq
  <1>6. Cardinality(Counted(at - 1)) = 0
    <2>1. 1..(at - 1) = {}
        BY <1>1
    <2>2. Counted(at - 1) = {}
        BY <2>1 DEF Counted
    <2> QED BY <2>2, FS_EmptySet
  <1> QED BY <1>3, <1>4, <1>5, <1>6 DEF CpuInv

LEMMA CpuStays == CpuInv /\ Stays => CpuInv'
  BY DEF CpuInv, Stays, Recorded, Placed, Past, Counted, Forward

LEMMA CpuStep == ASSUME CpuInv, file = "cpu", CpuSample \/ CpuWentBack PROVE CpuInv'
  <1>1. /\ Recorded([Kinds -> 0..MaxTicks]) /\ Placed /\ prev = Past
        /\ values \in Seq([Kinds -> Nat]) /\ Len(values) = Cardinality(Counted(at - 1))
        /\ \A i \in 1..Len(values) : Shares(values[i])
      BY DEF CpuInv
  <1>2. at <= Len(samples) /\ Walk /\ prev' = Now
      BY DEF CpuSample, CpuWentBack, Before
  <1>3. file' = file /\ samples' = samples /\ at' = at + 1
      BY <1>2 DEF Walk
  <1>4. /\ at \in 1..Len(samples) /\ (IF at = 1 THEN 1 ELSE at - 1) \in 1..Len(samples)
        /\ at \in Nat \ {0} /\ at' - 1 = at
      BY <1>1, <1>2, <1>3 DEF Recorded, Placed
  <1>5. Recorded([Kinds -> 0..MaxTicks])'
      BY <1>1, <1>3 DEF Recorded
  <1>6. Placed' /\ prev' = Past'
      BY <1>1, <1>2, Onward DEF Recorded
  <1>7. \A k \in Kinds : Now[k] \in Nat /\ prev[k] \in Nat
    <2>1. \A i \in 1..Len(samples) : \A k \in Kinds : samples[i][k] \in Nat
        BY <1>1, Bounds DEF Recorded
    <2> QED BY <1>1, <1>4, <2>1 DEF Now, Past
  <1>8. Forward(at) <=> ~IsLessThan(Now, prev)
    <2>1. CASE at = 1
      <3>1. \A k \in Kinds : Now[k] >= prev[k]
          BY <1>1, <1>7, <2>1 DEF Now, Past
      <3> QED BY <2>1, <3>1 DEF Forward, IsLessThan
    <2>2. CASE at # 1
        BY <1>1, <2>2 DEF Forward, IsLessThan, Now, Past
    <2> QED BY <2>1, <2>2
  <1>9. /\ Cardinality(Counted(at - 1)) \in Nat
        /\ Cardinality(Counted(at)) =
               Cardinality(Counted(at - 1)) + (IF Forward(at) THEN 1 ELSE 0)
      BY <1>4, CountedNow
  <1>10. Counted(at - 1)' = Counted(at)
      BY <1>3, <1>4 DEF Counted, Forward
  <1>11. CASE CpuSample
    <2> DEFINE diff == [k \in Kinds |-> (Now[k] - prev[k]) % Modulus]
    <2>1. PICK p \in [Kinds -> UNION {Percentages(diff[k], Whole(diff)) : k \in Kinds}] :
              /\ \A k \in Kinds : p[k] \in Percentages(diff[k], Whole(diff))
              /\ values' = Append(values, p)
        BY <1>11 DEF CpuSample
    <2>2. diff \in [Kinds -> Nat]
      <3>1. \A k \in Kinds : Now[k] - prev[k] \in Int
          BY <1>7
      <3>2. \A k \in Kinds : (Now[k] - prev[k]) % Modulus \in Nat
          BY <3>1, Remainder
      <3> QED BY <3>2
    <2> HIDE DEF diff
    <2>3. DOMAIN p = Kinds /\ \A k \in Kinds : p[k] \in Percentages(diff[k], Whole(diff))
        BY <2>1
    <2>4. (\A k \in Kinds : p[k] \in Nat) /\ Shares(p)
        BY ONLY <2>2, <2>3, SharesFit
    <2>5. p \in [Kinds -> Nat]
        BY <2>1, <2>4
    <2>6. /\ values' \in Seq([Kinds -> Nat]) /\ Len(values') = Len(values) + 1
          /\ values'[Len(values) + 1] = p /\ \A i \in 1..Len(values) : values'[i] = values[i]
        BY <1>1, <2>1, <2>5, AppendProperties
    <2>7. Forward(at)
        BY <1>8, <1>11 DEF CpuSample
    <2>8. \A i \in 1..Len(values') : Shares(values'[i])
      <3>1. Len(values) \in Nat
          BY <1>1, <1>9
      <3>2. \A i \in 1..(Len(values) + 1) : i = Len(values) + 1 \/ i \in 1..Len(values)
          BY <3>1
      <3> QED BY <1>1, <2>4, <2>6, <3>2
    <2>9. Len(values') = Cardinality(Counted(at - 1)')
        BY <1>1, <1>4, <1>9, <1>10, <2>6, <2>7
    <2> QED BY <1>5, <1>6, <2>6, <2>8, <2>9 DEF CpuInv, Shares, Total
  <1>12. CASE CpuWentBack
    <2>1. ~Forward(at) /\ values' = values
        BY <1>8, <1>12 DEF CpuWentBack
    <2>2. Len(values') = Cardinality(Counted(at - 1)')
        BY <1>1, <1>4, <1>9, <1>10, <2>1
    <2> QED BY <1>1, <1>5, <1>6, <2>1, <2>2 DEF CpuInv, Shares, Total
  <1> QED BY <1>11, <1>12

-----------------------------------------------------------------------------
\* The processes of a name.

ProcessSamples == [time : 0..(MaxSamples - 1), ticks : PartOf(Pids, MaxTicks)]

\* No two samples are of one second.
Apart == \A i \in 2..Len(samples) : samples[i].time # samples[i - 1].time

LEMMA TimesAre ==
    ASSUME Recorded(ProcessSamples), InOrder(samples), Apart,
           NEW i \in 1..Len(samples), NEW j \in 1..Len(samples), i < j
    PROVE  samples[i].time < samples[j].time
  <1> DEFINE t(k) == samples[k].time
             bad == {k \in 1..Len(samples) : i < k /\ ~(t(i) < t(k))}
  <1>1. Len(samples) \in Nat /\ \A k \in 1..Len(samples) : t(k) \in Int
      BY Bounds DEF Recorded, ProcessSamples
  <1>2. \A k \in 2..Len(samples) : t(k) >= t(k - 1) /\ t(k) # t(k - 1)
      BY DEF InOrder, Apart
  <1> HIDE DEF t
  <1>3. bad = {}
    <2> SUFFICES ASSUME bad # {} PROVE FALSE
        OBVIOUS
    <2>1. bad \in SUBSET Nat
        OBVIOUS
    <2>2. PICK k \in bad : \A m \in bad : k <= m
        BY <2>1, Least
    <2>3. k \in 2..Len(samples) /\ k - 1 \in 1..Len(samples) /\ i < k /\ ~(t(i) < t(k))
        BY <1>1, <2>2
    <2>4. t(k) > t(k - 1)
      <3>1. t(k) >= t(k - 1) /\ t(k) # t(k - 1)
          BY <1>2, <2>3
      <3>2. t(k) \in Int /\ t(k - 1) \in Int
          BY <1>1, <2>3
      <3> QED BY ONLY <3>1, <3>2
    <2>5. CASE k - 1 = i
        BY <2>3, <2>4, <2>5
    <2>6. CASE k - 1 # i
      <3>1. i < k - 1 /\ k - 1 \notin bad
          BY <2>1, <2>2, <2>3, <2>6
      <3>2. t(i) < t(k - 1)
          BY <2>3, <3>1
      <3> QED BY <1>1, <2>3, <2>4, <3>2
    <2> QED BY <2>5, <2>6
  <1>4. t(i) < t(j)
      BY <1>3
  <1> QED BY <1>4 DEF t

\* Then each sample with processes is an entry of its own.
LEMMA EntryIs ==
    ASSUME Recorded(ProcessSamples), InOrder(samples), Apart, at \in 1..Len(samples)
    PROVE  /\ IsEntry <=> DOMAIN Now.ticks # {}
           /\ IsFirst <=> \A i \in 1..(at - 1) : DOMAIN samples[i].ticks = {}
           /\ Entry.ticks = TicksOf(Now)
  <1>1. Len(samples) \in Nat /\ DOMAIN samples = 1..Len(samples)
      BY DEF Recorded
  <1>2. \A i \in 1..Len(samples) : samples[i].time \in Int
      BY Bounds DEF Recorded, ProcessSamples
  <1>3. \A i \in 1..Len(samples) : /\ i < at => samples[i].time < Now.time
                                   /\ at < i => Now.time < samples[i].time
      BY TimesAre DEF Now
  <1>4. \A i \in 1..Len(samples) : /\ samples[i].time = Now.time <=> i = at
                                   /\ samples[i].time < Now.time <=> i \in 1..(at - 1)
    <2> SUFFICES ASSUME NEW i \in 1..Len(samples)
                 PROVE  /\ samples[i].time = Now.time <=> i = at
                        /\ samples[i].time < Now.time <=> i \in 1..(at - 1)
        OBVIOUS
    <2>1. Now.time \in Int /\ Now.time = samples[at].time /\ samples[i].time \in Int
        BY <1>2 DEF Now
    <2>2. i < at \/ i = at \/ at < i
        BY <1>1
    <2> QED BY <1>1, <1>3, <2>1, <2>2
  <1>5. IsEntry <=> DOMAIN Now.ticks # {}
    <2>1. at = Len(samples) \/ samples[at + 1].time # Now.time
      <3>1. at # Len(samples) => at + 1 \in 1..Len(samples) /\ at + 1 # at
        <4>1. Len(samples) \in Nat
            BY <1>1
        <4> QED BY ONLY <4>1, at \in 1..Len(samples)
      <3> QED BY <1>4, <3>1
    <2>2. \A i \in DOMAIN samples : samples[i].time = Now.time <=> i = at
        BY <1>1, <1>4
    <2>3. at \in DOMAIN samples /\ Now = samples[at]
        BY <1>1 DEF Now
    <2> QED BY ONLY <2>1, <2>2, <2>3, Zenon DEF IsEntry
  <1>6. IsFirst <=> \A i \in 1..(at - 1) : DOMAIN samples[i].ticks = {}
    <2>1. \A i \in 1..(at - 1) : i \in 1..Len(samples)
        BY <1>1
    <2> QED BY <1>1, <1>4, <2>1 DEF IsFirst
  <1>7. Entry.ticks = TicksOf(Now)
    <2> DEFINE then == {i \in DOMAIN samples : samples[i].time = Now.time}
               f == [i \in then |-> TicksOf(samples[i])]
    <2>1. then = {at}
        BY <1>1, <1>4
    <2>2. DOMAIN f = {at} /\ f[at] = TicksOf(Now)
        BY <2>1 DEF Now
    <2>3. Entry.ticks = SumFunctionOnSet(f, DOMAIN f)
        BY DEF Entry, TicksAt, SumFunction
    <2> HIDE DEF f
    <2>4. TicksOf(Now) \in Int
      <3>1. /\ DOMAIN Now.ticks \in SUBSET Pids
            /\ \A p \in DOMAIN Now.ticks : Now.ticks[p] \in Int
        <4>1. Now.ticks \in PartOf(Pids, MaxTicks)
            BY DEF Now, Recorded, ProcessSamples
        <4> QED BY <4>1, PartIs, Bounds
      <3>2. IsFiniteSet(DOMAIN Now.ticks)
          BY <3>1, Bounds, FS_Subset
      <3> QED BY <3>1, <3>2, SumTypes DEF TicksOf, SumFunction
    <2>5. SumFunctionOnSet(f, then) = f[at] + SumFunctionOnSet(f, {})
      <3>1. IsFiniteSet(then) /\ at \in then /\ then \ {at} = {}
          BY <2>1, FS_Singleton
      <3>2. \A y \in then : f[y] \in Int
          BY <2>1, <2>2, <2>4
      <3> HIDE DEF then
      <3>3. SumFunctionOnSet(f, then) = f[at] + SumFunctionOnSet(f, then \ {at})
          BY ONLY <3>1, <3>2, SumRemove
      <3> QED BY <3>1, <3>3
    <2>6. SumFunctionOnSet(f, {}) = 0
        BY SumEmpty
    <2>7. Entry.ticks = SumFunctionOnSet(f, then)
        BY <2>1, <2>2, <2>3
    <2> HIDE DEF then
    <2> QED BY ONLY <2>2, <2>4, <2>5, <2>6, <2>7
  <1> QED BY <1>5, <1>6, <1>7

\* What the processes are seen to have used at the sample i.
Work(i) == SumFunction([p \in Pids |-> Worked(p, i)])

Earned(i) == SumFunction([j \in 2..i |-> Work(j)])

LEMMA TicksAre ==
    ASSUME Recorded(ProcessSamples), NEW i \in 1..Len(samples)
    PROVE  /\ TicksOf(samples[i]) \in Nat
           /\ DOMAIN samples[i].ticks \in SUBSET Pids
           /\ \A p \in DOMAIN samples[i].ticks : samples[i].ticks[p] \in Nat
           /\ DOMAIN samples[i].ticks = {} => TicksOf(samples[i]) = 0
           /\ TicksOf(samples[i]) = SumFunctionOnSet(
                  [p \in Pids |-> IF p \in DOMAIN samples[i].ticks THEN samples[i].ticks[p] ELSE 0],
                  Pids)
  <1> DEFINE f == samples[i].ticks
             g == [p \in Pids |-> IF p \in DOMAIN f THEN f[p] ELSE 0]
             S == DOMAIN f
  <1>1. S \in SUBSET Pids /\ \A p \in S : f[p] \in Nat
    <2>1. f \in PartOf(Pids, MaxTicks)
        BY DEF Recorded, ProcessSamples
    <2> HIDE DEF f
    <2> QED BY <2>1, PartIs, Bounds
  <1>2. IsFiniteSet(Pids) /\ IsFiniteSet(S)
      BY <1>1, Bounds, FS_Subset
  <1>3. /\ \A p \in S : g[p] = f[p]
        /\ \A p \in Pids \ S : g[p] = 0
        /\ \A p \in Pids : g[p] \in Int
      BY <1>1
  <1>4. TicksOf(samples[i]) = SumFunctionOnSet(f, S)
      BY DEF TicksOf, SumFunction
  <1> HIDE DEF f, g, S
  <1>5. SumFunctionOnSet(f, S) \in Nat
      BY <1>1, <1>2, SumTypes
  <1>6. SumFunctionOnSet(g, S) = SumFunctionOnSet(f, S)
      BY <1>2, <1>3, SumSame
  <1>7. SumFunctionOnSet(g, Pids) = SumFunctionOnSet(g, S)
      BY ONLY <1>1, <1>2, <1>3, SumZeros
  <1>8. S = {} => SumFunctionOnSet(f, S) = 0
      BY SumEmpty
  <1> QED BY <1>1, <1>4, <1>5, <1>6, <1>7, <1>8 DEF f, g, S

LEMMA WorkIs ==
    ASSUME Recorded(ProcessSamples), NEW i \in 2..Len(samples)
    PROVE  Work(i) \in Nat /\ TicksOf(samples[i]) <= TicksOf(samples[i - 1]) + Work(i)
  <1> DEFINE now == samples[i].ticks
             old == samples[i - 1].ticks
             f == [p \in Pids |-> IF p \in DOMAIN now THEN now[p] ELSE 0]
             g == [p \in Pids |-> IF p \in DOMAIN old THEN old[p] ELSE 0]
             w == [p \in Pids |-> Worked(p, i)]
             h == [p \in Pids |-> g[p] + w[p]]
  <1>1. i \in 1..Len(samples) /\ i - 1 \in 1..Len(samples)
      BY DEF Recorded
  <1>2. /\ TicksOf(samples[i]) = SumFunctionOnSet(f, Pids)
        /\ TicksOf(samples[i - 1]) = SumFunctionOnSet(g, Pids)
        /\ \A p \in DOMAIN now : now[p] \in Nat
        /\ \A p \in DOMAIN old : old[p] \in Nat
    <2>1. /\ TicksOf(samples[i]) = SumFunctionOnSet(f, Pids)
          /\ \A p \in DOMAIN now : now[p] \in Nat
        BY <1>1, TicksAre
    <2>2. /\ TicksOf(samples[i - 1]) = SumFunctionOnSet(g, Pids)
          /\ \A p \in DOMAIN old : old[p] \in Nat
        BY <1>1, TicksAre
    <2> QED BY <2>1, <2>2
  <1>3. \A p \in Pids : f[p] \in Nat /\ g[p] \in Nat
      BY <1>2
  <1>4. \A p \in Pids : w[p] \in Nat /\ f[p] <= g[p] + w[p]
    <2> SUFFICES ASSUME NEW p \in Pids PROVE w[p] \in Nat /\ f[p] <= g[p] + w[p]
        OBVIOUS
    <2>1. w[p] = IF p \notin DOMAIN now THEN 0 ELSE ToUnsigned(f[p] - g[p])
        BY DEF Worked
    <2>2. p \notin DOMAIN now => f[p] = 0
        OBVIOUS
    <2>3. f[p] \in Nat /\ g[p] \in Nat
        BY <1>3
    <2> HIDE DEF f, g, w
    <2> QED BY <2>1, <2>2, <2>3 DEF ToUnsigned
  <1>5. \A p \in Pids : h[p] = g[p] + w[p]
      OBVIOUS
  <1> HIDE DEF f, g, w, h
  <1>6. IsFiniteSet(Pids)
      BY Bounds
  <1>7. \A p \in Pids : /\ f[p] \in Int /\ g[p] \in Int /\ w[p] \in Int /\ h[p] \in Int
                        /\ f[p] * 1 <= h[p] * 1
      BY <1>3, <1>4, <1>5
  <1>8. SumFunctionOnSet(h, Pids) = SumFunctionOnSet(g, Pids) + SumFunctionOnSet(w, Pids)
      BY ONLY <1>5, <1>6, <1>7, SumPlus
  <1>9. SumFunctionOnSet(f, Pids) * 1 <= SumFunctionOnSet(h, Pids) * 1
    <2>1. 1 \in Int
        OBVIOUS
    <2> QED BY ONLY <1>6, <1>7, <2>1, SumCompare
  <1>10. SumFunctionOnSet(w, Pids) \in Nat
      BY <1>4, <1>6, <1>7, SumTypes
  <1>11. SumFunctionOnSet(f, Pids) \in Int /\ SumFunctionOnSet(h, Pids) \in Int
    <2>1. SumFunctionOnSet(f, Pids) \in Int
        BY <1>6, <1>7, SumTypes
    <2>2. SumFunctionOnSet(h, Pids) \in Int
        BY <1>6, <1>7, SumTypes
    <2> QED BY <2>1, <2>2
  <1>12. Work(i) = SumFunctionOnSet(w, Pids)
    <2>1. DOMAIN w = Pids /\ Work(i) = SumFunction(w)
        BY DEF w, Work
    <2> QED BY <2>1 DEF SumFunction
  <1>13. SumFunctionOnSet(f, Pids) <= SumFunctionOnSet(g, Pids) + SumFunctionOnSet(w, Pids)
      BY ONLY <1>8, <1>9, <1>11
  <1> QED BY <1>2, <1>10, <1>12, <1>13

LEMMA EarnedNow ==
    ASSUME Recorded(ProcessSamples), at \in 1..Len(samples)
    PROVE  /\ Earned(at - 1) \in Int
           /\ at = 1 => Earned(at) = 0 /\ Earned(at - 1) = 0
           /\ at > 1 => Earned(at) = Earned(at - 1) + Work(at)
  <1> DEFINE f == [j \in 2..(at - 1) |-> Work(j)]
             g == [j \in 2..at |-> Work(j)]
             S == 2..(at - 1)
  <1>1. Len(samples) \in Nat /\ at \in Nat
      BY DEF Recorded
  <1>2. \A j \in 2..at : Work(j) \in Nat
      BY <1>1, WorkIs
  <1>3. /\ Earned(at - 1) = SumFunctionOnSet(f, S) /\ Earned(at) = SumFunctionOnSet(g, 2..at)
        /\ \A j \in S : f[j] = g[j] /\ f[j] \in Int
        /\ \A j \in 2..at : g[j] = Work(j) /\ g[j] \in Int
    <2>1. DOMAIN f = S /\ DOMAIN g = 2..at /\ Earned(at - 1) = SumFunction(f) /\ Earned(at) = SumFunction(g)
        BY DEF Earned
    <2>2. \A j \in S : j \in 2..at
        BY <1>1
    <2>3. \A j \in 2..at : g[j] = Work(j) /\ g[j] \in Int
        BY <1>2
    <2>4. \A j \in S : f[j] = g[j] /\ f[j] \in Int
        BY <2>2, <2>3
    <2> HIDE DEF f, g, S
    <2> QED BY <2>1, <2>3, <2>4 DEF SumFunction
  <1>4. IsFiniteSet(S)
      BY <1>1, FS_Interval
  <1> HIDE DEF f, g
  <1>5. SumFunctionOnSet(f, S) \in Int /\ SumFunctionOnSet(g, S) = SumFunctionOnSet(f, S)
    <2>1. SumFunctionOnSet(f, S) \in Int
        BY <1>3, <1>4, SumTypes
    <2> HIDE DEF S
    <2>2. SumFunctionOnSet(f, S) = SumFunctionOnSet(g, S)
        BY <1>3, <1>4, SumSame
    <2> QED BY <2>1, <2>2
  <1>6. CASE at = 1
    <2>1. S = {} /\ 2..at = {}
        BY <1>6
    <2>2. SumFunctionOnSet(f, {}) = 0 /\ SumFunctionOnSet(g, {}) = 0
        BY SumEmpty
    <2> QED BY <1>3, <1>6, <2>1, <2>2
  <1>7. CASE at > 1
    <2>1. 2..at = S \cup {at} /\ at \notin S /\ at \in 2..at
      <3>1. \A j : j \in 2..at <=> j \in S \/ j = at
          BY ONLY <1>1, <1>7
      <3>2. at \notin S
          BY ONLY <1>1
      <3> HIDE DEF S
      <3> QED BY <3>1, <3>2
    <2>2. \A j \in S \cup {at} : g[j] \in Int
        BY <1>3, <2>1
    <2> HIDE DEF S
    <2>3. SumFunctionOnSet(g, S \cup {at}) = g[at] + SumFunctionOnSet(g, S)
        BY ONLY <1>4, <2>1, <2>2, SumAdd
    <2>4. g[at] = Work(at) /\ g[at] \in Int
        BY <1>3, <2>1
    <2>5. Earned(at) = SumFunctionOnSet(g, S \cup {at})
        BY <1>3, <2>1
    <2> QED BY ONLY <1>1, <1>3, <1>5, <1>7, <2>3, <2>4, <2>5
  <1> QED BY <1>1, <1>3, <1>5, <1>6, <1>7

\* Once there have been processes, the entry before counts what they have.
ProcessInv == file = "process" =>
    /\ Recorded(ProcessSamples) /\ Placed /\ InOrder(samples)
    /\ Apart => /\ values \in Seq(Int) /\ SumFunction(values) <= Earned(at - 1)
                /\ (\E i \in 1..(at - 1) : DOMAIN samples[i].ticks # {}) =>
                       prev.ticks \in Nat /\ prev.ticks >= TicksOf(samples[at - 1])

LEMMA ProcessInit == SeriesInit => ProcessInv
  <1> SUFFICES ASSUME SeriesInit, file = "process" PROVE ProcessInv
      BY DEF ProcessInv
  <1>1. samples \in Recordings(ProcessSamples) /\ at = 1 /\ InOrder(samples)
      BY DEF SeriesInit, ProcessSamples
  <1>2. values = <<>>
      BY DEF SeriesInit
  <1>3. Recorded(ProcessSamples)
      BY <1>1, RecordingIs
  <1>4. Placed /\ at \in 1..Len(samples)
      BY <1>1, <1>3 DEF Placed, Recorded
  <1>5. values \in Seq(Int) /\ SumFunction(values) = 0
      BY <1>2, EmptySeq, SumNothing
  <1>6. Earned(at - 1) = 0
      BY <1>1, <1>3, <1>4, EarnedNow
  <1>7. 1..(at - 1) = {}
      BY <1>1
  <1> QED BY <1>1, <1>3, <1>4, <1>5, <1>6, <1>7 DEF ProcessInv

LEMMA ProcessStays == ProcessInv /\ Stays => ProcessInv'
  <1> SUFFICES ASSUME ProcessInv, Stays, file = "process" PROVE ProcessInv'
      BY DEF ProcessInv, Stays
  <1>1. /\ file' = file /\ samples' = samples /\ at' = at /\ prev' = prev /\ values' = values
      BY DEF Stays
  <1>2. Earned(at - 1)' = Earned(at - 1) /\ (Apart' <=> Apart)
      BY <1>1 DEF Earned, Work, Worked, Apart
  <1>3. Recorded(ProcessSamples)' /\ Placed' /\ InOrder(samples)'
      BY <1>1 DEF ProcessInv, Recorded, Placed, InOrder
  <1> QED BY <1>1, <1>2, <1>3 DEF ProcessInv, TicksOf

LEMMA ProcessStep == ASSUME ProcessInv, file = "process", ProcessSample PROVE ProcessInv'
  <1>1. Recorded(ProcessSamples) /\ Placed /\ InOrder(samples)
      BY DEF ProcessInv
  <1>2. /\ at <= Len(samples) /\ Walk
        /\ IF ~IsEntry THEN UNCHANGED <<prev, values>>
           ELSE /\ prev' = Entry
                /\ values' = IF IsFirst THEN values ELSE Append(values, Used(Entry, prev))
      BY DEF ProcessSample
  <1>3. file' = file /\ samples' = samples /\ at' = at + 1
      BY <1>2 DEF Walk
  <1>4. at \in 1..Len(samples) /\ at \in Nat \ {0} /\ Len(samples) \in Nat /\ at' - 1 = at
      BY <1>1, <1>2, <1>3 DEF Recorded, Placed
  <1>5. Recorded(ProcessSamples)' /\ Placed' /\ InOrder(samples)'
      BY <1>1, <1>3, <1>4 DEF Recorded, Placed, InOrder
  <1>6. (Apart' <=> Apart) /\ Earned(at - 1)' = Earned(at) /\ TicksOf(samples[at - 1])' = TicksOf(Now)
      BY <1>3, <1>4 DEF Apart, Earned, Work, Worked, TicksOf, Now
  <1>7. ASSUME Apart
        PROVE  /\ values' \in Seq(Int) /\ SumFunction(values') <= Earned(at)
               /\ (\E i \in 1..at : DOMAIN samples[i].ticks # {}) =>
                      prev'.ticks \in Nat /\ prev'.ticks >= TicksOf(Now)
    <2> DEFINE before == \E i \in 1..(at - 1) : DOMAIN samples[i].ticks # {}
               t == TicksOf(Now)
               o == TicksOf(samples[at - 1])
    <2>1. /\ values \in Seq(Int) /\ SumFunction(values) <= Earned(at - 1)
          /\ before => prev.ticks \in Nat /\ prev.ticks >= o
        BY <1>7 DEF ProcessInv
    <2>2. /\ IsEntry <=> DOMAIN Now.ticks # {}
          /\ IsFirst <=> ~before
          /\ Entry.ticks = t
        BY <1>1, <1>4, <1>7, EntryIs
    <2>3. t \in Nat /\ (DOMAIN Now.ticks = {} => t = 0)
        BY <1>1, <1>4, TicksAre DEF Now
    <2>4. SumFunction(values) \in Int
      <3>1. 0 \in Int
          OBVIOUS
      <3> QED BY ONLY <2>1, <3>1, Appended
    <2>5. /\ Earned(at - 1) \in Int
          /\ at = 1 => Earned(at) = 0 /\ Earned(at - 1) = 0
          /\ at > 1 => Earned(at) = Earned(at - 1) + Work(at)
        BY <1>1, <1>4, EarnedNow
    <2>6. at > 1 => Work(at) \in Nat /\ o \in Nat /\ t <= o + Work(at)
      <3> SUFFICES ASSUME at > 1 PROVE Work(at) \in Nat /\ o \in Nat /\ t <= o + Work(at)
          OBVIOUS
      <3>1. at \in 2..Len(samples) /\ at - 1 \in 1..Len(samples)
          BY <1>4
      <3>2. Work(at) \in Nat /\ t <= o + Work(at)
          BY <1>1, <3>1, WorkIs DEF Now
      <3>3. o \in Nat
          BY <1>1, <3>1, TicksAre
      <3> QED BY <3>2, <3>3
    <2>7. before => at > 1
        BY <1>4
    <2>8. (\E i \in 1..at : DOMAIN samples[i].ticks # {}) <=> before \/ DOMAIN Now.ticks # {}
      <3>1. \A i : i \in 1..at <=> i \in 1..(at - 1) \/ i = at
          BY <1>4
      <3> QED BY <3>1 DEF Now
    <2>9. Earned(at - 1) <= Earned(at) /\ Earned(at) \in Int
      <3> HIDE DEF before, t, o
      <3> QED BY <1>4, <2>5, <2>6
    <2>10. CASE DOMAIN Now.ticks = {}
      <3>1. prev' = prev /\ values' = values
          BY <1>2, <2>2, <2>10
      <3>2. SumFunction(values') <= Earned(at)
          BY <2>1, <2>4, <2>5, <2>9, <3>1
      <3>3. before => prev.ticks >= t
          BY <2>1, <2>3, <2>10
      <3> QED BY <2>1, <2>8, <2>10, <3>1, <3>2, <3>3
    <2>11. CASE DOMAIN Now.ticks # {} /\ ~before
      <3>1. prev' = Entry /\ values' = values
          BY <1>2, <2>2, <2>11
      <3>2. SumFunction(values') <= Earned(at)
          BY <2>1, <2>4, <2>5, <2>9, <3>1
      <3> QED BY <2>1, <2>2, <2>3, <3>1, <3>2
    <2>12. CASE DOMAIN Now.ticks # {} /\ before
      <3> DEFINE n == Used(Entry, prev)
                 was == prev.ticks
      <3>1. prev' = Entry /\ values' = Append(values, n)
          BY <1>2, <2>2, <2>12
      <3>2. was \in Nat /\ was >= o /\ n = ToUnsigned(t - was)
          BY <2>1, <2>2, <2>12 DEF Used
      <3> HIDE DEF n, was, t, o
      <3>3. n \in Int /\ n <= Work(at) /\ Work(at) \in Nat
          BY <2>3, <2>6, <2>7, <2>12, <3>2 DEF ToUnsigned
      <3>4. values' \in Seq(Int) /\ SumFunction(values') = SumFunction(values) + n
        <4>1. Append(values, n) \in Seq(Int) /\ SumFunction(Append(values, n)) = SumFunction(values) + n
            BY ONLY <2>1, <3>3, Appended
        <4> QED BY <3>1, <4>1
      <3>5. SumFunction(values') <= Earned(at)
          BY ONLY <2>1, <2>4, <2>5, <2>7, <2>12, <3>3, <3>4
      <3>6. prev'.ticks \in Nat /\ prev'.ticks >= t
          BY <2>2, <2>3, <3>1
      <3> QED BY <3>4, <3>5, <3>6 DEF t
    <2> QED BY <2>10, <2>11, <2>12
  <1> QED BY <1>3, <1>4, <1>5, <1>6, <1>7 DEF ProcessInv

-----------------------------------------------------------------------------
\* All of the loops.

SeriesInv == DiskInv /\ KeyInv /\ InterruptInv /\ PerCpuInv /\ CpuInv /\ ProcessInv

LEMMA SeriesInvInit == SeriesInit => SeriesInv
  BY DiskInit, KeyInit, InterruptInit, PerCpuInit, CpuInit, ProcessInit DEF SeriesInv

LEMMA SeriesInvStays == SeriesInv /\ Stays => SeriesInv'
  BY DiskStays, KeyStays, InterruptStays, PerCpuStays, CpuStays, ProcessStays DEF SeriesInv

LEMMA SeriesInvNext == SeriesInv /\ [SeriesNext]_seriesVars => SeriesInv'
  <1> SUFFICES ASSUME SeriesInv, [SeriesNext]_seriesVars PROVE SeriesInv'
      OBVIOUS
  <1>1. ASSUME NEW how, End(how) PROVE SeriesInv'
      BY <1>1, SeriesInvStays DEF End, Stays
  <1>2. CASE DiskSample
    <2>1. file = "disk" /\ file' = file
        BY <1>2 DEF DiskSample, Walk
    <2>2. DiskInv'
        BY <1>2, <2>1, DiskStep DEF SeriesInv
    <2> QED BY <2>1, <2>2 DEF SeriesInv, KeyInv, KeyFiles, InterruptInv, PerCpuInv, CpuInv, ProcessInv
  <1>3. CASE DiskGauge
    <2>1. file = "disk_gauge" /\ file' = file
        BY <1>3 DEF DiskGauge, Walk
    <2>2. DiskInv'
        BY <1>3, <2>1, GaugeStep DEF SeriesInv
    <2> QED BY <2>1, <2>2 DEF SeriesInv, KeyInv, KeyFiles, InterruptInv, PerCpuInv, CpuInv, ProcessInv
  <1>4. CASE InterruptSample
    <2>1. file = "interrupt" /\ file' = file
        BY <1>4 DEF InterruptSample, Walk
    <2>2. InterruptInv'
        BY <1>4, <2>1, InterruptStep DEF SeriesInv
    <2> QED BY <2>1, <2>2 DEF SeriesInv, DiskInv, KeyInv, KeyFiles, PerCpuInv, CpuInv, ProcessInv
  <1>5. CASE KeySample
    <2>1. file \in KeyFiles /\ file' = file
        BY <1>5 DEF KeySample, Walk, KeyFiles
    <2>2. KeyInv'
        BY <1>5, <2>1, KeyStep DEF SeriesInv
    <2> QED BY <2>1, <2>2 DEF SeriesInv, DiskInv, KeyFiles, InterruptInv, PerCpuInv, CpuInv, ProcessInv
  <1>6. CASE ProcessSample
    <2>1. file = "process" /\ file' = file
        BY <1>6 DEF ProcessSample, Walk
    <2>2. ProcessInv'
        BY <1>6, <2>1, ProcessStep DEF SeriesInv
    <2> QED BY <2>1, <2>2 DEF SeriesInv, DiskInv, KeyInv, KeyFiles, InterruptInv, PerCpuInv, CpuInv
  <1>7. CASE CpuSample \/ CpuWentBack
    <2>1. file = "cpu" /\ file' = file
        BY <1>7 DEF CpuSample, CpuWentBack, Walk
    <2>2. CpuInv'
        BY <1>7, <2>1, CpuStep DEF SeriesInv
    <2> QED BY <2>1, <2>2 DEF SeriesInv, DiskInv, KeyInv, KeyFiles, InterruptInv, PerCpuInv, ProcessInv
  <1>8. CASE PerCpuSample
    <2>1. file = "percpu" /\ file' = file
        BY <1>8 DEF PerCpuSample, Walk
    <2>2. PerCpuInv'
        BY <1>8, <2>1, PerCpuStep DEF SeriesInv
    <2> QED BY <2>1, <2>2 DEF SeriesInv, DiskInv, KeyInv, KeyFiles, InterruptInv, CpuInv, ProcessInv
  <1>9. CASE DiskAppears \/ CpuAppears \/ CheckedOverflow \/ KeyMissing \/ Done
      BY <1>1, <1>9 DEF DiskAppears, CpuAppears, CheckedOverflow, KeyMissing, Done
  <1>10. CASE SeriesTerminated \/ UNCHANGED seriesVars
      BY <1>10, SeriesInvStays DEF SeriesTerminated, seriesVars, Stays
  <1> QED BY <1>2, <1>3, <1>4, <1>5, <1>6, <1>7, <1>8, <1>9, <1>10 DEF SeriesNext

LEMMA SeriesInvHolds == SeriesSpec => []SeriesInv
  <1> QED BY SeriesInvInit, SeriesInvNext, PTL DEF SeriesSpec

\* What is plotted of a counter adds up to what it has advanced (the loops of
\* get_values, get_entry and get_line_data: the sample before is the last one
\* processed, so that the differences telescope).
THEOREM PlottedAddsUp == SeriesSpec => []TotalsKept
  <1>1. SeriesInv => TotalsKept
    <2> SUFFICES ASSUME SeriesInv, at > 1 PROVE SignedTotals /\ UnsignedTotals
        BY DEF TotalsKept
    <2> DEFINE past == 1..(at - 1)
    <2>1. prev = Past /\ Placed => prev = Latest /\ at \in Nat /\ 1 \in past /\ at - 1 \in past
        BY DEF Past, Placed, Latest
    <2>2. ASSUME file = "disk", NEW d \in DOMAIN Latest
          PROVE  SumFunction(values[d]) = Latest[d] - samples[1][d] /\ Len(values[d]) = at - 1
        BY <2>1, <2>2 DEF SeriesInv, DiskInv, DiskTypes, Advanced
    <2>3. ASSUME file = "disk_gauge", NEW d \in DOMAIN values PROVE Gauged(d)
        BY <2>3 DEF SeriesInv, DiskInv
    <2>4. ASSUME file = "vmstat" PROVE SumFunction(values) = Latest[Key] - samples[1][Key]
        BY <2>1, <2>4 DEF SeriesInv, KeyInv, KeyFiles, KeyTypes
    <2>5. SignedTotals
        BY <2>2, <2>3, <2>4 DEF SignedTotals, Gauged, Since
    <2>6. ASSUME file = "interrupt", NEW c \in DOMAIN Latest
          PROVE  /\ Kept(Series(c), samples[1][c], Latest[c], Rose(c))
                 /\ at \in Nat /\ 1 \in past /\ at - 1 \in past
        BY <2>1, <2>6 DEF SeriesInv, InterruptInv, InterruptTypes
    <2>7. ASSUME file = "netstat"
          PROVE  /\ Kept(values, samples[1][Key], Latest[Key], Rose(Key))
                 /\ at \in Nat /\ 1 \in past /\ at - 1 \in past
        BY <2>1, <2>7 DEF SeriesInv, KeyInv, KeyFiles, KeyTypes
    <2>8. ASSUME NEW x, NEW plotted, at \in Nat, 1 \in past, at - 1 \in past,
                 Kept(plotted, samples[1][x], Latest[x], Rose(x))
          PROVE  LET count == [i \in past |-> samples[i][x]]
                     advanced == count[at - 1] - count[1]
                 IN /\ SumFunction(plotted) % Modulus = advanced % Modulus
                    /\ (\A i \in 2..(at - 1) : count[i - 1] <= count[i]) =>
                           SumFunction(plotted) = advanced
      <3> DEFINE count == [i \in past |-> samples[i][x]]
      <3>1. \A i \in past : count[i] = samples[i][x]
          OBVIOUS
      <3>2. \A i \in 2..(at - 1) : i \in past /\ i - 1 \in past
          BY <2>8
      <3>3. count[at - 1] = Latest[x] /\ count[1] = samples[1][x]
          BY <2>8, <3>1 DEF Latest
      <3>4. (\A i \in 2..(at - 1) : count[i - 1] <= count[i]) => Rose(x)
          BY <3>1, <3>2 DEF Rose
      <3>5. /\ SumFunction(plotted) % Modulus = (count[at - 1] - count[1]) % Modulus
            /\ (\A i \in 2..(at - 1) : count[i - 1] <= count[i]) =>
                   SumFunction(plotted) = count[at - 1] - count[1]
        <4> HIDE DEF count
        <4> QED BY <2>8, <3>3, <3>4 DEF Kept
      <3> QED BY <3>5, Zenon
    <2>9. UnsignedTotals
        BY <2>6, <2>7, <2>8 DEF UnsignedTotals, Series
    <2> QED BY <2>5, <2>9
  <1> QED BY <1>1, SeriesInvHolds, PTL

\* The limits hold what is plotted, and closely (update_limit_u64 and
\* update_limit_f64: the first value of all sets both).
THEOREM GraphLimitsFit == SeriesSpec => []LimitsFit
  <1>1. SeriesInv => LimitsFit
    <2> SUFFICES ASSUME SeriesInv PROVE LimitsFit
        OBVIOUS
    <2>1. ASSUME file \in {"disk", "disk_gauge"}, Points # {}, \A n \in Points : n >= 0
          PROVE  Fit(Points)
      <3>1. DiskTypes
          BY <2>1 DEF SeriesInv, DiskInv
      <3>2. Points \in SUBSET Int
        <4>1. \A d \in DOMAIN values : Range(values[d]) \in SUBSET Int
            BY <3>1, SeqIs DEF Range, DiskTypes
        <4> QED BY <4>1 DEF Points
      <3>3. Points \in SUBSET Nat
          BY <2>1, <3>2
      <3> QED BY <2>1, <3>1, <3>3, LimitsAre DEF DiskTypes
    <2>2. ASSUME file \in KeyFiles, Range(values) # {}, \A n \in Range(values) : n >= 0
          PROVE  Fit(Range(values))
      <3> DEFINE P == Range(values)
      <3>1. KeyTypes /\ Limited(limits, {n % Modulus : n \in P})
          BY <2>2 DEF SeriesInv, KeyInv
      <3>2. \A n \in P : n \in Nat /\ n < Modulus
        <4>1. \A n \in P : n \in Int
            BY <3>1, SeqIs DEF Range, KeyTypes
        <4> QED BY <2>2, <3>1, <4>1 DEF KeyTypes
      <3>3. \A n \in P : n % Modulus = n
        <4>1. \A x, M \in Nat : M # 0 /\ x < M => x % M = x
            OBVIOUS
        <4>2. Modulus \in Nat /\ Modulus # 0
            BY Bounds
        <4> QED BY <3>2, <4>1, <4>2
      <3> HIDE DEF P
      <3>4. {n % Modulus : n \in P} = P
          BY <3>3
      <3>5. Limited(limits, P)
          BY <3>1, <3>4
      <3>6. P \in SUBSET Nat /\ P # {}
          BY <2>2, <3>2 DEF P
      <3>7. Fit(P)
          BY ONLY <3>5, <3>6, LimitsAre
      <3> QED BY <3>7 DEF P
    <2>3. CASE file \in {"disk", "disk_gauge"}
        BY <2>1, <2>3 DEF LimitsFit, Fit, Points
    <2>4. CASE file \in KeyFiles
        BY <2>2, <2>4 DEF LimitsFit, Fit, KeyFiles
    <2>5. CASE file \notin KeyFiles \cup {"disk", "disk_gauge"}
        BY <2>5 DEF LimitsFit, KeyFiles
    <2> QED BY <2>3, <2>4, <2>5
  <1> QED BY <1>1, SeriesInvHolds, PTL

\* Processes that come and go are never said to have used more than they have
\* (get_values of processes.rs: the entry before is kept over samples without).
THEOREM NoTicksInvented == SeriesSpec => []TicksEarned
  <1>1. SeriesInv => TicksEarned
      BY DEF SeriesInv, ProcessInv, TicksEarned, Apart, Earned, Work
  <1> QED BY <1>1, SeriesInvHolds, PTL

\* Percentages add up to 100 but for what truncating loses, and what goes back
\* is left out (is_less_than and get_aggregate_data of cpu_utilization.rs).
THEOREM PercentagesAddUp == SeriesSpec => []PercentagesFit
  <1>1. SeriesInv => PercentagesFit
      BY DEF SeriesInv, CpuInv, PercentagesFit, Shares, Counted, Forward
  <1> QED BY <1>1, SeriesInvHolds, PTL

\* The series of a number stays that of one CPU while no CPU before it comes or
\* goes (get_type of cpu_utilization.rs numbers those that are online).
THEOREM SeriesAreOfOneCpu == SeriesSpec => []SeriesStable
  <1>1. SeriesInv => SeriesStable
      BY DEF SeriesInv, PerCpuInv, SeriesStable, Place, Steady
  <1> QED BY <1>1, SeriesInvHolds, PTL
=============================================================================
