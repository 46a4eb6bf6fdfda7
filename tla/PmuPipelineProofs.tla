------------------------ MODULE PmuPipelineProofs -------------------------
(*************************************************************************)
(* Proofs that the dialogue never adds an event whose name is taken and  *)
(* that the events it deletes by name are there; and that the report of  *)
(* a recording shows every event on every CPU, that its quotients are    *)
(* true, and that nothing is counted twice, whichever file the dialogue  *)
(* has left behind: for lists of events, machines and recordings of any  *)
(* size.                                                                 *)
(*************************************************************************)
EXTENDS PmuPipeline, SequenceTheorems, SumLemmas

-----------------------------------------------------------------------------
\* Sequences in which a value is counted.

\* The places of v in s.
Places(s, v) == {i \in DOMAIN s : s[i] = v}

\* The places of a value are finitely many.
LEMMA PlacesFinite ==
    ASSUME NEW X, NEW s \in Seq(X), NEW v
    PROVE  IsFiniteSet(Places(s, v)) /\ Cardinality(Places(s, v)) \in Nat
  <1>1. IsFiniteSet(1..Len(s))
      BY FS_Interval
  <1>2. Places(s, v) \in SUBSET (1..Len(s))
      BY DEF Places
  <1> QED BY <1>1, <1>2, FS_Subset, FS_CardinalityType

\* A map of places to places that does not take two to one.
LEMMA Fewer ==
    ASSUME NEW S, NEW T, IsFiniteSet(T), NEW g \in [S -> T],
           \A a, b \in S : g[a] = g[b] => a = b
    PROVE  IsFiniteSet(S) /\ Cardinality(S) <= Cardinality(T)
  <1>1. g \in Injection(S, T)
      BY DEF Injection, IsInjective
  <1> QED BY <1>1, FS_Injection

\* A sequence without its element at p.
Without(r, s, p) == /\ Len(r) = Len(s) - 1
                    /\ \A i \in 1..Len(r) : r[i] = IF i < p THEN s[i] ELSE s[i + 1]

\* A sequence without its first element.
LEMMA HeadAndTail ==
    ASSUME NEW X, NEW s \in Seq(X), s # <<>>
    PROVE  /\ 1 \in DOMAIN s /\ s[1] = Head(s)
           /\ Tail(s) \in Seq(X) /\ Without(Tail(s), s, 1)
           /\ Tail(s) = <<>> <=> Len(s) = 1
  <1>1. Len(s) \in Nat \ {0}
      OBVIOUS
  <1>2. Tail(s) \in Seq(X) /\ Len(Tail(s)) = Len(s) - 1
      BY <1>1
  <1>3. \A i \in 1..(Len(s) - 1) : Tail(s)[i] = s[i + 1]
      BY <1>1
  <1>4. Without(Tail(s), s, 1)
      BY <1>1, <1>2, <1>3 DEF Without
  <1>5. Tail(s) = <<>> <=> Len(s) = 1
    <2> DEFINE r == Tail(s)
    <2>1. r \in Seq(X) /\ Len(r) = Len(s) - 1
        BY <1>2
    <2> HIDE DEF r
    <2>2. r = <<>> <=> Len(r) = 0
        BY <2>1
    <2> QED BY <1>1, <2>1, <2>2 DEF r
  <1> QED BY <1>1, <1>2, <1>4, <1>5

\* What is at p is there once less, and anything else as often as before.
LEMMA OneLess ==
    ASSUME NEW X, NEW s \in Seq(X), NEW r \in Seq(X), NEW p \in DOMAIN s, Without(r, s, p), NEW v
    PROVE  Cardinality(Places(r, v)) =
             IF s[p] = v THEN Cardinality(Places(s, v)) - 1 ELSE Cardinality(Places(s, v))
  <1> DEFINE T == Places(s, v) \ {p}
             up == [i \in Places(r, v) |-> IF i < p THEN i ELSE i + 1]
             down == [i \in T |-> IF i < p THEN i ELSE i - 1]
  <1>1. /\ IsFiniteSet(Places(s, v)) /\ IsFiniteSet(Places(r, v)) /\ IsFiniteSet(T)
        /\ Cardinality(T) = IF s[p] = v THEN Cardinality(Places(s, v)) - 1
                            ELSE Cardinality(Places(s, v))
        /\ Cardinality(T) \in Nat /\ Cardinality(Places(r, v)) \in Nat
    <2>1. IsFiniteSet(Places(s, v)) /\ IsFiniteSet(Places(r, v)) /\ Cardinality(Places(r, v)) \in Nat
        BY PlacesFinite
    <2>2. p \in Places(s, v) <=> s[p] = v
        BY DEF Places
    <2> QED BY <2>1, <2>2, FS_RemoveElement, FS_CardinalityType
  <1>2. up \in [Places(r, v) -> T]
      BY DEF Places, Without
  <1>3. \A a, b \in Places(r, v) : up[a] = up[b] => a = b
      BY DEF Places
  <1>4. down \in [T -> Places(r, v)]
      BY DEF Places, Without
  <1>5. \A a, b \in T : down[a] = down[b] => a = b
      BY DEF Places
  <1> HIDE DEF up, down, T
  <1>6. Cardinality(Places(r, v)) <= Cardinality(T)
      BY <1>1, <1>2, <1>3, Fewer
  <1>7. Cardinality(T) <= Cardinality(Places(r, v))
      BY <1>1, <1>4, <1>5, Fewer
  <1> QED BY <1>1, <1>6, <1>7

-----------------------------------------------------------------------------
\* The inductive invariant of the recording.

Titles == {e.name : e \in Events}

\* The names of a list, in its order.
NameSeq(list) == [i \in DOMAIN list |-> list[i].name]

DialogueTypes == /\ pmu_file \in Files \cup {Unnamed}
                 /\ edited \in Seq(Events)
                 /\ events \in Seq(Events)
                 /\ delete_list \in Seq(Titles)
                 /\ disk \in [Files -> Seq(Events) \cup {Broken, Absent}]

\* What is being added and what is to be deleted is there during that dialogue only.
Prompts == /\ screen \notin {"event", "more events"} => events = <<>>
           /\ screen # "delete" => delete_list = <<>>
           /\ screen = "delete" => delete_list # <<>>

\* No name is to be deleted more often than it is in the list.
EnoughOf == \A n : Cardinality(Places(delete_list, n))
                      <= Cardinality(Places(NameSeq(edited), n))

IInv == DialogueTypes /\ Prompts /\ AddedNamesNew /\ EnoughOf

LEMMA NameSeqType ==
    ASSUME NEW l \in Seq(Events)
    PROVE  /\ NameSeq(l) \in Seq(Titles) /\ DOMAIN NameSeq(l) = DOMAIN l
           /\ \A i \in DOMAIN l : NameSeq(l)[i] = l[i].name
  <1>1. \A i \in 1..Len(l) : l[i].name \in Titles
      BY DEF Titles
  <1>2. NameSeq(l) \in [1..Len(l) -> Titles] /\ Len(l) \in Nat
      BY <1>1 DEF NameSeq
  <1> QED BY <1>2 DEF NameSeq

\* The lists there may be are sequences of events.
LEMMA ListTypes ==
    ASSUME ListsOfEvents
    PROVE  Provided \subseteq Seq(Events) /\ BuiltIn \subseteq Seq(Events) /\ <<>> \in Seq(Events)
    BY DEF ListsOfEvents, Lists

\* When nothing is to be deleted no name is lacking.
LEMMA NothingLacks ==
    ASSUME NEW l \in Seq(Events), NEW n
    PROVE  Cardinality(Places(<<>>, n)) <= Cardinality(Places(NameSeq(l), n))
  <1>1. Places(<<>>, n) = {}
      BY DEF Places
  <1>2. Cardinality(Places(NameSeq(l), n)) \in Nat
      BY NameSeqType, PlacesFinite
  <1>3. Cardinality(Places(<<>>, n)) = 0
      BY <1>1, FS_EmptySet
  <1> QED BY <1>2, <1>3

LEMMA InitIInv == ListsOfEvents /\ DialogueInit => IInv
  <1> SUFFICES ASSUME ListsOfEvents, DialogueInit PROVE IInv
      OBVIOUS
  <1>1. DialogueTypes
      BY ListTypes DEF DialogueInit, DialogueTypes
  <1>2. Prompts /\ AddedNamesNew
      BY DEF DialogueInit, Prompts, AddedNamesNew
  <1>3. EnoughOf
      BY <1>1, NothingLacks DEF DialogueInit, DialogueTypes, EnoughOf
  <1> QED BY <1>1, <1>2, <1>3 DEF IInv

\* The program may leave at any time, with or without having written a file.
LEMMA LeaveIInv ==
    ASSUME IInv, NEW how \in Finished, Leave(how),
           disk' \in [Files -> Seq(Events) \cup {Broken, Absent}]
    PROVE  IInv'
  <1>1. /\ edited' = <<>> /\ events' = <<>> /\ delete_list' = <<>> /\ pmu_file' = Unnamed
        /\ screen' \in {"valid", "written", "failed"}
      BY DEF Leave, Finished
  <1>2. DialogueTypes'
      BY <1>1 DEF DialogueTypes
  <1>3. Prompts' /\ AddedNamesNew'
      BY <1>1 DEF Prompts, AddedNamesNew
  <1>4. EnoughOf'
      BY <1>1, <1>2, NothingLacks DEF EnoughOf, DialogueTypes
  <1> QED BY <1>2, <1>3, <1>4 DEF IInv

\* A file that is written holds a list or nothing that is one.
LEMMA WrittenIInv ==
    ASSUME IInv, NEW f \in Files, NEW list \in Seq(Events), Written(f, list)
    PROVE  IInv'
  <1>1. CASE Leave("written") /\ disk' = [disk EXCEPT ![f] = list]
    <2>1. disk' \in [Files -> Seq(Events) \cup {Broken, Absent}]
        BY <1>1 DEF IInv, DialogueTypes
    <2> QED BY <1>1, <2>1, LeaveIInv DEF Finished
  <1>2. CASE Leave("failed") /\ disk' = [disk EXCEPT ![f] = Broken]
    <2>1. disk' \in [Files -> Seq(Events) \cup {Broken, Absent}]
        BY <1>2 DEF IInv, DialogueTypes
    <2> QED BY <1>2, <2>1, LeaveIInv DEF Finished
  <1> QED BY <1>1, <1>2 DEF Written

\* The steps that leave the lists alone and no names to be deleted.
LEMMA ListsStay ==
    ASSUME IInv, UNCHANGED <<pmu_file, edited, delete_list, disk>>,
           events' \in Seq(Events), Prompts', AddedNamesNew'
    PROVE  IInv'
    BY DEF IInv, DialogueTypes, EnoughOf

\* An event that is added has a name of its own.
LEMMA EnterIInv == ListsOfEvents /\ IInv /\ (\E e \in Typed : EnterEvent(e)) => IInv'
  <1> SUFFICES ASSUME ListsOfEvents, IInv, NEW e \in Typed, EnterEvent(e) PROVE IInv'
      OBVIOUS
  <1>1. e \in Events /\ events \in Seq(Events) /\ events' = Append(events, e)
      BY DEF Events, EnterEvent, IInv, DialogueTypes
  <1>2. Prompts'
      BY DEF EnterEvent, IInv, Prompts
  <1>3. AddedNamesNew'
    <2>1. e.name \notin NamesIn(edited) /\ \A i \in DOMAIN events : events[i].name # e.name
        BY DEF EnterEvent, EventNames, NamesIn
    <2>2. /\ DOMAIN events' = 1..(Len(events) + 1) /\ Len(events) \in Nat
          /\ \A i \in DOMAIN events' :
                \/ i \in DOMAIN events /\ events'[i] = events[i]
                \/ i = Len(events) + 1 /\ events'[i] = e
        BY <1>1
    <2>3. \A i \in DOMAIN events' : events'[i].name \notin NamesIn(edited)
        BY <2>1, <2>2 DEF IInv, AddedNamesNew
    <2>4. \A i, j \in DOMAIN events' : events'[i].name = events'[j].name => i = j
        BY <2>1, <2>2 DEF IInv, AddedNamesNew
    <2>5. NamesIn(edited)' = NamesIn(edited)
        BY DEF EnterEvent, NamesIn
    <2> QED BY <2>3, <2>4, <2>5 DEF AddedNamesNew
  <1>4. events' \in Seq(Events)
      BY <1>1
  <1> QED BY <1>2, <1>3, <1>4, ListsStay DEF EnterEvent

LEMMA NoMoreIInv == ListsOfEvents /\ IInv /\ NoMoreEvents => IInv'
  <1> SUFFICES ASSUME ListsOfEvents, IInv, NoMoreEvents PROVE IInv'
      OBVIOUS
  <1>1. CASE creating
    <2>1. PICK f \in Files : Written(f, events)
      <3>1. (IF pmu_file = Unnamed THEN "custom" ELSE pmu_file) \in Files
          BY DEF IInv, DialogueTypes, Files
      <3> QED BY <1>1, <3>1 DEF NoMoreEvents
    <2> QED BY <2>1, WrittenIInv DEF IInv, DialogueTypes
  <1>2. CASE ~creating
    <2>1. /\ screen' = "action" /\ edited' = edited \o events /\ events' = <<>>
          /\ UNCHANGED <<pmu_file, delete_list, disk>>
        BY <1>2 DEF NoMoreEvents
    <2>2. DialogueTypes'
        BY <2>1 DEF IInv, DialogueTypes
    <2>3. delete_list = <<>>
        BY DEF NoMoreEvents, IInv, Prompts
    <2>4. Prompts' /\ AddedNamesNew'
        BY <2>1, <2>3 DEF Prompts, AddedNamesNew
    <2>5. EnoughOf'
        BY <2>1, <2>2, <2>3, NothingLacks DEF EnoughOf, DialogueTypes
    <2> QED BY <2>2, <2>4, <2>5 DEF IInv
  <1> QED BY <1>1, <1>2

\* What is selected by place is in the list as often as it is selected.
LEMMA SelectIInv == IInv /\ ChooseDelete => IInv'
  <1> SUFFICES ASSUME IInv, ChooseDelete PROVE IInv'
      OBVIOUS
  <1>1. /\ edited \in Seq(Events) /\ events = <<>> /\ delete_list = <<>>
        /\ UNCHANGED <<pmu_file, edited, events, disk>>
      BY DEF IInv, DialogueTypes, Prompts, ChooseDelete
  <1>2. AddedNamesNew'
      BY <1>1 DEF AddedNamesNew
  <1>3. CASE edited = <<>>
    <2>1. screen' = "action" /\ delete_list' = delete_list
        BY <1>3 DEF ChooseDelete
    <2>2. Prompts'
        BY <1>1, <2>1 DEF Prompts
    <2> QED BY <1>1, <1>2, <2>1, <2>2, ListsStay DEF IInv, DialogueTypes
  <1>4. CASE edited # <<>>
    <2>1. PICK n \in DOMAIN edited : \E places \in [1..n -> DOMAIN edited] : Select(places)
        BY <1>4 DEF ChooseDelete
    <2>2. PICK places \in [1..n -> DOMAIN edited] : Select(places)
        BY <2>1
    <2>3. n \in Nat \ {0} /\ DOMAIN places = 1..n
        BY <1>1, <2>1
    <2>4. /\ \A i, j \in 1..n : i < j => places[i] < places[j]
          /\ delete_list' = [i \in 1..n |-> edited[places[i]].name]
          /\ screen' = "delete"
        BY <2>2, <2>3 DEF Select
    <2>5. \A i \in 1..n : places[i] \in DOMAIN edited /\ edited[places[i]].name \in Titles
        BY <1>1 DEF Titles
    <2>6. delete_list' \in Seq(Titles) /\ delete_list' # <<>> /\ DOMAIN delete_list' = 1..n
        BY <2>3, <2>4, <2>5
    <2>7. DialogueTypes' /\ Prompts'
        BY <1>1, <2>4, <2>6 DEF IInv, DialogueTypes, Prompts
    <2>8. ASSUME NEW v
          PROVE  Cardinality(Places(delete_list', v)) <= Cardinality(Places(NameSeq(edited), v))
      <3> DEFINE S == Places(delete_list', v)
                 T == Places(NameSeq(edited), v)
                 g == [i \in S |-> places[i]]
      <3>1. \A i \in S : i \in 1..n /\ edited[places[i]].name = v
          BY <2>4, <2>6 DEF Places
      <3>2. g \in [S -> T]
          BY <1>1, <2>5, <3>1, NameSeqType DEF Places
      <3>3. \A a, b \in S : g[a] = g[b] => a = b
        <4> SUFFICES ASSUME NEW a \in S, NEW b \in S, places[a] = places[b] PROVE a = b
            OBVIOUS
        <4>1. a \in 1..n /\ b \in 1..n /\ places[a] \in Nat /\ places[b] \in Nat
            BY <1>1, <2>5, <3>1
        <4>2. ~(a < b) /\ ~(b < a)
            BY <2>4, <4>1
        <4> QED BY <2>3, <4>1, <4>2
      <3>4. IsFiniteSet(T)
          BY <1>1, NameSeqType, PlacesFinite
      <3> HIDE DEF S, T, g
      <3>5. Cardinality(S) <= Cardinality(T)
          BY <3>2, <3>3, <3>4, Fewer
      <3> QED BY <3>5 DEF S, T
    <2>9. EnoughOf'
        BY <1>1, <2>8 DEF EnoughOf
    <2> QED BY <1>2, <2>7, <2>9 DEF IInv
  <1> QED BY <1>3, <1>4

\* The place that is looked up is one of the name.
LEMMA Found ==
    ASSUME edited \in Seq(Events), NEW name \in NamesIn(edited)
    PROVE  Position(name) \in DOMAIN edited /\ edited[Position(name)].name = name
  <1> DEFINE T == {i \in DOMAIN edited : edited[i].name = name}
  <1>1. T \in SUBSET Nat /\ T # {}
      BY DEF NamesIn
  <1>2. PICK p \in T : \A j \in T : p <= j
      BY <1>1, Least
  <1>3. /\ p \in DOMAIN edited /\ edited[p].name = name
        /\ \A j \in 1..(p - 1) : edited[j].name # name
      BY <1>2
  <1> QED BY <1>3 DEF Position

\* The list without the event that is confirmed.
LEMMA Removing ==
    ASSUME NEW l \in Seq(Events), NEW p \in DOMAIN l
    PROVE  /\ RemoveAt(l, p) \in Seq(Events)
           /\ Without(NameSeq(RemoveAt(l, p)), NameSeq(l), p)
  <1> DEFINE r == RemoveAt(l, p)
  <1>1. r \in Seq(Events) /\ Len(r) = Len(l) - 1
        /\ \A i \in 1..Len(r) : r[i] = IF i < p THEN l[i] ELSE l[i + 1]
    <2> DEFINE front == SubSeq(l, 1, p - 1)
               back == SubSeq(l, p + 1, Len(l))
    <2>1. p \in 1..Len(l) /\ Len(l) \in Nat
        OBVIOUS
    <2>2. /\ front \in Seq(Events) /\ Len(front) = p - 1
          /\ \A i \in 1..(p - 1) : front[i] = l[i]
        BY <2>1
    <2>3. /\ back \in Seq(Events) /\ Len(back) = Len(l) - p
          /\ \A i \in 1..(Len(l) - p) : back[i] = l[p + i]
        BY <2>1
    <2>4. r = front \o back
        BY DEF RemoveAt
    <2> HIDE DEF front, back, r
    <2>5. /\ r \in Seq(Events) /\ Len(r) = Len(l) - 1
          /\ \A i \in 1..Len(r) : r[i] = IF i < p THEN front[i] ELSE back[i - (p - 1)]
      <3>1. /\ r \in Seq(Events)
            /\ Len(r) = Len(front) + Len(back)
            /\ \A i \in 1..(Len(front) + Len(back)) :
                    r[i] = IF i <= Len(front) THEN front[i] ELSE back[i - Len(front)]
        <4>1. front \in Seq(Events) /\ back \in Seq(Events)
            BY <2>2, <2>3
        <4>2. /\ front \o back \in Seq(Events)
              /\ Len(front \o back) = Len(front) + Len(back)
              /\ \A i \in 1..(Len(front) + Len(back)) : (front \o back)[i] =
                      IF i <= Len(front) THEN front[i] ELSE back[i - Len(front)]
            BY ONLY <4>1, ConcatProperties
        <4> QED BY ONLY <2>4, <4>2
      <3>2. Len(front) = p - 1 /\ Len(back) = Len(l) - p
          BY ONLY <2>2, <2>3
      <3>3. p \in Nat /\ Len(l) \in Nat
          BY ONLY <2>1
      <3>4. Len(r) \in Nat /\ Len(r) = Len(front) + Len(back)
          BY ONLY <3>1
      <3>5. Len(r) = Len(l) - 1
          BY ONLY <3>2, <3>3, <3>4
      <3>6. ASSUME NEW i \in 1..Len(r)
            PROVE  r[i] = IF i < p THEN front[i] ELSE back[i - (p - 1)]
        <4>1. r[i] = IF i <= Len(front) THEN front[i] ELSE back[i - Len(front)]
            BY ONLY <3>1, <3>4, <3>6
        <4>2. i <= p - 1 <=> i < p
            BY ONLY <3>3, <3>4, <3>6
        <4> QED BY ONLY <3>2, <4>1, <4>2
      <3> QED BY ONLY <3>1, <3>5, <3>6
    <2>6. ASSUME NEW i \in 1..Len(r) PROVE r[i] = IF i < p THEN l[i] ELSE l[i + 1]
      <3>1. CASE i < p
          BY <2>1, <2>2, <2>5, <3>1
      <3>2. CASE i >= p
        <4> DEFINE k == i - (p - 1)
        <4>1. k \in 1..(Len(l) - p) /\ p + k = i + 1
            BY <2>1, <2>5, <3>2
        <4>2. r[i] = back[k]
          <5>1. ~(i < p)
              BY <2>1, <2>5, <3>2
          <5> QED BY <2>5, <5>1
        <4> HIDE DEF k
        <4>3. back[k] = l[p + k]
            BY <2>3, <4>1
        <4> QED BY <2>1, <3>2, <4>1, <4>2, <4>3
      <3> QED BY <2>1, <2>5, <3>1, <3>2
    <2> QED BY <2>5, <2>6
  <1> HIDE DEF r
  <1>2. /\ Len(NameSeq(r)) = Len(r) /\ Len(NameSeq(l)) = Len(l)
        /\ \A i \in 1..Len(r) : NameSeq(r)[i] = r[i].name
        /\ \A i \in 1..Len(l) : NameSeq(l)[i] = l[i].name
      BY <1>1, NameSeqType
  <1>3. \A i \in 1..Len(r) : i \in 1..Len(l) /\ i + 1 \in 1..Len(l)
      BY <1>1
  <1>4. Without(NameSeq(r), NameSeq(l), p)
      BY <1>1, <1>2, <1>3 DEF Without
  <1> QED BY <1>1, <1>4 DEF r

\* The first of the names to be deleted is looked up, and goes from both lists or
\* from that of the names only.
LEMMA ConfirmIInv == IInv /\ (\E yes \in BOOLEAN : Confirm(yes)) => IInv'
  <1> SUFFICES ASSUME IInv, NEW yes \in BOOLEAN, Confirm(yes) PROVE IInv'
      OBVIOUS
  <1> DEFINE name == Head(delete_list)
             p == Position(name)
  <1>1. /\ edited \in Seq(Events) /\ delete_list \in Seq(Titles) /\ delete_list # <<>>
        /\ events = <<>> /\ UNCHANGED <<pmu_file, events, disk>>
        /\ name \in NamesIn(edited)
      BY DEF IInv, DialogueTypes, Prompts, Confirm
  <1>2. p \in DOMAIN edited /\ edited[p].name = name
      BY <1>1, Found
  <1>3. /\ RemoveAt(edited, p) \in Seq(Events)
        /\ Without(NameSeq(RemoveAt(edited, p)), NameSeq(edited), p)
      BY <1>1, <1>2, Removing
  <1>4. edited' = RemoveAt(edited, p) \/ edited' = edited
      BY DEF Confirm, Removed
  <1>5. /\ delete_list' = Tail(delete_list)
        /\ screen' = IF Len(delete_list) = 1 THEN "remove more" ELSE "delete"
      BY DEF Confirm
  <1>6. DialogueTypes'
    <2>1. delete_list' \in Seq(Titles)
        BY <1>1, <1>5, HeadAndTail
    <2>2. edited' \in Seq(Events)
        BY <1>1, <1>3, <1>4
    <2> QED BY <1>1, <2>1, <2>2 DEF IInv, DialogueTypes
  <1>7. Prompts' /\ AddedNamesNew'
    <2>1. delete_list' = <<>> <=> Len(delete_list) = 1
        BY <1>1, <1>5, HeadAndTail
    <2>2. Prompts'
        BY <1>1, <1>5, <2>1 DEF Prompts
    <2> QED BY <1>1, <2>2 DEF AddedNamesNew
  <1>8. ASSUME NEW v
        PROVE  Cardinality(Places(delete_list', v)) <= Cardinality(Places(NameSeq(edited'), v))
    <2> DEFINE wanted == Cardinality(Places(delete_list, v))
               there == Cardinality(Places(NameSeq(edited), v))
    <2>1. wanted <= there /\ wanted \in Nat /\ there \in Nat
        BY <1>1, NameSeqType, PlacesFinite DEF IInv, EnoughOf
    <2>2. Cardinality(Places(delete_list', v)) = IF name = v THEN wanted - 1 ELSE wanted
      <3> DEFINE rest == Tail(delete_list)
      <3>1. /\ 1 \in DOMAIN delete_list /\ delete_list[1] = name
            /\ rest \in Seq(Titles) /\ Without(rest, delete_list, 1)
          BY <1>1, HeadAndTail
      <3> HIDE DEF rest
      <3>2. Cardinality(Places(rest, v)) = IF delete_list[1] = v THEN wanted - 1 ELSE wanted
          BY <1>1, <3>1, OneLess
      <3> QED BY <1>5, <3>1, <3>2 DEF rest
    <2>3. CASE edited' = edited
        BY <2>1, <2>2, <2>3
    <2>4. CASE edited' = RemoveAt(edited, p)
      <3>1. /\ NameSeq(edited) \in Seq(Titles) /\ NameSeq(RemoveAt(edited, p)) \in Seq(Titles)
            /\ p \in DOMAIN NameSeq(edited) /\ NameSeq(edited)[p] = name
          BY <1>1, <1>2, <1>3, NameSeqType
      <3>2. Cardinality(Places(NameSeq(RemoveAt(edited, p)), v)) =
              IF name = v THEN there - 1 ELSE there
          BY <1>3, <3>1, OneLess
      <3> QED BY <2>1, <2>2, <2>4, <3>2
    <2> QED BY <1>4, <2>3, <2>4
  <1>9. EnoughOf'
      BY <1>8 DEF EnoughOf
  <1> QED BY <1>6, <1>7, <1>9 DEF IInv

-----------------------------------------------------------------------------
\* The theorems.

LEMMA StepIInv == ListsOfEvents /\ IInv /\ [DialogueNext]_dialogue => IInv'
  <1> SUFFICES ASSUME ListsOfEvents, IInv, [DialogueNext]_dialogue PROVE IInv'
      OBVIOUS
  <1>1. disk \in [Files -> Seq(Events) \cup {Broken, Absent}]
      BY DEF IInv, DialogueTypes
  <1>2. CASE Verify
      BY <1>1, <1>2, LeaveIInv DEF Verify, Finished
  <1>3. CASE Cancel
      BY <1>1, <1>3, LeaveIInv DEF Cancel, Finished
  <1>4. CASE CreateFromScratch
    <2>1. Prompts' /\ AddedNamesNew'
        BY <1>4 DEF CreateFromScratch, IInv, Prompts, AddedNamesNew
    <2> QED BY <1>4, <2>1, ListsStay DEF CreateFromScratch, IInv, DialogueTypes
  <1>5. CASE ModifyBuiltIn \/ ModifyProvided
    <2>1. CASE Leave("failed") /\ disk' = disk
        BY <1>1, <2>1, LeaveIInv DEF Finished
    <2>2. CASE ~(Leave("failed") /\ disk' = disk)
      <3>1. /\ screen = "start" /\ screen' = "action"
            /\ UNCHANGED <<pmu_file, events, delete_list, disk>>
          BY <1>5, <2>2 DEF ModifyBuiltIn, ModifyProvided
      <3>2. events = <<>> /\ delete_list = <<>>
          BY <3>1 DEF IInv, Prompts
      <3>3. edited' \in Seq(Events)
        <4>1. CASE ModifyBuiltIn
            BY <4>1, ListTypes DEF ModifyBuiltIn
        <4>2. CASE ModifyProvided
          <5>1. pmu_file \in Files /\ edited' = disk[pmu_file] /\ disk[pmu_file] \notin {Broken, Absent}
              BY <2>2, <4>2 DEF ModifyProvided, WellFormed, IInv, DialogueTypes
          <5> QED BY <1>1, <5>1
        <4> QED BY <1>5, <4>1, <4>2
      <3>4. DialogueTypes' /\ Prompts' /\ AddedNamesNew'
          BY <3>1, <3>2, <3>3 DEF IInv, DialogueTypes, Prompts, AddedNamesNew
      <3>5. EnoughOf'
          BY <3>1, <3>2, <3>3, NothingLacks DEF EnoughOf
      <3> QED BY <3>4, <3>5 DEF IInv
    <2> QED BY <2>1, <2>2
  <1>6. CASE ChooseAdd \/ MoreEvents \/ RemoveNoMore
    <2>1. /\ UNCHANGED <<pmu_file, edited, events, delete_list, disk>>
          /\ \/ screen = "action" /\ screen' = "event"
             \/ screen = "more events" /\ screen' = "event"
             \/ screen = "remove more" /\ screen' = "action"
        BY <1>6 DEF ChooseAdd, MoreEvents, RemoveNoMore, locals
    <2>2. Prompts' /\ AddedNamesNew'
        BY <2>1 DEF IInv, Prompts, AddedNamesNew, NamesIn
    <2> QED BY <2>1, <2>2, ListsStay DEF IInv, DialogueTypes
  <1>7. CASE ChooseDone
      BY <1>7, WrittenIInv DEF ChooseDone, IInv, DialogueTypes, Files
  <1>8. CASE UNCHANGED dialogue
      BY <1>8 DEF dialogue, locals, IInv, DialogueTypes, Prompts, AddedNamesNew, NamesIn, EnoughOf
  <1> QED BY <1>2, <1>3, <1>4, <1>5, <1>6, <1>7, <1>8, EnterIInv, NoMoreIInv, SelectIInv, ConfirmIInv
          DEF DialogueNext

LEMMA SpecIInv == ASSUME ListsOfEvents PROVE DialogueSpec => []IInv
  <1>1. DialogueInit => IInv
      BY InitIInv
  <1>2. IInv /\ [DialogueNext]_dialogue => IInv'
      BY StepIInv
  <1> QED BY <1>1, <1>2, PTL DEF DialogueSpec

\* However often events are added, deleted and added again, no event is added
\* with a name that another one has (add_events, over any number of dialogues).
THEOREM NewNamesAreNew == ASSUME ListsOfEvents PROVE DialogueSpec => []AddedNamesNew
  <1>1. IInv => AddedNamesNew
      BY DEF IInv
  <1> QED BY <1>1, SpecIInv, PTL

\* Every event that was selected is found when it is its turn to be deleted, also
\* in lists in which names repeat: delete_events never unwraps nothing.
THEOREM DeletedAreFound == ASSUME ListsOfEvents PROVE DialogueSpec => []DeleteFinds
  <1>1. IInv => DeleteFinds
    <2> SUFFICES ASSUME IInv, NEW n
                 PROVE  Cardinality({i \in DOMAIN delete_list : delete_list[i] = n})
                          <= Cardinality({i \in DOMAIN edited : edited[i].name = n})
        BY DEF DeleteFinds
    <2>1. Places(delete_list, n) = {i \in DOMAIN delete_list : delete_list[i] = n}
        BY DEF Places
    <2>2. Places(NameSeq(edited), n) = {i \in DOMAIN edited : edited[i].name = n}
        BY NameSeqType DEF Places, IInv, DialogueTypes
    <2> QED BY <2>1, <2>2 DEF IInv, EnoughOf
  <1> QED BY <1>1, SpecIInv, PTL

-----------------------------------------------------------------------------
\* The inductive invariant.

\* From the opening of the last group until the end of the recording.
Counting == {"start", "wait", "read", "reset"}

Lines == [cpu : Cpus, name : {e.name : e \in NamedCtrs}, nr : Nat, dr : Nat,
          scale : {e.scale : e \in NamedCtrs}]

PipelineTypes == /\ pmu_config \in Seq(Events) \cup {Broken, Absent, NoConfig}
                 /\ pmu_config = Absent => stage = "prepare"
                 /\ online \in SUBSET Cpus /\ online # {}
                 /\ perf_list \in Seq(NamedCtrs)
                 /\ data \in Seq(Lines)
                 /\ samples \in Seq(Seq(Lines))

\* The group that is opened as the j-th.
GroupNo(j) == [cpu |-> (j - 1) \div Len(perf_list),
               event |-> perf_list[((j - 1) % Len(perf_list)) + 1]]

GroupsInv == /\ groups \in Seq([cpu : Cpus, event : NamedCtrs])
             /\ \A j \in 1..Len(groups) : groups[j] = GroupNo(j) /\ groups[j].cpu \in online
             /\ stage = "prepare" => groups = <<>>
             /\ stage \in {"prepare", "open"} => started = 0
             /\ stage = "open" => Len(groups) <= NumCpus * Len(perf_list)
             /\ stage \in Counting \cup {"reported", "panicked"} => AllOpen

\* What a group counts is in the proportion of its event on its CPU.
Measured(c, g) == c.nr * g.event.drs = c.dr * (g.event.nrs * Rate[g.cpu])

CountersInv == stage \in Counting =>
    /\ started \in 0..Len(groups)
    /\ counts \in [1..Len(groups) -> [nr : Nat, dr : Nat]]
    /\ ticks \in [1..Len(groups) -> Nat]
    /\ missed \in [1..Len(groups) -> Nat]
    /\ \A i \in 1..Len(groups) : Measured(counts[i], groups[i])

\* The i-th line of a sample is of the i-th group.
LineFits(l, g) == l.cpu = g.cpu /\ l.name = g.event.name /\ Measured(l, g)

DataInv == /\ stage = "read" => at \in 1..(Len(groups) + 1) /\ Len(data) = at - 1
           /\ stage = "reset" => at \in 1..Len(groups) /\ Len(data) = at
           /\ stage \in {"read", "reset"} =>
                  \A i \in 1..Len(data) : LineFits(data[i], groups[i])

SamplesInv == /\ stage \in {"prepare", "open", "start"} => samples = <<>>
              /\ stage \in Counting \cup {"reported", "panicked"} =>
                     \A k \in 1..Len(samples) :
                         /\ Len(samples[k]) = Len(groups)
                         /\ \A i \in 1..Len(groups) : LineFits(samples[k][i], groups[i])

\* The balance that CountsKept speaks of, which holds from the start.
BeingRead(i) == stage = "reset" /\ i = at
Waiting(i) == IF BeingRead(i) THEN 0 ELSE counts[i].dr
Passing(i) == IF BeingRead(i) THEN counts[i].dr - data[i].dr ELSE 0

Balance == stage \in Counting => \A i \in 1..Len(groups) :
    /\ Waiting(i) + Recorded(i) = groups[i].event.drs * (ticks[i] - missed[i])
    /\ Passing(i) \in 0..(groups[i].event.drs * missed[i])

PInv == /\ PipelineTypes
        /\ GroupsInv
        /\ CountersInv
        /\ DataInv
        /\ SamplesInv
        /\ Balance
        /\ RatiosKept
        /\ EveryEventShown

-----------------------------------------------------------------------------
\* Lemmas about the data.

\* Dividing with remainder, for any divisor.
LEMMA DivMod ==
    ASSUME NEW n \in Nat, NEW d \in Nat \ {0}
    PROVE  /\ n \div d \in Nat /\ n % d \in 0..(d - 1)
           /\ n = (n \div d) * d + (n % d)
    BY SMT

LEMMA TimesMore ==
    ASSUME NEW a \in Int, NEW b \in Int
    PROVE  a * (b + 1) = a * b + a /\ a * b \in Int
    OBVIOUS

LEMMA Times ==
    ASSUME NEW a \in Nat, NEW b \in Nat, NEW d \in Nat
    PROVE  /\ a * d \in Nat /\ (a + b) * d = a * d + b * d
           /\ a <= b => a * d <= b * d
    OBVIOUS

\* There is one quotient and one remainder.
LEMMA DivModOnly ==
    ASSUME NEW q \in Nat, NEW d \in Nat \ {0}, NEW r \in 0..(d - 1)
    PROVE  (q * d + r) \div d = q /\ (q * d + r) % d = r
  <1> DEFINE n == q * d + r
             p == n \div d
             s == n % d
  <1>1. n \in Nat
      BY Times
  <1>2. p \in Nat /\ s \in 0..(d - 1) /\ n = p * d + s
      BY <1>1, DivMod
  <1> HIDE DEF p, s
  <1>3. p * d + s = q * d + r
      BY <1>2
  <1>4. ASSUME p < q PROVE FALSE
    <2>1. (p + 1) * d <= q * d /\ (p + 1) * d = p * d + d /\ p * d \in Nat /\ q * d \in Nat
        BY <1>2, <1>4
    <2> QED BY <1>2, <1>3, <2>1
  <1>5. ASSUME q < p PROVE FALSE
    <2>1. (q + 1) * d <= p * d /\ (q + 1) * d = q * d + d /\ p * d \in Nat /\ q * d \in Nat
        BY <1>2, <1>5
    <2> QED BY <1>2, <1>3, <2>1
  <1>6. p = q
      BY <1>2, <1>4, <1>5
  <1>7. s = r
    <2>1. q * d \in Nat
        BY Times
    <2> QED BY <1>2, <1>3, <1>6, <2>1
  <1> QED BY <1>6, <1>7 DEF p, s

LEMMA InsertedType ==
    ASSUME NEW X, NEW list \in Seq(X), NEW event \in X
    PROVE  Inserted(list, event) \in Seq(X)
  <1>1. Append(list, event) \in Seq(X)
      OBVIOUS
  <1>2. [i \in DOMAIN list |-> IF list[i].name = event.name THEN event ELSE list[i]] \in Seq(X)
    <2>1. DOMAIN list = 1..Len(list) /\ Len(list) \in Nat /\ \A i \in DOMAIN list : list[i] \in X
        OBVIOUS
    <2>2. [i \in DOMAIN list |-> IF list[i].name = event.name THEN event ELSE list[i]]
            \in [1..Len(list) -> X]
        BY <2>1
    <2> QED BY <2>1, <2>2, IsASeq
  <1> QED BY <1>1, <1>2 DEF Inserted

\* What is inserted is a list again: nothing else gets into it.
LEMMA EventsMapType ==
    ASSUME NEW X, NEW all \in Seq(X)
    PROVE  EventsMap(all) \in Seq(X)
  <1> DEFINE N == Len(all)
             T == Seq(X)
             After(g, n) == IF n = 0 THEN <<>> ELSE Inserted(g[n - 1], all[n])
             map == CHOOSE g : g = [n \in 0..N |-> After(g, n)]
             step == [p \in (1..N) \X T |-> Inserted(p[2], all[p[1]])]
             bad == {n \in 0..N : map[n] \notin T}
  <1>1. N \in Nat /\ \A n \in 1..N : all[n] \in X
      OBVIOUS
  <1>2. <<>> \in T /\ \A list \in T, event \in X : Inserted(list, event) \in T
      BY InsertedType
  <1>3. EventsMap(all) = map[N]
      BY Zenon DEF EventsMap
  <1> HIDE DEF N, T
  <1>4. step \in [(1..N) \X T -> T] /\ \A n \in 1..N, t \in T : step[<<n, t>>] = Inserted(t, all[n])
      BY <1>1, <1>2
  <1>5. PICK g \in [0..N -> T] : g[0] = <<>> /\ \A n \in 1..N : g[n] = step[<<n, g[n - 1]>>]
    <2> HIDE DEF step
    <2>1. PICK g \in [0..N -> T] : Steps(g, <<>>, step, N)
        BY <1>1, <1>2, <1>4, Recursion
    <2> QED BY <2>1 DEF Steps
  <1> HIDE DEF step
  <1>6. \A n \in 0..N : g[n] = After(g, n)
    <2> TAKE n \in 0..N
    <2>1. CASE n = 0
        BY <1>5, <2>1
    <2>2. CASE n # 0
      <3>1. n \in 1..N /\ g[n - 1] \in T
          BY <1>1, <1>5, <2>2
      <3> QED BY <1>4, <1>5, <2>2, <3>1
    <2> QED BY <2>1, <2>2
  <1>7. g = [n \in 0..N |-> After(g, n)]
    <2> HIDE DEF After
    <2> QED BY <1>6
  <1>8. map = [n \in 0..N |-> After(map, n)]
      BY <1>7
  <1> HIDE DEF map
  <1>9. bad = {}
    <2> SUFFICES ASSUME bad # {} PROVE FALSE
        OBVIOUS
    <2>1. bad \in SUBSET Nat
        BY <1>1
    <2>2. PICK n \in bad : \A k \in bad : n <= k
        BY <2>1, Least
    <2>3. n \in 0..N /\ map[n] = After(map, n) /\ map[n] \notin T
        BY <1>8, <2>2
    <2>4. CASE n = 0
        BY <1>2, <2>3, <2>4
    <2>5. CASE n # 0
      <3>1. n \in 1..N /\ n - 1 \in 0..N /\ n - 1 \notin bad
          BY <1>1, <2>2, <2>3, <2>5
      <3>2. map[n - 1] \in T /\ all[n] \in X
          BY <1>1, <3>1
      <3> QED BY <1>2, <2>3, <2>5, <3>2
    <2> QED BY <2>4, <2>5
  <1>10. map[N] \in T
      BY <1>1, <1>9
  <1> QED BY <1>3, <1>10 DEF T

\* The numbers of counters are natural numbers.
LEMMA EventTypes ==
    \A e \in NamedCtrs : e.scale \in Nat /\ e.nrs \in Nat /\ e.drs \in Nat
    BY Dialogue

LEMMA NumCpusType == online \in SUBSET Cpus => NumCpus \in Nat /\ IsFiniteSet(online)
    BY Machine, FS_Subset, FS_CardinalityType DEF NumCpus

-----------------------------------------------------------------------------
\* The steps that set the counters up.

\* What is only said of recordings that have got further.
LEMMA NothingYet ==
    ASSUME stage' \notin Counting \cup {"reported", "panicked"}
    PROVE  /\ CountersInv' /\ DataInv' /\ Balance' /\ RatiosKept' /\ EveryEventShown'
           /\ (stage' \in {"prepare", "open"} => samples' = <<>>) => SamplesInv'
    BY DEF Counting, CountersInv, DataInv, Balance, RatiosKept, EveryEventShown, SamplesInv

LEMMA InitPInv == PipelineInit => PInv
  <1> SUFFICES ASSUME PipelineInit PROVE PInv
      OBVIOUS
  <1>1. Idle /\ pmu_config = Absent /\ online \in Online /\ stage = "prepare"
      BY DEF PipelineInit, Idle
  <1>2. groups = <<>> /\ perf_list = <<>> /\ data = <<>> /\ samples = <<>> /\ started = 0
      BY <1>1 DEF Idle
  <1>3. PipelineTypes
      BY <1>1, <1>2, Dialogue DEF PipelineTypes
  <1>4. GroupsInv /\ CountersInv /\ DataInv /\ SamplesInv
      BY <1>1, <1>2 DEF GroupsInv, CountersInv, DataInv, SamplesInv, Counting
  <1>5. Balance /\ RatiosKept /\ EveryEventShown
      BY <1>1 DEF Balance, RatiosKept, EveryEventShown, Counting
  <1> QED BY <1>3, <1>4, <1>5 DEF PInv

\* A step of the dialogue, or none.
LEMMA SamePInv == PInv /\ UNCHANGED vars => PInv'
  <1> SUFFICES ASSUME PInv, UNCHANGED vars PROVE PInv'
      OBVIOUS
  <1>1. /\ UNCHANGED <<pmu_config, online, stage, perf_list, groups, started, at>>
        /\ UNCHANGED <<counts, ticks, missed, data, samples, shown>>
      BY DEF vars, machine, setup, counted
  <1>2. PipelineTypes' /\ GroupsInv' /\ CountersInv' /\ DataInv' /\ SamplesInv'
      BY <1>1 DEF PInv, PipelineTypes, GroupsInv, GroupNo, AllOpen, NumCpus, CountersInv,
                  DataInv, SamplesInv
  <1>3. Balance' /\ RatiosKept' /\ EveryEventShown'
      BY <1>1 DEF PInv, Balance, Waiting, Passing, BeingRead, Recorded, RatiosKept, EveryEventShown
  <1> QED BY <1>2, <1>3 DEF PInv

LEMMA LaunchPInv == PInv /\ IInv /\ Launch => PInv'
  <1> SUFFICES ASSUME PInv, IInv, Launch PROVE PInv'
      OBVIOUS
  <1>1. /\ UNCHANGED <<online, stage, perf_list, groups, started, at>>
        /\ UNCHANGED <<counts, ticks, missed, data, samples, shown>>
        /\ pmu_config = Absent
      BY DEF Launch, setup, counted
  <1>2. pmu_config' \in Seq(Events) \cup {Broken, Absent, NoConfig}
    <2>1. disk \in [Files -> Seq(Events) \cup {Broken, Absent}]
        BY DEF IInv, DialogueTypes
    <2>2. pmu_config' \in {disk[f] : f \in Files} \cup {NoConfig}
        BY DEF Launch
    <2> QED BY <2>1, <2>2
  <1>3. stage' = "prepare"
      BY <1>1 DEF PInv, PipelineTypes
  <1>4. PipelineTypes' /\ GroupsInv'
      BY <1>1, <1>2, <1>3 DEF PInv, PipelineTypes, GroupsInv, GroupNo, AllOpen, NumCpus
  <1>5. /\ CountersInv' /\ DataInv' /\ Balance' /\ RatiosKept' /\ EveryEventShown' /\ SamplesInv'
      BY <1>1, <1>3, NothingYet DEF Counting, PInv, SamplesInv
  <1> QED BY <1>4, <1>5 DEF PInv

LEMMA PreparePInv == PInv /\ pmu_config # Absent /\ Prepare => PInv'
  <1> SUFFICES ASSUME PInv, pmu_config # Absent, Prepare PROVE PInv'
      OBVIOUS
  <1>1. /\ stage = "prepare" /\ stage' \in {"exited", "open"}
        /\ UNCHANGED <<pmu_config, online, groups, started, data, samples>>
      BY DEF Prepare, machine, counted
  <1>2. perf_list' \in Seq(NamedCtrs)
    <2>1. BaseEvents \o PlatformEvents \in Seq(NamedCtrs)
        BY Dialogue
    <2>2. EventsMap(BaseEvents \o PlatformEvents) \in Seq(NamedCtrs)
        BY <2>1, EventsMapType
    <2>3. Events \subseteq NamedCtrs
        BY DEF NamedCtrs
    <2>4. CASE pmu_config = Unreadable
        BY <2>4 DEF Prepare, PInv, PipelineTypes
    <2>5. CASE pmu_config # Unreadable /\ pmu_config = NoConfig
        BY <2>2, <2>5 DEF Prepare
    <2>6. CASE pmu_config \notin {Unreadable, NoConfig}
      <3>1. pmu_config \in Seq(Events)
          BY <2>6, Dialogue DEF PInv, PipelineTypes
      <3>2. perf_list' = pmu_config
          BY <2>6 DEF Prepare
      <3> QED BY <2>3, <3>1, <3>2
    <2> QED BY <2>4, <2>5, <2>6
  <1>3. groups = <<>> /\ samples = <<>>
      BY <1>1 DEF PInv, GroupsInv, SamplesInv
  <1>4. PipelineTypes'
      BY <1>1, <1>2 DEF PInv, PipelineTypes
  <1>5. GroupsInv'
    <2>1. groups' = <<>>
        BY <1>1, <1>3
    <2>2. NumCpus' * Len(perf_list') \in Nat
      <3>1. NumCpus' = NumCpus /\ NumCpus \in Nat /\ Len(perf_list') \in Nat
          BY <1>1, <1>2, NumCpusType DEF PInv, PipelineTypes, NumCpus
      <3> QED BY <3>1
    <2>3. started' = 0
        BY <1>1 DEF PInv, GroupsInv
    <2> QED BY <1>1, <2>1, <2>2, <2>3 DEF GroupsInv, Counting
  <1>6. /\ CountersInv' /\ DataInv' /\ Balance' /\ RatiosKept' /\ EveryEventShown' /\ SamplesInv'
      BY <1>1, <1>3, NothingYet DEF Counting
  <1> QED BY <1>4, <1>5, <1>6 DEF PInv

\* A group more is the one whose turn it is.
LEMMA OpenPInv == PInv /\ pmu_config # Absent /\ OpenGroup => PInv'
  <1> SUFFICES ASSUME PInv, pmu_config # Absent, OpenGroup PROVE PInv'
      OBVIOUS
  <1> DEFINE L == Len(perf_list)
             n == Len(groups)
             g == [cpu |-> TurnCpu, event |-> TurnEvent]
  <1>1. /\ stage = "open" /\ ~AllOpen /\ TurnCpu \in online
        /\ groups' = Append(groups, g)
        /\ UNCHANGED <<pmu_config, online, stage, perf_list, started, data, samples>>
      BY DEF OpenGroup, machine
  <1>2. /\ NumCpus \in Nat /\ L \in Nat /\ n \in Nat /\ n <= NumCpus * L /\ NumCpus * L \in Nat
        /\ perf_list \in Seq(NamedCtrs) /\ groups \in Seq([cpu : Cpus, event : NamedCtrs])
      BY <1>1, NumCpusType DEF PInv, PipelineTypes, GroupsInv
  <1>3. L # 0 /\ n < NumCpus * L
      BY <1>1, <1>2 DEF AllOpen
  <1>4. g = GroupNo(n + 1)
      BY <1>2 DEF TurnCpu, TurnEvent, GroupNo
  <1>5. g \in [cpu : Cpus, event : NamedCtrs]
    <2>1. TurnCpu \in Cpus
        BY <1>1 DEF PInv, PipelineTypes
    <2>2. (n % L) + 1 \in 1..L
      <3>1. n \in Nat /\ L \in Nat \ {0}
          BY <1>2, <1>3
      <3> HIDE DEF n, L
      <3>2. n % L \in 0..(L - 1)
          BY <3>1, DivMod
      <3> QED BY <3>1, <3>2
    <2>3. TurnEvent \in NamedCtrs
        BY <1>2, <2>2 DEF TurnEvent
    <2> QED BY <2>1, <2>3
  <1>6. PipelineTypes'
      BY <1>1 DEF PInv, PipelineTypes
  <1>7. GroupsInv'
    <2> HIDE DEF g
    <2>1. /\ groups' \in Seq([cpu : Cpus, event : NamedCtrs])
          /\ Len(groups') = n + 1
          /\ \A j \in 1..n : groups'[j] = groups[j]
          /\ groups'[n + 1] = g
        BY <1>1, <1>2, <1>5, AppendProperties
    <2>2. \A j : GroupNo(j)' = GroupNo(j)
        BY <1>1 DEF GroupNo
    <2>3. ASSUME NEW j \in 1..(n + 1)
          PROVE  groups'[j] = GroupNo(j)' /\ groups'[j].cpu \in online'
      <3>1. CASE j = n + 1
        <4>1. groups'[j].cpu = TurnCpu
            BY <2>1, <3>1 DEF g
        <4> QED BY <1>1, <1>4, <2>1, <2>2, <3>1, <4>1
      <3>2. CASE j # n + 1
        <4>1. j \in 1..n
            BY <1>2, <3>2
        <4> QED BY <1>1, <2>1, <2>2, <4>1 DEF PInv, GroupsInv
      <3> QED BY <3>1, <3>2
    <2>4. NumCpus' = NumCpus /\ L' = L
        BY <1>1 DEF NumCpus
    <2>5. Len(groups') <= NumCpus' * Len(perf_list')
        BY <1>2, <1>3, <2>1, <2>4
    <2> QED BY <1>1, <2>1, <2>3, <2>5 DEF GroupsInv, Counting, PInv
  <1>8. /\ CountersInv' /\ DataInv' /\ Balance' /\ RatiosKept' /\ EveryEventShown' /\ SamplesInv'
      BY <1>1, NothingYet DEF Counting, PInv, SamplesInv
  <1> QED BY <1>6, <1>7, <1>8 DEF PInv

LEMMA ExcludePInv == PInv /\ pmu_config # Absent /\ (Exclude \/ Fail) => PInv'
  <1> SUFFICES ASSUME PInv, pmu_config # Absent, Exclude \/ Fail PROVE PInv'
      OBVIOUS
  <1>1. /\ stage' \in {"excluded", "failed"}
        /\ UNCHANGED <<pmu_config, online, perf_list, data, samples>>
        /\ groups' = <<>> \/ groups' = groups
      BY DEF Exclude, Fail, Left, machine, setup
  <1>2. PipelineTypes'
      BY <1>1 DEF PInv, PipelineTypes
  <1>3. GroupsInv'
    <2>1. CASE groups' = groups
        BY <1>1, <2>1 DEF PInv, GroupsInv, GroupNo, Counting
    <2>2. CASE groups' = <<>>
        BY <1>1, <2>2 DEF GroupsInv, Counting
    <2> QED BY <1>1, <2>1, <2>2
  <1>4. /\ CountersInv' /\ DataInv' /\ Balance' /\ RatiosKept' /\ EveryEventShown' /\ SamplesInv'
      BY <1>1, NothingYet DEF Counting
  <1> QED BY <1>2, <1>3, <1>4 DEF PInv

\* What is known of a group.
LEMMA GroupFacts ==
    ASSUME PInv, NEW i \in 1..Len(groups)
    PROVE  /\ i \in DOMAIN groups /\ groups[i].cpu \in Cpus
           /\ groups[i].event.drs \in Nat /\ groups[i].event.nrs \in Nat
           /\ Rate[groups[i].cpu] \in Nat
  <1>1. i \in DOMAIN groups /\ groups[i] \in [cpu : Cpus, event : NamedCtrs]
    <2> DEFINE G == [cpu : Cpus, event : NamedCtrs]
    <2>1. groups \in Seq(G)
        BY DEF PInv, GroupsInv
    <2> HIDE DEF G
    <2>2. i \in DOMAIN groups /\ groups[i] \in G
        BY <2>1
    <2> QED BY <2>2 DEF G
  <1>2. groups[i].cpu \in Cpus /\ groups[i].event \in NamedCtrs
      BY <1>1
  <1> QED BY <1>1, <1>2, EventTypes, Machine

LEMMA OpenOverPInv == PInv /\ OpenOver => PInv'
  <1> SUFFICES ASSUME PInv, OpenOver PROVE PInv'
      OBVIOUS
  <1>1. /\ stage = "open" /\ AllOpen /\ stage' = "start"
        /\ counts' = [i \in DOMAIN groups |-> [nr |-> 0, dr |-> 0]]
        /\ ticks' = [i \in DOMAIN groups |-> 0]
        /\ missed' = [i \in DOMAIN groups |-> 0]
        /\ UNCHANGED <<pmu_config, online, perf_list, groups, started, at, data, samples, shown>>
      BY DEF OpenOver, machine, setup
  <1>2. groups \in Seq([cpu : Cpus, event : NamedCtrs]) /\ DOMAIN groups = 1..Len(groups)
      BY DEF PInv, GroupsInv
  <1>4. PipelineTypes' /\ SamplesInv' /\ DataInv' /\ RatiosKept' /\ EveryEventShown'
      BY <1>1 DEF PInv, PipelineTypes, SamplesInv, DataInv, RatiosKept, EveryEventShown, Counting
  <1>5. GroupsInv'
      BY <1>1 DEF PInv, GroupsInv, GroupNo, AllOpen, NumCpus
  <1>6. CountersInv'
    <2>1. started' = 0 /\ Len(groups) \in Nat
        BY <1>1, <1>2 DEF PInv, GroupsInv
    <2>2. /\ counts' \in [1..Len(groups) -> [nr : Nat, dr : Nat]]
          /\ ticks' \in [1..Len(groups) -> Nat] /\ missed' \in [1..Len(groups) -> Nat]
        BY <1>1, <1>2
    <2>3. ASSUME NEW i \in 1..Len(groups) PROVE Measured(counts'[i], groups[i])
      <3>1. counts'[i].nr = 0 /\ counts'[i].dr = 0
          BY <1>1, <1>2
      <3> QED BY <3>1, GroupFacts DEF Measured
    <2> QED BY <1>1, <2>1, <2>2, <2>3 DEF CountersInv, Measured
  <1>7. Balance'
    <2> SUFFICES ASSUME NEW i \in 1..Len(groups)
                 PROVE  /\ counts'[i].dr + Recorded(i)' =
                             groups[i].event.drs * (ticks'[i] - missed'[i])
                        /\ 0 \in 0..(groups[i].event.drs * missed'[i])
        BY <1>1 DEF Balance, Waiting, Passing, BeingRead
    <2>1. counts'[i].dr = 0 /\ ticks'[i] = 0 /\ missed'[i] = 0
        BY <1>1, <1>2
    <2>2. Recorded(i)' = 0
      <3>1. samples' = <<>> /\ stage' = "start"
          BY <1>1 DEF PInv, SamplesInv
      <3> QED BY <3>1, SumEmpty DEF Recorded, SumFunction
    <2> QED BY <2>1, <2>2, GroupFacts
  <1> QED BY <1>4, <1>5, <1>6, <1>7 DEF PInv

\* The groups are started one by one, and all have been.
LEMMA StartPInv == PInv /\ (StartGroup \/ StartOver) => PInv'
  <1> SUFFICES ASSUME PInv, StartGroup \/ StartOver PROVE PInv'
      OBVIOUS
  <1>1. /\ stage = "start" /\ stage' \in {"start", "wait"}
        /\ started' \in 0..Len(groups) /\ samples = <<>>
        /\ UNCHANGED <<pmu_config, online, perf_list, groups, at, data, samples, shown>>
        /\ UNCHANGED <<counts, ticks, missed>>
    <2>1. samples = <<>> /\ started \in 0..Len(groups) /\ Len(groups) \in Nat
        BY DEF StartGroup, StartOver, PInv, SamplesInv, CountersInv, GroupsInv, Counting
    <2> QED BY <2>1 DEF StartGroup, StartOver, machine, setup, counted
  <1>2. PipelineTypes' /\ GroupsInv' /\ DataInv' /\ SamplesInv'
      BY <1>1 DEF PInv, PipelineTypes, GroupsInv, GroupNo, AllOpen, NumCpus, Counting,
                  DataInv, SamplesInv
  <1>3. CountersInv' /\ RatiosKept' /\ EveryEventShown'
      BY <1>1 DEF PInv, CountersInv, Measured, Counting, RatiosKept, EveryEventShown
  <1>4. Balance'
    <2>1. \A i : Recorded(i)' = Recorded(i)
        BY <1>1 DEF Recorded
    <2> QED BY <1>1, <2>1 DEF PInv, Balance, Waiting, Passing, BeingRead, Counting
  <1> QED BY <1>2, <1>3, <1>4 DEF PInv

-----------------------------------------------------------------------------
\* The steps of counting.

\* What the samples that have been written say was counted by a group.
Done(i) == SumFunction([k \in DOMAIN samples |-> samples[k][i].dr])
Made(i) == IF stage \in {"read", "reset"} /\ i \in DOMAIN data THEN data[i].dr ELSE 0

LEMMA RecordedIs == \A i : Recorded(i) = Done(i) + Made(i)
    BY DEF Recorded, Done, Made

LEMMA DataLines ==
    ASSUME PInv
    PROVE  /\ Len(data) \in Nat /\ DOMAIN data = 1..Len(data)
           /\ \A i \in 1..Len(data) : data[i].nr \in Nat /\ data[i].dr \in Nat
  <1>1. data \in Seq(Lines)
      BY DEF PInv, PipelineTypes
  <1>2. \A l \in Lines : l.nr \in Nat /\ l.dr \in Nat
      BY DEF Lines
  <1>3. \A i \in 1..Len(data) : data[i] \in Lines
      BY <1>1
  <1> QED BY <1>1, <1>2, <1>3

LEMMA SampleTypes ==
    ASSUME PInv, stage \in Counting \cup {"reported", "panicked"}
    PROVE  /\ Len(samples) \in Nat /\ DOMAIN samples = 1..Len(samples)
           /\ \A k \in 1..Len(samples) :
                  /\ samples[k] \in Seq(Lines) /\ DOMAIN samples[k] = 1..Len(groups)
                  /\ \A i \in 1..Len(groups) : samples[k][i].nr \in Nat /\ samples[k][i].dr \in Nat
  <1>1. samples \in Seq(Seq(Lines))
      BY DEF PInv, PipelineTypes
  <1>2. \A l \in Lines : l.nr \in Nat /\ l.dr \in Nat
      BY DEF Lines
  <1>3. ASSUME NEW k \in 1..Len(samples)
        PROVE  samples[k] \in Seq(Lines) /\ Len(samples[k]) = Len(groups)
      BY <1>1 DEF PInv, SamplesInv
  <1>4. \A k \in 1..Len(samples) : \A i \in 1..Len(groups) : samples[k][i] \in Lines
      BY <1>3
  <1> QED BY <1>1, <1>2, <1>3, <1>4

LEMMA DoneType ==
    ASSUME PInv, stage \in Counting, NEW i \in 1..Len(groups)
    PROVE  Done(i) \in Int
  <1> DEFINE f == [k \in DOMAIN samples |-> samples[k][i].dr]
  <1>1. DOMAIN samples = 1..Len(samples) /\ \A k \in 1..Len(samples) : samples[k][i].dr \in Int
      BY SampleTypes
  <1>2. IsFiniteSet(1..Len(samples)) /\ DOMAIN f = 1..Len(samples)
    <2>1. Len(samples) \in Nat
        BY SampleTypes
    <2> QED BY <1>1, <2>1, FS_Interval
  <1>3. \A k \in 1..Len(samples) : f[k] \in Int
      BY <1>1
  <1> HIDE DEF f
  <1>4. SumFunctionOnSet(f, DOMAIN f) \in Int
      BY <1>2, <1>3, SumTypes
  <1> QED BY <1>4 DEF f, Done, SumFunction

\* What a counter counts at a time, whatever the sampling is doing.
LEMMA TickPInv == PInv /\ (\E i \in DOMAIN groups : Tick(i)) => PInv'
  <1> SUFFICES ASSUME PInv, NEW i \in DOMAIN groups, Tick(i) PROVE PInv'
      OBVIOUS
  <1> DEFINE nrs == groups[i].event.nrs
             drs == groups[i].event.drs
             rate == Rate[groups[i].cpu]
             new == [nr |-> counts[i].nr + nrs * rate, dr |-> counts[i].dr + drs]
  <1>1. /\ stage \in Counting
        /\ ticks' = [ticks EXCEPT ![i] = @ + 1]
        /\ missed' = IF BeingRead(i) THEN [missed EXCEPT ![i] = @ + 1] ELSE missed
        /\ counts' = [counts EXCEPT ![i] = new]
        /\ UNCHANGED <<pmu_config, online, stage, perf_list, groups, started, at, data, samples, shown>>
      BY DEF Tick, BeingRead, Counting, machine, setup
  <1>2. /\ i \in 1..Len(groups) /\ started \in 0..Len(groups)
        /\ counts \in [1..Len(groups) -> [nr : Nat, dr : Nat]]
        /\ ticks \in [1..Len(groups) -> Nat] /\ missed \in [1..Len(groups) -> Nat]
        /\ \A j \in 1..Len(groups) : Measured(counts[j], groups[j])
    <2>1. groups \in Seq([cpu : Cpus, event : NamedCtrs])
        BY DEF PInv, GroupsInv
    <2> QED BY <1>1, <2>1 DEF PInv, CountersInv
  <1>3. nrs \in Nat /\ drs \in Nat /\ rate \in Nat
      BY <1>2, GroupFacts
  <1>4. counts[i].nr \in Nat /\ counts[i].dr \in Nat /\ ticks[i] \in Nat /\ missed[i] \in Nat
      BY <1>2
  <1>5. PipelineTypes' /\ GroupsInv' /\ DataInv' /\ SamplesInv' /\ RatiosKept' /\ EveryEventShown'
      BY <1>1 DEF PInv, PipelineTypes, GroupsInv, GroupNo, AllOpen, NumCpus, DataInv, SamplesInv,
                  RatiosKept, EveryEventShown
  <1>6. Measured(new, groups[i])
    <2>1. counts[i].nr * drs = counts[i].dr * (nrs * rate)
        BY <1>2 DEF Measured
    <2> DEFINE a == counts[i].nr
               b == counts[i].dr
               c == nrs * rate
    <2>2. a \in Nat /\ b \in Nat /\ c \in Nat
        BY <1>3, <1>4, Times
    <2> HIDE DEF a, b, c, drs
    <2>3. (a + c) * drs = a * drs + c * drs /\ (b + drs) * c = b * c + drs * c /\ c * drs = drs * c
        BY ONLY <1>3, <2>2
    <2>4. (a + c) * drs = (b + drs) * c
        BY <2>1, <2>3 DEF a, b, c
    <2> QED BY <2>4 DEF Measured, a, b, c, drs
  <1> HIDE DEF new
  <1>7. CountersInv'
    <2>1. new \in [nr : Nat, dr : Nat]
      <3>1. nrs * rate \in Nat
          BY <1>3, Times
      <3> HIDE DEF nrs, drs, rate
      <3>2. counts[i].nr + nrs * rate \in Nat /\ counts[i].dr + drs \in Nat
          BY <1>3, <1>4, <3>1
      <3> QED BY <3>2 DEF new
    <2> DEFINE C == [nr : Nat, dr : Nat]
    <2>2. /\ counts' \in [1..Len(groups) -> [nr : Nat, dr : Nat]]
          /\ ticks' \in [1..Len(groups) -> Nat] /\ missed' \in [1..Len(groups) -> Nat]
      <3>1. counts \in [1..Len(groups) -> C] /\ new \in C
          BY <1>2, <2>1
      <3> HIDE DEF C
      <3>2. counts' \in [1..Len(groups) -> C]
          BY <1>1, <3>1
      <3>3. ticks' \in [1..Len(groups) -> Nat]
          BY <1>1, <1>2, <1>4
      <3>4. [missed EXCEPT ![i] = @ + 1] \in [1..Len(groups) -> Nat]
          BY <1>2, <1>4
      <3>5. missed' \in [1..Len(groups) -> Nat]
          BY <1>1, <1>2, <3>4
      <3> QED BY <3>2, <3>3, <3>5 DEF C
    <2>3. \A j \in 1..Len(groups) : counts'[j] = IF j = i THEN new ELSE counts[j]
        BY <1>1, <1>2
    <2>4. \A j \in 1..Len(groups) : Measured(counts'[j], groups[j])
        BY <1>2, <1>6, <2>3
    <2> QED BY <1>1, <1>2, <2>2, <2>4 DEF CountersInv, Measured
  <1>8. Balance'
    <2> SUFFICES ASSUME NEW j \in 1..Len(groups)
                 PROVE  /\ Waiting(j)' + Recorded(j)' = groups[j].event.drs * (ticks'[j] - missed'[j])
                        /\ Passing(j)' \in 0..(groups[j].event.drs * missed'[j])
        BY <1>1 DEF Balance
    <2>1. Recorded(j)' = Recorded(j) /\ BeingRead(j)' = BeingRead(j)
        BY <1>1 DEF Recorded, BeingRead
    <2>2. /\ Waiting(j) + Recorded(j) = groups[j].event.drs * (ticks[j] - missed[j])
          /\ Passing(j) \in 0..(groups[j].event.drs * missed[j])
        BY <1>1 DEF PInv, Balance
    <2>3. CASE j # i
      <3>1. counts'[j] = counts[j] /\ ticks'[j] = ticks[j] /\ missed'[j] = missed[j]
          BY <1>1, <1>2, <2>3
      <3> QED BY <1>1, <2>1, <2>2, <3>1 DEF Waiting, Passing
    <2>4. CASE j = i
      <3>1. counts'[i].dr = counts[i].dr + drs /\ ticks'[i] = ticks[i] + 1
          BY <1>1, <1>2 DEF new
      <3>2. Recorded(i) \in Int
        <4>1. Done(i) \in Int
            BY <1>1, <1>2, DoneType
        <4>2. Made(i) \in Int
            BY DataLines DEF Made
        <4> QED BY <4>1, <4>2, RecordedIs
      <3>3. missed[i] \in Int /\ ticks[i] - missed[i] \in Int /\ drs \in Int
          BY <1>3, <1>4
      <3> HIDE DEF drs
      <3>4. CASE BeingRead(i)
        <4>1. missed'[i] = missed[i] + 1 /\ ticks'[i] - missed'[i] = ticks[i] - missed[i]
            BY <1>1, <1>2, <1>4, <3>1, <3>4
        <4>2. Waiting(i)' = Waiting(i)
            BY <2>1, <2>4, <3>4 DEF Waiting
        <4>3. i \in DOMAIN data /\ data[i].dr \in Nat
            BY <3>4, DataLines DEF BeingRead, PInv, DataInv
        <4>4. Passing(i)' = Passing(i) + drs /\ Passing(i) \in Int
            BY <1>1, <1>3, <1>4, <2>1, <2>4, <3>1, <3>4, <4>3 DEF Passing
        <4>5. drs * missed'[i] = drs * missed[i] + drs /\ drs * missed[i] \in Int
            BY <3>3, <4>1, TimesMore
        <4>6. Passing(i) \in 0..(drs * missed[i])
            BY <2>2, <2>4 DEF drs
        <4>7. Passing(i)' \in 0..(drs * missed'[i])
            BY <1>3, <4>4, <4>5, <4>6
        <4> QED BY <2>1, <2>2, <2>4, <4>1, <4>2, <4>7 DEF drs
      <3>5. CASE ~BeingRead(i)
        <4>1. missed'[i] = missed[i] /\ ticks'[i] - missed'[i] = (ticks[i] - missed[i]) + 1
            BY <1>1, <1>4, <3>1, <3>5
        <4>2. Waiting(i)' = Waiting(i) + drs /\ Waiting(i) \in Int /\ Passing(i)' = Passing(i)
            BY <1>4, <2>1, <2>4, <3>1, <3>5 DEF Waiting, Passing
        <4>3. drs * (ticks'[i] - missed'[i]) = drs * (ticks[i] - missed[i]) + drs
            BY <3>3, <4>1, TimesMore
        <4>4. Waiting(i) + Recorded(i) = drs * (ticks[i] - missed[i])
            BY <2>2, <2>4 DEF drs
        <4>5. Waiting(i)' + Recorded(i) = drs * (ticks'[i] - missed'[i])
            BY <1>3, <3>2, <4>2, <4>3, <4>4
        <4> QED BY <2>1, <2>2, <2>4, <4>1, <4>2, <4>5 DEF drs
      <3> QED BY <2>4, <3>4, <3>5
    <2> QED BY <2>3, <2>4
  <1> QED BY <1>5, <1>7, <1>8 DEF PInv

\* What does not touch the lines does not change what they say.
LEMMA SampleSame ==
    ASSUME UNCHANGED samples
    PROVE  \A i : Done(i)' = Done(i)
    BY DEF Done

\* A new sample: nothing has been read for it.
LEMMA SamplePInv == PInv /\ Sample => PInv'
  <1> SUFFICES ASSUME PInv, Sample PROVE PInv'
      OBVIOUS
  <1>1. /\ stage = "wait" /\ stage' = "read" /\ at' = 1 /\ data' = <<>>
        /\ UNCHANGED <<pmu_config, online, perf_list, groups, started, samples, shown>>
        /\ UNCHANGED <<counts, ticks, missed>>
      BY DEF Sample, machine, setup, counted
  <1>2. PipelineTypes' /\ GroupsInv' /\ SamplesInv' /\ CountersInv'
      BY <1>1 DEF PInv, PipelineTypes, GroupsInv, GroupNo, AllOpen, NumCpus, Counting,
                  SamplesInv, CountersInv, Measured
  <1>3. DataInv'
    <2>1. Len(groups) \in Nat
        BY DEF PInv, GroupsInv
    <2> QED BY <1>1, <2>1 DEF DataInv
  <1>4. RatiosKept' /\ EveryEventShown'
      BY <1>1 DEF RatiosKept, EveryEventShown
  <1>5. Balance'
    <2>1. \A i : Recorded(i)' = Recorded(i)
      <3>1. \A i : Made(i) = 0 /\ Made(i)' = 0
          BY <1>1 DEF Made
      <3> QED BY <1>1, <3>1, RecordedIs, SampleSame DEF Recorded, Made
    <2> QED BY <1>1, <2>1 DEF PInv, Balance, Waiting, Passing, BeingRead, Counting
  <1> QED BY <1>2, <1>3, <1>4, <1>5 DEF PInv

\* The line of a group says what it has counted since its last reset.
LEMMA ReadPInv == PInv /\ ReadGroup => PInv'
  <1> SUFFICES ASSUME PInv, ReadGroup PROVE PInv'
      OBVIOUS
  <1>1. /\ stage = "read" /\ at <= Len(groups) /\ stage' = "reset"
        /\ data' = Append(data, Line(at))
        /\ UNCHANGED <<pmu_config, online, perf_list, groups, started, at, samples, shown>>
        /\ UNCHANGED <<counts, ticks, missed>>
      BY DEF ReadGroup, machine, setup, counted
  <1>2. /\ at \in 1..Len(groups) /\ Len(data) = at - 1 /\ Len(groups) \in Nat
        /\ counts \in [1..Len(groups) -> [nr : Nat, dr : Nat]]
        /\ data \in Seq(Lines)
    <2>1. at \in 1..(Len(groups) + 1) /\ Len(data) = at - 1 /\ Len(groups) \in Nat
        BY <1>1 DEF PInv, DataInv, GroupsInv
    <2> QED BY <1>1, <2>1 DEF PInv, CountersInv, PipelineTypes, Counting
  <1> DEFINE l == Line(at)
             C == [nr : Nat, dr : Nat]
  <1>3. l \in Lines /\ LineFits(l, groups[at]) /\ l.dr = counts[at].dr
    <2>1. counts[at].nr \in Nat /\ counts[at].dr \in Nat
        BY <1>2
    <2>2. groups[at].cpu \in Cpus /\ groups[at].event \in NamedCtrs
      <3> DEFINE G == [cpu : Cpus, event : NamedCtrs]
      <3>1. groups \in Seq(G)
          BY DEF PInv, GroupsInv
      <3> HIDE DEF G
      <3>2. groups[at] \in G
          BY <1>2, <3>1
      <3> QED BY <3>2 DEF G
    <2>3. Measured(counts[at], groups[at])
        BY <1>1, <1>2 DEF PInv, CountersInv, Counting
    <2> QED BY <2>1, <2>2, <2>3 DEF Line, Lines, LineFits, Measured
  <1>4. /\ data' \in Seq(Lines) /\ Len(data') = at /\ data'[at] = l
        /\ \A i \in 1..(at - 1) : data'[i] = data[i]
        /\ DOMAIN data' = 1..at /\ DOMAIN data = 1..(at - 1)
    <2> HIDE DEF l
    <2>1. data' = Append(data, l) /\ Len(data) = at - 1 /\ at - 1 \in Nat
        BY <1>1, <1>2 DEF l
    <2> QED BY <1>2, <1>3, <2>1, AppendProperties
  <1>5. PipelineTypes' /\ GroupsInv' /\ SamplesInv' /\ CountersInv'
      BY <1>1, <1>4 DEF PInv, PipelineTypes, GroupsInv, GroupNo, AllOpen, NumCpus, Counting,
                  SamplesInv, CountersInv, Measured
  <1>6. DataInv'
    <2> HIDE DEF l
    <2>1. ASSUME NEW i \in 1..at PROVE LineFits(data'[i], groups[i])
      <3>1. CASE i = at
          BY <1>3, <1>4, <3>1
      <3>2. CASE i # at
        <4>1. i \in 1..(at - 1)
            BY <1>2, <3>2
        <4> QED BY <1>1, <1>2, <1>4, <4>1 DEF PInv, DataInv
      <3> QED BY <3>1, <3>2
    <2> QED BY <1>1, <1>2, <1>4, <2>1 DEF DataInv, LineFits, Measured
  <1>7. RatiosKept' /\ EveryEventShown'
      BY <1>1 DEF RatiosKept, EveryEventShown
  <1>8. Balance'
    <2> SUFFICES ASSUME NEW i \in 1..Len(groups)
                 PROVE  /\ Waiting(i)' + Recorded(i)' = groups[i].event.drs * (ticks[i] - missed[i])
                        /\ Passing(i)' \in 0..(groups[i].event.drs * missed[i])
        BY <1>1 DEF Balance
    <2>1. /\ Waiting(i) + Recorded(i) = groups[i].event.drs * (ticks[i] - missed[i])
          /\ Passing(i) \in 0..(groups[i].event.drs * missed[i])
        BY <1>1 DEF PInv, Balance, Counting
    <2>2. Done(i)' = Done(i) /\ ~BeingRead(i)
        BY <1>1, SampleSame DEF BeingRead
    <2>3. Recorded(i) = Done(i) + Made(i) /\ Recorded(i)' = Done(i)' + Made(i)'
        BY RecordedIs DEF Recorded, Done, Made
    <2>4. CASE i # at
      <3>1. Made(i)' = Made(i)
        <4>1. i \in DOMAIN data' <=> i \in DOMAIN data
            BY <1>2, <1>4, <2>4
        <4> QED BY <1>1, <1>4, <4>1 DEF Made
      <3>2. ~BeingRead(i)'
          BY <1>1, <2>4 DEF BeingRead
      <3>3. Recorded(i)' = Recorded(i)
          BY <2>2, <2>3, <3>1
      <3> QED BY <1>1, <2>1, <2>2, <3>2, <3>3 DEF Waiting, Passing
    <2>5. CASE i = at
      <3>1. Made(i) = 0 /\ Made(i)' = counts[i].dr
          BY <1>1, <1>2, <1>3, <1>4, <2>5 DEF Made
      <3>2. BeingRead(i)' /\ data'[i].dr = counts[i].dr
          BY <1>1, <1>3, <1>4, <2>5 DEF BeingRead
      <3>4. counts[i].dr \in Nat /\ Done(i) \in Int
          BY <1>1, <1>2, DoneType DEF Counting
      <3>5. Waiting(i) = counts[i].dr /\ Waiting(i)' = 0 /\ Passing(i) = 0 /\ Passing(i)' = 0
          BY <1>1, <2>2, <3>2, <3>4 DEF Waiting, Passing
      <3> QED BY <2>1, <2>2, <2>3, <3>1, <3>4, <3>5
    <2> QED BY <2>4, <2>5
  <1> QED BY <1>5, <1>6, <1>7, <1>8 DEF PInv

\* What a group has counted since it was read goes with its reset.
LEMMA ResetPInv == PInv /\ ResetGroup => PInv'
  <1> SUFFICES ASSUME PInv, ResetGroup PROVE PInv'
      OBVIOUS
  <1> DEFINE zero == [nr |-> 0, dr |-> 0]
             C == [nr : Nat, dr : Nat]
  <1>1. /\ stage = "reset" /\ stage' = "read" /\ at' = at + 1
        /\ counts' = [counts EXCEPT ![at] = zero]
        /\ UNCHANGED <<pmu_config, online, perf_list, groups, started, data, samples, shown>>
        /\ UNCHANGED <<ticks, missed>>
      BY DEF ResetGroup, AfterReset, machine, setup
  <1>2. /\ at \in 1..Len(groups) /\ Len(data) = at /\ Len(groups) \in Nat
        /\ counts \in [1..Len(groups) -> C]
        /\ DOMAIN data = 1..at
    <2>1. at \in 1..Len(groups) /\ Len(data) = at /\ Len(groups) \in Nat
        BY <1>1 DEF PInv, DataInv, GroupsInv
    <2> QED BY <1>1, <2>1, DataLines DEF PInv, CountersInv, Counting
  <1>3. counts' \in [1..Len(groups) -> C] /\ counts'[at] = zero
        /\ \A i \in 1..Len(groups) : i # at => counts'[i] = counts[i]
    <2>1. zero \in C
        OBVIOUS
    <2> HIDE DEF C, zero
    <2> QED BY <1>1, <1>2, <2>1
  <1>4. PipelineTypes' /\ GroupsInv' /\ SamplesInv'
      BY <1>1 DEF PInv, PipelineTypes, GroupsInv, GroupNo, AllOpen, NumCpus, Counting, SamplesInv
  <1>5. CountersInv'
    <2>1. ASSUME NEW i \in 1..Len(groups) PROVE Measured(counts'[i], groups[i])
      <3>1. CASE i # at
          BY <1>1, <1>3, <3>1 DEF PInv, CountersInv, Counting
      <3>2. CASE i = at
        <4>1. counts'[i].nr = 0 /\ counts'[i].dr = 0
            BY <1>3, <3>2
        <4> QED BY <4>1, GroupFacts DEF Measured
      <3> QED BY <3>1, <3>2
    <2> QED BY <1>1, <1>3, <2>1 DEF PInv, CountersInv, Counting, Measured
  <1>6. DataInv'
      BY <1>1, <1>2 DEF PInv, DataInv, LineFits, Measured
  <1>7. RatiosKept' /\ EveryEventShown'
      BY <1>1 DEF RatiosKept, EveryEventShown
  <1>8. Balance'
    <2> SUFFICES ASSUME NEW i \in 1..Len(groups)
                 PROVE  /\ Waiting(i)' + Recorded(i)' = groups[i].event.drs * (ticks[i] - missed[i])
                        /\ Passing(i)' \in 0..(groups[i].event.drs * missed[i])
        BY <1>1 DEF Balance
    <2>1. /\ Waiting(i) + Recorded(i) = groups[i].event.drs * (ticks[i] - missed[i])
          /\ Passing(i) \in 0..(groups[i].event.drs * missed[i])
        BY <1>1 DEF PInv, Balance, Counting
    <2>2. ~BeingRead(i)'
        BY <1>1 DEF BeingRead
    <2>3. Recorded(i)' = Recorded(i)
        BY <1>1 DEF Recorded
    <2>4. CASE i # at
      <3>1. ~BeingRead(i) /\ counts'[i] = counts[i]
          BY <1>3, <2>4 DEF BeingRead
      <3> QED BY <2>1, <2>2, <2>3, <3>1 DEF Waiting, Passing
    <2>5. CASE i = at
      <3>1. BeingRead(i) /\ counts'[i].dr = 0
          BY <1>1, <1>3, <2>5 DEF BeingRead
      <3>2. Waiting(i) = 0 /\ Waiting(i)' = 0 /\ Passing(i)' = 0
          BY <2>2, <3>1 DEF Waiting, Passing
      <3> DEFINE most == groups[i].event.drs * missed[i]
      <3>3. most \in Int /\ Passing(i) \in Int
        <4>1. missed[i] \in Int /\ groups[i].event.drs \in Int
            BY <1>1, GroupFacts DEF PInv, CountersInv, Counting
        <4>2. most \in Int
            BY <4>1, TimesMore
        <4> QED BY <2>1, <4>2
      <3>4. Passing(i) \in 0..most
          BY <2>1
      <3> HIDE DEF most
      <3>5. 0 \in 0..most
          BY <3>3, <3>4
      <3> QED BY <2>1, <2>3, <3>2, <3>5 DEF most
    <2> QED BY <2>4, <2>5
  <1> QED BY <1>4, <1>5, <1>6, <1>7, <1>8 DEF PInv

\* The sample has a line of every group, and what they say has been recorded.
LEMMA SampleOverPInv == PInv /\ SampleOver => PInv'
  <1> SUFFICES ASSUME PInv, SampleOver PROVE PInv'
      OBVIOUS
  <1> DEFINE n == Len(samples)
  <1>1. /\ stage = "read" /\ at > Len(groups) /\ stage' = "wait"
        /\ samples' = Append(samples, data)
        /\ UNCHANGED <<pmu_config, online, perf_list, groups, started, at, data, shown>>
        /\ UNCHANGED <<counts, ticks, missed>>
      BY DEF SampleOver, machine, setup, counted
  <1>2. /\ Len(data) = Len(groups) /\ Len(groups) \in Nat /\ DOMAIN data = 1..Len(groups)
        /\ data \in Seq(Lines) /\ samples \in Seq(Seq(Lines)) /\ n \in Nat
    <2>1. at \in 1..(Len(groups) + 1) /\ Len(data) = at - 1 /\ Len(groups) \in Nat
        BY <1>1 DEF PInv, DataInv, GroupsInv
    <2>2. data \in Seq(Lines) /\ samples \in Seq(Seq(Lines)) /\ n \in Nat
        BY DEF PInv, PipelineTypes
    <2> QED BY <1>1, <2>1, <2>2
  <1>3. /\ samples' \in Seq(Seq(Lines)) /\ Len(samples') = n + 1
        /\ samples'[n + 1] = data /\ \A k \in 1..n : samples'[k] = samples[k]
    <2> DEFINE T == Seq(Lines)
    <2>1. samples \in Seq(T) /\ data \in T
        BY <1>2
    <2> HIDE DEF T
    <2>2. samples' \in Seq(T) /\ Len(samples') = n + 1
          /\ samples'[n + 1] = data /\ \A k \in 1..n : samples'[k] = samples[k]
        BY <1>1, <2>1, AppendProperties
    <2> QED BY <2>2 DEF T
  <1> HIDE DEF n
  <1>4. PipelineTypes' /\ GroupsInv' /\ CountersInv' /\ DataInv'
      BY <1>1, <1>3 DEF PInv, PipelineTypes, GroupsInv, GroupNo, AllOpen, NumCpus, Counting,
                        CountersInv, Measured, DataInv
  <1>5. SamplesInv'
    <2>1. ASSUME NEW k \in 1..(n + 1)
          PROVE  /\ Len(samples'[k]) = Len(groups)
                 /\ \A i \in 1..Len(groups) : LineFits(samples'[k][i], groups[i])
      <3>1. CASE k = n + 1
          BY <1>1, <1>2, <1>3, <3>1 DEF PInv, DataInv
      <3>2. CASE k # n + 1
        <4>1. k \in 1..n
            BY <1>2, <3>2
        <4> QED BY <1>1, <1>3, <4>1 DEF PInv, SamplesInv, Counting, n
      <3> QED BY <3>1, <3>2
    <2> QED BY <1>1, <1>3, <2>1 DEF SamplesInv, LineFits, Measured
  <1>6. RatiosKept' /\ EveryEventShown'
      BY <1>1 DEF RatiosKept, EveryEventShown
  <1>7. Balance'
    <2> SUFFICES ASSUME NEW i \in 1..Len(groups) PROVE Recorded(i)' = Recorded(i)
      <3>1. \A i \in 1..Len(groups) : ~BeingRead(i) /\ ~BeingRead(i)'
          BY <1>1 DEF BeingRead
      <3> QED BY <1>1, <3>1 DEF PInv, Balance, Waiting, Passing, Counting
    <2> DEFINE f == [k \in DOMAIN samples |-> samples[k][i].dr]
               g == [k \in DOMAIN samples' |-> samples'[k][i].dr]
    <2>1. f \in [1..n -> Int] /\ g \in [1..(n + 1) -> Int] /\ g[n + 1] = data[i].dr
          /\ \A k \in 1..n : g[k] = f[k]
      <3>1. DOMAIN samples = 1..n /\ DOMAIN samples' = 1..(n + 1)
          BY <1>2, <1>3 DEF n
      <3>2. data[i].dr \in Int /\ \A k \in 1..n : samples[k][i].dr \in Int
          BY <1>1, <1>2, DataLines, SampleTypes DEF n, Counting
      <3>3. \A k \in 1..(n + 1) : k = n + 1 \/ k \in 1..n
          BY <1>2
      <3>4. \A k \in 1..n : k \in 1..(n + 1)
          BY <1>2
      <3>5. n + 1 \in 1..(n + 1)
          BY <1>2
      <3>6. \A k \in 1..(n + 1) : samples'[k][i].dr \in Int
          BY <1>3, <3>2, <3>3
      <3>7. f \in [1..n -> Int]
          BY <3>1, <3>2
      <3>8. g \in [1..(n + 1) -> Int]
          BY <3>1, <3>6
      <3>9. g[n + 1] = data[i].dr
          BY <1>3, <3>1, <3>5
      <3>10. \A k \in 1..n : g[k] = f[k]
          BY <1>3, <3>1, <3>4
      <3> QED BY <3>7, <3>8, <3>9, <3>10
    <2>2. Done(i) = SumFunction(f) /\ Done(i)' = SumFunction(g)
        BY DEF Done
    <2> HIDE DEF f, g
    <2>3. Done(i)' = Done(i) + data[i].dr /\ Done(i) \in Int /\ data[i].dr \in Int
      <3>1. n \in Nat
          BY <1>2
      <3>2. SumFunction(g) = SumFunction(f) + g[n + 1] /\ SumFunction(f) \in Int
          BY ONLY <2>1, <3>1, SumAppend
      <3>3. data[i].dr \in Int
          BY <1>2, DataLines
      <3> QED BY ONLY <2>1, <2>2, <3>2, <3>3
    <2>4. Made(i) = data[i].dr /\ Made(i)' = 0
        BY <1>1, <1>2 DEF Made
    <2>5. Recorded(i) = Done(i) + Made(i) /\ Recorded(i)' = Done(i)' + Made(i)'
        BY RecordedIs DEF Recorded, Done, Made
    <2> QED BY <2>3, <2>4, <2>5
  <1> QED BY <1>4, <1>5, <1>6, <1>7 DEF PInv

-----------------------------------------------------------------------------
\* The report.

\* The place of the group of a CPU for the p-th event.
Place(c, p) == c * Len(perf_list) + p

\* All groups have been opened, CPU by CPU.
AllThere == /\ PInv /\ stage = "wait" /\ perf_list # <<>>

LEMMA SizesAre ==
    ASSUME AllThere
    PROVE  /\ NumCpus \in Nat \ {0} /\ Len(perf_list) \in Nat \ {0}
           /\ DOMAIN perf_list = 1..Len(perf_list)
           /\ Len(groups) = NumCpus * Len(perf_list) /\ Len(groups) \in Nat
           /\ DOMAIN groups = 1..Len(groups) /\ IsFiniteSet(online)
  <1>1. /\ online \in SUBSET Cpus /\ online # {} /\ perf_list \in Seq(NamedCtrs)
        /\ perf_list # <<>> /\ groups \in Seq([cpu : Cpus, event : NamedCtrs])
        /\ Len(groups) = NumCpus * Len(perf_list)
      BY DEF AllThere, PInv, PipelineTypes, GroupsInv, AllOpen, Counting
  <1>2. NumCpus \in Nat /\ IsFiniteSet(online)
      BY <1>1, NumCpusType
  <1>3. NumCpus # 0
      BY <1>1, <1>2, FS_EmptySet DEF NumCpus
  <1> QED BY <1>1, <1>2, <1>3

\* The group at each place, and the place of each group.
LEMMA PlacesAre ==
    ASSUME AllThere, NEW c \in 0..(NumCpus - 1), NEW p \in 1..Len(perf_list)
    PROVE  /\ Place(c, p) \in 1..Len(groups)
           /\ groups[Place(c, p)] = [cpu |-> c, event |-> perf_list[p]]
           /\ c \in online
  <1> DEFINE L == Len(perf_list)
             N == NumCpus
             j == Place(c, p)
  <1>1. N \in Nat /\ L \in Nat \ {0} /\ Len(groups) = N * L
      BY SizesAre
  <1>2. c * L \in Nat /\ (c + 1) * L <= N * L /\ (c + 1) * L = c * L + L /\ N * L \in Nat
    <2>1. c \in Nat /\ c + 1 \in Nat /\ c + 1 <= N /\ 1 \in Nat
        BY <1>1
    <2>2. 1 * L = L
        BY <1>1
    <2> QED BY <1>1, <2>1, <2>2, Times
  <1>3. j = c * L + p /\ j \in 1..Len(groups) /\ j - 1 = c * L + (p - 1)
      BY <1>1, <1>2 DEF Place
  <1>4. (j - 1) \div L = c /\ (j - 1) % L = p - 1
    <2>1. p - 1 \in 0..(L - 1) /\ c \in Nat
        BY <1>1
    <2> HIDE DEF L, j
    <2> DEFINE r == p - 1
    <2>2. r \in 0..(L - 1) /\ j - 1 = c * L + r
        BY <1>3, <2>1
    <2> HIDE DEF r
    <2>3. (c * L + r) \div L = c /\ (c * L + r) % L = r
      <3>1. L \in Nat \ {0} /\ c \in Nat /\ r \in 0..(L - 1)
          BY <1>1, <2>1, <2>2
      <3> QED BY ONLY <3>1, DivModOnly
    <2> QED BY <2>2, <2>3 DEF r
  <1>5. GroupNo(j) = [cpu |-> c, event |-> perf_list[p]]
    <2>1. (p - 1) + 1 = p
        OBVIOUS
    <2> QED BY <1>4, <2>1 DEF GroupNo
  <1>6. groups[j] = GroupNo(j) /\ groups[j].cpu \in online
      BY <1>3 DEF AllThere, PInv, GroupsInv
  <1> QED BY <1>3, <1>5, <1>6

LEMMA GroupIs ==
    ASSUME AllThere, NEW j \in 1..Len(groups)
    PROVE  \E c \in 0..(NumCpus - 1), p \in 1..Len(perf_list) :
               /\ j = Place(c, p)
               /\ groups[j] = [cpu |-> c, event |-> perf_list[p]]
  <1> DEFINE L == Len(perf_list)
             N == NumCpus
             c == (j - 1) \div L
             p == ((j - 1) % L) + 1
  <1>1. N \in Nat \ {0} /\ L \in Nat \ {0} /\ Len(groups) = N * L /\ j - 1 \in Nat
      BY SizesAre
  <1>2. c \in Nat /\ p \in 1..L /\ j = c * L + p
    <2> HIDE DEF L
    <2>1. /\ c \in Nat /\ (j - 1) % L \in 0..(L - 1)
          /\ j - 1 = c * L + ((j - 1) % L)
        BY <1>1, DivMod
    <2>2. c * L \in Nat
        BY <1>1, <2>1, Times
    <2> QED BY <1>1, <2>1, <2>2
  <1>3. c \in 0..(N - 1)
    <2> SUFFICES ASSUME N <= c PROVE FALSE
        BY <1>1, <1>2
    <2> HIDE DEF c, p, L, N
    <2>1. N * L <= c * L /\ N * L \in Nat /\ c * L \in Nat
        BY <1>1, <1>2, Times
    <2> QED BY <1>1, <1>2, <2>1
  <1>4. groups[j] = GroupNo(j)
      BY DEF AllThere, PInv, GroupsInv
  <1>5. groups[j] = [cpu |-> c, event |-> perf_list[p]]
      BY <1>4 DEF GroupNo
  <1> QED BY <1>2, <1>3, <1>5 DEF Place

\* The CPUs that are online are numbered from 0, without a gap: a group can be
\* opened on the others only.
LEMMA OnlineAre == AllThere => online = 0..(NumCpus - 1)
  <1> SUFFICES ASSUME AllThere PROVE online = 0..(NumCpus - 1)
      OBVIOUS
  <1> DEFINE N == NumCpus
  <1>1. N \in Nat \ {0} /\ IsFiniteSet(online) /\ 1 \in 1..Len(perf_list)
      BY SizesAre
  <1>2. 0..(N - 1) \in SUBSET online
      BY <1>1, PlacesAre
  <1>3. Cardinality(0..(N - 1)) = Cardinality(online)
    <2>1. Cardinality(0..(N - 1)) = IF 0 > N - 1 THEN 0 ELSE (N - 1) - 0 + 1
        BY <1>1, FS_Interval
    <2>2. N = Cardinality(online)
        BY DEF NumCpus
    <2> HIDE DEF N
    <2> QED BY <1>1, <2>1, <2>2
  <1> QED BY <1>1, <1>2, <1>3, FS_Subset

\* A sample has a stat of each CPU for each event, at the place of its group.
LEMMA StatsAre ==
    ASSUME AllThere, NEW k \in 1..Len(samples), NEW c \in online, NEW key
    PROVE  StatsOf(samples[k], c) \cap Named(samples[k], key)
             = {Place(c, p) : p \in Named(perf_list, key)}
  <1> DEFINE s == samples[k]
             here == StatsOf(s, c) \cap Named(s, key)
             there == {Place(c, p) : p \in Named(perf_list, key)}
  <1>1. /\ DOMAIN s = 1..Len(groups)
        /\ \A i \in 1..Len(groups) : s[i].cpu = groups[i].cpu /\ s[i].name = groups[i].event.name
      BY SampleTypes DEF AllThere, PInv, SamplesInv, LineFits, Counting
  <1>2. c \in 0..(NumCpus - 1) /\ DOMAIN perf_list = 1..Len(perf_list)
      BY OnlineAre, SizesAre
  <1> HIDE DEF s
  <1>3. ASSUME NEW i \in here PROVE i \in there
    <2>1. i \in 1..Len(groups) /\ s[i].cpu = c /\ s[i].name = key
        BY <1>1 DEF StatsOf, Named
    <2>2. PICK d \in 0..(NumCpus - 1), p \in 1..Len(perf_list) :
              i = Place(d, p) /\ groups[i] = [cpu |-> d, event |-> perf_list[p]]
        BY <2>1, GroupIs
    <2>3. d = c /\ perf_list[p].name = key
        BY <1>1, <2>1, <2>2
    <2> QED BY <1>2, <2>2, <2>3 DEF Named
  <1>4. ASSUME NEW p \in Named(perf_list, key) PROVE Place(c, p) \in here
    <2>1. p \in 1..Len(perf_list) /\ perf_list[p].name = key
        BY <1>2 DEF Named
    <2>2. /\ Place(c, p) \in 1..Len(groups)
          /\ groups[Place(c, p)] = [cpu |-> c, event |-> perf_list[p]]
        BY <1>2, <2>1, PlacesAre
    <2> QED BY <1>1, <2>1, <2>2 DEF StatsOf, Named
  <1>5. here = there
    <2> HIDE DEF here
    <2> QED BY <1>3, <1>4
  <1> QED BY <1>5 DEF s

LEMMA CpusAre ==
    ASSUME AllThere, NEW k \in 1..Len(samples)
    PROVE  CpusIn(samples[k]) = online
  <1> DEFINE s == samples[k]
  <1>1. /\ DOMAIN s = 1..Len(groups)
        /\ \A i \in 1..Len(groups) : s[i].cpu = groups[i].cpu
      BY SampleTypes DEF AllThere, PInv, SamplesInv, LineFits, Counting
  <1>2. \A i \in 1..Len(groups) : groups[i].cpu \in online
      BY DEF AllThere, PInv, GroupsInv
  <1>3. ASSUME NEW c \in online PROVE \E i \in 1..Len(groups) : groups[i].cpu = c
    <2>1. c \in 0..(NumCpus - 1) /\ 1 \in 1..Len(perf_list)
        BY OnlineAre, SizesAre
    <2>2. /\ Place(c, 1) \in 1..Len(groups)
          /\ groups[Place(c, 1)] = [cpu |-> c, event |-> perf_list[1]]
        BY <2>1, PlacesAre
    <2>3. groups[Place(c, 1)].cpu = c
        BY <2>2
    <2> HIDE DEF s
    <2> QED BY ONLY <2>2, <2>3
  <1> HIDE DEF s
  <1>4. CpusIn(s) = online
      BY <1>1, <1>2, <1>3 DEF CpusIn
  <1> QED BY <1>4 DEF s

\* The names of the events recorded are those of the first CPU's stats.
Titled == {perf_list[i].name : i \in DOMAIN perf_list}

LEMMA KeysAre ==
    ASSUME AllThere, 1 \in 1..Len(samples)
    PROVE  Keys = Titled
  <1> DEFINE s == samples[1]
             c == s[1].cpu
  <1>1. /\ DOMAIN s = 1..Len(groups)
        /\ \A i \in 1..Len(groups) : s[i].cpu = groups[i].cpu /\ s[i].name = groups[i].event.name
      BY SampleTypes DEF AllThere, PInv, SamplesInv, LineFits, Counting
  <1>2. c \in online
    <2>1. 0 \in 0..(NumCpus - 1) /\ 1 \in 1..Len(perf_list)
        BY SizesAre
    <2>2. Place(0, 1) \in 1..Len(groups)
        BY <2>1, PlacesAre
    <2>3. 1 \in 1..Len(groups)
        BY <2>2, SizesAre
    <2> QED BY <1>1, <2>3 DEF AllThere, PInv, GroupsInv
  <1>3. \A key : StatsOf(s, c) \cap Named(s, key) = {Place(c, p) : p \in Named(perf_list, key)}
      BY <1>2, StatsAre
  <1>4. Keys = {s[i].name : i \in StatsOf(s, c)}
      BY DEF Keys
  <1> HIDE DEF s, c
  <1>5. \A key : key \in Keys <=> StatsOf(s, c) \cap Named(s, key) # {}
      BY <1>4 DEF StatsOf, Named
  <1>6. \A key : key \in Titled <=> Named(perf_list, key) # {}
      BY DEF Titled, Named
  <1>7. \A key : Named(perf_list, key) # {} <=> {Place(c, p) : p \in Named(perf_list, key)} # {}
      OBVIOUS
  <1>8. \A key : key \in Keys <=> key \in Titled
      BY <1>3, <1>5, <1>6, <1>7
  <1> QED BY <1>8

\* The first event of a name.
FirstOf(key) == Min(Named(perf_list, key))

LEMMA FirstIs ==
    ASSUME AllThere, NEW key \in Titled
    PROVE  /\ FirstOf(key) \in Named(perf_list, key) /\ FirstOf(key) \in 1..Len(perf_list)
           /\ \A p \in Named(perf_list, key) : FirstOf(key) <= p
  <1>1. Named(perf_list, key) \in SUBSET (1..Len(perf_list)) /\ Named(perf_list, key) # {}
      BY SizesAre DEF Named, Titled
  <1>2. PICK m \in Named(perf_list, key) : \A p \in Named(perf_list, key) : m <= p
      BY <1>1, Least
  <1>3. Min(Named(perf_list, key)) = m
      BY <1>1, <1>2, MinIs
  <1> QED BY <1>1, <1>2, <1>3 DEF FirstOf

\* What a key is shown with for a CPU is the first stat of its name.
LEMMA StatIs ==
    ASSUME AllThere, NEW k \in 1..Len(samples), NEW key \in Titled
    PROVE  /\ DOMAIN StatsFor(samples[k], key) = online
           /\ \A c \in online :
                  StatsFor(samples[k], key)[c] = samples[k][Place(c, FirstOf(key))]
  <1> DEFINE s == samples[k]
             m == FirstOf(key)
             Stats(c) == StatsOf(s, c) \cap Named(s, key)
  <1>1. /\ m \in Named(perf_list, key) /\ m \in 1..Len(perf_list)
        /\ \A p \in Named(perf_list, key) : p \in 1..Len(perf_list) /\ m <= p
      BY FirstIs, SizesAre DEF Named
  <1>2. CpusIn(s) = online
      BY CpusAre
  <1>3. \A c \in online : Stats(c) = {Place(c, p) : p \in Named(perf_list, key)}
      BY StatsAre
  <1>4. StatsFor(s, key) = [c \in {c \in CpusIn(s) : Stats(c) # {}} |-> s[Min(Stats(c))]]
      BY DEF StatsFor
  <1> HIDE DEF s, m, Stats
  <1>5. ASSUME NEW c \in online PROVE Stats(c) # {} /\ Min(Stats(c)) = Place(c, m)
    <2>1. c \in Nat /\ Len(perf_list) \in Nat
        BY OnlineAre, SizesAre
    <2>2. \A p \in 1..Len(perf_list) : Place(c, p) \in Int /\ (m <= p => Place(c, m) <= Place(c, p))
      <3>1. c * Len(perf_list) \in Nat
          BY <2>1, Times
      <3> QED BY <1>1, <2>1, <3>1 DEF Place
    <2>3. /\ Stats(c) \in SUBSET Int /\ Place(c, m) \in Stats(c)
          /\ \A y \in Stats(c) : Place(c, m) <= y
        BY <1>1, <1>3, <2>2
    <2> QED BY <2>3, MinIs
  <1>6. {c \in CpusIn(s) : Stats(c) # {}} = online
      BY <1>2, <1>5
  <1>7. DOMAIN StatsFor(s, key) = online /\ \A c \in online : StatsFor(s, key)[c] = s[Min(Stats(c))]
      BY <1>4, <1>6
  <1>8. DOMAIN StatsFor(s, key) = online /\ \A c \in online : StatsFor(s, key)[c] = s[Place(c, m)]
      BY <1>5, <1>7
  <1> QED BY <1>8 DEF s, m

\* The values of a key: the quotients are true, and that of the sums lies
\* between the least and the greatest of them.
TrueOf(key, c) == perf_list[FirstOf(key)].nrs * Rate[c]

ValueFits(value, key) ==
    /\ DOMAIN value.cpus = online
    /\ \A c \in online :
           value.cpus[c].nr * perf_list[FirstOf(key)].drs = value.cpus[c].dr * TrueOf(key, c)
    /\ \E c \in online :
           value.all.nr * perf_list[FirstOf(key)].drs <= value.all.dr * TrueOf(key, c)
    /\ \E c \in online :
           value.all.nr * perf_list[FirstOf(key)].drs >= value.all.dr * TrueOf(key, c)

LEMMA ValueIs ==
    ASSUME AllThere, NEW k \in 1..Len(samples), NEW key \in Titled
    PROVE  ValueFits(ValuesOf(samples[k], key), key)
  <1> DEFINE stats == StatsFor(samples[k], key)
             m == FirstOf(key)
             nrs == perf_list[m].nrs
             drs == perf_list[m].drs
             nr == [c \in DOMAIN stats |-> stats[c].nr]
             dr == [c \in DOMAIN stats |-> stats[c].dr]
             true == [c \in online |-> nrs * Rate[c]]
             value == ValuesOf(samples[k], key)
  <1>1. DOMAIN stats = online /\ IsFiniteSet(online) /\ online # {} /\ online \in SUBSET Cpus
      BY StatIs, SizesAre DEF AllThere, PInv, PipelineTypes
  <1>2. nrs \in Nat /\ drs \in Nat
    <2>1. m \in 1..Len(perf_list) /\ perf_list \in Seq(NamedCtrs)
        BY FirstIs DEF AllThere, PInv, PipelineTypes
    <2>2. perf_list[m] \in NamedCtrs
        BY <2>1
    <2> QED BY <2>2, EventTypes
  <1>3. ASSUME NEW c \in online
        PROVE  /\ stats[c].nr \in Nat /\ stats[c].dr \in Nat
               /\ stats[c].nr * drs = stats[c].dr * (nrs * Rate[c])
    <2> DEFINE j == Place(c, m)
    <2>1. c \in 0..(NumCpus - 1) /\ m \in 1..Len(perf_list)
        BY OnlineAre, FirstIs
    <2>2. j \in 1..Len(groups) /\ groups[j] = [cpu |-> c, event |-> perf_list[m]]
        BY <2>1, PlacesAre
    <2>3. stats[c] = samples[k][j]
        BY StatIs
    <2> HIDE DEF j, stats, m
    <2>4. /\ samples[k][j].nr \in Nat /\ samples[k][j].dr \in Nat
          /\ Measured(samples[k][j], groups[j])
        BY <2>2, SampleTypes DEF AllThere, PInv, SamplesInv, LineFits, Counting
    <2> QED BY <2>2, <2>3, <2>4 DEF Measured
  <1>4. \A c \in online : nr[c] = stats[c].nr /\ dr[c] = stats[c].dr
      BY <1>1
  <1>5. \A c \in online : true[c] \in Nat /\ true[c] = TrueOf(key, c) /\ true[c] = nrs * Rate[c]
    <2> TAKE c \in online
    <2>1. Rate[c] \in Nat /\ nrs \in Nat
        BY <1>1, <1>2, Machine
    <2> QED BY <2>1, Times DEF TrueOf
  <1>6. /\ DOMAIN value.cpus = online
        /\ \A c \in online : value.cpus[c].nr = stats[c].nr /\ value.cpus[c].dr = stats[c].dr
        /\ value.all.nr = SumFunctionOnSet(nr, online)
        /\ value.all.dr = SumFunctionOnSet(dr, online)
    <2>1. value = [cpus |-> [c \in DOMAIN stats |-> [nr |-> stats[c].nr, dr |-> stats[c].dr]],
                   all |-> [nr |-> SumFunction(nr), dr |-> SumFunction(dr)]]
        BY DEF ValuesOf
    <2>2. SumFunction(nr) = SumFunctionOnSet(nr, online) /\ SumFunction(dr) = SumFunctionOnSet(dr, online)
        BY <1>1 DEF SumFunction
    <2> HIDE DEF stats, nr, dr, value
    <2> QED BY <1>1, <2>1, <2>2
  <1> HIDE DEF stats, nr, dr, value, true, nrs, drs
  <1>7. \A c \in online : nr[c] \in Nat /\ dr[c] \in Nat /\ nr[c] * drs = dr[c] * true[c]
      BY <1>3, <1>4, <1>5
  <1>8. \E c \in online : value.all.nr * drs <= value.all.dr * true[c]
    <2>1. PICK x \in online : \A c \in online : true[c] <= true[x]
        BY <1>1, <1>5, HasGreatest
    <2>2. ASSUME NEW c \in online PROVE nr[c] * drs <= dr[c] * true[x]
      <3>1. true[c] * dr[c] <= true[x] * dr[c]
          BY <1>5, <1>7, <2>1, Times
      <3>2. true[c] * dr[c] = dr[c] * true[c] /\ true[x] * dr[c] = dr[c] * true[x]
          BY <1>5, <1>7
      <3> QED BY <1>7, <3>1, <3>2
    <2>3. SumFunctionOnSet(nr, online) * drs <= SumFunctionOnSet(dr, online) * true[x]
      <3>1. true[x] \in Int /\ drs \in Int
          BY <1>2, <1>5
      <3>2. \A c \in online : nr[c] \in Int /\ dr[c] \in Int /\ nr[c] * drs <= dr[c] * true[x]
          BY <1>7, <2>2
      <3> QED BY ONLY <1>1, <3>1, <3>2, SumCompare
    <2> QED BY <1>6, <2>3
  <1>9. \E c \in online : value.all.nr * drs >= value.all.dr * true[c]
    <2>1. PICK x \in online : \A c \in online : true[x] <= true[c]
        BY <1>1, <1>5, HasLeast
    <2>2. ASSUME NEW c \in online PROVE dr[c] * true[x] <= nr[c] * drs
      <3>1. true[x] * dr[c] <= true[c] * dr[c]
          BY <1>5, <1>7, <2>1, Times
      <3>2. true[c] * dr[c] = dr[c] * true[c] /\ true[x] * dr[c] = dr[c] * true[x]
          BY <1>5, <1>7
      <3> QED BY <1>7, <3>1, <3>2
    <2>3. SumFunctionOnSet(dr, online) * true[x] <= SumFunctionOnSet(nr, online) * drs
      <3>1. true[x] \in Int /\ drs \in Int
          BY <1>2, <1>5
      <3>2. \A c \in online : dr[c] \in Int /\ nr[c] \in Int /\ dr[c] * true[x] <= nr[c] * drs
          BY <1>7, <2>2
      <3> QED BY ONLY <1>1, <3>1, <3>2, SumCompare
    <2>4. /\ SumFunctionOnSet(nr, online) \in Int /\ SumFunctionOnSet(dr, online) \in Int
          /\ true[x] \in Int /\ drs \in Int
      <3>1. \A c \in online : nr[c] \in Int /\ dr[c] \in Int
          BY <1>7
      <3>2. SumFunctionOnSet(nr, online) \in Int
          BY ONLY <1>1, <3>1, SumTypes
      <3>3. SumFunctionOnSet(dr, online) \in Int
          BY ONLY <1>1, <3>1, SumTypes
      <3> QED BY <1>2, <1>5, <3>2, <3>3
    <2>5. value.all.nr * drs >= value.all.dr * true[x]
      <3> DEFINE a == SumFunctionOnSet(dr, online) * true[x]
                 b == SumFunctionOnSet(nr, online) * drs
      <3>1. a \in Int /\ b \in Int /\ a <= b
          BY <2>3, <2>4, TimesMore
      <3> HIDE DEF a, b
      <3>2. b >= a
          BY <3>1
      <3> QED BY <1>6, <3>2 DEF a, b
    <2> QED BY <2>5
  <1> QED BY <1>3, <1>5, <1>6, <1>8, <1>9 DEF ValueFits, drs, nrs, value

LEMMA ReportPInv == PInv /\ Report => PInv'
  <1> SUFFICES ASSUME PInv, Report PROVE PInv'
      OBVIOUS
  <1>1. /\ stage = "wait" /\ stage' \in {"panicked", "reported"}
        /\ UNCHANGED <<pmu_config, online, perf_list, groups, started, at, data, samples>>
        /\ UNCHANGED <<counts, ticks, missed>>
      BY DEF Report, machine, setup, counted
  <1>2. PipelineTypes' /\ GroupsInv' /\ CountersInv' /\ DataInv' /\ SamplesInv' /\ Balance'
      BY <1>1 DEF PInv, PipelineTypes, GroupsInv, GroupNo, AllOpen, NumCpus, Counting,
                  CountersInv, DataInv, SamplesInv, LineFits, Measured, Balance
  <1>3. /\ samples \in Seq(Seq(Lines)) /\ DOMAIN samples = 1..Len(samples) /\ Len(samples) \in Nat
        /\ perf_list \in Seq(NamedCtrs)
        /\ \A k \in 1..Len(samples) : Len(samples[k]) = Len(groups)
    <2>1. DOMAIN samples = 1..Len(samples) /\ Len(samples) \in Nat
        BY <1>1, SampleTypes
    <2> QED BY <1>1, <2>1 DEF PInv, PipelineTypes, SamplesInv, Counting
  <1>4. CASE \E k \in DOMAIN samples : samples[k] = <<>>
    <2>1. stage' = "panicked"
        BY <1>4 DEF Report
    <2>2. perf_list = <<>>
      <3> SUFFICES ASSUME perf_list # <<>> PROVE FALSE
          OBVIOUS
      <3>1. AllThere
          BY <1>1 DEF AllThere
      <3>2. Place(0, 1) \in 1..Len(groups)
        <4>1. 0 \in 0..(NumCpus - 1) /\ 1 \in 1..Len(perf_list)
            BY <3>1, SizesAre
        <4> QED BY <3>1, <4>1, PlacesAre
      <3>3. PICK k \in 1..Len(samples) : samples[k] = <<>>
          BY <1>3, <1>4
      <3>4. Len(groups) = 0
          BY <1>3, <3>3
      <3> QED BY <3>2, <3>4
    <2>3. RatiosKept' /\ EveryEventShown'
        BY <1>1, <2>1, <2>2 DEF RatiosKept, EveryEventShown
    <2> QED BY <1>2, <2>3 DEF PInv
  <1>5. CASE samples = <<>>
    <2>1. stage' = "reported" /\ shown' = <<>> /\ samples' = <<>>
        BY <1>1, <1>5 DEF Report
    <2>2. RatiosKept' /\ EveryEventShown'
      <3>1. DOMAIN shown' = {}
          BY <2>1
      <3> QED BY <2>1, <3>1 DEF RatiosKept, EveryEventShown
    <2> QED BY <1>2, <2>2 DEF PInv
  <1>6. CASE samples # <<>> /\ \A k \in DOMAIN samples : samples[k] # <<>>
    <2>1. /\ stage' = "reported"
          /\ shown' = [key \in Keys |-> [k \in DOMAIN samples |-> ValuesOf(samples[k], key)]]
        BY <1>6 DEF Report
    <2>2. 1 \in 1..Len(samples) /\ 1 \in DOMAIN samples
        BY <1>3, <1>6
    <2>3. perf_list # <<>>
      <3> SUFFICES ASSUME perf_list = <<>> PROVE FALSE
          OBVIOUS
      <3>1. NumCpus \in Nat /\ Len(perf_list) = 0 /\ Len(groups) = NumCpus * Len(perf_list)
          BY <1>1, NumCpusType DEF PInv, PipelineTypes, GroupsInv, AllOpen, Counting
      <3>2. samples[1] \in Seq(Lines) /\ Len(samples[1]) = 0
        <4> DEFINE T == Seq(Lines)
        <4>1. samples \in Seq(T)
            BY <1>3
        <4> HIDE DEF T
        <4>2. samples[1] \in T
            BY <2>2, <4>1
        <4>3. Len(samples[1]) = 0
            BY <1>3, <2>2, <3>1
        <4> QED BY <4>2, <4>3 DEF T
      <3> QED BY <1>6, <2>2, <3>2
    <2>4. AllThere
        BY <1>1, <2>3 DEF AllThere
    <2>5. Keys = Titled
        BY <2>2, <2>4, KeysAre
    <2>6. /\ DOMAIN shown' = Titled
          /\ \A key \in Titled : /\ DOMAIN shown'[key] = 1..Len(samples)
                                 /\ \A k \in 1..Len(samples) :
                                        shown'[key][k] = ValuesOf(samples[k], key)
        BY <1>3, <2>1, <2>5
    <2>7. \A key \in Titled : \A k \in 1..Len(samples) : ValueFits(shown'[key][k], key)
        BY <2>4, <2>6, ValueIs
    <2>8. EveryEventShown'
        BY <1>1, <1>3, <2>1, <2>6, <2>7 DEF EveryEventShown, Titled, ValueFits
    <2>9. RatiosKept'
      <3>1. SUFFICES ASSUME NEW key \in Titled, NEW k \in 1..Len(samples)
                     PROVE  LET value == shown'[key][k]
                                event == perf_list[Min(Named(perf_list, key))]
                                True(c) == event.nrs * Rate[c]
                            IN /\ \A c \in DOMAIN value.cpus :
                                    value.cpus[c].nr * event.drs = value.cpus[c].dr * True(c)
                               /\ \E c \in DOMAIN value.cpus :
                                    value.all.nr * event.drs <= value.all.dr * True(c)
                               /\ \E c \in DOMAIN value.cpus :
                                    value.all.nr * event.drs >= value.all.dr * True(c)
          BY <1>1, <2>6 DEF RatiosKept
      <3>2. ValueFits(shown'[key][k], key)
          BY <2>7
      <3> QED BY <3>2 DEF ValueFits, TrueOf, FirstOf
    <2> QED BY <1>2, <2>8, <2>9 DEF PInv
  <1> QED BY <1>4, <1>5, <1>6

-----------------------------------------------------------------------------
\* The theorems.

LEMMA NextPInv == PInv /\ pmu_config # Absent /\ Next => PInv'
  <1>1. ASSUME PInv, Terminated PROVE PInv'
      BY <1>1, SamePInv DEF Terminated
  <1> QED BY <1>1, PreparePInv, OpenPInv, ExcludePInv, OpenOverPInv, StartPInv, SamplePInv,
             ReadPInv, ResetPInv, SampleOverPInv, TickPInv, ReportPInv DEF Next

LEMMA PipelineInv == PipelineSpec => [](IInv /\ PInv)
  <1>1. PipelineInit => IInv /\ PInv
    <2>1. PipelineInit => IInv
        BY InitIInv, Dialogue DEF PipelineInit
    <2> QED BY <2>1, InitPInv
  <1>2. IInv /\ PInv /\ [PipelineNext]_<<vars, dialogue>> => IInv' /\ PInv'
    <2> SUFFICES ASSUME IInv, PInv, [PipelineNext]_<<vars, dialogue>> PROVE IInv' /\ PInv'
        OBVIOUS
    <2>1. CASE Edit
        BY <2>1, StepIInv, SamePInv, Dialogue DEF Edit
    <2>2. CASE Launch
        BY <2>2, StepIInv, LaunchPInv, Dialogue DEF Launch
    <2>3. CASE Count
        BY <2>3, StepIInv, NextPInv, Dialogue DEF Count
    <2>4. CASE UNCHANGED <<vars, dialogue>>
        BY <2>4, StepIInv, SamePInv, Dialogue
    <2> QED BY <2>1, <2>2, <2>3, <2>4 DEF PipelineNext
  <1> QED BY <1>1, <1>2, PTL DEF PipelineSpec

\* Whatever events are counted, on whatever CPUs and for however many samples,
\* each event recorded is shown on each CPU in each sample; the report panics
\* only of a recording without any events (PerfStat::get_values and get_keys).
THEOREM EveryEventIsShown == PipelineSpec => []EveryEventShown
  <1>1. PInv => EveryEventShown
      BY DEF PInv
  <1> QED BY <1>1, PipelineInv, PTL

\* The quotient shown for a CPU is the rate at which its events come, however
\* much is lost between a read and a reset, and that for all CPUs lies between
\* theirs: the sums are formed before they are divided (PerfStat::get_values).
THEOREM RatiosAreKept == PipelineSpec => []RatiosKept
  <1>1. PInv => RatiosKept
      BY DEF PInv
  <1> QED BY <1>1, PipelineInv, PTL

\* What a group has counted is what the lines written say, what waits to be
\* read and what is lost between a read and a reset: nothing is in two samples
\* (the read and the reset of collect_data).
THEOREM CountsAreKept == PipelineSpec => []CountsKept
  <1>1. PInv => CountsKept
    <2> SUFFICES ASSUME PInv, stage \in {"wait", "read", "reset"}, NEW i \in DOMAIN groups
                 PROVE  /\ Waiting(i) + Recorded(i) = groups[i].event.drs * (ticks[i] - missed[i])
                        /\ Passing(i) \in 0..(groups[i].event.drs * missed[i])
        BY DEF CountsKept, Waiting, Passing, BeingRead
    <2>1. i \in 1..Len(groups)
      <3> DEFINE T == [cpu : Cpus, event : NamedCtrs]
      <3>1. groups \in Seq(T)
          BY DEF PInv, GroupsInv
      <3> HIDE DEF T
      <3> QED BY <3>1
    <2> QED BY <2>1 DEF PInv, Balance, Counting
  <1> QED BY <1>1, PipelineInv, PTL

\* A recording never touches the dialogue: what is proved of the dialogue by
\* itself holds of the program that also records and reports.
THEOREM PipelineIsDialogue == PipelineSpec => DialogueSpec
  <1>1. PipelineInit => DialogueInit
      BY DEF PipelineInit
  <1>2. [PipelineNext]_<<vars, dialogue>> => [DialogueNext]_dialogue
      BY DEF PipelineNext, Edit, Launch, Count
  <1> QED BY <1>1, <1>2, PTL DEF PipelineSpec, DialogueSpec

=============================================================================
