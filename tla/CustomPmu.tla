------------------------------ MODULE CustomPmu ------------------------------
(***************************************************************************)
(* aperf custom-pmu (pmu.rs): a dialogue in which the user checks a file   *)
(* of PMU events, writes a new one, or edits a list of events, built in or *)
(* read from a file.  A prompt may be cancelled at any time, which ends    *)
(* the program.                                                            *)
(***************************************************************************)
EXTENDS Integers, Sequences, SequencesExt, FiniteSets

CONSTANTS Provided,   \* lists of events in the files a user may have
          BuiltIn,    \* the lists that aperf comes with
          Typed,      \* events a user may describe
          MaxEvents,  \* bound on the length of a list
          Broken,     \* content that is no list of events
          Absent,     \* no such file
          Unnamed     \* no -p

\* The file of -p, or aperf_custom_pmu.json, and aperf_existing_modified.json.
Files == {"custom", "modified"}
Lists == UNION {Provided, BuiltIn, {<<>>}}

\* What the lists are made of, and that they are lists.
Events == Typed \cup UNION {{l[i] : i \in DOMAIN l} : l \in Lists}
ListsOfEvents == Lists \subseteq Seq(Events)

VARIABLES screen,      \* the prompt the program waits at, or how it has ended
          pmu_file,    \* the argument of -p
          creating,    \* whether it writes a new list
          edited,   \* the list that is edited
          events,      \* the events that are being added
          delete_list, \* names selected and still to be confirmed
          disk         \* the files

locals == <<pmu_file, creating, edited, events, delete_list>>
dialogue == <<screen, locals, disk>>

DialogueInit == /\ screen = "start"
                /\ pmu_file \in Files \cup {Unnamed}
                /\ creating = FALSE
                /\ edited = <<>>
                /\ events = <<>>
                /\ delete_list = <<>>
                /\ disk \in [Files -> Provided \cup {Broken, Absent}]

Finished == {"valid", "written", "failed"}

NamesIn(list) == {list[i].name : i \in DOMAIN list}

\* The program is over, and what it held in memory with it.
Leave(how) == /\ screen' = how
              /\ pmu_file' = Unnamed
              /\ creating' = FALSE
              /\ edited' = <<>>
              /\ events' = <<>>
              /\ delete_list' = <<>>

-----------------------------------------------------------------------------
\* What the user is after.

\* Whether a file holds a list of events: the only thing --verify looks at.
WellFormed(content) == content \notin {Broken, Absent}

\* --verify.
Verify == /\ screen = "start"
          /\ Leave(IF pmu_file # Unnamed /\ WellFormed(disk[pmu_file]) THEN "valid" ELSE "failed")
          /\ UNCHANGED disk

CreateFromScratch == /\ screen = "start"
                     /\ screen' = "event"
                     /\ creating' = TRUE
                     /\ UNCHANGED <<pmu_file, edited, events, delete_list, disk>>

\* get_config for a built-in list.
ModifyBuiltIn == /\ screen = "start"
                 /\ screen' = "action"
                 /\ edited' \in BuiltIn
                 /\ UNCHANGED <<pmu_file, creating, events, delete_list, disk>>

\* get_config for the file of -p.
ModifyProvided == /\ screen = "start"
                  /\ IF pmu_file # Unnamed /\ WellFormed(disk[pmu_file])
                     THEN /\ screen' = "action"
                          /\ edited' = disk[pmu_file]
                          /\ UNCHANGED <<pmu_file, creating, events, delete_list>>
                     ELSE Leave("failed")
                  /\ UNCHANGED disk

-----------------------------------------------------------------------------
\* add_events.

ChooseAdd == /\ screen = "action" /\ Len(edited) < MaxEvents
             /\ screen' = "event"
             /\ UNCHANGED <<locals, disk>>

\* Mutant: the names entered since are not taken.
EventNames_Existing == NamesIn(edited)

\* Names that are taken.
EventNames == NamesIn(edited) \cup NamesIn(events)

\* A name, counters and a scale that the validators let pass.
EnterEvent(e) == /\ screen = "event"
                 /\ e.name \notin EventNames
                 /\ e.nrs > 0 /\ e.drs > 0 /\ e.scale # 0
                 /\ events' = Append(events, e)
                 /\ screen' = "more events"
                 /\ UNCHANGED <<pmu_file, creating, edited, delete_list, disk>>

MoreEvents == /\ screen = "more events" /\ Len(edited \o events) < MaxEvents
              /\ screen' = "event"
              /\ UNCHANGED <<locals, disk>>

\* A file is created, and written unless that fails.
Written(f, list) ==
    \/ Leave("written") /\ disk' = [disk EXCEPT ![f] = list]
    \/ Leave("failed") /\ disk' = [disk EXCEPT ![f] = Broken]

\* The end of add_events, with which a new list is complete.
NoMoreEvents == /\ screen = "more events"
                /\ IF creating
                   THEN Written(IF pmu_file = Unnamed THEN "custom" ELSE pmu_file, events)
                   ELSE /\ screen' = "action"
                        /\ edited' = edited \o events
                        /\ events' = <<>>
                        /\ UNCHANGED <<pmu_file, creating, delete_list, disk>>

-----------------------------------------------------------------------------
\* delete_events.

\* Events are selected one by one, also those that have the same name; their
\* names come in the order of the list.
Select(places) == /\ \A i, j \in DOMAIN places : i < j => places[i] < places[j]
                  /\ delete_list' = [i \in DOMAIN places |-> edited[places[i]].name]
                  /\ screen' = "delete"

ChooseDelete == /\ screen \in {"action", "remove more"}
                /\ IF edited = <<>>
                   THEN screen' = "action" /\ UNCHANGED delete_list
                   ELSE \E n \in DOMAIN edited :
                            \E places \in [1..n -> DOMAIN edited] : Select(places)
                /\ UNCHANGED <<pmu_file, creating, edited, events, disk>>

\* The first event with that name.
Position(name) == CHOOSE i \in DOMAIN edited :
                    /\ edited[i].name = name
                    /\ \A j \in 1..(i - 1) : edited[j].name # name

\* Mutant: all events with that name go.
Removed_All(name) == SelectSeq(edited, LAMBDA e : e.name # name)

Removed(name) == RemoveAt(edited, Position(name))

Confirm(yes) == /\ screen = "delete"
                /\ Head(delete_list) \in NamesIn(edited)
                /\ edited' = IF yes THEN Removed(Head(delete_list)) ELSE edited
                /\ delete_list' = Tail(delete_list)
                /\ screen' = IF Len(delete_list) = 1 THEN "remove more" ELSE "delete"
                /\ UNCHANGED <<pmu_file, creating, events, disk>>

RemoveNoMore == /\ screen = "remove more"
                /\ screen' = "action"
                /\ UNCHANGED <<locals, disk>>

-----------------------------------------------------------------------------
ChooseDone == /\ screen = "action"
              /\ Written("modified", edited)

\* A prompt is cancelled.
Cancel == /\ screen \notin Finished
          /\ Leave("failed")
          /\ UNCHANGED disk

DialogueNext == \/ Verify \/ CreateFromScratch \/ ModifyBuiltIn \/ ModifyProvided
                \/ ChooseAdd \/ (\E e \in Typed : EnterEvent(e)) \/ MoreEvents \/ NoMoreEvents
                \/ ChooseDelete \/ (\E yes \in BOOLEAN : Confirm(yes)) \/ RemoveNoMore
                \/ ChooseDone
                \/ Cancel

DialogueSpec == DialogueInit /\ [][DialogueNext]_dialogue

-----------------------------------------------------------------------------
\* Properties.

\* No event is added with a name that another one has.
AddedNamesNew ==
    /\ \A i \in DOMAIN events : events[i].name \notin NamesIn(edited)
    /\ \A i, j \in DOMAIN events : events[i].name = events[j].name => i = j

\* delete_events looks up by name what was selected by place, and unwraps what
\* it finds: it finds something for every name, however many events share it
\* and whatever has been confirmed before.
DeleteFinds ==
    \A n \in NamesIn(edited) \cup {delete_list[i] : i \in DOMAIN delete_list} :
        Cardinality({i \in DOMAIN delete_list : delete_list[i] = n})
            <= Cardinality({i \in DOMAIN edited : edited[i].name = n})
=============================================================================
