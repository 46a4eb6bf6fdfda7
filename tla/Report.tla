------------------------------- MODULE Report -------------------------------
(***************************************************************************)
(* aperf report (report.rs) with the visualizers it drives (lib.rs,        *)
(* visualizer.rs): recordings are found under the arguments, which may be  *)
(* recordings or earlier reports, their archives are copied into the new   *)
(* report, and each visualizer reads its file of each run in turn.  One    *)
(* visualizer object serves all runs, so it holds the place of one run at  *)
(* a time and keeps values by the name of the run.                         *)
(***************************************************************************)
EXTENDS Integers, Sequences, FiniteSets

CONSTANTS Places,     \* directories or archives of recordings
          Names,      \* names of runs
          NameOf,     \* the run name a place has
          Reports,    \* directories of earlier reports
          Inside,     \* the recordings whose archives a report holds
          Visualizers,
          Flamegraph, \* the visualizer that writes a file of its own
          Profiled,   \* recordings that hold a flamegraph
          Contents,   \* the visualizers a recording may have files and data for
          MaxArgs,    \* bound on the arguments of -r
          Junk,       \* an argument that is neither
          Nothing,    \* no place, no value
          Empty,      \* an archive that has been truncated; no values
          NoData,     \* "No data collected"
          New,        \* a report directory that does not exist yet
          Unnamed     \* no -n

Paths == Places \cup Reports \cup {Junk}
Targets == Reports \cup {New}

ASSUME Layout == /\ NameOf \in [Places -> Names]
                 /\ Inside \in [Reports -> (SUBSET Places) \ {{}}]
                 /\ \A r \in Reports : IsFiniteSet(Inside[r])
                 /\ \A r \in Reports : \A p, q \in Inside[r] :
                        NameOf[p] = NameOf[q] => p = q
                 /\ Flamegraph \in Visualizers
                 /\ Profiled \subseteq Places
                 /\ Contents \subseteq {c \in [file : SUBSET Visualizers,
                                          data : SUBSET Visualizers] : c.data \subseteq c.file}
                 /\ MaxArgs \in Nat \ {0}
                 /\ New \notin Reports

ASSUME Distinct == /\ Places \cap Reports = {} /\ Nothing \notin Targets
                   /\ {Nothing, Empty, NoData} \cap Places = {}
                   /\ Nothing # Empty /\ Nothing # NoData /\ Empty # NoData
                   /\ Unnamed \notin Targets
                   /\ Junk \notin Places \cup Reports

VARIABLES args,           \* the arguments of -r
          name,           \* the argument of -n
          files,          \* the visualizers each recording has a file, and data, for
          phase,          \* where the report is, or how it ended
          next,           \* index of the argument, or of the recording, to be visited
          data_dirs,      \* the recordings found, and the report each came from
          archives,       \* the archives in the report directories
          svgs,           \* names of runs with a flamegraph in those directories
          written,        \* report directories this report has written to
          source,         \* DataVisualizer.file_handle and report_params
          offset,         \* whether that file has been read
          data_available, \* DataVisualizer.data_available
          run_values,     \* DataVisualizer.run_values
          shown           \* what the report says for each visualizer and run

disk == <<archives, svgs, written>>
visualizers == <<source, offset, data_available, run_values>>
vars == <<args, name, files, phase, next, data_dirs, disk, visualizers, shown>>

\* Where the report goes.
Target == IF name = Unnamed THEN New ELSE name

\* The flamegraph visualizer finds a file in each recording: init_collectors
\* creates it even when no profile is asked for.
Init == /\ args \in UNION {[1..n -> Paths] : n \in 1..MaxArgs}
        /\ name \in Targets \cup {Unnamed}
        /\ files \in [Places -> Contents]
        /\ \A r \in Reports : \A p \in Inside[r] : files[p].file # {}
        /\ phase = "args"
        /\ next = 1
        /\ data_dirs = <<>>
        /\ archives = [r \in Targets |-> [n \in Names |->
                IF r = New THEN Nothing
                ELSE LET here == {p \in Inside[r] : NameOf[p] = n}
                     IN IF here = {} THEN Nothing ELSE CHOOSE p \in here : TRUE]]
        /\ svgs = [r \in Targets |->
                IF r = New THEN {}
                ELSE {NameOf[p] : p \in {q \in Inside[r] : Flamegraph \in files[q].file}}]
        /\ written = {}
        /\ source = [v \in Visualizers |-> Nothing]
        /\ offset = [v \in Visualizers |-> "end"]
        /\ data_available = [v \in Visualizers |-> [n \in Names |-> FALSE]]
        /\ run_values = [v \in Visualizers |-> [n \in Names |-> Nothing]]
        /\ shown = [v \in Visualizers |-> [n \in Names |-> Nothing]]

Ended == {"done", "refused", "failed"}

Goto(p) == phase' = p

-----------------------------------------------------------------------------
\* The recordings behind the arguments.

\* A recording, itself or unpacked: get_dir.
Recording(p) == <<[place |-> p, from |-> Nothing]>>

\* The archives of a report, in the order read_dir lists them.
Archived(r) ==
    {order \in [1..Cardinality(Inside[r]) -> [place : Inside[r], from : {r}]] :
        \A i, j \in DOMAIN order : i # j => order[i] # order[j]}

\* An argument that is a report needs -n; one that is nothing known fails.
TakeArg ==
    /\ phase = "args" /\ next <= Len(args)
    /\ next' = next + 1
    /\ LET arg == args[next]
       IN \/ /\ arg \in Places
             /\ data_dirs' = data_dirs \o Recording(arg)
             /\ UNCHANGED phase
          \/ /\ arg \in Reports /\ name # Unnamed
             /\ \E order \in Archived(arg) : data_dirs' = data_dirs \o order
             /\ UNCHANGED phase
          \/ /\ arg = Junk \/ (arg \in Reports /\ name = Unnamed)
             /\ Goto("failed")
             /\ UNCHANGED data_dirs
    /\ UNCHANGED <<args, name, files, disk, visualizers, shown>>

NameAt(i) == NameOf[data_dirs[i].place]
PlaceAt(i) == data_dirs[i].place

\* Mutant: only neighbours are compared.
Duplicate_Neighbours == \E i \in 1..(Len(data_dirs) - 1) : NameAt(i) = NameAt(i + 1)

\* Two runs would have the same name.
Duplicate == \E i, j \in 1..Len(data_dirs) : i # j /\ NameAt(i) = NameAt(j)

\* The names are taken; one that is taken twice ends the report, with success.
TakeNames == /\ phase = "args" /\ next = Len(args) + 1
             /\ IF Duplicate
                THEN Goto("refused") /\ UNCHANGED <<next, written>>
                ELSE /\ Goto("copy")
                     /\ next' = 1
                     /\ written' = {Target}
             /\ UNCHANGED <<args, name, files, data_dirs, archives, svgs, visualizers, shown>>

\* Mutant: an archive that the report holds under that name is not written over.
Stored_Kept(d) == LET held == archives[Target][NameOf[d.place]]
                  IN IF held # Nothing THEN held ELSE d.place

\* What form_and_copy_archive leaves in the report: the archive of a recording,
\* or a copy of an archive; a copy of a file to itself truncates it first.
Stored(d) == CASE d.from = Nothing -> d.place
               [] d.from = Target  -> Empty
               [] OTHER            -> archives[d.from][NameOf[d.place]]

CopyArchive == /\ phase = "copy" /\ next <= Len(data_dirs)
               /\ LET d == data_dirs[next]
                  IN archives' = [archives EXCEPT ![Target][NameOf[d.place]] = Stored(d)]
               /\ next' = next + 1
               /\ UNCHANGED <<args, name, files, phase, data_dirs, svgs, written,
                              visualizers, shown>>

CopyOver == /\ phase = "copy" /\ next = Len(data_dirs) + 1
            /\ next' = 1
            /\ Goto("init")
            /\ UNCHANGED <<args, name, files, data_dirs, disk, visualizers, shown>>

-----------------------------------------------------------------------------
\* init_visualizers and unpack_data, one run after the other.

\* Mutant: the parameters a visualizer got for its first run are kept.
Turned_Once(v, p) == IF source[v] = Nothing THEN p ELSE source[v]

\* The recording a visualizer turns to when it finds its file there.
Turned(v, p) == p

\* Every visualizer looks for its file.  One that finds it turns to this run;
\* one that does not stays as it is and notes that the run has no data.
InitVisualizers ==
    /\ phase = "init"
    /\ LET p == PlaceAt(next)
           n == NameOf[p]
           found == files[p].file
       IN /\ source' = [v \in Visualizers |-> IF v \in found THEN Turned(v, p) ELSE source[v]]
          /\ offset' = [v \in Visualizers |-> IF v \in found THEN "start" ELSE offset[v]]
          /\ data_available' = [v \in Visualizers |->
                                  [data_available[v] EXCEPT ![n] = v \in found]]
          /\ run_values' = [v \in Visualizers |->
                IF v \in found THEN [run_values[v] EXCEPT ![n] = Empty] ELSE run_values[v]]
          /\ Goto(IF found = {} THEN "failed" ELSE "unpack")
    /\ UNCHANGED <<args, name, files, next, data_dirs, disk, shown>>

\* The visualizer has found a file of the run.
Unpacks(v, n) == data_available[v][n]

\* What is read: the rest of the file, or whatever the custom parser finds in
\* the directory the visualizer has turned to.
ValuesRead(v) ==
    IF v = Flamegraph \/ (offset[v] = "start" /\ v \in files[source[v]].data)
    THEN source[v]
    ELSE Empty

\* The flamegraph's parser copies the recording's flamegraph, or else creates
\* a file that says there is none, which fails when the file is there.
FileInTheWay(n) == /\ Unpacks(Flamegraph, n)
                   /\ source[Flamegraph] \notin Profiled
                   /\ n \in svgs[Target]

UnpackData ==
    /\ phase = "unpack"
    /\ LET n == NameAt(next)
       IN IF FileInTheWay(n)
          THEN Goto("failed") /\ UNCHANGED <<next, svgs, offset, run_values>>
          ELSE /\ run_values' = [v \in Visualizers |->
                    IF Unpacks(v, n) THEN [run_values[v] EXCEPT ![n] = ValuesRead(v)]
                                     ELSE run_values[v]]
               /\ offset' = [v \in Visualizers |->
                    IF Unpacks(v, n) THEN "end" ELSE offset[v]]
               /\ svgs' = [svgs EXCEPT ![Target] =
                    IF Unpacks(Flamegraph, n) THEN @ \cup {n} ELSE @]
               /\ next' = next + 1
               /\ Goto(IF next = Len(data_dirs) THEN "show" ELSE "init")
    /\ UNCHANGED <<args, name, files, data_dirs, archives, written, source,
                   data_available, shown>>

-----------------------------------------------------------------------------
\* The pages, and the report's own archive.

\* DataVisualizer.get_data.
Answer(v, n) == IF ~data_available[v][n] \/ run_values[v][n] = Empty
                THEN NoData
                ELSE run_values[v][n]

Show == /\ phase = "show"
        /\ shown' = [v \in Visualizers |-> [n \in Names |->
                IF \E i \in 1..Len(data_dirs) : NameAt(i) = n THEN Answer(v, n)
                                                              ELSE Nothing]]
        /\ Goto("done")
        /\ UNCHANGED <<args, name, files, next, data_dirs, disk, visualizers>>

\* A file cannot be read or written, or a value cannot be parsed or shown.
Fail == /\ phase \notin Ended
        /\ Goto("failed")
        /\ UNCHANGED <<args, name, files, next, data_dirs, disk, visualizers, shown>>

Terminated == phase \in Ended /\ UNCHANGED vars

Next == \/ TakeArg \/ TakeNames
        \/ CopyArchive \/ CopyOver
        \/ InitVisualizers \/ UnpackData
        \/ Show
        \/ Fail \/ Terminated

Spec == Init /\ [][Next]_vars

-----------------------------------------------------------------------------
\* Properties.

\* The kinds of value the program keeps.
TypeOK == /\ args \in Seq(Paths)
          /\ name \in Targets \cup {Unnamed}
          /\ files \in [Places -> Contents]
          /\ phase \in {"args", "copy", "init", "unpack", "show"} \cup Ended
          /\ next \in Nat \ {0}
          /\ data_dirs \in Seq([place : Places, from : Reports \cup {Nothing}])
          /\ archives \in [Targets -> [Names -> Places \cup {Nothing, Empty}]]
          /\ svgs \in [Targets -> SUBSET Names]
          /\ written \subseteq Targets
          /\ source \in [Visualizers -> Places \cup {Nothing}]
          /\ offset \in [Visualizers -> {"start", "end"}]
          /\ data_available \in [Visualizers -> [Names -> BOOLEAN]]
          /\ run_values \in [Visualizers -> [Names -> Places \cup {Nothing, Empty}]]
          /\ shown \in [Visualizers -> [Names -> Places \cup {Nothing, NoData}]]

\* The runs of a report are kept apart though one visualizer reads them all:
\* under each name the report shows that run's data, or that it has none.
RunsKeptApart ==
    phase = "done" => \A i \in 1..Len(data_dirs), v \in Visualizers :
        shown[v][NameAt(i)] =
            IF \/ v \in files[PlaceAt(i)].data
               \/ v = Flamegraph /\ v \in files[PlaceAt(i)].file
            THEN PlaceAt(i) ELSE NoData

\* No two recordings share a name in a report, and when two would, not even
\* the directory of a report is made.
NamesUnique ==
    /\ phase = "refused" => written = {}
    /\ written # {} => \A i, j \in 1..Len(data_dirs) : NameAt(i) = NameAt(j) => i = j

\* "Generate/copy the archives of the collected data into aperf_report"
\* (report.rs:212): once copied, the archive of each run holds that run's data,
\* in a new report and in one that was there, and a new report has no other, so
\* that a report made of this one finds the same runs.  Only an archive that
\* comes from the very report that is written is not copied: it is truncated.
ArchivesCopied ==
    phase \in {"init", "unpack", "show", "done"} =>
        /\ \A i \in 1..Len(data_dirs) :
                data_dirs[i].from # Target => archives[Target][NameAt(i)] = PlaceAt(i)
        /\ Target = New => \A n \in Names :
                archives[New][n] # Nothing => \E i \in 1..Len(data_dirs) : NameAt(i) = n
=============================================================================
