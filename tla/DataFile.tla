------------------------------ MODULE DataFile ------------------------------
(***************************************************************************)
(* The way of one kind of data from the machine to the report, for the     *)
(* data that is shown as it was read and for interrupts, up to where their *)
(* differences are taken (CounterSeries has the differences).  A sample is *)
(* written to its file field by field, without a buffer, and aperf may be  *)
(* killed between any two of them.  The report reads the file as far as    *)
(* there are whole records, processes them, and asks for the keys and then *)
(* for the values of each key.  This is the generic part, visualizer.rs    *)
(* and data.rs, with each of meminfodata.rs, interrupts.rs, aperf_stats.rs,*)
(* sysctldata.rs and systeminfo.rs.                                        *)
(***************************************************************************)
EXTENDS Integers, Sequences, FiniteSetsExt, Functions

CONSTANTS MemKeys,      \* the keys of meminfo
          OptionalKeys, \* those that not every kernel prints
          CountedKeys,  \* those that are not in kB
          Kilo,         \* 1024
          CpuNumbers,   \* the numbers CPUs may have
          IrqLines,     \* interrupt lines with a count per CPU
          TotalLine,    \* an interrupt line that has one count: ERR, MIS
          Collectors,   \* collectors whose time is measured; no name contains another
          WholeRound,        \* the name of the time of a whole round, "aperf"
          Settings,     \* names of sysctl settings
          NotCollected, \* those that are secret, rss_key
          HostKeys,     \* what the operating system says of the machine
          InstanceKeys, \* what the instance metadata service says
          Hidden,       \* those of them that are not shown
          Unknown,      \* "N/A"
          Top,          \* bound on numbers the kernel prints, and on durations
          MaxTaken,     \* bound on the samples of a recording
          Fields        \* how many writes a record takes

ASSUME FileValues == /\ OptionalKeys \cup CountedKeys \subseteq MemKeys
                     /\ Kilo \in Nat \ {0} /\ Top \in Nat
                     /\ CpuNumbers \subseteq Nat /\ IsFiniteSet(CpuNumbers)
                     /\ TotalLine \notin IrqLines /\ WholeRound \notin Collectors
                     /\ NotCollected \subseteq Settings
                     /\ Hidden \subseteq InstanceKeys /\ HostKeys \cap InstanceKeys = {}
                     /\ MaxTaken \in Nat /\ Fields \in Nat \ {0}

VARIABLES data,       \* the kind of data
          step,       \* what is being done with it
          taken,      \* history: the samples taken
          completed,  \* history: how many of them have been written
          cells,      \* the file: of each field the sample it is of
          values,     \* run_values: the records read and processed
          answers     \* what was answered for each key asked for

fileVars == <<data, step, taken, completed, cells, values, answers>>

Numbers == 0..Top
Measured == (Collectors \X {"collect", "print"}) \cup {<<WholeRound, "collect">>}

\* What there is to be read: /proc/meminfo.
MemSamples == UNION {[MemKeys \ S -> Numbers] : S \in SUBSET OptionalKeys}

\* Numbers in their order.
Ascending(S) == [n \in 1..Cardinality(S) |->
                    CHOOSE x \in S : Cardinality({y \in S : y <= x}) = n]

\* /proc/interrupts has a column for each CPU that is online, in the order of
\* their numbers; lines come and go.
IrqSamples == UNION {[header : {Ascending(C)},
                      columns : UNION {[L -> [1..Cardinality(C) -> Numbers]] :
                                           L \in SUBSET IrqLines},
                      total : Numbers] : C \in (SUBSET CpuNumbers) \ {{}}}

\* How long each collector took in a round, and the round.
StatSamples == [Measured -> Numbers]

\* The settings whose flags and value can be read.
SettingSamples == UNION {[S -> Numbers] : S \in SUBSET Settings}

\* The answers of the metadata service, some of which may be missing.
SystemSamples == UNION {[HostKeys \cup S -> Numbers] : S \in SUBSET InstanceKeys}

Samples == CASE data = "meminfo"    -> MemSamples
             [] data = "interrupts" -> IrqSamples
             [] data = "stats"      -> StatSamples
             [] data = "settings"   -> SettingSamples
             [] data = "system"     -> SystemSamples

\* Static data is collected once.
MostSamples == IF data \in {"settings", "system"} THEN 1 ELSE MaxTaken

FileInit == /\ data \in {"meminfo", "interrupts", "stats", "settings", "system"}
            /\ step = "record"
            /\ taken = <<>>
            /\ completed = 0
            /\ cells = <<>>
            /\ values = <<>>
            /\ answers = [k \in {} |-> <<>>]

-----------------------------------------------------------------------------
\* The recording.

Written == Len(cells) = Len(taken) * Fields

\* collect_data.
Take == /\ step = "record" /\ Written
        /\ Len(taken) < MostSamples
        /\ \E s \in Samples : taken' = Append(taken, s)
        /\ UNCHANGED <<data, step, completed, cells, values, answers>>

\* One write of write_to_file.
WriteField == /\ step = "record" /\ ~Written
              /\ cells' = Append(cells, Len(taken))
              /\ completed' = IF Len(cells') = Len(taken) * Fields THEN completed + 1
                              ELSE completed
              /\ UNCHANGED <<data, step, taken, values, answers>>

\* The recording is over; or aperf is killed, or a write fails, in the middle
\* of a record, and the directory is what there is to report on.
Over == /\ step = "record"
        /\ step' = "read"
        /\ UNCHANGED <<data, taken, completed, cells, values, answers>>

-----------------------------------------------------------------------------
\* The report.

\* The records that can be read before the end of the file is met within one.
Readable == Len(cells) \div Fields

\* A secret setting is not collected.
Collectable(s) == [k \in DOMAIN s \ NotCollected |-> s[k]]

\* The metadata of the instance is given up when any of it cannot be had.
Identified(s) == [k \in HostKeys \cup InstanceKeys |->
                    IF k \in HostKeys \/ InstanceKeys \subseteq DOMAIN s THEN s[k] ELSE Unknown]

\* What the record i holds, which is known when its last field has been written.
Raw(i) == LET s == taken[cells[i * Fields]]
          IN CASE data = "settings" -> Collectable(s)
               [] data = "system"   -> Identified(s)
               [] OTHER             -> s

\* Mutant: the number of a column is taken for the number of its CPU.
CpuOfColumn_Place(s, i) == i - 1

\* The CPU of a column, from the header.
CpuOfColumn(s, i) == s.header[i]

\* A line per CPU; the line with one count is filed as of CPU 0.
Lines(s) == [l \in DOMAIN s.columns \cup {TotalLine} |->
                IF l = TotalLine THEN {<<0, s.total>>}
                ELSE {<<CpuOfColumn(s, i), s.columns[l][i]>> : i \in 1..Len(s.header)}]

\* What the kernel does not print is 0; what it prints in kB is kept in bytes.
InBytes(s) == [k \in MemKeys |-> IF k \notin DOMAIN s THEN 0
                                ELSE IF k \in CountedKeys THEN s[k] ELSE s[k] * Kilo]

\* process_raw_data, of each kind.
Processed(s) == CASE data = "meminfo"    -> InBytes(s)
                  [] data = "interrupts" -> Lines(s)
                  [] OTHER               -> s

Read == /\ step = "read"
        /\ values' = [i \in 1..Readable |-> Processed(Raw(i))]
        /\ step' = "ask"
        /\ UNCHANGED <<data, taken, completed, cells, answers>>

\* The keys of meminfo, whatever was read.
MemOffered == MemKeys

\* The lines of the first record.
IrqOffered == DOMAIN values[1]

\* The round, and the collectors of the first record.
StatOffered == {WholeRound} \cup {m[1] : m \in DOMAIN values[1]}

Offered == CASE data = "meminfo"    -> MemOffered
             [] data = "interrupts" -> IrqOffered
             [] data = "stats"      -> StatOffered
             [] OTHER               -> {"values"}

MemValues(k) == [i \in 1..Len(values) |-> values[i][k] \div Kilo]

\* What the records hold under k, those that have it, in their order.
Held(k) == LET has == Ascending({i \in DOMAIN values : k \in DOMAIN values[i]})
           IN [n \in DOMAIN has |-> values[has[n]][k]]

IrqValues(k) == Held(k)

\* The times of collector k of the kind "collect" or "print", one after the other.
Times(k, kind) == Held(<<k, kind>>)

SettingValues == values[1]

SystemValues == [k \in (HostKeys \cup InstanceKeys) \ Hidden |-> values[1][k]]

\* get_data: the values of a key.
Answer(k) == CASE data = "meminfo"    -> MemValues(k)
               [] data = "interrupts" -> IrqValues(k)
               [] data = "stats"      -> [collect |-> Times(k, "collect"),
                                          print |-> Times(k, "print")]
               [] data = "settings"   -> SettingValues
               [] data = "system"     -> SystemValues

\* Mutant: a recording without a record is asked for its keys as well.
SomeValues_Always == TRUE

\* "No data collected" is answered when there is no record.
SomeValues == values # <<>>

\* A key is asked for; the first record is looked at, whether there is one or not.
Ask == /\ step = "ask" /\ SomeValues
       /\ step' = IF values = <<>> THEN "panicked" ELSE step
       /\ answers' \in IF values = <<>> THEN {answers}
                       ELSE {[j \in DOMAIN answers \cup {k} |->
                                IF j = k THEN Answer(k) ELSE answers[j]] :
                             k \in Offered \ DOMAIN answers}
       /\ UNCHANGED <<data, taken, completed, cells, values>>

Shown == /\ step = "ask"
         /\ SomeValues => values # <<>> /\ DOMAIN answers = Offered
         /\ step' = "shown"
         /\ UNCHANGED <<data, taken, completed, cells, values, answers>>

-----------------------------------------------------------------------------
FileTerminated == step \in {"shown", "panicked"} /\ UNCHANGED fileVars

FileNext == Take \/ WriteField \/ Over \/ Read \/ Ask \/ Shown \/ FileTerminated

FileSpec == FileInit /\ [][FileNext]_fileVars

-----------------------------------------------------------------------------
\* Properties.

\* Wherever the recording was cut off, the report has every sample that had been
\* written and nothing of the one that had not, and it gets to its end.
WrittenIsRead == /\ step \in {"ask", "shown"} => Len(values) = completed
                 /\ step # "panicked"

\* The count that the kernel printed for CPU c, among the CPUs online then.
Printed(s, l, c) == s.columns[l][Cardinality({d \in Range(s.header) : d <= c})]

\* What is plotted of a key is, point by point, what was read for it: the number
\* the kernel printed, if in kB; the count of each CPU under its own number,
\* with any CPUs offline between; the times of one collector, none of them lost;
\* each setting but the secret ones; all that is known of the instance or none.
\* (Keys that are counted come out divided by 1024.)
PlottedAsRead ==
    \A k \in DOMAIN answers :
        CASE data = "meminfo" ->
                k \notin CountedKeys =>
                    answers[k] = [i \in 1..completed |->
                                    IF k \in DOMAIN taken[i] THEN taken[i][k] ELSE 0]
          [] data = "interrupts" ->
                LET has == Ascending({i \in 1..completed :
                                          k = TotalLine \/ k \in DOMAIN taken[i].columns})
                IN /\ DOMAIN answers[k] = DOMAIN has
                   /\ k # TotalLine => \A n \in DOMAIN has :
                        LET s == taken[has[n]]
                        IN answers[k][n] = {<<c, Printed(s, k, c)>> : c \in Range(s.header)}
          [] data = "stats" ->
                /\ answers[k].collect = [i \in 1..completed |-> taken[i][<<k, "collect">>]]
                /\ k # WholeRound =>
                     answers[k].print = [i \in 1..completed |-> taken[i][<<k, "print">>]]
          [] data = "settings" ->
                answers[k] = [j \in DOMAIN taken[1] \ NotCollected |-> taken[1][j]]
          [] data = "system" ->
                /\ \A j \in HostKeys : answers[k][j] = taken[1][j]
                /\ \/ \A j \in InstanceKeys \ Hidden : answers[k][j] = Unknown
                   \/ /\ InstanceKeys \subseteq DOMAIN taken[1]
                      /\ \A j \in InstanceKeys \ Hidden : answers[k][j] = taken[1][j]
=============================================================================
