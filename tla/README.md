# Verification of aperf

aperf records performance data of a Linux machine (`aperf record`), makes an HTML
report of one or more recordings (`aperf report`) and helps to write the list of PMU
events to record (`aperf custom-pmu`). These TLA+ modules model the program from its
source (paths below are relative to the repository; `lib.rs` is `src/lib.rs` there),
TLC checks them on small instances, and TLAPS proves the central properties for every
value of the constants. `PROJECT.json` maps each definition to the lines it models.

## 1. Inventory

| Component | State | Operations | Hard behaviour | What makes it correct |
|---|---|---|---|---|
| Collection loop (`lib.rs:265-352`) | own clock `current`, timerfd, signalfd, start time | poll, read the timer, take a round, read the signal | slow collectors miss expirations; a signal arrives in a round or with the timer; clock and loop interleave | the loop's clock is exact, one sample per slot at most, the period is covered, signals are noticed, it ends |
| Recorder (`lib.rs`, `record.rs`, `data.rs`, `bin/aperf.rs`) | collectors in a `HashMap`, their files, child processes, directory, archive, temporary directory | create, prepare, exclude, static data, round, finish, post-process, archive, clean up | any order of visits, failures at each visit, child processes, kills, an archive cut off while it is made | the archive of a normal end has whole rounds of everything asked for, one of a failure nothing else, and nothing writes while it is made |
| perf profile, flamegraphs (`data/perf_profile.rs`, `data/flamegraphs.rs`) | the child `perf record`, the file it shares with the collector, `top_functions` | launch, signal, wait, `perf report`, `perf script`, inferno; show | waiting for a child; one file with two writers, each at its own offset | launched as asked, reaped before the archive, the functions shown are of all that was recorded |
| Java profiler (`data/java_profile.rs`) | process map, stack of `asprof` children | pgrep, jps, launch, finish, copy the profiles | JVMs come and go between any two looks; a copy may fail | one profiler per JVM, time left is positive, a failed copy loses no other profile |
| PMU counters (`data/perf_stat.rs`) | a group of counters per CPU and event | open, enable, read, reset; quotients in the report | hardware counts meanwhile; a group fails to open; offline CPUs | nothing counted twice, quotients true, every event shown |
| custom-pmu (`pmu.rs`) | list of events, what is added or selected, files | verify, create, add, delete, cancel | a long dialogue, cancelled at any prompt | names stay unique, what is deleted is found |
| Counter collectors (`cpu_utilization`, `diskstats`, `interrupts`, `processes`, `netstat`, `vmstat`) | the previous sample, series, limits | one difference per sample | counters restart, devices, CPUs and processes appear and disappear | series add up, nothing wraps, limits hold |
| Report (`report.rs`, `visualizer.rs`, `lib.rs:418-650`) | runs found, report directories, one visualizer per kind of data | find, copy archives, read, show | equal names, reports of reports, missing or empty files, a visualizer that serves all runs | each run shows its own data; a report can be reported on |
| Front-end (`html_files/*.ts`) | the tabs and what each was drawn for, shared limits, selected CPUs, callbacks put off | open a tab, press a radio button, select CPUs, draw | callbacks run after other tabs have been opened; runs that lack data | graphs complete and comparable, differences right, selection shown, findings about the run they name |
| Plain data: `meminfodata`, `sysctldata`, `systeminfo`, `aperf_stats`, the columns of `interrupts`; `visualizer.rs`, `data.rs` | the samples in a file, the records read, what is asked for key by key | collect, write field by field, read, process, answer | killed in the middle of a record; keys, lines and CPUs that are missing from some samples | every record written is read, no other is, and each point is what was read for its key |
| Kernel configuration (`data/kernel_config.rs`) | the tree of groups, the comment lines read last | read a line: comment, blank, setting, end of a menu | only names and the order of lines tell where a group ends; names repeat | no setting is lost, groups nest as menus do |
| EKS script (`eks-aperf.sh`) | the place in the script, `/tmp/allpods.out`, the pod of a fixed name, the report copied | check, list, apply, wait, poll the log, copy, delete; each may fail and end the script | pods left by interrupted runs, pods that fail or go while they are polled | a run copies the report of its own options and says so only if it did; polling ends |

The parts interact as follows. `record()` creates the Recorder's state, runs the loop
and cleans up; the loop calls every collector in each round; profilers run as
processes of their own. What passes from a recording to a report is its archive or its
directory (`report.rs:107-110`), and nothing else. custom-pmu passes a file to the PMU collector. The report passes data files to the
front-end, which shares two tables (`key_limits`, `run_config`) between its tabs. The EKS
script runs `aperf record` and `aperf report` in a pod and sees nothing of them but a line
of the pod's log.

The hazards of this code, at their lines, with the properties that watch them, are the
"hazards" of `PROJECT.json`.

## 2. Modules

| Module | Models | State and actions in the code |
|---|---|---|
| `Sampling` | promise of the loop: samples at later and later slots until one passes the period | abstract |
| `CollectLoop` | `collect_data_serial` | `pc` is the place in the loop body; `Poll`, `ReadTimer`/`SkipTimer`, `Collect`, `ReadSignal`/`SkipSignal` are its parts; `Tick` and `Arrive` are the kernel's clock, timer and signals; `consumed`, `slots`, `late` are history |
| `Recording` | promise of a recording: one archive of whole rounds; where it fails none, or part of one | abstract |
| `Recorder` | `record()`, the methods of `PerformanceData`, perf's and java's children, the clean-up of `main` | `phase` is the method that runs, `todo` the collectors its walk over the map has still to visit (any may be next); `CreateArchive`, `AddFile`, `SealArchive` are `create_data_archive` and the drop of the encoder at its end; `Exclude`, `ExitProcess`, `Fail` are the error paths; `Kill` and `ChildExits` come from outside |
| `JavaProfiler` | `java_profile.rs` | `process_map`, `jids`, `children` as in the code; `PgrepFirst`, `JpsFirst`, `Collect`, `JpsAgain`, `LaunchOne`, `Finish`, `Wait`, `CopyOne`, `CopyFails`; `Start`, `Stop`, `AsprofExits` are the machine |
| `CounterSeries` | the `get_values`/`get_entry`/`get_line_data`/`get_type` loops of six collectors, the gauge of disk requests in progress, and `update_limits` | Init is any recording a machine can make; each action processes one sample, or ends the report the way the code does |
| `CustomPmu` | `pmu.rs` | `screen` is the prompt; one action per answer; `disk` holds the files |
| `PerfCounters` | `perf_stat.rs` | `groups` in the order opened, `counts` what each has counted since its reset; `ReadGroup` and `ResetGroup` are two steps, `Tick` counts between any two |
| `PmuPipeline` | composes `CustomPmu` and `PerfCounters` | the dialogue, then a recording with any file it left, then the report |
| `Report` | `report()` and the visualizers | `phase` is the loop of `report()`, `next` its index; `source`, `offset`, `data_available`, `run_values` are the fields of the visualizers |
| `PerfProfile` | `perf_profile.rs` and the file it shares with `perf record` | `file` is a sequence of cells; `PerfOpens`, `PerfWrites`, `PerfEnds` write at perf's offsets, `Round` appends; `FinishRecording`, `CreateTop`, `PerfReport` are `finish_data_collection`; `Show` is a report |
| `KernelConfig` | `kernel_config.rs` | `ahead` is what has been written of the file and not read, `groups` is `kernel_data_processed`, each group with its entries and those of the groups in it in the order of the document, and each entry with the names of the groups it is in; `ReadComment` and `ReadLine` are the reader, the writer's actions are Kconfig's |
| `DataFile` | one kind of plain data from the machine to the graph | `cells` is the file, one cell per write of a record; `Take`, `WriteField`, `Over` record, `Read`, `Ask`, `Shown` report; each kind of data has its own operators for what is sampled, processed and answered |
| `DataTypes` | extends and composes `DataFile`, `KernelConfig` and `PerfProfile` | `variant` is the type the macros `data!` and `processed_data!` dispatch on |
| `EksScript` | `eks-aperf.sh` | `pc` is the command; the pod, its failures and its loss are actions of their own; `found` and `copied` are history |
| `FrontEnd` | the TypeScript of a report | one operator per handler, under its name; `pending` is the queue of `setTimeout(.., 0)`, first in first out; one action per outcome of a callback |
| `CollectLoopProofs`, `RecorderProofs`, `FrontEndProofs` | theorems about the module each is named for | - |
| `ReportProofs` | theorems about `Report` and `CounterSeries`: what a report shows | - |
| `ProfilerProofs` | theorems about `JavaProfiler` and `PerfProfile` | - |
| `PmuPipelineProofs` | theorems about `CustomPmu`, `PerfCounters` and their composition | - |
| `DeliveryProofs` | theorems about `EksScript`, `DataFile` and `KernelConfig`: what was recorded is what is delivered | - |
| `SumLemmas` | lemmas about sums, least elements, `Min` and sequences, for the proofs | - |
| `MC*` | values of constants for TLC | - |

Composition. `CollectLoop` and `Recorder` divide the loop between them: the first keeps
time and treats a round as one step, the second keeps the collectors and leaves it open
when a round starts and when the loop ends. Both describe `collect_data_serial`, so what
is proved of the first (when samples are taken) and of the second (what a sample does)
holds of the same steps. `PmuPipeline` puts one after the other: the files the
dialogue leaves, also half-way, are the input of the recording. `DataTypes` sets three
modules side by side, as the types of data are: a call goes to one type and leaves the
others alone. `Recorder` and `PerfProfile` share the child: the first has its place among
the other collectors, the second what it does to the file.

Operators named like another one with a suffix and marked "Mutant" are wrong variants of
the definition that follows them. They are used by nothing; each shows that a property
fails when the code has that mistake.

## 3. What TLC checks

| Run | Properties | States | Bounds, and why they suffice |
|---|---|---|---|
| `collect_loop` | `LoopClock`, `OneSamplePerSlot`, `PeriodCovered`, `OverrunBounded`, `SignalPrompt`, `ImplementsSampling`, `Termination` | 5,509 | Period 4, interval 2, clock to 8: the period's end is met with equality, a delay can miss two expirations, both signals can arrive anywhere |
| `recorder` | `SamplesUniform`, `DroppedStaysEmpty`, `QuietDirectory`, `ImplementsRecording`, `Termination` | 154,237 | one static and two sampled collectors, three profilers, every combination of options, two rounds: a collector can be ahead or behind by one, a file in the archive whole, cut short or missing |
| `java_profiler` | `AtMostOneProfiler`, `SpansPositive`, `ProfilesSurvive`, `FinishEnds` | 283,748 | three pids with two names, one of them invisible to pgrep and one to jps; samples before, at and after the end of the period; a copy can fail among others that do not |
| `report` | `RunsKeptApart`, `NamesUnique`, `ArchivesCopied` | 69,880 | three recordings, two of one name, an earlier report of two, all contents; two arguments can bring three recordings |
| `counter_series` | `TotalsKept`, `LimitsFit`, `TicksEarned`, `PercentagesFit`, `SeriesStable` | 715,193 | three samples (what is gone can come back), two of each thing that has counters, values to 3 modulo 4, so that differences wrap |
| `pmu_pipeline` | `AddedNamesNew`, `DeleteFinds`, `CountsKept`, `RatiosKept`, `EveryEventShown` | 731,451 | lists of two events, among them two of one name and one without denominators; CPUs of different rates, one set with a gap; two ticks, two samples |
| `front_end` | `GraphsComplete`, `ComparisonSound`, `SelectionShown` | 308,147 | reports of one, two and three runs that lack CPU data, keys or settings and share some; three clicks (two tabs and a return to the first), CPUs toggled any number of times between them |
| `data_types` | `SettingsKept`, `MenusNested`, `TopFunctionsWhole`, `WrittenIsRead`, `PlottedAsRead` | 232,658 | a configuration file of seven items (a menu in a menu, each with a setting, and a name used twice); three blocks of perf and three rounds, so that each writer can be ahead; two samples of two fields, cut off between any two writes, three CPUs of which any may be offline |
| `eks_script` | `RightReport`, `SuccessMeansCopied`, `PollEnds` | 2,464 | three runs: one that leaves a pod, one that meets it, one after it; two sets of options, so that a pod left can fit or not |

Types are proved, not checked (`LoopTypes`, `RecorderTypes`, `ProfilerTypes`,
`ReportTypes`, `ScriptTypes`, `ProfileTypes`). `MaxNow`, `MaxRounds`, `MaxElapsed`,
`MaxSamples`, `MaxTaken`, `MaxTicks`, `MaxCount`, `Top`, `MaxEvents`, `MaxArgs`, `MaxItems`,
`MaxBlocks`, `MaxRuns` and `MaxClicks` are bounds of the models; the program has none of
them. `data_types` uses that titles of menus are interchangeable (`SYMMETRY`; it checks
no liveness). `front_end` has `CHECK_DEADLOCK FALSE` since
it stops when the clicks are used up; in all other modules a state without a successor is
an error, and what may end has a stuttering `Terminated`.

The other three runs are expected to fail. Each checks what a text of the repository says:

- `perf_frequency` (`PerfAtRequestedFrequency`): `--perf-frequency` has no effect.
  `init_data_type` (`data.rs:119`) copies each parameter of the run but this one, so perf
  always runs at 99 Hz.
- `java_known` (`KnownIsProfiled`): "Profiles all JVMs if no args are provided"
  (`record.rs:28`). A JVM that starts between a sample's pgrep and its jps enters the map,
  not the list, and later samples skip it as known.
- `findings` (`FindingsOfTheirRun`): the cache-miss findings read `this_run_data`
  (`perf_stat.ts:21`, `:39`, `:57`), which holds the run compared last, or nothing when
  there is one run, and name the run of `base_run`.

## 4. Fairness

Safety needs none. The temporal properties use:

- `CollectLoop`: weak fairness of `Tick` and of the loop's own steps. Time passes, and the
  process is scheduled whenever it can run. Nothing is assumed of signals, of errors or of
  how long a collector takes, except that the bound of the clock leaves room for one
  interval after the period (`ClockBound`).
- `Recorder`: weak fairness of aperf's steps and of each child's exit. perf runs `sleep`
  for the period and asprof is given `-d`, so neither runs for ever. Failures, kills and
  exclusions are not fair. The loop's own end is `CollectLoop`'s matter; here the bound on
  rounds makes it end.
- `JavaProfiler`: weak fairness of aperf's steps and of each asprof's exit, as above. It is
  used for `FinishEnds`; nothing is assumed of JVMs.
- `EksScript`: weak fairness of the script's commands, which return (kubectl has timeouts
  of its own), and of the pod going on or failing, since `aperf record` ends after its
  period. Nothing is assumed of pods being lost, of interrupts or of the end of the sleep.
  `PollEnds` therefore speaks of pods that reach the line: when the pod fails before it or
  is lost, the loop at `eks-aperf.sh:252` goes on for ever, which the property states.

## 5. What is proved

All theorems hold for every value of the constants that meets the named assumptions
(`RecordArgs`, `ClockBound`, `Kinds`, `Numbers`, `ArchiveValue`, `JvmValues`, `Times`,
`Layout`, `Distinct`, `Bounds`, `ScriptValues`, `FileValues`, `ConfigValues`, `Machine`, `Dialogue`,
`Collected`),
which TLC evaluates in the passing runs. The theorems about `CustomPmu` alone assume
`ListsOfEvents` (the lists aperf comes with and those a user's file holds are sequences of
events), which `PmuPipeline` assumes of the constants it passes on.

- `CollectLoopProofs`: `ClockIsExact`, `SamplesAreDistinct`, `SamplesAreBounded`,
  `PeriodIsCovered`, `SignalsArePrompt`, `LoopTypes`, `LoopImplementsSampling`. None of the properties is inductive: the
  clock is exact because `ClockInv` accounts for expirations read and unread; that a
  sample is not taken twice needs `SlotInv` (the last slot sampled is what has been
  consumed, except within a sample); that at most one sample passes the period needs
  `ControlInv` (the loop only polls while its clock is in the period); promptness needs
  `SignalInv` (a signal that poll reported is still pending when it is read, and the
  sample under way when it arrives is the only one that does not know of it).
- `RecorderProofs`: `RoundsAreWhole`, `DroppedIsSilent`, `DirectoryIsQuiet`,
  `RecorderTypes`, `RecorderImplementsRecording`. `RecordInv` says what a walk that has visited some of the
  collectors has done to their files, `ChildInv` which children the finishing walk has
  reaped, and `ArchiveInv` which files are in the archive while it is made; at the end of a
  walk they give the properties. The refinement maps `phase` to the status of `Recording`;
  a round is the step that ends the walk, and each file put into the archive is a step of
  both (`AddFileImplements`). A failure is `Break` while the archive is made and `Lose`
  otherwise (`FailImplements`).
- `ProfilerProofs`, of the Java profiler: `OneProfilerEach`, `SpansArePositive`, `OnlySelectedProfiled`,
  `NoProfileLost`, `ProfilerTypes`. A pid is in the process map before it is launched for and never leaves
  it (`LaunchInv`, `JidsInv`), and each child stays on the stack until it was waited for;
  the walk that copies comes to every pid, whatever the copies before it did (`CopyInv`).
  `OnlySelectedProfiled` (with arguments, only JVMs they name are profiled) is proved
  only; it follows from one guard.
- `ReportProofs`, of the report: `RunsAreKeptApart`, `NamesAreUnique`, `ArchivesAreCopied`,
  `ReportTypes`. A visualizer holds one run at a time, so the invariant is about time: the
  values of runs visited are filed, those of the next run are what the visualizer has
  turned to (`ValuesInv`), no later run has the name of an earlier one (`NamesInv`), and
  once the copying loop has passed a recording its archive is in the report, and a new
  report has no other (`ArchiveInv`).
- `ReportProofs`, of the series: `PlottedAddsUp`, `GraphLimitsFit`, `NoTicksInvented`,
  `PercentagesAddUp`, `SeriesAreOfOneCpu`. Each loop has its part of `SeriesInv`, which
  relates what is plotted to the sample before (`Past`); a sample adds its difference to
  the sum (`Appended`; `KeptOn` counts modulo `Modulus`), and its values to the set whose
  limits are kept (`LimitsGrow`). That the number of ticks of an entry is at least what the
  sample before has, even over samples without processes, is what makes `TicksEarned`
  inductive; it speaks of recordings without two samples of one second, in which each
  sample with processes is an entry (`EntryIs`). The percentages add up because their
  multiples lie between those of the ticks (`PercentageIs`, `SharesFit`), and a CPU is
  found by its number because different CPUs have different ones (`PlaceIs`).
- `DeliveryProofs`, of the script: `ReportIsRight`, `SuccessIsCopied`, `ScriptTypes`. Once the pod has
  been applied, the pod of that name, if there is one, has the script's options, and it is
  the script's own if none had been found; both survive whatever the pod does by itself.
- `ProfilerProofs`, of the perf profile: `FunctionsAreWhole`, `ProfileTypes`. The invariant follows the
  file: before perf opens it there are only aperf's records in it (`OnlyRecords`); then the
  header, which still counts nothing, and blocks in their places (`Underway`); when perf
  has ended, all blocks between a header that counts them and the features (`Complete`).
  `Writing` says what a write in the file or right behind its end leaves alone, and a
  record of aperf, which goes behind everything, disturbs none of the three. `Waited` says
  that nothing is made of the file before perf has ended.
- `DeliveryProofs`, of the data file: `WrittenRecordsAreRead`, `WhatIsReadIsPlotted`. The file is as long as the completed records
  and less than one more (`Cut`), so that dividing it by the number of fields gives the
  completed ones (`Whole`, which has the arithmetic).
  The last field of a completed record is of that record's own sample (`InPlace`), so that
  `values` are the completed samples, each processed, and every answer is that of those
  values (`AllRead`). Of each kind of data a lemma says what its answers are (`MeminfoIs`,
  `InterruptsAre`, `StatsAre`, `SettingsAre`, `SystemIs`). For interrupts it rests on
  `RankIs`, by which the elements of a finite set of numbers have the ranks from 1 on, and
  `AscendingIs`, by which listing them in their order names each once, whether they are the
  CPUs of a header or the records that have a line.
- `DeliveryProofs`, of the kernel configuration: `SettingsAreKept`, `MenusAreNested`, for files of any
  length and menus of any depth. The reader keeps no stack, so both rest on where it is in
  the lines the writer has given (`LinesAre`, `ReadsAre`): what it reads next is a setting,
  the blank line of a header, the end of a menu or what follows it. For the first, the
  settings in the list are those read, each group's name is in the list once and the
  settings are in the order of the file, unless a title was repeated (`Listed`); taking the
  groups that a menu's end puts into its own away from the list loses and reorders none of
  them. For the second (`NestingInv`) there are open menus `o` and a nesting `w` which the
  lines ahead turn into the writer's `open` and `within` (`Behind`), and which the list, unless a title was repeated,
  stands for (`StandsFor`): the group of each menu of `o` has a place `p` in the list, each
  group has a number `d` of those menus around it, namely of those whose groups come
  before it, and what the groups contain, each behind its `d` menus, is `w`. The end of a menu
  takes the group at the last place and what is behind it, which are just the groups with all
  of `o` around them. TLC has checked this invariant on an instance of its own (three titles,
  seven items).
- `PmuPipelineProofs`, of the dialogue: `NewNamesAreNew`, `DeletedAreFound`. `delete_events` selects by place
  and deletes by name, so the invariant counts (`EnoughOf`): no name is to be deleted more
  often than the list has it. `OneLess` says how removing one element changes the count of
  each value, by maps between the places before and after; `Least` that a set of places has
  a first one, from the library's theorem that natural numbers are well-founded.
- `PmuPipelineProofs`, of the recording: `EveryEventIsShown`, `RatiosAreKept`,
  `CountsAreKept`, `PipelineIsDialogue`. The groups are those of the events on the CPUs
  in the order of `prepare_data_collector` (`GroupNo`, by dividing a group's number by the
  number of events), each line of a sample is of the group at its place (`LineFits`), and
  what a counter or a line holds is in the proportion of its event on its CPU (`Measured`).
  `Balance` is `CountsKept` from the first sample on. When the report is made, `OnlineAre`
  gives the CPUs that are online (all below their number, since a group has been opened on
  each), `StatIs` the stat that `get_named_stat_for_all_cpus` finds, and `SumCompare`
  puts the quotient of the sums between the largest and the smallest quotient. The sums
  are folds; `SumLemmas` has what they do when an element is added, from the definition of
  the folds and a least counterexample, since induction over data is out of reach.
  `PipelineIsDialogue` is the refinement of `CustomPmu` by the composition.
- `FrontEndProofs`: `GraphsAreComplete`, `ComparisonIsSound`, `SelectionIsShown`. None of
  the three is inductive, since callbacks are put off: the invariant speaks of each tab,
  opened or not, and of what waits for it. A graph of the tab that formed the limits is
  drawn on limits that cover all runs, or waits to be (`Graphs`); a setting is shown or
  waits with its group (`Settings`); what is drawn of a CPU tab shows the list the tab was
  drawn for, which is the selected one while the tab is in view (`Cpus`). `TabsApart`
  divides the tabs by what may touch them, `OpenedIs` says what any tab does when it is
  opened, `Ran` what any callback does. `LimitsCover` has the arithmetic of the margins,
  and `AllKeysAre` that splicing the keys of the runs together loses none of them. TLC has
  checked the invariant on the instance of `front_end`.

Each proof has one lemma per action, and the theorem combines `Init => Inv`,
`Inv /\ [Next]_vars => Inv'` and `Inv => P`.

Every invariant and every step property the passing runs check is stated by a theorem.
Only model-checked is the liveness (`Termination` twice, `FinishEnds`, `PollEnds`), which the
provers do not reach.

## 6. Abstractions, and what is not modelled

- A file is the number of records in it, or which recording it is of; parsing, JSON and
  layout are left out. In `Report` the data files a report writes are the pairs of name
  and run shown.
- `HashMap`s are walked in any order, a new one at each walk.
- In `Recorder` the archive is the set of files put into it, of each collector the one it
  writes; run log, meta data and profiles are archived with them and not told apart. The
  order of the files is that in which the directory lists them, any order. `sealed` says
  that the file ends as an archive does; one that is not sealed may lack any of what was put into
  it from some point on, since the encoder buffers, and cannot be read to its end.
- In `JavaProfiler` a profile is written when its asprof exits, if at all, and how it got
  there is not asked; a copy of it is whole, or cut by an error that `fs::copy(..).ok()`
  discards (`java_profile.rs:234`), or not there; the recording ends normally all the same.
- SIGCHLD is not ignored in the process that runs aperf, so `wait()` on a live or exited
  child succeeds. The CPUs that are online do not change during a PMU recording. The
  name of a JVM does not change.
- Counts are whole numbers; the floating-point quotients, percentages and limits are
  modelled by what their rounding does to the properties. A value of `percpu` stands for
  the CPU it was read of.
- In `FrontEnd` the page is a set, so that an element appended twice is not told from
  one; the averages that choose meminfo's unit and the aggregate CPU graph are left out;
  what a callback draws into an element that has been removed is not shown. `GraphsComplete`
  speaks of the tab that formed the shared limits last: a tab that is left before its
  callbacks have run can lose graphs, and keeps the loss.
- In `PerfProfile` the file is a sequence of cells, and perf report reads it if it finds
  the header, the blocks it counts and the features; what perf leaves when it is killed by
  something other than aperf's signal is a file that it has not ended.
- In `KernelConfig` a setting is a number. The code nests groups as values of maps; here
  the tree below each group of the list is laid out flat in the order of the document, each
  entry with the names of the groups around it from the list's group on, which tells any two trees
  apart that differ in nesting or order. The writer gives headers, settings and ends of
  menus as Kconfig does, with fewer kinds of line.
- In `DataFile` a record takes `Fields` writes and is known when the last is there; no
  name of a collector contains another's. A number stands for a value of any width. The
  kinds of one module are chosen at the start, one per behaviour.
- In `EksScript` the pod's image and resources are part of its options, and do not change
  by themselves; scripts run one after the other, since two at once on one node would
  share the pod and the file `/tmp/allpods.out`.
- Not modelled: the syntax of `/proc`, sysfs and EC2 metadata, the mean and percentiles of
  `Metric` (formulas on floats), the run log (lines that are copied), units of disk
  statistics, the ranking of processes, build files, containers and CI.

Disagreements between code and texts that were met and have no run:

- `--period` is "Time (in seconds) for which the performance data is to be collected"
  (`record.rs:18`); since the loop goes on while `current <= end` (`lib.rs:293`), a period
  that is a multiple of the interval is recorded for one interval more. `OverrunBounded`
  states how much it can be.
- "Data collected in .., archived in .." (`lib.rs:380`) is logged before the archive ends:
  the tar and gzip streams end when they are dropped at the end of `create_data_archive`,
  which discards errors. A full disk can leave a recording that has ended normally with an
  archive that cannot be read to its end. An error while files are added drops the streams
  too, which may seal an archive of some files only; nothing in it says that the recording
  has failed. `Recorder` has both (`SealArchive`, `Broken`), and `Recording` promises no
  more.
- Messages of `pmu.rs` (:209, :288) name a flag `--pmu-file`; it is `--pmu-config`
  (`record.rs:36`).
- `index.html:62` offers "Hide N/A and all-zero graphs"; `canHide` (`utils.ts:70`) hides
  graphs that are zero in all runs, not those that are N/A for one.
- "Get cpu 'i' values" (`cpu_utilization.rs:315`): CPUs are counted by their place in the
  sample (:188), so that the series of a CPU takes up another one when a CPU before it goes
  offline. `SeriesStable` states when it does not.
- "Generate/copy the archives" (`report.rs:212`): when a report is written over the report
  it is made of, `fs::copy` (`report.rs:80`) has one file as source and destination, and
  truncates it. `ArchivesCopied` leaves out the archive that is its own destination.
- `meminfodata.rs:192` divides everything by 1024 ("Bytes => kB"), also the `HugePages_`
  keys, which are counts. `PlottedAsRead` leaves them out.
- The settings that follow the end of a menu in the one around it are filed under the
  group begun last (`kernel_config.rs:152`).
- `processes.rs:233` shows 15 names when there are 17 or more, and all 16 when there are
  16; `processes.rs:247` keeps the ticks per second of the sample read last for all runs,
  which matters only if they differ (they are 100 on the machines aperf supports).
- The lines `ERR` and `MIS` of `/proc/interrupts`, which have one count for the machine,
  are filed under CPU 0 (`interrupts.rs`).
- `aperf_stats.rs:60` finds the entries of a key by substring; the names there are at
  present do not contain each other.
- `eks-aperf.sh:222` removes a file that need not exist, under `set -e`, so that a first
  run ends there; `kubectl logs` of a pod that has not been started fails at :240, so that
  the clean-up at :242 is not reached, though "The pod is automatically cleaned up after
  execution" (`README-EKS.md`); nor is it when `kubectl cp` fails (:262), which leaves the
  pod to the next run. A pod that was left with the same options is taken as it is (:231),
  and then the report copied may be of the earlier run's recording, which `RightReport`
  allows.

Hazards that no property covers, because the code does not do what one would wish and no
text says that it does; the models have each of them as an end or exclude it where stated:

- A disk that appears during a recording makes the report panic (`diskstats.rs:275`;
  `DiskAppears` in `CounterSeries`).
- A vmstat value that goes back is cast to `u64` for the limits (`vmstat.rs:100`), so that
  the limit is almost 2^64. `LimitsFit` leaves such values out.
- When CPUs are numbered with a gap the PMU collector opens a counter on one that is
  offline, fails and is excluded (`perf_stat.rs:151`); a list without events is valid for
  `custom-pmu` and `record` and makes the report panic (`perf_stat.rs:437`).
  `EveryEventShown` is about the other reports.
- A report written over its own argument (`report.rs:80`), a CPU that goes offline before
  another (`cpu_utilization.rs:188`) and a pod that never comes to the line that the script
  polls for (`eks-aperf.sh:252`) are excluded by `ArchivesCopied`, `SeriesStable` and `PollEnds`.

## 7. Plan

Done, in this order, the most important behaviour first: the loop and its abstract
specification, the Recorder and its own, the Java profiler, the report, the series of
counters, the PMU modules and their composition, the front-end, the EKS script, the plain
types of data with the kernel configuration and the perf profile; proofs of all of these.

Worth doing next:

1. Compose `CollectLoop` and `Recorder`, so that a slow round in the second is a delay in
   the first, and show that the composition implements both `Sampling` and `Recording`.
2. An abstract specification of the report (each name shows its recording) and of the
   page (what a tab shows is a function of the report, its radio button and the CPUs
   selected, once nothing is pending), with refinements.
3. The page as a sequence of elements, so that what is appended twice by callbacks of two
   selections (`system_info.ts:166`) is told from what is appended once.
