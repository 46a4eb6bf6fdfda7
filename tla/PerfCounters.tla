---------------------------- MODULE PerfCounters ----------------------------
(***************************************************************************)
(* The PMU counters of a recording and of its report (perf_stat.rs): for   *)
(* each CPU and each event of the list a group of hardware counters is     *)
(* opened, each sample reads and resets the groups one after the other,    *)
(* and the report divides what an event's numerators counted by what its   *)
(* denominators did.  The counters count on all the time.                  *)
(***************************************************************************)
EXTENDS Integers, Sequences, FiniteSetsExt, Functions

CONSTANTS BaseEvents,     \* the events of this vendor's CPUs
          PlatformEvents, \* those of this model
          Rate,           \* numerator counts per denominator count on each CPU
          MaxTicks,       \* bound on what is counted
          MaxSamples,     \* bound on the length of a recording
          Unreadable,         \* a file that is no list of events
          NoConfig        \* no --pmu-config

Cpus == DOMAIN Rate

ASSUME Machine == /\ Cpus \subseteq Nat /\ IsFiniteSet(Cpus)
                  /\ \A c \in Cpus : Rate[c] \in Nat
                  /\ MaxTicks \in Nat /\ MaxSamples \in Nat \ {0}

VARIABLES pmu_config, \* what --pmu-config names
          online,     \* the CPUs that are online
          stage,      \* where the recording or the report is, or how it has ended
          perf_list,  \* the events, each with a name, a scale and numbers of counters
          groups,     \* the groups opened: of a CPU, for an event
          started,    \* how many of them have been reset and enabled
          counts,     \* what the counters of each have counted since their reset
          at,         \* the group that is read next
          data,       \* the lines of this sample
          samples,    \* the samples written
          shown,      \* the report: for each key what it shows of each sample
          ticks,      \* how often something was counted, for each group
          missed      \* how often of that between its read and its reset

machine == <<pmu_config, online>>
setup == <<perf_list, groups, started>>
counted == <<counts, ticks, missed>>
vars == <<machine, stage, setup, at, data, samples, shown, counted>>

\* No counters, and no list of events yet.
Idle == /\ stage = "prepare"
        /\ perf_list = <<>> /\ groups = <<>> /\ started = 0
        /\ counts = <<>> /\ ticks = <<>> /\ missed = <<>>
        /\ at = 1 /\ data = <<>> /\ samples = <<>> /\ shown = <<>>

Ended == {"excluded", "exited", "failed", "reported", "panicked"}

-----------------------------------------------------------------------------
\* prepare_data_collector.

Named(list, n) == {i \in DOMAIN list : list[i].name = n}

\* An event takes the place of the one of its name, or is the last.
Inserted(list, event) ==
    IF Named(list, event.name) = {} THEN Append(list, event)
    ELSE [i \in DOMAIN list |-> IF list[i].name = event.name THEN event ELSE list[i]]

\* form_events_map: those of the vendor are inserted first, then the model's.
EventsMap(all) ==
    LET map[n \in 0..Len(all)] == IF n = 0 THEN <<>> ELSE Inserted(map[n - 1], all[n])
    IN map[Len(all)]

Prepare == /\ stage = "prepare"
           /\ IF pmu_config = Unreadable
              THEN stage' = "exited" /\ UNCHANGED perf_list
              ELSE /\ stage' = "open"
                   /\ perf_list' = IF pmu_config = NoConfig
                                   THEN EventsMap(BaseEvents \o PlatformEvents)
                                   ELSE pmu_config
           /\ UNCHANGED <<machine, groups, started, at, data, samples, shown, counted>>

\* Mutant: the last one is left out.
NumCpus_Less == Cardinality(online) - 1

\* The number of CPUs online, whatever their own numbers are.
NumCpus == Cardinality(online)

AllOpen == Len(groups) = NumCpus * Len(perf_list)

\* The CPU, counted from 0, and the event whose turn it is.
TurnCpu == Len(groups) \div Len(perf_list)
TurnEvent == perf_list[(Len(groups) % Len(perf_list)) + 1]

\* A group can be opened on a CPU that is online only.
OpenGroup == /\ stage = "open" /\ ~AllOpen
             /\ TurnCpu \in online
             /\ groups' = Append(groups, [cpu |-> TurnCpu, event |-> TurnEvent])
             /\ UNCHANGED <<machine, stage, perf_list, started, at, data, samples, shown, counted>>

\* What is left of the groups of a collector that cannot be prepared.
Left == <<>>

\* A CPU is offline, counters are not permitted or not there, files run out.
Exclude == /\ stage \in {"open", "start"}
           /\ stage' = "excluded"
           /\ groups' = Left
           /\ started' = 0
           /\ counts' = <<>> /\ ticks' = <<>> /\ missed' = <<>>
           /\ UNCHANGED <<machine, perf_list, at, data, samples, shown>>

OpenOver == /\ stage = "open" /\ AllOpen
            /\ stage' = "start"
            /\ counts' = [i \in DOMAIN groups |-> [nr |-> 0, dr |-> 0]]
            /\ ticks' = [i \in DOMAIN groups |-> 0]
            /\ missed' = [i \in DOMAIN groups |-> 0]
            /\ UNCHANGED <<machine, setup, at, data, samples, shown>>

\* A group is reset and enabled.
StartGroup == /\ stage = "start" /\ started < Len(groups)
              /\ started' = started + 1
              /\ UNCHANGED <<machine, stage, perf_list, groups, at, data, samples, shown, counted>>

StartOver == /\ stage = "start" /\ started = Len(groups)
             /\ stage' = "wait"
             /\ UNCHANGED <<machine, setup, at, data, samples, shown, counted>>

\* The hardware counts for a group: the counters of one group count together.
Tick(i) ==
    /\ i \in 1..started /\ stage \in {"start", "wait", "read", "reset"}
    /\ SumFunction(ticks) < MaxTicks
    /\ ticks' = [ticks EXCEPT ![i] = @ + 1]
    /\ missed' = IF stage = "reset" /\ i = at THEN [missed EXCEPT ![i] = @ + 1] ELSE missed
    /\ LET g == groups[i]
       IN counts' = [counts EXCEPT ![i] = [nr |-> @.nr + g.event.nrs * Rate[g.cpu],
                                           dr |-> @.dr + g.event.drs]]
    /\ UNCHANGED <<machine, stage, setup, at, data, samples, shown>>

-----------------------------------------------------------------------------
\* collect_data.

Sample == /\ stage = "wait" /\ Len(samples) < MaxSamples
          /\ stage' = "read"
          /\ at' = 1
          /\ data' = <<>>
          /\ UNCHANGED <<machine, setup, samples, shown, counted>>

Line(i) == [cpu |-> groups[i].cpu, name |-> groups[i].event.name,
            nr |-> counts[i].nr, dr |-> counts[i].dr, scale |-> groups[i].event.scale]

ReadGroup == /\ stage = "read" /\ at <= Len(groups)
             /\ data' = Append(data, Line(at))
             /\ stage' = "reset"
             /\ UNCHANGED <<machine, setup, at, samples, shown, counted>>

\* Mutant: the denominators are not reset.
AfterReset_Numerators(c) == [c EXCEPT !.nr = 0]

\* Mutant: nothing is reset.
AfterReset_Never(c) == c

\* The counters of a group that has been reset.
AfterReset(c) == [nr |-> 0, dr |-> 0]

ResetGroup == /\ stage = "reset"
              /\ counts' = [counts EXCEPT ![at] = AfterReset(counts[at])]
              /\ at' = at + 1
              /\ stage' = "read"
              /\ UNCHANGED <<machine, setup, data, samples, shown, ticks, missed>>

\* The sample is complete and is appended to the file.
SampleOver == /\ stage = "read" /\ at > Len(groups)
              /\ samples' = Append(samples, data)
              /\ stage' = "wait"
              /\ UNCHANGED <<machine, setup, at, data, shown, counted>>

\* A group cannot be read or reset; with it the recording fails.
Fail == /\ stage \in {"read", "reset"}
        /\ stage' = "failed"
        /\ UNCHANGED <<machine, setup, at, data, samples, shown, counted>>

-----------------------------------------------------------------------------
\* The report.

\* add_named_stat: the stats of each CPU, by their places in the sample.
StatsOf(sample, cpu) == {i \in DOMAIN sample : sample[i].cpu = cpu}
CpusIn(sample) == {sample[i].cpu : i \in DOMAIN sample}

\* get_named_events: the names of the first CPU's stats.
Keys == {samples[1][i].name : i \in StatsOf(samples[1], samples[1][1].cpu)}

\* get_named_stat_for_all_cpus: a CPU's first stat of that name.
StatsFor(sample, key) ==
    LET Stats(c) == StatsOf(sample, c) \cap Named(sample, key)
    IN [c \in {c \in CpusIn(sample) : Stats(c) # {}} |-> sample[Min(Stats(c))]]

\* get_values: the quotient for each CPU, and for all from the sums of both.
ValuesOf(sample, key) ==
    LET stats == StatsFor(sample, key)
    IN [cpus |-> [c \in DOMAIN stats |-> [nr |-> stats[c].nr, dr |-> stats[c].dr]],
        all |-> [nr |-> SumFunction([c \in DOMAIN stats |-> stats[c].nr]),
                 dr |-> SumFunction([c \in DOMAIN stats |-> stats[c].dr])]]

\* Indexing the first stat of the first CPU panics where a sample has none.
Report == /\ stage = "wait"
          /\ IF \E k \in DOMAIN samples : samples[k] = <<>>
             THEN stage' = "panicked" /\ UNCHANGED shown
             ELSE /\ stage' = "reported"
                  /\ shown' = IF samples = <<>> THEN <<>>
                              ELSE [key \in Keys |->
                                    [k \in DOMAIN samples |-> ValuesOf(samples[k], key)]]
          /\ UNCHANGED <<machine, setup, at, data, samples, counted>>

Terminated == stage \in Ended /\ UNCHANGED vars

Next == \/ Prepare \/ OpenGroup \/ Exclude \/ OpenOver \/ StartGroup \/ StartOver
        \/ Sample \/ ReadGroup \/ ResetGroup \/ SampleOver \/ Fail
        \/ (\E i \in DOMAIN groups : Tick(i))
        \/ Report
        \/ Terminated

-----------------------------------------------------------------------------
\* Properties.

\* What the lines written so far, those of the sample in making included, say
\* was counted as denominators by a group.
Recorded(i) ==
    LET done == SumFunction([k \in DOMAIN samples |-> samples[k][i].dr])
    IN done + (IF stage \in {"read", "reset"} /\ i \in DOMAIN data THEN data[i].dr ELSE 0)

\* Nothing is recorded twice, and nothing is lost but what a group counts
\* between its own read and its reset: what a group is waiting to report is what
\* it has counted, less that and what has been recorded.
CountsKept ==
    stage \in {"wait", "read", "reset"} => \A i \in DOMAIN groups :
        LET read == stage = "reset" /\ i = at
            waiting == IF read THEN 0 ELSE counts[i].dr
            passing == IF read THEN counts[i].dr - data[i].dr ELSE 0
            event == groups[i].event
        IN /\ waiting + Recorded(i) = event.drs * (ticks[i] - missed[i])
           /\ passing \in 0..(event.drs * missed[i])

\* Every quotient shown is the CPU's true one, whatever was lost and however
\* long each group has counted, and that for all CPUs lies between theirs.
RatiosKept ==
    stage = "reported" => \A key \in DOMAIN shown : \A k \in DOMAIN shown[key] :
        LET value == shown[key][k]
            event == perf_list[Min(Named(perf_list, key))]
            True(c) == event.nrs * Rate[c]
        IN /\ \A c \in DOMAIN value.cpus :
                value.cpus[c].nr * event.drs = value.cpus[c].dr * True(c)
           /\ \E c \in DOMAIN value.cpus : value.all.nr * event.drs <= value.all.dr * True(c)
           /\ \E c \in DOMAIN value.cpus : value.all.nr * event.drs >= value.all.dr * True(c)

\* Every event recorded is shown for every CPU that is online in every sample;
\* only a list without any events makes the report panic.
EveryEventShown ==
    /\ stage = "panicked" => perf_list = <<>>
    /\ stage = "reported" /\ samples # <<>> =>
            /\ DOMAIN shown = {perf_list[i].name : i \in DOMAIN perf_list}
            /\ \A key \in DOMAIN shown : \A k \in DOMAIN samples :
                    DOMAIN shown[key][k].cpus = online
=============================================================================
