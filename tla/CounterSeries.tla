--------------------------- MODULE CounterSeries ---------------------------
(***************************************************************************)
(* How a report turns recorded kernel counters into what it plots:         *)
(* get_values of diskstats.rs and processes.rs, get_entry of netstat.rs    *)
(* and vmstat.rs, get_line_data of interrupts.rs and get_aggregate_data    *)
(* and get_type of cpu_utilization.rs.  Each walks over the samples of a   *)
(* run with the sample before in hand.  What it may meet there is a        *)
(* machine's doing: disks, CPUs and processes come and go between samples, *)
(* and counters restart.  The loops treat that differently.                *)
(***************************************************************************)
EXTENDS Integers, Sequences, FiniteSetsExt, Functions

CONSTANTS Disks, Cpus,  \* what has counters; a CPU is its number
          Kinds,        \* the kinds of time a CPU's time is counted as
          Pids,         \* the processes of one name
          Key,          \* the counter of netstat or vmstat that is plotted
          MaxCount,     \* bound on disk and interrupt counters
          MaxTicks,     \* bound on the ticks of one kind, or of one process
          MaxSamples,   \* bound on the length of a recording
          Modulus,      \* unsigned integers are counted modulo this, 2^64
          Factor        \* what a difference of the disk key plotted is divided by

ASSUME Bounds == /\ MaxCount \in Nat /\ MaxTicks \in Nat /\ MaxSamples \in Nat \ {0}
                 /\ Modulus \in Nat /\ MaxCount < Modulus
                 /\ Factor \in Nat \ {0}
                 /\ Cpus \subseteq Nat
                 /\ \A S \in {Disks, Cpus, Kinds, Pids} : IsFiniteSet(S)

VARIABLES file,     \* the data that is plotted
          samples,  \* the samples recorded
          at,       \* index of the sample to be processed
          status,   \* "running", "done", or how the report has ended
          prev,     \* the sample before
          values,   \* the values plotted, one sequence per disk or CPU, or for all
          limits    \* GraphLimits

seriesVars == <<file, samples, at, status, prev, values, limits>>

\* Counters of some of the things; for an interrupt line some CPU is online.
PartOf(S, max) == UNION {[T -> 0..max] : T \in SUBSET S}
Recordings(S) == UNION {[1..n -> S] : n \in 1..MaxSamples}

\* The time of a sample is in whole seconds from the first: two samples may
\* have the same, when one was late.
InOrder(s) == /\ s[1].time = 0
              /\ \A i \in 2..Len(s) : s[i].time >= s[i - 1].time

\* GraphLimits.new.
NoLimits == [low |-> 0, high |-> 0, init_done |-> FALSE]

SeriesInit ==
    /\ \/ /\ file \in {"disk", "disk_gauge"}
          /\ samples \in Recordings(PartOf(Disks, MaxCount))
          /\ values = [d \in DOMAIN samples[1] |-> <<>>]
       \/ /\ file = "interrupt"
          /\ samples \in Recordings({s \in PartOf(Cpus, MaxCount) : DOMAIN s # {}})
          /\ values = <<>>
       \/ /\ file = "cpu"
          /\ samples \in Recordings([Kinds -> 0..MaxTicks])
          /\ values = <<>>
       \/ /\ file \in {"netstat", "vmstat", "vmstat_nr"}
          /\ samples \in Recordings(PartOf({Key}, MaxCount))
          /\ Key \in DOMAIN samples[1]
          /\ values = <<>>
       \/ /\ file = "process"
          /\ samples \in Recordings([time : 0..(MaxSamples - 1), ticks : PartOf(Pids, MaxTicks)])
          /\ InOrder(samples)
          /\ values = <<>>
       \/ /\ file = "percpu"
          /\ samples \in Recordings(SUBSET Cpus \ {{}})
          /\ values = [i \in 0..(Cardinality(samples[1]) - 1) |-> <<>>]
    /\ at = 1
    /\ status = "running"
    /\ prev = samples[1]
    /\ limits = NoLimits

Now == samples[at]

\* The step of the loops that all walk over the samples.
Walk == /\ status = "running"
        /\ at' = at + 1
        /\ UNCHANGED <<file, samples>>

\* A report that does not get to its end.
End(how) == /\ status = "running"
            /\ status' = how
            /\ UNCHANGED <<file, samples, at, prev, values, limits>>

-----------------------------------------------------------------------------
\* Disks: differences are signed, and scaled for times and sectors.

\* The unit of the limits: the values plotted are not rounded.
Unit == IF file = "disk" THEN Factor ELSE 1

\* Conversion to u64 takes what is negative to 0.
ToUnsigned(n) == IF n < 0 THEN 0 ELSE n
Floor(n) == ToUnsigned(n \div Unit)

\* Mutant: the upper limit is truncated as the lower one is.
Ceil_Truncated(n) == ToUnsigned(n \div Unit)

Ceil(n) == ToUnsigned(-((-n) \div Unit))

\* update_limit_f64 and update_limit_u64, with each of some values: the first
\* one of all sets the lower limit.
WithLimits(l, S) ==
    IF S = {} THEN l
    ELSE [low  |-> Min({Floor(n) : n \in S} \cup {low \in {l.low} : l.init_done}),
          high |-> Max({Ceil(n) : n \in S} \cup {l.high}),
          init_done |-> TRUE]

\* The disk was in the sample before, whose value is unwrapped.
Known(d) == d \in DOMAIN prev

\* Mutant: the first sample stays what the others are compared with.
Before_First == samples[1]

\* What the next sample is compared with.
Before == Now

DiskSample ==
    /\ file = "disk" /\ at <= Len(samples) /\ \A d \in DOMAIN Now : Known(d)
    /\ Walk
    /\ LET diff == [d \in DOMAIN Now |-> Now[d] - prev[d]]
       IN /\ values' = [d \in DOMAIN values |->
                IF d \in DOMAIN Now THEN Append(values[d], diff[d]) ELSE values[d]]
          /\ limits' = WithLimits(limits, Range(diff))
    /\ prev' = Before
    /\ UNCHANGED status

\* What is in progress at a disk goes to zero, and is plotted itself.
DiskGauge ==
    /\ file = "disk_gauge" /\ at <= Len(samples) /\ DOMAIN Now \subseteq DOMAIN values
    /\ Walk
    /\ values' = [d \in DOMAIN values |->
            IF d \in DOMAIN Now THEN Append(values[d], Now[d]) ELSE values[d]]
    /\ limits' = WithLimits(limits, Range(Now))
    /\ prev' = Before
    /\ UNCHANGED status

\* A disk has appeared: one of the two `unwrap' panics.
DiskAppears == /\ file \in {"disk", "disk_gauge"} /\ at <= Len(samples)
               /\ \E d \in DOMAIN Now : IF file = "disk" THEN ~Known(d) ELSE d \notin DOMAIN values
               /\ End("panicked")

-----------------------------------------------------------------------------
\* Interrupts: differences are unsigned.

InterruptSample ==
    /\ file = "interrupt" /\ at <= Len(samples) /\ DOMAIN Now \subseteq DOMAIN prev
    /\ Walk
    /\ values' = Append(values, [c \in DOMAIN Now |-> (Now[c] - prev[c]) % Modulus])
    /\ prev' = Before
    /\ UNCHANGED <<status, limits>>

\* A CPU has appeared: VisualizerInterruptLineCPUCountError.
CpuAppears == /\ file = "interrupt" /\ at <= Len(samples)
              /\ ~(DOMAIN Now \subseteq DOMAIN prev)
              /\ End("failed")

\* A build that checks for overflow panics where the release build wraps.
CheckedOverflow == /\ file = "interrupt" /\ at <= Len(samples)
                   /\ \E c \in DOMAIN Now \cap DOMAIN prev : Now[c] < prev[c]
                   /\ End("panicked")

-----------------------------------------------------------------------------
\* Netstat and vmstat: one number a sample, and it must be there.

\* Differences of netstat are unsigned; those of vmstat are signed, for the
\* keys that are counters, and only their limits are not.
KeySample ==
    /\ file \in {"netstat", "vmstat", "vmstat_nr"} /\ at <= Len(samples)
    /\ Key \in DOMAIN Now
    /\ Walk
    /\ LET diff == Now[Key] - prev[Key]
           n == CASE file = "netstat"    -> diff % Modulus
                  [] file = "vmstat"     -> diff
                  [] file = "vmstat_nr" -> Now[Key]
       IN /\ values' = Append(values, n)
          /\ limits' = WithLimits(limits, {n % Modulus})
    /\ prev' = Before
    /\ UNCHANGED status

\* VisualizerNetstatValueGetError, VisualizerVmstatValueGetError.
KeyMissing == /\ file \in {"netstat", "vmstat", "vmstat_nr"} /\ at <= Len(samples)
              /\ Key \notin DOMAIN Now
              /\ End("failed")

-----------------------------------------------------------------------------
\* Processes: the ticks of all processes of a name at a time are one number.

TicksOf(sample) == SumFunction(sample.ticks)

\* What the map holds for the time of a sample: samples of one time are added up.
TicksAt(t) == LET then == {i \in DOMAIN samples : samples[i].time = t}
              IN SumFunction([i \in then |-> TicksOf(samples[i])])

\* The last sample of its time, with a process of that name at that time.
IsEntry == /\ \E i \in DOMAIN samples : samples[i].time = Now.time /\ DOMAIN samples[i].ticks # {}
           /\ at = Len(samples) \/ samples[at + 1].time # Now.time

\* No sample of an earlier time has a process of that name.
IsFirst == \A i \in DOMAIN samples : samples[i].time < Now.time => DOMAIN samples[i].ticks = {}

Entry == [time |-> Now.time, ticks |-> TicksAt(Now.time)]

\* Mutant: they are told apart either way.
Used_Distance(entry, before) ==
    Max({entry.ticks - before.ticks, before.ticks - entry.ticks})

\* The ticks used since the entry before, or none when the number went down.
Used(entry, before) == ToUnsigned(entry.ticks - before.ticks)

\* Nothing is plotted of the first entry.
ProcessSample ==
    /\ file = "process" /\ at <= Len(samples)
    /\ Walk
    /\ IF ~IsEntry THEN UNCHANGED <<prev, values>>
       ELSE /\ prev' = Entry
            /\ values' = IF IsFirst THEN values ELSE Append(values, Used(Entry, prev))
    /\ UNCHANGED <<status, limits>>

-----------------------------------------------------------------------------
\* CPU time: a sample in which anything has gone back is not plotted.

\* Mutant: only a sample in which everything has gone back is left out.
IsLessThan_Every(new, old) == \A k \in Kinds : new[k] < old[k]

\* UtilValues.is_less_than.
IsLessThan(new, old) == ~\A k \in Kinds : new[k] >= old[k]

Total(ticks) == SumFunction(ticks)

\* What percentages are of.
Whole(ticks) == Total(ticks)

\* `(value / total * 100.0) as u64': the quotient is a binary fraction, so that
\* a whole percentage may come out one less.
Percentages(value, total) ==
    IF total = 0 THEN {0}
    ELSE LET p == (value * 100) \div total
         IN IF (value * 100) % total = 0 /\ value # total /\ p > 0 THEN {p, p - 1} ELSE {p}

CpuSample ==
    /\ file = "cpu" /\ at <= Len(samples) /\ ~IsLessThan(Now, prev)
    /\ Walk
    /\ LET diff == [k \in Kinds |-> (Now[k] - prev[k]) % Modulus]
       IN \E p \in [Kinds -> UNION {Percentages(diff[k], Whole(diff)) : k \in Kinds}] :
             /\ \A k \in Kinds : p[k] \in Percentages(diff[k], Whole(diff))
             /\ values' = Append(values, p)
    /\ prev' = Before
    /\ UNCHANGED <<status, limits>>

CpuWentBack ==
    /\ file = "cpu" /\ at <= Len(samples) /\ IsLessThan(Now, prev)
    /\ Walk
    /\ prev' = Before
    /\ UNCHANGED <<status, values, limits>>

\* Mutant: CPUs are numbered from the last line of the sample.
Numbered_Last(online, i) ==
    CHOOSE c \in online : Cardinality({d \in online : d > c}) = i

\* The CPUs online are numbered by their place in the sample, and get_type
\* collects what has number i; the CPU whose value that is, is noted here.
Numbered(online, i) ==
    CHOOSE c \in online : Cardinality({d \in online : d < c}) = i

PerCpuSample ==
    /\ file = "percpu" /\ at <= Len(samples)
    /\ Walk
    /\ values' = [i \in DOMAIN values |->
            IF i < Cardinality(Now) THEN Append(values[i], Numbered(Now, i)) ELSE values[i]]
    /\ prev' = Before
    /\ UNCHANGED <<status, limits>>

-----------------------------------------------------------------------------
Done == /\ at > Len(samples)
        /\ End("done")

SeriesTerminated == status # "running" /\ UNCHANGED seriesVars

SeriesNext ==
    \/ DiskSample \/ DiskGauge \/ DiskAppears
    \/ InterruptSample \/ CpuAppears \/ CheckedOverflow
    \/ KeySample \/ KeyMissing \/ ProcessSample
    \/ CpuSample \/ CpuWentBack \/ PerCpuSample
    \/ Done \/ SeriesTerminated

SeriesSpec == SeriesInit /\ [][SeriesNext]_seriesVars

-----------------------------------------------------------------------------
\* Properties.

\* The last sample processed.
Latest == samples[at - 1]

\* Limits hold all values that are not negative and are the closest that do.
\* (Where values are negative this says nothing: for a disk the lower limit is
\* 0, for vmstat the upper one is about 2^64.)
LimitsFit ==
    LET plotted == CASE file \in {"disk", "disk_gauge"} ->
                            UNION {Range(values[d]) : d \in DOMAIN values}
                     [] file \in {"netstat", "vmstat", "vmstat_nr"} -> Range(values)
                     [] OTHER -> {}
    IN plotted # {} /\ (\A n \in plotted : n >= 0) =>
        /\ \A n \in plotted : limits.low * Unit <= n /\ n <= limits.high * Unit
        /\ \E n \in plotted : n < (limits.low + 1) * Unit
        /\ \E n \in plotted : n > (limits.high - 1) * Unit

\* A disk's and a vmstat counter's differences, and what is in progress.
SignedTotals ==
    /\ file = "disk" => \A d \in DOMAIN Latest :
            /\ SumFunction(values[d]) = Latest[d] - samples[1][d]
            /\ Len(values[d]) = at - 1
    /\ file = "disk_gauge" => \A d \in DOMAIN values :
            LET Until(i) == Cardinality({j \in 1..i : d \in DOMAIN samples[j]})
            IN /\ Len(values[d]) = Until(at - 1)
               /\ \A i \in 1..(at - 1) :
                      d \in DOMAIN samples[i] => values[d][Until(i)] = samples[i][d]
    /\ file = "vmstat" => SumFunction(values) = Latest[Key] - samples[1][Key]

\* An interrupt's differences on a CPU, and those of netstat.
UnsignedTotals ==
    LET Kept(plotted, count) ==
            LET advanced == count[at - 1] - count[1]
            IN /\ SumFunction(plotted) % Modulus = advanced % Modulus
               /\ (\A i \in 2..(at - 1) : count[i - 1] <= count[i]) => SumFunction(plotted) = advanced
        past == 1..(at - 1)
    IN /\ file = "interrupt" => \A c \in DOMAIN Latest :
              Kept([i \in past |-> values[i][c]], [i \in past |-> samples[i][c]])
       /\ file = "netstat" => Kept(values, [i \in past |-> samples[i][Key]])

\* What is plotted adds up to what the counter has advanced since the first
\* sample, for as long as it is there: for the signed differences whatever the
\* counter did, for the unsigned ones without any that has wrapped if the
\* counter only advanced.
TotalsKept == at > 1 => SignedTotals /\ UnsignedTotals

\* The ticks that process p is seen to have used at the sample i since the one before.
Worked(p, i) == LET now == samples[i].ticks
                    before == samples[i - 1].ticks
                IN IF p \notin DOMAIN now THEN 0
                   ELSE ToUnsigned(now[p] - (IF p \in DOMAIN before THEN before[p] ELSE 0))

\* The processes of a name, which come and go and share one number, are never
\* said to have used more than they have, if no two samples are of one second;
\* that number is what orders the processes.
TicksEarned ==
    file = "process" /\ (\A i \in 2..Len(samples) : samples[i].time # samples[i - 1].time) =>
        SumFunction(values) <= SumFunction([i \in 2..(at - 1) |->
                                   SumFunction([p \in Pids |-> Worked(p, i)])])

\* A sample is left out exactly where the time of some kind has gone back, so
\* that no difference that is plotted has wrapped; and the percentages of a
\* sample add up to no more than all of the time, and to less only by what
\* truncating each of them can lose.
PercentagesFit ==
    file = "cpu" =>
        /\ Len(values) = Cardinality({i \in 1..(at - 1) :
               i = 1 \/ \A k \in Kinds : samples[i][k] >= samples[i - 1][k]})
        /\ \A i \in 1..Len(values) :
               \/ \A k \in Kinds : values[i][k] = 0
               \/ Total(values[i]) \in (100 - Cardinality(Kinds))..100

\* "Get cpu 'i' values" (cpu_utilization.rs:315): a series is of one CPU and has
\* a point for each sample, if no CPU of a lower number and not itself has gone
\* or come.  (Otherwise it goes on with the values of another CPU.)
SeriesStable ==
    file = "percpu" => \A c \in samples[1] :
        LET i == Cardinality({d \in samples[1] : d < c})
        IN (\A j \in 1..(at - 1) : samples[j] \cap (0..c) = samples[1] \cap (0..c)) =>
                values[i] = [j \in 1..(at - 1) |-> c]
=============================================================================
