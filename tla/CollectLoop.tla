----------------------------- MODULE CollectLoop -----------------------------
(***************************************************************************)
(* The collection loop of aperf record, PerformanceData::                  *)
(* collect_data_serial: a periodic timerfd and a signalfd are polled       *)
(* together; each wake-up by the timer adds the time of all expirations to *)
(* `current' and takes one sample, each wake-up by the signal ends the     *)
(* loop.  The kernel's clock, its timer and the arrival of signals are     *)
(* actions of their own, so they interleave with every step of the loop:   *)
(* a collector may be slow for as long as the clock bound allows, and a    *)
(* signal may arrive anywhere.                                             *)
(*                                                                         *)
(* Time is in whole seconds since `start'.                                 *)
(***************************************************************************)
EXTENDS Integers, Sequences

CONSTANTS Period,      \* --period, seconds
          Interval,    \* --interval, seconds
          MaxNow       \* bound: the clock stops here

\* The checks record() makes before it starts a recording.
ASSUME RecordArgs == /\ Period \in Nat \ {0}
                     /\ Interval \in Nat \ {0}
                     /\ Interval < Period

\* The bound leaves the loop the time it needs to end by itself.
ASSUME ClockBound == MaxNow \in Nat /\ MaxNow >= Period + Interval

Signals == {"SIGINT", "SIGTERM"}

VARIABLES now,          \* the kernel's clock
          toNext,       \* seconds until the timer expires again
          expirations,  \* expirations not yet read from the timerfd
          pending,      \* signals blocked and pending for the process
          pc,           \* where the loop is
          revents,      \* the descriptors the last poll reported readable
          current,      \* the loop's own clock, as an offset from `start'
          consumed,     \* sum of all values read from the timerfd
          elapsed_time, \* collector_params.elapsed_time of the last sample
          slots,        \* consumed at each sample taken so far
          late,         \* history: samples taken while a signal was pending
          outcome,      \* "running", or how the loop ended
          datatype_signal \* the signal the collectors are to be stopped with

kernel == <<now, toNext, expirations, pending>>
loop == <<pc, revents, current, consumed, elapsed_time, slots, late,
          outcome, datatype_signal>>
vars == <<kernel, loop>>

Init == /\ now = 0
        /\ toNext = Interval
        /\ expirations = 0
        /\ pending = {}
        /\ pc = "poll"
        /\ revents = {}
        /\ current = 0
        /\ consumed = 0
        /\ elapsed_time = 0
        /\ slots = <<>>
        /\ late = 0
        /\ outcome = "running"
        /\ datatype_signal = "SIGTERM"

-----------------------------------------------------------------------------
\* The kernel.

\* A second passes, and with it perhaps an interval of the periodic timer.
Tick == /\ outcome = "running"
        /\ now < MaxNow
        /\ now' = now + 1
        /\ IF toNext = 1
           THEN toNext' = Interval /\ expirations' = expirations + 1
           ELSE toNext' = toNext - 1 /\ UNCHANGED expirations
        /\ UNCHANGED <<pending, loop>>

\* A signal arrives.  Standard signals do not queue.
Arrive(s) == /\ outcome = "running"
             /\ s \notin pending
             /\ pending' = pending \cup {s}
             /\ UNCHANGED <<now, toNext, expirations, loop>>

-----------------------------------------------------------------------------
\* The loop.

\* Mutants: the bounds this test is easily confused with.
InPeriod_Before(x) == x < Period
InPeriod_OneMore(x) == x <= Period + Interval

\* The test of `while current <= end'.
InPeriod(x) == x <= Period

\* Mutants: missed intervals are not added; nothing is added.
TimeOf_OneInterval(ret) == Interval
TimeOf_Nothing(ret) == 0

\* What a read of ret expirations adds to `current'.
TimeOf(ret) == ret * Interval

\* start.elapsed().as_secs().
Elapsed == now

\* poll() blocks until a descriptor is readable and reports the readable ones.
Poll == /\ pc = "poll"
        /\ expirations > 0 \/ pending # {}
        /\ revents' = {fd \in {"timer", "signal"} :
                         \/ fd = "timer" /\ expirations > 0
                         \/ fd = "signal" /\ pending # {}}
        /\ pc' = "timer"
        /\ UNCHANGED <<kernel, current, consumed, elapsed_time, slots, late,
                       outcome, datatype_signal>>

\* tfd.read() returns the expirations there are now, perhaps more than poll saw.
ReadTimer == /\ pc = "timer"
             /\ "timer" \in revents
             /\ current' = current + TimeOf(expirations)
             /\ consumed' = consumed + expirations
             /\ expirations' = 0
             /\ pc' = "collect"
             /\ UNCHANGED <<now, toNext, pending, revents, elapsed_time, slots,
                            late, outcome, datatype_signal>>

\* Mutant: the collectors run on every wake-up, the signal's too.
AfterSkip_Collects == "collect"

\* Where the loop goes when the timer was not reported.
AfterSkip == "signal"

\* The wake-up was by the signal alone: nothing is collected.
SkipTimer == /\ pc = "timer"
             /\ "timer" \notin revents
             /\ pc' = AfterSkip
             /\ UNCHANGED <<kernel, revents, current, consumed, elapsed_time,
                            slots, late, outcome, datatype_signal>>

\* Mutant: `else if': after a sample the signal is not looked at.
AfterSample_Tests == IF InPeriod(current) THEN "poll" ELSE "signal"

\* Where the loop goes after a sample: the signal is looked at in any case.
AfterSample == "signal"

\* Every collector that is not static collects and writes, then the statistics.
Collect == /\ pc = "collect"
           /\ elapsed_time' = Elapsed
           /\ slots' = Append(slots, consumed)
           /\ late' = late + (IF pending = {} THEN 0 ELSE 1)
           /\ pc' = AfterSample
           /\ UNCHANGED <<kernel, revents, current, consumed, outcome,
                          datatype_signal>>

\* A signal poll reported is read from the signalfd and breaks the loop.
ReadSignal == /\ pc = "signal"
              /\ "signal" \in revents
              /\ \E s \in pending : /\ datatype_signal' = s
                                    /\ pending' = pending \ {s}
              /\ pc' = "done"
              /\ outcome' = "signalled"
              /\ UNCHANGED <<now, toNext, expirations, revents, current,
                             consumed, elapsed_time, slots, late>>

\* No signal was reported: the loop tests its condition again.
SkipSignal == /\ pc = "signal"
              /\ "signal" \notin revents
              /\ IF InPeriod(current)
                 THEN pc' = "poll" /\ UNCHANGED outcome
                 ELSE pc' = "done" /\ outcome' = "elapsed"
              /\ UNCHANGED <<kernel, revents, current, consumed, elapsed_time,
                             slots, late, datatype_signal>>

\* poll, a collector, a write or the statistics fail: `?' leaves the function.
Fail == /\ pc \in {"poll", "collect"}
        /\ pc' = "done"
        /\ outcome' = "failed"
        /\ UNCHANGED <<kernel, revents, current, consumed, elapsed_time, slots,
                       late, datatype_signal>>

Step == Poll \/ ReadTimer \/ SkipTimer \/ Collect \/ ReadSignal \/ SkipSignal

Terminated == outcome # "running" /\ UNCHANGED vars

Next == \/ Tick
        \/ \E s \in Signals : Arrive(s)
        \/ Step
        \/ Fail
        \/ Terminated

\* Time passes, and the loop is scheduled whenever it can run.
Fairness == WF_vars(Tick) /\ WF_vars(Step)

Spec == Init /\ [][Next]_vars
FairSpec == Spec /\ Fairness

-----------------------------------------------------------------------------
\* Properties.

\* The kinds of value the kernel and the loop keep.
TypeOK == /\ now \in 0..MaxNow
          /\ toNext \in 1..Interval
          /\ expirations \in Nat
          /\ pending \in SUBSET Signals
          /\ pc \in {"poll", "timer", "collect", "signal", "done"}
          /\ revents \in SUBSET {"timer", "signal"}
          /\ current \in Nat
          /\ consumed \in Nat
          /\ elapsed_time \in 0..MaxNow
          /\ slots \in Seq(Nat)
          /\ late \in Nat
          /\ outcome \in {"running", "elapsed", "signalled", "failed"}
          /\ datatype_signal \in Signals

\* The loop measures the period with its own clock, advanced by what the timer
\* reports; however late it is woken and however many intervals a slow
\* collector missed, that clock differs from real time by exactly the
\* intervals not yet read and the part of the one that is running.
LoopClock == current = now - (Interval - toNext) - expirations * Interval

\* No expiry of the timer is sampled twice, however the wake-ups and the delays
\* of the collectors interleave: a missed interval is skipped, never made up.
OneSamplePerSlot == \A i, j \in 1..Len(slots) : i < j => slots[i] < slots[j]

\* A recording that ends by itself has covered its period: its last sample was
\* taken after the period's end, by the timer and by the elapsed time recorded.
PeriodCovered == outcome = "elapsed" =>
                    /\ slots # <<>>
                    /\ slots[Len(slots)] * Interval > Period
                    /\ elapsed_time > Period

\* Delays never add samples: at most one expiry past the period is sampled, so
\* one sample more than fit the period is the most there can be.
OverrunBounded == /\ \A i \in 1..(Len(slots) - 1) : slots[i] * Interval <= Period
                  /\ (Len(slots) - 1) * Interval <= Period

\* SIGINT and SIGTERM are noticed within two samples of their arrival, even
\* when every poll also finds the timer readable: the sample under way, and the
\* one of the next wake-up, after which the signal is read.
SignalPrompt == late <= 2

\* The loop always ends: by its clock, by a signal or by an error.
Termination == <>(outcome # "running")

\* The code takes samples as Sampling promises: slots are the timer's
\* expirations, and every other step of loop or kernel leaves them alone.
Promise == INSTANCE Sampling WITH Horizon <- MaxNow
ImplementsSampling == Promise!Spec
=============================================================================
