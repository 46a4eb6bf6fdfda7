-------------------------- MODULE CollectLoopProofs --------------------------
(***************************************************************************)
(* Proofs about CollectLoop for every period, interval and clock bound.    *)
(***************************************************************************)
EXTENDS CollectLoop, TLAPS

(***************************************************************************)
(* The inductive invariant.  The properties of CollectLoop say what is     *)
(* true of samples and clock; these conjuncts add what the loop knows at   *)
(* each of its control points, which is why those properties stay true.    *)
(***************************************************************************)

\* The last slot sampled; Sampling speaks of it under the same name.
LastSlot == IF slots = <<>> THEN 0 ELSE slots[Len(slots)]

\* The timer's expirations, read and unread, and the loop's clock.
ClockInv == /\ current = consumed * Interval
            /\ now = current + expirations * Interval + (Interval - toNext)

\* Every expiry consumed is sampled, except while its sample is under way or
\* when it failed.
SlotInv == /\ \A i \in 1..Len(slots) : i <= slots[i] /\ slots[i] <= LastSlot
           /\ pc \in {"poll", "timer", "signal"} => LastSlot = consumed
           /\ pc = "collect" => LastSlot < consumed
           /\ LastSlot * Interval <= elapsed_time

\* Where the loop is, whether it is in its period and what poll has told it.
ControlInv == /\ pc = "done" <=> outcome # "running"
              /\ pc \in {"poll", "timer"} => current <= Period
              /\ pc = "collect" => LastSlot * Interval <= Period
              /\ pc = "timer" /\ "timer" \in revents => expirations > 0
              /\ outcome = "elapsed" => current > Period /\ LastSlot = consumed

\* A signal poll has reported is still pending when the loop gets to read it,
\* and no sample is late unless a signal is pending.
SignalInv == /\ pc \in {"timer", "collect", "signal"} /\ "signal" \in revents
                    => pending # {}
             /\ pc # "done" /\ pending = {} => late = 0
             /\ pc = "poll" => late <= 1
             /\ pc \in {"timer", "collect"} => late <= 1
             /\ pc \in {"timer", "collect"} /\ late = 1 => "signal" \in revents
             /\ pc = "signal" /\ late = 2 => "signal" \in revents
             /\ late <= 2

Inv == /\ TypeOK
       /\ ClockInv
       /\ OneSamplePerSlot
       /\ SlotInv
       /\ OverrunBounded
       /\ ControlInv
       /\ SignalInv

-----------------------------------------------------------------------------
\* Lemmas about times and about the slots.

\* Multiplying by the interval keeps the order and never makes a slot smaller.
LEMMA TimesInterval ==
    \A a, b \in Nat : /\ a <= b => a * Interval <= b * Interval
                      /\ a <= a * Interval
                      /\ a * Interval \in Nat
  <1> USE RecordArgs
  <1> SUFFICES ASSUME NEW a \in Nat, NEW b \in Nat
               PROVE  /\ a <= b => a * Interval <= b * Interval
                      /\ a <= a * Interval
                      /\ a * Interval \in Nat
    OBVIOUS
  <1>1. a <= b => a * Interval <= b * Interval
    <2> SUFFICES ASSUME a <= b
                 PROVE  a * Interval <= b * Interval
      OBVIOUS
    <2> DEFINE d == b - a
    <2>1. d \in Nat /\ b = a + d
      OBVIOUS
    <2>2. b * Interval = a * Interval + d * Interval
      BY <2>1
    <2>3. d * Interval >= 0
      BY <2>1
    <2>4. a * Interval \in Int /\ d * Interval \in Int
      BY <2>1
    <2> QED
      BY <2>2, <2>3, <2>4
  <1>2. a * Interval = a + a * (Interval - 1)
    OBVIOUS
  <1>3. a * (Interval - 1) >= 0
    OBVIOUS
  <1> QED
    BY <1>1, <1>2, <1>3

\* What appending a slot does to the sequence and to its last element.
LEMMA AppendSlot ==
    ASSUME NEW s \in Nat, slots \in Seq(Nat), slots' = Append(slots, s)
    PROVE  /\ slots' \in Seq(Nat)
           /\ Len(slots') = Len(slots) + 1
           /\ \A i \in 1..Len(slots) : slots'[i] = slots[i]
           /\ slots'[Len(slots) + 1] = s
           /\ LastSlot' = s
  BY DEF LastSlot

\* The last slot of a sequence of slots is a natural number.
LEMMA LastSlotType == slots \in Seq(Nat) => LastSlot \in Nat
  BY DEF LastSlot

-----------------------------------------------------------------------------
\* The initial state and the steps, one lemma per kind of step.

LEMMA InitInv == Init => Inv
  BY RecordArgs, ClockBound
     DEF Init, Inv, TypeOK, ClockInv, OneSamplePerSlot, SlotInv, OverrunBounded,
         ControlInv, SignalInv, LastSlot, Signals

LEMMA TickInv == Inv /\ Tick => Inv'
  <1> SUFFICES ASSUME Inv, Tick
               PROVE  Inv'
    OBVIOUS
  <1> USE RecordArgs, ClockBound DEF Inv, Tick, kernel, loop
  <1>1. TypeOK'
    BY DEF TypeOK
  <1>2. ClockInv'
    BY TimesInterval DEF TypeOK, ClockInv
  <1>3. OneSamplePerSlot' /\ SlotInv' /\ OverrunBounded'
    BY DEF OneSamplePerSlot, SlotInv, OverrunBounded, LastSlot
  <1>4. ControlInv' /\ SignalInv'
    BY DEF TypeOK, ControlInv, SignalInv, LastSlot
  <1> QED
    BY <1>1, <1>2, <1>3, <1>4

LEMMA ArriveInv == ASSUME NEW s \in Signals, Inv, Arrive(s)
                   PROVE  Inv'
  <1> USE RecordArgs DEF Inv, Arrive, loop
  <1>1. TypeOK'
    BY DEF TypeOK
  <1>2. ClockInv' /\ OneSamplePerSlot' /\ SlotInv' /\ OverrunBounded'
    BY DEF ClockInv, OneSamplePerSlot, SlotInv, OverrunBounded, LastSlot
  <1>3. ControlInv' /\ SignalInv'
    BY DEF ControlInv, SignalInv, LastSlot
  <1> QED
    BY <1>1, <1>2, <1>3

LEMMA PollInv == Inv /\ Poll => Inv'
  <1> SUFFICES ASSUME Inv, Poll
               PROVE  Inv'
    OBVIOUS
  <1> USE RecordArgs DEF Inv, Poll, kernel
  <1>1. TypeOK'
    BY DEF TypeOK
  <1>2. ClockInv' /\ OneSamplePerSlot' /\ SlotInv' /\ OverrunBounded'
    BY DEF ClockInv, OneSamplePerSlot, SlotInv, OverrunBounded, LastSlot
  <1>3. ControlInv'
    BY DEF TypeOK, ControlInv, LastSlot
  <1>4. SignalInv'
    BY DEF TypeOK, SignalInv
  <1> QED
    BY <1>1, <1>2, <1>3, <1>4

LEMMA ReadTimerInv == Inv /\ ReadTimer => Inv'
  <1> SUFFICES ASSUME Inv, ReadTimer
               PROVE  Inv'
    OBVIOUS
  <1> USE RecordArgs DEF Inv, ReadTimer, TimeOf
  <1>1. TypeOK'
    BY TimesInterval DEF TypeOK
  <1>2. ClockInv'
    BY TimesInterval DEF TypeOK, ClockInv
  <1>3. LastSlot' = LastSlot /\ LastSlot \in Nat
    BY LastSlotType DEF TypeOK, LastSlot
  <1>4. OneSamplePerSlot' /\ OverrunBounded'
    BY DEF OneSamplePerSlot, OverrunBounded
  <1>5. LastSlot < consumed'
    BY <1>3 DEF TypeOK, SlotInv, ControlInv
  <1>6. SlotInv'
    BY <1>3, <1>5 DEF SlotInv
  <1>7. LastSlot * Interval <= Period
    BY DEF SlotInv, ControlInv, ClockInv
  <1>8. ControlInv'
    BY <1>3, <1>7 DEF TypeOK, ControlInv
  <1>9. SignalInv'
    BY DEF SignalInv
  <1> QED
    BY <1>1, <1>2, <1>4, <1>6, <1>8, <1>9

LEMMA CollectInv == Inv /\ Collect => Inv'
  <1> SUFFICES ASSUME Inv, Collect
               PROVE  Inv'
    OBVIOUS
  <1> USE RecordArgs DEF Inv, Collect, Elapsed, AfterSample, kernel
  <1>1. /\ slots' \in Seq(Nat)
        /\ Len(slots') = Len(slots) + 1
        /\ \A i \in 1..Len(slots) : slots'[i] = slots[i]
        /\ slots'[Len(slots) + 1] = consumed
        /\ LastSlot' = consumed
    BY AppendSlot DEF TypeOK
  <1>2. LastSlot \in Nat /\ Len(slots) \in Nat
    BY LastSlotType DEF TypeOK
  <1>3. TypeOK'
    BY <1>1 DEF TypeOK
  <1>4. ClockInv'
    BY DEF ClockInv
  <1>5. LastSlot < consumed /\ \A i \in 1..Len(slots) : slots[i] < consumed /\ slots[i] \in Nat
    BY <1>2 DEF TypeOK, SlotInv
  <1>6. OneSamplePerSlot'
    <2> SUFFICES ASSUME NEW i \in 1..Len(slots'), NEW j \in 1..Len(slots'), i < j
                 PROVE  slots'[i] < slots'[j]
      BY DEF OneSamplePerSlot
    <2>1. i \in 1..Len(slots) /\ (j \in 1..Len(slots) \/ j = Len(slots) + 1)
      BY ONLY <1>1, <1>2, i < j
    <2>2. CASE j \in 1..Len(slots)
      <3>1. slots[i] < slots[j]
        BY <2>1, <2>2 DEF OneSamplePerSlot
      <3> QED
        BY ONLY <1>1, <2>1, <2>2, <3>1
    <2>3. CASE j = Len(slots) + 1
      BY ONLY <1>1, <1>5, <2>1, <2>3
    <2> QED
      BY ONLY <2>1, <2>2, <2>3
  <1>7. Len(slots) <= LastSlot
    BY <1>2 DEF TypeOK, SlotInv, LastSlot
  <1>8. consumed * Interval <= now
    <2>1. /\ current = consumed * Interval /\ current \in Nat
          /\ now = current + expirations * Interval + (Interval - toNext)
          /\ toNext \in 1..Interval /\ Interval \in Nat
      BY DEF TypeOK, ClockInv
    <2>2. expirations * Interval \in Nat
      BY TimesInterval DEF TypeOK
    <2> HIDE DEF Inv, Collect
    <2> QED
      BY ONLY <2>1, <2>2
  <1>9. SlotInv'
    <2>1. \A i \in 1..Len(slots') : i <= slots'[i] /\ slots'[i] <= consumed
      BY <1>1, <1>2, <1>5, <1>7 DEF SlotInv, TypeOK
    <2> QED
      BY <1>1, <1>8, <2>1 DEF SlotInv, TypeOK
  <1>10. OverrunBounded'
    <2>1. LastSlot * Interval <= Period
      BY DEF ControlInv
    <2>2. Len(slots) * Interval <= Period
      BY <1>2, <1>7, <2>1, TimesInterval
    <2>3. \A i \in 1..Len(slots) : slots[i] * Interval <= Period
      <3> SUFFICES ASSUME NEW i \in 1..Len(slots)
                   PROVE  slots[i] * Interval <= Period
        OBVIOUS
      <3>1. slots[i] \in Nat /\ slots[i] <= LastSlot
        BY <1>5 DEF SlotInv
      <3>2. /\ slots[i] * Interval <= LastSlot * Interval
            /\ slots[i] * Interval \in Nat
            /\ LastSlot * Interval \in Nat
        BY <1>2, <3>1, TimesInterval
      <3> QED
        BY <2>1, <3>2
    <2> QED
      BY <1>1, <1>2, <2>2, <2>3 DEF OverrunBounded
  <1>11. ControlInv'
    BY <1>1 DEF ControlInv
  <1>12. SignalInv'
    BY DEF SignalInv, TypeOK
  <1> QED
    BY <1>3, <1>4, <1>6, <1>9, <1>10, <1>11, <1>12

LEMMA SkipTimerInv == Inv /\ SkipTimer => Inv'
  <1> SUFFICES ASSUME Inv, SkipTimer
               PROVE  Inv'
    OBVIOUS
  <1> USE RecordArgs DEF Inv, SkipTimer, AfterSkip, kernel
  <1>1. TypeOK' /\ ClockInv' /\ OneSamplePerSlot' /\ OverrunBounded'
    BY DEF TypeOK, ClockInv, OneSamplePerSlot, OverrunBounded
  <1>2. SlotInv' /\ ControlInv' /\ SignalInv'
    BY DEF SlotInv, ControlInv, SignalInv, LastSlot
  <1> QED
    BY <1>1, <1>2

LEMMA ReadSignalInv == Inv /\ ReadSignal => Inv'
  <1> SUFFICES ASSUME Inv, ReadSignal
               PROVE  Inv'
    OBVIOUS
  <1> USE RecordArgs DEF Inv, ReadSignal
  <1>1. TypeOK'
    BY DEF TypeOK
  <1>2. ClockInv' /\ OneSamplePerSlot' /\ OverrunBounded'
    BY DEF ClockInv, OneSamplePerSlot, OverrunBounded
  <1>3. SlotInv' /\ ControlInv' /\ SignalInv'
    BY DEF SlotInv, ControlInv, SignalInv, LastSlot
  <1> QED
    BY <1>1, <1>2, <1>3

LEMMA SkipSignalInv == Inv /\ SkipSignal => Inv'
  <1> SUFFICES ASSUME Inv, SkipSignal
               PROVE  Inv'
    OBVIOUS
  <1> USE RecordArgs DEF Inv, SkipSignal, InPeriod, kernel
  <1>1. TypeOK'
    BY DEF TypeOK
  <1>2. ClockInv' /\ OneSamplePerSlot' /\ OverrunBounded'
    BY DEF ClockInv, OneSamplePerSlot, OverrunBounded
  <1>3. LastSlot' = LastSlot /\ SlotInv'
    BY DEF TypeOK, SlotInv, LastSlot
  <1>4. ControlInv'
    BY <1>3 DEF TypeOK, SlotInv, ControlInv
  <1>5. SignalInv'
    BY DEF TypeOK, SignalInv
  <1> QED
    BY <1>1, <1>2, <1>3, <1>4, <1>5

LEMMA FailInv == Inv /\ Fail => Inv'
  <1> SUFFICES ASSUME Inv, Fail
               PROVE  Inv'
    OBVIOUS
  <1> USE RecordArgs DEF Inv, Fail, kernel
  <1>1. TypeOK' /\ ClockInv' /\ OneSamplePerSlot' /\ OverrunBounded'
    BY DEF TypeOK, ClockInv, OneSamplePerSlot, OverrunBounded
  <1>2. SlotInv' /\ ControlInv' /\ SignalInv'
    BY DEF SlotInv, ControlInv, SignalInv, LastSlot
  <1> QED
    BY <1>1, <1>2

LEMMA StutterInv == Inv /\ UNCHANGED vars => Inv'
  BY DEF vars, kernel, loop, Inv, TypeOK, ClockInv, OneSamplePerSlot, SlotInv,
         OverrunBounded, ControlInv, SignalInv, LastSlot

LEMMA NextInv == Inv /\ [Next]_vars => Inv'
  BY TickInv, ArriveInv, PollInv, ReadTimerInv, SkipTimerInv, CollectInv,
     ReadSignalInv, SkipSignalInv, FailInv, StutterInv
     DEF Next, Step, Terminated

LEMMA Invariance == Spec => []Inv
  BY InitInv, NextInv, PTL DEF Spec

-----------------------------------------------------------------------------
\* The theorems.

\* The loop's clock differs from real time by exactly what the loop has not
\* read yet, for every period and interval and every delay of the collectors.
THEOREM ClockIsExact == Spec => []LoopClock
  <1>1. Inv => LoopClock
    BY RecordArgs, TimesInterval DEF Inv, TypeOK, ClockInv, LoopClock
  <1> QED
    BY <1>1, Invariance, PTL

\* The loop's variables have values of their kinds, for all parameters.
THEOREM LoopTypes == Spec => []TypeOK
  <1>1. Inv => TypeOK
    BY DEF Inv
  <1> QED
    BY <1>1, Invariance, PTL

\* No expiry of the timer is ever sampled twice, whatever the interval and however
\* late the loop is woken (the while loop of collect_data_serial).
THEOREM SamplesAreDistinct == Spec => []OneSamplePerSlot
  <1>1. Inv => OneSamplePerSlot
    BY DEF Inv
  <1> QED
    BY <1>1, Invariance, PTL

\* At most one sample lies past the period (the same loop's condition).
THEOREM SamplesAreBounded == Spec => []OverrunBounded
  <1>1. Inv => OverrunBounded
    BY DEF Inv
  <1> QED
    BY <1>1, Invariance, PTL

\* A recording nobody interrupts ends with a sample taken after its period.
THEOREM PeriodIsCovered == Spec => []PeriodCovered
  <1>1. Inv => PeriodCovered
    <2> SUFFICES ASSUME Inv, outcome = "elapsed"
                 PROVE  /\ slots # <<>>
                        /\ slots[Len(slots)] * Interval > Period
                        /\ elapsed_time > Period
      BY DEF PeriodCovered
    <2>1. LastSlot \in Nat /\ LastSlot * Interval \in Nat
      BY LastSlotType, TimesInterval DEF Inv, TypeOK
    <2>2. LastSlot * Interval > Period
      BY DEF Inv, ControlInv, ClockInv
    <2>3. slots # <<>>
      <3>1. LastSlot # 0
        BY <2>2, RecordArgs
      <3> QED
        BY <3>1 DEF LastSlot
    <2>4. elapsed_time > Period
      BY <2>1, <2>2, RecordArgs DEF Inv, SlotInv, TypeOK
    <2> QED
      BY <2>2, <2>3, <2>4 DEF LastSlot
  <1> QED
    BY <1>1, Invariance, PTL

\* A signal ends the loop within two samples of its arrival.
THEOREM SignalsArePrompt == Spec => []SignalPrompt
  <1>1. Inv => SignalPrompt
    BY DEF Inv, SignalInv, SignalPrompt
  <1> QED
    BY <1>1, Invariance, PTL

-----------------------------------------------------------------------------
\* CollectLoop implements Sampling.

LEMMA SameLastSlot == Promise!LastSlot = LastSlot
  BY DEF Promise!LastSlot, LastSlot

LEMMA StepImplements == Inv /\ [Next]_vars => [Promise!Next]_(Promise!vars)
  <1> SUFFICES ASSUME Inv, [Next]_vars
               PROVE  [Promise!Next]_(Promise!vars)
    OBVIOUS
  <1> USE RecordArgs, SameLastSlot
  <1>1. CASE Collect
    <2>1. LastSlot * Interval <= Period /\ LastSlot < consumed /\ outcome = "running"
      BY <1>1 DEF Inv, Collect, ControlInv, SlotInv
    <2>2. consumed <= MaxNow
      <3>1. consumed <= consumed * Interval /\ consumed * Interval \in Nat
        BY TimesInterval DEF Inv, TypeOK
      <3>2. consumed * Interval <= now
        BY TimesInterval DEF Inv, TypeOK, ClockInv
      <3> QED
        BY <3>1, <3>2, ClockBound DEF Inv, TypeOK
    <2>3. consumed \in (LastSlot + 1)..MaxNow
      BY <2>1, <2>2, LastSlotType, ClockBound DEF Inv, TypeOK
    <2>4. Promise!Sample
      BY <1>1, <2>1, <2>3 DEF Promise!Sample, Collect
    <2> QED
      BY <2>4 DEF Promise!Next
  <1>2. CASE SkipSignal
    <2>1. CASE InPeriod(current)
      BY <1>2, <2>1 DEF SkipSignal, Promise!vars
    <2>2. CASE ~InPeriod(current)
      <3>1. LastSlot * Interval > Period /\ outcome = "running"
        BY <1>2, <2>2 DEF Inv, TypeOK, ClockInv, SlotInv, ControlInv, SkipSignal,
                          InPeriod
      <3>2. Promise!Elapse
        BY <1>2, <2>2, <3>1 DEF SkipSignal, Promise!Elapse
      <3> QED
        BY <3>2 DEF Promise!Next
    <2> QED
      BY <2>1, <2>2
  <1>3. CASE ReadSignal
    <2>1. Promise!Interrupt
      BY <1>3 DEF Inv, ControlInv, ReadSignal, Promise!Interrupt
    <2> QED
      BY <2>1 DEF Promise!Next
  <1>4. CASE Fail
    <2>1. Promise!Interrupt
      BY <1>4 DEF Inv, ControlInv, Fail, Promise!Interrupt
    <2> QED
      BY <2>1 DEF Promise!Next
  <1>5. CASE Tick \/ (\E s \in Signals : Arrive(s)) \/ UNCHANGED vars
    BY <1>5 DEF Tick, Arrive, vars, loop, Promise!vars
  <1>6. CASE Poll \/ ReadTimer \/ SkipTimer
    BY <1>6 DEF Poll, ReadTimer, SkipTimer, Promise!vars
  <1> QED
    BY <1>1, <1>2, <1>3, <1>4, <1>5, <1>6 DEF Next, Step, Terminated

\* The loop of the code keeps the promise of Sampling: later and later slots,
\* none after one past the period, and an end only for one of three reasons.
THEOREM LoopImplementsSampling == Spec => ImplementsSampling
  <1>1. Init => Promise!Init
    BY DEF Init, Promise!Init
  <1> QED
    BY <1>1, StepImplements, Invariance, PTL
       DEF Spec, ImplementsSampling, Promise!Spec
=============================================================================
