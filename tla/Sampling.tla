------------------------------ MODULE Sampling ------------------------------
(***************************************************************************)
(* What one recording promises about the samples it takes.  Time is cut    *)
(* into slots: slot n is the n-th expiry of the collection timer, n *      *)
(* Interval seconds after the start.  A recorder samples at later and      *)
(* later slots, may skip slots it was too slow for, and goes on until a    *)
(* sample lies past the period, unless a signal or an error stops it.      *)
(* CollectLoop, the model of the code, is shown to implement this.         *)
(***************************************************************************)
EXTENDS Integers, Sequences

CONSTANTS Period,      \* seconds the user asked for
          Interval,    \* seconds between two slots
          Horizon      \* bound on the slots of a run

VARIABLES slots,       \* the slots sampled so far, in the order sampled
          outcome      \* "running", or why the recording stopped

vars == <<slots, outcome>>

LastSlot == IF slots = <<>> THEN 0 ELSE slots[Len(slots)]

Init == /\ slots = <<>>
        /\ outcome = "running"

\* One more sample, at a later slot; only the last one may pass the period.
Sample == /\ outcome = "running"
          /\ LastSlot * Interval <= Period
          /\ \E s \in (LastSlot + 1)..Horizon : slots' = Append(slots, s)
          /\ UNCHANGED outcome

\* The period is over: the last sample already lies past it.
Elapse == /\ outcome = "running"
          /\ LastSlot * Interval > Period
          /\ outcome' = "elapsed"
          /\ UNCHANGED slots

\* A signal or an error ends the recording early.
Interrupt == /\ outcome = "running"
             /\ outcome' \in {"signalled", "failed"}
             /\ UNCHANGED slots

Next == Sample \/ Elapse \/ Interrupt

Spec == Init /\ [][Next]_vars
=============================================================================
