----------------------------- MODULE EksScript -----------------------------
(***************************************************************************)
(* eks-aperf.sh: deploys a pod that records, makes the report and then     *)
(* sleeps; waits for a line of the pod's log; copies the report and        *)
(* deletes the pod.  The script is run again and again on one node, may be *)
(* interrupted anywhere, and ends at the first command that fails          *)
(* (set -e).  The pod's name is made of the node's, so that a run meets    *)
(* the pod an earlier run has left.                                        *)
(***************************************************************************)
EXTENDS Integers

CONSTANTS Options,  \* values of --aperf_options, and what else is in the pod's args
          MaxRuns,  \* bound on the runs of the script
          NoPod,    \* the cluster has no pod of the name
          Nothing   \* no report has been copied

\* "waiting" is the sleep after the report; "over" what comes after it, when the
\* line is in the log; "failed" an end before it.
Phases == {"pending", "record", "report", "waiting", "over", "failed"}

\* What a pod and the report copied from it have of the script's run.
Pods == [phase : Phases, options : Options, by : 1..MaxRuns]
Reports == [options : Options, by : 1..MaxRuns]

ASSUME ScriptValues == MaxRuns \in Nat /\ NoPod \notin Pods /\ Nothing \notin Reports

VARIABLES pc,       \* the command the script is at
          status,   \* how it ended
          run,      \* which run of the script this is
          options,  \* its options
          allpods,  \* /tmp/allpods.out is there
          found,    \* history: the pod that was there when the pod was applied
          copied,   \* the report this run has copied: its options and its run
          pod       \* the pod in the cluster

script == <<pc, status, run, options, allpods, found, copied>>
vars == <<script, pod>>

Places == {"check", "list", "top", "apply", "wait", "describe", "logs", "cleanup", "poll",
           "copy", "delete", "ended"}

Init == /\ pc = "ended" /\ status = "none" /\ run = 0
        /\ options \in Options
        /\ allpods \in BOOLEAN
        /\ found = NoPod /\ copied = Nothing
        /\ pod = NoPod

-----------------------------------------------------------------------------
\* The pod: its shell has set -e too, and it is never restarted.

PodGoesOn == /\ pod # NoPod
             /\ \/ pod.phase = "pending" /\ pod' = [pod EXCEPT !.phase = "record"]
                \/ pod.phase = "record" /\ pod' = [pod EXCEPT !.phase = "report"]
                \/ pod.phase = "report" /\ pod' = [pod EXCEPT !.phase = "waiting"]
             /\ UNCHANGED script

\* aperf fails, the container is over its memory limit, the image cannot be pulled.
PodFails == /\ pod # NoPod
            /\ pod.phase \in {"pending", "record", "report"}
            /\ pod' = [pod EXCEPT !.phase = "failed"]
            /\ UNCHANGED script

\* The two hours are over, or the container is killed in them.
PodOver == /\ pod # NoPod
           /\ pod.phase = "waiting"
           /\ pod' = [pod EXCEPT !.phase = "over"]
           /\ UNCHANGED script

\* Somebody else deletes the pod, or its node goes.
PodLost == /\ pod # NoPod
           /\ pod' = NoPod
           /\ UNCHANGED script

Ready == pod # NoPod /\ pod.phase \in {"record", "report", "waiting"}

-----------------------------------------------------------------------------
\* The script.

GoTo(place) == pc' = place /\ status' = status
Exit(s) == pc' = "ended" /\ status' = s

Start == /\ pc = "ended" /\ run < MaxRuns
         /\ pc' = "check" /\ status' = "none"
         /\ run' = run + 1
         /\ options' \in Options
         /\ found' = NoPod /\ copied' = Nothing
         /\ UNCHANGED <<allpods, pod>>

\* The instance type of the node and the policy of the namespace, which may
\* forbid privileged pods.
Check == /\ pc = "check"
         /\ GoTo("list") \/ Exit("failed")
         /\ UNCHANGED <<run, options, allpods, found, copied, pod>>

\* rm fails when the file is not there, which ends the script.
RemoveList == /\ pc = "list"
              /\ IF allpods THEN GoTo("top") ELSE Exit("failed")
              /\ allpods' = FALSE
              /\ UNCHANGED <<run, options, found, copied, pod>>

\* The list is written; only a grep that finds nothing, the last of the commands
\* joined by &&, ends the script.
TopPods == /\ pc = "top"
           /\ allpods' = TRUE
           /\ GoTo("apply") \/ Exit("failed")
           /\ UNCHANGED <<run, options, found, copied, pod>>

\* The pod is there as it is wanted; the arguments of a pod cannot be changed.
Unchanged == pod # NoPod /\ pod.options = options

Apply == /\ pc = "apply"
         /\ found' = pod
         /\ \/ /\ pod = NoPod
               /\ pod' = [phase |-> "pending", options |-> options, by |-> run]
               /\ GoTo("wait")
            \/ /\ Unchanged
               /\ pod' = pod
               /\ GoTo("wait")
         /\ UNCHANGED <<run, options, allpods, copied>>

\* Mutant: the script goes on when kubectl apply has failed.
ApplyFails_Ignored == /\ pc = "apply"
                      /\ GoTo("wait")
                      /\ found' = pod
                      /\ UNCHANGED <<run, options, allpods, copied, pod>>

\* The pod is not admitted, or is there with other options.
ApplyFails == /\ pc = "apply"
              /\ Exit("failed")
              /\ found' = pod
              /\ UNCHANGED <<run, options, allpods, copied, pod>>

WaitReady == /\ pc = "wait"
             /\ \/ Ready /\ GoTo("poll")
                \/ GoTo("describe")     \* the timeout, or an error of kubectl
             /\ UNCHANGED <<run, options, allpods, found, copied, pod>>

Describe == /\ pc = "describe"
            /\ \/ pod # NoPod /\ GoTo("logs")
               \/ Exit("failed")
            /\ UNCHANGED <<run, options, allpods, found, copied, pod>>

\* A container that has not been started has no log.
ShowLogs == /\ pc = "logs"
            /\ \/ pod # NoPod /\ pod.phase # "pending" /\ GoTo("cleanup")
               \/ Exit("failed")
            /\ UNCHANGED <<run, options, allpods, found, copied, pod>>

\* The forced delete, whose failure is ignored.
Cleanup == /\ pc = "cleanup"
           /\ pod' \in {pod, NoPod}
           /\ Exit("failed")
           /\ UNCHANGED <<run, options, allpods, found, copied>>

\* Mutant: what is asked is whether the pod is still waiting.
LinePrinted_Running == pod # NoPod /\ pod.phase = "waiting"

\* The line is in the log, which a pod that is over still has.
LinePrinted == pod # NoPod /\ pod.phase \in {"waiting", "over"}

\* As long as the line is not found the loop sleeps and asks again.
Poll == /\ pc = "poll"
        /\ LinePrinted
        /\ GoTo("copy")
        /\ UNCHANGED <<run, options, allpods, found, copied, pod>>

\* Mutant: the script goes on when kubectl cp has failed.
CopyFails_Ignored == /\ pc = "copy"
                     /\ GoTo("delete")
                     /\ UNCHANGED <<run, options, allpods, found, copied, pod>>

CopyFails == /\ pc = "copy"
             /\ Exit("failed")
             /\ UNCHANGED <<run, options, allpods, found, copied, pod>>

\* kubectl cp runs tar in the container, which must be running.
Copy == /\ pc = "copy"
        /\ pod # NoPod /\ pod.phase = "waiting"
        /\ copied' = [options |-> pod.options, by |-> pod.by]
        /\ GoTo("delete")
        /\ UNCHANGED <<run, options, allpods, found, pod>>

Delete == /\ pc = "delete"
          /\ pod # NoPod
          /\ pod' = NoPod
          /\ Exit("ok")
          /\ UNCHANGED <<run, options, allpods, found, copied>>

DeleteFails == /\ pc = "delete"
               /\ Exit("failed")
               /\ UNCHANGED <<run, options, allpods, found, copied, pod>>

\* The user interrupts the script; the pod stays.
Interrupt == /\ pc # "ended"
             /\ Exit("interrupted")
             /\ UNCHANGED <<run, options, allpods, found, copied, pod>>

-----------------------------------------------------------------------------
Script == \/ Check \/ RemoveList \/ TopPods \/ Apply \/ ApplyFails
          \/ WaitReady \/ Describe \/ ShowLogs \/ Cleanup
          \/ Poll \/ Copy \/ CopyFails \/ Delete \/ DeleteFails

Pod == PodGoesOn \/ PodFails \/ PodOver \/ PodLost

Terminated == pc = "ended" /\ run = MaxRuns /\ pod = NoPod /\ UNCHANGED vars

Next == Start \/ Script \/ Interrupt \/ Pod \/ Terminated

\* The script's commands return, and what runs in the pod ends: aperf after its
\* period.  Nothing is assumed of the end of the sleep, of failures or of the user.
Fairness == WF_vars(Script) /\ WF_vars(PodGoesOn \/ PodFails)

Spec == Init /\ [][Next]_vars
FairSpec == Spec /\ Fairness

-----------------------------------------------------------------------------
\* Properties.

\* The kinds of value the script and the cluster keep.
TypeOK == /\ pc \in Places
          /\ status \in {"none", "ok", "failed", "interrupted"}
          /\ run \in 0..MaxRuns
          /\ options \in Options
          /\ allpods \in BOOLEAN
          /\ found \in Pods \cup {NoPod}
          /\ copied \in Reports \cup {Nothing}
          /\ pod \in Pods \cup {NoPod}

\* The report a run copies was recorded with the options of that run, whatever
\* pods interrupted runs have left on the node; and it is the run's own when no
\* pod was there.  (A pod that was left with the same options is taken as it is.)
RightReport == copied # Nothing => /\ copied.options = options
                                   /\ found = NoPod => copied.by = run

\* A run that says "Done!" has copied a report, and the pod it was copied from is
\* gone: none of the failures on the way is passed over.
SuccessMeansCopied == status = "ok" => pc = "ended" /\ copied # Nothing /\ pod = NoPod

\* The loop that waits for the line ends, unless the pod fails before it has
\* printed it or goes: then the loop polls for ever.
PollEnds == pc = "poll" ~> \/ pc = "ended"
                           \/ pod = NoPod
                           \/ pod.phase = "failed"
=============================================================================
