---------------------------- MODULE JavaProfiler ----------------------------
(***************************************************************************)
(* The collector behind --profile-java (data/java_profile.rs).  It asks    *)
(* pgrep for processes called java and jps for the names of JVMs, and      *)
(* launches one asprof per JVM it is to profile: at the start of the       *)
(* recording and, when all JVMs are to be profiled, also for JVMs that a   *)
(* later sample finds.  JVMs start and exit meanwhile, between pgrep and   *)
(* jps too, and each asprof runs beside aperf until its time is over.      *)
(***************************************************************************)
EXTENDS Integers, Sequences, FiniteSets

CONSTANTS Pids,           \* process ids JVMs may have
          Names,          \* class and jar names jps may print
          NameOf,         \* the name of the JVM a pid belongs to
          Listed,         \* pids jps prints when they run: it hides other users' JVMs
          Matched,        \* pids pgrep prints when they run: the process is called java
          Requests,       \* values of --profile-java, as sets of arguments
          CollectionTime, \* collector_params.collection_time, seconds
          MaxElapsed,     \* bound on elapsed_time
          Absent,         \* the process map has no entry
          Unresolved      \* the entry "Could not resolve name!"

\* The value --profile-java has when no argument is given.
AllJvms == {"jps"}

ASSUME JvmValues == /\ NameOf \in [Pids -> Names]
                    /\ Listed \subseteq Pids /\ Matched \subseteq Pids
                    /\ Names \cap Pids = {}
                    /\ Absent \notin Names \cup {Unresolved} \cup Pids
                    /\ Unresolved \notin Names \cup Pids

ASSUME Times == /\ CollectionTime \in Nat \ {0}
                /\ MaxElapsed \in Nat

VARIABLES request,      \* the arguments of --profile-java
          up,           \* pids of the JVMs that run
          pc,           \* where the collector is, or how it ended
          process_map,  \* the name known for each pid
          jids,         \* JVMs still to be launched for
          elapsed_time, \* collector_params.elapsed_time
          children,     \* ASPROF_CHILDREN, a stack of the pids profiled
          exited,       \* pids whose asprof has exited
          launches,     \* history: how often asprof was launched for each pid
          span,         \* history: the seconds it was told to run, the last time
          tmpHtml,      \* profiles in the temporary directory
          html,         \* how much of each profile is in the directory of the run
          tocopy,       \* pids whose profile is still to be copied
          uncopied      \* history: pids for which fs::copy failed

jvms == <<up>>
asprofs == <<exited, tmpHtml>>
copies == <<html, tocopy, uncopied>>
vars == <<request, jvms, pc, process_map, jids, elapsed_time, children, asprofs,
          launches, span, copies>>

Init == /\ request \in Requests
        /\ up \in SUBSET Pids
        /\ pc = "prepare"
        /\ process_map = [p \in Pids |-> Absent]
        /\ jids = {}
        /\ elapsed_time = 0
        /\ children = <<>>
        /\ exited = {}
        /\ launches = [p \in Pids |-> 0]
        /\ span = [p \in Pids |-> 0]
        /\ tmpHtml = {}
        /\ html = [p \in Pids |-> "none"]
        /\ tocopy = {}
        /\ uncopied = {}

Ended == {"done", "failed"}

-----------------------------------------------------------------------------
\* JVMs, which come and go as they like, and the profilers attached to them.

\* pgrep or jps may still be run, so that it matters which JVMs there are.
Looking == pc \in {"prepare", "prepareJps", "idle", "collectJps"}

Start(p) == /\ Looking
            /\ p \notin up
            /\ up' = up \cup {p}
            /\ UNCHANGED <<request, pc, process_map, jids, elapsed_time, children,
                           asprofs, launches, span, copies>>

Stop(p) == /\ Looking
           /\ p \in up
           /\ up' = up \ {p}
           /\ UNCHANGED <<request, pc, process_map, jids, elapsed_time, children,
                          asprofs, launches, span, copies>>

\* asprof exits, at the end of its span, because of a signal, or because it
\* cannot attach; it may have written its profile.
AsprofExits(p) == /\ launches[p] > 0
                  /\ p \notin exited
                  /\ exited' = exited \cup {p}
                  /\ tmpHtml' \in {tmpHtml, tmpHtml \cup {p}}
                  /\ UNCHANGED <<request, jvms, pc, process_map, jids, elapsed_time,
                                 children, launches, span, copies>>

-----------------------------------------------------------------------------
\* prepare_data_collector and collect_data.

Known == {p \in Pids : process_map[p] # Absent}

\* Mutant: pids the map has already count as found again.
Fresh_All == up \cap Matched

\* The pids pgrep prints that the process map does not have.
Fresh == (up \cap Matched) \ Known

\* The map with an entry for each fresh pid.
WithFresh == [p \in Pids |-> IF p \in Fresh THEN Unresolved ELSE process_map[p]]

\* The map with the names jps prints: update_process_map.
WithNames ==
    [p \in Pids |-> IF p \in up \cap Listed THEN NameOf[p] ELSE process_map[p]]

\* What the arguments select from the map m: those jps prints, as pid or name.
Selected(m) ==
    LET running == up \cap Listed
        listed == running \cup {NameOf[p] : p \in running}
    IN {p \in Pids : m[p] # Absent /\ \E a \in request \cap listed : a \in {p, m[p]}}

PgrepFirst == /\ pc = "prepare"
              /\ process_map' = WithFresh
              /\ pc' = "prepareJps"
              /\ UNCHANGED <<request, jvms, jids, elapsed_time, children, asprofs,
                             launches, span, copies>>

JpsFirst == /\ pc = "prepareJps"
            /\ process_map' = WithNames
            /\ jids' = IF request = AllJvms
                       THEN {p \in Pids : WithNames[p] # Absent}
                       ELSE Selected(WithNames)
            /\ pc' = "launch"
            /\ UNCHANGED <<request, jvms, elapsed_time, children, asprofs, launches,
                           span, copies>>

\* Mutant: the check of the time is dropped.
TimeLeft_Always == TRUE

\* Time is left to profile in.
TimeLeft == elapsed_time' < CollectionTime

\* A sample: when all JVMs are profiled pgrep looks for new ones.  They enter
\* the process map even when it is too late to profile them.
Collect == /\ pc = "idle"
           /\ elapsed_time' \in elapsed_time..MaxElapsed
           /\ IF request = AllJvms
              THEN /\ process_map' = WithFresh
                   /\ IF Fresh # {} /\ TimeLeft
                      THEN pc' = "collectJps" /\ jids' = Fresh
                      ELSE UNCHANGED <<pc, jids>>
              ELSE UNCHANGED <<pc, process_map, jids>>
           /\ UNCHANGED <<request, jvms, children, asprofs, launches, span, copies>>

\* jps names the JVMs there are by now; only the ones pgrep had found are launched.
JpsAgain == /\ pc = "collectJps"
            /\ process_map' = WithNames
            /\ pc' = "launch"
            /\ UNCHANGED <<request, jvms, jids, elapsed_time, children, asprofs,
                           launches, span, copies>>

-----------------------------------------------------------------------------
\* launch_asprof.

LaunchOne(p) == /\ pc = "launch"
                /\ p \in jids
                /\ jids' = jids \ {p}
                /\ children' = Append(children, p)
                /\ launches' = [launches EXCEPT ![p] = @ + 1]
                /\ span' = [span EXCEPT ![p] = CollectionTime - elapsed_time]
                /\ UNCHANGED <<request, jvms, pc, process_map, elapsed_time, asprofs,
                               copies>>

LaunchOver == /\ pc = "launch"
              /\ jids = {}
              /\ pc' = "idle"
              /\ UNCHANGED <<request, jvms, process_map, jids, elapsed_time, children,
                             asprofs, launches, span, copies>>

-----------------------------------------------------------------------------
\* finish_data_collection.

\* Every child is sent the signal; one that has exited is a zombie and can be.
Finish == /\ pc = "idle"
          /\ pc' = "wait"
          /\ UNCHANGED <<request, jvms, process_map, jids, elapsed_time, children,
                         asprofs, launches, span, copies>>

\* `while ASPROF_CHILDREN.len() > 0'.
MoreChildren == children # <<>>

\* Mutant: the last child is looked at and stays on the stack.
Popped_Peek == children

\* The stack without the child launched last.
Popped == SubSeq(children, 1, Len(children) - 1)

\* The last child launched is popped and waited for.  wait() does not fail: nothing
\* else reaps the children.
Wait == /\ pc = "wait"
        /\ MoreChildren
        /\ children[Len(children)] \in exited
        /\ children' = Popped
        /\ UNCHANGED <<request, jvms, pc, process_map, jids, elapsed_time, asprofs,
                       launches, span, copies>>

\* All have been waited for: the keys of the process map are walked, in any order.
WaitOver == /\ pc = "wait"
            /\ ~MoreChildren
            /\ pc' = "copy"
            /\ tocopy' = Known
            /\ UNCHANGED <<request, jvms, process_map, jids, elapsed_time, children,
                           asprofs, launches, span, html, uncopied>>

\* Mutant: a copy that fails ends the walk.
MoreCopies_Stop == tocopy # {} /\ uncopied = {}

\* The walk over the map goes on.
MoreCopies == tocopy # {}

\* The walk comes to p.
VisitKey(p) == /\ pc = "copy"
               /\ MoreCopies
               /\ p \in tocopy
               /\ tocopy' = tocopy \ {p}
               /\ UNCHANGED <<request, jvms, pc, process_map, jids, elapsed_time,
                              children, asprofs, launches, span>>

\* Its profile is copied.
CopyOne(p) == /\ VisitKey(p)
              /\ p \in tmpHtml
              /\ html' = [html EXCEPT ![p] = "whole"]
              /\ UNCHANGED uncopied

\* fs::copy(..).ok(): it has none, or copying it fails, which may leave part of it.
\* Either is passed over.
CopyFails(p) == /\ VisitKey(p)
                /\ \E h \in IF p \in tmpHtml THEN {"none", "cut"} ELSE {"none"} :
                      html' = [html EXCEPT ![p] = h]
                /\ uncopied' = uncopied \cup {p}

\* It is over, and the map is written.
CopyOver == /\ pc = "copy"
            /\ ~MoreCopies
            /\ pc' = "done"
            /\ UNCHANGED <<request, jvms, process_map, jids, elapsed_time, children,
                           asprofs, launches, span, copies>>

\* pgrep, jps, asprof, kill or the file of the map fail; while preparing this
\* ends the process, later it ends the recording.  So does, at any time, a failure
\* elsewhere in aperf.
Fail == /\ pc \notin Ended
        /\ pc' = "failed"
        /\ UNCHANGED <<request, jvms, process_map, jids, elapsed_time, children,
                       asprofs, launches, span, copies>>

-----------------------------------------------------------------------------
Step == \/ PgrepFirst \/ JpsFirst
        \/ (\E p \in Pids : LaunchOne(p)) \/ LaunchOver
        \/ JpsAgain
        \/ Wait \/ WaitOver
        \/ (\E p \in Pids : CopyOne(p) \/ CopyFails(p)) \/ CopyOver

\* Nothing is left to happen: the children left running by a failure end too.
Terminated == pc \in Ended /\ UNCHANGED vars

Next == \/ \E p \in Pids : Start(p) \/ Stop(p) \/ AsprofExits(p)
        \/ Step
        \/ Collect \/ Finish
        \/ Fail
        \/ Terminated

\* aperf is scheduled; asprof ends by itself when its -d seconds are over.  The
\* loop's end, which calls Finish, is CollectLoop's matter.
Fairness == /\ WF_vars(Step)
            /\ \A p \in Pids : WF_vars(AsprofExits(p))

Spec == Init /\ [][Next]_vars
FairSpec == Spec /\ Fairness

-----------------------------------------------------------------------------
\* Properties.

\* The kinds of value the collector keeps.
TypeOK == /\ request \in Requests
          /\ up \subseteq Pids
          /\ pc \in {"prepare", "prepareJps", "idle", "collectJps", "launch", "wait",
                     "copy"} \cup Ended
          /\ process_map \in [Pids -> Names \cup {Absent, Unresolved}]
          /\ jids \subseteq Pids
          /\ elapsed_time \in 0..MaxElapsed
          /\ children \in Seq(Pids)
          /\ exited \subseteq Pids
          /\ launches \in [Pids -> Nat]
          /\ span \in [Pids -> Int]
          /\ tmpHtml \subseteq Pids
          /\ html \in [Pids -> {"none", "cut", "whole"}]
          /\ tocopy \subseteq Pids
          /\ uncopied \subseteq Pids

\* A JVM is profiled by one asprof at most: async-profiler refuses a second.
\* What keeps it so is the process map, which every way to find a JVM updates.
AtMostOneProfiler == \A p \in Pids : launches[p] <= 1

\* No asprof is told to run for no time, and `collection_time - elapsed_time',
\* both unsigned, never wraps, however late a JVM is found.
SpansPositive == \A p \in Pids : launches[p] > 0 => span[p] \in 1..CollectionTime

\* With arguments, no JVM is profiled that none of them names.
OnlySelected ==
    request # AllJvms =>
        \A p \in Pids : launches[p] > 0 => p \in request \/ NameOf[p] \in request

\* All asprofs have exited before the first profile is copied, so that none is taken
\* half written, and when the collector is done every profile written is whole in the
\* directory of the run, or copying that one has failed: a failure, which is passed
\* over, loses no other profile.
ProfilesSurvive ==
    /\ pc \in {"copy", "done"} => \A p \in Pids : launches[p] > 0 => p \in exited
    /\ pc = "done" => \A p \in tmpHtml \ uncopied : html[p] = "whole"

\* The collector finishes: no asprof keeps it waiting for ever.
FinishEnds == pc = "wait" ~> pc \in Ended

\* "Profiles all JVMs if no args are provided." (record.rs:28): a JVM the
\* collector knows while there is time left has been launched for.
KnownIsProfiled ==
    request = AllJvms /\ pc = "idle" /\ elapsed_time < CollectionTime =>
        \A p \in Known : launches[p] > 0
=============================================================================
