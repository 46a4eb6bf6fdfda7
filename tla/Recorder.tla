------------------------------ MODULE Recorder ------------------------------
(***************************************************************************)
(* aperf record from its arguments to the archive: record(), the methods   *)
(* of PerformanceData it calls and the part of main() that cleans up.      *)
(* Each pass over the collectors visits a HashMap, so `todo' holds the     *)
(* ones still to be visited and any of them may be next; at each visit the *)
(* collector may fail.  Collectors that launch a profiler own a child      *)
(* process, which runs beside all of this.  When the collection loop takes *)
(* a sample and when it ends is CollectLoop's matter: here it may do       *)
(* either whenever it polls.                                               *)
(***************************************************************************)
EXTENDS Integers, FiniteSets

CONSTANTS Static,      \* collectors of data read once: system info, kernel config
          Sampled,     \* collectors sampled in every round: cpu, vmstat, ...
          Profilers,   \* collectors the user must ask for: is_profile_option
          Launchers,   \* the profilers that run as a child process
          Perf,        \* the one that runs perf record
          Options,     \* the sets of profilers command lines can ask for
          Frequencies, \* the values --perf-frequency is given
          Default,     \* the frequency of CollectorParams::new, 99
          MaxRounds,   \* bound on the rounds of the collection loop
          NoArchive,   \* no archive has been written
          Nobody       \* no child is being waited for

Collectors == Static \cup Sampled \cup Profilers

\* The three kinds of collector are disjoint, as is_static and
\* is_profile_option make them, and only profilers launch anything.
ASSUME Kinds == /\ Static \cap Sampled = {}
                /\ Static \cap Profilers = {}
                /\ Sampled \cap Profilers = {}
                /\ Perf \in Launchers /\ Launchers \subseteq Profilers
                /\ Options \subseteq SUBSET Profilers
                /\ Nobody \notin Collectors

ASSUME Numbers == /\ MaxRounds \in Nat
                  /\ Default \in Frequencies
                  /\ Frequencies \subseteq Nat \ {0}

ASSUME ArchiveValue == \A S \in SUBSET Collectors : NoArchive \notin [S -> Nat]

VARIABLES requested,   \* keys of init_params.profile
          frequency,   \* init_params.perf_frequency
          phase,       \* the method that is running, or how the process ended
          todo,        \* collectors the running pass has not visited yet
          collectors,  \* keys of the HashMap of collectors
          dropped,     \* remove_entries of prepare_data_collectors
          records,     \* values appended to the file of each collector
          rounds,      \* rounds completed: statistics appended
          child,       \* the child processes of each launcher, running until all exited
          waiting,     \* the launcher whose children are being waited for
          perf_frequency, \* collector_params.perf_frequency
          archive,     \* the archive: the files put into it, with their records
          sealed,      \* it ends as an archive does: all that was put into it is there
          tmp          \* the temporary directory exists

vars == <<requested, frequency, phase, todo, collectors, dropped, records,
          rounds, child, waiting, perf_frequency, archive, sealed, tmp>>

\* What record() and the command line have fixed.
arguments == <<requested, frequency>>

\* What is left for a report to read.
output == <<archive, sealed>>

\* How the process ends: normally, with an error that main() returns, by
\* process::exit, or by a signal that it does not handle.
Ended == {"complete", "failed", "exited", "killed"}

Init == /\ requested \in Options
        /\ frequency \in IF Perf \in requested THEN Frequencies ELSE {Default}
        /\ phase = "start"
        /\ todo = {}
        /\ collectors = Collectors
        /\ dropped = {}
        /\ records = [c \in Collectors |-> 0]
        /\ rounds = 0
        /\ child = [c \in Launchers |-> "none"]
        /\ waiting = Nobody
        /\ perf_frequency = Default
        /\ archive = NoArchive
        /\ sealed = FALSE
        /\ tmp = TRUE

-----------------------------------------------------------------------------
\* Passes.

\* A pass over the collectors in S begins.
Begin(p, S) == phase' = p /\ todo' = S

\* The pass visits c.
Visit(p, c) == /\ phase = p
               /\ c \in todo
               /\ todo' = todo \ {c}

\* The pass has visited all its collectors.
Over(p) == phase = p /\ todo = {}

-----------------------------------------------------------------------------
\* init_collectors.

\* The directory, the meta data and the statistics file are created.
CreateDir == /\ phase = "start"
             /\ Begin("init", collectors)
             /\ UNCHANGED <<arguments, collectors, dropped, records, rounds, child,
                            waiting, perf_frequency, output, tmp>>

\* init_data_type creates the file of c and copies the parameters of the run
\* into collector_params, all but perf_frequency.
InitOne(c) == /\ Visit("init", c)
              /\ UNCHANGED <<arguments, phase, collectors, dropped, records, rounds,
                             child, waiting, perf_frequency, output, tmp>>

InitOver == /\ Over("init")
            /\ Begin("prepare", collectors)
            /\ UNCHANGED <<arguments, collectors, dropped, records, rounds, child,
                           waiting, perf_frequency, output, tmp>>

-----------------------------------------------------------------------------
\* prepare_data_collectors.

\* Static collectors are skipped, a profiler nobody asked for is removed.
SkipStatic(c) == /\ Visit("prepare", c)
                 /\ c \in Static
                 /\ UNCHANGED <<arguments, phase, collectors, dropped, records,
                                rounds, child, waiting, perf_frequency, output, tmp>>

DropUnrequested(c) ==
    /\ Visit("prepare", c)
    /\ c \in Profilers \ requested
    /\ dropped' = dropped \cup {c}
    /\ UNCHANGED <<arguments, phase, collectors, records, rounds, child, waiting,
                   perf_frequency, output, tmp>>

\* Children are launched for c, or there is nothing to launch one for.
Launch(c, otherwise) ==
    \E s \in {"running", otherwise} : child' = [child EXCEPT ![c] = s]

\* The collector prepares; a launcher may have started its child by then.
Prepare(c) == /\ Visit("prepare", c)
              /\ c \in Sampled \cup requested
              /\ CASE c = Perf -> Launch(c, "running")
                   [] c \in Launchers \ {Perf} -> Launch(c, "none")
                   [] OTHER -> UNCHANGED child
              /\ UNCHANGED <<arguments, phase, collectors, dropped, records, rounds,
                             waiting, perf_frequency, output, tmp>>

\* Mutant: a profiler that cannot run is excluded like any other collector.
Excludable_Any(c) == c \in Sampled \cup requested

\* A collector that may be missing from the archive.
Excludable(c) == c \in Sampled

\* It cannot: it is excluded, but a profiler the user asked for ends the process
\* at once, and nothing is cleaned up, not even the children already running.
Exclude(c) == /\ Visit("prepare", c)
              /\ Excludable(c)
              /\ dropped' = dropped \cup {c}
              /\ UNCHANGED <<arguments, phase, collectors, records, rounds, child,
                             waiting, perf_frequency, output, tmp>>

ExitProcess(c) == /\ phase = "prepare" /\ c \in todo
                  /\ c \in requested
                  /\ phase' = "exited"
                  /\ UNCHANGED <<arguments, todo, collectors, dropped, records,
                                 rounds, child, waiting, perf_frequency, output, tmp>>

\* Mutant: what is to be removed stays in the HashMap.
Remaining_All == collectors

\* The collectors left once remove_entries is worked off.
Remaining == collectors \ dropped

PrepareOver == /\ Over("prepare")
               /\ collectors' = Remaining
               /\ Begin("static", Remaining)
               /\ UNCHANGED <<arguments, dropped, records, rounds, child, waiting,
                              perf_frequency, output, tmp>>

-----------------------------------------------------------------------------
\* collect_static_data and collect_data_serial.

\* collect_data and write_to_file of one collector.
Append(c) == records' = [records EXCEPT ![c] = @ + 1]

StaticOne(c) == /\ Visit("static", c)
                /\ IF c \in Static THEN Append(c) ELSE UNCHANGED records
                /\ UNCHANGED <<arguments, phase, collectors, dropped, rounds, child,
                               waiting, perf_frequency, output, tmp>>

StaticOver == /\ Over("static")
              /\ phase' = "poll"
              /\ UNCHANGED <<arguments, todo, collectors, dropped, records, rounds,
                             child, waiting, perf_frequency, output, tmp>>

\* The timer was readable: every collector that is not static takes a sample.
RoundStart == /\ phase = "poll"
              /\ rounds < MaxRounds
              /\ Begin("round", collectors)
              /\ UNCHANGED <<arguments, collectors, dropped, records, rounds, child,
                             waiting, perf_frequency, output, tmp>>

\* Whether c takes part in the rounds.
InRound(c) == c \notin Static

\* The java collector may find new JVMs in a round and launch children for them.
RoundOne(c) == /\ Visit("round", c)
               /\ IF InRound(c) THEN Append(c) ELSE UNCHANGED records
               /\ IF c \in Launchers \ {Perf} THEN Launch(c, child[c])
                                            ELSE UNCHANGED child
               /\ UNCHANGED <<arguments, phase, collectors, dropped, rounds, waiting,
                              perf_frequency, output, tmp>>

\* Mutant: the round ends, and a signal breaks the loop, before the pass is over.
RoundDone_Early == phase = "round"

\* The pass over the collectors is complete.
RoundDone == Over("round")

\* The statistics of the round are appended.
RoundOver == /\ RoundDone
             /\ rounds' = rounds + 1
             /\ phase' = "poll"
             /\ UNCHANGED <<arguments, todo, collectors, dropped, records, child,
                            waiting, perf_frequency, output, tmp>>

\* The period is over, or a signal was read.
LoopEnds == /\ phase = "poll"
            /\ Begin("finish", collectors)
            /\ UNCHANGED <<arguments, collectors, dropped, records, rounds, child,
                           waiting, perf_frequency, output, tmp>>

-----------------------------------------------------------------------------
\* set_signal and finish_data_collection, then after_data_collection.

\* Mutants: the check for a child, and for a collector that has any, is dropped.
HasChild_Launcher(c) == c \in Launchers

\* Whether finishing c has a child to wait for.
HasChild(c) == c \in Launchers /\ child[c] # "none"

\* A launcher with a child signals it, running or not, and waits for it.
Signal(c) == /\ Visit("finish", c)
             /\ waiting = Nobody
             /\ waiting' = IF HasChild(c) THEN c ELSE Nobody
             /\ UNCHANGED <<arguments, phase, collectors, dropped, records, rounds,
                            child, perf_frequency, output, tmp>>

\* Mutant: the exit of the child is not waited for.
Reapable_Any(c) == TRUE

\* wait() returns when the child has exited.
Reapable(c) == child[c] = "exited"

\* The child is reaped and its output written into the directory.
Reap == /\ phase = "finish"
        /\ waiting # Nobody
        /\ Reapable(waiting)
        /\ child' = [child EXCEPT ![waiting] =
                        IF @ = "exited" THEN "reaped" ELSE @]
        /\ waiting' = Nobody
        /\ UNCHANGED <<arguments, phase, todo, collectors, dropped, records, rounds,
                       perf_frequency, output, tmp>>

FinishOver == /\ Over("finish")
              /\ waiting = Nobody
              /\ Begin("after", collectors)
              /\ UNCHANGED <<arguments, collectors, dropped, records, rounds, child,
                             waiting, perf_frequency, output, tmp>>

\* perf inject, perf script and the flamegraph, for the collector that draws it.
AfterOne(c) == /\ Visit("after", c)
               /\ UNCHANGED <<arguments, phase, collectors, dropped, records, rounds,
                              child, waiting, perf_frequency, output, tmp>>

AfterOver == /\ Over("after")
             /\ phase' = "end"
             /\ UNCHANGED <<arguments, todo, collectors, dropped, records, rounds,
                            child, waiting, perf_frequency, output, tmp>>

-----------------------------------------------------------------------------
\* end, and the rest of main.

\* The run log is copied into the directory and the archive's file created.  The
\* file of every collector is to go into it, the empty ones of those dropped too.
CreateArchive == /\ phase = "end"
                 /\ archive' = [c \in {} |-> 0]
                 /\ Begin("archive", Collectors)
                 /\ UNCHANGED <<arguments, collectors, dropped, records, rounds, child,
                                waiting, perf_frequency, sealed, tmp>>

\* The archive with n of the records of c.
With(c, n) == [d \in DOMAIN archive \cup {c} |-> IF d = c THEN n ELSE archive[d]]

\* append_dir_all puts one file after the other into it, in the order in which
\* the directory lists them.
AddFile(c) == /\ Visit("archive", c)
              /\ archive' = With(c, records[c])
              /\ UNCHANGED <<arguments, phase, collectors, dropped, records, rounds,
                             child, waiting, perf_frequency, sealed, tmp>>

\* The archive ends only when the encoder is dropped, which discards any error: an
\* archive that is not sealed may stop short of any of the files put into it.
SealArchive == /\ Over("archive")
               /\ phase' = "archived"
               /\ sealed' \in BOOLEAN
               /\ UNCHANGED <<arguments, todo, collectors, dropped, records, rounds,
                              child, waiting, perf_frequency, archive, tmp>>

\* main() removes the temporary directory.
CleanUp == /\ phase = "archived"
           /\ phase' = "complete"
           /\ tmp' = FALSE
           /\ UNCHANGED <<arguments, todo, collectors, dropped, records, rounds,
                          child, waiting, perf_frequency, output>>

\* What an error leaves of the archive that is being made: the file being added
\* may be cut short, and the encoder that is dropped may still seal it.
Broken == /\ \/ archive' = archive
             \/ \E c \in todo : \E n \in 0..records[c] : archive' = With(c, n)
          /\ sealed' \in BOOLEAN

\* Anything marked with `?' or expect() may fail, from the creation of the
\* directory to the removal of the temporary one.  The error ends main(), where the
\* TempDir is dropped, which discards errors too.
Fallible == {"start", "init", "static", "poll", "round", "finish", "after", "end",
             "archive", "archived"}

Fail == /\ phase \in Fallible
        /\ phase' = "failed"
        /\ IF phase = "archive" THEN Broken ELSE UNCHANGED output
        /\ tmp' \in BOOLEAN
        /\ UNCHANGED <<arguments, todo, collectors, dropped, records, rounds, child,
                       waiting, perf_frequency>>

\* SIGKILL at any time, SIGINT or SIGTERM before the loop blocks them.  An archive
\* that is being made then stays as it is, without its end.
Kill == /\ phase \notin Ended
        /\ phase' = "killed"
        /\ UNCHANGED <<arguments, todo, collectors, dropped, records, rounds, child,
                       waiting, perf_frequency, output, tmp>>

-----------------------------------------------------------------------------
\* The children.

\* A child exits: its time is over (perf runs `sleep', asprof has -d), it was
\* signalled by aperf or by the user, or it failed.
ChildExits(c) == /\ child[c] = "running"
                 /\ child' = [child EXCEPT ![c] = "exited"]
                 /\ UNCHANGED <<arguments, phase, todo, collectors, dropped, records,
                                rounds, waiting, perf_frequency, output, tmp>>

-----------------------------------------------------------------------------
\* The specification.

VisitOne(c) == \/ InitOne(c)
               \/ SkipStatic(c) \/ DropUnrequested(c) \/ Prepare(c)
               \/ StaticOne(c)
               \/ RoundOne(c)
               \/ Signal(c)
               \/ AfterOne(c)
               \/ AddFile(c)

Step == \/ \E c \in Collectors : VisitOne(c)
        \/ CreateDir \/ InitOver \/ PrepareOver \/ StaticOver
        \/ RoundStart \/ RoundOver \/ LoopEnds
        \/ Reap \/ FinishOver \/ AfterOver
        \/ CreateArchive \/ SealArchive \/ CleanUp

Disrupt == \/ \E c \in Collectors : Exclude(c) \/ ExitProcess(c)
           \/ Fail
           \/ Kill

Terminated == phase \in Ended /\ UNCHANGED vars

Next == Step \/ Disrupt \/ (\E c \in Launchers : ChildExits(c)) \/ Terminated

\* aperf is scheduled, and no child runs for ever.
Fairness == /\ WF_vars(Step)
            /\ \A c \in Launchers : WF_vars(ChildExits(c))

Spec == Init /\ [][Next]_vars
FairSpec == Spec /\ Fairness

-----------------------------------------------------------------------------
\* Properties.

\* None, or one with some of the files in it.
Archives == {NoArchive} \cup UNION {[S -> Nat] : S \in SUBSET Collectors}

\* The kinds of value the program's variables take.
TypeOK == /\ requested \in Options
          /\ frequency \in Frequencies
          /\ phase \in {"start", "init", "prepare", "static", "poll", "round",
                        "finish", "after", "end", "archive", "archived"} \cup Ended
          /\ todo \subseteq Collectors
          /\ collectors \subseteq Collectors
          /\ dropped \subseteq Collectors
          /\ records \in [Collectors -> Nat]
          /\ rounds \in 0..MaxRounds
          /\ child \in [Launchers -> {"none", "running", "exited", "reaped"}]
          /\ waiting \in Launchers \cup {Nobody}
          /\ perf_frequency \in Nat
          /\ archive \in Archives
          /\ sealed \in BOOLEAN
          /\ tmp \in BOOLEAN

\* The phases in which no round is under way and none has failed.
BetweenRounds == {"poll", "finish", "after", "end", "archive", "archived",
                  "complete"}

\* However a pass orders the collectors and wherever the loop is left, between
\* rounds the files hold one sample per round, and static data once: a signal
\* that ends the loop never cuts a round in two.
SamplesUniform ==
    phase \in BetweenRounds =>
        \A c \in collectors : records[c] = IF c \in Static THEN 1 ELSE rounds

\* A collector excluded while preparing is never visited again: its file, which
\* was created before, stays empty.
DroppedStaysEmpty == \A c \in dropped : records[c] = 0

\* "All activities in the record folder should be complete before this"
\* (lib.rs:368): no profiler is running, not even unreaped, when the profile is
\* post-processed, when the directory is archived, or afterwards.
QuietDirectory ==
    phase \in {"after", "end", "archive", "archived", "complete"} =>
        \A c \in Launchers : child[c] \in {"none", "reaped"}

\* Every recording ends, for every order of visits and every failure: no wait
\* for a child lasts for ever.
Termination == <>(phase \in Ended)

\* The code makes the archive Recording promises, and leaves no more of it than
\* Recording says where it fails or is killed: the phases up to the loop prepare
\* it, those up to end() close it.
Status == CASE phase \in {"start", "init", "prepare", "static"} -> "preparing"
            [] phase \in {"poll", "round"} -> "sampling"
            [] phase \in {"finish", "after", "end"} -> "closing"
            [] phase = "archive" -> "archiving"
            [] phase \in {"archived", "complete"} -> "archived"
            [] OTHER -> "failed"

Promise == INSTANCE Recording WITH status <- Status
ImplementsRecording == Promise!Spec

\* "Frequency for perf profiling (Hz)" is what --perf-frequency says it sets
\* (record.rs:26), and what record() sets it for: perf runs with it.
PerfAtRequestedFrequency ==
    child[Perf] # "none" => perf_frequency = frequency
=============================================================================
