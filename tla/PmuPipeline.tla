---------------------------- MODULE PmuPipeline ----------------------------
(***************************************************************************)
(* From the dialogue that writes a PMU file to the report of what was      *)
(* counted with it: aperf custom-pmu, then aperf record --pmu-config with  *)
(* one of the files on disk, then aperf report.  What is Broken for the    *)
(* dialogue is Unreadable for the recording.                               *)
(***************************************************************************)
EXTENDS PerfCounters, CustomPmu

CONSTANTS Online  \* the sets of CPUs that may be online

\* All events there are.
NamedCtrs == Events \cup Range(BaseEvents) \cup Range(PlatformEvents)

ASSUME Dialogue == /\ ListsOfEvents
                   /\ \A l \in Lists : Len(l) <= MaxEvents
                   /\ BaseEvents \in Seq(NamedCtrs) /\ PlatformEvents \in Seq(NamedCtrs)
                   /\ \A e \in NamedCtrs : e.scale \in Nat /\ e.nrs \in Nat /\ e.drs \in Nat
                   /\ Unnamed \notin Files
                   /\ Unreadable = Broken /\ Broken # Absent
                   /\ {Broken, Absent, NoConfig} \cap Lists = {}
                   /\ Online \subseteq (SUBSET Cpus) \ {{}}

\* The recording has not been started.
PipelineInit == /\ DialogueInit
                /\ Idle
                /\ pmu_config = Absent
                /\ online \in Online

Edit == /\ DialogueNext
        /\ UNCHANGED vars

\* The recording is started with one of the files, or with none.  (With a file
\* that is not there the collector is excluded, as with one CPU offline.)
Launch == /\ screen \in Finished /\ pmu_config = Absent
          /\ pmu_config' \in ({disk[f] : f \in Files} \ {Absent}) \cup {NoConfig}
          /\ UNCHANGED <<dialogue, online, stage, setup, at, data, samples, shown, counted>>

Count == /\ pmu_config # Absent
         /\ Next
         /\ UNCHANGED dialogue

PipelineNext == Edit \/ Launch \/ Count

PipelineSpec == PipelineInit /\ [][PipelineNext]_<<vars, dialogue>>
=============================================================================
