----------------------------- MODULE MCRecorder -----------------------------
(***************************************************************************)
(* Recorder for one static collector, two sampled ones and the three       *)
(* profilers of the code, with each combination of --profile and           *)
(* --profile-java.                                                         *)
(***************************************************************************)
EXTENDS Recorder

CONSTANTS systeminfo, cpu, vmstat, perf, flamegraph, java

MCOptions == {{}, {java}, {perf, flamegraph}, {perf, flamegraph, java}}
=============================================================================
