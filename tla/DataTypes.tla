----------------------------- MODULE DataTypes -----------------------------
(***************************************************************************)
(* The kinds of data that are not counters, one beside the other, as the   *)
(* collectors and visualizers of data.rs are: a call goes to the type of   *)
(* the data it is about, and no type touches what another one keeps.       *)
(***************************************************************************)
EXTENDS DataFile, PerfProfile, KernelConfig

VARIABLE variant  \* the type of the data

ASSUME TypesValues == MaxBlocks \in Nat /\ MaxRounds \in Nat

TypesInit == /\ variant \in {"read", "config", "profile"}
             /\ FileInit
             /\ ConfigInit
             /\ ProfileInit
             \* What is left alone is in one state.
             /\ variant # "read" => data = "meminfo"
             /\ variant # "config" => items = 0

\* A call of one of the kinds that DataFile has.
Plain == /\ variant = "read" /\ FileNext
         /\ UNCHANGED <<variant, configVars, profileVars>>

KernelConfiguration == /\ variant = "config" /\ ConfigNext
                       /\ UNCHANGED <<variant, fileVars, profileVars>>

PerfProfiling == /\ variant = "profile" /\ ProfileNext
                 /\ UNCHANGED <<variant, fileVars, configVars>>

TypesNext == Plain \/ KernelConfiguration \/ PerfProfiling

TypesSpec == TypesInit /\ [][TypesNext]_<<variant, fileVars, configVars, profileVars>>
=============================================================================
