--------------------------- MODULE MCPmuPipeline ---------------------------
(***************************************************************************)
(* PmuPipeline for two events and CPUs of different speed.                 *)
(***************************************************************************)
EXTENDS PmuPipeline

CONSTANTS ipc, stalls

Event(n, nrs, drs, scale) == [name |-> n, nrs |-> nrs, drs |-> drs, scale |-> scale]

MCBase == <<Event(ipc, 1, 1, 1)>>
MCPlatform == <<Event(ipc, 2, 1, 1), Event(stalls, 1, 1, 1)>>
MCBuiltIn == {MCBase, MCPlatform}

\* A file with one name twice, and one without denominators.
MCProvided == {<<Event(ipc, 1, 1, 1), Event(ipc, 1, 2, 1)>>, <<Event(stalls, 1, 0, 0)>>}

MCTyped == {Event(ipc, 1, 2, 1), Event(stalls, 1, 1, 1), Event(stalls, 1, 1, 0)}

MCRate == [c \in 0..2 |-> IF c = 0 THEN 1 ELSE 2]

\* One CPU, two, and two between which one is offline.
MCOnline == {{0}, {0, 1}, {0, 2}}
=============================================================================
