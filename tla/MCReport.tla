------------------------------ MODULE MCReport ------------------------------
(***************************************************************************)
(* Report for three recordings, two of the same name, and an earlier       *)
(* report that holds two of them.                                          *)
(***************************************************************************)
EXTENDS Report

CONSTANTS a1, a2, b, blue, green, earlier, cpu, flame

MCNameOf == [p \in {a1, a2, b} |-> IF p = b THEN green ELSE blue]
MCInside == [r \in {earlier} |-> {a2, b}]

\* A whole recording, one with a collector excluded, one of another version
\* of aperf and a directory that is no recording.
MCContents == {[file |-> {cpu, flame}, data |-> {cpu}],
               [file |-> {cpu, flame}, data |-> {}],
               [file |-> {cpu}, data |-> {cpu}],
               [file |-> {flame}, data |-> {}],
               [file |-> {}, data |-> {}]}
=============================================================================
