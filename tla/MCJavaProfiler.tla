--------------------------- MODULE MCJavaProfiler ---------------------------
(***************************************************************************)
(* JavaProfiler for three pids: two JVMs of the same class, and one whose   *)
(* process is not called java.                                             *)
(***************************************************************************)
EXTENDS JavaProfiler

CONSTANTS p1, p2, p3, kafka, tomcat

MCNameOf == [p \in Pids |-> IF p = p3 THEN tomcat ELSE kafka]

\* No argument, a name that two JVMs have, and a pid with a name.
MCRequests == {{"jps"}, {kafka}, {p1, tomcat}}
=============================================================================
