-------------------------- MODULE MCCounterSeries --------------------------
(***************************************************************************)
(* CounterSeries for two disks, two CPUs, two kinds of time and two        *)
(* processes of one name.                                                  *)
(***************************************************************************)
EXTENDS CounterSeries

CONSTANTS sda, sdb, user, idle, proc1, proc2

MCCpus == {0, 1}
=============================================================================
