---------------------------- MODULE MCDataTypes ----------------------------
(***************************************************************************)
(* DataTypes for two samples of two writes each, three CPUs and a          *)
(* configuration file of seven items.                                      *)
(***************************************************************************)
EXTENDS DataTypes, TLC

CONSTANTS free, avail, huge, nmi, err, vmstat, netstat, aperf, swap, rss_key,
          cpus, region, hostname, net, fs, usb

MCCpuNumbers == 0..2

\* Nothing depends on which prompt is which.
MCPrompts == Permutations(Titles)
=============================================================================
