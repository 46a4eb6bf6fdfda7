--------------------------- MODULE MCCollectLoop ---------------------------
(***************************************************************************)
(* CollectLoop with the values TLC checks it for.  The interval of 2       *)
(* divides the period of 4, so that the test at its end is met with        *)
(* equality, and leaves room for a late second between two expirations;    *)
(* the clock runs two intervals past the period, so that a slow collector  *)
(* can miss several expirations at once.                                   *)
(***************************************************************************)
EXTENDS CollectLoop
=============================================================================
