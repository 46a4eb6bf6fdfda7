----------------------------- MODULE MCFrontEnd -----------------------------
(***************************************************************************)
(* FrontEnd for reports of one to three runs that differ in everything a   *)
(* report may lack or hold.  Limits are tens, so that a tenth is whole.    *)
(***************************************************************************)
EXTENDS FrontEnd, TLC

CONSTANTS a, b, p, q

Zero == [low |-> 0, high |-> 0]
Run1 == [has |-> {"cpu", "settings", "profile"}, cpus |-> 2,
         keys |-> <<a>>, limits |-> a :> [low |-> 10, high |-> 30],
         settings |-> p :> 1 @@ q :> 1]
Run2 == [has |-> {"cpu", "settings"}, cpus |-> 1,
         keys |-> <<b, a>>, limits |-> a :> [low |-> 20, high |-> 150] @@ b :> Zero,
         settings |-> q :> 2]
Run3 == [has |-> {"settings"}, cpus |-> 0,
         keys |-> <<b>>, limits |-> b :> [low |-> 10, high |-> 10],
         settings |-> p :> 1 @@ q :> 2]
Bare == [has |-> {}, cpus |-> 0, keys |-> <<>>, limits |-> <<>>, settings |-> <<>>]

MCReports == {<<Run1>>, <<Run1, Run2>>, <<Run2, Run1>>, <<Run2, Bare>>, <<Run3, Run2, Run1>>}
=============================================================================
