---------------------------- MODULE MCEksScript ----------------------------
(***************************************************************************)
(* EksScript for two sets of options.                                      *)
(***************************************************************************)
EXTENDS EksScript

MCOptions == {"brief", "long"}
=============================================================================
