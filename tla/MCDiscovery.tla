----------------------------- MODULE MCDiscovery -----------------------------
(***************************************************************************)
(* Discovery for TLC.                                                      *)
(***************************************************************************)
EXTENDS Discovery, TLC

CONSTANTS l1, l2, l3

(* One light is set up, the other one or two are new. *)
Pair == l1 :> 2 @@ l2 :> None
Three == Pair @@ l3 :> None

(* Periodic provisioning after a startup that provisions, prunes, or only  *)
(* loads the registry.                                                     *)
Modes ==
    {{"startupScan", "autoProvisionOnStartup", "autoProvision"},
     {"startupScan", "startupPruneMissing", "autoProvision"},
     {"autoProvision"}}

Periodic == {{"autoProvision"}}
=============================================================================
