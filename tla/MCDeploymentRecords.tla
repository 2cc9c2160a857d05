-------------------------- MODULE MCDeploymentRecords --------------------------
EXTENDS DeploymentRecords

MCContracts == {"Core", "App"}
MCTargetOrder == <<"Core", "App", "Wallet", "Lib">>
MCTargets == Range(MCTargetOrder)
MCClientTargets == <<"Core", "App">>
MCRebuilds == {MCTargets, {"App"}}
MCLinksLibrary == {"App"}
MCArgumentOf == [n \in MCContracts |-> "Core"]
(* The call that makes Inner comes between the creations.                  *)
MCOrders == {<<"Lib", "Wallet", "Core", "App">>}
(* All goes well; or a creation fails and another is listed as simulated.  *)
MCMishaps == {[failed |-> "none", simulated |-> "none"], [failed |-> "Core", simulated |-> "Lib"]}

Placeholder(core, app) == [n \in MCContracts |-> IF n = "Core" THEN core ELSE app]
Template(address, argument, external, ignored) ==
    [address |-> address, argument |-> [n \in DOMAIN address |-> IF n = "App" THEN argument ELSE 900],
     external |-> external, ignored |-> ignored]
MCCommitted == Template(Placeholder(101, 102), 101, 901, {"Lib"})
(* As it should be; two contracts at one placeholder; a contract left out. *)
MCTemplates ==
    {MCCommitted, Template(Placeholder(101, 101), 101, 901, {"Lib"}),
     Template([n \in {"Core"} |-> 101], 101, 901, {"Lib", "App"})}

(* The export and the records share the sources and the output, which      *)
(* neither changes: what one of them does is explored while the other is   *)
(* as it was in the beginning.                                             *)
OneHalf ==
    \/ <<current, exporting, rendering, client>> = <<NoExport, NotExporting, NotRendering, NoDigests>>
    \/ deploys = 0 /\ edits = 0 /\ checksums = 0 /\ verification = NotVerifying
=============================================================================
