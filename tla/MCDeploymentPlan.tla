--------------------------- MODULE MCDeploymentPlan ---------------------------
EXTENDS DeploymentPlan

MCLibraries == <<"Lib">>
MCInstances == <<"Core", "App">>
MCLinksOf == [n \in {"Lib", "Core", "App"} |-> IF n = "App" THEN {"Lib"} ELSE {}]
MCBindsTo == [n \in {"Lib", "Core", "App"} |-> IF n = "App" THEN {"Core"} ELSE {}]

MCDrafts ==
    {[schema |-> "v2", environment |-> "testnet", slip |-> slip] :
        slip \in {"none", "planning", "unreviewed", "unobserved", "alias", "alias_target",
                  "wrong_link", "wrong_binding", "wrong_immutable", "stale_hash", "shifted",
                  "omitted", "disordered", "malformed", "schema", "float"}}
    \cup {[schema |-> "v1", environment |-> "anvil", slip |-> slip] :
        slip \in {"none", "wrong_link", "wrong_immutable", "disordered"}}
    \cup {[schema |-> "v1", environment |-> "mainnet", slip |-> "none"]}

MCRewrites == {[schema |-> "v2", environment |-> "testnet", slip |-> slip] : slip \in {"none", "unreviewed"}}

MCCalls == {[mode |-> "sepolia", ephemeral |-> FALSE, authorized |-> TRUE, loopback |-> FALSE],
            [mode |-> "anvil", ephemeral |-> TRUE, authorized |-> FALSE, loopback |-> TRUE],
            [mode |-> "production", ephemeral |-> FALSE, authorized |-> FALSE, loopback |-> FALSE]}
=============================================================================
