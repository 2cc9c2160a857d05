------------------------- MODULE MCDeploymentExecutor -------------------------
(* An instance of DeploymentExecutor for TLC: two runs of one v1 plan, in    *)
(* one clone, that write to one path.                                        *)
EXTENDS DeploymentExecutor, TLC

OneClone == [s \in Sessions |-> "a"]
OneOutput == [s \in Sessions |-> "out"]
OnePlan == [s \in Sessions |-> "p"]
TwoEach == [p \in Plans |-> 2]
StartNonces == [p \in Plans |-> NoNonce]
===============================================================================
