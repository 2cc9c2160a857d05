----------------------------- MODULE DeploymentPlan -----------------------------
(***************************************************************************)
(* From a deployment candidate to deployed code: the candidate audit       *)
(* (check_canonical_deployment_candidate.py), the plan materializer        *)
(* (materialize_canonical_deployment_plan.py) and what the executor        *)
(* (execute_canonical_deployment_plan.py) does with the plan: it           *)
(* materializes it again before it starts, after the simulation and after  *)
(* every deployment, and works from staged copies.  Its journal, lock and  *)
(* receipt are in DeploymentExecutor.                                      *)
(*                                                                         *)
(* One step is the code between two readings of the tree, so people may    *)
(* edit between the audit of a candidate, its second snapshot and the      *)
(* reading of the release build.  A digest is the content it names.        *)
(***************************************************************************)
EXTENDS Integers, SequencesExt

CONSTANTS Libraries,   \* linked libraries, in deployment order
          Instances,   \* profile entries, in deployment order
          LinksOf,     \* per deployable, the libraries its artifact links
          BindsTo,     \* per deployable, the instances its constructor is given
          Drafts,      \* candidates people start from: [schema, environment, slip]
          Rewrites,    \* candidates they write later
          Calls,       \* executor calls: [mode, ephemeral, authorized, loopback]
          MaxNonce,    \* transactions of the sender
          MaxEdits     \* edits of the tree, of candidates, of staged files, of the chain

Deployables == Libraries \o Instances
Names == Range(Deployables)

ASSUME PlanConstants ==
    /\ Libraries \in Seq(Range(Libraries)) /\ Instances \in Seq(Range(Instances)) /\ Instances # <<>>
    /\ IsInjective(Deployables)
    /\ \A n \in Names : LinksOf[n] \subseteq Range(Libraries) /\ BindsTo[n] \subseteq Range(Instances)
    /\ MaxNonce \in Nat /\ MaxEdits \in Nat

VARIABLES tree,       \* editions of sources, configs and profile; risk row; broadcaster
          output,     \* out-release: its receipt and the artifact files
          candidate,  \* the candidate file: [body, bound]
          evidence,   \* the retained evidence file: [identity]
          planFile,   \* tmp/.../canonical-deployment-plan.json
          mat,        \* the materialization under way: [step, purpose, candidate, plan]
          exec,       \* the executor's run: [step, call, plan, script, rpc, nonce, count]
          staged,     \* its staged copies: [plan, script]
          chain,      \* the sender's creations: [created, rpc]
          edits       \* edits made

files == <<tree, output, candidate, evidence>>
vars == <<files, planFile, mat, exec, staged, chain, edits>>

-----------------------------------------------------------------------------
(***************************************************************************)
(* Code                                                                    *)
(***************************************************************************)
NoBuild == [source |-> -1, config |-> -1, foundry |-> -1]
NoAddress == 0
create_address(nonce) == nonce + 1
Elsewhere == MaxNonce + 5

link_references(n) == LinksOf[n]
immutable_references(n) == BindsTo[n]
materialize_bytecode(artifact, links) ==
    [name |-> artifact.name, source |-> artifact.source, foundry |-> artifact.foundry,
     links |-> links]
Initcode(artifact, links, args) == [creation |-> materialize_bytecode(artifact, links), args |-> args]
Runtime(artifact, links, values) ==
    [creation |-> materialize_bytecode(artifact, links), immutables |-> values]

(* What a creation leaves on chain: immutables come from the arguments. *)
CodeOf(initcode) == [creation |-> initcode.creation, immutables |-> initcode.args]
NoCode == [creation |-> [name |-> "none"], args |-> <<>>]
ForeignCode == [creation |-> [name |-> "foreign"], args |-> <<>>]

(* The release output: a build of the tree's sources, all at once. *)
Artifact(n, b) == [name |-> n, source |-> b.source, foundry |-> b.foundry]
CurrentBuild == [source |-> tree.source, config |-> tree.config, foundry |-> tree.foundry]
Output(b) == [receipt |-> b, artifacts |-> [n \in Names |-> Artifact(n, b)], extra |-> FALSE]

-----------------------------------------------------------------------------
(***************************************************************************)
(* Candidates                                                              *)
(***************************************************************************)
NoCandidate == [body |-> [schema |-> "none"], bound |-> [identity |-> [schema |-> "none"]]]
NoEvidence == [identity |-> [schema |-> "none"]]
NoPlan == [candidate |-> NoCandidate, build |-> NoBuild, rows |-> <<>>]

(* What people write down for deployable n of a candidate of build b.  A   *)
(* slip is one thing they get wrong or leave open.                         *)
Row(d, b, n) ==
    LET slip(what) == d.slip = what /\ n = Last(Instances)
        position(m) == CHOOSE i \in DOMAIN Deployables : Deployables[i] = m
        at(m) == create_address(IF d.slip = "shifted" THEN position(m) ELSE position(m) - 1)
        artifact == Artifact(IF slip("alias_target") THEN Head(Libraries) ELSE n, b)
        links == [l \in LinksOf[n] |-> IF slip("wrong_link") THEN Elsewhere ELSE at(l)]
        args == [m \in BindsTo[n] |-> at(m)]
        values == [m \in BindsTo[n] |-> IF slip("wrong_immutable") THEN Elsewhere ELSE at(m)]
        creation == materialize_bytecode(artifact, IF slip("stale_hash") THEN <<>> ELSE links)
    IN [target |-> artifact,
        address |-> IF slip("alias") THEN at(Head(Libraries)) ELSE at(n),
        links |-> links, depends_on |-> LinksOf[n] \cup BindsTo[n],
        args |-> args, bindings |-> [m \in BindsTo[n] |-> IF slip("wrong_binding") THEN Elsewhere ELSE at(m)],
        immutables |-> values, creation |-> creation,
        initcode |-> [creation |-> creation, args |-> args],
        runtime |-> [creation |-> creation, immutables |-> values],
        on_chain |-> IF slip("unobserved") THEN [status |-> "pending", runtime |-> NoCode]
                     ELSE [status |-> "observed", runtime |-> [creation |-> creation, immutables |-> args]],
        reviewed |-> ~slip("unreviewed")]

Body(d, b) ==
    [schema |-> d.schema, environment |-> d.environment, slip |-> d.slip,
     status |-> IF d.slip = "planning" THEN "planning" ELSE "complete",
     build |-> IF d.slip = "planning" THEN NoBuild ELSE b,
     profile |-> tree.profile,
     libraries |-> Libraries,
     instances |-> CASE d.slip = "omitted" -> Front(Instances)
                     [] d.slip = "disordered" -> Reverse(Instances)
                     [] OTHER -> Instances,
     rows |-> [n \in Names |-> Row(d, b, n)]]

Ordered(body) == body.libraries \o body.instances
AfterItsDependencies(body, names) ==
    \A i \in DOMAIN names : body.rows[names[i]].depends_on \cap Range(names)
                              \subseteq Range(SubSeq(names, 1, i - 1))

(* Types, exact members, formats; the schema; what the canonical form takes. *)
require_well_formed(body) == body.slip # "malformed"
validate_draft_2020_12_schema(body) == body.slip # "schema"
jcs_encodable(body) == body.slip # "float"

(* The identity leaves out only the binding of the retained evidence. *)
candidate_identity(c) == c.body

governance_risk_stands == tree.risk

validate_retained_evidence(c) ==
    c.bound # NoEvidence => evidence = c.bound /\ evidence.identity = candidate_identity(c)

top_level_unblocked(c) ==
    c.body.status = "complete" /\ c.body.build # NoBuild /\ c.bound # NoEvidence

implementation_unblocked(body, n) == body.rows[n].target.name = n

instances_unblocked(body) ==
    LET rows == body.rows
    IN /\ \A n, m \in Range(body.instances) : rows[n].address = rows[m].address => n = m
       /\ Range(body.instances) = Range(Instances) /\ IsInjective(body.instances)
       /\ \A n \in Range(body.instances) :
             /\ rows[n].on_chain.status = "observed"
             /\ rows[n].on_chain.runtime = rows[n].runtime
             /\ rows[n].reviewed
             /\ implementation_unblocked(body, n)
       /\ AfterItsDependencies(body, body.instances)

(* Mutant: a library reference is only looked up, its address not compared. *)
reference_stands_AnyAddress(body, n, l) == l \in Range(body.libraries)

(* A library reference is one of the inventory, with its address. *)
reference_stands(body, n, l) ==
    l \in Range(body.libraries) /\ body.rows[n].links[l] = body.rows[l].address

libraries_unblocked(body) ==
    LET rows == body.rows
    IN /\ \A n, m \in Range(body.libraries) : rows[n].address = rows[m].address => n = m
       /\ AfterItsDependencies(body, body.libraries)
       /\ \A n \in Range(body.libraries) :
             /\ rows[n].on_chain.status = "observed" /\ rows[n].on_chain.runtime = rows[n].runtime
             /\ rows[n].reviewed
       /\ \A n \in Range(Ordered(body)) : \A l \in DOMAIN rows[n].links : reference_stands(body, n, l)
       /\ \A l \in Range(body.libraries) : \E n \in Range(Ordered(body)) : l \in DOMAIN rows[n].links

addresses_unblocked(body) ==
    \A n \in Range(body.libraries), m \in Range(body.instances) :
        body.rows[n].address # body.rows[m].address

(* A constructor's arguments are not looked at, only the declared bindings. *)
bindings_unblocked(body) ==
    \A n \in Range(body.instances) : \A m \in DOMAIN body.rows[n].bindings :
        m \in Range(body.instances) /\ body.rows[n].bindings[m] = body.rows[m].address

audit_candidate(c) ==
    /\ governance_risk_stands
    /\ validate_draft_2020_12_schema(c.body) /\ jcs_encodable(c.body)
    /\ c.body.schema = "v2" /\ c.body.profile = tree.profile
    /\ validate_retained_evidence(c)

require_complete_candidate(c) ==
    /\ audit_candidate(c)
    /\ top_level_unblocked(c) /\ instances_unblocked(c.body) /\ libraries_unblocked(c.body)
    /\ addresses_unblocked(c.body) /\ bindings_unblocked(c.body)

(* A v1 candidate is a fixture: no address is expected, a library may be   *)
(* said to be anywhere, and only the environment is kept away from live.   *)
NON_PRODUCTION_ENVIRONMENTS == {"anvil", "local", "fork", "testnet"}
validate_candidate(c) ==
    /\ require_well_formed(c.body) /\ validate_draft_2020_12_schema(c.body)
    /\ c.body.status # "planning"
    /\ c.body.environment \in NON_PRODUCTION_ENVIRONMENTS
    /\ AfterItsDependencies(c.body, Ordered(c.body))

-----------------------------------------------------------------------------
(***************************************************************************)
(* Materializing                                                           *)
(***************************************************************************)
validate_release_output ==
    /\ output.receipt = CurrentBuild
    /\ \A n \in Names : output.artifacts[n] = Artifact(n, output.receipt)
    /\ ~output.extra

(* The receipt the candidate was written for is the one in the tree. *)
validate_receipt_binding(c) == validate_release_output /\ c.body.build = output.receipt

encode_constructor(row) == DOMAIN row.args = BindsTo[row.target.name]

materialize_instance(body, n) ==
    LET row == body.rows[n]
        artifact == output.artifacts[row.target.name]
    IN [name |-> n,
        address |-> IF body.schema = "v2" THEN row.address ELSE NoAddress,
        initcode |-> Initcode(artifact, row.links, row.args),
        runtime |-> Runtime(artifact, row.links, row.immutables)]

(* The target is the receipt's own, every reference is bound, and what the *)
(* artifact gives has the hashes the candidate expects.                    *)
instance_materializes(body, n) ==
    LET row == body.rows[n]
        made == materialize_instance(body, n)
    IN /\ row.target = output.artifacts[row.target.name]
       /\ encode_constructor(row)
       /\ DOMAIN row.links = link_references(row.target.name)
       /\ DOMAIN row.immutables = immutable_references(row.target.name)
       /\ made.initcode = row.initcode /\ made.runtime = row.runtime
       /\ body.schema = "v2" => made.initcode.creation = row.creation

materialize_deployment_plan(c) ==
    [candidate |-> c, build |-> output.receipt,
     rows |-> [i \in DOMAIN Ordered(c.body) |-> materialize_instance(c.body, Ordered(c.body)[i])]]

Idle == [step |-> "idle", purpose |-> "none", candidate |-> NoCandidate, plan |-> NoPlan]
Due(purpose) ==
    CASE purpose = "write" -> TRUE
      [] purpose = "start" -> exec.step = "starting"
      [] purpose = "recheck" -> exec.step \in {"simulated", "verified"}

(* A refusal ends the run it was for. *)
Refuse(purpose) ==
    /\ mat' = Idle
    /\ exec' = IF purpose = "write" THEN exec ELSE [exec EXCEPT !.step = "failed"]
Go(step, purpose, c, plan) ==
    /\ mat' = [step |-> step, purpose |-> purpose, candidate |-> c, plan |-> plan]
    /\ UNCHANGED exec

(* The first reading: a v1 candidate is validated, a v2 candidate audited. *)
ReadCandidate(purpose) ==
    /\ mat.step = "idle" /\ Due(purpose)
    /\ IF candidate.body.schema = "v2"
       THEN IF require_complete_candidate(candidate)
            THEN Go("audited", purpose, candidate, NoPlan) ELSE Refuse(purpose)
       ELSE IF validate_candidate(candidate)
            THEN Go("validated", purpose, candidate, NoPlan) ELSE Refuse(purpose)
    /\ UNCHANGED <<files, planFile, staged, chain, edits>>

(* Mutant: the second snapshot is taken without looking back at the audit. *)
validate_complete_v2_candidate_NoLookBack ==
    /\ mat.step = "audited"
    /\ IF require_well_formed(candidate.body)
       THEN Go("validated", mat.purpose, candidate, NoPlan) ELSE Refuse(mat.purpose)
    /\ UNCHANGED <<files, planFile, staged, chain, edits>>

(* The second snapshot has to be the audited one. *)
validate_complete_v2_candidate ==
    /\ mat.step = "audited"
    /\ IF /\ candidate = mat.candidate
          /\ candidate_identity(candidate) = candidate_identity(mat.candidate)
          /\ require_well_formed(candidate.body)
          /\ AfterItsDependencies(candidate.body, Ordered(candidate.body))
       THEN Go("validated", mat.purpose, candidate, NoPlan) ELSE Refuse(mat.purpose)
    /\ UNCHANGED <<files, planFile, staged, chain, edits>>

(* One validation of the release output hands over every snapshot. *)
BindBuild ==
    /\ mat.step = "validated"
    /\ IF /\ validate_receipt_binding(mat.candidate)
          /\ \A n \in Range(Ordered(mat.candidate.body)) : instance_materializes(mat.candidate.body, n)
       THEN Go("made", mat.purpose, mat.candidate, materialize_deployment_plan(mat.candidate))
       ELSE Refuse(mat.purpose)
    /\ UNCHANGED <<files, planFile, staged, chain, edits>>

write_output ==
    /\ mat.step = "made" /\ mat.purpose = "write"
    /\ planFile' = mat.plan /\ mat' = Idle
    /\ UNCHANGED <<files, exec, staged, chain, edits>>

-----------------------------------------------------------------------------
(***************************************************************************)
(* Executing                                                               *)
(***************************************************************************)
IsV2(plan) == plan.candidate.body.schema = "v2"

(* Every mode names one environment; production is refused always, and     *)
(* only sepolia sends to a public chain, when that was asked for.          *)
execution_network_allowed(plan, call) ==
    LET environment == plan.candidate.body.environment
    IN /\ CASE call.mode = "anvil" -> environment = "anvil" /\ call.ephemeral /\ call.loopback
            [] call.mode = "local" -> environment = "local" /\ ~call.ephemeral /\ call.loopback
            [] call.mode = "fork" -> environment = "fork" /\ ~call.ephemeral /\ call.loopback
            [] call.mode = "sepolia" -> /\ environment = "testnet" /\ ~call.ephemeral
                                        /\ call.authorized /\ ~call.loopback
            [] OTHER -> FALSE
       /\ call.authorized => call.mode = "sepolia"

validate_broadcaster_source(script) == script = "raw_initcode"

Nonce == Len(chain.created)
require_v2_expected_create_addresses(plan, nonce) ==
    \A i \in DOMAIN plan.rows : plan.rows[i].address = create_address(nonce + i - 1)

(* A public endpoint resolves to the addresses it did at the start. *)
assert_rpc_resolution_unchanged == exec.call.mode = "sepolia" => chain.rpc = exec.rpc
assert_file_snapshot_unchanged == staged.script = exec.script
canonical_plan_snapshot == planFile = mat.plan

Main(call) ==
    /\ exec.step = "idle"
    /\ exec' = [exec EXCEPT !.step = "starting", !.call = call]
    /\ UNCHANGED <<files, planFile, mat, staged, chain, edits>>

(* The plan file is the plan of this moment: stage it and the broadcaster. *)
Stage ==
    /\ mat.step = "made" /\ mat.purpose = "start"
    /\ mat' = Idle
    /\ IF /\ canonical_plan_snapshot /\ validate_broadcaster_source(tree.script)
          /\ execution_network_allowed(mat.plan, exec.call)
          /\ IsV2(mat.plan) => require_v2_expected_create_addresses(mat.plan, Nonce)
       THEN /\ exec' = [exec EXCEPT !.step = "staged", !.plan = mat.plan, !.script = tree.script,
                                    !.rpc = chain.rpc, !.nonce = Nonce]
            /\ staged' = [plan |-> mat.plan, script |-> tree.script]
       ELSE exec' = [exec EXCEPT !.step = "failed"] /\ UNCHANGED staged
    /\ UNCHANGED <<files, planFile, chain, edits>>

(* The broadcaster hashes the plan it is given and deploys its raw initcode. *)
Simulate ==
    /\ exec.step = "staged"
    /\ exec' = [exec EXCEPT !.step =
          IF assert_file_snapshot_unchanged /\ assert_rpc_resolution_unchanged /\ staged.plan = exec.plan
          THEN "simulated" ELSE "failed"]
    /\ UNCHANGED <<files, planFile, mat, staged, chain, edits>>

(* A v1 run takes its nonce now, a v2 run has to find the one it staged for. *)
assert_authority_unchanged ==
    /\ mat.step = "made" /\ mat.purpose = "recheck"
    /\ mat' = Idle
    /\ exec' = IF ~canonical_plan_snapshot \/ mat.plan # exec.plan THEN [exec EXCEPT !.step = "failed"]
               ELSE IF exec.step = "simulated"
               THEN IF IsV2(exec.plan) /\ Nonce # exec.nonce THEN [exec EXCEPT !.step = "failed"]
                    ELSE [exec EXCEPT !.step = "ready", !.nonce = Nonce]
               ELSE [exec EXCEPT !.step = IF exec.count = Len(exec.plan.rows) THEN "done" ELSE "ready"]
    /\ UNCHANGED <<files, planFile, staged, chain, edits>>

PrepareNext ==
    /\ exec.step = "ready"
    /\ exec' = [exec EXCEPT !.step =
          IF /\ Nonce = exec.nonce + exec.count
             /\ assert_file_snapshot_unchanged /\ assert_rpc_resolution_unchanged
          THEN "sending" ELSE "failed"]
    /\ UNCHANGED <<files, planFile, mat, staged, chain, edits>>

(* Forge reads the staged files and the nonce again, after the comparisons. *)
RunForge ==
    /\ exec.step = "sending" /\ Nonce < MaxNonce
    /\ IF validate_broadcaster_source(staged.script) /\ staged.plan # exec.plan
       THEN exec' = [exec EXCEPT !.step = "failed"] /\ UNCHANGED chain
       ELSE /\ exec' = [exec EXCEPT !.step = "sent"]
            /\ chain' = [chain EXCEPT !.created = Append(@,
                  IF validate_broadcaster_source(staged.script)
                  THEN staged.plan.rows[exec.count + 1].initcode ELSE ForeignCode)]
    /\ UNCHANGED <<files, planFile, mat, staged, edits>>

(* The row's own initcode is the creation at the expected nonce, and what  *)
(* it left is the planned runtime.                                         *)
Deployed(row, nonce) ==
    /\ nonce < Nonce /\ chain.created[nonce + 1] = row.initcode
    /\ CodeOf(chain.created[nonce + 1]) = row.runtime

Verify ==
    /\ exec.step = "sent"
    /\ exec' = IF /\ assert_file_snapshot_unchanged
                  /\ Deployed(exec.plan.rows[exec.count + 1], exec.nonce + exec.count)
                  /\ Nonce = exec.nonce + exec.count + 1
               THEN [exec EXCEPT !.step = "verified", !.count = @ + 1]
               ELSE [exec EXCEPT !.step = "failed"]
    /\ UNCHANGED <<files, planFile, mat, staged, chain, edits>>

-----------------------------------------------------------------------------
(***************************************************************************)
(* People, files and the network                                           *)
(***************************************************************************)
EditTree ==
    /\ \E field \in {"source", "config", "foundry", "profile"} :
          tree' = [tree EXCEPT ![field] = 1 - @]
    /\ UNCHANGED <<output, candidate, evidence>>

EditPolicy ==
    /\ \/ tree' = [tree EXCEPT !.risk = ~@]
       \/ tree' = [tree EXCEPT !.script = "compiles_targets"]
    /\ UNCHANGED <<output, candidate, evidence>>

DamageOutput ==
    /\ \/ output' = [output EXCEPT !.artifacts[Last(Instances)].source = 1 - @]
       \/ output' = [output EXCEPT !.extra = ~@]
    /\ UNCHANGED <<tree, candidate, evidence>>

(* A candidate is written for the receipt of the day, a stale one at worst. *)
WriteCandidate ==
    /\ \E d \in Rewrites : candidate' = [body |-> Body(d, output.receipt), bound |-> candidate.bound]
    /\ UNCHANGED <<tree, output, evidence>>

EditEvidence ==
    /\ \E d \in Rewrites : evidence' = [identity |-> Body(d, output.receipt)]
    /\ UNCHANGED <<tree, output, candidate>>

EditFiles ==
    /\ edits < MaxEdits /\ edits' = edits + 1
    /\ EditTree \/ EditPolicy \/ DamageOutput \/ WriteCandidate \/ EditEvidence
    /\ UNCHANGED <<planFile, mat, exec, staged, chain>>

EditPlanFile ==
    /\ edits < MaxEdits /\ edits' = edits + 1 /\ planFile # NoPlan
    /\ planFile' = [planFile EXCEPT !.rows = Reverse(@)]
    /\ UNCHANGED <<files, mat, exec, staged, chain>>

EditStaged ==
    /\ edits < MaxEdits /\ edits' = edits + 1 /\ staged.plan # NoPlan
    /\ \/ staged' = [staged EXCEPT !.plan.rows = Reverse(@)]
       \/ \E script \in {"other", "raw_initcode"} \ {staged.script} : staged' = [staged EXCEPT !.script = script]
    /\ UNCHANGED <<files, planFile, mat, exec, chain>>

ChangeNetwork ==
    /\ edits < MaxEdits /\ edits' = edits + 1
    /\ \/ Nonce < MaxNonce /\ chain' = [chain EXCEPT !.created = Append(@, ForeignCode)]
       \/ chain' = [chain EXCEPT !.rpc = 1 - @]
    /\ UNCHANGED <<files, planFile, mat, exec, staged>>

Rebuild ==
    /\ output # Output(CurrentBuild)
    /\ output' = Output(CurrentBuild)
    /\ UNCHANGED <<tree, candidate, evidence, planFile, mat, exec, staged, chain, edits>>

(* The evidence of a candidate is retained and bound to it. *)
RetainEvidence ==
    LET retained == [identity |-> candidate_identity(candidate)]
    IN /\ evidence # retained \/ candidate.bound # retained
       /\ evidence' = retained /\ candidate' = [candidate EXCEPT !.bound = retained]
       /\ UNCHANGED <<tree, output, planFile, mat, exec, staged, chain, edits>>

Init ==
    /\ tree = [source |-> 0, config |-> 0, foundry |-> 0, profile |-> 0, risk |-> TRUE,
               script |-> "raw_initcode"]
    /\ output = Output(CurrentBuild)
    /\ \E d \in Drafts : candidate = [body |-> Body(d, CurrentBuild), bound |-> NoEvidence]
    /\ evidence = NoEvidence
    /\ planFile = NoPlan /\ mat = Idle
    /\ exec = [step |-> "idle", call |-> [mode |-> "none"], plan |-> NoPlan, script |-> "none",
               rpc |-> 0, nonce |-> 0, count |-> 0]
    /\ staged = [plan |-> NoPlan, script |-> "none"]
    /\ chain = [created |-> <<>>, rpc |-> 0]
    /\ edits = 0

Next ==
    \/ \E purpose \in {"write", "start", "recheck"} : ReadCandidate(purpose)
    \/ validate_complete_v2_candidate \/ BindBuild \/ write_output
    \/ \E call \in Calls : Main(call)
    \/ Stage \/ Simulate \/ assert_authority_unchanged \/ PrepareNext \/ RunForge \/ Verify
    \/ EditFiles \/ EditPlanFile \/ EditStaged \/ ChangeNetwork \/ Rebuild \/ RetainEvidence

Spec == Init /\ [][Next]_vars

-----------------------------------------------------------------------------
(* Whatever is edited while it is made, a plan of a v2 candidate that the  *)
(* materializer hands out or the executor works by was made from one       *)
(* candidate that is complete, reviewed, observed and bound to evidence of *)
(* itself, and all of its code comes from the build that candidate names   *)
(* (validate_complete_v2_candidate, validate_receipt_binding).             *)
PlansStandOnTheirAuthority ==
    \A plan \in {mat.plan, exec.plan} : plan # NoPlan /\ IsV2(plan) =>
        LET body == plan.candidate.body
        IN /\ plan.candidate.bound.identity = body /\ body.status = "complete"
           /\ \A n \in Names : body.rows[n].reviewed /\ body.rows[n].on_chain.status = "observed"
           /\ \A i \in DOMAIN plan.rows :
                 LET code == plan.rows[i].initcode.creation
                 IN code.source = body.build.source /\ code.foundry = body.build.foundry
                    /\ code.name = plan.rows[i].name

(* An execution that came to its end left, at the addresses it retained,   *)
(* the code of its plan with the immutables the plan expects; for a v2     *)
(* plan these are the planned addresses, and every library an instance was *)
(* linked to is the planned library, deployed in the same run              *)
(* (execute_plan, require_v2_expected_create_addresses, _library_blockers).*)
DeployedAsPlanned ==
    exec.step = "done" =>
        \A i \in DOMAIN exec.plan.rows :
            LET row == exec.plan.rows[i]
            IN /\ CodeOf(chain.created[exec.nonce + i]) = row.runtime
               /\ IsV2(exec.plan) =>
                     /\ row.address = create_address(exec.nonce + i - 1)
                     /\ \A l \in DOMAIN row.initcode.creation.links :
                           \E j \in 1..(i - 1) : /\ exec.plan.rows[j].name = l
                                                 /\ row.initcode.creation.links[l] = exec.nonce + j
=============================================================================
