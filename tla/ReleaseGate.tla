------------------------------ MODULE ReleaseGate ------------------------------
(***************************************************************************)
(* The release gate: the status manifest of the evidence a public beta and *)
(* a production release need (public-beta-evidence.json), the envelopes    *)
(* and retained artifacts its rows rest on, the checkers of each, the      *)
(* generator of envelopes, the two blocker reports, and                    *)
(* tools/release/check_release_mode.py, which decides whether a phase may  *)
(* be released.                                                            *)
(*                                                                         *)
(* Every checker reads the tree as it is when it runs, so each is a        *)
(* predicate of the state; what changes between their runs is what people  *)
(* write (rows, envelopes, templates, artifacts, policy inputs), what the  *)
(* generator writes, and the date.  A digest is the content it names.      *)
(***************************************************************************)
EXTENDS Integers, FiniteSets

CONSTANTS Requirements,  \* the requirement rows of this instance
          Contents,      \* retained Markdown: [state, accepted, command, target]
          Delivered,     \* per requirement, what is retained for the submission
          Submissions,   \* per requirement, [call, status, risk] of a first submission
          Calls,         \* per requirement, what the generator may be called with
          FieldValues,   \* per field of an envelope, the values a hand edit writes
          Windows,       \* risk-acceptance windows: [accepted_at, expires_at]
          Findings,      \* High and Medium findings Slither may have: [id, path]
          Sizes,         \* deployed bytecode sizes of StreamCore
          MaxDay,        \* the last day the gate is asked
          MaxGateEdits   \* edits after the first submission

Phases == {"public_beta", "production_release"}
PRODUCTION_REQUIREMENTS == {"production_signatures", "live_marketplace_indexer_evidence"}
PHASE(r) == IF r \in PRODUCTION_REQUIREMENTS THEN "production_release" ELSE "public_beta"
MANIFEST_REQUIREMENTS == {"fork_testnet_marketplace_indexer_evidence",
                          "live_marketplace_indexer_evidence"}
RETAINED_COMMAND_REQUIREMENTS == {"fork_deployment_rehearsal"}
NON_WAIVABLE == {"external_audit_report"} \cup PRODUCTION_REQUIREMENTS
REQUIREMENT_STATUSES == {"missing", "pending", "blocked", "accepted_risk",
                         "not_applicable", "complete"}
BLOCKING_STATUSES == {"missing", "pending", "blocked"}
READY_REQUIREMENT_STATUSES == {"complete", "accepted_risk"}
ENVIRONMENTS == {"fork", "testnet", "live", "audit", "release_signing"}
CHAINLESS_ENVIRONMENTS == {"audit", "release_signing"}
NotApplicable == -1
EIP170_RUNTIME_LIMIT_BYTES == 24576
PRODUCTION_CORE_MIN_RUNTIME_MARGIN_BYTES == 2000
NoRisk == [accepted_at |-> -1, expires_at |-> -1]
Outside == "outside"
LinkTargets == {c.target : c \in {d \in Contents : d.state = "link"}}

(* How a row is submitted unless it is the odd one: complete on reviewed   *)
(* evidence.                                                               *)
IsUsual(s) == s.status = "complete" /\ s.call.review = "reviewed" /\ s.call.notes = "final"

ASSUME GateConstants ==
    /\ MaxDay \in Nat /\ MaxGateEdits \in Nat
    /\ Requirements \cap Phases = {}
    /\ \A r \in Requirements : /\ \E s \in Submissions[r] : IsUsual(s)
                              /\ \A s \in Submissions[r] : s.risk \in Windows \cup {NoRisk}
    /\ \E c \in Contents : c.state = "absent"
    /\ \A r \in Requirements : /\ Delivered[r] \in Contents
                              /\ Delivered[r].state = "link" => r \notin LinkTargets
    /\ LinkTargets \subseteq Requirements \cup {"template", Outside}
    /\ Outside \notin Requirements
    /\ \A w \in Windows : w.accepted_at \in Nat /\ w.expires_at \in Nat
    /\ Sizes \subseteq Nat

VARIABLES manifest,   \* [rows, ready, kept]: the status manifest
          envelope,   \* per requirement, its evidence envelope
          template,   \* per requirement, its committed template
          artifact,   \* per requirement, its retained artifact; the template text
          policy,     \* [size, margin, openRisks, incomplete]: build and risk inputs
          slither,    \* [code, tree, rows, counts, mirror]: sources and their baseline
          today,      \* the date the gate sees
          gateEdits   \* edits made; -2 before anything is retained, -1 before submission

gateVars == <<manifest, envelope, template, artifact, policy, slither, today, gateEdits>>

(***************************************************************************)
(* Documents                                                               *)
(***************************************************************************)
NoFile == CHOOSE c \in Contents : c.state = "absent"
NoDocument == [type |-> "absent", review |-> "template", environment |-> "fork",
    chain_id |-> 1, reviewer |-> "TBD", requirement |-> "none", retained |-> "template",
    sha256 |-> NoFile, command |-> "none", notice |-> FALSE, notes |-> "placeholder",
    flaw |-> "none"]

(* A reference of a row: the document it names and the digest it records. *)
At(ref) == IF ref.kind = "template" THEN template[ref.of] ELSE envelope[ref.of]
Reference(kind, r) == [kind |-> kind, of |-> r,
    sha256 |-> IF kind = "template" THEN template[r] ELSE envelope[r]]
file_sha256(path) == artifact[path]

(* What a link leads to, in the tree or out of it; no link to a link is    *)
(* in this instance.                                                       *)
resolve(path) == IF artifact[path].state = "link" THEN artifact[path].target ELSE path
ResolvesToFile(path) == resolve(path) # Outside /\ artifact[resolve(path)].state = "file"

(***************************************************************************)
(* Envelopes: check_non_local_release_evidence                             *)
(***************************************************************************)
validate_chain_id(e) ==
    \/ e.environment \in CHAINLESS_ENVIRONMENTS /\ e.chain_id = NotApplicable
    \/ e.chain_id >= 1

validate_template_notice(e) == e.type = "template" => e.notice
validate_reviewer(e) == e.review = "reviewed" => e.reviewer # "TBD"

(* resolve_repo_file refuses a path with a link in it. *)
validate_retained_artifact_hash(e) ==
    artifact[e.retained].state = "file" /\ e.sha256 = file_sha256(e.retained)

(* Exactly one Command field, quoted by the envelope word for word. *)
validate_retained_command_fidelity(e) ==
    e.type = "evidence" /\ e.requirement \in RETAINED_COMMAND_REQUIREMENTS =>
        artifact[e.retained].command # "none" /\ e.command = artifact[e.retained].command

NonLocal_document(e) ==
    /\ e.flaw = "none"
    /\ e.type \in {"template", "evidence"} /\ e.environment \in ENVIRONMENTS
    /\ e.type = "template" <=> e.review = "template"
    /\ validate_chain_id(e) /\ validate_reviewer(e) /\ validate_template_notice(e)
    /\ e.requirement \in Requirements
    /\ validate_retained_artifact_hash(e)
    /\ validate_retained_command_fidelity(e)

(* validate_template_set: of every template found, one per requirement. *)
validate_template_set(phase) ==
    LET ofPhase == {r \in Requirements : PHASE(r) = phase}
    IN /\ \A r \in ofPhase : /\ NonLocal_document(template[r])
                             /\ template[r].type = "template"
                             /\ template[r].requirement \in ofPhase
       /\ \A r, q \in ofPhase : template[r].requirement = template[q].requirement => r = q

(* Without arguments: the templates and the retained fork envelopes. *)
check_non_local_release_evidence ==
    /\ \A phase \in Phases : validate_template_set(phase)
    /\ \A r \in RETAINED_COMMAND_REQUIREMENTS \cap Requirements :
          NonLocal_document(envelope[r])

-----------------------------------------------------------------------------
(***************************************************************************)
(* The status manifest: check_public_beta_evidence                         *)
(***************************************************************************)
validate_file_ref(ref) == At(ref) # NoDocument /\ At(ref) = ref.sha256

(* Any object with the runbook's fields is a candidate, a template as      *)
(* well; neither its record type, its review status nor the digest of the  *)
(* artifact it names is looked at.                                         *)
validate_runbook_metadata(e, r) ==
    /\ e.flaw # "fields" /\ e.environment \in ENVIRONMENTS
    /\ e.chain_id = NotApplicable => e.environment \in CHAINLESS_ENVIRONMENTS
    /\ e.reviewer # "TBD"
    /\ e.requirement = r

validate_runbook_review_evidence(r) ==
    \E ref \in manifest.rows[r].evidence : validate_runbook_metadata(At(ref), r)

validate_requirement(r) ==
    LET row == manifest.rows[r]
    IN /\ row.status \in REQUIREMENT_STATUSES
       /\ \A ref \in row.evidence : validate_file_ref(ref)
       /\ row.status = "complete" =>
             row.evidence # {} /\ validate_runbook_review_evidence(r)
       /\ row.status = "accepted_risk" <=> row.risk # NoRisk

(* Supplemental artifacts of the manifest itself: resolve_repo_file of     *)
(* this checker follows links that stay in the repository.                 *)
validate_retained_artifacts ==
    ResolvesToFile("template") /\ manifest.kept = file_sha256(resolve("template"))

validate_overall_status ==
    \A phase \in Phases : manifest.ready[phase] = "ready" =>
        \A r \in Requirements :
            PHASE(r) = phase => manifest.rows[r].status \notin BLOCKING_STATUSES

check_public_beta_evidence ==
    /\ \A r \in Requirements : validate_requirement(r)
    /\ validate_retained_artifacts
    /\ validate_overall_status

-----------------------------------------------------------------------------
(***************************************************************************)
(* Completed marketplace rows: check_marketplace_indexer_evidence          *)
(***************************************************************************)
MarketEnvironments(r) ==
    IF r = "live_marketplace_indexer_evidence" THEN {"live"} ELSE {"fork", "testnet"}

(* Mutant: the envelope's digest is not compared with the artifact. *)
validate_reviewed_evidence_envelope_Unhashed(e, r) ==
    /\ e.flaw # "fields" /\ e.type = "evidence" /\ e.review = "reviewed"
    /\ e.requirement = r /\ e.environment \in MarketEnvironments(r)
    /\ IF r = "live_marketplace_indexer_evidence" THEN e.chain_id = 1 ELSE e.chain_id > 0
    /\ e.reviewer # "TBD" /\ e.notes = "final"
    /\ artifact[e.retained].state = "file"
    /\ artifact[e.retained].accepted

(* A link is refused here too, and the artifact's own checker runs. *)
validate_reviewed_evidence_envelope(e, r) ==
    /\ e.flaw # "fields" /\ e.type = "evidence" /\ e.review = "reviewed"
    /\ e.requirement = r /\ e.environment \in MarketEnvironments(r)
    /\ IF r = "live_marketplace_indexer_evidence" THEN e.chain_id = 1 ELSE e.chain_id > 0
    /\ e.reviewer # "TBD" /\ e.notes = "final"
    /\ artifact[e.retained].state = "file" /\ e.sha256 = file_sha256(e.retained)
    /\ artifact[e.retained].accepted

(* Every reference of the row has to be a reviewed envelope. *)
validate_manifest_marketplace_rows ==
    \A r \in MANIFEST_REQUIREMENTS \cap Requirements :
        manifest.rows[r].status = "complete" =>
            /\ manifest.rows[r].evidence # {}
            /\ \A ref \in manifest.rows[r].evidence :
                  validate_file_ref(ref) /\ validate_reviewed_evidence_envelope(At(ref), r)

(* What opening the path reads; of a link that leads outside, what is there. *)
Read(path) ==
    IF artifact[path].state = "link"
    THEN IF resolve(path) = Outside THEN [artifact[path] EXCEPT !.state = "file", !.target = "none"]
         ELSE artifact[resolve(path)]
    ELSE artifact[path]

(* DEFAULT_ENVELOPE_TEMPLATES: the template of the row, at its own text,   *)
(* which is opened as it is.                                               *)
validate_envelope_template(r) ==
    LET e == template[r]
    IN /\ e.type = "template" /\ e.review = "template" /\ e.requirement = r
       /\ e.environment \in MarketEnvironments(r) /\ e.retained = "template"
       /\ e.sha256 = Read("template") /\ e.flaw # "fields"

check_marketplace_indexer_evidence ==
    /\ Read("template").state = "file" /\ Read("template").accepted
    /\ \A r \in MANIFEST_REQUIREMENTS \cap Requirements : validate_envelope_template(r)
    /\ validate_manifest_marketplace_rows

(* scripts/check.sh runs them all. *)
Checked == check_public_beta_evidence /\ check_non_local_release_evidence
           /\ check_marketplace_indexer_evidence

-----------------------------------------------------------------------------
(***************************************************************************)
(* The baseline of static analysis: tools/security/check_slither_baseline  *)
(* (a finding is its fingerprint: detector, impact and exact source lines) *)
(***************************************************************************)
VENDORED_PATHS == {"vendored"}
classify_source(f) == IF f.path \in VENDORED_PATHS THEN "vendored" ELSE "first_party_production"
first_party(fs) == {f \in fs : classify_source(f) = "first_party_production"}
status_counts(rows) ==
    [s \in {"Open", "False Positive"} |-> Cardinality({row \in rows : row.status = s})]

(* validate_provenance: the baseline was taken of this very source tree. *)
validate_provenance == slither.tree = slither.code

(* validate_baseline_data: first-party rows, one per finding, as many of   *)
(* each status as the constants of the checker say.                        *)
validate_baseline_data ==
    /\ validate_provenance
    /\ \A row \in slither.rows : classify_source(row.finding) = "first_party_production"
    /\ \A a, b \in slither.rows : a.finding = b.finding => a = b
    /\ status_counts(slither.rows) = slither.counts

validate_markdown_mirror == slither.mirror = slither.rows
validate_baseline == validate_baseline_data /\ validate_markdown_mirror

(* Mutant: a row that is gone is drift, a new finding is not. *)
compare_live_findings_Removed ==
    {row.finding : row \in slither.rows} \subseteq first_party(slither.code)

(* compare_live_findings: what Slither finds now is exactly the baseline. *)
compare_live_findings ==
    {row.finding : row \in slither.rows} = first_party(slither.code)

slither_baseline_blockers ==
    IF \E row \in slither.rows : row.status = "Open" THEN {"slither_baseline"} ELSE {}

(* Makefile slither-baseline-check, which the release workflow runs first. *)
slither_baseline_check == validate_baseline /\ compare_live_findings

-----------------------------------------------------------------------------
(***************************************************************************)
(* The gate: check_release_mode                                            *)
(***************************************************************************)

required_phases(phase) == IF phase = "production_release" THEN Phases ELSE {phase}

(* Mutant: the day a waiver expires no longer counts. *)
accepted_risk_blocker_DayEarly(row, r) ==
    \/ r \in NON_WAIVABLE
    \/ row.risk.expires_at < row.risk.accepted_at
    \/ row.risk.accepted_at > today
    \/ row.risk.expires_at <= today

accepted_risk_blocker(row, r) ==
    \/ r \in NON_WAIVABLE
    \/ row.risk.expires_at < row.risk.accepted_at
    \/ row.risk.accepted_at > today
    \/ row.risk.expires_at < today

row_blocks(r) ==
    LET row == manifest.rows[r]
    IN \/ row.status = "accepted_risk" /\ accepted_risk_blocker(row, r)
       \/ row.status \notin READY_REQUIREMENT_STATUSES

(* The phases and rows that are in the way. *)
release_mode_blockers(phase) ==
    {p \in required_phases(phase) : manifest.ready[p] # "ready"}
    \cup {r \in Requirements : PHASE(r) \in required_phases(phase) /\ row_blocks(r)}

governance_native_value_blockers == {"GOVERNANCE_NATIVE_VALUE"} \cap policy.openRisks
governed_parameter_completeness_blockers ==
    {"GOVERNED_PARAMETER_COMPLETENESS"} \cap policy.openRisks
(* completion_blockers of the record families and of the genesis profile   *)
(* name an unfinished model whatever the tree holds.                       *)
STANDING == {"record_family_authorization", "genesis_profile"}
standing_blockers(phase) ==
    IF phase = "production_release" THEN STANDING ELSE {"record_family_authorization"}

production_core_headroom_blocker ==
    IF policy.margin < PRODUCTION_CORE_MIN_RUNTIME_MARGIN_BYTES THEN {"core_headroom"} ELSE {}

(* What stops the check before it can name blockers. *)
release_mode_refuses(phase) ==
    \/ ~check_public_beta_evidence \/ ~validate_baseline
    \/ phase = "production_release" /\
          \/ policy.incomplete
          \/ policy.margin # EIP170_RUNTIME_LIMIT_BYTES - policy.size

validate_release_mode(phase) ==
    release_mode_blockers(phase) \cup slither_baseline_blockers
    \cup governance_native_value_blockers \cup standing_blockers(phase)
    \cup (IF phase = "production_release"
          THEN governed_parameter_completeness_blockers \cup production_core_headroom_blocker
          ELSE {})

(* Nothing is left but what no edit of the tree resolves. *)
OnlyStandingStops(phase) ==
    ~release_mode_refuses(phase) /\ validate_release_mode(phase) \subseteq STANDING

-----------------------------------------------------------------------------
(***************************************************************************)
(* The blocker reports and the manifest's record of the evidence           *)
(***************************************************************************)
evidence_posture(r) ==
    LET row == manifest.rows[r]
    IN CASE row.status = "not_applicable" -> "not-applicable"
         [] row.status = "accepted_risk" -> "risk-accepted"
         [] row.evidence = {} -> "external/future"
         [] \A ref \in row.evidence : ref.kind = "template" -> "local-template-only"
         [] row.status = "complete" -> "reviewed-external"
         [] OTHER -> "retained-incomplete"

INCOMPLETE_STATUSES == REQUIREMENT_STATUSES \ {"complete"}

requirement_table_rows(phases) ==
    {[id |-> r, status |-> manifest.rows[r].status, posture |-> evidence_posture(r),
      risk |-> manifest.rows[r].risk] :
        r \in {q \in Requirements : PHASE(q) \in phases
                                    /\ manifest.rows[q].status \in INCOMPLETE_STATUSES}}

reviewed_rows(phases) ==
    {r \in Requirements : PHASE(r) \in phases /\ manifest.rows[r].status = "complete"}

external_future_rows(phases) ==
    {r \in Requirements : /\ PHASE(r) \in phases
                          /\ manifest.rows[r].status # "complete"
                          /\ manifest.rows[r].evidence = {}}

(* build_output_text of each; the production report reads the templates. *)
Report(phases) == [status |-> [p \in phases |-> manifest.ready[p]],
    incomplete |-> requirement_table_rows(phases), reviewed |-> reviewed_rows(phases),
    required |-> external_future_rows(phases)]
beta_report == Report(Phases)
production_report == Report({"production_release"})
beta_report_builds == check_public_beta_evidence
production_report_builds ==
    check_public_beta_evidence /\ validate_template_set("production_release")

(* public_beta_evidence_record: the counts a reader of the manifest sees. *)
blocking_counts(phase) == Cardinality({r \in Requirements :
    PHASE(r) = phase /\ manifest.rows[r].status \in BLOCKING_STATUSES})

-----------------------------------------------------------------------------
(***************************************************************************)
(* The generator of envelopes                                              *)
(***************************************************************************)
command_or_source_system(args) ==
    IF args.fromRetained THEN artifact[resolve(args.retained)].command ELSE args.command

(* build_evidence_document: of the artifact as it is now; of a link, the   *)
(* path it leads to is recorded.                                           *)
generated(r, args) ==
    [type |-> "evidence", review |-> args.review, environment |-> args.environment,
     chain_id |-> args.chain_id, reviewer |-> args.reviewer,
     requirement |-> template[r].requirement, retained |-> resolve(args.retained),
     sha256 |-> file_sha256(resolve(args.retained)), command |-> command_or_source_system(args),
     notice |-> FALSE, notes |-> args.notes, flaw |-> "none"]

(* Mutant: what was generated is written without being validated. *)
build_accepted_Unvalidated(r, args) ==
    /\ ResolvesToFile(args.retained)
    /\ NonLocal_document(template[r]) /\ template[r].type = "template"
    /\ args.fromRetained => artifact[resolve(args.retained)].command # "none"

build_accepted(r, args) ==
    /\ ResolvesToFile(args.retained)
    /\ NonLocal_document(template[r]) /\ template[r].type = "template"
    /\ args.fromRetained => artifact[resolve(args.retained)].command # "none"
    /\ NonLocal_document(generated(r, args))

(* check_output: the same call again finds the file as it would write it. *)
envelope_current(r, args) == build_accepted(r, args) /\ envelope[r] = generated(r, args)

-----------------------------------------------------------------------------
(***************************************************************************)
(* Steps                                                                   *)
(***************************************************************************)
Row(status, evidence, risk) == [status |-> status, evidence |-> evidence, risk |-> risk]
TemplateOf(r) == [NoDocument EXCEPT !.type = "template", !.requirement = r, !.notice = TRUE,
    !.environment = IF PHASE(r) = "production_release" THEN "live" ELSE "fork",
    !.sha256 = artifact["template"]]

(* The committed baseline: templates, nothing retained, everything blocked. *)
GateInit ==
    /\ artifact = [p \in Requirements \cup {"template"} |->
          IF p = "template"
          THEN [state |-> "file", accepted |-> TRUE, command |-> "none", target |-> "none"]
          ELSE NoFile]
    /\ template = [r \in Requirements |-> TemplateOf(r)]
    /\ envelope = [r \in Requirements |-> NoDocument]
    /\ manifest = [rows |-> [r \in Requirements |-> Row("missing", {}, NoRisk)],
                   ready |-> [p \in Phases |-> "blocked"], kept |-> artifact["template"]]
    /\ policy = [size |-> EIP170_RUNTIME_LIMIT_BYTES, margin |-> 0,
                 openRisks |-> {"GOVERNANCE_NATIVE_VALUE", "GOVERNED_PARAMETER_COMPLETENESS"},
                 incomplete |-> TRUE]
    /\ LET rows == {[finding |-> f, status |-> "Open"] : f \in first_party(Findings)}
       IN slither = [code |-> Findings, tree |-> Findings, rows |-> rows,
                     counts |-> status_counts(rows), mirror |-> rows]
    /\ today = 0 /\ gateEdits = -2

(* The artifacts arrive, the policy inputs are settled and every finding   *)
(* is triaged as a false positive.                                         *)
Retain ==
    /\ gateEdits = -2 /\ gateEdits' = -1
    /\ artifact' = [p \in DOMAIN artifact |->
          IF p = "template" THEN artifact[p] ELSE Delivered[p]]
    /\ policy' = [policy EXCEPT !.size = 0, !.margin = EIP170_RUNTIME_LIMIT_BYTES,
                                !.openRisks = {}, !.incomplete = FALSE]
    /\ LET rows == {[finding |-> f, status |-> "False Positive"] : f \in first_party(Findings)}
       IN slither' = [slither EXCEPT !.rows = rows, !.mirror = rows,
                                     !.counts = status_counts(rows)]
    /\ UNCHANGED <<manifest, envelope, template, today>>

Usual(r) == CHOOSE s \in Submissions[r] : IsUsual(s)

(* Every envelope is generated from its template and every row linked to   *)
(* it, as documented; at most one row is submitted in a way of its own.    *)
Submit ==
    /\ gateEdits = -1 /\ gateEdits' = 0
    /\ \E plan \in UNION {{[r \in Requirements |-> IF r = odd THEN s ELSE Usual(r)] :
                             s \in Submissions[odd]} : odd \in Requirements} :
          /\ \A r \in Requirements : build_accepted(r, plan[r].call)
          /\ envelope' = [r \in Requirements |-> generated(r, plan[r].call)]
          /\ manifest' = [rows |-> [r \in Requirements |->
                               Row(plan[r].status,
                                   {[kind |-> "envelope", of |-> r, sha256 |-> envelope'[r]]},
                                   plan[r].risk)],
                          ready |-> [p \in Phases |->
                               IF \E r \in Requirements : PHASE(r) = p
                                       /\ plan[r].status \in BLOCKING_STATUSES
                               THEN "blocked" ELSE "ready"],
                          kept |-> artifact["template"]]
    /\ UNCHANGED <<template, artifact, policy, today, slither>>

EditTree == gateEdits >= 0 /\ gateEdits < MaxGateEdits /\ gateEdits' = gateEdits + 1

EditArtifact(p) ==
    /\ EditTree
    /\ \E c \in Contents : /\ c.state = "link" => p \notin LinkTargets
                          /\ artifact' = [artifact EXCEPT ![p] = c]
    /\ UNCHANGED <<manifest, envelope, template, policy, today, slither>>

EditEnvelope(r) ==
    /\ EditTree
    /\ \E field \in DOMAIN FieldValues : \E v \in FieldValues[field] :
          envelope' = [envelope EXCEPT ![r][field] = v]
    /\ UNCHANGED <<manifest, template, artifact, policy, today, slither>>

EditTemplate(r) ==
    /\ EditTree
    /\ \E field \in DOMAIN FieldValues : \E v \in FieldValues[field] :
          template' = [template EXCEPT ![r][field] = v]
    /\ UNCHANGED <<manifest, envelope, artifact, policy, today, slither>>

(* generate_non_local_release_evidence, over whatever is there. *)
GenerateEnvelope(r) ==
    /\ EditTree
    /\ \E args \in Calls[r] :
          build_accepted(r, args) /\ envelope' = [envelope EXCEPT ![r] = generated(r, args)]
    /\ UNCHANGED <<manifest, template, artifact, policy, today, slither>>

(* A row is written by hand: its status with or without a waiver, or its   *)
(* references, with the digests of the day.                                *)
EditRow(r) ==
    /\ EditTree
    /\ \/ \E status \in REQUIREMENT_STATUSES, risk \in Windows \cup {NoRisk} :
             /\ status = "accepted_risk" <=> risk # NoRisk
             /\ manifest' = [manifest EXCEPT !.rows[r] = Row(status, @.evidence, risk)]
       \/ \E cited \in {{}, {Reference("template", r)},
                        {Reference("envelope", r), Reference("template", r)}}
                       \cup {{Reference("envelope", q)} : q \in Requirements} :
             manifest' = [manifest EXCEPT !.rows[r].evidence = cited]
    /\ UNCHANGED <<envelope, template, artifact, policy, today, slither>>

SetReady(phase) ==
    /\ EditTree
    /\ \E v \in {"blocked", "ready"} : manifest' = [manifest EXCEPT !.ready[phase] = v]
    /\ UNCHANGED <<envelope, template, artifact, policy, today, slither>>

(* A new build, a reopened risk, a dropped binding. *)
EditPolicy ==
    /\ EditTree
    /\ \/ \E size, measured \in Sizes :
             policy' = [policy EXCEPT !.size = size, !.margin = EIP170_RUNTIME_LIMIT_BYTES - measured]
       \/ \E risks \in SUBSET {"GOVERNANCE_NATIVE_VALUE", "GOVERNED_PARAMETER_COMPLETENESS"} :
             policy' = [policy EXCEPT !.openRisks = risks]
       \/ \E gap \in BOOLEAN : policy' = [policy EXCEPT !.incomplete = gap]
    /\ UNCHANGED <<manifest, envelope, template, artifact, today, slither>>

(* The sources change: findings come and go. *)
EditSources ==
    /\ EditTree
    /\ \E fs \in SUBSET Findings : slither' = [slither EXCEPT !.code = fs]
    /\ UNCHANGED <<manifest, envelope, template, artifact, policy, today>>

(* A reviewed rebaseline: rows and dispositions of the tree as it is, the  *)
(* constants of the checker with them; the mirror is regenerated by        *)
(* --render-markdown, which wants valid data only.                         *)
Rebaseline ==
    /\ EditTree
    /\ \E fs \in SUBSET Findings : \E status \in [fs -> {"Open", "False Positive"}] :
          LET rows == {[finding |-> f, status |-> status[f]] : f \in fs}
          IN slither' = [slither EXCEPT !.tree = slither.code, !.rows = rows,
                                        !.counts = status_counts(rows)]
    /\ UNCHANGED <<manifest, envelope, template, artifact, policy, today>>

RenderMirror ==
    /\ EditTree /\ validate_baseline_data
    /\ slither' = [slither EXCEPT !.mirror = slither.rows]
    /\ UNCHANGED <<manifest, envelope, template, artifact, policy, today>>

NextDay ==
    /\ gateEdits >= 0 /\ today < MaxDay /\ today' = today + 1
    /\ UNCHANGED <<manifest, envelope, template, artifact, policy, gateEdits, slither>>

GateNext ==
    \/ Retain \/ Submit \/ EditPolicy \/ NextDay \/ EditSources \/ Rebaseline \/ RenderMirror
    \/ \E p \in Requirements \cup {"template"} : EditArtifact(p)
    \/ \E r \in Requirements : \/ EditEnvelope(r) \/ EditTemplate(r)
                              \/ GenerateEnvelope(r) \/ EditRow(r)
    \/ \E p \in Phases : SetReady(p)

GateSpec == GateInit /\ [][GateNext]_gateVars

-----------------------------------------------------------------------------
(***************************************************************************)
(* Properties                                                              *)
(***************************************************************************)
(* In a tree every checker accepts, a completed marketplace row traces     *)
(* through a reviewed envelope of its own to an artifact that is, byte for *)
(* byte, the one reviewed and still acceptable, whatever was edited since  *)
(* (check_marketplace_indexer_evidence.py:604-655).                        *)
MarketRowsTraceToTheirArtifact ==
    Checked => \A r \in MANIFEST_REQUIREMENTS \cap Requirements :
        manifest.rows[r].status = "complete" =>
            \E e \in {At(ref) : ref \in manifest.rows[r].evidence} :
                /\ e.review = "reviewed" /\ e.requirement = r
                /\ e.sha256 = artifact[e.retained] /\ artifact[e.retained].accepted

(* What the release workflow lets through has been triaged as it is: every *)
(* finding in the first-party sources of today is a documented false       *)
(* positive, and the mirror the reviewers read says so                     *)
(* (check_slither_baseline.py:953-987, release-mode.yml:80-99).            *)
ReleasedSourcesAreTriaged ==
    \A phase \in Phases : slither_baseline_check /\ OnlyStandingStops(phase) =>
        \A f \in first_party(slither.code) :
            [finding |-> f, status |-> "False Positive"] \in slither.mirror

(* Time alone closes the gate for one reason, a waiver whose last day is   *)
(* over, and opens it for one, a waiver whose first day has come           *)
(* (check_release_mode.py:269-301).                                        *)
TimeOnlyMovesWaivers ==
    [][today' # today => \A phase \in Phases :
         /\ OnlyStandingStops(phase) /\ ~OnlyStandingStops(phase)' =>
               \E r \in Requirements : manifest.rows[r].risk # NoRisk
                    /\ manifest.rows[r].risk.expires_at = today
         /\ ~OnlyStandingStops(phase) /\ OnlyStandingStops(phase)' =>
               \E r \in Requirements : manifest.rows[r].risk.accepted_at = today']_gateVars

(* Reports that are current tell what the gate will say: a row that blocks *)
(* a release on some day is listed as incomplete in the report of every    *)
(* phase it belongs to, and a ready phase of which the manifest counts no  *)
(* blocking row and the report no incomplete one has nothing in the way    *)
(* (generate_public_beta_blocker_report.py:74-98 and 189-212).             *)
ReportsTellTheGate ==
    /\ beta_report_builds => \A r \in Requirements :
          row_blocks(r) => \E row \in beta_report.incomplete : row.id = r
    /\ beta_report_builds => \A phase \in Phases :
          beta_report.status[phase] = "ready"
          /\ (\A row \in beta_report.incomplete : PHASE(row.id) # phase) =>
             /\ blocking_counts(phase) = 0
             /\ \A r \in release_mode_blockers(phase) \cap Requirements : PHASE(r) # phase
    /\ production_report_builds => \A r \in Requirements \cap PRODUCTION_REQUIREMENTS :
          /\ row_blocks(r) => \E row \in production_report.incomplete : row.id = r
          /\ \A row \in beta_report.incomplete : row.id = r => row \in production_report.incomplete

(* An envelope that the generator's --check calls current, generated as    *)
(* reviewed for its own row, is one the checkers of completed rows take,   *)
(* who resolve and read it on their own: its metadata complete the row, a  *)
(* required command is quoted as the artifact at the recorded path has it, *)
(* and a marketplace row refuses it only for what the call or the artifact *)
(* says; whatever link the call named, and whatever was edited since       *)
(* (generate_non_local_release_evidence.py:157-235).                       *)
CurrentEnvelopeCompletesItsRow ==
    \A r \in Requirements : \A args \in Calls[r] :
        LET e == envelope[r]
        IN envelope_current(r, args) /\ args.review = "reviewed" /\ e.requirement = r =>
            /\ validate_runbook_metadata(e, r)
            /\ r \in RETAINED_COMMAND_REQUIREMENTS => e.command = artifact[e.retained].command
            /\ /\ r \in MANIFEST_REQUIREMENTS /\ args.environment \in MarketEnvironments(r)
               /\ args.notes = "final" /\ args.chain_id = 1
               /\ ~validate_reviewed_evidence_envelope(e, r)
               => artifact[e.retained].state = "file" /\ ~artifact[e.retained].accepted

(* What the generators write agrees with the checkers and with the gate.    *)
GeneratedFilesTellTheGate == ReportsTellTheGate /\ CurrentEnvelopeCompletesItsRow

(* What the documentation says of a completed row: it rests on reviewed    *)
(* evidence, never on a template or on an envelope that still waits for    *)
(* review (docs/public-beta-evidence.md:65-66).                            *)
CompleteRowsAreReviewed ==
    Checked => \A r \in Requirements : manifest.rows[r].status = "complete" =>
        \E ref \in manifest.rows[r].evidence :
            At(ref).type = "evidence" /\ At(ref).review = "reviewed"
=============================================================================
