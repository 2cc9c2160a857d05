--------------------------- MODULE EvidenceRecords ---------------------------
(***************************************************************************)
(* The JSON evidence records of a release, the checkers that accept or     *)
(* refuse them, and the release manifest that lists them: signer custody,  *)
(* drop authorization signing, admin ceremony, deployment ceremony,        *)
(* randomizer operations, and the provenance and permanence descriptors of *)
(* a one-of-one token.                                                     *)
(*                                                                         *)
(* A field is "open" while it holds its template's placeholder (TBD, a     *)
(* local stand-in, a zero address, an empty list of evidence) and "weak"   *)
(* when it is filled in with a value that is not the final one (pending,   *)
(* blocked, FALSE).  The digest of a file is the file's content, and the   *)
(* digest of the release manifest is the number of its edition: two        *)
(* editions are the same exactly when they list the same record.           *)
(***************************************************************************)
EXTENDS Integers, FiniteSets, Sequences

CONSTANTS RecordKinds,     \* the kinds of record this instance works on
          FileContents,    \* per role, what a retained file can hold
          Facts,           \* what a content says: [adapter, provider, payload, unsafe, secret]
          RecordContexts,  \* per kind, what an operator may write down about the deployment
          RecordTargets,   \* the environments and chains a record may be filled in for
          MaxRecordEdits   \* edits of the record and its files

VARIABLES recordKind,  \* the kind of record under way
          rec,         \* the record
          files,       \* the files it refers to, by role
          history,     \* the editions of the release manifest, what each one lists
          recordEdits  \* edits made so far

recordVars == <<recordKind, rec, files, history, recordEdits>>

NoDigest == -1  \* a placeholder where a digest belongs
SelfRef == -2   \* "not_available_self_referential"
Absent == -3    \* the content of a file that is not there
Same == 2        \* the content of a second descriptor for the same token

ASSUME RecordConstants ==
    /\ MaxRecordEdits \in Nat
    /\ DOMAIN RecordContexts = RecordKinds
    /\ {"release_manifest", "sibling"} \subseteq DOMAIN FileContents
    /\ FileContents["release_manifest"] = {1}
    /\ \A role \in DOMAIN FileContents :
          FileContents[role] \subseteq (Nat \cup {Absent}) \cap DOMAIN Facts
          /\ FileContents[role] # {Absent} /\ FileContents[role] # {}

-----------------------------------------------------------------------------
(***************************************************************************)
(* What the records have in common                                         *)
(***************************************************************************)
ENVIRONMENTS == {"local", "fork", "testnet", "mainnet", "production"}
NON_LOCAL_ENVIRONMENTS == ENVIRONMENTS \ {"local"}
PRODUCTION_ENVIRONMENTS == {"mainnet", "production"}
RECORD_TYPES == {"template", "evidence"}
REVIEW_STATUSES == {"template", "pending_review", "reviewed"}
APPROVAL_STATUSES == {"template", "pending", "approved", "rejected"}

NonLocal(r) == r.env \in NON_LOCAL_ENVIRONMENTS
Production(r) == r.env \in PRODUCTION_ENVIRONMENTS
Reviewed(r) == r.review = "reviewed"
Settled(r, fields) == fields \cap r.open = {}
Final(r, fields) == fields \cap (r.open \cup r.weak) = {}

(* The secret scan, the exact keys, formats and enums of every object, and *)
(* the redaction policy.                                                   *)
WellFormedRecord(r) == {"secret", "schema", "redaction"} \cap r.flaw = {}

(* A template stays one, and evidence has left it. *)
TypeMatchesReview(r) == r.type = "template" <=> r.review = "template"

(* validate_template_notice *)
TemplateNotice(r) == r.type = "template" => "notice" \notin r.flaw

(* validate_file_ref: the file is there and has the digest given. *)
FileRef(r, f, role) == f[role] # Absent /\ r.pin[role] = f[role]

(* The review section of custody, provenance and permanence records. *)
ReviewSection(r) ==
    Reviewed(r) => /\ Settled(r, {"owner", "reviewer", "approval_reference"})
                   /\ "dates" \notin r.flaw
                   /\ r.approval = "approved"

-----------------------------------------------------------------------------
(***************************************************************************)
(* Signer custody readiness                                                *)
(***************************************************************************)
CustodyCategories == {"signer_custody_schema", "readiness_transcript"}
NonLocalCustodyCategories == {"custody_approval", "signer_service_attestation",
                              "rotation_revocation_drill", "monitoring_runbook"}

IdentityFields == {"signer_type", "signer_manager_type", "signer_service_class",
    "signer_epoch_source", "erc1271_support_status", "erc1271_support_detail"}
CustodySection == {"custody_owner", "custody_system", "approval_workflow_reference",
    "custody_status", "key_material_location", "separation_of_duties"}
ReadinessFields == {"rotation_status", "revocation_status", "compromise_response_status"}
DrillFields == {"signer_epoch_rotation_tested", "per_drop_cancellation_tested"}
OperationFields == {"monitoring_status", "signer_service_integration_status",
                    "alerting_reference"}

Custody_signer_identity(r) ==
    /\ NonLocal(r) => Settled(r, IdentityFields)
    /\ Production(r) /\ r.ctx.wallet = "ERC1271" => Final(r, {"erc1271_support_status"})

Custody_custody(r) ==
    /\ NonLocal(r) => Settled(r, CustodySection)
    /\ Production(r) => Final(r, {"custody_status"})

(* Mutant: only the status of a drill is read, not that it took place. *)
Custody_lifecycle_NoDrills(r) ==
    /\ NonLocal(r) => Settled(r, ReadinessFields \cup {"last_rotation_drill"})
    /\ Production(r) => Final(r, ReadinessFields)

Custody_lifecycle(r) ==
    /\ NonLocal(r) => Settled(r, ReadinessFields \cup {"last_rotation_drill",
                                                       "last_revocation_drill"})
    /\ Production(r) => Final(r, ReadinessFields \cup DrillFields)

(* "evidence" stands for the runbook and the incident runbook. *)
Custody_operations(r, f) ==
    /\ FileRef(r, f, "evidence")
    /\ NonLocal(r) => Settled(r, OperationFields)
    /\ Production(r) => Final(r, {"monitoring_status", "signer_service_integration_status"})

Custody_document(r, f) ==
    /\ WellFormedRecord(r) /\ TypeMatchesReview(r)
    /\ Custody_signer_identity(r) /\ Custody_custody(r)
    /\ Custody_lifecycle(r) /\ Custody_operations(r, f)
    /\ ReviewSection(r)
    /\ r.retained # {} /\ FileRef(r, f, "retained")
    /\ TemplateNotice(r)
    /\ r.type = "template" => CustodyCategories \subseteq r.retained
    /\ NonLocal(r) => NonLocalCustodyCategories \subseteq r.retained
    /\ Production(r) => Reviewed(r) /\ r.approval = "approved"

(***************************************************************************)
(* Drop authorization signing: the record restates the unsigned payload    *)
(* it pins and says how it was signed.                                     *)
(***************************************************************************)
SigningCategories == {"drop_signing_schema", "payload_output", "retained_transcript"}
NonLocalSigningCategories == {"payload_output", "signing_approval", "signing_transcript"}
SignedCategories == {"signature_verification"}

SignatureFields == {"signature_status", "signature_hash", "verification_status",
                    "verification_command", "returned_at"}
SigningIdentityFields == {"signer_type", "custody_status", "signer_lifecycle_status"}
(* Texts only their presence is required of. *)
SigningFreeText == {"custody_reference", "signer_service", "signer_epoch_source",
                    "owner", "approval_reference"}

(* validate_payload with validate_payload_domain, _message and _derived. *)
Signing_payload(r, f) ==
    /\ FileRef(r, f, "payload")
    /\ LET p == Facts[f["payload"]]
       IN /\ ~p.unsafe
          /\ r.ctx.payload = p.payload
          /\ r.ctx.payload_kind = p.payload.sale

Signing_identity(r, f) ==
    /\ r.ctx.signer = Facts[f["payload"]].payload.signer
    /\ r.ctx.epoch = Facts[f["payload"]].payload.epoch
    /\ NonLocal(r) => Settled(r, SigningIdentityFields)

Signed(r) == Final(r, {"signature_status"})

Signing_signature(r) ==
    /\ NonLocal(r) => Settled(r, {"signature_status"})
    /\ Signed(r) => /\ Final(r, {"signature_hash", "verification_status"})
                    /\ Settled(r, {"verification_command", "returned_at"})
    /\ ~Signed(r) => ~Final(r, {"signature_hash"})

Signing_review(r) ==
    Reviewed(r) => Settled(r, {"reviewer"}) /\ r.approval = "approved"

Signing_document(r, f) ==
    /\ WellFormedRecord(r) /\ TypeMatchesReview(r)
    /\ Signing_payload(r, f)
    /\ r.chain = Facts[f["payload"]].payload.chain
    /\ Signing_identity(r, f)
    /\ Signing_signature(r) /\ Signing_review(r)
    /\ r.retained # {} /\ FileRef(r, f, "retained")
    /\ TemplateNotice(r)
    /\ r.type = "template" => SigningCategories \subseteq r.retained
    /\ NonLocal(r) => NonLocalSigningCategories \subseteq r.retained
    /\ Signed(r) => SignedCategories \subseteq r.retained
    /\ Production(r) => Reviewed(r) /\ r.approval = "approved" /\ Signed(r)

-----------------------------------------------------------------------------
(***************************************************************************)
(* Admin ceremony.  What has to hold depends on the review alone; the      *)
(* files of a reviewed record are searched for secrets.                    *)
(***************************************************************************)
CHAIN_IDS_BY_ENVIRONMENT == [local |-> "31337", fork |-> "1", testnet |-> "11155111",
                             mainnet |-> "1", production |-> "1"]
AdminTemplateCategories == {"admin_ceremony_schema",
                            "admin_ceremony_retained_artifact_template"}
AdminReviewedCategories == AdminTemplateCategories \cup
    {"ownership_transfer_or_blocker", "role_grants_and_revocations", "signer_setup",
     "pause_and_emergency_setup", "post_state_views", "verification_status",
     "approval_record"}
AdminSections == {"ownership", "roles", "signer_setup", "pause_and_emergency", "verification"}
AdminFreeText == {"participants", "rationale", "reviewer"}

(* validate_file_ref with require_existing *)
AdminFileRef(r, f, role) == FileRef(r, f, role) /\ ~Facts[f[role]].secret

Admin_deployment(r, f) ==
    Reviewed(r) => /\ \A role \in {"manifest", "book", "checksums"} : AdminFileRef(r, f, role)
                   /\ FileRef(r, f, "release_manifest")

(* A section that is not complete needs a reason; a template status or a    *)
(* zero address is no answer.                                              *)
Admin_section(r, s) ==
    Reviewed(r) => Settled(r, {s}) /\ (s \in r.weak => Settled(r, {"rationale"}))

Admin_participants(r) == Reviewed(r) => Settled(r, {"participants"})
Admin_review(r) == Reviewed(r) => r.approval = "approved"

Admin_retained(r, f) ==
    IF Reviewed(r)
    THEN AdminReviewedCategories \subseteq r.retained /\ AdminFileRef(r, f, "retained")
    ELSE AdminTemplateCategories \subseteq r.retained

Admin_environment_chain(r) == r.chain = CHAIN_IDS_BY_ENVIRONMENT[r.env]

(* require_reviewed_no_placeholders *)
Admin_no_placeholders(r) == Reviewed(r) => r.open = {}

Admin_document(r, f) ==
    /\ WellFormedRecord(r) /\ Admin_environment_chain(r) /\ TypeMatchesReview(r)
    /\ Admin_deployment(r, f) /\ Admin_participants(r)
    /\ \A s \in AdminSections : Admin_section(r, s)
    /\ Admin_review(r) /\ Admin_retained(r, f) /\ Admin_no_placeholders(r)

(***************************************************************************)
(* Deployment ceremony.  There is no review; a result that passed shows    *)
(* evidence, and the bundle that covers the record is named without digest. *)
(***************************************************************************)
REQUIRED_RESULTS == {"admin_ceremony", "signer_setup", "metadata_browser",
                     "auction_ceremony", "emergency_redeployment"}

(* validate_artifacts with validate_checksum_bundle_ref *)
Ceremony_artifacts(r, f) ==
    /\ \A role \in {"manifest", "book", "checksums"} : FileRef(r, f, role)
    /\ r.own = "self_referential"

Passed(r, result) == result \notin r.weak
ShowsEvidence(r, results) == ~(results \subseteq r.open)

Ceremony_results(r, f) ==
    /\ \A result \in REQUIRED_RESULTS : Passed(r, result) => Settled(r, {result})
    /\ ShowsEvidence(r, REQUIRED_RESULTS) => FileRef(r, f, "evidence")

Ceremony_retained(r, f) == r.retained # {} => FileRef(r, f, "retained")

Ceremony_document(r, f) ==
    /\ WellFormedRecord(r)
    /\ Ceremony_artifacts(r, f) /\ Ceremony_results(r, f) /\ Ceremony_retained(r, f)
    /\ NonLocal(r) =>
          /\ (\E result \in REQUIRED_RESULTS : Passed(r, result)) => r.retained # {}
          /\ r.env # "fork" => Settled(r, {"contract_verification"})

(***************************************************************************)
(* Randomizer operations                                                   *)
(***************************************************************************)
REQUIRED_CONTROLS == {"request_tracking", "callback_validation", "provider_epoch_migration",
    "pending_request_migration_block", "stale_request_policy", "failed_request_policy",
    "retry_policy", "reserve_accounting", "pause_policy", "emergency_withdrawal_boundary"}
FundingFields == {"vrf_funding_status", "arrng_funding_status"}
FundingEvidence == {"vrf_evidence", "arrng_evidence"}
RandomizerCategories == {"provider_configuration", "provider_funding", "provider_health"}

Randomizer_artifacts(r, f) == Ceremony_artifacts(r, f)

(* validate_provider_configuration, validate_lifecycle_controls and the    *)
(* retained artifacts: each control that passed shows evidence.            *)
Randomizer_evidence(r, f) ==
    /\ \A control \in REQUIRED_CONTROLS : Passed(r, control) => Settled(r, {control})
    /\ ShowsEvidence(r, REQUIRED_CONTROLS \cup FundingEvidence) => FileRef(r, f, "evidence")
    /\ r.retained # {} => FileRef(r, f, "retained")

(* validate_deployment_alignment *)
Randomizer_alignment(r, f) ==
    /\ Facts[f["manifest"]].adapter = r.ctx.adapter
    /\ Facts[f["manifest"]].provider = r.ctx.provider
    /\ Facts[f["book"]].adapter = r.ctx.adapter

Randomizer_environment(r) ==
    /\ NonLocal(r) => Settled(r, FundingFields)
    /\ Production(r) => /\ RandomizerCategories \subseteq r.retained
                        /\ Final(r, FundingFields) /\ Settled(r, FundingEvidence)
                        /\ Final(r, REQUIRED_CONTROLS)

Randomizer_document(r, f) ==
    /\ WellFormedRecord(r)
    /\ Randomizer_artifacts(r, f) /\ Randomizer_evidence(r, f)
    /\ Randomizer_alignment(r, f) /\ Randomizer_environment(r)

-----------------------------------------------------------------------------
(***************************************************************************)
(* Provenance descriptor of a one-of-one token                             *)
(***************************************************************************)
ProvenanceCategories == {"provenance_schema", "review_transcript"}

(* A binding to a file of the release: its status is a field of the record *)
(* except for the release manifest, whose binding may refer to itself.     *)
BindingStatus(r, role) ==
    IF role = "release_manifest" THEN r.own
    ELSE IF role \in r.open THEN "template"
    ELSE IF role \in r.weak THEN "pending_review" ELSE "reviewed"

(* Mutant: the digest of a binding is checked for its form only. *)
Binding_FormOnly(r, f, role) ==
    /\ f[role] # Absent
    /\ BindingStatus(r, role) = "self_referential" <=> r.pin[role] = SelfRef
    /\ Reviewed(r) => /\ BindingStatus(r, role) \in {"reviewed", "self_referential"}
                      /\ r.pin[role] # NoDigest

(* validate_binding_ref *)
Binding(r, f, role) ==
    /\ f[role] # Absent
    /\ r.pin[role] \notin {NoDigest, SelfRef} => r.pin[role] = f[role]
    /\ BindingStatus(r, role) = "self_referential" <=> r.pin[role] = SelfRef
    /\ Reviewed(r) => /\ BindingStatus(r, role) \in {"reviewed", "self_referential"}
                      /\ r.pin[role] # NoDigest

Provenance_bindings(r, f) ==
    \A role \in {"release_manifest", "checksums", "manifest", "book"} : Binding(r, f, role)

ScopeFields == {"core_contract", "contract_metadata_adapter", "token_id",
                "contract_uri_hash", "collection_freeze_manifest_hash"}

(* validate_scope: a zero stands for nothing yet. *)
Provenance_scope(r) == Production(r) \/ Reviewed(r) => Settled(r, ScopeFields)

ArtworkFields == {"title", "artist", "artist_statement", "medium", "creation_date"}
Provenance_artwork(r) == Reviewed(r) => Settled(r, ArtworkFields)

AuthenticityHashes == {"artist_statement_sha256", "artwork_content_sha256",
                       "certificate_sha256"}
AuthenticityFields == AuthenticityHashes \cup {"authority", "authority_reference"}

(* A hash here is a digest or the local placeholder, nothing else.         *)
Provenance_authenticity(r) ==
    /\ AuthenticityHashes \cap r.weak = {}
    /\ Reviewed(r) => Final(r, {"authenticity_status"}) /\ Settled(r, AuthenticityFields)

(* validate_provenance_entries: an evidence reference of the entry that    *)
(* binds the release may refer to the manifest generated from this one.    *)
Provenance_entries(r) ==
    /\ {"duplicate", "no_creation", "no_release_binding"} \cap r.flaw = {}
    /\ "evidence_refs" \in r.weak => r.ctx.ref = "release_binding"
    /\ Reviewed(r) => Settled(r, {"entry_text"}) /\ Final(r, {"evidence_refs"})

(* validate_mutability_policy *)
Provenance_mutability(r) ==
    /\ "not_append_only" \notin r.flaw
    /\ Reviewed(r) => Settled(r, {"authority_rotation_policy"})

Provenance_document(r, f) ==
    /\ WellFormedRecord(r) /\ TypeMatchesReview(r)
    /\ Provenance_scope(r) /\ Provenance_artwork(r) /\ Provenance_authenticity(r)
    /\ Provenance_entries(r) /\ Provenance_mutability(r) /\ Provenance_bindings(r, f)
    /\ ReviewSection(r)
    /\ r.retained # {} /\ FileRef(r, f, "retained")
    /\ TemplateNotice(r)
    /\ r.type = "template" => ProvenanceCategories \subseteq r.retained
    /\ NonLocal(r) => r.review # "template"
    /\ Production(r) => Reviewed(r) /\ r.approval = "approved"

(***************************************************************************)
(* Permanence package of a one-of-one token: what is needed to render it    *)
(* again.  A hash here may also hold the self-referential status, and is    *)
(* weak then (require_sha256_or_placeholder).                              *)
(***************************************************************************)
PermanenceCategories == {"permanence_schema", "replay_transcript"}

Permanence_scope(r) == Provenance_scope(r)

Permanence_renderer(r, f) ==
    /\ FileRef(r, f, "renderer")
    /\ Reviewed(r) => Settled(r, {"renderer_name", "renderer_version", "renderer_contract"})

(* validate_dependencies with validate_dependency_records *)
Permanence_dependencies(r, f) ==
    /\ FileRef(r, f, "dependencies")
    /\ {"duplicate", "count"} \cap r.flaw = {}
    /\ Reviewed(r) => /\ Settled(r, {"content_sha256", "provenance_sha256",
                                     "dependency_registry"})
                      /\ Final(r, {"source_status"})

Permanence_archive(r, f) ==
    /\ FileRef(r, f, "archive")
    /\ Reviewed(r) => Final(r, {"archive_status"}) /\ Settled(r, {"archive_sha256"})

Permanence_replay(r) == Reviewed(r) => Final(r, {"deterministic_replay_status"})

OutputHashes == {"metadata_json_sha256", "animation_html_sha256", "image_sha256",
                 "rendered_output_sha256", "browser_proof_sha256"}
Permanence_outputs(r) ==
    Reviewed(r) => /\ Settled(r, OutputHashes)
                   /\ Final(r, {"browser_proof_status", "output_hash_status"})

(* validate_storage_guarantees: the summary names both kinds of storage. *)
Permanence_storage(r) == "no_storage_summary" \notin r.flaw

Permanence_bindings(r, f) ==
    \A role \in {"release_manifest", "checksums", "dependencies", "descriptors"} :
        Binding(r, f, role)

Permanence_document(r, f) ==
    /\ WellFormedRecord(r) /\ TypeMatchesReview(r)
    /\ Permanence_scope(r) /\ Permanence_renderer(r, f) /\ Permanence_dependencies(r, f)
    /\ Permanence_archive(r, f) /\ Permanence_replay(r) /\ Permanence_outputs(r)
    /\ Permanence_storage(r) /\ Permanence_bindings(r, f)
    /\ ReviewSection(r)
    /\ r.retained # {} /\ FileRef(r, f, "retained")
    /\ TemplateNotice(r)
    /\ r.type = "template" => PermanenceCategories \subseteq r.retained
    /\ NonLocal(r) => r.review # "template"
    /\ Production(r) => Reviewed(r) /\ r.approval = "approved"

-----------------------------------------------------------------------------
(***************************************************************************)
(* One checker per kind                                                    *)
(***************************************************************************)
AllKinds == {"custody", "signing", "admin", "ceremony", "randomizer",
             "provenance", "permanence"}
Descriptors == {"provenance", "permanence"}
(* The kinds the release manifest's generator puts through their checker.  *)
ValidatedKinds == AllKinds \ {"ceremony", "randomizer"}

AcceptsRecord(k, r, f) ==
    CASE k = "custody" -> Custody_document(r, f)
      [] k = "signing" -> Signing_document(r, f)
      [] k = "admin" -> Admin_document(r, f)
      [] k = "ceremony" -> Ceremony_document(r, f)
      [] k = "randomizer" -> Randomizer_document(r, f)
      [] k = "provenance" -> Provenance_document(r, f)
      [] k = "permanence" -> Permanence_document(r, f)

AcceptedRecord == AcceptsRecord(recordKind, rec, files)

(* The files a kind of record refers to, its fields, its categories of      *)
(* retained artifacts, and what can be wrong with its form.                *)
Pins == [custody |-> {"evidence", "retained"},
         signing |-> {"payload", "retained"},
         admin |-> {"manifest", "book", "checksums", "release_manifest", "retained"},
         ceremony |-> {"manifest", "book", "checksums", "evidence", "retained"},
         randomizer |-> {"manifest", "book", "checksums", "evidence", "retained"},
         provenance |-> {"release_manifest", "checksums", "manifest", "book", "retained"},
         permanence |-> {"renderer", "dependencies", "archive", "release_manifest",
                         "checksums", "descriptors", "retained"}]

ReviewFields == {"owner", "reviewer", "approval_reference"}
Fields ==
    [custody |-> IdentityFields \cup CustodySection \cup ReadinessFields \cup DrillFields
                 \cup {"last_rotation_drill", "last_revocation_drill"}
                 \cup OperationFields \cup ReviewFields,
     signing |-> SigningIdentityFields \cup SignatureFields \cup {"reviewer"} \cup SigningFreeText,
     admin |-> AdminSections \cup AdminFreeText,
     ceremony |-> REQUIRED_RESULTS \cup {"contract_verification"},
     randomizer |-> REQUIRED_CONTROLS \cup FundingFields \cup FundingEvidence,
     provenance |-> ScopeFields \cup ArtworkFields \cup AuthenticityFields \cup ReviewFields
                    \cup {"authenticity_status", "entry_text", "evidence_refs",
                          "authority_rotation_policy", "manifest"},
     permanence |-> ScopeFields \cup OutputHashes \cup ReviewFields
                    \cup {"renderer_name", "renderer_version", "renderer_contract",
                          "content_sha256", "provenance_sha256", "dependency_registry",
                          "source_status", "archive_status", "archive_sha256",
                          "deterministic_replay_status", "browser_proof_status",
                          "output_hash_status", "descriptors"}]

Categories == [custody |-> CustodyCategories \cup NonLocalCustodyCategories,
               signing |-> SigningCategories \cup NonLocalSigningCategories \cup SignedCategories,
               admin |-> AdminReviewedCategories,
               ceremony |-> {"ceremony"},
               randomizer |-> RandomizerCategories,
               provenance |-> ProvenanceCategories,
               permanence |-> PermanenceCategories]

RecordFlaws == [custody |-> {"secret", "dates", "notice"},
                signing |-> {"secret", "notice"},
                admin |-> {"secret", "redaction"},
                ceremony |-> {"secret"},
                randomizer |-> {"schema"},
                provenance |-> {"notice", "dates", "duplicate", "no_creation", "not_append_only"},
                permanence |-> {"notice", "dates", "duplicate", "count", "no_storage_summary"}]

-----------------------------------------------------------------------------
(***************************************************************************)
(* Behaviour: the committed template is filled in, edited, and its files    *)
(* change; the release manifest is generated from whatever is there.       *)
(***************************************************************************)
Pinned(k, f) ==
    [role \in DOMAIN f |-> IF role = "release_manifest" /\ k \in Descriptors
                           THEN SelfRef ELSE f[role]]

(* The template of a kind, as it is committed. *)
Template(k, f, ctx) ==
    [type |-> "template", review |-> "template", approval |-> "template",
     env |-> "local", chain |-> "31337", flaw |-> {},
     open |-> Fields[k] \ (REQUIRED_RESULTS \cup REQUIRED_CONTROLS), weak |-> {},
     retained |-> Categories[k], pin |-> Pinned(k, f), own |-> "self_referential",
     ctx |-> ctx]

(* The files at the start; the release manifest lists the template.        *)
Committed ==
    [role \in DOMAIN FileContents |-> CHOOSE c \in FileContents[role] \ {Absent} : TRUE]

RecordsInit == /\ recordKind \in RecordKinds
               /\ files = Committed
               /\ \E ctx \in RecordContexts[recordKind] : rec = Template(recordKind, files, ctx)
               /\ history = <<[record |-> rec, sibling |-> files["sibling"]]>>
               /\ recordEdits = 0

(* An operator hands over a finished record. *)
FillInRecord ==
    /\ rec.type = "template" /\ recordEdits < MaxRecordEdits
    /\ \E t \in RecordTargets, s \in REVIEW_STATUSES \ {"template"},
          c \in RecordContexts[recordKind] :
          rec' = [rec EXCEPT !.type = "evidence", !.review = s,
                             !.approval = IF s = "reviewed" THEN "approved" ELSE "pending",
                             !.env = t.env, !.chain = t.chain,
                             !.open = {}, !.weak = {}, !.pin = Pinned(recordKind, files),
                             !.ctx = c]
    /\ UNCHANGED <<recordKind, files, history, recordEdits>>

Amend(r) == /\ recordEdits < MaxRecordEdits
            /\ rec' = r /\ r # rec
            /\ recordEdits' = recordEdits + 1
            /\ UNCHANGED <<recordKind, files, history>>

(* The text of the template itself is left alone. *)
Revise(r) == rec.type = "evidence" /\ Amend(r)

SetField == \E x \in Fields[recordKind], v \in {"open", "weak", "final"} :
                Revise([rec EXCEPT !.open = (@ \ {x}) \cup (IF v = "open" THEN {x} ELSE {}),
                                   !.weak = (@ \ {x}) \cup (IF v = "weak" THEN {x} ELSE {})])
SetReview == \/ \E s \in REVIEW_STATUSES : Amend([rec EXCEPT !.review = s])
             \/ \E s \in APPROVAL_STATUSES : Amend([rec EXCEPT !.approval = s])
             \/ \E t \in RECORD_TYPES : Amend([rec EXCEPT !.type = t])
SetTarget == \E t \in RecordTargets : Amend([rec EXCEPT !.env = t.env])
                                      \/ Amend([rec EXCEPT !.chain = t.chain])
SetContext == \E c \in RecordContexts[recordKind] : Amend([rec EXCEPT !.ctx = c])
Spoil == \E x \in RecordFlaws[recordKind] : Revise([rec EXCEPT !.flaw = @ \cup {x}])
DropRetained == \E c \in rec.retained : Revise([rec EXCEPT !.retained = @ \ {c}])
SetBinding == \E s \in {"pending_review", "reviewed", "self_referential"} :
                  Revise([rec EXCEPT !.own = s])
RepinRecord == \E role \in Pins[recordKind] :
                  \E d \in {files[role], NoDigest, SelfRef} :
                      Revise([rec EXCEPT !.pin[role] = d,
                                         !.own = IF role # "release_manifest" THEN @
                                                 ELSE IF d = SelfRef THEN "self_referential"
                                                 ELSE "reviewed"])

ReplaceRecordFile ==
    /\ recordEdits < MaxRecordEdits /\ recordEdits' = recordEdits + 1
    /\ \E role \in (Pins[recordKind] \cup {"sibling"}) \cap DOMAIN FileContents :
          \E c \in FileContents[role] \ {files[role]} : files' = [files EXCEPT ![role] = c]
    /\ UNCHANGED <<recordKind, rec, history>>

(* An earlier edition of the release manifest is checked out again. *)
Checkout ==
    /\ recordEdits < MaxRecordEdits /\ recordEdits' = recordEdits + 1
    /\ \E n \in DOMAIN history : n # files["release_manifest"] /\
          files' = [files EXCEPT !["release_manifest"] = n]
    /\ UNCHANGED <<recordKind, rec, history>>

(***************************************************************************)
(* The generators: the descriptor manifests, then the release manifest.     *)
(***************************************************************************)
Listing == [record |-> rec, sibling |-> files["sibling"]]

(* descriptor_record and record_identity; the record functions of the      *)
(* release manifest.                                                       *)
Listable == /\ recordKind \in ValidatedKinds => AcceptedRecord
            /\ recordKind \in Descriptors => files["sibling"] # Same

Catalogue ==
    /\ Listable
    /\ LET known == {n \in DOMAIN history : history[n] = Listing}
       IN \/ /\ known = {}
             /\ history' = Append(history, Listing)
             /\ files' = [files EXCEPT !["release_manifest"] = Len(history) + 1]
          \/ \E n \in known : /\ files["release_manifest"] # n
                              /\ files' = [files EXCEPT !["release_manifest"] = n]
                              /\ UNCHANGED history
    /\ UNCHANGED <<recordKind, rec, recordEdits>>

(* check_output of the generators: a rebuild gives the file that is there. *)
ManifestCurrent == /\ history[files["release_manifest"]] = Listing
                   /\ Listable

RecordsNext == \/ FillInRecord \/ SetField \/ SetReview \/ SetTarget \/ SetContext \/ Spoil
               \/ DropRetained \/ SetBinding \/ RepinRecord \/ ReplaceRecordFile
               \/ Checkout \/ Catalogue

RecordsSpec == RecordsInit /\ [][RecordsNext]_recordVars

-----------------------------------------------------------------------------
(***************************************************************************)
(* Properties                                                              *)
(***************************************************************************)
(* The fields no checker reads beyond their presence; how a signature was   *)
(* made is read only of one that was returned.                             *)
Unread(k, r) ==
    CASE k = "signing" -> SigningFreeText \cup
                          IF Signed(r) THEN {} ELSE SignatureFields \ {"signature_status"}
      [] k = "custody" -> DrillFields
      [] k \in Descriptors -> {"evidence_refs"}
      [] OTHER -> {}

(* A reviewed record for a chain others see has left its template: no       *)
(* field that is read still holds the placeholder it started with.  The     *)
(* sections of a checker each read their own fields, and the drafts of an   *)
(* operator are copies of the template.                                    *)
ReviewedIsFilledIn ==
    AcceptedRecord /\ recordKind \in ValidatedKinds /\ Reviewed(rec) /\ NonLocal(rec) =>
        /\ Settled(rec, Fields[recordKind] \ Unread(recordKind, rec))
        /\ rec.approval = "approved" /\ rec.type = "evidence"

(* Every edition of the release manifest that was ever written lists only   *)
(* finished records for production, whatever was edited before and after:   *)
(* reviewed evidence, drills that took place, a signature that was verified *)
(* (the generator validates these kinds at each run; of a deployment        *)
(* ceremony and of randomizer operations it only copies the fields, and an  *)
(* admin ceremony may name mainnet while it is still a template).           *)
ProductionListingIsFinished ==
    \A n \in DOMAIN history :
        LET r == history[n].record
        IN Production(r) /\ recordKind \in ValidatedKinds \ {"admin"} =>
              /\ r.type = "evidence" /\ Reviewed(r) /\ r.approval = "approved"
              /\ recordKind = "custody" => Final(r, ReadinessFields \cup DrillFields)
              /\ recordKind = "signing" => Final(r, {"signature_status", "signature_hash",
                                               "verification_status"})
              /\ recordKind \in Descriptors => Settled(r, ScopeFields)

(* The deployment manifest and the address book an accepted randomizer      *)
(* record refers to name the same adapters, although nothing compares the   *)
(* two files: in production both providers are funded as well.             *)
AdaptersAgree ==
    AcceptedRecord /\ recordKind = "randomizer" =>
        /\ Facts[files["manifest"]].adapter = Facts[files["book"]].adapter
        /\ Production(rec) => Final(rec, FundingFields \cup REQUIRED_CONTROLS)

(* Who signed and on which chain is what the retained payload says. *)
SignatureIsOfThePayload ==
    AcceptedRecord /\ recordKind = "signing" =>
        LET p == Facts[files["payload"]].payload
        IN rec.ctx.signer = p.signer /\ rec.chain = p.chain /\ rec.ctx.payload.digest = p.digest

(* No record gives the digest of the release manifest that lists it: when   *)
(* the manifest is current, an accepted record's binding to it refers to    *)
(* itself or carries no digest.  This is why the descriptors and the        *)
(* ceremony's checksum bundle have a status of their own for it; a reviewed *)
(* admin record has none and is never accepted next to a current manifest.  *)
CurrentManifestIsNotPinned ==
    AcceptedRecord /\ ManifestCurrent /\ "release_manifest" \in Pins[recordKind] =>
        /\ recordKind \in Descriptors => rec.pin["release_manifest"] \in {NoDigest, SelfRef}
        /\ recordKind = "admin" => ~Reviewed(rec)

(* What an accepted record says of itself, of the files it names and of the *)
(* manifest that lists it.                                                  *)
AcceptedRecordsAreSound ==
    /\ ReviewedIsFilledIn /\ AdaptersAgree
    /\ SignatureIsOfThePayload /\ CurrentManifestIsNotPinned

(* "Reviewed ... evidence must ... retain non-placeholder output and browser *)
(* proof hashes" (docs/permanence-packages.md:93).  The checker refuses one  *)
(* of the two placeholders in these fields and lets the other pass.         *)
ReviewedPackageIsHashed ==
    AcceptedRecord /\ recordKind = "permanence" /\ Reviewed(rec) => Final(rec, OutputHashes)
==============================================================================
