-------------------------- MODULE EvidenceArtifacts --------------------------
(***************************************************************************)
(* The retained evidence artifacts of a release and the checkers that      *)
(* accept or refuse them: one Markdown document per kind of evidence       *)
(* (tools/release, tools/deployment and tools/protocol check_*_evidence.py) *)
(* whose fields quote a review and name retained files.  The checkers were *)
(* written one per kind and repeat the same control with variations; each  *)
(* has its own definitions here, from shared pieces, so that what all of   *)
(* them promise can be stated once.                                        *)
(*                                                                         *)
(* A field is abstracted to its class: "final" fields must leave their     *)
(* placeholder, "yes" fields confirm a result, "control" fields quote an   *)
(* operation's outcome, "redaction" fields confirm that secrets are gone.  *)
(* The digest of a file is the file's content: no two contents collide.    *)
(***************************************************************************)
EXTENDS Naturals, FiniteSets

CONSTANTS Kinds,     \* the kinds of artifact this instance works on
          Contents,  \* what a retained file can hold: [state, chain, addr, sound, release, secret]
          Contexts,  \* per kind, the circumstances an operator may write down
          Targets,   \* per kind, the environment and chain it may be filled in for
          MaxEdits   \* edits of the document and its files after it was filled in

(* The kinds there is a checker for. *)
KindNames ==
    {"live_manifest", "verified_addresses", "public_beta_addresses", "broadcast_retention",
     "fork_browser", "live_browser", "marketplace", "external_audit", "post_audit",
     "incident_drill", "failed_randomness", "bad_metadata", "stuck_auction",
     "signer_compromise", "fork_ceremony", "live_ceremony", "fork_rehearsal",
     "testnet_rehearsal", "fork_randomizer", "live_randomizer", "production_signing"}

ASSUME EvidenceConstants ==
    /\ Kinds \subseteq KindNames
    /\ MaxEdits \in Nat
    /\ \E c \in Contents : c.state = "absent"
    /\ DOMAIN Contexts = Kinds /\ DOMAIN Targets = Kinds

VARIABLES kind,   \* the kind of artifact under way
          doc,    \* the document
          file,   \* retained files, by role
          edits   \* edits made so far

vars == <<kind, doc, file, edits>>

(***************************************************************************)
(* Documents and retained files                                            *)
(***************************************************************************)
Statuses == {"template", "pending_review", "reviewed"}
Decisions == Statuses \cup {"changes_requested"}
Claims == {"blocked", "complete"}
Environments == {"template", "fork", "testnet", "live", "audit", "release_signing"}
Chains == {"none", "1", "11155111"}
Roles == {"manifest", "book", "explorer", "proof", "digests", "summary", "signature", "other"}
Flaws == {"secret", "structure", "command", "form"}

NoFile == CHOOSE c \in Contents : c.state = "absent"

(* The digest a reference may carry after the path; NoFile stands for none. *)
NoPin == NoFile
digest(content) == [content EXCEPT !.state = "file"]

(* read_text, validate_no_secret_values, validate_headings and field_map:  *)
(* text without secrets, every heading, every required field exactly once. *)
Readable(d) == {"secret", "structure"} \cap d.flaw = {}

(* validate_commands: the validation commands are still quoted. *)
Commanded(d) == "command" \notin d.flaw

(* The bytes of a reviewed capture whose digest the checker pins: it was    *)
(* retained before the commands it would have to quote were required.      *)
HistoricalCapture(d) == d.bytes = "historical"

(* require_address, require_uint, require_bytes32, the commit pattern. *)
WellFormed(d) == "form" \notin d.flaw

Filled(d) == "final" \notin d.open
Confirmed(d, classes) == d.no \cap classes = {}

(* The template branch of validate_review_state, and its complement. *)
TemplateOnly(d) == d.status = "template" /\ d.notice /\ d.decision = "template"
LeftTemplate(d) == d.status # "template" /\ ~d.notice

(* Mutant: the digest after the path is read and never compared. *)
Retained_PathOnly(rules, d, f) ==
    \A r \in rules.files :
        /\ f[r].state = "file" \/ (rules.links /\ f[r].state = "link")
        /\ ~f[r].secret

(* A retained file as one checker sees it: whether it follows a symbolic   *)
(* link, and whether it reads a digest after the path (a checker that does *)
(* not takes the digest for a part of the path and finds no such file).    *)
Retained(rules, d, f) ==
    \A r \in rules.files :
        /\ f[r].state = "file" \/ (rules.links /\ f[r].state = "link")
        /\ ~f[r].secret
        /\ d.pin[r] # NoPin => rules.pins /\ d.pin[r] = digest(f[r])

Named(content) == {c \in DOMAIN content.addr : content.addr[c] # "none"}
Distinct(content) == \A c1, c2 \in Named(content) :
                        content.addr[c1] = content.addr[c2] => c1 = c2

-----------------------------------------------------------------------------
(***************************************************************************)
(* Live deployment manifest                                                *)
(***************************************************************************)
LiveManifestRules == [envs |-> {"live"}, chains |-> {"1"}, claims |-> {"blocked"},
    classes |-> {"final", "yes", "redaction"}, forms |-> TRUE, template |-> FALSE,
    files |-> {"manifest", "book", "digests", "other"}, links |-> FALSE, pins |-> TRUE]

(* validate_retained_files with split_retained_file_reference and          *)
(* resolve_retained_path                                                   *)
LiveManifest_retained(d, f) == Retained(LiveManifestRules, d, f)

(* validate_common_fields: of a template as well. *)
LiveManifest_common_fields(d) ==
    /\ d.claim = "blocked" /\ d.env = "live" /\ d.chain = "1"
    /\ d.status \in Statuses /\ d.decision \in Decisions
    /\ d.status = "template" <=> d.decision = "template"

(* validate_reviewed_fields: also of a document that is only pending. *)
LiveManifest_reviewed_fields(d) ==
    Filled(d) /\ Confirmed(d, {"yes", "redaction"}) /\ WellFormed(d)

(* validate_live_deployment_manifest, validate_address_book,               *)
(* validate_release_digests: the address book may name more contracts.     *)
LiveManifest_files(f) ==
    /\ f["manifest"].sound /\ f["manifest"].chain = "1"
    /\ Named(f["manifest"]) # {}
    /\ f["book"].chain = "1"
    /\ \A c \in Named(f["manifest"]) : f["book"].addr[c] = f["manifest"].addr[c]
    /\ f["digests"].sound

LiveManifest_artifact(d, f) ==
    /\ Readable(d) /\ LiveManifest_common_fields(d) /\ Commanded(d)
    /\ d.status # "template" =>
          /\ LiveManifest_reviewed_fields(d)
          /\ LiveManifest_retained(d, f)
          /\ LiveManifest_files(f)

(***************************************************************************)
(* Verified addresses, of a production release and of the public beta: the *)
(* second checker is the first with its constants replaced.                *)
(***************************************************************************)
VerifiedAddressesRules == [envs |-> {"live"}, chains |-> {"1"}, claims |-> {"blocked"},
    classes |-> {"final", "yes", "redaction"}, forms |-> FALSE, template |-> TRUE,
    files |-> {"book", "manifest", "explorer", "proof", "other"},
    links |-> FALSE, pins |-> TRUE]

PublicBetaAddressesRules ==
    [VerifiedAddressesRules EXCEPT !.envs = {"testnet"}, !.chains = {"11155111"}]

VerifiedAddresses_retained(rules, d, f) == Retained(rules, d, f)

(* contract_map of each file, then validate_address_book_and_manifest. *)
BookAndManifest(rules, f) ==
    /\ f["book"].chain \in rules.chains /\ f["manifest"].chain \in rules.chains
    /\ \A r \in {"book", "manifest"} : Named(f[r]) # {} /\ Distinct(f[r])
    /\ f["book"].addr = f["manifest"].addr

(* Mutant: the bytecode proof only has to name some contract. *)
ExplorerAndProof_ExplorerOnly(f) ==
    /\ Named(f["explorer"]) # {} /\ Distinct(f["explorer"]) /\ f["explorer"].sound
    /\ \A c \in Named(f["book"]) : f["explorer"].addr[c] = f["book"].addr[c]
    /\ Named(f["proof"]) # {}

(* explorer_contracts, validate_bytecode_proof: both cover the address book *)
(* and may cover more.                                                     *)
ExplorerAndProof(f) ==
    /\ Named(f["explorer"]) # {} /\ Distinct(f["explorer"]) /\ f["explorer"].sound
    /\ \A c \in Named(f["book"]) : f["explorer"].addr[c] = f["book"].addr[c]
    /\ Named(f["proof"]) # {}
    /\ \A c \in Named(f["book"]) : f["proof"].addr[c] = f["book"].addr[c] /\ f["proof"].sound

VerifiedAddresses_fields(d) == Readable(d)

VerifiedAddresses_review_state(rules, d, f) ==
    \/ TemplateOnly(d)
    \/ /\ LeftTemplate(d) /\ Filled(d) /\ Confirmed(d, {"redaction"})
       /\ d.status = "reviewed" => d.decision = "reviewed" /\ Confirmed(d, {"yes"})
       /\ VerifiedAddresses_retained(rules, d, f)
       /\ BookAndManifest(rules, f) /\ ExplorerAndProof(f)

VerifiedAddresses_artifact(rules, d, f) ==
    /\ VerifiedAddresses_fields(d)
    /\ d.claim = "blocked" /\ d.env \in rules.envs /\ d.chain \in rules.chains
    /\ VerifiedAddresses_review_state(rules, d, f)
    /\ Commanded(d)

(***************************************************************************)
(* Production broadcast retention                                          *)
(***************************************************************************)
BroadcastRetentionRules == [envs |-> {"live"}, chains |-> {"1"}, claims |-> {"blocked"},
    classes |-> {"final", "yes", "redaction"}, forms |-> FALSE, template |-> TRUE,
    files |-> {"other"}, links |-> FALSE, pins |-> FALSE]

BroadcastRetention_retained(d, f) == Retained(BroadcastRetentionRules, d, f)
BroadcastRetention_fields(d) == Readable(d)

BroadcastRetention_review_state(d, f) ==
    \/ TemplateOnly(d)
    \/ /\ LeftTemplate(d) /\ Filled(d) /\ Confirmed(d, {"redaction"})
       /\ d.status = "reviewed" => d.decision = "reviewed" /\ Confirmed(d, {"yes"})
       /\ BroadcastRetention_retained(d, f)

BroadcastRetention_artifact(d, f) ==
    /\ BroadcastRetention_fields(d)
    /\ d.claim = "blocked" /\ d.env = "live" /\ d.chain = "1"
    /\ BroadcastRetention_review_state(d, f)
    /\ Commanded(d)

(***************************************************************************)
(* Metadata in a browser, of a fork or testnet and live: the summary file  *)
(* repeats the environment and the chain of the document.                  *)
(***************************************************************************)
ForkBrowserRules == [envs |-> {"fork", "testnet"}, chains |-> Chains \ {"none"},
    claims |-> {"blocked"}, classes |-> {"final", "yes", "redaction"}, forms |-> FALSE,
    template |-> TRUE, files |-> {"summary", "other"}, links |-> TRUE, pins |-> FALSE]

LiveBrowserRules == [ForkBrowserRules EXCEPT !.envs = {"live"}, !.chains = {"1"},
                                             !.links = FALSE, !.pins = TRUE]

ForkBrowser_retained(d, f) == Retained(ForkBrowserRules, d, f)
LiveBrowser_retained(d, f) == Retained(LiveBrowserRules, d, f)

(* validate_headings, field_map, require_environment, require_positive_chain_id *)
ForkBrowser_fields(d) == /\ Readable(d)
                         /\ d.env \in ForkBrowserRules.envs
                         /\ d.chain \in ForkBrowserRules.chains
LiveBrowser_fields(d) == Readable(d)

(* validate_browser_summary with validate_summary_contracts and            *)
(* validate_token_result: every token was rendered without a request, an   *)
(* error or access to the parent frame.                                    *)
ForkBrowser_summary(d, f) ==
    /\ f["summary"].chain = d.chain
    /\ Named(f["summary"]) # {} /\ Distinct(f["summary"]) /\ f["summary"].sound

LiveBrowser_summary(f) ==
    /\ f["summary"].chain = "1"
    /\ Named(f["summary"]) # {} /\ Distinct(f["summary"]) /\ f["summary"].sound

ForkBrowser_review_state(d, f) ==
    \/ TemplateOnly(d)
    \/ /\ LeftTemplate(d) /\ Filled(d) /\ Confirmed(d, {"redaction"})
       /\ d.status = "reviewed" => d.decision = "reviewed" /\ Confirmed(d, {"yes"})
       /\ ForkBrowser_retained(d, f) /\ ForkBrowser_summary(d, f)

LiveBrowser_review_state(d, f) ==
    \/ TemplateOnly(d)
    \/ /\ LeftTemplate(d) /\ Filled(d) /\ Confirmed(d, {"redaction"})
       /\ d.status = "reviewed" => d.decision = "reviewed" /\ Confirmed(d, {"yes"})
       /\ LiveBrowser_retained(d, f) /\ LiveBrowser_summary(f)

ForkBrowser_artifact(d, f) ==
    /\ ForkBrowser_fields(d) /\ d.claim = "blocked"
    /\ ForkBrowser_review_state(d, f)
    /\ Commanded(d) \/ HistoricalCapture(d)

LiveBrowser_artifact(d, f) ==
    /\ LiveBrowser_fields(d)
    /\ d.claim = "blocked" /\ d.env = "live" /\ d.chain = "1"
    /\ LiveBrowser_review_state(d, f)
    /\ Commanded(d)

(***************************************************************************)
(* Marketplace and indexer, of the public beta and of production: nothing  *)
(* the document names is opened.                                           *)
(***************************************************************************)
MarketplaceRules == [envs |-> {"fork", "testnet", "live"}, chains |-> Chains,
    claims |-> {"blocked"}, classes |-> {"final", "yes", "redaction"}, forms |-> FALSE,
    template |-> TRUE, files |-> {}, links |-> FALSE, pins |-> FALSE]

(* field_map, require_text_phrases: the royalty boundary is one of them. *)
Marketplace_fields(d) == Readable(d)

Marketplace_requirement_environment(d) ==
    \/ d.ctx.requirement = "public_beta" /\ d.env \in {"fork", "testnet"} /\ d.chain # "none"
    \/ d.ctx.requirement = "production" /\ d.env = "live" /\ d.chain = "1"

Marketplace_review_state(d) ==
    \/ TemplateOnly(d)
    \/ /\ LeftTemplate(d) /\ Filled(d) /\ Confirmed(d, {"redaction"})
       /\ d.status = "reviewed" => d.decision = "reviewed" /\ Confirmed(d, {"yes"})

Marketplace_artifact(d) ==
    /\ Marketplace_fields(d) /\ d.claim = "blocked"
    /\ Marketplace_requirement_environment(d)
    /\ Marketplace_review_state(d)
    /\ Commanded(d) \/ HistoricalCapture(d)

(***************************************************************************)
(* External audit report, and the remediation after it                     *)
(***************************************************************************)
ExternalAuditRules == [envs |-> {"audit"}, chains |-> {"none"}, claims |-> {"blocked"},
    classes |-> {"final", "redaction"}, forms |-> FALSE, template |-> TRUE,
    files |-> {}, links |-> FALSE, pins |-> FALSE]
PostAuditRules == ExternalAuditRules

ExternalAudit_fields(d) == Readable(d)
PostAudit_fields(d) == Readable(d)

ExternalAudit_review_state(d) ==
    \/ TemplateOnly(d)
    \/ /\ LeftTemplate(d) /\ Filled(d) /\ Confirmed(d, {"redaction"})
       /\ d.status = "reviewed" => d.decision = "reviewed"

PostAudit_review_state(d) ==
    \/ TemplateOnly(d)
    \/ /\ LeftTemplate(d) /\ d.decision # "template"
       /\ Filled(d) /\ Confirmed(d, {"redaction"})
       /\ d.status = "reviewed" => d.decision = "reviewed"

ExternalAudit_artifact(d) ==
    /\ ExternalAudit_fields(d)
    /\ d.claim = "blocked" /\ d.env = "audit" /\ d.chain = "none"
    /\ ExternalAudit_review_state(d)
    /\ Commanded(d)

PostAudit_artifact(d) ==
    /\ PostAudit_fields(d)
    /\ d.claim = "blocked" /\ d.env = "audit" /\ d.chain = "none"
    /\ PostAudit_review_state(d)
    /\ Commanded(d)

-----------------------------------------------------------------------------
(***************************************************************************)
(* Incident drills.  A drill may claim completion, and the checker of one   *)
(* kind of incident also reads what the incident was and how it ended.     *)
(***************************************************************************)
DrillEnvironments == {"template", "fork", "testnet", "live"}

IncidentDrillRules == [envs |-> DrillEnvironments, chains |-> Chains, claims |-> Claims,
    classes |-> {"final", "control", "redaction"}, forms |-> FALSE, template |-> TRUE,
    files |-> {}, links |-> FALSE, pins |-> FALSE]

DRILL_IDS == {"mint_pause", "bid_pause", "settlement_pause", "withdrawal_policy",
              "failed_randomness", "stuck_auction", "bad_metadata_dependency",
              "bad_merkle_root", "signer_compromise"}

(* field_map .. validate_drill_coverage *)
IncidentDrill_fields(d) == Readable(d) /\ d.ctx.coverage = DRILL_IDS

IncidentDrill_review_state(d) ==
    /\ d.env \in DrillEnvironments
    /\ \/ TemplateOnly(d) /\ d.claim = "blocked"
       \/ /\ LeftTemplate(d) /\ Filled(d) /\ d.decision # "template"
          /\ d.status = "pending_review" => d.claim = "blocked"
          /\ d.status = "reviewed" =>
                /\ d.decision = "reviewed" /\ d.claim = "complete"
                /\ d.env # "template" /\ d.chain # "none"
                /\ Confirmed(d, {"control", "redaction"})

IncidentDrill_artifact(d) ==
    IncidentDrill_fields(d) /\ IncidentDrill_review_state(d) /\ Commanded(d)

(***************************************************************************)
(* Failed randomness.  The incident starts with a pending request and      *)
(* pending metadata; the source anchors the checker also reads never move  *)
(* here.                                                                   *)
(***************************************************************************)
FailedRandomnessRules == [envs |-> DrillEnvironments, chains |-> Chains, claims |-> Claims,
    classes |-> {"final", "redaction"}, forms |-> TRUE, template |-> TRUE,
    files |-> {}, links |-> FALSE, pins |-> FALSE]

FAILURE_MODES_BY_PATH ==
    [pending_timeout |-> {"pending_too_long"},
     invalid_callback |-> {"unknown_request", "wrong_token", "wrong_collection",
                           "wrong_provider", "stale_epoch", "duplicate_callback"},
     post_processing_failed |-> {"metadata_write_failed", "core_rejected_seed"},
     provider_migration |-> {"migration_blocked_pending", "migration_after_stale"},
     stale_marking |-> {"manual_stale_mark"}]

ENDING_REQUEST_STATE_BY_PATH ==
    [pending_timeout |-> {"Stale", "Fulfilled"},
     invalid_callback |-> {"Pending", "Stale", "Fulfilled"},
     post_processing_failed |-> {"FailedPostProcessing", "Fulfilled"},
     provider_migration |-> {"Stale", "Fulfilled"},
     stale_marking |-> {"Stale"}]

ENDING_METADATA_STATE_BY_REQUEST_STATE ==
    [Pending |-> "pending", Stale |-> "stale", FailedPostProcessing |-> "failed",
     Fulfilled |-> "final"]

FailedRandomness_fields(d) == Readable(d)

(* validate_template and validate_review_lifecycle *)
DrillLifecycle(d) ==
    /\ d.env \in DrillEnvironments
    /\ \/ TemplateOnly(d) /\ d.env = "template" /\ d.claim = "blocked"
       \/ /\ LeftTemplate(d) /\ d.env # "template"
          /\ d.claim = "complete" => d.status = "reviewed" /\ d.decision = "reviewed"
          /\ d.status = "reviewed" => d.claim = "complete"

FailedRandomness_lifecycle(d) ==
    DrillLifecycle(d) /\ (d.status # "template" => Filled(d) /\ Confirmed(d, {"redaction"}))

(* validate_randomizer_fields; the path is one the tables know. *)
FailedRandomness_randomizer_fields(d) ==
    d.status # "template" =>
        /\ WellFormed(d) /\ d.chain # "none"
        /\ d.ctx.path \in DOMAIN FAILURE_MODES_BY_PATH
        /\ d.ctx.mode \in FAILURE_MODES_BY_PATH[d.ctx.path]
        /\ d.ctx.start = "Pending" /\ d.ctx.meta0 = "pending"
        /\ d.ctx.end \in ENDING_REQUEST_STATE_BY_PATH[d.ctx.path]
        /\ d.ctx.meta1 = ENDING_METADATA_STATE_BY_REQUEST_STATE[d.ctx.end]
        /\ d.ctx.path = "post_processing_failed" => d.ctx.seed
        /\ d.ctx.path = "invalid_callback" => d.ctx.end # "Fulfilled"

FailedRandomness_artifact(d) ==
    /\ FailedRandomness_fields(d)
    /\ FailedRandomness_lifecycle(d)
    /\ FailedRandomness_randomizer_fields(d)
    /\ Commanded(d)

(***************************************************************************)
(* Bad metadata or dependency                                              *)
(***************************************************************************)
BadMetadataRules == FailedRandomnessRules

DEPENDENCY_SURFACES == {"dependency_source", "dependency_provenance",
                        "dependency_version", "dependency_pin"}

FAILURE_MODES_BY_SURFACE ==
    [token_uri |-> {"wrong_metadata_state", "invalid_json", "marketplace_cache_stale",
                    "frozen_output_mismatch"},
     token_image |-> {"unsafe_uri", "invalid_utf8", "marketplace_cache_stale"},
     attributes |-> {"raw_attributes_invalid", "invalid_utf8", "invalid_json"},
     animation_html |-> {"animation_sandbox_failure", "invalid_utf8", "marketplace_cache_stale"},
     collection_base_uri |-> {"unsafe_uri", "invalid_utf8", "marketplace_cache_stale"},
     collection_library |-> {"unsafe_uri", "invalid_utf8", "marketplace_cache_stale"},
     contract_uri |-> {"unsafe_uri", "invalid_utf8", "marketplace_cache_stale"},
     dependency_source |-> {"dependency_source_drift", "invalid_utf8", "private_source_leak"},
     dependency_provenance |-> {"dependency_provenance_bad", "invalid_utf8",
                                "private_source_leak"},
     dependency_version |-> {"dependency_version_bad", "deprecated_dependency",
                             "dependency_source_drift"},
     dependency_pin |-> {"dependency_pin_bad", "unknown_dependency", "frozen_repin_attempt"},
     frozen_output |-> {"frozen_output_mismatch", "frozen_repin_attempt"}]

FROZEN_DISALLOWED_RECOVERIES == {"fix_forward_metadata", "fix_forward_dependency"}

BadMetadata_fields(d) == Readable(d)

BadMetadata_lifecycle(d) ==
    DrillLifecycle(d) /\ (d.status # "template" => Filled(d) /\ Confirmed(d, {"redaction"}))

(* validate_context_fields: a hash is zero or not, a version a number. *)
BadMetadata_context_fields(d) ==
    d.status # "template" =>
        /\ WellFormed(d) /\ d.chain # "none"
        /\ d.ctx.mode \in FAILURE_MODES_BY_SURFACE[d.ctx.surface]
        /\ d.ctx.recovery = "fix_forward_dependency" => d.ctx.surface \in DEPENDENCY_SURFACES
        /\ d.ctx.recovery = "fix_forward_metadata" => d.ctx.surface \notin DEPENDENCY_SURFACES
        /\ d.ctx.mode = "frozen_repin_attempt" => d.ctx.frozen
        /\ d.ctx.frozen => /\ d.ctx.freezeHash
                          /\ d.ctx.toVersion = d.ctx.fromVersion
                          /\ d.ctx.recovery \notin FROZEN_DISALLOWED_RECOVERIES
        /\ d.ctx.surface \in DEPENDENCY_SURFACES =>
              /\ d.ctx.keyAndHash /\ d.ctx.fromVersion # 0 /\ d.ctx.toVersion # 0
              /\ (~d.ctx.frozen /\ d.ctx.recovery = "fix_forward_dependency")
                    => d.ctx.toVersion > d.ctx.fromVersion

BadMetadata_artifact(d) ==
    /\ BadMetadata_fields(d)
    /\ BadMetadata_lifecycle(d)
    /\ BadMetadata_context_fields(d)
    /\ Commanded(d)

(***************************************************************************)
(* Stuck auction, signer compromise: read in full only once reviewed       *)
(***************************************************************************)
StuckAuctionRules == FailedRandomnessRules
SignerCompromiseRules == FailedRandomnessRules

STUCK_CONDITIONS_BY_PATH ==
    [with_bid |-> {"bid_paused", "settlement_paused", "withdrawal_receiver_blocked",
                   "indexer_stale"},
     no_bid |-> {"settlement_paused", "no_bid_pending", "poster_receiver_blocked",
                 "indexer_stale"},
     cancelled_no_bid |-> {"bid_paused", "settlement_paused", "indexer_stale"}]

TERMINAL_BY_PATH == [with_bid |-> "SettledWithBid", no_bid |-> "SettledNoBid",
                     cancelled_no_bid |-> "Cancelled"]

StuckAuction_fields(d) == Readable(d)
SignerCompromise_fields(d) == Readable(d)

(* Mutant: the bid is not compared with the path. *)
AuctionShape_BidIgnored(c) ==
    /\ c.path \in DOMAIN TERMINAL_BY_PATH
    /\ c.stuck \in STUCK_CONDITIONS_BY_PATH[c.path] /\ c.end = TERMINAL_BY_PATH[c.path]

(* validate_auction_shape: a known path, its own conditions and end, a uint. *)
AuctionShape(c) ==
    /\ c.path \in DOMAIN TERMINAL_BY_PATH /\ c.bid \in Nat
    /\ c.stuck \in STUCK_CONDITIONS_BY_PATH[c.path]
    /\ c.end = TERMINAL_BY_PATH[c.path]
    /\ IF c.path = "with_bid" THEN c.bid # 0 /\ c.bidder ELSE c.bid = 0 /\ ~c.bidder

(* The part of validate_review_state the two checkers share. *)
DrillReview(d) ==
    /\ d.env \in DrillEnvironments
    /\ \/ TemplateOnly(d) /\ d.claim = "blocked"
       \/ /\ LeftTemplate(d) /\ Filled(d) /\ d.decision # "template"
          /\ d.status = "pending_review" => d.claim = "blocked"
          /\ d.status = "reviewed" =>
                /\ d.decision = "reviewed" /\ d.claim = "complete"
                /\ d.env # "template" /\ d.chain # "none" /\ WellFormed(d)
                /\ Confirmed(d, {"redaction"})

StuckAuction_review_state(d) ==
    DrillReview(d) /\ (d.status = "reviewed" => AuctionShape(d.ctx))

SignerCompromise_review_state(d) ==
    /\ DrillReview(d)
    /\ d.status = "reviewed" => /\ d.ctx.replaced
                               /\ d.ctx.toEpoch > d.ctx.fromEpoch
                               /\ d.ctx.domainChain = d.chain

StuckAuction_artifact(d) ==
    StuckAuction_fields(d) /\ StuckAuction_review_state(d) /\ Commanded(d)

SignerCompromise_artifact(d) ==
    SignerCompromise_fields(d) /\ SignerCompromise_review_state(d) /\ Commanded(d)

-----------------------------------------------------------------------------
(***************************************************************************)
(* Deployment ceremonies                                                   *)
(***************************************************************************)
ForkCeremonyRules == [envs |-> {"fork", "testnet"}, chains |-> Chains \ {"none"},
    claims |-> {"blocked"}, classes |-> {"final", "redaction"}, forms |-> TRUE,
    template |-> TRUE, files |-> {"manifest", "other"}, links |-> TRUE, pins |-> FALSE]

LiveCeremonyRules == [ForkCeremonyRules EXCEPT !.envs = {"live"}, !.chains = {"1"},
                                               !.links = FALSE, !.pins = TRUE]

ForkCeremony_fields(d) == /\ Readable(d)
                          /\ d.env \in ForkCeremonyRules.envs
                          /\ d.chain \in ForkCeremonyRules.chains
LiveCeremony_fields(d) == Readable(d)

LiveCeremony_retained(d, f) == Retained(LiveCeremonyRules, d, f)

ForkCeremony_review_state(d) ==
    \/ TemplateOnly(d)
    \/ /\ LeftTemplate(d) /\ d.decision # "template"
       /\ Filled(d) /\ WellFormed(d) /\ Confirmed(d, {"redaction"})
       /\ d.status = "reviewed" => d.decision = "reviewed"

LiveCeremony_review_state(d, f) ==
    \/ TemplateOnly(d)
    \/ /\ LeftTemplate(d) /\ d.decision # "template"
       /\ Filled(d) /\ WellFormed(d) /\ Confirmed(d, {"redaction"})
       /\ d.status = "reviewed" => d.decision = "reviewed"
       /\ LiveCeremony_retained(d, f)

(* validate_commands, resolve_retained_path, validate_retained_paths,      *)
(* validate_artifact                                                       *)
ForkCeremony_artifact(d, f) ==
    /\ ForkCeremony_fields(d) /\ d.claim = "blocked"
    /\ ForkCeremony_review_state(d)
    /\ d.status # "template" => Retained(ForkCeremonyRules, d, f)
    /\ Commanded(d)

LiveCeremony_artifact(d, f) ==
    /\ LiveCeremony_fields(d)
    /\ d.claim = "blocked" /\ d.env = "live" /\ d.chain = "1"
    /\ LiveCeremony_review_state(d, f)
    /\ Commanded(d)

(***************************************************************************)
(* Deployment rehearsals                                                   *)
(***************************************************************************)
ForkRehearsalRules == [envs |-> {"fork"}, chains |-> {"1"}, claims |-> Claims,
    classes |-> {"final", "redaction"}, forms |-> FALSE, template |-> TRUE,
    files |-> {"manifest", "other"}, links |-> TRUE, pins |-> TRUE]

TestnetRehearsalRules == [ForkRehearsalRules EXCEPT !.envs = {"testnet"},
    !.chains = {"11155111"}, !.claims = {"blocked"},
    !.classes = {"final", "yes", "redaction"}, !.links = FALSE]

ForkRehearsal_retained(d, f) == Retained(ForkRehearsalRules, d, f)
TestnetRehearsal_retained(d, f) == Retained(TestnetRehearsalRules, d, f)
ForkRehearsal_fields(d) == Readable(d)
TestnetRehearsal_fields(d) == Readable(d)

ForkRehearsal_review_state(d) ==
    \/ TemplateOnly(d) /\ d.claim = "blocked"
    \/ /\ LeftTemplate(d)
       /\ d.status = "pending_review" => d.claim = "blocked"
       /\ Filled(d) /\ Confirmed(d, {"redaction"})
       /\ d.status = "reviewed" => d.decision = "reviewed" /\ d.claim = "complete"

TestnetRehearsal_review_state(d, f) ==
    \/ TemplateOnly(d)
    \/ /\ LeftTemplate(d) /\ Filled(d) /\ Confirmed(d, {"redaction"})
       /\ d.status = "reviewed" => d.decision = "reviewed" /\ Confirmed(d, {"yes"})
       /\ TestnetRehearsal_retained(d, f)

ForkRehearsal_artifact(d, f) ==
    /\ ForkRehearsal_fields(d) /\ d.env = "fork" /\ d.chain = "1"
    /\ ForkRehearsal_review_state(d)
    /\ d.status # "template" => ForkRehearsal_retained(d, f)
    /\ Commanded(d)

TestnetRehearsal_artifact(d, f) ==
    /\ TestnetRehearsal_fields(d)
    /\ d.claim = "blocked" /\ d.env = "testnet" /\ d.chain = "11155111"
    /\ TestnetRehearsal_review_state(d, f)
    /\ Commanded(d)

(***************************************************************************)
(* Randomizer operations: funding and control outcomes may be anything the *)
(* enumeration knows until the document is reviewed.                       *)
(***************************************************************************)
ForkRandomizerRules == [envs |-> {"fork", "testnet"}, chains |-> Chains \ {"none"},
    claims |-> {"blocked"}, classes |-> {"final", "control", "redaction"}, forms |-> TRUE,
    template |-> TRUE, files |-> {"manifest", "other"}, links |-> TRUE, pins |-> TRUE]

LiveRandomizerRules == [ForkRandomizerRules EXCEPT !.envs = {"live"}, !.chains = {"1"},
                                                   !.links = FALSE]

ForkRandomizer_fields(d) == /\ Readable(d)
                            /\ d.env \in ForkRandomizerRules.envs
                            /\ d.chain \in ForkRandomizerRules.chains
LiveRandomizer_fields(d) == Readable(d)

ForkRandomizer_retained(d, f) == Retained(ForkRandomizerRules, d, f)
LiveRandomizer_retained(d, f) == Retained(LiveRandomizerRules, d, f)

ForkRandomizer_review_state(d) ==
    \/ TemplateOnly(d)
    \/ /\ LeftTemplate(d) /\ d.decision # "template"
       /\ Filled(d) /\ WellFormed(d) /\ Confirmed(d, {"redaction"})
       /\ d.status = "reviewed" => d.decision = "reviewed" /\ Confirmed(d, {"control"})

(* Mutant: funding and controls keep any known outcome when reviewed. *)
LiveRandomizer_review_state_AnyOutcome(d, f) ==
    \/ TemplateOnly(d)
    \/ /\ LeftTemplate(d) /\ d.decision # "template"
       /\ Filled(d) /\ WellFormed(d) /\ Confirmed(d, {"redaction"})
       /\ LiveRandomizer_retained(d, f)
       /\ d.status = "reviewed" => d.decision = "reviewed"

LiveRandomizer_review_state(d, f) ==
    \/ TemplateOnly(d)
    \/ /\ LeftTemplate(d) /\ d.decision # "template"
       /\ Filled(d) /\ WellFormed(d) /\ Confirmed(d, {"redaction"})
       /\ LiveRandomizer_retained(d, f)
       /\ d.status = "reviewed" => d.decision = "reviewed" /\ Confirmed(d, {"control"})

ForkRandomizer_artifact(d, f) ==
    /\ ForkRandomizer_fields(d) /\ d.claim = "blocked"
    /\ ForkRandomizer_review_state(d)
    /\ d.status # "template" => ForkRandomizer_retained(d, f)
    /\ Commanded(d)

LiveRandomizer_artifact(d, f) ==
    /\ LiveRandomizer_fields(d)
    /\ d.claim = "blocked" /\ d.env = "live" /\ d.chain = "1"
    /\ LiveRandomizer_review_state(d, f)
    /\ Commanded(d)

(***************************************************************************)
(* Production release signing: the signature record it names passes the    *)
(* signature checker, is of a production network and of this release.      *)
(***************************************************************************)
ProductionSigningRules == [envs |-> {"release_signing"}, chains |-> Chains,
    claims |-> {"blocked"}, classes |-> {"final", "yes"}, forms |-> TRUE,
    template |-> FALSE, files |-> {"signature", "other"}, links |-> FALSE, pins |-> TRUE]

ProductionSigning_fields(d) == Readable(d) /\ Commanded(d)
ProductionSigning_retained(d, f) == Retained(ProductionSigningRules, d, f)

(* validate_release_signature_json; version and commit are one release. *)
ProductionSigning_signature(d, f) ==
    /\ f["signature"].sound /\ f["signature"].chain = "1"
    /\ f["signature"].release = d.ctx.release

ProductionSigning_review_state(d, f) ==
    \/ d.status = "template"
    \/ /\ Filled(d) /\ WellFormed(d) /\ Confirmed(d, {"yes"})
       /\ d.decision = d.status
       /\ ProductionSigning_retained(d, f)
       /\ ProductionSigning_signature(d, f)

ProductionSigning_artifact(d, f) ==
    /\ ProductionSigning_fields(d)
    /\ d.claim = "blocked" /\ d.env = "release_signing"
    /\ ProductionSigning_review_state(d, f)

-----------------------------------------------------------------------------
(***************************************************************************)
(* Filling in a document, and what may happen to it and its files later    *)
(***************************************************************************)
Rules(k) ==
    CASE k = "live_manifest" -> LiveManifestRules
      [] k = "verified_addresses" -> VerifiedAddressesRules
      [] k = "public_beta_addresses" -> PublicBetaAddressesRules
      [] k = "broadcast_retention" -> BroadcastRetentionRules
      [] k = "fork_browser" -> ForkBrowserRules
      [] k = "live_browser" -> LiveBrowserRules
      [] k = "marketplace" -> MarketplaceRules
      [] k = "external_audit" -> ExternalAuditRules
      [] k = "post_audit" -> PostAuditRules
      [] k = "incident_drill" -> IncidentDrillRules
      [] k = "failed_randomness" -> FailedRandomnessRules
      [] k = "bad_metadata" -> BadMetadataRules
      [] k = "stuck_auction" -> StuckAuctionRules
      [] k = "signer_compromise" -> SignerCompromiseRules
      [] k = "fork_ceremony" -> ForkCeremonyRules
      [] k = "live_ceremony" -> LiveCeremonyRules
      [] k = "fork_rehearsal" -> ForkRehearsalRules
      [] k = "testnet_rehearsal" -> TestnetRehearsalRules
      [] k = "fork_randomizer" -> ForkRandomizerRules
      [] k = "live_randomizer" -> LiveRandomizerRules
      [] k = "production_signing" -> ProductionSigningRules

Accepts(k, d, f) ==
    CASE k = "live_manifest" -> LiveManifest_artifact(d, f)
      [] k = "verified_addresses" -> VerifiedAddresses_artifact(Rules(k), d, f)
      [] k = "public_beta_addresses" -> VerifiedAddresses_artifact(Rules(k), d, f)
      [] k = "broadcast_retention" -> BroadcastRetention_artifact(d, f)
      [] k = "fork_browser" -> ForkBrowser_artifact(d, f)
      [] k = "live_browser" -> LiveBrowser_artifact(d, f)
      [] k = "marketplace" -> Marketplace_artifact(d)
      [] k = "external_audit" -> ExternalAudit_artifact(d)
      [] k = "post_audit" -> PostAudit_artifact(d)
      [] k = "incident_drill" -> IncidentDrill_artifact(d)
      [] k = "failed_randomness" -> FailedRandomness_artifact(d)
      [] k = "bad_metadata" -> BadMetadata_artifact(d)
      [] k = "stuck_auction" -> StuckAuction_artifact(d)
      [] k = "signer_compromise" -> SignerCompromise_artifact(d)
      [] k = "fork_ceremony" -> ForkCeremony_artifact(d, f)
      [] k = "live_ceremony" -> LiveCeremony_artifact(d, f)
      [] k = "fork_rehearsal" -> ForkRehearsal_artifact(d, f)
      [] k = "testnet_rehearsal" -> TestnetRehearsal_artifact(d, f)
      [] k = "fork_randomizer" -> ForkRandomizer_artifact(d, f)
      [] k = "live_randomizer" -> LiveRandomizer_artifact(d, f)
      [] k = "production_signing" -> ProductionSigning_artifact(d, f)

(* The committed template: nothing filled in, nothing retained. *)
Init ==
    /\ kind \in Kinds
    /\ \E target \in Targets[kind], ctx \in Contexts[kind] :
          doc = [status |-> "template", decision |-> "template", claim |-> "blocked",
                 env |-> IF "template" \in Rules(kind).envs THEN "template" ELSE target.env,
                 chain |-> target.chain, notice |-> Rules(kind).template,
                 open |-> {"final"}, no |-> Rules(kind).classes \ {"final"}, flaw |-> {},
                 pin |-> [r \in Roles |-> NoPin], bytes |-> "edited", ctx |-> ctx]
    /\ file = [r \in Roles |-> NoFile]
    /\ edits = 0

(* The operator replaces every placeholder, retains the files and hands the *)
(* document over; the review may have ended already.                       *)
FillIn(status, target, content, pinned, historical) ==
    /\ doc.status = "template" /\ edits = 0
    /\ historical => kind \in {"marketplace", "fork_browser"} /\ status = "reviewed"
    /\ file' = [r \in Roles |-> IF r \in Rules(kind).files THEN content ELSE NoFile]
    /\ doc' = [doc EXCEPT !.status = status, !.decision = status, !.notice = FALSE,
                 !.env = target.env, !.chain = target.chain,
                 !.claim = IF status = "reviewed" /\ "complete" \in Rules(kind).claims
                           THEN "complete" ELSE "blocked",
                 !.open = {}, !.no = {},
                 !.flaw = IF historical THEN {"command"} ELSE {},
                 !.bytes = IF historical THEN "historical" ELSE "edited",
                 !.pin = [r \in Roles |-> IF r \in pinned THEN digest(content) ELSE NoPin]]
    /\ UNCHANGED <<kind, edits>>

Edit(d) == /\ edits < MaxEdits /\ doc.status # "template"
           /\ doc' = [d EXCEPT !.bytes = "edited"]
           /\ edits' = edits + 1
           /\ UNCHANGED <<kind, file>>

Review(status, decision) == Edit([doc EXCEPT !.status = status, !.decision = decision])
Claim(claim) == Edit([doc EXCEPT !.claim = claim])
MoveEnvironment(env) == Edit([doc EXCEPT !.env = env])
MoveChain(chain) == Edit([doc EXCEPT !.chain = chain])
KeepNotice == Edit([doc EXCEPT !.notice = TRUE])
Reopen == Edit([doc EXCEPT !.open = {"final"}])
Deny(class) == Edit([doc EXCEPT !.no = @ \cup {class}])
Damage(flaw) == Edit([doc EXCEPT !.flaw = @ \cup {flaw}])
Repin(r) == Edit([doc EXCEPT !.pin[r] = digest(file[r])])

(* A retained file is replaced, or removed, under an unchanged document. *)
ReplaceFile(r, content) ==
    /\ edits < MaxEdits /\ doc.status # "template"
    /\ content # file[r]
    /\ file' = [file EXCEPT ![r] = content]
    /\ edits' = edits + 1
    /\ UNCHANGED <<kind, doc>>

Next ==
    \/ \E status \in {"pending_review", "reviewed"}, target \in Targets[kind],
          content \in Contents \ {NoFile}, pinned \in {{}, Rules(kind).files},
          historical \in BOOLEAN : FillIn(status, target, content, pinned, historical)
    \/ \E status \in Statuses, decision \in Decisions : Review(status, decision)
    \/ \E claim \in Claims : Claim(claim)
    \/ \E env \in Environments : MoveEnvironment(env)
    \/ \E chain \in Chains : MoveChain(chain)
    \/ KeepNotice
    \/ Reopen
    \/ \E class \in Rules(kind).classes \ {"final"} : Deny(class)
    \/ \E flaw \in Flaws \ (IF Rules(kind).forms THEN {} ELSE {"form"}) : Damage(flaw)
    \/ \E r \in Rules(kind).files : Repin(r)
    \/ \E r \in Rules(kind).files, content \in Contents : ReplaceFile(r, content)

Spec == Init /\ [][Next]_vars

-----------------------------------------------------------------------------
(***************************************************************************)
(* Properties                                                              *)
(***************************************************************************)
Accepted == doc.status # "template" /\ Accepts(kind, doc, file)

(* What "reviewed" promises whichever of the checkers accepted it: nothing *)
(* is left open, every confirmation the kind has is given, the notice that *)
(* makes the file a template is gone, and the document is whole.  The live *)
(* deployment manifest is the one kind whose checker does not tie the      *)
(* status to the decision, and it and the signing record carry no notice.  *)
ReviewedIsComplete ==
    (Accepted /\ doc.status = "reviewed") =>
        /\ doc.open = {} /\ doc.no = {}
        /\ doc.flaw \subseteq (IF HistoricalCapture(doc) THEN {"command"} ELSE {})
        /\ kind # "live_manifest" => doc.decision = "reviewed"
        /\ Rules(kind).template => ~doc.notice

(* Under an unchanged document a file whose digest it quotes cannot be      *)
(* exchanged for another one between two accepting checks, and no accepted *)
(* check leaves a secret in a retained file.                               *)
PinnedFilesHold ==
    [][(doc' = doc /\ Accepted /\ Accepted')
         => /\ \A r \in Rules(kind).files : doc.pin[r] # NoPin => digest(file'[r]) = digest(file[r])
            /\ \A r \in Rules(kind).files : ~file'[r].secret]_vars

(* The address evidence speaks of one deployment: the address book, the    *)
(* manifest, the explorer export and the bytecode proof of an accepted     *)
(* artifact give every contract of the manifest the same address, on the   *)
(* chain the document names; a live manifest and its book agree likewise.  *)
OneDeployment ==
    /\ (Accepted /\ kind \in {"verified_addresses", "public_beta_addresses"}) =>
          /\ \A c \in Named(file["manifest"]) :
                Cardinality({file[r].addr[c] : r \in {"manifest", "book", "explorer", "proof"}}) = 1
          /\ {file["manifest"].chain, file["book"].chain} = {doc.chain}
          /\ Distinct(file["manifest"])
    /\ (Accepted /\ kind = "live_manifest") =>
          \A c \in Named(file["manifest"]) : file["book"].addr[c] = file["manifest"].addr[c]

(* A drill that claims completion tells a recovery the contracts allow: an  *)
(* auction ends in the one terminal state of its path and holds a bid only *)
(* where one can exist, a request never becomes final through a callback   *)
(* the adapter refused, a frozen collection keeps its dependency version,  *)
(* a compromised signer is replaced under a later epoch on this chain.     *)
DrillsEndSafely ==
    (Accepted /\ doc.claim = "complete") =>
        /\ doc.env \in {"fork", "testnet", "live"} /\ doc.status = "reviewed"
        /\ kind = "stuck_auction" =>
              /\ doc.ctx.end \in {"SettledWithBid", "SettledNoBid", "Cancelled"}
              /\ doc.ctx.end = "SettledWithBid" <=> doc.ctx.bid > 0
              /\ doc.ctx.stuck = "no_bid_pending" => doc.ctx.end = "SettledNoBid"
        /\ kind = "failed_randomness" =>
              /\ doc.ctx.meta1 = "final" =>
                    doc.ctx.end = "Fulfilled" /\ doc.ctx.mode \notin {"wrong_token", "stale_epoch"}
              /\ doc.ctx.meta1 = "pending" => doc.ctx.path = "invalid_callback"
        /\ kind = "bad_metadata" =>
              /\ doc.ctx.frozen => doc.ctx.toVersion = doc.ctx.fromVersion
              /\ doc.ctx.recovery = "fix_forward_dependency" => doc.ctx.toVersion > doc.ctx.fromVersion
        /\ kind = "signer_compromise" =>
              doc.ctx.toEpoch > doc.ctx.fromEpoch /\ doc.ctx.domainChain = doc.chain
=============================================================================
