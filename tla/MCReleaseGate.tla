--------------------------- MODULE MCReleaseGate ---------------------------
EXTENDS ReleaseGate

MCRequirements == {"external_audit_report", "fork_deployment_rehearsal",
    "fork_testnet_marketplace_indexer_evidence", "live_marketplace_indexer_evidence"}

Content(state, accepted, command) ==
    [state |-> state, accepted |-> accepted, command |-> command, target |-> "none"]
Link(target) == [Content("link", TRUE, "c1") EXCEPT !.target = target]
MCContents == {Content("absent", FALSE, "none"), Content("file", TRUE, "c1"),
               Content("file", TRUE, "c2"), Content("file", FALSE, "none"),
               Link("external_audit_report"), Link("outside")}
MCDelivered == [r \in MCRequirements |-> Content("file", TRUE, "c1")]

Environment == [r \in MCRequirements |->
    CASE r = "external_audit_report" -> "audit"
      [] r = "live_marketplace_indexer_evidence" -> "live"
      [] OTHER -> "fork"]

Call(r, review, reviewer, retained, command, fromRetained, notes) ==
    [review |-> review, reviewer |-> reviewer, environment |-> Environment[r],
     chain_id |-> IF r = "external_audit_report" THEN NotApplicable ELSE 1,
     retained |-> retained, command |-> command, fromRetained |-> fromRetained, notes |-> notes]

(* The full call, one still in review, one with the command typed, one     *)
(* without a reviewer, one of another row's artifact.                      *)
MCCalls == [r \in MCRequirements |->
    {Call(r, "reviewed", "named", r, "none", TRUE, "final"),
     Call(r, "pending_review", "named", r, "none", TRUE, "placeholder"),
     Call(r, "reviewed", "named", r, "c2", FALSE, "final"),
     Call(r, "reviewed", "TBD", r, "none", TRUE, "final"),
     Call(r, "reviewed", "named", "fork_deployment_rehearsal", "none", TRUE, "final")}]

Window(from, to) == [accepted_at |-> from, expires_at |-> to]
MCWindows == {Window(0, 0), Window(0, 1), Window(1, 1), Window(1, 0)}

MCSubmissions == [r \in MCRequirements |->
    LET full == Call(r, "reviewed", "named", r, "none", TRUE, "final")
        draft == Call(r, "pending_review", "named", r, "none", TRUE, "placeholder")
        submission(call, status, risk) == [call |-> call, status |-> status, risk |-> risk]
    IN {submission(full, "complete", NoRisk), submission(draft, "complete", NoRisk),
        submission(draft, "accepted_risk", Window(0, 1))}]

MCFieldValues ==
    [type |-> {"template", "evidence"}, review |-> {"template", "reviewed"},
     chain_id |-> {0}, reviewer |-> {"TBD", "named"},
     requirement |-> {"fork_testnet_marketplace_indexer_evidence"},
     retained |-> {"fork_testnet_marketplace_indexer_evidence"},
     sha256 |-> {Content("file", TRUE, "c2")},
     flaw |-> {"secret", "fields"}]

MCFindings == {[id |-> "reentrancy", path |-> "core"], [id |-> "shift", path |-> "vendored"]}
MCSizes == {22576, 22577}
=============================================================================
