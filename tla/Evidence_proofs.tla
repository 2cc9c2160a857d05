--------------------------- MODULE Evidence_proofs ---------------------------
(***************************************************************************)
(* Whatever the kinds, the files and the order of the edits: what a        *)
(* reviewed artifact promises, what its pinned digests hold, what address  *)
(* evidence and completed drills say; and what an accepted record and      *)
(* every edition of the release manifest that lists it say.  The checkers  *)
(* differ; the proofs rest on what all of them ask.                        *)
(***************************************************************************)
EXTENDS EvidenceArtifacts, EvidenceRecords, FiniteSetTheorems, TLAPS

-----------------------------------------------------------------------------
(* The evidence artifacts: what every checker asks.                        *)

\* Of a document under review, whole and without its notice; of its files, the retained ones.
ReviewAsks(k, d) ==
    /\ Filled(d) /\ Confirmed(d, Rules(k).classes \ {"final"})
    /\ Rules(k).forms => WellFormed(d)
    /\ k # "live_manifest" => d.decision = "reviewed"
Asked(k, d, f) ==
    /\ Readable(d) /\ (Commanded(d) \/ HistoricalCapture(d))
    /\ Rules(k).template => ~d.notice
    /\ d.status = "reviewed" => ReviewAsks(k, d)
    /\ Retained(Rules(k), d, f)

\* The document never has more open, denied or damaged than its kind has.
Shape(d) ==
    d = [status |-> d.status, decision |-> d.decision, claim |-> d.claim, env |-> d.env,
         chain |-> d.chain, notice |-> d.notice, open |-> d.open, no |-> d.no, flaw |-> d.flaw,
         pin |-> d.pin, bytes |-> d.bytes, ctx |-> d.ctx]
DocumentOf(k, d) ==
    /\ Shape(d) /\ d.status \in Statuses
    /\ d.open \subseteq {"final"} /\ d.no \subseteq Rules(k).classes \ {"final"}
    /\ d.flaw \subseteq Flaws \ (IF Rules(k).forms THEN {} ELSE {"form"})
EInv == kind \in Kinds /\ DocumentOf(kind, doc)

\* What every checker asks of a document that is filled in: 21 checkers, one demand.
LEMMA EveryCheckerAsks ==
    ASSUME NEW k \in KindNames, NEW d, NEW f, d.status # "template", Accepts(k, d, f)
    PROVE  Asked(k, d, f)
<1>1. CASE k = "live_manifest"
  BY <1>1 DEF Accepts, Rules, Asked, ReviewAsks, TemplateOnly, LeftTemplate, Filled, Confirmed,
              Retained, LiveManifestRules, LiveManifest_artifact, LiveManifest_common_fields,
              LiveManifest_reviewed_fields, LiveManifest_retained
<1>2. CASE k = "verified_addresses"
  BY <1>2 DEF Accepts, Rules, Asked, ReviewAsks, TemplateOnly, LeftTemplate, Filled, Confirmed,
              Retained, VerifiedAddressesRules, VerifiedAddresses_artifact,
              VerifiedAddresses_fields, VerifiedAddresses_review_state,
              VerifiedAddresses_retained
<1>3. CASE k = "public_beta_addresses"
  BY <1>3 DEF Accepts, Rules, Asked, ReviewAsks, TemplateOnly, LeftTemplate, Filled, Confirmed,
              Retained, PublicBetaAddressesRules, VerifiedAddressesRules,
              VerifiedAddresses_artifact, VerifiedAddresses_fields,
              VerifiedAddresses_review_state, VerifiedAddresses_retained
<1>4. CASE k = "broadcast_retention"
  BY <1>4 DEF Accepts, Rules, Asked, ReviewAsks, TemplateOnly, LeftTemplate, Filled, Confirmed,
              Retained, BroadcastRetentionRules, BroadcastRetention_artifact,
              BroadcastRetention_fields, BroadcastRetention_review_state,
              BroadcastRetention_retained
<1>5. CASE k = "fork_browser"
  BY <1>5 DEF Accepts, Rules, Asked, ReviewAsks, TemplateOnly, LeftTemplate, Filled, Confirmed,
              Retained, ForkBrowserRules, ForkBrowser_artifact, ForkBrowser_fields,
              ForkBrowser_review_state, ForkBrowser_retained
<1>6. CASE k = "live_browser"
  BY <1>6 DEF Accepts, Rules, Asked, ReviewAsks, TemplateOnly, LeftTemplate, Filled, Confirmed,
              Retained, LiveBrowserRules, ForkBrowserRules, LiveBrowser_artifact,
              LiveBrowser_fields, LiveBrowser_review_state, LiveBrowser_retained
<1>7. CASE k = "marketplace"
  BY <1>7 DEF Accepts, Rules, Asked, ReviewAsks, TemplateOnly, LeftTemplate, Filled, Confirmed,
              Retained, MarketplaceRules, Marketplace_artifact, Marketplace_fields,
              Marketplace_review_state
<1>8. CASE k = "external_audit"
  BY <1>8 DEF Accepts, Rules, Asked, ReviewAsks, TemplateOnly, LeftTemplate, Filled, Confirmed,
              Retained, ExternalAuditRules, ExternalAudit_artifact, ExternalAudit_fields,
              ExternalAudit_review_state
<1>9. CASE k = "post_audit"
  BY <1>9 DEF Accepts, Rules, Asked, ReviewAsks, TemplateOnly, LeftTemplate, Filled, Confirmed,
              Retained, PostAuditRules, ExternalAuditRules, PostAudit_artifact,
              PostAudit_fields, PostAudit_review_state
<1>10. CASE k = "incident_drill"
  BY <1>10 DEF Accepts, Rules, Asked, ReviewAsks, TemplateOnly, LeftTemplate, Filled,
               Confirmed, Retained, IncidentDrillRules, IncidentDrill_artifact,
               IncidentDrill_fields, IncidentDrill_review_state
<1>11. CASE k = "failed_randomness"
  BY <1>11 DEF Accepts, Rules, Asked, ReviewAsks, TemplateOnly, LeftTemplate, Filled,
               Confirmed, Retained, FailedRandomnessRules, FailedRandomness_artifact,
               FailedRandomness_fields, FailedRandomness_lifecycle, DrillLifecycle,
               FailedRandomness_randomizer_fields
<1>12. CASE k = "bad_metadata"
  BY <1>12 DEF Accepts, Rules, Asked, ReviewAsks, TemplateOnly, LeftTemplate, Filled,
               Confirmed, Retained, BadMetadataRules, FailedRandomnessRules,
               BadMetadata_artifact, BadMetadata_fields, BadMetadata_lifecycle, DrillLifecycle,
               BadMetadata_context_fields
<1>13. CASE k = "stuck_auction"
  BY <1>13 DEF Accepts, Rules, Asked, ReviewAsks, TemplateOnly, LeftTemplate, Filled,
               Confirmed, Retained, StuckAuctionRules, FailedRandomnessRules,
               StuckAuction_artifact, StuckAuction_fields, StuckAuction_review_state,
               DrillReview
<1>14. CASE k = "signer_compromise"
  BY <1>14 DEF Accepts, Rules, Asked, ReviewAsks, TemplateOnly, LeftTemplate, Filled,
               Confirmed, Retained, SignerCompromiseRules, FailedRandomnessRules,
               SignerCompromise_artifact, SignerCompromise_fields,
               SignerCompromise_review_state, DrillReview
<1>15. CASE k = "fork_ceremony"
  BY <1>15 DEF Accepts, Rules, Asked, ReviewAsks, TemplateOnly, LeftTemplate, Filled,
               Confirmed, Retained, ForkCeremonyRules, ForkCeremony_artifact,
               ForkCeremony_fields, ForkCeremony_review_state
<1>16. CASE k = "live_ceremony"
  BY <1>16 DEF Accepts, Rules, Asked, ReviewAsks, TemplateOnly, LeftTemplate, Filled,
               Confirmed, Retained, LiveCeremonyRules, ForkCeremonyRules,
               LiveCeremony_artifact, LiveCeremony_fields, LiveCeremony_review_state,
               LiveCeremony_retained
<1>17. CASE k = "fork_rehearsal"
  BY <1>17 DEF Accepts, Rules, Asked, ReviewAsks, TemplateOnly, LeftTemplate, Filled,
               Confirmed, Retained, ForkRehearsalRules, ForkRehearsal_artifact,
               ForkRehearsal_fields, ForkRehearsal_review_state, ForkRehearsal_retained
<1>18. CASE k = "testnet_rehearsal"
  BY <1>18 DEF Accepts, Rules, Asked, ReviewAsks, TemplateOnly, LeftTemplate, Filled,
               Confirmed, Retained, TestnetRehearsalRules, ForkRehearsalRules,
               TestnetRehearsal_artifact, TestnetRehearsal_fields,
               TestnetRehearsal_review_state, TestnetRehearsal_retained
<1>19. CASE k = "fork_randomizer"
  BY <1>19 DEF Accepts, Rules, Asked, ReviewAsks, TemplateOnly, LeftTemplate, Filled,
               Confirmed, Retained, ForkRandomizerRules, ForkRandomizer_artifact,
               ForkRandomizer_fields, ForkRandomizer_review_state, ForkRandomizer_retained
<1>20. CASE k = "live_randomizer"
  BY <1>20 DEF Accepts, Rules, Asked, ReviewAsks, TemplateOnly, LeftTemplate, Filled,
               Confirmed, Retained, LiveRandomizerRules, ForkRandomizerRules,
               LiveRandomizer_artifact, LiveRandomizer_fields, LiveRandomizer_review_state,
               LiveRandomizer_retained
<1>21. CASE k = "production_signing"
  BY <1>21 DEF Accepts, Rules, Asked, ReviewAsks, TemplateOnly, LeftTemplate, Filled,
               Confirmed, Retained, ProductionSigningRules, ProductionSigning_artifact,
               ProductionSigning_fields, ProductionSigning_review_state,
               ProductionSigning_retained
<1> QED
  BY <1>1, <1>2, <1>3, <1>4, <1>5, <1>6, <1>7, <1>8, <1>9, <1>10, <1>11, <1>12, <1>13, <1>14,
     <1>15, <1>16, <1>17, <1>18, <1>19, <1>20, <1>21 DEF KindNames

-----------------------------------------------------------------------------
(* Documents.                                                              *)

\* The committed template is one.
LEMMA EvidenceInit == Init => EInv
<1> SUFFICES ASSUME Init
             PROVE  EInv
  OBVIOUS
<1>1. PICK target \in Targets[kind], ctx \in Contexts[kind] :
          doc = [status |-> "template", decision |-> "template", claim |-> "blocked",
                 env |-> IF "template" \in Rules(kind).envs THEN "template" ELSE target.env,
                 chain |-> target.chain, notice |-> Rules(kind).template,
                 open |-> {"final"}, no |-> Rules(kind).classes \ {"final"}, flaw |-> {},
                 pin |-> [r \in Roles |-> NoPin], bytes |-> "edited", ctx |-> ctx]
  BY DEF Init
<1>2. Shape(doc) /\ doc.status = "template" /\ doc.open = {"final"} /\ doc.no = Rules(kind).classes \ {"final"} /\ doc.flaw = {}
  BY <1>1 DEF Shape
<1> QED  BY <1>2 DEF Init, EInv, DocumentOf, Statuses

\* So is the one that is filled in.
LEMMA FilledInKept ==
    ASSUME EInv, NEW status \in Statuses, NEW target, NEW content, NEW pinned, NEW historical,
           FillIn(status, target, content, pinned, historical)
    PROVE  EInv'
<1> DEFINE claim == IF status = "reviewed" /\ "complete" \in Rules(kind).claims
                    THEN "complete" ELSE "blocked"
           flaw == IF historical THEN {"command"} ELSE {}
           bytes == IF historical THEN "historical" ELSE "edited"
           pin == [r \in Roles |-> IF r \in pinned THEN digest(content) ELSE NoPin]
<1>1. /\ doc' = [doc EXCEPT !.status = status, !.decision = status, !.notice = FALSE,
                   !.env = target.env, !.chain = target.chain, !.claim = claim,
                   !.open = {}, !.no = {}, !.flaw = flaw, !.bytes = bytes, !.pin = pin]
      /\ kind' = kind
  BY DEF FillIn
<1>2. flaw \subseteq Flaws \ (IF Rules(kind).forms THEN {} ELSE {"form"})
  BY DEF Flaws
<1> HIDE DEF claim, flaw, bytes, pin
<1>3. doc' = [status |-> status, decision |-> status, claim |-> claim, env |-> target.env,
              chain |-> target.chain, notice |-> FALSE, open |-> {}, no |-> {}, flaw |-> flaw,
              pin |-> pin, bytes |-> bytes, ctx |-> doc.ctx]
  BY <1>1 DEF EInv, DocumentOf, Shape
<1>4. Shape(doc') /\ doc'.status = status /\ doc'.open = {} /\ doc'.no = {} /\ doc'.flaw = flaw
  BY <1>3 DEF Shape
<1> QED  BY <1>1, <1>2, <1>4 DEF EInv, DocumentOf

\* An edit opens, denies and damages what the kind has.
LEMMA EditKept ==
    ASSUME EInv, NEW d, Edit(d), DocumentOf(kind, d)
    PROVE  EInv'
<1>1. doc' = [d EXCEPT !.bytes = "edited"] /\ kind' = kind
  BY DEF Edit
<1>2. doc' = [status |-> d.status, decision |-> d.decision, claim |-> d.claim, env |-> d.env,
              chain |-> d.chain, notice |-> d.notice, open |-> d.open, no |-> d.no,
              flaw |-> d.flaw, pin |-> d.pin, bytes |-> "edited", ctx |-> d.ctx]
  BY <1>1 DEF DocumentOf, Shape
<1>3. Shape(doc') /\ doc'.status = d.status /\ doc'.open = d.open /\ doc'.no = d.no /\ doc'.flaw = d.flaw
  BY <1>2 DEF Shape
<1> QED  BY <1>1, <1>3 DEF EInv, DocumentOf

\* Every step keeps the document one of its kind.
LEMMA EvidenceStep == EInv /\ [Next]_vars => EInv'
<1> SUFFICES ASSUME EInv, [Next]_vars
             PROVE  EInv'
  OBVIOUS
<1> USE DEF EInv
<1>1. CASE \E status \in {"pending_review", "reviewed"}, target \in Targets[kind],
              content \in Contents \ {NoFile}, pinned \in {{}, Rules(kind).files},
              historical \in BOOLEAN : FillIn(status, target, content, pinned, historical)
  BY <1>1, FilledInKept DEF Statuses
<1>2. ASSUME NEW status \in Statuses, NEW decision, Review(status, decision)
      PROVE  EInv'
  <2>1. ASSUME NEW d, d = [doc EXCEPT !.status = status, !.decision = decision]
        PROVE  DocumentOf(kind, d)
    <3>1. d = [status |-> status, decision |-> decision, claim |-> doc.claim, env |-> doc.env,
               chain |-> doc.chain, notice |-> doc.notice, open |-> doc.open, no |-> doc.no,
               flaw |-> doc.flaw, pin |-> doc.pin, bytes |-> doc.bytes, ctx |-> doc.ctx]
      BY <2>1 DEF DocumentOf, Shape
    <3> QED  BY <3>1 DEF DocumentOf, Shape
  <2> QED  BY <1>2, <2>1, EditKept DEF Review
<1>3. ASSUME NEW claim, Claim(claim)
      PROVE  EInv'
  <2>1. DocumentOf(kind, [doc EXCEPT !.claim = claim])
    BY DEF DocumentOf, Shape
  <2> QED  BY <1>3, <2>1, EditKept DEF Claim
<1>4. ASSUME NEW env, MoveEnvironment(env)
      PROVE  EInv'
  <2>1. DocumentOf(kind, [doc EXCEPT !.env = env])
    BY DEF DocumentOf, Shape
  <2> QED  BY <1>4, <2>1, EditKept DEF MoveEnvironment
<1>5. ASSUME NEW chain, MoveChain(chain)
      PROVE  EInv'
  <2>1. DocumentOf(kind, [doc EXCEPT !.chain = chain])
    BY DEF DocumentOf, Shape
  <2> QED  BY <1>5, <2>1, EditKept DEF MoveChain
<1>6. CASE KeepNotice
  <2>1. ASSUME NEW d, d = [doc EXCEPT !.notice = TRUE]
        PROVE  DocumentOf(kind, d)
    <3>1. d = [status |-> doc.status, decision |-> doc.decision, claim |-> doc.claim,
               env |-> doc.env, chain |-> doc.chain, notice |-> TRUE, open |-> doc.open,
               no |-> doc.no, flaw |-> doc.flaw, pin |-> doc.pin, bytes |-> doc.bytes,
               ctx |-> doc.ctx]
      BY <2>1 DEF DocumentOf, Shape
    <3> QED  BY <3>1 DEF DocumentOf, Shape
  <2> QED  BY <1>6, <2>1, EditKept DEF KeepNotice
<1>7. CASE Reopen
  <2>1. DocumentOf(kind, [doc EXCEPT !.open = {"final"}])
    BY DEF DocumentOf, Shape
  <2> QED  BY <1>7, <2>1, EditKept DEF Reopen
<1>8. ASSUME NEW class \in Rules(kind).classes \ {"final"}, Deny(class)
      PROVE  EInv'
  <2>1. DocumentOf(kind, [doc EXCEPT !.no = doc.no \cup {class}])
    BY DEF DocumentOf, Shape
  <2> QED  BY <1>8, <2>1, EditKept DEF Deny
<1>9. ASSUME NEW flaw \in Flaws \ (IF Rules(kind).forms THEN {} ELSE {"form"}), Damage(flaw)
      PROVE  EInv'
  <2>1. DocumentOf(kind, [doc EXCEPT !.flaw = doc.flaw \cup {flaw}])
    BY DEF DocumentOf, Shape
  <2> QED  BY <1>9, <2>1, EditKept DEF Damage
<1>10. ASSUME NEW r, Repin(r)
       PROVE  EInv'
  <2>1. DocumentOf(kind, [doc EXCEPT !.pin[r] = digest(file[r])])
    BY DEF DocumentOf, Shape
  <2> QED  BY <1>10, <2>1, EditKept DEF Repin
<1>11. ASSUME NEW r, NEW content, ReplaceFile(r, content)
       PROVE  EInv'
  BY <1>11 DEF ReplaceFile, DocumentOf, Shape
<1>12. CASE UNCHANGED vars
  BY <1>12 DEF vars, DocumentOf, Shape
<1> QED
  BY <1>1, <1>2, <1>3, <1>4, <1>5, <1>6, <1>7, <1>8, <1>9, <1>10, <1>11, <1>12 DEF Next

\* It always is.
LEMMA EvidenceAlways == Spec => []EInv
BY EvidenceInit, EvidenceStep, PTL DEF Spec

-----------------------------------------------------------------------------
(* What an accepted document promises.                                     *)

\* ReviewedIsComplete: whichever of the checkers accepted it and however it was edited, a reviewed
\* artifact has nothing open, denied or damaged, and is no template any more.
THEOREM ReviewedArtifactsAreComplete == Spec => []ReviewedIsComplete
<1>1. EInv => ReviewedIsComplete
  <2> SUFFICES ASSUME EInv, Accepted, doc.status = "reviewed"
               PROVE  /\ doc.open = {} /\ doc.no = {}
                      /\ doc.flaw \subseteq (IF HistoricalCapture(doc) THEN {"command"} ELSE {})
                      /\ kind # "live_manifest" => doc.decision = "reviewed"
                      /\ Rules(kind).template => ~doc.notice
    BY DEF ReviewedIsComplete
  <2>1. Asked(kind, doc, file)
    BY EveryCheckerAsks, EvidenceConstants DEF Accepted, EInv
  <2>2. ReviewAsks(kind, doc)
    BY <2>1 DEF Asked
  <2>3. doc.open = {} /\ doc.no = {}
    BY <2>2 DEF ReviewAsks, Filled, Confirmed, EInv, DocumentOf
  <2>4. doc.flaw \subseteq (IF HistoricalCapture(doc) THEN {"command"} ELSE {})
    BY <2>1, <2>2 DEF Asked, ReviewAsks, Readable, Commanded, WellFormed, EInv, DocumentOf, Flaws
  <2> QED  BY <2>1, <2>2, <2>3, <2>4 DEF Asked, ReviewAsks
<1> QED  BY <1>1, EvidenceAlways, PTL

\* PinnedFilesHold: between two accepting checks of an unchanged document no file whose digest it
\* quotes was exchanged, and no accepted check leaves a secret in a retained file.
THEOREM PinsHold == Spec => PinnedFilesHold
<1> DEFINE Held == doc' = doc /\ Accepted /\ Accepted'
                     => /\ \A r \in Rules(kind).files :
                             doc.pin[r] # NoPin => digest(file'[r]) = digest(file[r])
                        /\ \A r \in Rules(kind).files : ~file'[r].secret
<1>1. EInv /\ [Next]_vars => [Held]_vars
  <2> SUFFICES ASSUME EInv, [Next]_vars, doc' = doc, Accepted, Accepted'
               PROVE  /\ \A r \in Rules(kind).files :
                           doc.pin[r] # NoPin => digest(file'[r]) = digest(file[r])
                      /\ \A r \in Rules(kind).files : ~file'[r].secret
    OBVIOUS
  <2>1. kind' = kind
    BY DEF Next, FillIn, Review, Claim, MoveEnvironment, MoveChain, KeepNotice, Reopen, Deny,
           Damage, Repin, Edit, ReplaceFile, vars
  <2>2. kind \in KindNames
    BY EvidenceConstants DEF EInv
  <2>3. Asked(kind, doc, file)
    BY <2>2, EveryCheckerAsks DEF Accepted
  <2>4. Asked(kind, doc, file')
    BY <2>1, <2>2, EveryCheckerAsks DEF Accepted
  <2> QED  BY <2>3, <2>4 DEF Asked, Retained
<1> QED  BY <1>1, EvidenceAlways, PTL DEF Spec, PinnedFilesHold

\* OneDeployment: accepted address evidence, whoever wrote its files, gives every contract of the
\* manifest one address throughout, on the chain that the document names.
THEOREM AddressEvidenceIsOfOneDeployment == Spec => []OneDeployment
<1>1. ASSUME Accepted, kind \in {"verified_addresses", "public_beta_addresses"}
      PROVE  /\ \A c \in Named(file["manifest"]) :
                    Cardinality({file[r].addr[c] : r \in {"manifest", "book", "explorer", "proof"}}) = 1
             /\ {file["manifest"].chain, file["book"].chain} = {doc.chain}
             /\ Distinct(file["manifest"])
  <2>1. /\ Rules(kind).chains = {doc.chain}
        /\ BookAndManifest(Rules(kind), file) /\ ExplorerAndProof(file)
    <3>1. VerifiedAddresses_artifact(Rules(kind), doc, file) /\ doc.status # "template"
      BY <1>1 DEF Accepted, Accepts
    <3>2. Rules(kind).chains = {"1"} \/ Rules(kind).chains = {"11155111"}
      BY <1>1 DEF Rules, VerifiedAddressesRules, PublicBetaAddressesRules
    <3> QED
      BY <3>1, <3>2 DEF VerifiedAddresses_artifact, VerifiedAddresses_review_state, TemplateOnly
  <2>2. ASSUME NEW c \in Named(file["manifest"])
        PROVE  Cardinality({file[r].addr[c] : r \in {"manifest", "book", "explorer", "proof"}}) = 1
    <3>1. file["book"].addr = file["manifest"].addr /\ c \in Named(file["book"])
      BY <2>1 DEF BookAndManifest, Named
    <3>2. /\ file["explorer"].addr[c] = file["book"].addr[c]
          /\ file["proof"].addr[c] = file["book"].addr[c]
      BY <2>1, <3>1 DEF ExplorerAndProof
    <3>3. {file[r].addr[c] : r \in {"manifest", "book", "explorer", "proof"}}
            = {file["manifest"].addr[c]}
      BY <3>1, <3>2
    <3> QED  BY <3>3, FS_Singleton
  <2> QED  BY <2>1, <2>2 DEF BookAndManifest
<1>2. ASSUME Accepted, kind = "live_manifest"
      PROVE  \A c \in Named(file["manifest"]) : file["book"].addr[c] = file["manifest"].addr[c]
  BY <1>2 DEF Accepted, Accepts, LiveManifest_artifact, LiveManifest_files
<1>3. OneDeployment
  BY <1>1, <1>2 DEF OneDeployment
<1> QED  BY <1>3, PTL

\* The fork rehearsal and the drills are all that can claim completion.
LEMMA OnlyDrillsClaim ==
    ASSUME NEW k \in KindNames, NEW d, NEW f, d.status # "template", Accepts(k, d, f),
           d.claim = "complete"
    PROVE  k \in {"incident_drill", "failed_randomness", "bad_metadata", "stuck_auction",
                  "signer_compromise", "fork_rehearsal"}
BY DEF KindNames, Accepts, LiveManifest_artifact, LiveManifest_common_fields,
       VerifiedAddresses_artifact, BroadcastRetention_artifact, ForkBrowser_artifact,
       LiveBrowser_artifact, Marketplace_artifact, ExternalAudit_artifact, PostAudit_artifact,
       ForkCeremony_artifact, LiveCeremony_artifact, TestnetRehearsal_artifact,
       ForkRandomizer_artifact, LiveRandomizer_artifact, ProductionSigning_artifact

\* DrillsEndSafely: a drill that claims completion and is accepted tells a recovery that the
\* contracts allow, whatever circumstances were written down.
THEOREM CompletedDrillsEndSafely == Spec => []DrillsEndSafely
<1>1. ASSUME EInv, Accepted, doc.claim = "complete"
      PROVE  doc.env \in {"fork", "testnet", "live"} /\ doc.status = "reviewed"
  <2>1. kind \in {"incident_drill", "failed_randomness", "bad_metadata", "stuck_auction",
                  "signer_compromise", "fork_rehearsal"}
    BY <1>1, OnlyDrillsClaim, EvidenceConstants DEF Accepted, EInv
  <2>0. doc.status \in {"template", "pending_review", "reviewed"}
    BY <1>1 DEF EInv, DocumentOf, Statuses
  <2> USE <2>0 DEF TemplateOnly, LeftTemplate, DrillEnvironments
  <2>2. CASE kind = "incident_drill"
    BY <1>1, <2>2 DEF Accepted, Accepts, IncidentDrill_artifact, IncidentDrill_review_state
  <2>3. CASE kind = "failed_randomness"
    BY <1>1, <2>3 DEF Accepted, Accepts, FailedRandomness_artifact, FailedRandomness_lifecycle,
                      DrillLifecycle
  <2>4. CASE kind = "bad_metadata"
    BY <1>1, <2>4 DEF Accepted, Accepts, BadMetadata_artifact, BadMetadata_lifecycle, DrillLifecycle
  <2>5. CASE kind = "stuck_auction"
    BY <1>1, <2>5 DEF Accepted, Accepts, StuckAuction_artifact, StuckAuction_review_state, DrillReview
  <2>6. CASE kind = "signer_compromise"
    BY <1>1, <2>6 DEF Accepted, Accepts, SignerCompromise_artifact, SignerCompromise_review_state,
                      DrillReview
  <2>7. CASE kind = "fork_rehearsal"
    BY <1>1, <2>7 DEF Accepted, Accepts, ForkRehearsal_artifact, ForkRehearsal_review_state
  <2> QED  BY <2>1, <2>2, <2>3, <2>4, <2>5, <2>6, <2>7
<1>2. ASSUME EInv, Accepted, doc.claim = "complete", kind = "stuck_auction"
      PROVE  /\ doc.ctx.end \in {"SettledWithBid", "SettledNoBid", "Cancelled"}
             /\ doc.ctx.end = "SettledWithBid" <=> doc.ctx.bid > 0
             /\ doc.ctx.stuck = "no_bid_pending" => doc.ctx.end = "SettledNoBid"
  <2>1. AuctionShape(doc.ctx)
    BY <1>1, <1>2 DEF Accepted, Accepts, StuckAuction_artifact, StuckAuction_review_state
  <2> QED  BY <2>1 DEF AuctionShape, TERMINAL_BY_PATH, STUCK_CONDITIONS_BY_PATH
<1>3. ASSUME EInv, Accepted, doc.claim = "complete", kind = "failed_randomness"
      PROVE  /\ doc.ctx.meta1 = "final" =>
                   doc.ctx.end = "Fulfilled" /\ doc.ctx.mode \notin {"wrong_token", "stale_epoch"}
             /\ doc.ctx.meta1 = "pending" => doc.ctx.path = "invalid_callback"
  <2>1. FailedRandomness_randomizer_fields(doc) /\ doc.status # "template"
    BY <1>3 DEF Accepted, Accepts, FailedRandomness_artifact
  <2> QED
    BY <2>1 DEF FailedRandomness_randomizer_fields, FAILURE_MODES_BY_PATH,
                ENDING_REQUEST_STATE_BY_PATH, ENDING_METADATA_STATE_BY_REQUEST_STATE
<1>4. ASSUME EInv, Accepted, doc.claim = "complete", kind = "bad_metadata"
      PROVE  /\ doc.ctx.frozen => doc.ctx.toVersion = doc.ctx.fromVersion
             /\ doc.ctx.recovery = "fix_forward_dependency" => doc.ctx.toVersion > doc.ctx.fromVersion
  <2>1. BadMetadata_context_fields(doc) /\ doc.status # "template"
    BY <1>4 DEF Accepted, Accepts, BadMetadata_artifact
  <2> QED  BY <2>1 DEF BadMetadata_context_fields, FROZEN_DISALLOWED_RECOVERIES
<1>5. ASSUME EInv, Accepted, doc.claim = "complete", kind = "signer_compromise"
      PROVE  doc.ctx.toEpoch > doc.ctx.fromEpoch /\ doc.ctx.domainChain = doc.chain
  BY <1>1, <1>5 DEF Accepted, Accepts, SignerCompromise_artifact, SignerCompromise_review_state
<1>6. EInv => DrillsEndSafely
  BY <1>1, <1>2, <1>3, <1>4, <1>5 DEF DrillsEndSafely
<1> QED  BY <1>6, EvidenceAlways, PTL

-----------------------------------------------------------------------------
(* The evidence records.                                                   *)

\* What a pin can hold: a placeholder, the digest of a file, or the number of an edition.
Digests == {NoDigest, SelfRef, Absent} \cup Nat
FileRoles == DOMAIN FileContents

\* What a record of the kind under way can be, given the editions written so far.
RecordType ==
    [type : RECORD_TYPES, review : REVIEW_STATUSES, approval : APPROVAL_STATUSES,
     env : {"local"} \cup {t.env : t \in RecordTargets},
     chain : {"31337"} \cup {t.chain : t \in RecordTargets},
     flaw : SUBSET RecordFlaws[recordKind],
     open : SUBSET Fields[recordKind], weak : SUBSET Fields[recordKind],
     retained : SUBSET Categories[recordKind], pin : [FileRoles -> Digests],
     own : {"pending_review", "reviewed", "self_referential"}, ctx : RecordContexts[recordKind]]
Entries == [record : RecordType, sibling : Digests]

RecordsTypeOK ==
    /\ recordKind \in RecordKinds /\ rec \in RecordType
    /\ files \in [FileRoles -> Digests]
    /\ history \in Seq(Entries)
    /\ files["release_manifest"] \in DOMAIN history

\* No record gives the digest of an edition that is not yet written.
PinBefore(r, n) == r.pin["release_manifest"] \in {NoDigest, SelfRef} \cup 1 .. n
\* The first edition lists the template.
FirstEdition ==
    /\ history # <<>>
    /\ LET r == history[1].record
       IN /\ r.review = "template" /\ r.env = "local"
          /\ recordKind \in Descriptors => r.pin["release_manifest"] = SelfRef
\* Every later one lists a record that had been written before it, and one that its checker
\* had accepted if the generator asks it.
LaterEditions ==
    \A n \in DOMAIN history \ {1} :
        LET r == history[n].record
        IN /\ PinBefore(r, n - 1)
           /\ recordKind \in ValidatedKinds => \E f : AcceptsRecord(recordKind, r, f)

RecordsInv ==
    RecordsTypeOK /\ PinBefore(rec, Len(history)) /\ FirstEdition /\ LaterEditions

\* A digest of this model's files is a number.
LEMMA Sentinels == NoDigest \notin Nat /\ SelfRef \notin Nat /\ Absent \notin Nat
    BY DEF NoDigest, SelfRef, Absent

LEMMA ContentsAreDigests ==
    /\ {"release_manifest", "sibling"} \subseteq FileRoles
    /\ \A role \in FileRoles : FileContents[role] \subseteq Digests
    /\ FileContents["release_manifest"] = {1}
    BY RecordConstants DEF Digests, FileRoles

LEMMA CommittedFiles ==
    Committed \in [FileRoles -> Digests] /\ Committed["release_manifest"] = 1
<1>1. \A role \in FileRoles : (CHOOSE c \in FileContents[role] \ {Absent} : TRUE)
                              \in FileContents[role] \ {Absent}
    BY RecordConstants DEF FileRoles
<1> QED  BY <1>1, ContentsAreDigests DEF Committed, FileRoles

LEMMA PinnedIsTyped ==
    ASSUME NEW k, NEW f \in [FileRoles -> Digests]
    PROVE  /\ Pinned(k, f) \in [FileRoles -> Digests]
           /\ Pinned(k, f)["release_manifest"] = IF k \in Descriptors THEN SelfRef
                                                 ELSE f["release_manifest"]
    BY ContentsAreDigests DEF Pinned, Digests

LEMMA TemplateIsTyped ==
    ASSUME recordKind \in RecordKinds, NEW f \in [FileRoles -> Digests],
           NEW ctx \in RecordContexts[recordKind]
    PROVE  Template(recordKind, f, ctx) \in RecordType
    BY PinnedIsTyped DEF Template, RecordType, RECORD_TYPES, REVIEW_STATUSES, APPROVAL_STATUSES

LEMMA RecordsStart == RecordsInit => RecordsInv
<1> SUFFICES ASSUME RecordsInit PROVE RecordsInv
    OBVIOUS
<1> DEFINE one == [record |-> rec, sibling |-> files["sibling"]]
<1>1. files \in [FileRoles -> Digests] /\ files["release_manifest"] = 1
    BY CommittedFiles DEF RecordsInit
<1>2. PICK ctx \in RecordContexts[recordKind] : rec = Template(recordKind, files, ctx)
    BY DEF RecordsInit
<1>3. rec \in RecordType
    BY <1>1, <1>2, TemplateIsTyped DEF RecordsInit
<1>4. one \in Entries
    BY <1>1, <1>3, ContentsAreDigests DEF Entries
<1>5. history = <<one>> /\ history \in Seq(Entries) /\ Len(history) = 1 /\ DOMAIN history = {1}
    BY <1>4 DEF RecordsInit
<1>6. /\ rec.review = "template" /\ rec.env = "local"
      /\ rec.pin["release_manifest"] = IF recordKind \in Descriptors THEN SelfRef ELSE 1
    BY <1>1, <1>2, PinnedIsTyped DEF Template
<1>7. RecordsTypeOK
    BY <1>1, <1>3, <1>5 DEF RecordsTypeOK, RecordsInit
<1> QED  BY <1>5, <1>6, <1>7 DEF RecordsInv, PinBefore, FirstEdition, LaterEditions

\* A step of the operator: the record and the files change, the editions do not.
LEMMA EditsKeep ==
    ASSUME RecordsInv, recordKind' = recordKind, history' = history,
           rec' \in RecordType, PinBefore(rec', Len(history)),
           files' \in [FileRoles -> Digests], files'["release_manifest"] \in DOMAIN history
    PROVE  RecordsInv'
<1>1. RecordType' = RecordType /\ Entries' = Entries
    BY DEF RecordType, Entries
<1>2. RecordsTypeOK'
    BY <1>1 DEF RecordsInv, RecordsTypeOK
<1>3. PinBefore(rec, Len(history))' /\ FirstEdition' /\ LaterEditions'
    BY DEF RecordsInv, FirstEdition, LaterEditions, PinBefore
<1> QED  BY <1>2, <1>3 DEF RecordsInv

\* An amendment that leaves the binding to the release manifest alone.
LEMMA AmendmentsKeep ==
    ASSUME RecordsInv, NEW r \in RecordType, Amend(r), PinBefore(r, Len(history))
    PROVE  RecordsInv'
<1>1. rec' = r /\ UNCHANGED <<recordKind, files, history>>
    BY DEF Amend
<1> QED  BY <1>1, EditsKeep DEF RecordsInv, RecordsTypeOK

LEMMA CurrentPin ==
    ASSUME RecordsInv
    PROVE  /\ files["release_manifest"] \in 1 .. Len(history)
           /\ Pinned(recordKind, files) \in [FileRoles -> Digests]
           /\ Pinned(recordKind, files)["release_manifest"] \in {SelfRef} \cup 1 .. Len(history)
<1>1. files \in [FileRoles -> Digests] /\ files["release_manifest"] \in 1 .. Len(history)
    BY DEF RecordsInv, RecordsTypeOK
<1> QED  BY <1>1, PinnedIsTyped

LEMMA RecordsStep == RecordsInv /\ [RecordsNext]_recordVars => RecordsInv'
<1> SUFFICES ASSUME RecordsInv, [RecordsNext]_recordVars PROVE RecordsInv'
    OBVIOUS
<1>t. /\ recordKind \in RecordKinds /\ rec \in RecordType /\ files \in [FileRoles -> Digests]
      /\ history \in Seq(Entries) /\ files["release_manifest"] \in DOMAIN history
      /\ PinBefore(rec, Len(history)) /\ "release_manifest" \in FileRoles
    BY ContentsAreDigests DEF RecordsInv, RecordsTypeOK
<1>1. CASE UNCHANGED recordVars
    BY <1>1, <1>t, EditsKeep DEF recordVars
<1>2. CASE FillInRecord
    <2>1. PICK t \in RecordTargets, s \in REVIEW_STATUSES \ {"template"},
               c \in RecordContexts[recordKind] :
             rec' = [rec EXCEPT !.type = "evidence", !.review = s,
                             !.approval = IF s = "reviewed" THEN "approved" ELSE "pending",
                             !.env = t.env, !.chain = t.chain,
                             !.open = {}, !.weak = {}, !.pin = Pinned(recordKind, files),
                             !.ctx = c]
        BY <1>2 DEF FillInRecord
    <2>2. rec' \in RecordType /\ rec'.pin = Pinned(recordKind, files)
        BY <2>1, <1>t, CurrentPin DEF RecordType, RECORD_TYPES, REVIEW_STATUSES, APPROVAL_STATUSES
    <2> QED  BY <1>2, <1>t, <2>2, CurrentPin, EditsKeep DEF FillInRecord, PinBefore
<1>3. CASE SetField
    <2>1. PICK x \in Fields[recordKind], v \in {"open", "weak", "final"} :
              Amend([rec EXCEPT !.open = (@ \ {x}) \cup (IF v = "open" THEN {x} ELSE {}),
                                !.weak = (@ \ {x}) \cup (IF v = "weak" THEN {x} ELSE {})])
        BY <1>3 DEF SetField, Revise
    <2> DEFINE r == [rec EXCEPT !.open = (@ \ {x}) \cup (IF v = "open" THEN {x} ELSE {}),
                                !.weak = (@ \ {x}) \cup (IF v = "weak" THEN {x} ELSE {})]
    <2>2. r \in RecordType /\ r.pin = rec.pin
        BY <1>t DEF RecordType
    <2> QED  BY <1>t, <2>1, <2>2, AmendmentsKeep DEF PinBefore
<1>4. CASE SetReview
    <2>1. \/ \E s \in REVIEW_STATUSES : Amend([rec EXCEPT !.review = s])
          \/ \E s \in APPROVAL_STATUSES : Amend([rec EXCEPT !.approval = s])
          \/ \E t \in RECORD_TYPES : Amend([rec EXCEPT !.type = t])
        BY <1>4 DEF SetReview
    <2>2. \A s \in REVIEW_STATUSES : [rec EXCEPT !.review = s] \in RecordType
                                     /\ [rec EXCEPT !.review = s].pin = rec.pin
        BY <1>t DEF RecordType
    <2>3. \A s \in APPROVAL_STATUSES : [rec EXCEPT !.approval = s] \in RecordType
                                       /\ [rec EXCEPT !.approval = s].pin = rec.pin
        BY <1>t DEF RecordType
    <2>4. \A t \in RECORD_TYPES : [rec EXCEPT !.type = t] \in RecordType
                                  /\ [rec EXCEPT !.type = t].pin = rec.pin
        BY <1>t DEF RecordType
    <2> QED  BY <1>t, <2>1, <2>2, <2>3, <2>4, AmendmentsKeep DEF PinBefore
<1>5. CASE SetTarget
    <2>1. PICK t \in RecordTargets : Amend([rec EXCEPT !.env = t.env])
                                     \/ Amend([rec EXCEPT !.chain = t.chain])
        BY <1>5 DEF SetTarget
    <2>2. [rec EXCEPT !.env = t.env] \in RecordType /\ [rec EXCEPT !.env = t.env].pin = rec.pin
        BY <1>t DEF RecordType
    <2>3. /\ [rec EXCEPT !.chain = t.chain] \in RecordType
          /\ [rec EXCEPT !.chain = t.chain].pin = rec.pin
        BY <1>t DEF RecordType
    <2> QED  BY <1>t, <2>1, <2>2, <2>3, AmendmentsKeep DEF PinBefore
<1>6. CASE SetContext
    <2>1. PICK c \in RecordContexts[recordKind] : Amend([rec EXCEPT !.ctx = c])
        BY <1>6 DEF SetContext
    <2>2. [rec EXCEPT !.ctx = c] \in RecordType /\ [rec EXCEPT !.ctx = c].pin = rec.pin
        BY <1>t DEF RecordType
    <2> QED  BY <1>t, <2>1, <2>2, AmendmentsKeep DEF PinBefore
<1>7. CASE Spoil
    <2>1. PICK x \in RecordFlaws[recordKind] : Amend([rec EXCEPT !.flaw = @ \cup {x}])
        BY <1>7 DEF Spoil, Revise
    <2>2. /\ [rec EXCEPT !.flaw = @ \cup {x}] \in RecordType
          /\ [rec EXCEPT !.flaw = @ \cup {x}].pin = rec.pin
        BY <1>t DEF RecordType
    <2> QED  BY <1>t, <2>1, <2>2, AmendmentsKeep DEF PinBefore
<1>8. CASE DropRetained
    <2>1. PICK c \in rec.retained : Amend([rec EXCEPT !.retained = @ \ {c}])
        BY <1>8 DEF DropRetained, Revise
    <2>2. /\ [rec EXCEPT !.retained = @ \ {c}] \in RecordType
          /\ [rec EXCEPT !.retained = @ \ {c}].pin = rec.pin
        BY <1>t DEF RecordType
    <2> QED  BY <1>t, <2>1, <2>2, AmendmentsKeep DEF PinBefore
<1>9. CASE SetBinding
    <2>1. PICK s \in {"pending_review", "reviewed", "self_referential"} :
              Amend([rec EXCEPT !.own = s])
        BY <1>9 DEF SetBinding, Revise
    <2>2. [rec EXCEPT !.own = s] \in RecordType /\ [rec EXCEPT !.own = s].pin = rec.pin
        BY <1>t DEF RecordType
    <2> QED  BY <1>t, <2>1, <2>2, AmendmentsKeep DEF PinBefore
<1>10. CASE RepinRecord
    <2> DEFINE Repinned(role, d) ==
            [rec EXCEPT !.pin[role] = d,
                        !.own = IF role # "release_manifest" THEN @
                                ELSE IF d = SelfRef THEN "self_referential" ELSE "reviewed"]
    <2>0. PICK role \in Pins[recordKind] :
              \E d \in {files[role], NoDigest, SelfRef} : Amend(Repinned(role, d))
        BY <1>10 DEF RepinRecord, Revise
    <2>1. PICK d \in {files[role], NoDigest, SelfRef} : Amend(Repinned(role, d))
        BY <2>0
    <2>2. CASE role \in FileRoles
        <3>1. d \in Digests
            BY <1>t, <2>2 DEF Digests
        <3>2. Repinned(role, d) \in RecordType
            BY <1>t, <2>2, <3>1 DEF RecordType
        <3>3. Repinned(role, d).pin = [rec.pin EXCEPT ![role] = d]
            BY <1>t DEF RecordType
        <3>4. rec.pin \in [FileRoles -> Digests]
            BY <1>t DEF RecordType
        <3>5. role = "release_manifest" => d \in {NoDigest, SelfRef} \cup 1 .. Len(history)
            BY <2>1, CurrentPin
        <3>6. PinBefore(Repinned(role, d), Len(history))
            BY <1>t, <2>2, <3>3, <3>4, <3>5 DEF PinBefore
        <3> HIDE DEF Repinned
        <3> QED  BY <2>1, <3>2, <3>6, AmendmentsKeep
    <2>3. CASE role \notin FileRoles
        <3>1. rec.pin \in [FileRoles -> Digests] /\ [rec.pin EXCEPT ![role] = d] = rec.pin
            BY <1>t, <2>3 DEF RecordType
        <3>2. Repinned(role, d) \in RecordType /\ Repinned(role, d).pin = rec.pin
            BY <1>t, <2>3, <3>1 DEF RecordType
        <3>3. PinBefore(Repinned(role, d), Len(history))
            BY <1>t, <3>2 DEF PinBefore
        <3> HIDE DEF Repinned
        <3> QED  BY <2>1, <3>2, <3>3, AmendmentsKeep
    <2> QED  BY <2>2, <2>3
<1>11. CASE ReplaceRecordFile
    <2>1. PICK role \in (Pins[recordKind] \cup {"sibling"}) \cap DOMAIN FileContents :
             \E c \in FileContents[role] \ {files[role]} : files' = [files EXCEPT ![role] = c]
        BY <1>11 DEF ReplaceRecordFile
    <2>2. PICK c \in FileContents[role] : files' = [files EXCEPT ![role] = c]
        BY <2>1
    <2>3. role \in FileRoles /\ c \in Digests
        BY <2>1, <2>2, ContentsAreDigests DEF FileRoles
    <2>4. files' \in [FileRoles -> Digests]
        BY <2>2, <2>3, <1>t
    <2>5. 1 \in DOMAIN history
        BY <1>t DEF RecordsInv, FirstEdition
    <2>6. files'["release_manifest"] \in DOMAIN history
        BY <2>2, <2>3, <2>5, <1>t, ContentsAreDigests
    <2> QED  BY <1>11, <1>t, <2>4, <2>6, EditsKeep DEF ReplaceRecordFile
<1>12. CASE Checkout
    <2>1. PICK n \in DOMAIN history : files' = [files EXCEPT !["release_manifest"] = n]
        BY <1>12 DEF Checkout
    <2>2. n \in Digests
        BY <1>t DEF Digests
    <2>3. files' \in [FileRoles -> Digests] /\ files'["release_manifest"] = n
        BY <2>1, <2>2, <1>t
    <2> QED  BY <1>12, <1>t, <2>1, <2>3, EditsKeep DEF Checkout
<1>13. CASE Catalogue
    <2>k. recordKind' = recordKind /\ rec' = rec
        BY <1>13 DEF Catalogue
    <2>1. CASE UNCHANGED history
        <3>1. PICK n \in DOMAIN history : files' = [files EXCEPT !["release_manifest"] = n]
            BY <1>13, <2>1, <1>t DEF Catalogue
        <3>2. n \in Digests
            BY <1>t DEF Digests
        <3>3. files' \in [FileRoles -> Digests] /\ files'["release_manifest"] = n
            BY <3>1, <3>2, <1>t
        <3> QED  BY <2>k, <2>1, <1>t, <3>1, <3>3, EditsKeep
    <2>2. CASE /\ history' = Append(history, Listing)
               /\ files' = [files EXCEPT !["release_manifest"] = Len(history) + 1]
        <3> DEFINE m == Len(history) + 1
        <3>1. Listing \in Entries
            BY <1>t, ContentsAreDigests DEF Listing, Entries
        <3>2. /\ history' \in Seq(Entries) /\ Len(history') = m /\ m \in Nat
              /\ \A n \in DOMAIN history : history'[n] = history[n]
              /\ history'[m] = Listing /\ DOMAIN history' = DOMAIN history \cup {m}
              /\ DOMAIN history = 1 .. Len(history) /\ Len(history) \in Nat
            BY <1>t, <2>2, <3>1
        <3>3. files' \in [FileRoles -> Digests] /\ files'["release_manifest"] = m
            BY <1>t, <2>2, <3>2 DEF Digests
        <3>4. RecordsTypeOK'
            <4>1. RecordType' = RecordType /\ Entries' = Entries
                BY <2>k DEF RecordType, Entries
            <4> QED  BY <4>1, <2>k, <1>t, <3>2, <3>3 DEF RecordsTypeOK
        <3>5. PinBefore(rec, Len(history))'
            BY <1>t, <2>k, <3>2 DEF PinBefore
        <3>6. FirstEdition'
            <4>1. 1 \in DOMAIN history
                BY <3>2 DEF RecordsInv, FirstEdition
            <4> QED  BY <4>1, <2>k, <3>2 DEF RecordsInv, FirstEdition
        <3>7. recordKind \in ValidatedKinds => \E f : AcceptsRecord(recordKind, rec, f)
            BY <1>13 DEF Catalogue, Listable, AcceptedRecord
        <3>8. LaterEditions'
            <4> SUFFICES ASSUME NEW n \in DOMAIN history' \ {1}
                         PROVE  /\ PinBefore(history'[n].record, n - 1)
                                /\ recordKind \in ValidatedKinds =>
                                      \E f : AcceptsRecord(recordKind, history'[n].record, f)
                BY <2>k DEF LaterEditions, PinBefore
            <4>1. CASE n \in DOMAIN history
                BY <4>1, <3>2 DEF RecordsInv, LaterEditions
            <4>2. CASE n = m
                <5>1. history'[n].record = rec /\ n - 1 = Len(history)
                    BY <4>2, <3>2 DEF Listing
                <5> QED  BY <5>1, <3>7, <1>t
            <4> QED  BY <4>1, <4>2, <3>2
        <3> QED  BY <3>4, <3>5, <3>6, <3>8 DEF RecordsInv
    <2> QED  BY <1>13, <2>1, <2>2 DEF Catalogue
<1> QED
    BY <1>1, <1>2, <1>3, <1>4, <1>5, <1>6, <1>7, <1>8, <1>9, <1>10, <1>11, <1>12,
       <1>13 DEF RecordsNext

LEMMA RecordsAlways == RecordsSpec => []RecordsInv
    BY RecordsStart, RecordsStep, PTL DEF RecordsSpec

\* What a checker of a kind that is validated asks of a reviewed record seen by others.
LEMMA ReviewAsksFields ==
    ASSUME NEW k \in ValidatedKinds, NEW r, NEW f, AcceptsRecord(k, r, f), Reviewed(r), NonLocal(r)
    PROVE  Settled(r, Fields[k] \ Unread(k, r)) /\ r.approval = "approved" /\ r.type # "template"
<1>k. k \in {"custody", "signing", "admin", "provenance", "permanence"}
    BY DEF ValidatedKinds, AllKinds
<1>1. CASE k = "custody"
    <2>1. Custody_document(r, f)
        BY <1>1 DEF AcceptsRecord
    <2>2. /\ TypeMatchesReview(r) /\ ReviewSection(r)
          /\ Settled(r, IdentityFields) /\ Settled(r, CustodySection)
          /\ Settled(r, ReadinessFields \cup {"last_rotation_drill", "last_revocation_drill"})
          /\ Settled(r, OperationFields)
        BY <2>1 DEF Custody_document, Custody_signer_identity, Custody_custody,
                    Custody_lifecycle, Custody_operations
    <2>3. Settled(r, ReviewFields) /\ r.approval = "approved"
        BY <2>2 DEF ReviewSection, ReviewFields
    <2>4. Fields[k] \ Unread(k, r) \subseteq
              IdentityFields \cup CustodySection \cup ReadinessFields
              \cup {"last_rotation_drill", "last_revocation_drill"}
              \cup OperationFields \cup ReviewFields
        <3>1. Unread(k, r) = DrillFields
            BY <1>1 DEF Unread, Descriptors
        <3> QED  BY <1>1, <3>1 DEF Fields
    <2>5. Settled(r, Fields[k] \ Unread(k, r))
        BY <2>2, <2>3, <2>4 DEF Settled
    <2> QED  BY <2>2, <2>3, <2>5 DEF TypeMatchesReview, Reviewed
<1>2. CASE k = "signing"
    <2>1. Signing_document(r, f)
        BY <1>2 DEF AcceptsRecord
    <2>2. /\ TypeMatchesReview(r) /\ Settled(r, SigningIdentityFields)
          /\ Settled(r, {"signature_status"}) /\ Settled(r, {"reviewer"})
          /\ r.approval = "approved"
        BY <2>1 DEF Signing_document, Signing_identity, Signing_signature, Signing_review
    <2>3. Signed(r) => Settled(r, SignatureFields)
        BY <2>1, <2>2 DEF Signing_document, Signing_signature, Settled, Final, SignatureFields
    <2>4. Fields[k] \ Unread(k, r) \subseteq
              SigningIdentityFields \cup {"reviewer", "signature_status"}
              \cup (IF Signed(r) THEN SignatureFields ELSE {})
        <3>1. Unread(k, r) = SigningFreeText \cup
                  IF Signed(r) THEN {} ELSE SignatureFields \ {"signature_status"}
            BY <1>2 DEF Unread, Descriptors
        <3>2. Fields[k] = SigningIdentityFields \cup SignatureFields \cup {"reviewer"}
                          \cup SigningFreeText
            BY <1>2 DEF Fields
        <3> QED  BY <3>1, <3>2
    <2>5. Settled(r, Fields[k] \ Unread(k, r))
        BY <2>2, <2>3, <2>4 DEF Settled
    <2> QED  BY <2>2, <2>5 DEF TypeMatchesReview, Reviewed
<1>3. CASE k = "admin"
    <2>1. /\ TypeMatchesReview(r) /\ r.open = {} /\ r.approval = "approved"
        BY <1>3 DEF AcceptsRecord, Admin_document, Admin_no_placeholders, Admin_review
    <2> QED  BY <2>1 DEF TypeMatchesReview, Reviewed, Settled
<1>4. CASE k = "provenance"
    <2>1. Provenance_document(r, f)
        BY <1>4 DEF AcceptsRecord
    <2>2. /\ TypeMatchesReview(r) /\ ReviewSection(r)
          /\ Settled(r, ScopeFields) /\ Settled(r, ArtworkFields)
          /\ Settled(r, AuthenticityFields \cup {"authenticity_status"})
          /\ Settled(r, {"entry_text"}) /\ Settled(r, {"authority_rotation_policy"})
          /\ Binding(r, f, "manifest")
        BY <2>1 DEF Provenance_document, Provenance_scope, Provenance_artwork,
                    Provenance_authenticity, Provenance_entries, Provenance_mutability,
                    Provenance_bindings, Settled, Final
    <2>3. Settled(r, ReviewFields) /\ r.approval = "approved"
        BY <2>2 DEF ReviewSection, ReviewFields
    <2>4. Settled(r, {"manifest"})
        BY <2>2 DEF Binding, BindingStatus, Settled
    <2>5. Fields[k] \ Unread(k, r) \subseteq
              ScopeFields \cup ArtworkFields \cup AuthenticityFields \cup ReviewFields
              \cup {"authenticity_status", "entry_text", "authority_rotation_policy", "manifest"}
        BY <1>4 DEF Fields, Unread, Descriptors
    <2>6. Settled(r, Fields[k] \ Unread(k, r))
        BY <2>2, <2>3, <2>4, <2>5 DEF Settled
    <2> QED  BY <2>2, <2>3, <2>6 DEF TypeMatchesReview, Reviewed
<1>5. CASE k = "permanence"
    <2>1. Permanence_document(r, f)
        BY <1>5 DEF AcceptsRecord
    <2>2. /\ TypeMatchesReview(r) /\ ReviewSection(r)
          /\ Settled(r, ScopeFields) /\ Settled(r, OutputHashes)
          /\ Settled(r, {"renderer_name", "renderer_version", "renderer_contract"})
          /\ Settled(r, {"content_sha256", "provenance_sha256", "dependency_registry"})
          /\ Settled(r, {"source_status", "archive_status", "archive_sha256"})
          /\ Settled(r, {"deterministic_replay_status", "browser_proof_status",
                         "output_hash_status"})
          /\ Binding(r, f, "descriptors")
        BY <2>1 DEF Permanence_document, Permanence_scope, Provenance_scope, Permanence_renderer,
                    Permanence_dependencies, Permanence_archive, Permanence_replay,
                    Permanence_outputs, Permanence_bindings, Settled, Final
    <2>3. Settled(r, ReviewFields) /\ r.approval = "approved"
        BY <2>2 DEF ReviewSection, ReviewFields
    <2>4. Settled(r, {"descriptors"})
        BY <2>2 DEF Binding, BindingStatus, Settled
    <2>5. Fields[k] \subseteq
              ScopeFields \cup OutputHashes \cup ReviewFields
              \cup {"renderer_name", "renderer_version", "renderer_contract"}
              \cup {"content_sha256", "provenance_sha256", "dependency_registry"}
              \cup {"source_status", "archive_status", "archive_sha256"}
              \cup {"deterministic_replay_status", "browser_proof_status", "output_hash_status"}
              \cup {"descriptors"}
        BY <1>5 DEF Fields
    <2>6. Settled(r, Fields[k] \ Unread(k, r))
        BY <2>2, <2>3, <2>4, <2>5 DEF Settled
    <2> QED  BY <2>2, <2>3, <2>6 DEF TypeMatchesReview, Reviewed
<1> QED  BY <1>k, <1>1, <1>2, <1>3, <1>4, <1>5

\* What a checker of such a kind asks of a record for production.
LEMMA ProductionAsks ==
    ASSUME NEW k \in ValidatedKinds \ {"admin"}, NEW r, NEW f, AcceptsRecord(k, r, f),
           Production(r), r.type \in RECORD_TYPES
    PROVE  /\ r.type = "evidence" /\ Reviewed(r) /\ r.approval = "approved"
           /\ k = "custody" => Final(r, ReadinessFields \cup DrillFields)
           /\ k = "signing" => Final(r, {"signature_status", "signature_hash",
                                         "verification_status"})
           /\ k \in Descriptors => Settled(r, ScopeFields)
<1>1. k \in {"custody", "signing", "provenance", "permanence"}
    BY DEF ValidatedKinds, AllKinds
<1>2. NonLocal(r)
    BY DEF Production, NonLocal, PRODUCTION_ENVIRONMENTS, NON_LOCAL_ENVIRONMENTS, ENVIRONMENTS
<1>3. Reviewed(r)
    BY <1>1 DEF AcceptsRecord, Custody_document, Signing_document, Provenance_document,
                Permanence_document
<1>4. r.type = "evidence" /\ r.approval = "approved"
    BY <1>2, <1>3, ReviewAsksFields DEF RECORD_TYPES
<1>5. CASE k = "custody"
    BY <1>3, <1>4, <1>5 DEF AcceptsRecord, Custody_document, Custody_lifecycle, Descriptors
<1>6. CASE k = "signing"
    BY <1>3, <1>4, <1>6 DEF AcceptsRecord, Signing_document, Signing_signature, Signed, Final,
                            Descriptors
<1>7. CASE k \in Descriptors
    BY <1>3, <1>4, <1>7 DEF AcceptsRecord, Provenance_document, Permanence_document,
                            Permanence_scope,
                            Provenance_scope, Descriptors
<1> QED  BY <1>1, <1>5, <1>6, <1>7 DEF Descriptors

\* ProductionListingIsFinished: every edition of the release manifest ever written lists for
\* production only finished records, whatever was edited and checked out before and after.
THEOREM ListingsAreFinished == RecordsSpec => []ProductionListingIsFinished
<1>1. RecordsInv => ProductionListingIsFinished
    <2> SUFFICES ASSUME RecordsInv, NEW n \in DOMAIN history,
                        Production(history[n].record), recordKind \in ValidatedKinds \ {"admin"}
                 PROVE  LET r == history[n].record
                        IN /\ r.type = "evidence" /\ Reviewed(r) /\ r.approval = "approved"
                           /\ recordKind = "custody" => Final(r, ReadinessFields \cup DrillFields)
                           /\ recordKind = "signing" => Final(r, {"signature_status",
                                                  "signature_hash", "verification_status"})
                           /\ recordKind \in Descriptors => Settled(r, ScopeFields)
        BY DEF ProductionListingIsFinished
    <2>1. history \in Seq(Entries)
        BY DEF RecordsInv, RecordsTypeOK
    <2>2. history[n].record.type \in RECORD_TYPES
        <3>1. history[n] \in Entries
            BY <2>1
        <3> QED  BY <3>1 DEF Entries, RecordType
    <2>3. n # 1
        BY DEF RecordsInv, FirstEdition, Production, PRODUCTION_ENVIRONMENTS
    <2>4. PICK f : AcceptsRecord(recordKind, history[n].record, f)
        BY <2>3 DEF RecordsInv, LaterEditions
    <2> QED  BY <2>2, <2>4, ProductionAsks
<1> QED  BY <1>1, RecordsAlways, PTL

\* An accepted record is never bound by its digest to the current manifest that lists it.
LEMMA NoCurrentPin == RecordsInv => CurrentManifestIsNotPinned
<1> SUFFICES ASSUME RecordsInv, AcceptedRecord, ManifestCurrent,
                    "release_manifest" \in Pins[recordKind]
             PROVE  /\ recordKind \in Descriptors =>
                          rec.pin["release_manifest"] \in {NoDigest, SelfRef}
                    /\ recordKind = "admin" => ~Reviewed(rec)
    BY DEF CurrentManifestIsNotPinned
<1> DEFINE n == files["release_manifest"]
<1>1. n \in DOMAIN history /\ n \in Nat /\ history[n].record = rec
    BY DEF RecordsInv, RecordsTypeOK, ManifestCurrent, Listing
<1>2. CASE rec.pin["release_manifest"] = n
    <2>1. n = 1
        <3> SUFFICES ASSUME n # 1 PROVE FALSE
            OBVIOUS
        <3>1. PinBefore(rec, n - 1)
            BY <1>1 DEF RecordsInv, LaterEditions
        <3> QED  BY <3>1, <1>1, <1>2, Sentinels DEF PinBefore
    <2>2. /\ rec.review = "template"
          /\ recordKind \in Descriptors => rec.pin["release_manifest"] = SelfRef
        BY <2>1, <1>1 DEF RecordsInv, FirstEdition
    <2> QED  BY <2>2 DEF Reviewed
<1>3. CASE rec.pin["release_manifest"] # n
    <2>1. ASSUME recordKind \in Descriptors
          PROVE  rec.pin["release_manifest"] \in {NoDigest, SelfRef}
        <3>1. Binding(rec, files, "release_manifest")
            BY <2>1 DEF Descriptors, AcceptedRecord, AcceptsRecord, Provenance_document,
                        Permanence_document,
                        Provenance_bindings, Permanence_bindings
        <3> QED  BY <3>1, <1>3 DEF Binding
    <2>2. ASSUME recordKind = "admin" PROVE ~Reviewed(rec)
        BY <2>2, <1>3 DEF AcceptedRecord, AcceptsRecord, Admin_document, Admin_deployment, FileRef
    <2> QED  BY <2>1, <2>2
<1> QED  BY <1>2, <1>3

\* AcceptedRecordsAreSound: what acceptance says of a record, of the files it names and of the
\* manifest that lists it, for every kind of record, whatever was edited and regenerated.
THEOREM AcceptedRecordsSound == RecordsSpec => []AcceptedRecordsAreSound
<1>1. RecordsInv => ReviewedIsFilledIn
    <2> SUFFICES ASSUME RecordsInv, AcceptedRecord, recordKind \in ValidatedKinds,
                        Reviewed(rec), NonLocal(rec)
                 PROVE  /\ Settled(rec, Fields[recordKind] \ Unread(recordKind, rec))
                        /\ rec.approval = "approved" /\ rec.type = "evidence"
        BY DEF ReviewedIsFilledIn
    <2>1. rec.type \in RECORD_TYPES
        BY DEF RecordsInv, RecordsTypeOK, RecordType
    <2> QED  BY <2>1, ReviewAsksFields DEF AcceptedRecord, RECORD_TYPES
<1>2. AdaptersAgree
    BY DEF AdaptersAgree, AcceptedRecord, AcceptsRecord, Randomizer_document, Randomizer_alignment,
           Randomizer_environment, Final
<1>3. SignatureIsOfThePayload
    BY DEF SignatureIsOfThePayload, AcceptedRecord, AcceptsRecord, Signing_document,
           Signing_payload,
           Signing_identity
<1>4. RecordsInv => AcceptedRecordsAreSound
    BY <1>1, <1>2, <1>3, NoCurrentPin DEF AcceptedRecordsAreSound
<1> QED  BY <1>4, RecordsAlways, PTL
==============================================================================
