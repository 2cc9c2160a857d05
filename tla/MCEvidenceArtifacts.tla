------------------------ MODULE MCEvidenceArtifacts ------------------------
EXTENDS EvidenceArtifacts

MCKinds == KindNames

(* Two contracts; one content per way a retained file can differ. *)
Content(state, chain, core, house, sound, release, secret) ==
    [state |-> state, chain |-> chain, addr |-> [core |-> core, house |-> house],
     sound |-> sound, release |-> release, secret |-> secret]

MCContents ==
    {Content("absent", "none", "none", "none", FALSE, "r1", FALSE),
     Content("file", "1", "a1", "a2", TRUE, "r1", FALSE),
     Content("link", "1", "a1", "a2", TRUE, "r1", FALSE),
     Content("file", "11155111", "a1", "a2", TRUE, "r1", FALSE),
     Content("file", "1", "a1", "a3", TRUE, "r1", FALSE),
     Content("file", "11155111", "a1", "a3", TRUE, "r1", FALSE),
     Content("file", "1", "a1", "none", TRUE, "r1", FALSE),
     Content("file", "1", "a1", "a1", TRUE, "r1", FALSE),
     Content("file", "1", "a1", "a2", FALSE, "r1", FALSE),
     Content("file", "1", "a1", "a2", TRUE, "r2", FALSE),
     Content("file", "1", "a1", "a2", TRUE, "r1", TRUE)}

(* Per path its own failure mode or another one, and every ending. *)
RandomnessContexts ==
    {c \in [path : {"pending_timeout", "invalid_callback", "post_processing_failed"},
            mode : {"pending_too_long", "wrong_token", "core_rejected_seed"},
            start : {"Pending"}, meta0 : {"pending"},
            end : {"Pending", "Stale", "FailedPostProcessing", "Fulfilled"},
            meta1 : {"pending", "stale", "final"}, seed : {TRUE}] :
        c.meta1 \in {ENDING_METADATA_STATE_BY_REQUEST_STATE[c.end], "final"}}
    \cup [path : {"post_processing_failed"}, mode : {"core_rejected_seed"},
          start : {"Pending", "Stale"}, meta0 : {"pending", "final"},
          end : {"Fulfilled"}, meta1 : {"final"}, seed : BOOLEAN]

MetadataContexts ==
    [surface : {"token_uri", "dependency_pin"},
     mode : {"invalid_json", "frozen_repin_attempt"},
     frozen : BOOLEAN, freezeHash : {TRUE}, keyAndHash : {TRUE},
     fromVersion : {1}, toVersion : {1, 2},
     recovery : {"fix_forward_metadata", "fix_forward_dependency", "no_contract_change"}]
    \cup [surface : {"dependency_pin"}, mode : {"dependency_pin_bad"}, frozen : BOOLEAN,
          freezeHash : BOOLEAN, keyAndHash : BOOLEAN, fromVersion : {1}, toVersion : {1, 2},
          recovery : {"fix_forward_dependency"}]

AuctionContexts ==
    {c \in [path : {"with_bid", "no_bid", "cancelled_no_bid"},
            stuck : {"no_bid_pending", "indexer_stale"},
            end : {"SettledWithBid", "SettledNoBid", "Cancelled", "EndedNoBid"},
            bid : 0..1, bidder : BOOLEAN] : c.bidder => c.bid > 0}

MCContexts ==
    [k \in MCKinds |->
        CASE k = "marketplace" -> [requirement : {"public_beta", "production"}]
          [] k = "incident_drill" -> {[coverage |-> DRILL_IDS],
                                      [coverage |-> DRILL_IDS \ {"stuck_auction"}],
                                      [coverage |-> DRILL_IDS \cup {"other"}]}
          [] k = "failed_randomness" -> RandomnessContexts
          [] k = "bad_metadata" -> MetadataContexts
          [] k = "stuck_auction" -> AuctionContexts
          [] k = "signer_compromise" -> [replaced : BOOLEAN, fromEpoch : {1}, toEpoch : 0..2,
                                         domainChain : {"1", "11155111"}]
          [] k = "production_signing" -> [release : {"r1"}]
          [] OTHER -> {[none |-> TRUE]}]

MCTargets ==
    LET target(env, chain) == [env |-> env, chain |-> chain]
        forkTargets == {target("fork", "1"), target("testnet", "11155111")}
    IN [k \in MCKinds |->
          CASE k = "marketplace" -> {target("testnet", "11155111"), target("live", "1")}
            [] k \in {"fork_browser", "fork_ceremony", "fork_randomizer"} -> forkTargets
            [] k \in {"incident_drill", "failed_randomness", "bad_metadata", "stuck_auction",
                      "signer_compromise", "fork_rehearsal"} -> {target("fork", "1")}
            [] k \in {"public_beta_addresses", "testnet_rehearsal"} ->
                  {target("testnet", "11155111")}
            [] k \in {"external_audit", "post_audit"} -> {target("audit", "none")}
            [] k = "production_signing" -> {target("release_signing", "1")}
            [] OTHER -> {target("live", "1")}]
=============================================================================
