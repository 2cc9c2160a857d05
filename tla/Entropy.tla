-------------------------------- MODULE Entropy --------------------------------
(***************************************************************************)
(* The entropy domain: the coordinator, its VRF adapters, and what they    *)
(* meet.  Core mints, burns and freezes and emits refresh events; the      *)
(* oracle answers at any time, in any order, or never; a delivery or a     *)
(* refresh can run out of gas; anybody may retry; the authority may revoke *)
(* a provider and restore it.  Adapters other than the VRF one are unknown *)
(* code: asked for a result they answer anything, another answer each time,*)
(* and they may call back with anything at any time.                       *)
(***************************************************************************)
EXTENDS EntropyCoordinator

CONSTANTS
    VRFProviders,        \* the providers that are StreamEntropyProviderVRF deployments
    PublicChoices,       \* the values of publicRequests the authority chooses from
    MaxBlock,            \* bound: block.number
    MaxForced            \* bound: ether forced into the coordinator

ASSUME CompositionAssumption ==
    /\ VRFProviders \subseteq Providers /\ \A p \in VRFProviders : Fee[p] = 0
    /\ PublicChoices \subseteq BOOLEAN
    /\ MaxBlock \in Nat /\ MaxForced \in Nat

OtherProviders == Providers \ VRFProviders

VARIABLES
    results, keyToVrfRequest,    \* the VRF adapters
    forced,                      \* history: ether forced into the coordinator
    block, lifecycle, frozen,    \* block.number, Core's tokens, Core's frozen collections
    refreshes                    \* token -> refresh events Core emitted for the coordinator

INSTANCE EntropyProviderVRF WITH Adapters <- VRFProviders, RequestKeys <- Keys,
    RequestIds <- Ids, NoRequestKey <- NoKey, OracleWords <- Words, NoAnswer <- NoRaw

adapters == <<results, keyToVrfRequest>>
env == <<forced, block, lifecycle, frozen>>
vars == <<coordinatorVars, adapters, env, refreshes>>

TypeOK ==
    /\ CoordinatorTypeOK
    /\ ProviderTypeOK
    /\ forced \in Nat
    /\ block \in Nat
    /\ lifecycle \in [Tokens -> {"none", "minted", "burned"}]
    /\ frozen \in SUBSET Collections
    /\ refreshes \in [Tokens -> Nat]

Init ==
    /\ CoordinatorInit /\ ProviderInit
    /\ forced = 0 /\ block = 0
    /\ lifecycle = [t \in Tokens |-> "none"] /\ frozen = {}
    /\ refreshes = [t \in Tokens |-> 0]

-------------------------------------------------------------------------------
(* Core and the chain.  Core's mint, burn and freeze are reduced to what   *)
(* the coordinator sees of them, without Core's own conditions: the        *)
(* coordinator is checked against more behaviours than Core has.           *)

Tick ==
    /\ block < MaxBlock
    /\ block' = block + 1
    /\ UNCHANGED <<coordinatorVars, adapters, forced, lifecycle, frozen, refreshes>>

\* External: a contract that destroys itself leaves its ether to the coordinator.
ForceEther ==
    /\ forced < MaxForced
    /\ forced' = forced + 1 /\ balance' = balance + 1
    /\ UNCHANGED <<config, roles, entropyFeeCredit, totalFeeCredits, draws, adapters, block,
                   lifecycle, frozen, refreshes>>

Mint(t, mintCommitment) ==
    /\ lifecycle[t] = "none" /\ CollectionOf[t] \notin frozen
    /\ onTokenMinted(t, mintCommitment)
    /\ lifecycle' = [lifecycle EXCEPT ![t] = "minted"]
    /\ UNCHANGED <<adapters, forced, block, frozen, refreshes>>

Burn(t) ==
    /\ lifecycle[t] = "minted"
    /\ lifecycle' = [lifecycle EXCEPT ![t] = "burned"]
    /\ UNCHANGED <<coordinatorVars, adapters, forced, block, frozen, refreshes>>

Freeze(c) ==
    /\ c \notin frozen
    /\ frozen' = frozen \cup {c}
    /\ UNCHANGED <<coordinatorVars, adapters, forced, block, lifecycle, refreshes>>

\* emitMetadataUpdate succeeds for minted and burned tokens alike.
Refresh(s, sent) ==
    refreshes' = IF s \in Tokens /\ sent THEN [refreshes EXCEPT ![s] = @ + 1] ELSE refreshes

-------------------------------------------------------------------------------
(* The authority, requesters and the public.                               *)

Configure(c, p, salt, publicRequests, timeoutBlocks) ==
    /\ configureCollection(c, p, salt, publicRequests, timeoutBlocks, c \in frozen)
    /\ UNCHANGED <<adapters, env, refreshes>>

SetRequester(r) ==
    /\ setRequester(r, r \notin requesters)
    /\ UNCHANGED <<adapters, env, refreshes>>

SetRevoked(p) ==
    /\ setProviderRevoked(p, p \notin providerRevoked)
    /\ UNCHANGED <<adapters, env, refreshes>>

RegisterScope(caller, s) ==
    /\ registerEntropyScope(caller, s)
    /\ UNCHANGED <<adapters, env, refreshes>>

\* A VRF adapter records the request; another adapter just returns an id.
ProviderAccepts(p, key, id) ==
    IF p \in VRFProviders THEN providerRequest(p, key, id) ELSE UNCHANGED adapters

RequestToken(caller, t, value, id) ==
    /\ lifecycle[t] = "minted"
    /\ requestEntropy(caller, t, value, block, id)
    /\ ProviderAccepts(ConfigOf(t).provider, requestKey(t, NoInputs), id)
    /\ UNCHANGED <<env, refreshes>>

RequestScope(caller, s, scopeInputsHash, value, id) ==
    /\ requestScopeEntropy(caller, s, scopeInputsHash, value, block, id)
    /\ ProviderAccepts(ConfigOf(s).provider, requestKey(s, scopeInputsHash), id)
    /\ UNCHANGED <<env, refreshes>>

\* What providerResultStatus(id) can answer: a VRF adapter reads its record, nothing
\* binds the answer of another adapter.
ProviderResults == [boundKey : Keys \cup {NoKey}, received : BOOLEAN, status : ResultStatuses]
providerResultStatus(p, id) ==
    IF p \in VRFProviders
    THEN {[boundKey |-> results[p][id].requestKey, received |-> Received(p, id),
           status |-> results[p][id].status]}
    ELSE ProviderResults

MarkStale(s, sent) ==
    LET key == subjects[s].requestKey
    IN  /\ subjects[s].status = "REQUESTED"
        /\ \E answer \in providerResultStatus(key.provider, requests[key].id) :
             markRequestStale(key, block, answer.boundKey, answer.received, sent)
        /\ Refresh(s, sent)
        /\ UNCHANGED <<adapters, env>>

MarkFailed(s, sent) ==
    LET key == subjects[s].requestKey
    IN  /\ subjects[s].status = "REQUESTED"
        /\ \E answer \in providerResultStatus(key.provider, requests[key].id) :
             markRequestFailed(key, answer.status, answer.boundKey, answer.received, sent)
        /\ Refresh(s, sent)
        /\ UNCHANGED <<adapters, env>>

RetryNotification(t, sent) ==
    /\ retryMetadataNotification(t, sent)
    /\ Refresh(t, sent)
    /\ UNCHANGED <<adapters, env>>

ClaimFeeCredit(caller) ==
    /\ entropyFeeCredit[caller] > 0
    /\ claimEntropyFeeCredit(caller)
    /\ UNCHANGED <<adapters, env, refreshes>>

-------------------------------------------------------------------------------
(* Providers.                                                              *)

\* The coordinator's end of a delivery that reached it.
Deliver(p, key, raw, sent, outcome) ==
    /\ fulfillEntropy(p, key, raw, sent, outcome)
    /\ IF outcome = 0 THEN Refresh(key.subject, sent) ELSE UNCHANGED refreshes

OracleCallback(p, id, words, delivered, sent) ==
    LET key == results[p][id].requestKey
        outcome == fulfillOutcome(p, key)
    IN  /\ AcceptsCallback(p, id)
        /\ fulfillRandomWords(p, id, words, delivered, outcome)
        /\ IF delivered THEN Deliver(p, key, RawOf(key, id, words), sent, outcome)
           ELSE UNCHANGED <<coordinatorVars, refreshes>>
        /\ UNCHANGED env

RetryDelivery(p, id, sent) ==
    LET key == results[p][id].requestKey
        outcome == fulfillOutcome(p, key)
    IN  /\ results[p][id].status = "RAW_RANDOMNESS_RECEIVED"
        /\ retryCoordinatorFulfillment(p, id, TRUE, outcome)
        /\ Deliver(p, key, results[p][id].raw, sent, outcome)
        /\ UNCHANGED env

\* External: an unknown adapter calls fulfillEntropy for a key of its own.
OtherFulfils(p, id, words, sent) ==
    LET key == providerRequestKeys[p][id]
    IN  /\ key # NoKey
        /\ Deliver(p, key, RawOf(key, id, words), sent, fulfillOutcome(p, key))
        /\ UNCHANGED <<adapters, env>>

-------------------------------------------------------------------------------
Next ==
    \/ Tick
    \/ ForceEther
    \/ \E t \in Tokens : \/ Burn(t)
                         \/ \E i \in Inputs : Mint(t, i)
                         \/ \E sent \in BOOLEAN : RetryNotification(t, sent)
    \/ \E c \in Collections :
        \/ Freeze(c)
        \/ \E p \in Providers, salt \in Salts, b \in PublicChoices, n \in Timeouts :
             Configure(c, p, salt, b, n)
    \/ \E r \in Requesters : SetRequester(r)
    \/ \E p \in Providers : SetRevoked(p)
    \/ \E caller \in Callers :
        \/ ClaimFeeCredit(caller)
        \/ \E s \in Scopes : RegisterScope(caller, s)
        \/ \E value \in 0 .. MaxValue, id \in Ids :
             \/ \E t \in Tokens : RequestToken(caller, t, value, id)
             \/ \E s \in Scopes, i \in Inputs : RequestScope(caller, s, i, value, id)
    \/ \E s \in Subjects, sent \in BOOLEAN : MarkStale(s, sent) \/ MarkFailed(s, sent)
    \/ \E p \in VRFProviders, id \in Ids, sent \in BOOLEAN :
        \/ RetryDelivery(p, id, sent)
        \/ \E words \in Words, delivered \in BOOLEAN :
             OracleCallback(p, id, words, delivered, sent)
    \/ \E p \in OtherProviders, id \in Ids :
        \E words \in Words, sent \in BOOLEAN : OtherFulfils(p, id, words, sent)

Spec == Init /\ [][Next]_vars

\* The request of s waits for an adapter that answers from its record.
AsksVRF(s) ==
    IF subjects[s].status = "REQUESTED" THEN subjects[s].requestKey.provider \in VRFProviders
    ELSE FALSE

\* Blocks advance; retries are open to everybody and somebody sends them with
\* enough gas; the authority clears requests that expired unanswered.  The
\* oracle is not trusted to answer, and no fairness rests on what an unknown
\* adapter says: one that claims to hold an answer keeps its request open.
Fairness ==
    /\ WF_vars(Tick)
    /\ \A p \in VRFProviders, id \in Ids : WF_vars(\E sent \in BOOLEAN : RetryDelivery(p, id, sent))
    /\ \A t \in Tokens : WF_vars(RetryNotification(t, TRUE))
    /\ \A s \in Subjects :
         WF_vars(AsksVRF(s) /\ \E sent \in BOOLEAN : MarkStale(s, sent))

FairSpec == Spec /\ Fairness

-------------------------------------------------------------------------------
(* Properties.                                                             *)

\* pendingRequestCount is the number of subjects whose request has not ended:
\* every one of the five ways a request starts or ends keeps it exact.
PendingCountExact ==
    pendingRequestCount = Cardinality({s \in Subjects : subjects[s].status = "REQUESTED"})

\* A subject is requested once: among all requests ever sent, under whatever
\* provider, inputs and id, at most one is for the subject, it is the one the
\* subject still names, and one provider id stands for it.
OneRequestPerSubject ==
    /\ \A k \in Keys : requests[k].provider # NoProvider =>
        /\ subjects[k.subject].requestKey = k
        /\ providerRequestKeys[k.provider][requests[k].id] = k
    /\ \A p \in Providers, i \in Ids : providerRequestKeys[p][i] # NoKey =>
        requests[providerRequestKeys[p][i]].id = i

\* The coordinator and a VRF adapter agree on how a request ended: the adapter
\* says DELIVERED exactly for finalized subjects, the seed is made from the
\* answer the adapter stored, and TERMINAL_STALE only for requests given up.
AdapterAgrees ==
    \A p \in VRFProviders, i \in Ids : results[p][i].status # "UNKNOWN" =>
        LET result == results[p][i]
            subject == subjects[result.requestKey.subject]
        IN  /\ requests[result.requestKey].id = i
            /\ result.status = "DELIVERED" <=> subject.status = "FINALIZED"
            /\ result.status = "DELIVERED" => subject.seed.raw = result.raw
            /\ result.status = "TERMINAL_STALE" => subject.status = "STALE"

\* Core is told once, and only once, that a token's entropy ended: the refresh
\* event went out or is still owed, also after the token was burned.
RefreshedOnce ==
    \A t \in Tokens :
        refreshes[t] + (IF t \in metadataNotificationPending THEN 1 ELSE 0)
            = IF subjects[t].status \in Terminal THEN 1 ELSE 0

\* The ether in the coordinator is what it owes, payer by payer, and what was
\* forced into it: no fee, no excess and no claim is counted twice or lost.
FeeCreditsBacked ==
    /\ totalFeeCredits = SumOver(entropyFeeCredit, Callers)
    /\ balance = totalFeeCredits + forced

\* What the coordinator counts by hand is exact: open requests, refresh events sent
\* or owed, and ether credited to payers (terminate, retryMetadataNotification,
\* claimEntropyFeeCredit).
BooksExact == PendingCountExact /\ RefreshedOnce /\ FeeCreditsBacked

\* The refinement: what RandomDraw calls a subject's phase, commitment and answer.
Answered(s) ==
    LET key == subjects[s].requestKey
    IN  /\ key # NoKey /\ key.provider \in VRFProviders
        /\ Received(key.provider, requests[key].id)

DrawPhase(s) ==
    CASE subjects[s].status = "NONE" -> "none"
      [] subjects[s].status = "REGISTERED" -> "registered"
      [] subjects[s].status = "REQUESTED" -> IF Answered(s) THEN "answered" ELSE "committed"
      [] subjects[s].status = "FINALIZED" -> "final"
      [] OTHER -> "void"

DrawCommitment(s) ==
    LET subject == subjects[s]
    IN  IF subject.status \in {"NONE", "REGISTERED"} THEN NoSeed
        ELSE IF subject.status = "FINALIZED"
        THEN [key |-> subject.seed.key, id |-> subject.seed.id, salt |-> subject.seed.salt,
              inputs |-> subject.seed.inputs]
        ELSE [key |-> subject.requestKey, id |-> requests[subject.requestKey].id,
              salt |-> ConfigOf(s).salt, inputs |-> subject.inputs]

DrawAnswer(s) ==
    IF subjects[s].status = "FINALIZED" THEN subjects[s].seed.raw
    ELSE IF subjects[s].status = "REQUESTED" /\ Answered(s)
    THEN results[subjects[s].requestKey.provider][requests[subjects[s].requestKey].id].raw
    ELSE NoRaw

Commitments == [key : Keys, id : Ids, salt : Salts, inputs : Inputs]

Ideal == INSTANCE RandomDraw WITH
    Subject <- Subjects, Commitment <- Commitments, Answer <- RawRandomness,
    NoCommitment <- NoSeed, NoAnswer <- NoRaw,
    phase <- [s \in Subjects |-> DrawPhase(s)],
    commitment <- [s \in Subjects |-> DrawCommitment(s)],
    answer <- [s \in Subjects |-> DrawAnswer(s)]

\* Coordinator and adapters implement RandomDraw: whatever the order of
\* timeouts, late or repeated answers, failed deliveries, revocations and
\* policy changes, each subject is one draw whose commitments precede its
\* answer, and an answer that arrived is never dropped for a timeout.
DrawnOnce == Ideal!DrawSpec

HeldByRevoked(s) ==
    IF Answered(s) THEN subjects[s].requestKey.provider \in providerRevoked ELSE FALSE
Expirable(s) ==
    IF AsksVRF(s) THEN Expired(subjects[s].requestKey, MaxBlock) ELSE FALSE

\* A request to a VRF adapter ends, or its provider is revoked while it holds the
\* answer: an oracle that never answers is timed out, an answer whose delivery
\* failed is delivered by a retry, and no unknown adapter can keep it open.
\* (MaxBlock stops the clock: requests that would expire after it are left aside.)
RequestsEnd ==
    \A s \in Subjects :
        Expirable(s)
            ~> \/ subjects[s].status \in Terminal
               \/ HeldByRevoked(s)

===============================================================================
