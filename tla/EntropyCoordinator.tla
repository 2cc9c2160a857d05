-------------------------- MODULE EntropyCoordinator --------------------------
(***************************************************************************)
(* StreamEntropyCoordinator: one random draw per token or scope.  A        *)
(* collection's policy (provider, salt, timeout) locks when its first      *)
(* subject registers; a subject is requested once; the request ends        *)
(* FINALIZED, STALE or FAILED and is never drawn again.                    *)
(*                                                                         *)
(* The module has one operator per external function, over the             *)
(* coordinator's own state.  What a function learns from another contract  *)
(* (a provider's request id or result status, whether Core's refresh event *)
(* went out) is a parameter; module Entropy supplies it.  A hash of named  *)
(* inputs is the record of those inputs.  A revert is the absence of a     *)
(* step.                                                                   *)
(***************************************************************************)
EXTENDS Integers, FiniteSums

CONSTANTS
    Tokens, Scopes,      \* the two kinds of subject
    Collections,
    CollectionOf,        \* subject -> collection
    Providers,           \* entropy provider adapters
    NoProvider,
    Authority, Requesters,
    Inputs, NoInputs,    \* mint commitments and scope input hashes; the zero hash
    Salts, Timeouts,
    Ids,                 \* provider request ids
    Words,               \* random words an oracle can return
    NoKey, NoRaw, NoSeed,
    Fee,                 \* provider -> quoteRequest
    MaxValue             \* bound: wei sent with a request

Subjects == Tokens \cup Scopes
Callers == Requesters \cup {Authority}
NoId == 0

ASSUME SubjectAssumption == Tokens \cap Scopes = {} /\ CollectionOf \in [Subjects -> Collections]
ASSUME FiniteAssumption == IsFiniteSet(Tokens) /\ IsFiniteSet(Scopes) /\ IsFiniteSet(Callers)
ASSUME ProviderAssumption == NoProvider \notin Providers
ASSUME HashAssumption == NoInputs \notin Inputs
ASSUME NumberAssumption ==
    /\ Ids \subseteq Nat \ {0} /\ Timeouts \subseteq Nat \ {0}
    /\ Fee \in [Providers -> Nat] /\ MaxValue \in Nat

\* The two preimages of a request key: a scope's key also binds its inputs.
Keys == [subject : Subjects, provider : Providers, inputs : Inputs \cup {NoInputs}]
RawRandomness == [key : Keys, id : Ids, words : Words]
Seeds == [key : Keys, id : Ids, raw : RawRandomness, salt : Salts, inputs : Inputs]

ASSUME KeyAssumption == NoKey \notin Keys /\ NoRaw \notin RawRandomness /\ NoSeed \notin Seeds

VARIABLES
    config,                       \* collectionEntropyConfig
    requesters, providerRevoked,
    subjects,                     \* _subjects
    requests,
    providerRequestKeys,
    entropyFeeCredit, totalFeeCredits,
    balance,                      \* address(this).balance
    pendingRequestCount,
    metadataNotificationPending

roles == <<requesters, providerRevoked>>
fees == <<entropyFeeCredit, totalFeeCredits, balance>>
draws == <<subjects, requests, providerRequestKeys, pendingRequestCount,
           metadataNotificationPending>>
coordinatorVars == <<config, roles, fees, draws>>

-------------------------------------------------------------------------------
Statuses == {"NONE", "REGISTERED", "REQUESTED", "FINALIZED", "STALE", "FAILED"}
Terminal == {"FINALIZED", "STALE", "FAILED"}

ConfigType ==
    [provider : Providers \cup {NoProvider}, publicRequests : BOOLEAN, locked : BOOLEAN,
     timeoutBlocks : Timeouts \cup {0}, salt : Salts \cup {NoInputs}]
SubjectType ==
    [status : Statuses, inputs : Inputs \cup {NoInputs}, requestKey : Keys \cup {NoKey},
     seed : Seeds \cup {NoSeed}]
RequestType ==
    [provider : Providers \cup {NoProvider}, requestedAtBlock : Nat, id : Ids \cup {NoId},
     raw : RawRandomness \cup {NoRaw}]

NoConfig == [provider |-> NoProvider, publicRequests |-> FALSE, locked |-> FALSE,
             timeoutBlocks |-> 0, salt |-> NoInputs]
NoSubject == [status |-> "NONE", inputs |-> NoInputs, requestKey |-> NoKey, seed |-> NoSeed]
NoRequest == [provider |-> NoProvider, requestedAtBlock |-> 0, id |-> NoId, raw |-> NoRaw]

\* The writes to a subject's record, one per step of its life.
Registered(subject, inputs) == [subject EXCEPT !.inputs = inputs, !.status = "REGISTERED"]
Requested(subject, inputs, key) ==
    [subject EXCEPT !.inputs = inputs, !.requestKey = key, !.status = "REQUESTED"]
Finalized(subject, seed) == [subject EXCEPT !.seed = seed, !.status = "FINALIZED"]
Ended(subject, status) == [subject EXCEPT !.status = status]
NewRequest(provider, block, id) ==
    [provider |-> provider, requestedAtBlock |-> block, id |-> id, raw |-> NoRaw]
WithRaw(request, raw) == [request EXCEPT !.raw = raw]

CoordinatorTypeOK ==
    /\ config \in [Collections -> ConfigType]
    /\ requesters \in SUBSET Requesters /\ providerRevoked \in SUBSET Providers
    /\ subjects \in [Subjects -> SubjectType]
    /\ requests \in [Keys -> RequestType]
    /\ providerRequestKeys \in [Providers -> [Ids -> Keys \cup {NoKey}]]
    /\ entropyFeeCredit \in [Callers -> Nat]
    /\ totalFeeCredits \in Int /\ balance \in Int /\ pendingRequestCount \in Int
    /\ metadataNotificationPending \in SUBSET Tokens

CoordinatorInit ==
    /\ config = [c \in Collections |-> NoConfig]
    /\ requesters = {} /\ providerRevoked = {}
    /\ subjects = [s \in Subjects |-> NoSubject]
    /\ requests = [k \in Keys |-> NoRequest]
    /\ providerRequestKeys = [p \in Providers |-> [i \in Ids |-> NoKey]]
    /\ entropyFeeCredit = [a \in Callers |-> 0]
    /\ totalFeeCredits = 0 /\ balance = 0 /\ pendingRequestCount = 0
    /\ metadataNotificationPending = {}

ConfigOf(s) == config[CollectionOf[s]]

-------------------------------------------------------------------------------
(* Policy and roles, all restricted to the authority.                      *)

\* Mutant: a locked policy can be replaced.
PolicyOpen_EvenLocked(c, frozen) == ~frozen

PolicyOpen(c, frozen) == ~config[c].locked /\ ~frozen

Policy(provider, salt, publicRequests, timeoutBlocks) ==
    [provider |-> provider, publicRequests |-> publicRequests, locked |-> FALSE,
     timeoutBlocks |-> timeoutBlocks, salt |-> salt]

configureCollection(c, provider, salt, publicRequests, timeoutBlocks, frozen) ==
    /\ PolicyOpen(c, frozen)
    /\ config' = [config EXCEPT ![c] = Policy(provider, salt, publicRequests, timeoutBlocks)]
    /\ UNCHANGED <<roles, fees, draws>>

setRequester(requester, allowed) ==
    /\ requesters' = IF allowed THEN requesters \cup {requester} ELSE requesters \ {requester}
    /\ UNCHANGED <<config, providerRevoked, fees, draws>>

setProviderRevoked(provider, revoked) ==
    /\ providerRevoked' = IF revoked THEN providerRevoked \cup {provider}
                                     ELSE providerRevoked \ {provider}
    /\ UNCHANGED <<config, requesters, fees, draws>>

-------------------------------------------------------------------------------
(* Registration locks the policy.                                          *)

Locked(policy) == [policy EXCEPT !.locked = TRUE]

lockPolicy(c) ==
    /\ config[c].provider # NoProvider
    /\ config' = [config EXCEPT ![c] = Locked(@)]

\* Core's mint hook; the caller supplies that t exists and is not burned.
onTokenMinted(t, mintCommitment) ==
    /\ subjects[t].status = "NONE"
    /\ lockPolicy(CollectionOf[t])
    /\ subjects' = [subjects EXCEPT ![t] = Registered(@, mintCommitment)]
    /\ UNCHANGED <<roles, fees, requests, providerRequestKeys, pendingRequestCount,
                   metadataNotificationPending>>

IsRequester(caller) == caller = Authority \/ caller \in requesters

registerEntropyScope(caller, s) ==
    /\ IsRequester(caller)
    /\ subjects[s].status = "NONE"
    /\ lockPolicy(CollectionOf[s])
    /\ subjects' = [subjects EXCEPT ![s] = Registered(@, @.inputs)]
    /\ UNCHANGED <<roles, fees, requests, providerRequestKeys, pendingRequestCount,
                   metadataNotificationPending>>

-------------------------------------------------------------------------------
(* Requesting.                                                             *)

requestKey(s, inputs) ==
    [subject |-> s, provider |-> ConfigOf(s).provider,
     inputs |-> IF s \in Tokens THEN NoInputs ELSE inputs]

\* Mutant: a terminal subject may be drawn again.
Requestable_Reroll(s) == subjects[s].status \in {"REGISTERED", "STALE", "FAILED"}

Requestable(s) == subjects[s].status = "REGISTERED"

Excess(value, fee) == value - fee

\* _request, with inputs as the subject's inputs: the provider answers with request id.
request(caller, s, inputs, value, block, id) ==
    LET provider == ConfigOf(s).provider
        key == requestKey(s, inputs)
        fee == Fee[provider]
    IN  /\ Requestable(s)
        /\ provider \notin providerRevoked
        /\ value >= fee
        /\ subjects' = [subjects EXCEPT ![s] = Requested(@, inputs, key)]
        /\ pendingRequestCount' = pendingRequestCount + 1
        /\ entropyFeeCredit' = [entropyFeeCredit EXCEPT ![caller] = @ + Excess(value, fee)]
        /\ totalFeeCredits' = totalFeeCredits + Excess(value, fee)
        /\ balance' = balance + value - fee
        /\ providerRequestKeys[provider][id] = NoKey
        /\ providerRequestKeys' = [providerRequestKeys EXCEPT ![provider] = [@ EXCEPT ![id] = key]]
        /\ requests' = [requests EXCEPT ![key] = NewRequest(provider, block, id)]
        /\ UNCHANGED <<config, roles, metadataNotificationPending>>

requestEntropy(caller, t, value, block, id) ==
    /\ IsRequester(caller) \/ ConfigOf(t).publicRequests
    /\ request(caller, t, subjects[t].inputs, value, block, id)

requestScopeEntropy(caller, s, scopeInputsHash, value, block, id) ==
    /\ IsRequester(caller)
    /\ request(caller, s, scopeInputsHash, value, block, id)

-------------------------------------------------------------------------------
(* Ending a request.                                                       *)

\* _notify: Core's refresh event goes out, or the debt is recorded.
notify(s, sent) ==
    metadataNotificationPending' =
        IF s \in Scopes THEN metadataNotificationPending
        ELSE IF sent THEN metadataNotificationPending \ {s}
        ELSE metadataNotificationPending \cup {s}

deriveSeed(key, raw) ==
    [key |-> key, id |-> requests[key].id, raw |-> raw, salt |-> ConfigOf(key.subject).salt,
     inputs |-> subjects[key.subject].inputs]

fulfillOutcome(provider, key) ==
    LET subject == subjects[key.subject]
    IN  IF requests[key].provider = NoProvider THEN 4
        ELSE IF subject.status = "FINALIZED" THEN 3
        ELSE IF provider \in providerRevoked THEN 5
        ELSE IF subject.status = "STALE" THEN 1
        ELSE IF subject.status # "REQUESTED" \/ subject.requestKey # key THEN 2
        ELSE 0

\* The caller returns outcome; a rejection only logs.
fulfillEntropy(provider, key, raw, sent, outcome) ==
    /\ requests[key].provider \in {NoProvider, provider}
    /\ outcome = fulfillOutcome(provider, key)
    /\ IF outcome # 0 THEN UNCHANGED coordinatorVars
       ELSE /\ subjects' = [subjects EXCEPT ![key.subject] = Finalized(@, deriveSeed(key, raw))]
            /\ requests' = [requests EXCEPT ![key] = WithRaw(@, raw)]
            /\ pendingRequestCount' = pendingRequestCount - 1
            /\ notify(key.subject, sent)
            /\ UNCHANGED <<config, roles, fees, providerRequestKeys>>

\* Mutant: the pending count is not decremented.
terminate_KeepsCount(key, status, sent) ==
    /\ subjects' = [subjects EXCEPT ![key.subject] = Ended(@, status)]
    /\ notify(key.subject, sent)
    /\ UNCHANGED <<config, roles, fees, requests, providerRequestKeys, pendingRequestCount>>

\* _terminal
terminate(key, status, sent) ==
    /\ subjects' = [subjects EXCEPT ![key.subject] = Ended(@, status)]
    /\ pendingRequestCount' = pendingRequestCount - 1
    /\ notify(key.subject, sent)
    /\ UNCHANGED <<config, roles, fees, requests, providerRequestKeys>>

\* An unknown key reads the zero subject, whose status is NONE.
Pending(key) == requests[key].provider # NoProvider /\ subjects[key.subject].status = "REQUESTED"

Expired(key, block) ==
    block > requests[key].requestedAtBlock + ConfigOf(key.subject).timeoutBlocks

markRequestStale(key, block, boundKey, received, sent) ==
    /\ Pending(key)
    /\ Expired(key, block)
    /\ boundKey = key /\ ~received
    /\ terminate(key, "STALE", sent)

markRequestFailed(key, status, boundKey, received, sent) ==
    /\ Pending(key)
    /\ boundKey = key /\ ~received /\ status = "TERMINAL_FAILED"
    /\ terminate(key, "FAILED", sent)

retryMetadataNotification(t, sent) ==
    /\ t \in metadataNotificationPending
    /\ subjects[t].status \in Terminal
    /\ notify(t, sent)
    /\ UNCHANGED <<config, roles, fees, subjects, requests, providerRequestKeys,
                   pendingRequestCount>>

claimEntropyFeeCredit(caller) ==
    /\ entropyFeeCredit' = [entropyFeeCredit EXCEPT ![caller] = 0]
    /\ totalFeeCredits' = totalFeeCredits - entropyFeeCredit[caller]
    /\ balance' = balance - entropyFeeCredit[caller]
    /\ UNCHANGED <<config, roles, draws>>
===============================================================================
