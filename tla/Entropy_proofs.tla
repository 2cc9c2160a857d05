----------------------------- MODULE Entropy_proofs -----------------------------
(***************************************************************************)
(* Theorems about Entropy, for any number of tokens, scopes, collections,  *)
(* providers, ids, random words and blocks.                                *)
(*                                                                         *)
(* IInv, the inductive invariant, ties the five records of one request     *)
(* together: the subject names the request key, the key's request names    *)
(* provider and id, provider and id lead back to the key, in the           *)
(* coordinator and in the VRF adapter, and the policy the seed will be     *)
(* made from is locked.                                                    *)
(***************************************************************************)
EXTENDS Entropy, FiniteSums_proofs, TLAPS

Unasked == {"NONE", "REGISTERED"}

PolicyInv ==
    /\ \A c \in Collections : config[c].provider # NoProvider => config[c].salt \in Salts
    /\ \A s \in Subjects : subjects[s].status # "NONE" =>
        ConfigOf(s).locked /\ ConfigOf(s).provider # NoProvider

SubjectInv ==
    \A s \in Subjects :
        /\ subjects[s].status \in Unasked => subjects[s].requestKey = NoKey
        /\ subjects[s].status \notin Unasked =>
            /\ subjects[s].requestKey \in Keys
            /\ subjects[s].requestKey.subject = s
            /\ requests[subjects[s].requestKey].provider # NoProvider
            /\ subjects[s].inputs \in Inputs
        /\ s \in Tokens /\ subjects[s].status # "NONE" => subjects[s].inputs \in Inputs

RequestInv ==
    /\ \A k \in Keys : requests[k].provider # NoProvider =>
        /\ requests[k].provider = k.provider
        /\ requests[k].id \in Ids
        /\ subjects[k.subject].requestKey = k
        /\ providerRequestKeys[k.provider][requests[k].id] = k
    /\ \A p \in Providers, i \in Ids : providerRequestKeys[p][i] # NoKey =>
        /\ requests[providerRequestKeys[p][i]].provider = p
        /\ requests[providerRequestKeys[p][i]].id = i

\* How far the adapter's record of a request and the subject may be apart.
Ends(result, subject) ==
    /\ result.status \in {"REQUESTED", "RAW_RANDOMNESS_RECEIVED"} =>
        subject.status \in {"REQUESTED", "STALE"}
    /\ result.status = "DELIVERED" => subject.status = "FINALIZED" /\ subject.seed.raw = result.raw
    /\ result.status = "TERMINAL_STALE" => subject.status = "STALE"
    /\ result.status \in {"RAW_RANDOMNESS_RECEIVED", "DELIVERED", "TERMINAL_STALE"} =>
        result.raw \in RawRandomness

AdapterInv ==
    \A p \in VRFProviders, i \in Ids :
        /\ results[p][i].status # "TERMINAL_FAILED"
        /\ results[p][i].requestKey = providerRequestKeys[p][i]
        /\ results[p][i].status = "UNKNOWN" <=> results[p][i].requestKey = NoKey
        /\ results[p][i].status # "UNKNOWN" =>
            Ends(results[p][i], subjects[results[p][i].requestKey.subject])

SeedInv ==
    \A s \in Subjects : subjects[s].status = "FINALIZED" =>
        /\ subjects[s].seed \in Seeds
        /\ subjects[s].seed.key = subjects[s].requestKey
        /\ subjects[s].seed.id = requests[subjects[s].requestKey].id
        /\ subjects[s].seed.salt = ConfigOf(s).salt
        /\ subjects[s].seed.inputs = subjects[s].inputs

IInv == TypeOK /\ PolicyInv /\ SubjectInv /\ RequestInv /\ AdapterInv /\ SeedInv
-------------------------------------------------------------------------------
(* The records, field by field.                                            *)

\* A request key is made of its subject, provider and inputs.
LEMMA KeyFields ==
    ASSUME NEW k \in Keys
    PROVE  k.subject \in Subjects /\ k.provider \in Providers /\ k # NoKey
BY KeyAssumption DEF Keys

\* The writes to a policy change the fields they name and no other,
LEMMA PolicyWrites ==
    ASSUME NEW p \in Providers, NEW salt \in Salts, NEW b \in BOOLEAN,
           NEW n \in Timeouts
    PROVE  /\ Policy(p, salt, b, n) \in ConfigType
           /\ Policy(p, salt, b, n).provider = p /\ Policy(p, salt, b, n).salt = salt
BY DEF ConfigType, Policy

\* _lockPolicy sets the lock of a policy and keeps what requests read from it.
LEMMA LockedFields ==
    ASSUME NEW x \in ConfigType
    PROVE  /\ Locked(x) \in ConfigType
           /\ Locked(x).provider = x.provider /\ Locked(x).salt = x.salt /\ Locked(x).locked
BY DEF ConfigType, Locked

\* and so do the writes to an adapter's result.
LEMMA AskedFields ==
    ASSUME NEW x \in ResultType, NEW k \in Keys
    PROVE  /\ Asked(x, k) \in ResultType
           /\ Asked(x, k).status = "REQUESTED" /\ Asked(x, k).requestKey = k
BY DEF ResultType, ResultStatuses, Asked

\* An oracle answer and its delivery write the raw word and the status and keep the request key.
LEMMA RepliedFields ==
    ASSUME NEW x \in ResultType, NEW r \in RawRandomness, NEW st \in ResultStatuses
    PROVE  /\ Replied(x, r, st) \in ResultType
           /\ Replied(x, r, st).status = st /\ Replied(x, r, st).raw = r
           /\ Replied(x, r, st).requestKey = x.requestKey
BY DEF ResultType, ResultStatuses, Replied, Answers, RawRandomness

\* The key _request computes, under a policy that names a provider.
LEMMA RequestKeyFields ==
    ASSUME NEW s \in Subjects, NEW i \in Inputs \cup {NoInputs}, ConfigOf(s).provider \in Providers
    PROVE  /\ requestKey(s, i) \in Keys
           /\ requestKey(s, i).subject = s
           /\ requestKey(s, i).provider = ConfigOf(s).provider
BY DEF requestKey, Keys

-------------------------------------------------------------------------------
(* Init.                                                                   *)

\* The invariant holds of freshly deployed contracts.
LEMMA InitIInv == Init => IInv
<1> SUFFICES ASSUME Init PROVE IInv
    OBVIOUS
<1> USE DEF Init, CoordinatorInit, ProviderInit
<1>1. NoConfig \in ConfigType /\ NoConfig.provider = NoProvider
    BY DEF NoConfig, ConfigType
<1>2. NoSubject \in SubjectType /\ NoSubject.status = "NONE" /\ NoSubject.requestKey = NoKey
    BY DEF NoSubject, SubjectType, Statuses
<1>3. NoRequest \in RequestType /\ NoRequest.provider = NoProvider
    BY DEF NoRequest, RequestType
<1>4. UnknownResult \in ResultType /\ UnknownResult.status = "UNKNOWN"
      /\ UnknownResult.requestKey = NoKey
    BY DEF UnknownResult, ResultType, ResultStatuses
<1>5. TypeOK
    <2>1. CoordinatorTypeOK
        BY <1>1, <1>2, <1>3 DEF CoordinatorTypeOK
    <2>2. ProviderTypeOK
        BY <1>4 DEF ProviderTypeOK
    <2> QED  BY <2>1, <2>2 DEF TypeOK
<1>6. PolicyInv
    BY <1>1, <1>2 DEF PolicyInv
<1>7. SubjectInv
    BY <1>2 DEF SubjectInv, Unasked
<1>8. RequestInv
    BY <1>3 DEF RequestInv
<1>9. AdapterInv
    BY <1>4, CompositionAssumption DEF AdapterInv
<1>10. SeedInv
    BY <1>2 DEF SeedInv
<1> QED  BY <1>5, <1>6, <1>7, <1>8, <1>9, <1>10 DEF IInv

-------------------------------------------------------------------------------
(* Steps.  RInv is the part of IInv about the records of requests;         *)
(* MiscTypeOK types the rest of the state.                                 *)

MiscTypeOK ==
    /\ requesters \in SUBSET Requesters /\ providerRevoked \in SUBSET Providers
    /\ entropyFeeCredit \in [Callers -> Nat]
    /\ totalFeeCredits \in Int /\ balance \in Int /\ pendingRequestCount \in Int
    /\ metadataNotificationPending \in SUBSET Tokens
    /\ keyToVrfRequest \in [VRFProviders -> [Keys -> Ids \cup {0}]]
    /\ forced \in Nat
    /\ block \in Nat
    /\ lifecycle \in [Tokens -> {"none", "minted", "burned"}]
    /\ frozen \in SUBSET Collections
    /\ refreshes \in [Tokens -> Nat]

RecordTypeOK ==
    /\ config \in [Collections -> ConfigType]
    /\ subjects \in [Subjects -> SubjectType]
    /\ requests \in [Keys -> RequestType]
    /\ providerRequestKeys \in [Providers -> [Ids -> Keys \cup {NoKey}]]
    /\ results \in [VRFProviders -> [Ids -> ResultType]]

RInv == RecordTypeOK /\ PolicyInv /\ SubjectInv /\ RequestInv /\ AdapterInv /\ SeedInv

\* The invariant separates into the records of requests and the types of everything else,
LEMMA Split == IInv <=> MiscTypeOK /\ RInv
BY DEF IInv, RInv, TypeOK, CoordinatorTypeOK, ProviderTypeOK, MiscTypeOK, RecordTypeOK

\* before a step and after it.
LEMMA SplitPrime == IInv' <=> MiscTypeOK' /\ RInv'
BY Split, PTL

-------------------------------------------------------------------------------
(* The refinement mapping, subject by subject.                             *)

Simulated == [Ideal!DrawNext]_(Ideal!drawVars)

\* What a step must leave alone for subject u to look the same to RandomDraw.
Untouched(u) ==
    LET key == subjects[u].requestKey
    IN  /\ subjects'[u] = subjects[u]
        /\ subjects[u].status # "NONE" => ConfigOf(u)'.salt = ConfigOf(u).salt
        /\ subjects[u].status \notin Unasked =>
            /\ requests'[key].id = requests[key].id
            /\ key.provider \in VRFProviders =>
                results'[key.provider][requests[key].id] = results[key.provider][requests[key].id]

SameDraw(u) ==
    /\ DrawPhase(u)' = DrawPhase(u)
    /\ DrawCommitment(u)' = DrawCommitment(u)
    /\ DrawAnswer(u)' = DrawAnswer(u)

\* A subject whose records a step leaves alone looks the same to RandomDraw.
LEMMA UntouchedSame ==
    ASSUME NEW u \in Subjects, RecordTypeOK, Untouched(u)
    PROVE  SameDraw(u)
<1>1. subjects[u].status \notin Unasked => (Answered(u)' <=> Answered(u))
    BY DEF Untouched, Answered, Received
<1>2. DrawPhase(u)' = DrawPhase(u)
    BY <1>1 DEF Untouched, DrawPhase, Unasked
<1>3. DrawCommitment(u)' = DrawCommitment(u)
    BY DEF Untouched, DrawCommitment, Unasked
<1>4. DrawAnswer(u)' = DrawAnswer(u)
    BY <1>1 DEF Untouched, DrawAnswer, Unasked, Answered
<1> QED  BY <1>2, <1>3, <1>4 DEF SameDraw

\* A step no subject of which moves is a stuttering step of RandomDraw.
LEMMA AllSame ==
    ASSUME \A u \in Subjects : SameDraw(u)
    PROVE  Simulated
BY DEF SameDraw, Simulated, Ideal!drawVars

\* A step that moves one subject along an edge of RandomDraw is a step of RandomDraw.
LEMMA OneMoves ==
    ASSUME NEW s \in Subjects, \A u \in Subjects \ {s} : SameDraw(u),
           \/ /\ DrawPhase(s) = "none" /\ DrawPhase(s)' = "registered"
              /\ DrawCommitment(s)' = DrawCommitment(s) /\ DrawAnswer(s)' = DrawAnswer(s)
           \/ /\ DrawPhase(s) = "registered" /\ DrawPhase(s)' = "committed"
              /\ DrawCommitment(s)' \in Commitments /\ DrawAnswer(s)' = DrawAnswer(s)
           \/ /\ DrawPhase(s) = "committed" /\ DrawPhase(s)' \in {"answered", "final"}
              /\ DrawCommitment(s)' = DrawCommitment(s) /\ DrawAnswer(s)' \in RawRandomness
           \/ /\ DrawPhase(s) = "answered" /\ DrawPhase(s)' = "final"
              /\ DrawCommitment(s)' = DrawCommitment(s) /\ DrawAnswer(s)' = DrawAnswer(s)
           \/ /\ DrawPhase(s) = "committed" /\ DrawPhase(s)' = "void"
              /\ DrawCommitment(s)' = DrawCommitment(s) /\ DrawAnswer(s)' = DrawAnswer(s)
    PROVE  Simulated
<1> DEFINE P == [u \in Subjects |-> DrawPhase(u)]
           C == [u \in Subjects |-> DrawCommitment(u)]
           A == [u \in Subjects |-> DrawAnswer(u)]
<1>1. /\ P' = [P EXCEPT ![s] = DrawPhase(s)'] /\ P[s] = DrawPhase(s) /\ P'[s] = DrawPhase(s)'
      /\ C' = [C EXCEPT ![s] = DrawCommitment(s)'] /\ C'[s] = DrawCommitment(s)'
      /\ A' = [A EXCEPT ![s] = DrawAnswer(s)'] /\ A'[s] = DrawAnswer(s)'
    BY DEF SameDraw
<1>2. /\ DrawCommitment(s)' = DrawCommitment(s) => C' = C
      /\ DrawAnswer(s)' = DrawAnswer(s) => A' = A
    BY DEF SameDraw
<1> HIDE DEF P, C, A
<1>3. \/ P[s] = "none" /\ P' = [P EXCEPT ![s] = "registered"] /\ UNCHANGED <<C, A>>
      \/ /\ P[s] = "registered" /\ P' = [P EXCEPT ![s] = "committed"]
         /\ C'[s] \in Commitments /\ C' = [C EXCEPT ![s] = C'[s]] /\ A' = A
      \/ /\ P[s] = "committed" /\ P'[s] \in {"answered", "final"} /\ P' = [P EXCEPT ![s] = P'[s]]
         /\ A'[s] \in RawRandomness /\ A' = [A EXCEPT ![s] = A'[s]] /\ C' = C
      \/ P[s] = "answered" /\ P' = [P EXCEPT ![s] = "final"] /\ UNCHANGED <<C, A>>
      \/ P[s] = "committed" /\ P' = [P EXCEPT ![s] = "void"] /\ UNCHANGED <<C, A>>
    BY <1>1, <1>2
<1> QED
    BY <1>3 DEF P, C, A, Simulated, Ideal!DrawNext, Ideal!Register, Ideal!Commit, Ideal!Draw,
                Ideal!Reveal, Ideal!GiveUp

-------------------------------------------------------------------------------
(* One lemma per kind of step: RInv is kept, and RandomDraw moves or stutters. *)

\* A step that touches none of the five records.
LEMMA QuietStep ==
    ASSUME RInv, UNCHANGED <<config, subjects, requests, providerRequestKeys, results>>
    PROVE  RInv' /\ Simulated
<1> USE DEF ConfigOf
<1>1. RecordTypeOK'  BY DEF RInv, RecordTypeOK
<1>2. PolicyInv'     BY DEF RInv, PolicyInv
<1>3. SubjectInv'    BY DEF RInv, SubjectInv
<1>4. RequestInv'    BY DEF RInv, RequestInv
<1>5. AdapterInv'    BY DEF RInv, AdapterInv
<1>6. SeedInv'       BY DEF RInv, SeedInv
<1>7. \A u \in Subjects : SameDraw(u)
    BY UntouchedSame DEF RInv, Untouched
<1> QED  BY <1>1, <1>2, <1>3, <1>4, <1>5, <1>6, <1>7, AllSame DEF RInv

\* A new policy for a collection none of whose subjects is registered.
LEMMA ConfigureStep ==
    ASSUME RInv, NEW c \in Collections, NEW p \in Providers, NEW salt \in Salts,
           NEW b \in BOOLEAN, NEW n \in Timeouts,
           ~config[c].locked, config' = [config EXCEPT ![c] = Policy(p, salt, b, n)],
           UNCHANGED <<subjects, requests, providerRequestKeys, results>>
    PROVE  RInv' /\ Simulated
<1> DEFINE new == Policy(p, salt, b, n)
<1>t. config \in [Collections -> ConfigType]
    BY DEF RInv, RecordTypeOK
<1>0. new \in ConfigType /\ new.provider = p /\ new.salt = salt
    BY PolicyWrites DEF new
<1> HIDE DEF new
<1>c. config' = [config EXCEPT ![c] = new]
    BY DEF new
<1>s. \A s \in Subjects : subjects[s].status # "NONE" => ConfigOf(s)' = ConfigOf(s)
    BY <1>t, <1>0, <1>c, SubjectAssumption DEF RInv, PolicyInv, ConfigOf
<1>1. RecordTypeOK'
    BY <1>t, <1>0, <1>c DEF RInv, RecordTypeOK
<1>2. PolicyInv'
    <2>1. \A d \in Collections : config'[d].provider # NoProvider => config'[d].salt \in Salts
        BY <1>t, <1>0, <1>c DEF RInv, PolicyInv
    <2> QED  BY <2>1, <1>s DEF RInv, PolicyInv
<1>3. SubjectInv'    BY DEF RInv, SubjectInv
<1>4. RequestInv'    BY DEF RInv, RequestInv
<1>5. AdapterInv'    BY DEF RInv, AdapterInv
<1>6. SeedInv'       BY <1>s DEF RInv, SeedInv
<1>7. \A u \in Subjects : SameDraw(u)
    BY <1>s, UntouchedSame DEF RInv, Untouched
<1> QED  BY <1>1, <1>2, <1>3, <1>4, <1>5, <1>6, <1>7, AllSame DEF RInv

\* Locking keeps provider and salt of every policy.
LEMMA LockStep ==
    ASSUME RecordTypeOK, NEW c \in Collections, lockPolicy(c)
    PROVE  /\ config' \in [Collections -> ConfigType]
           /\ config[c].provider # NoProvider /\ config'[c].locked
           /\ \A d \in Collections : /\ config'[d].provider = config[d].provider
                                     /\ config'[d].salt = config[d].salt
                                     /\ config[d].locked => config'[d].locked
<1>t. config[c] \in ConfigType
    BY DEF RecordTypeOK
<1>1. /\ Locked(config[c]) \in ConfigType
      /\ Locked(config[c]).provider = config[c].provider
      /\ Locked(config[c]).salt = config[c].salt /\ Locked(config[c]).locked
    BY <1>t, LockedFields
<1> QED  BY <1>1 DEF RecordTypeOK, lockPolicy

\* Registration of a subject.
LEMMA RegisterStep ==
    ASSUME RInv, NEW s \in Subjects, NEW i \in Inputs \cup {NoInputs},
           s \in Tokens => i \in Inputs,
           subjects[s].status = "NONE", lockPolicy(CollectionOf[s]),
           subjects' = [subjects EXCEPT ![s] = Registered(@, i)],
           UNCHANGED <<requests, providerRequestKeys, results>>
    PROVE  RInv' /\ Simulated
<1> DEFINE new == Registered(subjects[s], i)
<1>t. RecordTypeOK
    BY DEF RInv
<1>0. /\ new \in SubjectType /\ new.status = "REGISTERED" /\ new.inputs = i
      /\ new.requestKey = subjects[s].requestKey /\ new.seed = subjects[s].seed
    BY <1>t DEF RecordTypeOK, SubjectType, Registered, Statuses
<1>k. new.requestKey = NoKey
    BY <1>0 DEF RInv, SubjectInv, Unasked
<1>l. /\ config' \in [Collections -> ConfigType]
      /\ config'[CollectionOf[s]].locked /\ config[CollectionOf[s]].provider # NoProvider
      /\ \A d \in Collections : /\ config'[d].provider = config[d].provider
                                /\ config'[d].salt = config[d].salt
                                /\ config[d].locked => config'[d].locked
    BY <1>t, LockStep, SubjectAssumption
<1>s. subjects' = [subjects EXCEPT ![s] = new]
    OBVIOUS
<1> HIDE DEF new
<1>1. RecordTypeOK'
    BY <1>t, <1>0, <1>l, <1>s DEF RecordTypeOK
<1>2. PolicyInv'
    BY <1>t, <1>l, <1>s, SubjectAssumption DEF RInv, PolicyInv, ConfigOf, RecordTypeOK
<1>3. SubjectInv'
    BY <1>t, <1>0, <1>k, <1>s DEF RInv, SubjectInv, RecordTypeOK, Unasked
<1>4. RequestInv'
    BY <1>t, <1>0, <1>s, KeyFields DEF RInv, RequestInv, RecordTypeOK
<1>5. AdapterInv'
    <2> SUFFICES ASSUME NEW p \in VRFProviders, NEW j \in Ids,
                        results[p][j].status # "UNKNOWN"
                 PROVE  subjects'[results[p][j].requestKey.subject]
                            = subjects[results[p][j].requestKey.subject]
        BY DEF RInv, AdapterInv
    <2>1. results[p][j].requestKey \in Keys
          /\ subjects[results[p][j].requestKey.subject].requestKey = results[p][j].requestKey
        BY <1>t, CompositionAssumption, ProviderAssumption
           DEF RInv, AdapterInv, RequestInv, RecordTypeOK, ResultType
    <2> QED  BY <2>1, <1>t, <1>s, <1>0, <1>k, KeyFields DEF RecordTypeOK
<1>6. SeedInv'
    <2> SUFFICES ASSUME NEW u \in Subjects, subjects'[u].status = "FINALIZED"
                 PROVE  subjects'[u] = subjects[u] /\ ConfigOf(u)'.salt = ConfigOf(u).salt
        BY DEF RInv, SeedInv
    <2>1. u # s
        BY <1>t, <1>0, <1>s DEF RecordTypeOK
    <2> QED  BY <2>1, <1>t, <1>s, <1>l, SubjectAssumption DEF RecordTypeOK, ConfigOf
<1>7. \A u \in Subjects \ {s} : SameDraw(u)
    <2> SUFFICES ASSUME NEW u \in Subjects, u # s PROVE SameDraw(u)
        OBVIOUS
    <2>1. Untouched(u)
        BY <1>t, <1>s, <1>l, SubjectAssumption DEF Untouched, RecordTypeOK, ConfigOf
    <2> QED  BY <2>1, <1>t, UntouchedSame
<1>8. /\ DrawPhase(s) = "none" /\ DrawPhase(s)' = "registered"
      /\ DrawCommitment(s)' = DrawCommitment(s) /\ DrawAnswer(s)' = DrawAnswer(s)
    <2>1. subjects'[s] = new
        BY <1>t, <1>s DEF RecordTypeOK
    <2> QED  BY <2>1, <1>0 DEF DrawPhase, DrawCommitment, DrawAnswer
<1> QED  BY <1>1, <1>2, <1>3, <1>4, <1>5, <1>6, <1>7, <1>8, OneMoves DEF RInv

\* A known adapter result belongs to a request the coordinator knows, and back.
LEMMA Known ==
    ASSUME RInv, NEW p \in VRFProviders, NEW i \in Ids, results[p][i].status # "UNKNOWN"
    PROVE  /\ results[p][i].requestKey \in Keys
           /\ requests[results[p][i].requestKey].provider = p
           /\ requests[results[p][i].requestKey].id = i
           /\ subjects[results[p][i].requestKey.subject].requestKey = results[p][i].requestKey
           /\ results[p][i].requestKey.provider = p
BY CompositionAssumption, ProviderAssumption
   DEF RInv, AdapterInv, RequestInv, RecordTypeOK, ResultType

\* Writing one result of one adapter.
LEMMA ResultWritten ==
    ASSUME RecordTypeOK, NEW p \in VRFProviders, NEW id \in Ids, NEW x \in ResultType,
           results' = [results EXCEPT ![p] = [@ EXCEPT ![id] = x]]
    PROVE  /\ results' \in [VRFProviders -> [Ids -> ResultType]]
           /\ \A q \in VRFProviders, j \in Ids :
                results'[q][j] = IF q = p /\ j = id THEN x ELSE results[q][j]
BY DEF RecordTypeOK

\* A request: the subject, the request, the id and the adapter's result all name the key.
LEMMA RequestStep ==
    ASSUME RInv, NEW s \in Subjects, NEW i \in Inputs, NEW id \in Ids, NEW b \in Nat,
           NEW key, key = requestKey(s, i), NEW p, p = ConfigOf(s).provider,
           subjects[s].status = "REGISTERED",
           providerRequestKeys[p][id] = NoKey,
           subjects' = [subjects EXCEPT ![s] = Requested(@, i, key)],
           requests' = [requests EXCEPT ![key] = NewRequest(p, b, id)],
           providerRequestKeys' =
               [providerRequestKeys EXCEPT ![p] = [@ EXCEPT ![id] = key]],
           IF p \in VRFProviders
           THEN results' = [results EXCEPT ![p] = [@ EXCEPT ![id] = Asked(results[p][id], key)]]
           ELSE results' = results,
           config' = config
    PROVE  RInv' /\ Simulated
<1>t. RecordTypeOK
    BY DEF RInv
<1>p. p \in Providers
    BY <1>t, SubjectAssumption DEF RInv, PolicyInv, ConfigOf, RecordTypeOK, ConfigType
<1>k. key \in Keys /\ key.subject = s /\ key.provider = p /\ key # NoKey
    BY <1>p, RequestKeyFields, KeyAssumption
<1>n. \A k \in Keys : k.subject = s => requests[k].provider = NoProvider
    BY KeyAssumption DEF RInv, RequestInv, SubjectInv, Unasked
<1> DEFINE new == Requested(subjects[s], i, key)
           req == NewRequest(p, b, id)
           res == Asked(results[p][id], key)
<1>0. /\ new \in SubjectType /\ new.status = "REQUESTED" /\ new.inputs = i
      /\ new.requestKey = key
    BY <1>t, <1>k DEF RecordTypeOK, SubjectType, Requested, Statuses
<1>1. req \in RequestType /\ req.provider = p /\ req.id = id
    BY <1>p DEF RequestType, NewRequest
<1>2. p \in VRFProviders => /\ res \in ResultType /\ res.status = "REQUESTED"
                            /\ res.requestKey = key
    <2> SUFFICES ASSUME p \in VRFProviders
                 PROVE  res \in ResultType /\ res.status = "REQUESTED" /\ res.requestKey = key
        OBVIOUS
    <2>1. results[p][id] \in ResultType
        BY <1>t DEF RecordTypeOK
    <2> QED  BY <2>1, <1>k, AskedFields
<1>3. /\ subjects' \in [Subjects -> SubjectType]
      /\ \A u \in Subjects : subjects'[u] = IF u = s THEN new ELSE subjects[u]
    BY <1>t, <1>0 DEF RecordTypeOK
<1>4. /\ requests' \in [Keys -> RequestType]
      /\ \A k \in Keys : requests'[k] = IF k = key THEN req ELSE requests[k]
    BY <1>t, <1>1, <1>k DEF RecordTypeOK
<1>5. /\ providerRequestKeys' \in [Providers -> [Ids -> Keys \cup {NoKey}]]
      /\ \A q \in Providers, j \in Ids : providerRequestKeys'[q][j] =
            IF q = p /\ j = id THEN key ELSE providerRequestKeys[q][j]
    BY <1>t, <1>p, <1>k DEF RecordTypeOK
<1>6. /\ results' \in [VRFProviders -> [Ids -> ResultType]]
      /\ \A q \in VRFProviders, j \in Ids : results'[q][j] =
            IF q = p /\ j = id THEN res ELSE results[q][j]
    <2>1. CASE p \in VRFProviders
        <3>1. results' = [results EXCEPT ![p] = [@ EXCEPT ![id] = res]]
            BY <2>1
        <3>2. res \in ResultType
            BY <2>1, <1>2
        <3> HIDE DEF res
        <3>3. results \in [VRFProviders -> [Ids -> ResultType]]
            BY <1>t DEF RecordTypeOK
        <3> QED  BY <2>1, <3>1, <3>2, <3>3
    <2>2. CASE p \notin VRFProviders
        <3>1. results' = results
            BY <2>2
        <3> QED  BY <2>2, <3>1, <1>t DEF RecordTypeOK
    <2> QED  BY <2>1, <2>2
<1> HIDE DEF new, req, res
<1>7. RecordTypeOK'
    BY <1>t, <1>3, <1>4, <1>5, <1>6 DEF RecordTypeOK
<1>8. PolicyInv'
    BY <1>3, SubjectAssumption DEF RInv, PolicyInv, ConfigOf
<1>9. SubjectInv'
    <2> SUFFICES ASSUME NEW u \in Subjects
                 PROVE  /\ subjects'[u].status \in Unasked => subjects'[u].requestKey = NoKey
                        /\ subjects'[u].status \notin Unasked =>
                            /\ subjects'[u].requestKey \in Keys
                            /\ subjects'[u].requestKey.subject = u
                            /\ requests'[subjects'[u].requestKey].provider # NoProvider
                            /\ subjects'[u].inputs \in Inputs
                        /\ u \in Tokens /\ subjects'[u].status # "NONE" =>
                            subjects'[u].inputs \in Inputs
        BY DEF SubjectInv
    <2>1. CASE u = s
        BY <2>1, <1>0, <1>1, <1>3, <1>4, <1>k, <1>p, ProviderAssumption DEF Unasked
    <2>2. CASE u # s
        BY <2>2, <1>1, <1>3, <1>4, <1>k, <1>p, ProviderAssumption DEF RInv, SubjectInv
    <2> QED  BY <2>1, <2>2
<1>10. RequestInv'
    <2>1. ASSUME NEW k \in Keys, requests'[k].provider # NoProvider
          PROVE  /\ requests'[k].provider = k.provider /\ requests'[k].id \in Ids
                 /\ subjects'[k.subject].requestKey = k
                 /\ providerRequestKeys'[k.provider][requests'[k].id] = k
        <3>1. CASE k = key
            BY <3>1, <1>0, <1>1, <1>3, <1>4, <1>5, <1>k, <1>p
        <3>2. CASE k # key
            <4>1. requests'[k] = requests[k] /\ k.subject # s
                BY <2>1, <3>2, <1>4, <1>n
            <4>2. /\ requests[k].provider = k.provider /\ requests[k].id \in Ids
                  /\ subjects[k.subject].requestKey = k
                  /\ providerRequestKeys[k.provider][requests[k].id] = k
                BY <2>1, <4>1 DEF RInv, RequestInv
            <4> QED  BY <4>1, <4>2, <1>3, <1>5, <1>k, KeyFields
        <3> QED  BY <3>1, <3>2
    <2>2. ASSUME NEW q \in Providers, NEW j \in Ids, providerRequestKeys'[q][j] # NoKey
          PROVE  /\ requests'[providerRequestKeys'[q][j]].provider = q
                 /\ requests'[providerRequestKeys'[q][j]].id = j
        <3>1. CASE q = p /\ j = id
            BY <3>1, <1>1, <1>4, <1>5, <1>k
        <3>2. CASE ~(q = p /\ j = id)
            <4>1. providerRequestKeys'[q][j] = providerRequestKeys[q][j]
                BY <3>2, <1>5
            <4>2. /\ providerRequestKeys[q][j] \in Keys
                  /\ requests[providerRequestKeys[q][j]].provider = q
                  /\ requests[providerRequestKeys[q][j]].id = j
                BY <2>2, <4>1, <1>t DEF RInv, RequestInv, RecordTypeOK
            <4>3. providerRequestKeys[q][j] # key
                BY <4>2, <1>n, <1>k, ProviderAssumption
            <4> QED  BY <4>1, <4>2, <4>3, <1>4
        <3> QED  BY <3>1, <3>2
    <2> QED  BY <2>1, <2>2 DEF RequestInv
<1>11. AdapterInv'
    <2> SUFFICES ASSUME NEW q \in VRFProviders, NEW j \in Ids
                 PROVE  /\ results'[q][j].status # "TERMINAL_FAILED"
                        /\ results'[q][j].requestKey = providerRequestKeys'[q][j]
                        /\ results'[q][j].status = "UNKNOWN" <=> results'[q][j].requestKey = NoKey
                        /\ results'[q][j].status # "UNKNOWN" =>
                            Ends(results'[q][j], subjects'[results'[q][j].requestKey.subject])
        BY DEF AdapterInv, Ends
    <2>q. q \in Providers
        BY CompositionAssumption
    <2>1. CASE q = p /\ j = id
        BY <2>1, <2>q, <1>0, <1>2, <1>3, <1>5, <1>6, <1>k DEF Ends
    <2>2. CASE ~(q = p /\ j = id)
        <3>1. /\ results'[q][j] = results[q][j]
              /\ providerRequestKeys'[q][j] = providerRequestKeys[q][j]
            BY <2>2, <2>q, <1>5, <1>6
        <3>2. results[q][j].status # "UNKNOWN" =>
                subjects'[results[q][j].requestKey.subject]
                    = subjects[results[q][j].requestKey.subject]
            BY Known, <2>q, <1>n, <1>3, KeyFields, ProviderAssumption
        <3> QED  BY <3>1, <3>2 DEF RInv, AdapterInv
    <2> QED  BY <2>1, <2>2
<1>12. SeedInv'
    <2> SUFFICES ASSUME NEW u \in Subjects, subjects'[u].status = "FINALIZED"
                 PROVE  /\ subjects'[u] = subjects[u] /\ ConfigOf(u)' = ConfigOf(u)
                        /\ requests'[subjects[u].requestKey] = requests[subjects[u].requestKey]
        BY DEF RInv, SeedInv
    <2>1. u # s /\ subjects'[u] = subjects[u]
        BY <1>0, <1>3
    <2>2. subjects[u].requestKey \in Keys /\ subjects[u].requestKey.subject = u
        BY <2>1 DEF RInv, SubjectInv, Unasked
    <2> QED  BY <2>1, <2>2, <1>4, <1>k DEF ConfigOf
<1>13. \A u \in Subjects \ {s} : SameDraw(u)
    <2> SUFFICES ASSUME NEW u \in Subjects, u # s PROVE Untouched(u)
        BY <1>t, UntouchedSame
    <2>1. subjects'[u] = subjects[u] /\ ConfigOf(u)' = ConfigOf(u)
        BY <1>3 DEF ConfigOf
    <2>2. ASSUME subjects[u].status \notin Unasked
          PROVE  LET k == subjects[u].requestKey
                 IN  /\ requests'[k].id = requests[k].id
                     /\ k.provider \in VRFProviders =>
                        results'[k.provider][requests[k].id] = results[k.provider][requests[k].id]
        <3> DEFINE k == subjects[u].requestKey
        <3>1. k \in Keys /\ k.subject = u /\ requests[k].provider # NoProvider
            BY <2>2 DEF RInv, SubjectInv
        <3>2. requests[k].id \in Ids /\ providerRequestKeys[k.provider][requests[k].id] = k
            BY <3>1 DEF RInv, RequestInv
        <3>3. ~(k.provider = p /\ requests[k].id = id)
            BY <3>1, <3>2, KeyFields
        <3> QED  BY <3>1, <3>2, <3>3, <1>4, <1>6, <1>k
    <2> QED  BY <2>1, <2>2 DEF Untouched
<1>14. /\ DrawPhase(s) = "registered" /\ DrawPhase(s)' = "committed"
       /\ DrawCommitment(s)' \in Commitments /\ DrawAnswer(s)' = DrawAnswer(s)
    <2>1. /\ subjects'[s].status = "REQUESTED" /\ subjects'[s].requestKey = key
          /\ subjects'[s].inputs = i /\ requests'[key].id = id
        BY <1>0, <1>1, <1>3, <1>4, <1>k
    <2>2. p \in VRFProviders => results'[p][id].status = "REQUESTED"
        BY <1>2, <1>6
    <2>3. ~Answered(s)'
        BY <2>1, <2>2, <1>k DEF Answered, Received
    <2>4. ConfigOf(s)'.salt \in Salts
        BY <1>p, ProviderAssumption, SubjectAssumption DEF RInv, PolicyInv, ConfigOf
    <2>5. DrawCommitment(s)' = [key |-> key, id |-> id, salt |-> ConfigOf(s)'.salt, inputs |-> i]
        BY <2>1 DEF DrawCommitment
    <2>6. DrawCommitment(s)' \in Commitments
        BY <2>4, <2>5, <1>k DEF Commitments
    <2> QED  BY <2>1, <2>3, <2>6 DEF DrawPhase, DrawAnswer
<1> QED  BY <1>7, <1>8, <1>9, <1>10, <1>11, <1>12, <1>13, <1>14, OneMoves DEF RInv

\* A timeout or a proven failure: the adapter, asked, has no answer.
LEMMA EndStep ==
    ASSUME RInv, NEW s \in Subjects, NEW st \in {"STALE", "FAILED"}, NEW key \in Keys,
           key = subjects[s].requestKey, subjects[s].status = "REQUESTED",
           key.provider \in VRFProviders =>
               st = "STALE" /\ results[key.provider][requests[key].id].status = "REQUESTED",
           subjects' = [subjects EXCEPT ![s] = Ended(@, st)],
           UNCHANGED <<config, requests, providerRequestKeys, results>>
    PROVE  RInv' /\ Simulated
<1>t. RecordTypeOK
    BY DEF RInv
<1>k. key.subject = s
    BY DEF RInv, SubjectInv, Unasked
<1> DEFINE new == Ended(subjects[s], st)
<1>0. /\ new \in SubjectType /\ new.status = st /\ new.inputs = subjects[s].inputs
      /\ new.requestKey = key
    BY <1>t DEF RecordTypeOK, SubjectType, Ended, Statuses
<1>3. /\ subjects' \in [Subjects -> SubjectType]
      /\ \A u \in Subjects : subjects'[u] = IF u = s THEN new ELSE subjects[u]
    BY <1>t, <1>0 DEF RecordTypeOK
<1> HIDE DEF new
<1>4. \A u \in Subjects : subjects'[u].requestKey = subjects[u].requestKey
    BY <1>0, <1>3
<1>7. RecordTypeOK'
    BY <1>t, <1>3 DEF RecordTypeOK
<1>8. PolicyInv'
    BY <1>3, SubjectAssumption DEF RInv, PolicyInv, ConfigOf
<1>9. SubjectInv'
    BY <1>0, <1>3 DEF RInv, SubjectInv, Unasked
<1>10. RequestInv'
    BY <1>4, KeyFields DEF RInv, RequestInv
<1>11. AdapterInv'
    <2> SUFFICES ASSUME NEW q \in VRFProviders, NEW j \in Ids, results[q][j].status # "UNKNOWN"
                 PROVE  Ends(results[q][j], subjects'[results[q][j].requestKey.subject])
        BY DEF RInv, AdapterInv, Ends
    <2>1. /\ results[q][j].requestKey \in Keys /\ requests[results[q][j].requestKey].id = j
          /\ results[q][j].requestKey.provider = q
          /\ subjects[results[q][j].requestKey.subject].requestKey = results[q][j].requestKey
        BY Known
    <2>2. Ends(results[q][j], subjects[results[q][j].requestKey.subject])
        BY DEF RInv, AdapterInv
    <2>3. CASE results[q][j].requestKey.subject = s
        <3>1. results[q][j].requestKey = key
            BY <2>1, <2>3
        <3>2. results[q][j].status = "REQUESTED" /\ st = "STALE"
            BY <2>1, <3>1
        <3> QED  BY <2>3, <3>2, <1>0, <1>3 DEF Ends
    <2>4. CASE results[q][j].requestKey.subject # s
        BY <2>1, <2>2, <2>4, <1>3, KeyFields
    <2> QED  BY <2>3, <2>4
<1>12. SeedInv'
    BY <1>0, <1>3 DEF RInv, SeedInv, ConfigOf
<1>13. \A u \in Subjects \ {s} : SameDraw(u)
    BY <1>t, <1>3, UntouchedSame DEF Untouched, ConfigOf
<1>14. /\ DrawPhase(s) = "committed" /\ DrawPhase(s)' = "void"
       /\ DrawCommitment(s)' = DrawCommitment(s) /\ DrawAnswer(s)' = DrawAnswer(s)
    <2>1. ~Answered(s)
        BY DEF Answered, Received
    <2>2. /\ subjects'[s].status \in {"STALE", "FAILED"} /\ subjects'[s].requestKey = key
          /\ subjects'[s].inputs = subjects[s].inputs
        BY <1>0, <1>3
    <2> QED  BY <2>1, <2>2 DEF DrawPhase, DrawCommitment, DrawAnswer, ConfigOf
<1> QED  BY <1>7, <1>8, <1>9, <1>10, <1>11, <1>12, <1>13, <1>14, OneMoves DEF RInv

\* An answer that is stored without finalizing its request.
LEMMA StoreStep ==
    ASSUME RInv, NEW p \in VRFProviders, NEW id \in Ids, NEW raw \in RawRandomness,
           NEW st \in {"RAW_RANDOMNESS_RECEIVED", "TERMINAL_STALE"},
           results[p][id].status \in {"REQUESTED", "RAW_RANDOMNESS_RECEIVED"},
           results[p][id].status = "RAW_RANDOMNESS_RECEIVED" => raw = results[p][id].raw,
           st = "TERMINAL_STALE" =>
               subjects[results[p][id].requestKey.subject].status = "STALE",
           results' = [results EXCEPT ![p] = [@ EXCEPT ![id] = Replied(results[p][id], raw, st)]],
           UNCHANGED <<config, subjects, requests, providerRequestKeys>>
    PROVE  RInv' /\ Simulated
<1>t. RecordTypeOK
    BY DEF RInv
<1> DEFINE new == Replied(results[p][id], raw, st)
<1>0. /\ new \in ResultType /\ new.status = st /\ new.raw = raw
      /\ new.requestKey = results[p][id].requestKey
    <2>1. results[p][id] \in ResultType /\ st \in ResultStatuses
        BY <1>t DEF RecordTypeOK, ResultStatuses
    <2> QED  BY <2>1, RepliedFields
<1> HIDE DEF new
<1>1. /\ results' \in [VRFProviders -> [Ids -> ResultType]]
      /\ \A q \in VRFProviders, j \in Ids :
            results'[q][j] = IF q = p /\ j = id THEN new ELSE results[q][j]
    BY <1>t, <1>0, ResultWritten DEF new
<1>2. RecordTypeOK'
    BY <1>t, <1>1 DEF RecordTypeOK
<1>3. PolicyInv' /\ SubjectInv' /\ RequestInv' /\ SeedInv'
    BY DEF RInv, PolicyInv, SubjectInv, RequestInv, SeedInv, ConfigOf
<1>4. AdapterInv'
    <2>1. Ends(results[p][id], subjects[results[p][id].requestKey.subject])
        BY DEF RInv, AdapterInv
    <2>2. Ends(new, subjects[new.requestKey.subject])
        BY <2>1, <1>0 DEF Ends
    <2>3. new.requestKey # NoKey
        BY <1>0 DEF RInv, AdapterInv
    <2> QED  BY <2>2, <2>3, <1>0, <1>1 DEF RInv, AdapterInv, Ends
<1>5. Simulated
    <2>k. PICK key \in Keys : key = results[p][id].requestKey
        BY Known
    <2> DEFINE s == key.subject
    <2>1. /\ requests[key].id = id /\ subjects[s].requestKey = key /\ key.provider = p
        BY <2>k, Known
    <2>2. s \in Subjects /\ subjects[s].status \in {"REQUESTED", "STALE"}
        BY <2>k, KeyFields DEF RInv, AdapterInv, Ends
    <2> HIDE DEF s
    <2>3. ASSUME NEW u \in Subjects, u # s PROVE SameDraw(u)
        <3>1. ASSUME subjects[u].status \notin Unasked,
                     subjects[u].requestKey.provider \in VRFProviders
              PROVE  LET k == subjects[u].requestKey
                     IN results'[k.provider][requests[k].id] = results[k.provider][requests[k].id]
            <4> DEFINE k == subjects[u].requestKey
            <4>1. k \in Keys /\ k.subject = u /\ requests[k].provider # NoProvider
                BY <3>1 DEF RInv, SubjectInv
            <4>2. requests[k].id \in Ids /\ providerRequestKeys[k.provider][requests[k].id] = k
                BY <4>1 DEF RInv, RequestInv
            <4>3. ~(k.provider = p /\ requests[k].id = id)
                BY <4>1, <4>2, <2>3, <2>k DEF RInv, AdapterInv, s
            <4> QED  BY <3>1, <4>2, <4>3, <1>1
        <3>2. Untouched(u)
            BY <3>1 DEF Untouched, ConfigOf
        <3> QED  BY <3>2, <1>t, UntouchedSame
    <2>4. CASE subjects[s].status = "STALE"
        <3>1. SameDraw(s)
            BY <2>4 DEF SameDraw, DrawPhase, DrawCommitment, DrawAnswer, ConfigOf
        <3> QED  BY <2>3, <3>1, AllSame
    <2>5. CASE subjects[s].status = "REQUESTED"
        <3>1. results'[p][id] = new /\ new.status = "RAW_RANDOMNESS_RECEIVED"
            BY <2>5, <2>k, <1>0, <1>1 DEF s
        <3>2. Answered(s)' /\ subjects[s].requestKey # NoKey
            BY <3>1, <2>1, KeyFields DEF Answered, Received
        <3>3. DrawPhase(s)' = "answered" /\ DrawAnswer(s)' = raw
            BY <2>1, <2>5, <3>1, <3>2, <1>0 DEF DrawPhase, DrawAnswer
        <3>4. DrawCommitment(s)' = DrawCommitment(s)
            BY DEF DrawCommitment, ConfigOf
        <3>5. CASE results[p][id].status = "REQUESTED"
            <4>1. DrawPhase(s) = "committed"
                BY <2>1, <2>5, <3>5 DEF DrawPhase, Answered, Received
            <4> QED  BY <2>2, <2>3, <3>3, <3>4, <4>1, OneMoves
        <3>6. CASE results[p][id].status = "RAW_RANDOMNESS_RECEIVED"
            <4>1. Answered(s)
                BY <2>1, <3>2, <3>6 DEF Answered, Received
            <4>2. DrawPhase(s) = "answered" /\ DrawAnswer(s) = raw
                BY <2>1, <2>5, <3>6, <4>1 DEF DrawPhase, DrawAnswer
            <4>3. SameDraw(s)
                BY <3>3, <3>4, <4>2 DEF SameDraw
            <4> QED  BY <2>3, <4>3, AllSame
        <3> QED  BY <3>5, <3>6
    <2> QED  BY <2>2, <2>4, <2>5
<1> QED  BY <1>2, <1>3, <1>4, <1>5 DEF RInv

\* A delivery the coordinator accepts.
LEMMA FulfilStep ==
    ASSUME RInv, NEW key \in Keys, NEW raw \in RawRandomness,
           NEW p, p = requests[key].provider, NEW id, id = requests[key].id,
           p \in VRFProviders =>
               /\ results[p][id].status \in {"REQUESTED", "RAW_RANDOMNESS_RECEIVED"}
               /\ results[p][id].status = "RAW_RANDOMNESS_RECEIVED" => raw = results[p][id].raw,
           p # NoProvider, subjects[key.subject].status = "REQUESTED",
           subjects' = [subjects EXCEPT ![key.subject] = Finalized(@, deriveSeed(key, raw))],
           requests' = [requests EXCEPT ![key] = WithRaw(@, raw)],
           IF p \in VRFProviders
           THEN results' = [results EXCEPT ![p] =
                              [@ EXCEPT ![id] = Replied(results[p][id], raw, "DELIVERED")]]
           ELSE results' = results,
           UNCHANGED <<config, providerRequestKeys>>
    PROVE  RInv' /\ Simulated
<1> DEFINE s == key.subject
           seed == deriveSeed(key, raw)
           new == Finalized(subjects[s], seed)
           req == WithRaw(requests[key], raw)
           res == Replied(results[p][id], raw, "DELIVERED")
<1>t. RecordTypeOK
    BY DEF RInv
<1>k. s \in Subjects /\ subjects[s].requestKey = key /\ key.provider = p /\ id \in Ids
      /\ p \in Providers /\ subjects[s].inputs \in Inputs
    BY KeyFields DEF RInv, RequestInv, SubjectInv, Unasked
<1>c. ConfigOf(s).salt \in Salts
    BY <1>k, SubjectAssumption DEF RInv, PolicyInv, ConfigOf
<1>d. /\ seed \in Seeds /\ seed.key = key /\ seed.id = id /\ seed.raw = raw
      /\ seed.salt = ConfigOf(s).salt /\ seed.inputs = subjects[s].inputs
    BY <1>k, <1>c DEF deriveSeed, Seeds
<1> HIDE DEF seed
<1>0. /\ new \in SubjectType /\ new.status = "FINALIZED" /\ new.inputs = subjects[s].inputs
      /\ new.requestKey = key /\ new.seed = seed
    BY <1>t, <1>k, <1>d DEF RecordTypeOK, SubjectType, Finalized, Statuses
<1>1. req \in RequestType /\ req.provider = p /\ req.id = id
    BY <1>t DEF RecordTypeOK, RequestType, WithRaw
<1>2. p \in VRFProviders => /\ res \in ResultType /\ res.status = "DELIVERED" /\ res.raw = raw
                            /\ res.requestKey = results[p][id].requestKey
    <2> SUFFICES ASSUME p \in VRFProviders
                 PROVE  /\ res \in ResultType /\ res.status = "DELIVERED" /\ res.raw = raw
                        /\ res.requestKey = results[p][id].requestKey
        OBVIOUS
    <2>1. results[p][id] \in ResultType /\ "DELIVERED" \in ResultStatuses
        BY <1>t, <1>k DEF RecordTypeOK, ResultStatuses
    <2> QED  BY <2>1, RepliedFields
<1>3. /\ subjects' \in [Subjects -> SubjectType]
      /\ \A u \in Subjects : subjects'[u] = IF u = s THEN new ELSE subjects[u]
    BY <1>t, <1>0, <1>k DEF RecordTypeOK, seed
<1>4. /\ requests' \in [Keys -> RequestType]
      /\ \A k \in Keys : requests'[k] = IF k = key THEN req ELSE requests[k]
    BY <1>t, <1>1 DEF RecordTypeOK
<1>6. /\ results' \in [VRFProviders -> [Ids -> ResultType]]
      /\ \A q \in VRFProviders, j \in Ids : results'[q][j] =
            IF q = p /\ j = id THEN res ELSE results[q][j]
    <2>1. CASE p \in VRFProviders
        <3>1. results' = [results EXCEPT ![p] = [@ EXCEPT ![id] = res]]
            BY <2>1
        <3> HIDE DEF res
        <3> QED  BY <2>1, <3>1, <1>t, <1>2, <1>k, ResultWritten
    <2>2. CASE p \notin VRFProviders
        <3>1. results' = results
            BY <2>2
        <3> QED  BY <2>2, <3>1, <1>t DEF RecordTypeOK
    <2> QED  BY <2>1, <2>2
<1> HIDE DEF new, req, res, s
<1>r. \A k \in Keys : requests'[k].provider = requests[k].provider /\ requests'[k].id = requests[k].id
    BY <1>1, <1>4
<1>u. \A u \in Subjects : /\ subjects'[u].requestKey = subjects[u].requestKey
                          /\ subjects'[u].inputs = subjects[u].inputs
    BY <1>0, <1>3, <1>k
<1>7. RecordTypeOK'
    BY <1>t, <1>3, <1>4, <1>6 DEF RecordTypeOK
<1>8. PolicyInv'
    BY <1>3, <1>k, SubjectAssumption DEF RInv, PolicyInv, ConfigOf, s
<1>9. SubjectInv'
    BY <1>0, <1>3, <1>k, <1>r, <1>u DEF RInv, SubjectInv, Unasked, s
<1>10. RequestInv'
    <2>1. \A q \in Providers, j \in Ids : providerRequestKeys[q][j] # NoKey =>
            providerRequestKeys[q][j] \in Keys
        BY <1>t DEF RecordTypeOK
    <2> QED  BY <2>1, <1>r, <1>u, KeyFields DEF RInv, RequestInv
<1>11. AdapterInv'
    <2> SUFFICES ASSUME NEW q \in VRFProviders, NEW j \in Ids
                 PROVE  /\ results'[q][j].status # "TERMINAL_FAILED"
                        /\ results'[q][j].requestKey = providerRequestKeys'[q][j]
                        /\ results'[q][j].status = "UNKNOWN" <=> results'[q][j].requestKey = NoKey
                        /\ results'[q][j].status # "UNKNOWN" =>
                            Ends(results'[q][j], subjects'[results'[q][j].requestKey.subject])
        BY DEF AdapterInv, Ends
    <2>1. CASE q = p /\ j = id
        <3>1. results[p][id].requestKey = key
            BY <2>1, <1>k DEF RInv, AdapterInv, RequestInv
        <3>2. key # NoKey
            BY KeyFields
        <3>3. results'[q][j] = res /\ res.requestKey = key /\ res.status = "DELIVERED"
              /\ res.raw = raw
            BY <2>1, <3>1, <1>2, <1>6
        <3>4. /\ subjects'[key.subject].status = "FINALIZED"
              /\ subjects'[key.subject].seed.raw = raw
            BY <1>0, <1>3, <1>k, <1>d DEF s
        <3>5. providerRequestKeys'[q][j] = key
            BY <2>1, <1>k DEF RInv, RequestInv
        <3> QED  BY <3>2, <3>3, <3>4, <3>5 DEF Ends
    <2>2. CASE ~(q = p /\ j = id)
        <3>1. results'[q][j] = results[q][j]
            BY <2>2, <1>6
        <3>2. ASSUME results[q][j].status # "UNKNOWN"
              PROVE  subjects'[results[q][j].requestKey.subject]
                        = subjects[results[q][j].requestKey.subject]
            <4>1. /\ results[q][j].requestKey \in Keys
                  /\ requests[results[q][j].requestKey].provider = q
                  /\ requests[results[q][j].requestKey].id = j
                  /\ subjects[results[q][j].requestKey.subject].requestKey
                        = results[q][j].requestKey
                BY <3>2, Known
            <4>2. results[q][j].requestKey.subject # s
                BY <4>1, <2>2, <1>k DEF s
            <4> QED  BY <4>1, <4>2, <1>3, KeyFields
        <3>3. /\ results[q][j].status # "TERMINAL_FAILED"
              /\ results[q][j].requestKey = providerRequestKeys[q][j]
              /\ results[q][j].status = "UNKNOWN" <=> results[q][j].requestKey = NoKey
              /\ results[q][j].status # "UNKNOWN" =>
                  Ends(results[q][j], subjects[results[q][j].requestKey.subject])
            BY DEF RInv, AdapterInv
        <3> QED  BY <3>1, <3>2, <3>3
    <2> QED  BY <2>1, <2>2
<1>12. SeedInv'
    <2> SUFFICES ASSUME NEW u \in Subjects, subjects'[u].status = "FINALIZED"
                 PROVE  /\ subjects'[u].seed \in Seeds
                        /\ subjects'[u].seed.key = subjects'[u].requestKey
                        /\ subjects'[u].seed.id = requests'[subjects'[u].requestKey].id
                        /\ subjects'[u].seed.salt = ConfigOf(u)'.salt
                        /\ subjects'[u].seed.inputs = subjects'[u].inputs
        BY DEF SeedInv
    <2>1. CASE u = s
        BY <2>1, <1>0, <1>1, <1>3, <1>4, <1>d, <1>k DEF ConfigOf
    <2>2. CASE u # s
        <3>1. subjects'[u] = subjects[u] /\ subjects[u].requestKey \in Keys
            BY <2>2, <1>3 DEF RInv, SubjectInv, Unasked
        <3> QED  BY <3>1, <1>r DEF RInv, SeedInv, ConfigOf
    <2> QED  BY <2>1, <2>2
<1>13. \A u \in Subjects \ {s} : SameDraw(u)
    <2> SUFFICES ASSUME NEW u \in Subjects, u # s PROVE Untouched(u)
        BY <1>t, UntouchedSame
    <2>1. subjects'[u] = subjects[u] /\ ConfigOf(u)' = ConfigOf(u)
        BY <1>3 DEF ConfigOf
    <2>2. ASSUME subjects[u].status \notin Unasked
          PROVE  LET k == subjects[u].requestKey
                 IN  /\ requests'[k].id = requests[k].id
                     /\ k.provider \in VRFProviders =>
                        results'[k.provider][requests[k].id] = results[k.provider][requests[k].id]
        <3> DEFINE k == subjects[u].requestKey
        <3>1. k \in Keys /\ k.subject = u /\ requests[k].provider # NoProvider
            BY <2>2 DEF RInv, SubjectInv
        <3>2. requests[k].id \in Ids /\ providerRequestKeys[k.provider][requests[k].id] = k
            BY <3>1 DEF RInv, RequestInv
        <3>3. providerRequestKeys[p][id] = key
            BY <1>k DEF RInv, RequestInv
        <3>4. ~(k.provider = p /\ requests[k].id = id)
            BY <3>1, <3>2, <3>3 DEF s
        <3> QED  BY <3>1, <3>2, <3>4, <1>r, <1>6
    <2> QED  BY <2>1, <2>2 DEF Untouched
<1>14. DrawPhase(s)' = "final" /\ DrawAnswer(s)' = raw
    BY <1>0, <1>3, <1>k, <1>d DEF DrawPhase, DrawAnswer
<1>15. DrawCommitment(s)' = DrawCommitment(s)
    <2>1. DrawCommitment(s)' =
            [key |-> key, id |-> id, salt |-> ConfigOf(s).salt, inputs |-> subjects[s].inputs]
        BY <1>0, <1>3, <1>k, <1>d DEF DrawCommitment
    <2>2. DrawCommitment(s) =
            [key |-> key, id |-> id, salt |-> ConfigOf(s).salt, inputs |-> subjects[s].inputs]
        BY <1>k DEF DrawCommitment, s
    <2> QED  BY <2>1, <2>2
<1>16. /\ DrawPhase(s) \in {"committed", "answered"}
       /\ DrawPhase(s) = "answered" => DrawAnswer(s) = raw
    <2>1. subjects[s].status = "REQUESTED" /\ subjects[s].requestKey = key /\ key.provider = p
        BY <1>k DEF s
    <2>2. Answered(s) => p \in VRFProviders /\ results[p][id].status = "RAW_RANDOMNESS_RECEIVED"
        BY <2>1 DEF Answered, Received
    <2> QED  BY <2>1, <2>2 DEF DrawPhase, DrawAnswer
<1> QED
    BY <1>7, <1>8, <1>9, <1>10, <1>11, <1>12, <1>13, <1>14, <1>15, <1>16, <1>k, OneMoves DEF RInv

\* A VRF adapter's delivery, accepted, rejected or failed.
LEMMA DeliveryStep ==
    ASSUME RInv, NEW p \in VRFProviders, NEW id \in Ids, NEW raw \in RawRandomness,
           NEW delivered \in BOOLEAN, NEW sent \in BOOLEAN,
           NEW key, key = results[p][id].requestKey,
           results[p][id].status = "RAW_RANDOMNESS_RECEIVED" => raw = results[p][id].raw,
           NEW outcome, outcome = fulfillOutcome(p, key),
           results[p][id].status \in {"REQUESTED", "RAW_RANDOMNESS_RECEIVED"},
           results' = [results EXCEPT ![p] = [@ EXCEPT ![id] =
                         Replied(results[p][id], raw, StatusAfter(delivered, outcome))]],
           IF delivered THEN fulfillEntropy(p, key, raw, sent, outcome)
           ELSE UNCHANGED coordinatorVars
    PROVE  RInv' /\ Simulated
<1>k. /\ key \in Keys /\ requests[key].provider = p /\ requests[key].id = id
      /\ subjects[key.subject].requestKey = key
    BY Known
<1>e. subjects[key.subject].status \in {"REQUESTED", "STALE"}
    BY DEF RInv, AdapterInv, Ends
<1>n. p # NoProvider
    BY CompositionAssumption, ProviderAssumption
<1>o. /\ outcome \in {0, 1, 5}
      /\ outcome = 0 => subjects[key.subject].status = "REQUESTED"
      /\ outcome = 1 => subjects[key.subject].status = "STALE"
    BY <1>k, <1>e, <1>n DEF fulfillOutcome
<1>1. CASE delivered /\ outcome = 0
    <2>1. /\ subjects' = [subjects EXCEPT ![key.subject] = Finalized(@, deriveSeed(key, raw))]
          /\ requests' = [requests EXCEPT ![key] = WithRaw(@, raw)]
          /\ UNCHANGED <<config, providerRequestKeys>>
        BY <1>1 DEF fulfillEntropy
    <2>2. StatusAfter(delivered, outcome) = "DELIVERED"
        BY <1>1 DEF StatusAfter
    <2> QED  BY <2>1, <2>2, <1>1, <1>k, <1>n, <1>o, FulfilStep
<1>2. CASE ~(delivered /\ outcome = 0)
    <2>1. UNCHANGED <<config, subjects, requests, providerRequestKeys>>
        BY <1>2 DEF fulfillEntropy, coordinatorVars, draws
    <2>2. /\ StatusAfter(delivered, outcome) \in {"RAW_RANDOMNESS_RECEIVED", "TERMINAL_STALE"}
          /\ StatusAfter(delivered, outcome) = "TERMINAL_STALE" =>
                subjects[key.subject].status = "STALE"
        BY <1>2, <1>o DEF StatusAfter
    <2> QED  BY <2>1, <2>2, StoreStep
<1> QED  BY <1>1, <1>2

\* Every step keeps the records of requests consistent and is a step of RandomDraw or stutters.
LEMMA StepRInv == IInv /\ [Next]_vars => RInv' /\ Simulated
<1> SUFFICES ASSUME IInv, [Next]_vars PROVE RInv' /\ Simulated
    OBVIOUS
<1>i. RInv /\ RecordTypeOK
    BY Split DEF RInv
<1>1. CASE UNCHANGED vars
    BY <1>1, <1>i, QuietStep DEF vars, coordinatorVars, draws, adapters
<1>2. CASE Tick
    BY <1>2, <1>i, QuietStep DEF Tick, coordinatorVars, draws, adapters
<1>3. ASSUME NEW t \in Tokens, Burn(t) PROVE RInv' /\ Simulated
    BY <1>3, <1>i, QuietStep DEF Burn, coordinatorVars, draws, adapters
<1>4. ASSUME NEW t \in Tokens, NEW i \in Inputs, Mint(t, i) PROVE RInv' /\ Simulated
    <2>1. t \in Subjects /\ i \in Inputs \cup {NoInputs}
        BY DEF Subjects
    <2> QED  BY <2>1, <1>4, <1>i, RegisterStep DEF Mint, onTokenMinted, adapters
<1>5. ASSUME NEW t \in Tokens, NEW sent \in BOOLEAN, RetryNotification(t, sent) PROVE RInv' /\ Simulated
    BY <1>5, <1>i, QuietStep DEF RetryNotification, retryMetadataNotification, adapters
<1>6. ASSUME NEW c \in Collections, Freeze(c) PROVE RInv' /\ Simulated
    BY <1>6, <1>i, QuietStep DEF Freeze, coordinatorVars, draws, adapters
<1>7. ASSUME NEW c \in Collections, NEW p \in Providers, NEW salt \in Salts, NEW b \in PublicChoices,
             NEW n \in Timeouts, Configure(c, p, salt, b, n)
      PROVE  RInv' /\ Simulated
    BY <1>7, <1>i, CompositionAssumption, ConfigureStep DEF Configure, configureCollection, PolicyOpen, draws, adapters
<1>8. ASSUME NEW r \in Requesters, SetRequester(r) PROVE RInv' /\ Simulated
    BY <1>8, <1>i, QuietStep DEF SetRequester, setRequester, draws, adapters
<1>9. ASSUME NEW p \in Providers, SetRevoked(p) PROVE RInv' /\ Simulated
    BY <1>9, <1>i, QuietStep DEF SetRevoked, setProviderRevoked, draws, adapters
<1>10. ASSUME NEW a \in Callers, ClaimFeeCredit(a) PROVE RInv' /\ Simulated
    BY <1>10, <1>i, QuietStep DEF ClaimFeeCredit, claimEntropyFeeCredit, draws, adapters
<1>11. ASSUME NEW a \in Callers, NEW s \in Scopes, RegisterScope(a, s) PROVE RInv' /\ Simulated
    <2>1. /\ s \in Subjects /\ s \notin Tokens
          /\ subjects[s].inputs \in Inputs \cup {NoInputs}
        BY <1>i, SubjectAssumption DEF Subjects, RecordTypeOK, SubjectType
    <2> QED  BY <2>1, <1>11, <1>i, RegisterStep DEF RegisterScope, registerEntropyScope, adapters
<1>12. ASSUME NEW a \in Callers, NEW v \in 0 .. MaxValue, NEW id \in Ids, NEW t \in Tokens,
              RequestToken(a, t, v, id)
       PROVE  RInv' /\ Simulated
    <2>1. t \in Subjects /\ block \in Nat
        BY DEF Subjects, IInv, TypeOK
    <2>2. subjects[t].status = "REGISTERED" /\ subjects[t].inputs \in Inputs
        BY <1>12, <1>i, <2>1
           DEF RequestToken, requestEntropy, request, Requestable, RInv, SubjectInv
    <2>3. requestKey(t, NoInputs) = requestKey(t, subjects[t].inputs)
        BY DEF requestKey
    <2>4. /\ providerRequestKeys[ConfigOf(t).provider][id] = NoKey
          /\ subjects' = [subjects EXCEPT ![t] =
                            Requested(@, subjects[t].inputs, requestKey(t, subjects[t].inputs))]
          /\ requests' = [requests EXCEPT ![requestKey(t, subjects[t].inputs)] =
                            NewRequest(ConfigOf(t).provider, block, id)]
          /\ providerRequestKeys' = [providerRequestKeys EXCEPT ![ConfigOf(t).provider] =
                            [@ EXCEPT ![id] = requestKey(t, subjects[t].inputs)]]
          /\ config' = config
        BY <1>12 DEF RequestToken, requestEntropy, request
    <2>5. IF ConfigOf(t).provider \in VRFProviders
          THEN results' = [results EXCEPT ![ConfigOf(t).provider] = [@ EXCEPT ![id] =
                             Asked(results[ConfigOf(t).provider][id],
                                   requestKey(t, subjects[t].inputs))]]
          ELSE results' = results
        BY <1>12, <2>3 DEF RequestToken, ProviderAccepts, providerRequest, adapters
    <2> QED  BY <1>i, <2>1, <2>2, <2>4, <2>5, RequestStep
<1>13. ASSUME NEW a \in Callers, NEW v \in 0 .. MaxValue, NEW id \in Ids, NEW s \in Scopes,
              NEW i \in Inputs, RequestScope(a, s, i, v, id)
       PROVE  RInv' /\ Simulated
    <2>1. s \in Subjects /\ block \in Nat
        BY DEF Subjects, IInv, TypeOK
    <2>4. /\ subjects[s].status = "REGISTERED"
          /\ providerRequestKeys[ConfigOf(s).provider][id] = NoKey
          /\ subjects' = [subjects EXCEPT ![s] = Requested(@, i, requestKey(s, i))]
          /\ requests' = [requests EXCEPT ![requestKey(s, i)] =
                            NewRequest(ConfigOf(s).provider, block, id)]
          /\ providerRequestKeys' = [providerRequestKeys EXCEPT ![ConfigOf(s).provider] =
                            [@ EXCEPT ![id] = requestKey(s, i)]]
          /\ config' = config
        BY <1>13 DEF RequestScope, requestScopeEntropy, request, Requestable
    <2>5. IF ConfigOf(s).provider \in VRFProviders
          THEN results' = [results EXCEPT ![ConfigOf(s).provider] = [@ EXCEPT ![id] =
                             Asked(results[ConfigOf(s).provider][id], requestKey(s, i))]]
          ELSE results' = results
        BY <1>13 DEF RequestScope, ProviderAccepts, providerRequest, adapters
    <2> QED  BY <1>i, <2>1, <2>4, <2>5, RequestStep
<1>14. ASSUME NEW s \in Subjects, NEW sent \in BOOLEAN, MarkStale(s, sent) \/ MarkFailed(s, sent)
       PROVE  RInv' /\ Simulated
    <2> DEFINE key == subjects[s].requestKey
               p == key.provider
               id == requests[key].id
    <2>1. subjects[s].status = "REQUESTED"
        BY <1>14 DEF MarkStale, MarkFailed
    <2>2. key \in Keys /\ key.subject = s /\ id \in Ids
        BY <2>1, <1>i DEF RInv, SubjectInv, RequestInv, Unasked
    <2>3. UNCHANGED <<config, requests, providerRequestKeys, results>>
        BY <1>14 DEF MarkStale, MarkFailed, markRequestStale, markRequestFailed, terminate, adapters
    <2>a. PICK answer \in providerResultStatus(p, id) :
            /\ answer.boundKey = key /\ ~answer.received
            /\ MarkFailed(s, sent) => answer.status = "TERMINAL_FAILED"
            /\ \/ MarkStale(s, sent) /\ subjects' = [subjects EXCEPT ![s] = Ended(@, "STALE")]
               \/ MarkFailed(s, sent) /\ subjects' = [subjects EXCEPT ![s] = Ended(@, "FAILED")]
        <3>1. CASE MarkStale(s, sent) /\ ~MarkFailed(s, sent)
            BY <3>1, <2>2 DEF MarkStale, markRequestStale, terminate
        <3>2. CASE MarkFailed(s, sent)
            BY <3>2, <2>2 DEF MarkFailed, markRequestFailed, terminate
        <3> QED  BY <1>14, <3>1, <3>2
    <2>b. p \in VRFProviders =>
            /\ results[p][id].requestKey = key /\ ~Received(p, id)
            /\ answer.status = results[p][id].status
        BY <2>a DEF providerResultStatus
    <2>4. p \in VRFProviders => results[p][id].status \in {"REQUESTED", "UNKNOWN", "TERMINAL_FAILED"}
        BY <2>2, <2>b, <1>i DEF Received, RecordTypeOK, ResultType, ResultStatuses
    <2>5. p \in VRFProviders => results[p][id].status = "REQUESTED"
        BY <2>2, <2>b, <2>4, <1>i, KeyFields DEF RInv, AdapterInv
    <2>6. CASE subjects' = [subjects EXCEPT ![s] = Ended(@, "STALE")]
        BY <1>i, <2>1, <2>2, <2>3, <2>5, <2>6, EndStep
    <2>7. CASE MarkFailed(s, sent) /\ subjects' = [subjects EXCEPT ![s] = Ended(@, "FAILED")]
        <3>1. p \notin VRFProviders
            BY <2>7, <2>a, <2>b, <2>5
        <3> QED  BY <1>i, <2>1, <2>2, <2>3, <2>7, <3>1, EndStep
    <2> QED  BY <2>a, <2>6, <2>7
<1>15. ASSUME NEW p \in VRFProviders, NEW id \in Ids, NEW sent \in BOOLEAN,
              RetryDelivery(p, id, sent)
       PROVE  RInv' /\ Simulated
    <2>1. results[p][id].raw \in RawRandomness
        BY <1>15, <1>i DEF RetryDelivery, RInv, AdapterInv, Ends
    <2>2. /\ results[p][id].status = "RAW_RANDOMNESS_RECEIVED"
          /\ results' = [results EXCEPT ![p] = [@ EXCEPT ![id] =
                            Replied(results[p][id], results[p][id].raw,
                                StatusAfter(TRUE, fulfillOutcome(p, results[p][id].requestKey)))]]
          /\ fulfillEntropy(p, results[p][id].requestKey, results[p][id].raw, sent,
                            fulfillOutcome(p, results[p][id].requestKey))
        BY <1>15 DEF RetryDelivery, retryCoordinatorFulfillment, Deliver
    <2> QED  BY <1>i, <2>1, <2>2, DeliveryStep
<1>16. ASSUME NEW p \in VRFProviders, NEW id \in Ids, NEW sent \in BOOLEAN, NEW words \in Words,
              NEW delivered \in BOOLEAN, OracleCallback(p, id, words, delivered, sent)
       PROVE  RInv' /\ Simulated
    <2> DEFINE raw == RawOf(results[p][id].requestKey, id, words)
    <2>1. results[p][id].status = "REQUESTED"
        BY <1>16 DEF OracleCallback, AcceptsCallback
    <2>2. raw \in RawRandomness
        BY <2>1, <1>i, Known DEF RawOf, RawRandomness
    <2>3. /\ results' = [results EXCEPT ![p] = [@ EXCEPT ![id] =
                            Replied(results[p][id], raw,
                                StatusAfter(delivered,
                                            fulfillOutcome(p, results[p][id].requestKey)))]]
          /\ IF delivered
             THEN fulfillEntropy(p, results[p][id].requestKey, raw, sent,
                                 fulfillOutcome(p, results[p][id].requestKey))
             ELSE UNCHANGED coordinatorVars
        BY <1>16 DEF OracleCallback, fulfillRandomWords, Deliver
    <2> HIDE DEF raw
    <2> QED  BY <1>i, <2>1, <2>2, <2>3, DeliveryStep
<1>17. CASE ForceEther
    BY <1>17, <1>i, QuietStep DEF ForceEther, draws, adapters
<1>18. ASSUME NEW p \in OtherProviders, NEW id \in Ids, NEW words \in Words, NEW sent \in BOOLEAN,
              OtherFulfils(p, id, words, sent)
       PROVE  RInv' /\ Simulated
    <2> DEFINE key == providerRequestKeys[p][id]
               raw == RawOf(key, id, words)
    <2>1. /\ key \in Keys /\ raw \in RawRandomness /\ p \notin VRFProviders /\ p # NoProvider
          /\ requests[key].provider = p
        BY <1>18, <1>i, ProviderAssumption
           DEF OtherFulfils, OtherProviders, RecordTypeOK, RawOf, RawRandomness, RInv, RequestInv
    <2>2. /\ fulfillEntropy(p, key, raw, sent, fulfillOutcome(p, key))
          /\ results' = results
        BY <1>18 DEF OtherFulfils, Deliver, adapters
    <2> HIDE DEF key, raw
    <2>3. CASE fulfillOutcome(p, key) = 0
        <3>1. /\ subjects' = [subjects EXCEPT ![key.subject] = Finalized(@, deriveSeed(key, raw))]
              /\ requests' = [requests EXCEPT ![key] = WithRaw(@, raw)]
              /\ UNCHANGED <<config, providerRequestKeys>>
            BY <2>2, <2>3 DEF fulfillEntropy
        <3>2. subjects[key.subject].status = "REQUESTED"
            BY <2>3 DEF fulfillOutcome
        <3> QED  BY <1>i, <2>1, <2>2, <3>1, <3>2, FulfilStep
    <2>4. CASE fulfillOutcome(p, key) # 0
        BY <2>4, <2>2, <1>i, QuietStep DEF fulfillEntropy, coordinatorVars, draws
    <2> QED  BY <2>3, <2>4
<1> QED
    BY <1>1, <1>2, <1>3, <1>4, <1>5, <1>6, <1>7, <1>8, <1>9, <1>10, <1>11, <1>12, <1>13, <1>14,
       <1>15, <1>16, <1>17, <1>18 DEF Next

\* Every step keeps the types of the rest of the state.
LEMMA StepMisc == IInv /\ [Next]_vars => MiscTypeOK'
<1> SUFFICES ASSUME IInv, [Next]_vars PROVE MiscTypeOK'
    OBVIOUS
<1>i. RInv /\ RecordTypeOK /\ MiscTypeOK
    BY Split DEF RInv
<1>v. ASSUME NEW s \in Subjects, NEW sent \in BOOLEAN, notify(s, sent)
      PROVE  metadataNotificationPending' \in SUBSET Tokens
    BY <1>v, <1>i DEF notify, MiscTypeOK, Subjects
<1>r. ASSUME NEW s, NEW sent \in BOOLEAN, Refresh(s, sent)
      PROVE  refreshes' \in [Tokens -> Nat]
    BY <1>r, <1>i DEF Refresh, MiscTypeOK
<1>d. ASSUME NEW p, NEW key \in Keys, NEW raw, NEW sent \in BOOLEAN, NEW o,
             Deliver(p, key, raw, sent, o)
      PROVE  /\ metadataNotificationPending' \in SUBSET Tokens
             /\ refreshes' \in [Tokens -> Nat]
             /\ pendingRequestCount' \in Int
             /\ UNCHANGED <<roles, fees>>
    <2>1. CASE o = 0
        <3>1. /\ notify(key.subject, sent) /\ Refresh(key.subject, sent)
              /\ pendingRequestCount' = pendingRequestCount - 1
              /\ UNCHANGED <<roles, fees>>
            BY <1>d, <2>1 DEF Deliver, fulfillEntropy
        <3> QED  BY <3>1, <1>v, <1>r, <1>i, KeyFields DEF MiscTypeOK
    <2>2. CASE o # 0
        BY <1>d, <2>2, <1>i DEF Deliver, fulfillEntropy, coordinatorVars, draws, MiscTypeOK
    <2> QED  BY <2>1, <2>2
<1>1. CASE UNCHANGED vars
    BY <1>1, <1>i DEF vars, coordinatorVars, draws, roles, fees, adapters, env, MiscTypeOK
<1>2. CASE Tick
    BY <1>2, <1>i DEF Tick, coordinatorVars, draws, roles, fees, adapters, MiscTypeOK
<1>3. ASSUME NEW t \in Tokens, Burn(t) PROVE MiscTypeOK'
    BY <1>3, <1>i DEF Burn, coordinatorVars, draws, roles, fees, adapters, MiscTypeOK
<1>4. ASSUME NEW t \in Tokens, NEW i \in Inputs, Mint(t, i) PROVE MiscTypeOK'
    BY <1>4, <1>i DEF Mint, onTokenMinted, roles, fees, adapters, MiscTypeOK
<1>5. ASSUME NEW t \in Tokens, NEW sent \in BOOLEAN, RetryNotification(t, sent) PROVE MiscTypeOK'
    <2>1. notify(t, sent) /\ Refresh(t, sent) /\ t \in Subjects
        BY <1>5 DEF RetryNotification, retryMetadataNotification, Subjects
    <2> QED  BY <2>1, <1>5, <1>i, <1>v, <1>r
             DEF RetryNotification, retryMetadataNotification, roles, fees, adapters, env, MiscTypeOK
<1>6. ASSUME NEW c \in Collections, Freeze(c) PROVE MiscTypeOK'
    BY <1>6, <1>i DEF Freeze, coordinatorVars, draws, roles, fees, adapters, MiscTypeOK
<1>7. ASSUME NEW c \in Collections, NEW p \in Providers, NEW salt \in Salts, NEW b \in PublicChoices,
             NEW n \in Timeouts, Configure(c, p, salt, b, n)
      PROVE  MiscTypeOK'
    BY <1>7, <1>i
       DEF Configure, configureCollection, draws, roles, fees, adapters, env, MiscTypeOK
<1>8. ASSUME NEW r \in Requesters, SetRequester(r) PROVE MiscTypeOK'
    BY <1>8, <1>i DEF SetRequester, setRequester, draws, fees, adapters, env, MiscTypeOK
<1>9. ASSUME NEW p \in Providers, SetRevoked(p) PROVE MiscTypeOK'
    BY <1>9, <1>i DEF SetRevoked, setProviderRevoked, draws, fees, adapters, env, MiscTypeOK
<1>10. ASSUME NEW a \in Callers, ClaimFeeCredit(a) PROVE MiscTypeOK'
    BY <1>10, <1>i
       DEF ClaimFeeCredit, claimEntropyFeeCredit, draws, roles, adapters, env, MiscTypeOK
<1>11. ASSUME NEW a \in Callers, NEW s \in Scopes, RegisterScope(a, s) PROVE MiscTypeOK'
    BY <1>11, <1>i DEF RegisterScope, registerEntropyScope, roles, fees, adapters, env, MiscTypeOK
<1>q. ASSUME NEW a \in Callers, NEW v \in 0 .. MaxValue, NEW id \in Ids, NEW s \in Subjects,
             NEW i \in Inputs, NEW j \in Inputs \cup {NoInputs},
             request(a, s, i, v, block, id),
             ProviderAccepts(ConfigOf(s).provider, requestKey(s, j), id),
             UNCHANGED <<env, refreshes>>
      PROVE  MiscTypeOK'
    <2>p. ConfigOf(s).provider \in Providers
        BY <1>q, <1>i, SubjectAssumption
           DEF request, Requestable, RInv, PolicyInv, ConfigOf, RecordTypeOK, ConfigType
    <2>k. requestKey(s, j) \in Keys
        BY <2>p, RequestKeyFields
    <2>1. Excess(v, Fee[ConfigOf(s).provider]) \in Nat /\ v \in Nat
          /\ Fee[ConfigOf(s).provider] \in Nat
        BY <1>q, <2>p, NumberAssumption DEF request, Excess
    <2>2. /\ entropyFeeCredit' \in [Callers -> Nat] /\ totalFeeCredits' \in Int
          /\ balance' \in Int /\ pendingRequestCount' \in Int
        BY <1>q, <1>i, <2>1 DEF request, MiscTypeOK
    <2>3. keyToVrfRequest' \in [VRFProviders -> [Keys -> Ids \cup {0}]]
        BY <1>q, <1>i, <2>k DEF ProviderAccepts, providerRequest, adapters, MiscTypeOK
    <2>4. UNCHANGED <<roles, metadataNotificationPending, env, refreshes>>
        BY <1>q DEF request
    <2> QED  BY <2>2, <2>3, <2>4, <1>i DEF roles, env, MiscTypeOK
<1>12. ASSUME NEW a \in Callers, NEW v \in 0 .. MaxValue, NEW id \in Ids, NEW t \in Tokens,
              RequestToken(a, t, v, id)
       PROVE  MiscTypeOK'
    <2>1. t \in Subjects
        BY DEF Subjects
    <2>2. subjects[t].inputs \in Inputs
        BY <1>12, <1>i, <2>1
           DEF RequestToken, requestEntropy, request, Requestable, RInv, SubjectInv
    <2> QED  BY <2>1, <2>2, <1>12, <1>q DEF RequestToken, requestEntropy
<1>13. ASSUME NEW a \in Callers, NEW v \in 0 .. MaxValue, NEW id \in Ids, NEW s \in Scopes,
              NEW i \in Inputs, RequestScope(a, s, i, v, id)
       PROVE  MiscTypeOK'
    <2>1. s \in Subjects
        BY DEF Subjects
    <2> QED  BY <2>1, <1>13, <1>q DEF RequestScope, requestScopeEntropy
<1>14. ASSUME NEW s \in Subjects, NEW sent \in BOOLEAN, MarkStale(s, sent) \/ MarkFailed(s, sent)
       PROVE  MiscTypeOK'
    <2>1. subjects[s].requestKey.subject = s
        BY <1>14, <1>i DEF MarkStale, MarkFailed, RInv, SubjectInv, Unasked
    <2>2. /\ notify(s, sent) /\ Refresh(s, sent)
          /\ pendingRequestCount' = pendingRequestCount - 1
          /\ UNCHANGED <<roles, fees, adapters, env>>
        BY <1>14, <2>1
           DEF MarkStale, MarkFailed, markRequestStale, markRequestFailed, terminate
    <2> QED  BY <2>2, <1>v, <1>r, <1>i DEF roles, fees, adapters, env, MiscTypeOK
<1>15. ASSUME NEW p \in VRFProviders, NEW id \in Ids, NEW sent \in BOOLEAN,
              RetryDelivery(p, id, sent)
       PROVE  MiscTypeOK'
    <2>1. results[p][id].requestKey \in Keys
        BY <1>15, <1>i, Known DEF RetryDelivery
    <2>2. /\ UNCHANGED <<keyToVrfRequest, env>>
          /\ Deliver(p, results[p][id].requestKey, results[p][id].raw, sent,
                     fulfillOutcome(p, results[p][id].requestKey))
        BY <1>15 DEF RetryDelivery, retryCoordinatorFulfillment
    <2> QED  BY <2>1, <2>2, <1>d, <1>i DEF roles, fees, env, MiscTypeOK
<1>16. ASSUME NEW p \in VRFProviders, NEW id \in Ids, NEW sent \in BOOLEAN, NEW words \in Words,
              NEW delivered \in BOOLEAN, OracleCallback(p, id, words, delivered, sent)
       PROVE  MiscTypeOK'
    <2> DEFINE key == results[p][id].requestKey
    <2>1. key \in Keys
        BY <1>16, <1>i, Known DEF OracleCallback, AcceptsCallback
    <2>2. UNCHANGED <<keyToVrfRequest, env>>
        BY <1>16 DEF OracleCallback, fulfillRandomWords
    <2>3. CASE delivered
        <3>1. Deliver(p, key, RawOf(key, id, words), sent, fulfillOutcome(p, key))
            BY <1>16, <2>3 DEF OracleCallback
        <3> QED  BY <2>1, <2>2, <3>1, <1>d, <1>i DEF roles, fees, env, MiscTypeOK
    <2>4. CASE ~delivered
        <3>1. UNCHANGED <<coordinatorVars, refreshes>>
            BY <1>16, <2>4 DEF OracleCallback
        <3> QED  BY <2>2, <3>1, <1>i DEF coordinatorVars, draws, roles, fees, env, MiscTypeOK
    <2> QED  BY <2>3, <2>4
<1>17. CASE ForceEther
    BY <1>17, <1>i DEF ForceEther, draws, roles, adapters, MiscTypeOK
<1>18. ASSUME NEW p \in OtherProviders, NEW id \in Ids, NEW words \in Words, NEW sent \in BOOLEAN,
              OtherFulfils(p, id, words, sent)
       PROVE  MiscTypeOK'
    <2> DEFINE key == providerRequestKeys[p][id]
    <2>1. key \in Keys
        BY <1>18, <1>i DEF OtherFulfils, OtherProviders, RecordTypeOK
    <2>2. /\ Deliver(p, key, RawOf(key, id, words), sent, fulfillOutcome(p, key))
          /\ UNCHANGED <<adapters, env>>
        BY <1>18 DEF OtherFulfils
    <2> QED  BY <2>1, <2>2, <1>d, <1>i DEF roles, fees, adapters, env, MiscTypeOK
<1> QED
    BY <1>1, <1>2, <1>3, <1>4, <1>5, <1>6, <1>7, <1>8, <1>9, <1>10, <1>11, <1>12, <1>13, <1>14,
       <1>15, <1>16, <1>17, <1>18 DEF Next

-------------------------------------------------------------------------------
(* The invariants.                                                         *)

\* The invariant holds along every execution of the composition.
LEMMA Inductive == Spec => []IInv
<1>1. IInv /\ [Next]_vars => IInv'
    BY StepRInv, StepMisc, SplitPrime
<1> QED  BY InitIInv, <1>1, PTL DEF Spec

\* Type correctness of the coordinator, the VRF adapters and their surroundings.
THEOREM TypeCorrect == Spec => []TypeOK
BY Inductive, PTL DEF IInv

\* No subject is ever requested twice, whatever providers answer: every request
\* ever recorded is the one its subject names, under one provider id.
THEOREM RequestedOnce == Spec => []OneRequestPerSubject
<1>1. IInv => OneRequestPerSubject
    BY DEF IInv, RequestInv, OneRequestPerSubject
<1> QED  BY Inductive, <1>1, PTL

\* The coordinator and every VRF adapter agree, between any two transactions, on
\* how each request ended and on the answer the seed was made from.
THEOREM AdaptersAgree == Spec => []AdapterAgrees
<1>1. IInv => AdapterAgrees
    <2> SUFFICES ASSUME IInv, NEW p \in VRFProviders, NEW i \in Ids,
                        results[p][i].status # "UNKNOWN"
                 PROVE  LET result == results[p][i]
                            subject == subjects[result.requestKey.subject]
                        IN  /\ requests[result.requestKey].id = i
                            /\ result.status = "DELIVERED" <=> subject.status = "FINALIZED"
                            /\ result.status = "DELIVERED" => subject.seed.raw = result.raw
                            /\ result.status = "TERMINAL_STALE" => subject.status = "STALE"
        BY DEF AdapterAgrees
    <2>1. RInv /\ RecordTypeOK
        BY Split DEF RInv
    <2>2. requests[results[p][i].requestKey].id = i
        BY <2>1, Known
    <2>3. /\ results[p][i].status \in ResultStatuses \ {"UNKNOWN", "TERMINAL_FAILED"}
          /\ Ends(results[p][i], subjects[results[p][i].requestKey.subject])
        BY <2>1 DEF RInv, AdapterInv, RecordTypeOK, ResultType
    <2> QED  BY <2>2, <2>3 DEF Ends, ResultStatuses
<1> QED  BY Inductive, <1>1, PTL

\* The entropy domain implements RandomDraw: every subject is drawn at most once,
\* from inputs committed before the answer, and no answer is dropped or redrawn.
THEOREM ImplementsRandomDraw == Spec => DrawnOnce
<1>1. Init => Ideal!DrawInit
    <2> SUFFICES ASSUME Init, NEW s \in Subjects
                 PROVE  /\ DrawPhase(s) = "none" /\ DrawCommitment(s) = NoSeed
                        /\ DrawAnswer(s) = NoRaw
        BY DEF Ideal!DrawInit
    <2>1. subjects[s].status = "NONE"
        BY DEF Init, CoordinatorInit, NoSubject
    <2> QED  BY <2>1 DEF DrawPhase, DrawCommitment, DrawAnswer
<1>2. IInv /\ [Next]_vars => [Ideal!DrawNext]_(Ideal!drawVars)
    BY StepRInv DEF Simulated
<1> QED  BY Inductive, <1>1, <1>2, PTL DEF Spec, DrawnOnce, Ideal!DrawSpec

-------------------------------------------------------------------------------
(* The pending count.                                                      *)

OpenRequests == {s \in Subjects : subjects[s].status = "REQUESTED"}

\* Only finitely many subjects wait for an answer at any time.
LEMMA OpenFinite == IsFiniteSet(OpenRequests) /\ Cardinality(OpenRequests) \in Nat
<1>1. IsFiniteSet(Subjects)
    BY FiniteAssumption, FS_Union DEF Subjects
<1>2. IsFiniteSet(OpenRequests)
    BY <1>1, FS_Subset DEF OpenRequests
<1> QED  BY <1>2, FS_CardinalityType

\* The count stays exact when no subject starts or stops waiting,
LEMMA CountKept ==
    ASSUME PendingCountExact, pendingRequestCount' = pendingRequestCount,
           OpenRequests' = OpenRequests
    PROVE  PendingCountExact'
BY DEF PendingCountExact, OpenRequests

\* when one starts and the coordinator increments,
LEMMA CountUp ==
    ASSUME PendingCountExact, pendingRequestCount' = pendingRequestCount + 1,
           NEW s, s \notin OpenRequests, OpenRequests' = OpenRequests \cup {s}
    PROVE  PendingCountExact'
<1>1. Cardinality(OpenRequests \cup {s}) = Cardinality(OpenRequests) + 1
    BY OpenFinite, FS_AddElement
<1> QED  BY <1>1 DEF PendingCountExact, OpenRequests

\* and when one stops and the coordinator decrements.
LEMMA CountDown ==
    ASSUME PendingCountExact, pendingRequestCount' = pendingRequestCount - 1,
           NEW s \in OpenRequests, OpenRequests' = OpenRequests \ {s}
    PROVE  PendingCountExact'
<1>1. Cardinality(OpenRequests \ {s}) = Cardinality(OpenRequests) - 1
    BY OpenFinite, FS_RemoveElement
<1> QED  BY <1>1 DEF PendingCountExact, OpenRequests

\* Every step moves pendingRequestCount exactly as it moves the set of waiting subjects.
LEMMA CountStep == IInv /\ PendingCountExact /\ [Next]_vars => PendingCountExact'
<1> SUFFICES ASSUME IInv, PendingCountExact, [Next]_vars PROVE PendingCountExact'
    OBVIOUS
<1>i. RInv /\ RecordTypeOK
    BY Split DEF RInv
<1>q. ASSUME UNCHANGED <<subjects, pendingRequestCount>> PROVE PendingCountExact'
    BY <1>q, CountKept DEF OpenRequests
<1>g. ASSUME NEW s \in Subjects, NEW i \in Inputs \cup {NoInputs}, subjects[s].status = "NONE",
             subjects' = [subjects EXCEPT ![s] = Registered(@, i)],
             pendingRequestCount' = pendingRequestCount
      PROVE  PendingCountExact'
    <2>1. Registered(subjects[s], i).status = "REGISTERED"
        BY <1>i DEF RecordTypeOK, SubjectType, Registered
    <2>2. OpenRequests' = OpenRequests
        BY <1>g, <1>i, <2>1 DEF OpenRequests, RecordTypeOK
    <2> QED  BY <1>g, <2>2, CountKept
<1>u. ASSUME NEW a, NEW v, NEW id, NEW s \in Subjects, NEW i, request(a, s, i, v, block, id)
      PROVE  PendingCountExact'
    <2> DEFINE new == Requested(subjects[s], i, requestKey(s, i))
    <2>1. new.status = "REQUESTED"
        BY <1>i DEF RecordTypeOK, SubjectType, Requested
    <2>2. /\ subjects[s].status = "REGISTERED" /\ subjects' = [subjects EXCEPT ![s] = new]
          /\ pendingRequestCount' = pendingRequestCount + 1
        BY <1>u DEF request, Requestable
    <2> HIDE DEF new
    <2>3. s \notin OpenRequests /\ OpenRequests' = OpenRequests \cup {s}
        BY <1>i, <2>1, <2>2 DEF OpenRequests, RecordTypeOK
    <2> QED  BY <2>2, <2>3, CountUp
<1>e. ASSUME NEW s \in Subjects, NEW new, subjects[s].status = "REQUESTED",
             new.status # "REQUESTED", subjects' = [subjects EXCEPT ![s] = new],
             pendingRequestCount' = pendingRequestCount - 1
      PROVE  PendingCountExact'
    <2>1. s \in OpenRequests /\ OpenRequests' = OpenRequests \ {s}
        BY <1>e, <1>i DEF OpenRequests, RecordTypeOK
    <2> QED  BY <1>e, <2>1, CountDown
<1>d. ASSUME NEW p, NEW key \in Keys, NEW raw, NEW sent \in BOOLEAN,
             fulfillEntropy(p, key, raw, sent, fulfillOutcome(p, key))
      PROVE  PendingCountExact'
    <2>1. CASE fulfillOutcome(p, key) = 0
        <3> DEFINE new == Finalized(subjects[key.subject], deriveSeed(key, raw))
        <3>1. key.subject \in Subjects /\ subjects[key.subject].status = "REQUESTED"
            BY <2>1, KeyFields DEF fulfillOutcome
        <3>2. new.status = "FINALIZED"
            BY <3>1, <1>i DEF RecordTypeOK, SubjectType, Finalized
        <3>3. /\ subjects' = [subjects EXCEPT ![key.subject] = new]
              /\ pendingRequestCount' = pendingRequestCount - 1
            BY <1>d, <2>1 DEF fulfillEntropy
        <3> HIDE DEF new
        <3> QED  BY <3>1, <3>2, <3>3, <1>e
    <2>2. CASE fulfillOutcome(p, key) # 0
        BY <1>d, <2>2, <1>q DEF fulfillEntropy, coordinatorVars, draws
    <2> QED  BY <2>1, <2>2
<1>1. CASE UNCHANGED vars \/ Tick \/ (\E t \in Tokens : Burn(t)) \/ (\E c \in Collections : Freeze(c))
           \/ ForceEther
    BY <1>1, <1>q DEF vars, Tick, Burn, Freeze, ForceEther, coordinatorVars, draws
<1>2. CASE \/ \E t \in Tokens, sent \in BOOLEAN : RetryNotification(t, sent)
           \/ \E c \in Collections, p \in Providers, salt \in Salts, b \in PublicChoices, n \in Timeouts :
                Configure(c, p, salt, b, n)
           \/ \E r \in Requesters : SetRequester(r)
           \/ \E p \in Providers : SetRevoked(p)
           \/ \E a \in Callers : ClaimFeeCredit(a)
    BY <1>2, <1>q DEF RetryNotification, retryMetadataNotification, Configure, configureCollection,
        SetRequester, setRequester, SetRevoked, setProviderRevoked, ClaimFeeCredit,
        claimEntropyFeeCredit, draws
<1>3. ASSUME NEW t \in Tokens, NEW i \in Inputs, Mint(t, i) PROVE PendingCountExact'
    BY <1>3, <1>g DEF Mint, onTokenMinted, Subjects
<1>4. ASSUME NEW a \in Callers, NEW s \in Scopes, RegisterScope(a, s) PROVE PendingCountExact'
    <2>1. s \in Subjects /\ subjects[s].inputs \in Inputs \cup {NoInputs}
        BY <1>i DEF Subjects, RecordTypeOK, SubjectType
    <2> QED  BY <1>4, <2>1, <1>g DEF RegisterScope, registerEntropyScope
<1>5. ASSUME NEW a \in Callers, NEW v \in 0 .. MaxValue, NEW id \in Ids,
             \/ \E t \in Tokens : RequestToken(a, t, v, id)
             \/ \E s \in Scopes, i \in Inputs : RequestScope(a, s, i, v, id)
      PROVE  PendingCountExact'
    BY <1>5, <1>u DEF RequestToken, requestEntropy, RequestScope, requestScopeEntropy, Subjects
<1>6. ASSUME NEW s \in Subjects, NEW sent \in BOOLEAN, MarkStale(s, sent) \/ MarkFailed(s, sent)
      PROVE  PendingCountExact'
    <2>1. subjects[s].status = "REQUESTED" /\ subjects[s].requestKey.subject = s
        BY <1>6, <1>i DEF MarkStale, MarkFailed, RInv, SubjectInv, Unasked
    <2>2. PICK st \in {"STALE", "FAILED"} : subjects' = [subjects EXCEPT ![s] = Ended(@, st)]
        BY <1>6, <2>1 DEF MarkStale, MarkFailed, markRequestStale, markRequestFailed, terminate
    <2>3. pendingRequestCount' = pendingRequestCount - 1
        BY <1>6 DEF MarkStale, MarkFailed, markRequestStale, markRequestFailed, terminate
    <2>4. Ended(subjects[s], st).status = st
        BY <1>i DEF RecordTypeOK, SubjectType, Ended
    <2>5. Ended(subjects[s], st).status # "REQUESTED"
        BY <2>4
    <2> QED  BY <2>1, <2>2, <2>3, <2>5, <1>e
<1>7. ASSUME NEW p \in VRFProviders, NEW id \in Ids, NEW sent \in BOOLEAN,
             RetryDelivery(p, id, sent)
      PROVE  PendingCountExact'
    <2>1. results[p][id].requestKey \in Keys
        BY <1>7, <1>i, Known DEF RetryDelivery
    <2> QED  BY <1>7, <2>1, <1>d DEF RetryDelivery, Deliver
<1>8. ASSUME NEW p \in VRFProviders, NEW id \in Ids, NEW sent \in BOOLEAN, NEW words \in Words,
             NEW delivered \in BOOLEAN, OracleCallback(p, id, words, delivered, sent)
      PROVE  PendingCountExact'
    <2>1. results[p][id].requestKey \in Keys
        BY <1>8, <1>i, Known DEF OracleCallback, AcceptsCallback
    <2>2. CASE delivered
        BY <1>8, <2>1, <2>2, <1>d DEF OracleCallback, Deliver
    <2>3. CASE ~delivered
        BY <1>8, <2>3, <1>q DEF OracleCallback, coordinatorVars, draws
    <2> QED  BY <2>2, <2>3
<1>9. ASSUME NEW p \in OtherProviders, NEW id \in Ids, NEW words \in Words, NEW sent \in BOOLEAN,
             OtherFulfils(p, id, words, sent)
      PROVE  PendingCountExact'
    <2>1. providerRequestKeys[p][id] \in Keys
        BY <1>9, <1>i DEF OtherFulfils, OtherProviders, RecordTypeOK
    <2> QED  BY <1>9, <2>1, <1>d DEF OtherFulfils, Deliver
<1> QED
    BY <1>1, <1>2, <1>3, <1>4, <1>5, <1>6, <1>7, <1>8, <1>9 DEF Next

\* pendingRequestCount is exact in every reachable state, for any number of
\* subjects; in particular its unchecked decrements never underflow.
THEOREM CountExact == Spec => []PendingCountExact
<1>1. Init => PendingCountExact
    <2> SUFFICES ASSUME Init PROVE PendingCountExact
        OBVIOUS
    <2>1. \A s \in Subjects : subjects[s].status = "NONE"
        BY DEF Init, CoordinatorInit, NoSubject
    <2>2. {s \in Subjects : subjects[s].status = "REQUESTED"} = {}
        BY <2>1
    <2> QED  BY <2>2, FS_EmptySet DEF Init, CoordinatorInit, PendingCountExact
<1> QED  BY Inductive, <1>1, CountStep, PTL DEF Spec

-------------------------------------------------------------------------------
(* Refresh events: sent or owed, once per token whose entropy has ended.   *)

\* A step that ends no token's entropy and sends no refresh event keeps the account.
LEMMA RefreshKept ==
    ASSUME RefreshedOnce,
           \A t \in Tokens : (subjects[t].status \in Terminal)
                               <=> (subjects'[t].status \in Terminal),
           UNCHANGED <<metadataNotificationPending, refreshes>>
    PROVE  RefreshedOnce'
BY DEF RefreshedOnce

\* The step that ends a subject's request sends its refresh event or records the debt.
LEMMA RefreshAtEnd ==
    ASSUME IInv, RefreshedOnce, NEW s \in Subjects, NEW new, NEW sent \in BOOLEAN,
           subjects[s].status = "REQUESTED", new.status \in Terminal,
           subjects' = [subjects EXCEPT ![s] = new], notify(s, sent), Refresh(s, sent)
    PROVE  RefreshedOnce'
<1>i. /\ subjects \in [Subjects -> SubjectType] /\ refreshes \in [Tokens -> Nat]
      /\ Tokens \subseteq Subjects
    BY Split DEF MiscTypeOK, RInv, RecordTypeOK, Subjects
<1>1. CASE s \in Scopes
    <2>1. s \notin Tokens
        BY <1>1, SubjectAssumption
    <2>2. UNCHANGED <<metadataNotificationPending, refreshes>>
        BY <1>1, <2>1 DEF notify, Refresh
    <2>3. \A t \in Tokens : subjects'[t] = subjects[t]
        BY <1>i, <2>1
    <2> QED  BY <2>2, <2>3, RefreshKept
<1>2. CASE s \notin Scopes
    <2>1. s \in Tokens
        BY <1>2 DEF Subjects
    <2> SUFFICES ASSUME NEW t \in Tokens
                 PROVE  refreshes'[t]
                          + (IF t \in metadataNotificationPending' THEN 1 ELSE 0)
                          = IF subjects'[t].status \in Terminal THEN 1 ELSE 0
        BY DEF RefreshedOnce
    <2>2. refreshes[t] + (IF t \in metadataNotificationPending THEN 1 ELSE 0)
            = IF subjects[t].status \in Terminal THEN 1 ELSE 0
        BY DEF RefreshedOnce
    <2>3. refreshes[t] \in Nat
        BY <1>i
    <2>4. CASE t = s
        <3>1. subjects[t].status \notin Terminal /\ subjects'[t].status \in Terminal
            BY <1>i, <2>4 DEF Terminal
        <3>2. refreshes[t] = 0 /\ t \notin metadataNotificationPending
            BY <2>2, <2>3, <3>1
        <3>3. CASE sent
            <4>1. refreshes'[t] = refreshes[t] + 1 /\ t \notin metadataNotificationPending'
                BY <1>i, <1>2, <2>1, <2>4, <3>3 DEF notify, Refresh
            <4> QED  BY <3>1, <3>2, <4>1
        <3>4. CASE ~sent
            <4>1. refreshes'[t] = refreshes[t] /\ t \in metadataNotificationPending'
                BY <1>2, <2>4, <3>4 DEF notify, Refresh
            <4> QED  BY <3>1, <3>2, <4>1
        <3> QED  BY <3>3, <3>4
    <2>5. CASE t # s
        <3>1. subjects'[t] = subjects[t]
            BY <1>i, <2>5
        <3>2. refreshes'[t] = refreshes[t]
            BY <1>i, <2>5 DEF Refresh
        <3>3. t \in metadataNotificationPending' <=> t \in metadataNotificationPending
            BY <1>2, <2>5 DEF notify
        <3> QED  BY <2>2, <3>1, <3>2, <3>3
    <2> QED  BY <2>4, <2>5
<1> QED  BY <1>1, <1>2

\* retryMetadataNotification clears a debt with the event it is about, or leaves it.
LEMMA RefreshRetried ==
    ASSUME IInv, RefreshedOnce, NEW s \in Tokens, NEW sent \in BOOLEAN,
           RetryNotification(s, sent)
    PROVE  RefreshedOnce'
<1>i. refreshes \in [Tokens -> Nat] /\ s \notin Scopes
    BY Split, SubjectAssumption DEF MiscTypeOK
<1>1. /\ s \in metadataNotificationPending /\ UNCHANGED subjects
      /\ notify(s, sent) /\ Refresh(s, sent)
    BY DEF RetryNotification, retryMetadataNotification
<1>2. CASE sent
    <2>1. /\ metadataNotificationPending' = metadataNotificationPending \ {s}
          /\ refreshes' = [refreshes EXCEPT ![s] = @ + 1]
        BY <1>i, <1>1, <1>2 DEF notify, Refresh
    <2> SUFFICES ASSUME NEW t \in Tokens
                 PROVE  refreshes'[t]
                          + (IF t \in metadataNotificationPending' THEN 1 ELSE 0)
                          = IF subjects'[t].status \in Terminal THEN 1 ELSE 0
        BY DEF RefreshedOnce
    <2>2. /\ refreshes[t] + (IF t \in metadataNotificationPending THEN 1 ELSE 0)
               = IF subjects[t].status \in Terminal THEN 1 ELSE 0
          /\ refreshes[t] \in Nat
        BY <1>i DEF RefreshedOnce
    <2>3. CASE t = s
        <3>1. refreshes'[t] = refreshes[t] + 1 /\ t \notin metadataNotificationPending'
            BY <1>i, <2>1, <2>3
        <3> QED  BY <1>1, <2>2, <2>3, <3>1
    <2>4. CASE t # s
        <3>1. /\ refreshes'[t] = refreshes[t]
              /\ t \in metadataNotificationPending' <=> t \in metadataNotificationPending
            BY <1>i, <2>1, <2>4
        <3> QED  BY <1>1, <2>2, <3>1
    <2> QED  BY <2>3, <2>4
<1>3. CASE ~sent
    <2>1. UNCHANGED <<metadataNotificationPending, refreshes>>
        BY <1>i, <1>1, <1>3 DEF notify, Refresh
    <2> QED  BY <1>1, <2>1, RefreshKept
<1> QED  BY <1>2, <1>3

\* Every step keeps the account of refresh events exact.
LEMMA RefreshStep == IInv /\ RefreshedOnce /\ [Next]_vars => RefreshedOnce'
<1> SUFFICES ASSUME IInv, RefreshedOnce, [Next]_vars PROVE RefreshedOnce'
    OBVIOUS
<1>i. RInv /\ RecordTypeOK
    BY Split DEF RInv
<1>q. ASSUME UNCHANGED <<subjects, metadataNotificationPending, refreshes>>
      PROVE  RefreshedOnce'
    BY <1>q, RefreshKept
<1>g. ASSUME NEW s \in Subjects, NEW new, subjects[s].status \in Unasked,
             new.status \notin Terminal, subjects' = [subjects EXCEPT ![s] = new],
             UNCHANGED <<metadataNotificationPending, refreshes>>
      PROVE  RefreshedOnce'
    <2>1. \A t \in Tokens : (subjects[t].status \in Terminal)
                              <=> (subjects'[t].status \in Terminal)
        BY <1>g, <1>i DEF RecordTypeOK, Unasked, Terminal, Subjects
    <2> QED  BY <1>g, <2>1, RefreshKept
<1>r. \A x \in SubjectType : \A i :
          /\ Registered(x, i).status = "REGISTERED"
          /\ \A k : Requested(x, i, k).status = "REQUESTED"
    BY DEF SubjectType, Registered, Requested
<1>t. "REGISTERED" \notin Terminal /\ "REQUESTED" \notin Terminal
    BY DEF Terminal
<1>d. ASSUME NEW p, NEW key \in Keys, NEW raw, NEW sent \in BOOLEAN,
             Deliver(p, key, raw, sent, fulfillOutcome(p, key))
      PROVE  RefreshedOnce'
    <2>1. CASE fulfillOutcome(p, key) = 0
        <3> DEFINE new == Finalized(subjects[key.subject], deriveSeed(key, raw))
        <3>1. key.subject \in Subjects /\ subjects[key.subject].status = "REQUESTED"
            BY <2>1, KeyFields DEF fulfillOutcome
        <3>2. new.status \in Terminal
            BY <3>1, <1>i DEF RecordTypeOK, SubjectType, Finalized, Terminal
        <3>3. /\ subjects' = [subjects EXCEPT ![key.subject] = new]
              /\ notify(key.subject, sent) /\ Refresh(key.subject, sent)
            BY <1>d, <2>1 DEF Deliver, fulfillEntropy
        <3> HIDE DEF new
        <3> QED  BY <3>1, <3>2, <3>3, RefreshAtEnd
    <2>2. CASE fulfillOutcome(p, key) # 0
        BY <1>d, <2>2, <1>q DEF Deliver, fulfillEntropy, coordinatorVars, draws
    <2> QED  BY <2>1, <2>2
<1>1. CASE UNCHANGED vars \/ Tick \/ (\E t \in Tokens : Burn(t)) \/ (\E c \in Collections : Freeze(c))
           \/ ForceEther
    BY <1>1, <1>q DEF vars, Tick, Burn, Freeze, ForceEther, coordinatorVars, draws
<1>2. CASE \/ \E c \in Collections, p \in Providers, salt \in Salts, b \in PublicChoices, n \in Timeouts :
                Configure(c, p, salt, b, n)
           \/ \E r \in Requesters : SetRequester(r)
           \/ \E p \in Providers : SetRevoked(p)
           \/ \E a \in Callers : ClaimFeeCredit(a)
    BY <1>2, <1>q DEF Configure, configureCollection, SetRequester, setRequester, SetRevoked,
        setProviderRevoked, ClaimFeeCredit, claimEntropyFeeCredit, draws
<1>3. ASSUME NEW t \in Tokens, NEW i \in Inputs, Mint(t, i) PROVE RefreshedOnce'
    <2>1. /\ t \in Subjects /\ subjects[t] \in SubjectType
          /\ subjects' = [subjects EXCEPT ![t] = Registered(subjects[t], i)]
          /\ subjects[t].status \in Unasked
          /\ UNCHANGED <<metadataNotificationPending, refreshes>>
        BY <1>3, <1>i DEF Mint, onTokenMinted, Subjects, RecordTypeOK, Unasked
    <2> QED  BY <2>1, <1>g, <1>r, <1>t
<1>4. ASSUME NEW a \in Callers, NEW s \in Scopes, RegisterScope(a, s) PROVE RefreshedOnce'
    <2>1. /\ s \in Subjects /\ subjects[s] \in SubjectType
          /\ subjects' = [subjects EXCEPT ![s] = Registered(subjects[s], subjects[s].inputs)]
          /\ subjects[s].status \in Unasked
          /\ UNCHANGED <<metadataNotificationPending, refreshes>>
        BY <1>4, <1>i DEF RegisterScope, registerEntropyScope, Subjects, RecordTypeOK, Unasked
    <2> QED  BY <2>1, <1>g, <1>r, <1>t
<1>5. ASSUME NEW a \in Callers, NEW v \in 0 .. MaxValue, NEW id \in Ids,
             \/ \E t \in Tokens : RequestToken(a, t, v, id)
             \/ \E s \in Scopes, i \in Inputs : RequestScope(a, s, i, v, id)
      PROVE  RefreshedOnce'
    <2>0. PICK s \in Subjects : \E i : request(a, s, i, v, block, id) /\ UNCHANGED refreshes
        BY <1>5 DEF RequestToken, requestEntropy, RequestScope, requestScopeEntropy, Subjects
    <2>1. PICK i : request(a, s, i, v, block, id) /\ UNCHANGED refreshes
        BY <2>0
    <2>2. /\ subjects[s] \in SubjectType
          /\ subjects' = [subjects EXCEPT ![s] = Requested(subjects[s], i, requestKey(s, i))]
          /\ subjects[s].status \in Unasked
          /\ UNCHANGED <<metadataNotificationPending, refreshes>>
        BY <2>1, <1>i DEF request, Requestable, RecordTypeOK, Unasked
    <2> QED  BY <2>2, <1>g, <1>r, <1>t
<1>6. ASSUME NEW s \in Subjects, NEW sent \in BOOLEAN, MarkStale(s, sent) \/ MarkFailed(s, sent)
      PROVE  RefreshedOnce'
    <2>1. subjects[s].status = "REQUESTED" /\ subjects[s].requestKey.subject = s
        BY <1>6, <1>i DEF MarkStale, MarkFailed, RInv, SubjectInv, Unasked
    <2>2. PICK st \in {"STALE", "FAILED"} :
            /\ subjects' = [subjects EXCEPT ![s] = Ended(subjects[s], st)]
            /\ notify(s, sent) /\ Refresh(s, sent)
        BY <1>6, <2>1 DEF MarkStale, MarkFailed, markRequestStale, markRequestFailed, terminate
    <2>3. Ended(subjects[s], st).status \in Terminal
        BY <1>i DEF RecordTypeOK, SubjectType, Ended, Terminal
    <2> QED  BY <2>1, <2>2, <2>3, RefreshAtEnd
<1>7. ASSUME NEW p \in VRFProviders, NEW id \in Ids, NEW sent \in BOOLEAN,
             RetryDelivery(p, id, sent)
      PROVE  RefreshedOnce'
    <2>1. results[p][id].requestKey \in Keys
        BY <1>7, <1>i, Known DEF RetryDelivery
    <2> QED  BY <1>7, <2>1, <1>d DEF RetryDelivery
<1>8. ASSUME NEW p \in VRFProviders, NEW id \in Ids, NEW sent \in BOOLEAN, NEW words \in Words,
             NEW delivered \in BOOLEAN, OracleCallback(p, id, words, delivered, sent)
      PROVE  RefreshedOnce'
    <2>1. results[p][id].requestKey \in Keys
        BY <1>8, <1>i, Known DEF OracleCallback, AcceptsCallback
    <2>2. CASE delivered
        BY <1>8, <2>1, <2>2, <1>d DEF OracleCallback
    <2>3. CASE ~delivered
        BY <1>8, <2>3, <1>q DEF OracleCallback, coordinatorVars, draws
    <2> QED  BY <2>2, <2>3
<1>9. ASSUME NEW p \in OtherProviders, NEW id \in Ids, NEW words \in Words, NEW sent \in BOOLEAN,
             OtherFulfils(p, id, words, sent)
      PROVE  RefreshedOnce'
    <2>1. providerRequestKeys[p][id] \in Keys
        BY <1>9, <1>i DEF OtherFulfils, OtherProviders, RecordTypeOK
    <2> QED  BY <1>9, <2>1, <1>d DEF OtherFulfils
<1>10. ASSUME NEW t \in Tokens, NEW sent \in BOOLEAN, RetryNotification(t, sent)
       PROVE  RefreshedOnce'
    BY <1>10, RefreshRetried
<1> QED
    BY <1>1, <1>2, <1>3, <1>4, <1>5, <1>6, <1>7, <1>8, <1>9, <1>10 DEF Next

-------------------------------------------------------------------------------
(* Fee credits.                                                            *)

\* Every step moves the credit of at most one payer, the total and the ether by one amount.
LEMMA FeeStep == IInv /\ FeeCreditsBacked /\ [Next]_vars => FeeCreditsBacked'
<1> SUFFICES ASSUME IInv, FeeCreditsBacked, [Next]_vars PROVE FeeCreditsBacked'
    OBVIOUS
<1>i. entropyFeeCredit \in [Callers -> Nat] /\ totalFeeCredits \in Int /\ balance \in Int
      /\ forced \in Nat
    BY Split DEF MiscTypeOK
<1>q. ASSUME UNCHANGED <<fees, forced>> PROVE FeeCreditsBacked'
    BY <1>q DEF fees, FeeCreditsBacked
<1>m. ASSUME NEW a \in Callers, NEW n \in Int,
             entropyFeeCredit' = [entropyFeeCredit EXCEPT ![a] = entropyFeeCredit[a] + n],
             totalFeeCredits' = totalFeeCredits + n, balance' = balance + n, forced' = forced
      PROVE  FeeCreditsBacked'
    <2>1. /\ \A b \in Callers : entropyFeeCredit[b] \in Int /\ entropyFeeCredit'[b] \in Int
          /\ \A b \in Callers \ {a} : entropyFeeCredit'[b] = entropyFeeCredit[b]
          /\ entropyFeeCredit'[a] = entropyFeeCredit[a] + n
        BY <1>i, <1>m
    <2>2. SumOver(entropyFeeCredit', Callers)
            = SumOver(entropyFeeCredit, Callers) - entropyFeeCredit[a] + entropyFeeCredit'[a]
        BY <2>1, FiniteAssumption, SumUpdate
    <2>3. totalFeeCredits = SumOver(entropyFeeCredit, Callers)
          /\ balance = totalFeeCredits + forced
        BY DEF FeeCreditsBacked
    <2>4. entropyFeeCredit[a] \in Int
        BY <2>1
    <2>5. totalFeeCredits' = SumOver(entropyFeeCredit', Callers)
        BY <1>i, <1>m, <2>1, <2>2, <2>3, <2>4
    <2>6. balance' = totalFeeCredits' + forced'
        BY <1>i, <1>m, <2>3
    <2> QED  BY <2>5, <2>6 DEF FeeCreditsBacked
<1>d. ASSUME NEW p, NEW key, NEW raw, NEW sent,
             fulfillEntropy(p, key, raw, sent, fulfillOutcome(p, key)), forced' = forced
      PROVE  FeeCreditsBacked'
    BY <1>d, <1>q DEF fulfillEntropy, coordinatorVars
<1>1. CASE UNCHANGED vars \/ Tick \/ (\E t \in Tokens : Burn(t)) \/ (\E c \in Collections : Freeze(c))
    BY <1>1, <1>q DEF vars, env, Tick, Burn, Freeze, coordinatorVars
<1>2. CASE \/ \E t \in Tokens, sent \in BOOLEAN : RetryNotification(t, sent)
           \/ \E c \in Collections, p \in Providers, salt \in Salts, b \in PublicChoices, n \in Timeouts :
                Configure(c, p, salt, b, n)
           \/ \E r \in Requesters : SetRequester(r)
           \/ \E p \in Providers : SetRevoked(p)
           \/ \E t \in Tokens, i \in Inputs : Mint(t, i)
           \/ \E a \in Callers, s \in Scopes : RegisterScope(a, s)
    BY <1>2, <1>q DEF RetryNotification, retryMetadataNotification, Configure, configureCollection,
        SetRequester, setRequester, SetRevoked, setProviderRevoked, Mint, onTokenMinted,
        RegisterScope, registerEntropyScope, env
<1>3. ASSUME NEW a \in Callers, ClaimFeeCredit(a) PROVE FeeCreditsBacked'
    <2> DEFINE n == 0 - entropyFeeCredit[a]
    <2>1. n \in Int /\ entropyFeeCredit[a] + n = 0
        BY <1>i
    <2>2. /\ entropyFeeCredit' = [entropyFeeCredit EXCEPT ![a] = 0]
          /\ totalFeeCredits' = totalFeeCredits - entropyFeeCredit[a]
          /\ balance' = balance - entropyFeeCredit[a]
        BY <1>3 DEF ClaimFeeCredit, claimEntropyFeeCredit
    <2>3. totalFeeCredits' = totalFeeCredits + n /\ balance' = balance + n /\ forced' = forced
        BY <1>i, <1>3, <2>2 DEF ClaimFeeCredit, env
    <2>4. entropyFeeCredit' = [entropyFeeCredit EXCEPT ![a] = entropyFeeCredit[a] + n]
        BY <2>1, <2>2
    <2> HIDE DEF n
    <2> QED  BY <2>1, <2>3, <2>4, <1>m
<1>4. ASSUME NEW a \in Callers, NEW v \in 0 .. MaxValue, NEW id \in Ids,
             \/ \E t \in Tokens : RequestToken(a, t, v, id)
             \/ \E s \in Scopes, i \in Inputs : RequestScope(a, s, i, v, id)
      PROVE  FeeCreditsBacked'
    <2>f. forced' = forced
        BY <1>4 DEF RequestToken, RequestScope, env
    <2>0. PICK s \in Subjects : \E i : request(a, s, i, v, block, id)
        BY <1>4 DEF RequestToken, requestEntropy, RequestScope, requestScopeEntropy, Subjects
    <2>1. PICK i : request(a, s, i, v, block, id)
        BY <2>0
    <2>2. ConfigOf(s).provider \in Providers
        <3>1. /\ subjects[s].status # "NONE" /\ PolicyInv
              /\ config[CollectionOf[s]] \in ConfigType
            BY <2>1, Split, SubjectAssumption DEF request, Requestable, RInv, RecordTypeOK
        <3> QED  BY <3>1 DEF PolicyInv, ConfigOf, ConfigType
    <2> DEFINE n == v - Fee[ConfigOf(s).provider]
    <2>3. Fee[ConfigOf(s).provider] \in Int /\ v \in Int /\ n \in Int
        BY <2>2, NumberAssumption
    <2>4. /\ entropyFeeCredit' = [entropyFeeCredit EXCEPT ![a] = entropyFeeCredit[a] + n]
          /\ totalFeeCredits' = totalFeeCredits + n
          /\ balance' = balance + v - Fee[ConfigOf(s).provider]
        BY <2>1 DEF request, Excess
    <2>5. balance' = balance + n
        BY <1>i, <2>3, <2>4
    <2> HIDE DEF n
    <2> QED  BY <2>3, <2>4, <2>5, <2>f, <1>m
<1>5. ASSUME NEW s \in Subjects, NEW sent \in BOOLEAN, MarkStale(s, sent) \/ MarkFailed(s, sent)
      PROVE  FeeCreditsBacked'
    BY <1>5, <1>q DEF MarkStale, MarkFailed, markRequestStale, markRequestFailed, terminate, env
<1>6. ASSUME NEW p \in VRFProviders, NEW id \in Ids, NEW sent \in BOOLEAN,
             RetryDelivery(p, id, sent)
      PROVE  FeeCreditsBacked'
    BY <1>6, <1>d DEF RetryDelivery, Deliver, env
<1>7. ASSUME NEW p \in VRFProviders, NEW id \in Ids, NEW sent \in BOOLEAN, NEW words \in Words,
             NEW delivered \in BOOLEAN, OracleCallback(p, id, words, delivered, sent)
      PROVE  FeeCreditsBacked'
    <2>1. CASE delivered
        BY <1>7, <2>1, <1>d DEF OracleCallback, Deliver, env
    <2>2. CASE ~delivered
        BY <1>7, <2>2, <1>q DEF OracleCallback, coordinatorVars, env
    <2> QED  BY <2>1, <2>2
<1>8. ASSUME NEW p \in OtherProviders, NEW id \in Ids, NEW words \in Words, NEW sent \in BOOLEAN,
             OtherFulfils(p, id, words, sent)
      PROVE  FeeCreditsBacked'
    BY <1>8, <1>d DEF OtherFulfils, Deliver, env
<1>9. CASE ForceEther
    BY <1>9, <1>i DEF ForceEther, FeeCreditsBacked
<1> QED
    BY <1>1, <1>2, <1>3, <1>4, <1>5, <1>6, <1>7, <1>8, <1>9 DEF Next

\* Everything the coordinator counts by hand is exact in every reachable state: open requests,
\* the refresh event each token is sent or owed, and the ether credited to payers, which with what
\* was forced into it is all the ether it holds.
THEOREM BooksAreExact == Spec => []BooksExact
<1>1. Init => RefreshedOnce /\ FeeCreditsBacked
    <2> SUFFICES ASSUME Init PROVE RefreshedOnce /\ FeeCreditsBacked
        OBVIOUS
    <2>1. RefreshedOnce
        BY DEF Init, CoordinatorInit, RefreshedOnce, NoSubject, Terminal, Subjects
    <2>2. \A a \in Callers : entropyFeeCredit[a] = 0
        BY DEF Init, CoordinatorInit
    <2>3. SumOver(entropyFeeCredit, Callers) = 0
        BY <2>2, FiniteAssumption, SumZero
    <2>4. FeeCreditsBacked
        BY <2>3 DEF Init, CoordinatorInit, FeeCreditsBacked
    <2> QED  BY <2>1, <2>4
<1> QED  BY Inductive, CountExact, <1>1, RefreshStep, FeeStep, PTL DEF Spec, BooksExact

===============================================================================
