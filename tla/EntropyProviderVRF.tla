-------------------------- MODULE EntropyProviderVRF --------------------------
(***************************************************************************)
(* StreamEntropyProviderVRF: the adapter between the coordinator and the   *)
(* Chainlink VRF oracle.  It stores the oracle's answer before it tries to *)
(* deliver it, so a delivery that fails can be retried by anybody.         *)
(*                                                                         *)
(* Every adapter deployment is an element of Adapters with its own results *)
(* by oracle request id.  The oracle picks the ids; the coordinator's      *)
(* reply to a delivery is a parameter.  A revert is the absence of a step. *)
(***************************************************************************)
EXTENDS Naturals

CONSTANTS Adapters, RequestKeys, RequestIds, NoRequestKey, OracleWords, NoAnswer

RawOf(key, id, words) == [key |-> key, id |-> id, words |-> words]
Answers == [key : RequestKeys, id : RequestIds, words : OracleWords]

VARIABLES results, keyToVrfRequest

ResultStatuses == {"UNKNOWN", "REQUESTED", "RAW_RANDOMNESS_RECEIVED", "DELIVERED",
                   "TERMINAL_STALE", "TERMINAL_FAILED"}
ResultType == [requestKey : RequestKeys \cup {NoRequestKey}, raw : Answers \cup {NoAnswer},
               status : ResultStatuses]

ProviderTypeOK ==
    /\ results \in [Adapters -> [RequestIds -> ResultType]]
    /\ keyToVrfRequest \in [Adapters -> [RequestKeys -> RequestIds \cup {0}]]

UnknownResult == [requestKey |-> NoRequestKey, raw |-> NoAnswer, status |-> "UNKNOWN"]

Asked(result, key) == [result EXCEPT !.requestKey = key, !.status = "REQUESTED"]
Replied(result, raw, status) == [result EXCEPT !.raw = raw, !.status = status]

ProviderInit ==
    /\ results = [p \in Adapters |-> [i \in RequestIds |-> UnknownResult]]
    /\ keyToVrfRequest = [p \in Adapters |-> [k \in RequestKeys |-> 0]]

-------------------------------------------------------------------------------
\* requestEntropy, with the id the oracle's requestRandomWords returned.
providerRequest(p, key, id) ==
    /\ keyToVrfRequest[p][key] = 0
    /\ results[p][id].requestKey = NoRequestKey
    /\ keyToVrfRequest' = [keyToVrfRequest EXCEPT ![p] = [@ EXCEPT ![key] = id]]
    /\ results' = [results EXCEPT ![p] = [@ EXCEPT ![id] = Asked(results[p][id], key)]]

\* Mutant: every reply of the coordinator closes the result.
StatusAfter_AlwaysDelivered(delivered, outcome) ==
    IF delivered THEN "DELIVERED" ELSE "RAW_RANDOMNESS_RECEIVED"

\* Mutant: a delivery that failed closes the result as well.
StatusAfter_FailureCloses(delivered, outcome) ==
    IF delivered /\ outcome \in {0, 3} THEN "DELIVERED" ELSE "TERMINAL_STALE"

\* _deliver: the stored status once the coordinator replied with outcome, or did not reply.
StatusAfter(delivered, outcome) ==
    IF delivered /\ outcome \in {0, 3} THEN "DELIVERED"
    ELSE IF delivered /\ outcome \in {1, 2} THEN "TERMINAL_STALE"
    ELSE "RAW_RANDOMNESS_RECEIVED"

AcceptsCallback(p, id) == results[p][id].status = "REQUESTED"

\* fulfillRandomWords for an accepted callback; any other callback is ignored.
fulfillRandomWords(p, id, words, delivered, outcome) ==
    /\ AcceptsCallback(p, id)
    /\ results' = [results EXCEPT ![p] = [@ EXCEPT ![id] =
                     Replied(results[p][id], RawOf(results[p][id].requestKey, id, words),
                             StatusAfter(delivered, outcome))]]
    /\ UNCHANGED keyToVrfRequest

retryCoordinatorFulfillment(p, id, delivered, outcome) ==
    /\ results[p][id].status = "RAW_RANDOMNESS_RECEIVED"
    /\ results' = [results EXCEPT ![p] = [@ EXCEPT ![id] =
                     Replied(results[p][id], results[p][id].raw, StatusAfter(delivered, outcome))]]
    /\ UNCHANGED keyToVrfRequest

\* The rawRandomnessReceived flag of providerResultStatus.
Received(p, id) ==
    results[p][id].status \in {"RAW_RANDOMNESS_RECEIVED", "DELIVERED", "TERMINAL_STALE"}
===============================================================================
