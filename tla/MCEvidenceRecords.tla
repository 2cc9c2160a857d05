-------------------------- MODULE MCEvidenceRecords --------------------------
(* Instances of EvidenceRecords: every kind of record with two edits, and  *)
(* the permanence package alone.                                           *)
EXTENDS EvidenceRecords

Pair(a, b) == [vrf |-> a, arrng |-> b]
P1 == [chain |-> "1", signer |-> "s1", epoch |-> 1, digest |-> "d1", sale |-> "auction"]
P2 == [P1 EXCEPT !.signer = "s2", !.digest = "d2"]
P3 == [P1 EXCEPT !.chain = "31337", !.sale = "fixed_price"]

Plain == [adapter |-> Pair("a", "b"), provider |-> Pair("p", "q"), payload |-> P1,
          unsafe |-> FALSE, secret |-> FALSE]

(* 11 and 12 are deployments, 21 to 24 payloads, 31 holds a secret. *)
MCFacts == [c \in (0..50) \cup {Absent} |->
    CASE c = 12 -> [Plain EXCEPT !.adapter = Pair("a2", "b")]
      [] c = 22 -> [Plain EXCEPT !.payload = P2]
      [] c = 23 -> [Plain EXCEPT !.payload = P3]
      [] c = 24 -> [Plain EXCEPT !.unsafe = TRUE]
      [] c = 31 -> [Plain EXCEPT !.secret = TRUE]
      [] OTHER -> Plain]

MCContents == [manifest |-> {11, 12}, book |-> {11, 12}, payload |-> {21, 22, 23, 24},
    retained |-> {30, 31, Absent}, evidence |-> {32, 33}, checksums |-> {34, 35},
    renderer |-> {36, Absent}, dependencies |-> {37, 38}, archive |-> {39},
    descriptors |-> {40, 41}, sibling |-> {1, 2}, release_manifest |-> {1}]

Ctx == [wallet |-> "EOA", payload |-> P1, payload_kind |-> "auction", signer |-> "s1",
        epoch |-> 1, adapter |-> Pair("a", "b"), provider |-> Pair("p", "q"),
        ref |-> "release_binding"]

MCContexts ==
    [k \in RecordKinds |->
        CASE k = "custody" -> {Ctx, [Ctx EXCEPT !.wallet = "ERC1271"]}
          [] k = "signing" -> {Ctx, [Ctx EXCEPT !.payload = P2, !.signer = "s2"],
                               [Ctx EXCEPT !.payload = P3, !.payload_kind = "fixed_price"],
                               [Ctx EXCEPT !.signer = "s2"]}
          [] k = "randomizer" -> {Ctx, [Ctx EXCEPT !.adapter = Pair("a2", "b")]}
          [] k = "provenance" -> {Ctx, [Ctx EXCEPT !.ref = "creation"]}
          [] OTHER -> {Ctx}]

MCTargets == {[env |-> "fork", chain |-> "1"],
              [env |-> "mainnet", chain |-> "1"]}
===============================================================================
