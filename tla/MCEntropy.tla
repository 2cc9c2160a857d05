------------------------------- MODULE MCEntropy -------------------------------
(* Instances of Entropy for TLC. *)
EXTENDS Entropy, TLC

CONSTANTS c1, vrf, other

OneCollection == [s \in Tokens \cup Scopes |-> c1]
\* The VRF adapter charges nothing per request; the other adapter charges one wei.
Fees == [p \in Providers |-> IF p = other THEN 1 ELSE 0]

===============================================================================
