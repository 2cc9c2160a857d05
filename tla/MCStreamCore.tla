----------------------------- MODULE MCStreamCore -----------------------------
(* Instances of StreamCore for TLC. *)
EXTENDS StreamCore, TLC

CONSTANTS m1, m2, c1, c2, r1

TwoManagers ==
    (MINT_MANAGER :> {m1, m2}) @@ (ENTROPY_COORDINATOR :> {c1}) @@ (MODULE_REGISTRY :> {r1})

TwoCoordinators ==
    (MINT_MANAGER :> {m1, m2}) @@ (ENTROPY_COORDINATOR :> {c1, c2}) @@ (MODULE_REGISTRY :> {r1})

\* The managers, and the coordinators, are interchangeable.
Symmetry == Permutations({m1, m2}) \cup Permutations({c1, c2})

===============================================================================
