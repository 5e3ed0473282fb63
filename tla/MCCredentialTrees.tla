--------------------------- MODULE MCCredentialTrees ---------------------------
(***************************************************************************)
(* Three credentials, two revocations, and a tree of two leaves.           *)
(***************************************************************************)
EXTENDS CredentialTrees, TLC

CONSTANTS c1, c2, c3, v1, v2

MCCredentials == {c1, c2, c3}
MCRevocations == {v1, v2}
Symmetry == Permutations(MCCredentials) \union Permutations(MCRevocations)

\* Bound: at most two calls are under way at once.
TwoUnderWay == Cardinality({k \in Calls : calls[k].at # Nil}) <= 2

ScenarioSpec == Init /\ [][Next /\ TwoUnderWay']_vars
=============================================================================
