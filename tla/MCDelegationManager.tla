------------------------- MODULE MCDelegationManager -------------------------
(***************************************************************************)
(* A finite instance of DelegationManager for TLC: a1 delegates scopes s1  *)
(* and s2 to a2, which delegates s1 on to a3, and one scope is the limit.  *)
(***************************************************************************)
EXTENDS DelegationManager

CONSTANTS a1, a2, a3, s1, s2

\* A delegation that ends with the first tick and one that never ends.
L12 == [delegator |-> a1, delegate |-> a2, scopeHash |-> s1, expiresAt |-> 0]
L12s2 == [delegator |-> a1, delegate |-> a2, scopeHash |-> s2, expiresAt |-> 0]
L23 == [delegator |-> a2, delegate |-> a3, scopeHash |-> s1, expiresAt |-> 1]

MCRoots == {{L12, L12s2}, {L23}}
MCPublications ==
    {<<a1, s1, {L12, L12s2}, e>> : e \in {0, 1}} \cup
    {<<a1, s1, NoRoot, 0>>, <<a1, s2, {L12, L12s2}, 0>>, <<a2, s1, {L23}, 0>>}
MCRevocations == {<<L12, a1>>, <<L23, a2>>, <<L23, a3>>}

HopOf(leaf, depth) ==
    [leaf |-> leaf, delegator |-> leaf.delegator, delegate |-> leaf.delegate,
     scopeHash |-> leaf.scopeHash, expiresAt |-> leaf.expiresAt, maxDepth |-> depth]
MCChains ==
    {<<HopOf(L12, 1)>>, <<HopOf(L12s2, 1)>>, <<HopOf(L23, 1)>>,
     <<HopOf(L12, 1), HopOf(L23, 2)>>, <<HopOf(L12, 1), HopOf(L23, 1)>>,
     <<HopOf(L12s2, 1), HopOf(L23, 2)>>}
=============================================================================
