----------------------- MODULE DelegationManagerProofs -----------------------
(***************************************************************************)
(* Proofs about DelegationManager, for any accounts, scopes, trees, chains *)
(* and limits.                                                             *)
(***************************************************************************)
EXTENDS DelegationManager, FiniteSetTheorems, TLAPS

-----------------------------------------------------------------------------
(* What each kind of step leaves alone.                                    *)

\* The steps other than a publication and a re-authorisation: roots stay and
\* revocations only grow.
Monotone ==
    /\ UNCHANGED rootVars
    /\ revokedDelegators \subseteq revokedDelegators'
    /\ revokedDelegations \subseteq revokedDelegations'
    /\ now' \in {now, now + 1}

LEMMA StepKinds ==
    ASSUME TypeOK, [Next]_vars
    PROVE  \/ Monotone
           \/ \E caller \in Accounts, d \in Accounts : ReAuthorizeDelegator(caller, d)
           \/ \E caller \in Accounts, p \in Publications :
                UpdateDelegationRoot(caller, p[1], p[2], p[3], p[4])
  <1>1. CASE RoleStep
    BY <1>1 DEF RoleStep, Monotone, rootVars, revocationVars, Pause, Unpause,
                RenounceRootUpdater, RegisterScope, SetRootUpdater, SetAdmin
  <1>2. ASSUME NEW caller \in Accounts, NEW d \in Accounts, EmergencyRevokeAll(caller, d)
        PROVE  Monotone
    BY <1>2 DEF Monotone, EmergencyRevokeAll, rootVars
  <1>3. ASSUME NEW caller \in Accounts, NEW r \in Revocations,
               RevokeDelegation(caller, r[1], r[2])
        PROVE  Monotone
    BY <1>3 DEF Monotone, RevokeDelegation, rootVars
  <1>4. CASE Tick
    BY <1>4 DEF Tick, Monotone, rootVars, revocationVars
  <1>5. CASE UNCHANGED vars
    BY <1>5 DEF vars, Monotone, rootVars, revocationVars
  <1>6. QED
    BY <1>1, <1>2, <1>3, <1>4, <1>5 DEF Next, RootStep

-----------------------------------------------------------------------------
(* The invariant.                                                          *)

LEMMA NoDelegationRootTyped == NoDelegationRoot \in DelegationRoot
  BY DEF NoDelegationRoot, DelegationRoot

LEMMA InitIInv == Init => IInv
  <1> SUFFICES ASSUME Init PROVE IInv
    OBVIOUS
  <1>1. TypeOK
    <2>1. delegationRoots \in [Accounts -> [Scopes -> DelegationRoot]]
      BY NoDelegationRootTyped DEF Init
    <2>2. now \in 0 .. MaxNow /\ admins \subseteq Accounts /\ rootUpdaters \subseteq Accounts
      BY DelegationAssumption DEF Init
    <2>3. QED
      BY <2>1, <2>2 DEF Init, TypeOK
  <1>2. LiveScopesTracked
    BY DEF Init, LiveScopesTracked, LiveScopes, NoDelegationRoot
  <1>3. TrackedScopesWithinLimit
    <2>1. IsFiniteSet({}) /\ Cardinality({}) = 0
      BY FS_EmptySet
    <2>2. QED
      BY <2>1, DelegationAssumption DEF Init, TrackedScopesWithinLimit
  <1>4. QED
    BY <1>1, <1>2, <1>3 DEF IInv

LEMMA RoleTypeOK ==
    ASSUME TypeOK, RoleStep
    PROVE  TypeOK'
  <1> PICK caller \in Accounts :
        \/ Pause(caller) \/ Unpause(caller)
        \/ RenounceRootUpdater(caller)
        \/ \E s \in Scopes : RegisterScope(caller, s)
        \/ \E a \in RoleHolders, allowed \in BOOLEAN :
            SetRootUpdater(caller, a, allowed) \/ SetAdmin(caller, a, allowed)
    BY DEF RoleStep
  <1>1. CASE Pause(caller) \/ Unpause(caller) \/ RenounceRootUpdater(caller)
    BY <1>1 DEF TypeOK, Pause, Unpause, RenounceRootUpdater,
                rootVars, roleVars, revocationVars
  <1>2. ASSUME NEW s \in Scopes, RegisterScope(caller, s) PROVE TypeOK'
    BY <1>2 DEF TypeOK, RegisterScope, rootVars, roleVars, revocationVars
  <1>3. ASSUME NEW a \in RoleHolders, NEW allowed \in BOOLEAN,
               SetRootUpdater(caller, a, allowed) \/ SetAdmin(caller, a, allowed)
        PROVE  TypeOK'
    BY <1>3, DelegationAssumption
    DEF TypeOK, SetRootUpdater, SetAdmin, rootVars, revocationVars
  <1>4. QED
    BY <1>1, <1>2, <1>3

LEMMA RevocationTypeOK ==
    ASSUME TypeOK, NEW caller \in Accounts,
           \/ \E d \in Accounts : EmergencyRevokeAll(caller, d)
           \/ \E r \in Revocations : RevokeDelegation(caller, r[1], r[2])
    PROVE  TypeOK'
  <1>1. ASSUME NEW d \in Accounts, EmergencyRevokeAll(caller, d) PROVE TypeOK'
    BY <1>1 DEF TypeOK, EmergencyRevokeAll, rootVars, roleVars
  <1>2. ASSUME NEW r \in Revocations, RevokeDelegation(caller, r[1], r[2]) PROVE TypeOK'
    <2>1. r[1] \in Leaf
      BY <1>2, DelegationAssumption
    <2>2. QED
      BY <1>2, <2>1 DEF TypeOK, RevokeDelegation, rootVars, roleVars
  <1>3. QED
    BY <1>1, <1>2

LEMMA MonotoneIInv ==
    ASSUME IInv, Monotone
    PROVE  LiveScopesTracked' /\ TrackedScopesWithinLimit'
  BY DEF IInv, Monotone, rootVars, LiveScopesTracked, TrackedScopesWithinLimit, LiveScopes

LEMMA ReAuthorizeIInv ==
    ASSUME IInv, NEW caller \in Accounts, NEW d \in Accounts, ReAuthorizeDelegator(caller, d)
    PROVE  IInv' /\ LiveScopes(d)' = {}
  <1> USE DEF IInv
  <1>1. /\ delegatorScopes' \in [Accounts -> SUBSET Scopes]
        /\ delegatorScopes'[d] = {}
        /\ \A e \in Accounts \ {d} : delegatorScopes'[e] = delegatorScopes[e]
    BY DEF ReAuthorizeDelegator, TypeOK
  <1>2. /\ \A s \in Scopes : delegationRoots'[d][s] =
              IF s \in delegatorScopes[d] THEN NoDelegationRoot ELSE delegationRoots[d][s]
        /\ \A e \in Accounts \ {d} : delegationRoots'[e] = delegationRoots[e]
    BY DEF ReAuthorizeDelegator, TypeOK
  <1>3. delegationRoots' \in [Accounts -> [Scopes -> DelegationRoot]]
    BY NoDelegationRootTyped DEF ReAuthorizeDelegator, TypeOK
  <1>4. TypeOK'
    BY <1>1, <1>3 DEF ReAuthorizeDelegator, TypeOK, roleVars
  <1>5. LiveScopes(d)' = {}
    BY <1>2 DEF LiveScopes, LiveScopesTracked, NoDelegationRoot
  <1>6. LiveScopesTracked'
    BY <1>1, <1>2, <1>5 DEF LiveScopes, LiveScopesTracked
  <1>7. TrackedScopesWithinLimit'
    <2>1. IsFiniteSet({}) /\ Cardinality({}) = 0
      BY FS_EmptySet
    <2>2. 0 <= MaxScopes
      BY DelegationAssumption
    <2>3. ASSUME NEW e \in Accounts
          PROVE  IsFiniteSet(delegatorScopes'[e]) /\ Cardinality(delegatorScopes'[e]) <= MaxScopes
      <3>1. CASE e = d
        BY <1>1, <2>1, <2>2, <3>1
      <3>2. CASE e # d
        BY <1>1, <3>2 DEF TrackedScopesWithinLimit
      <3>3. QED
        BY <3>1, <3>2
    <2>4. QED
      BY <2>3 DEF TrackedScopesWithinLimit
  <1>8. QED
    BY <1>4, <1>5, <1>6, <1>7

LEMMA UpdateIInv ==
    ASSUME IInv, NEW caller \in Accounts, NEW d \in Accounts, NEW s \in Scopes,
           NEW newRoot \in Roots \cup {NoRoot}, NEW expiresAt \in Nat,
           UpdateDelegationRoot(caller, d, s, newRoot, expiresAt)
    PROVE  IInv'
  <1> USE DEF IInv
  <1> DEFINE written == [root |-> newRoot, expiresAt |-> expiresAt, createdAt |-> now]
  <1>1. written \in DelegationRoot
    BY DEF TypeOK, DelegationRoot
  <1>2. /\ delegationRoots' \in [Accounts -> [Scopes -> DelegationRoot]]
        /\ delegationRoots'[d][s] = written
        /\ \A e \in Accounts, z \in Scopes :
              e # d \/ z # s => delegationRoots'[e][z] = delegationRoots[e][z]
    BY <1>1 DEF UpdateDelegationRoot, TypeOK
  <1>3. /\ delegatorScopes' \in [Accounts -> SUBSET Scopes]
        /\ delegatorScopes'[d] = IF IsNewScope(d, s, newRoot) THEN delegatorScopes[d] \cup {s}
                                 ELSE delegatorScopes[d]
        /\ \A e \in Accounts \ {d} : delegatorScopes'[e] = delegatorScopes[e]
    BY DEF UpdateDelegationRoot, TypeOK
  <1>4. TypeOK'
    BY <1>2, <1>3 DEF UpdateDelegationRoot, TypeOK, roleVars, revocationVars
  <1>5. LiveScopesTracked'
    BY <1>2, <1>3 DEF LiveScopesTracked, LiveScopes, IsNewScope
  <1>6. TrackedScopesWithinLimit'
    <2>1. ASSUME IsNewScope(d, s, newRoot)
          PROVE  /\ IsFiniteSet(delegatorScopes[d] \cup {s})
                 /\ Cardinality(delegatorScopes[d] \cup {s}) <= MaxScopes
      <3>1. IsFiniteSet(delegatorScopes[d])
        BY DEF TrackedScopesWithinLimit
      <3>2. /\ IsFiniteSet(delegatorScopes[d] \cup {s})
            /\ Cardinality(delegatorScopes[d] \cup {s}) =
                  IF s \in delegatorScopes[d] THEN Cardinality(delegatorScopes[d])
                  ELSE Cardinality(delegatorScopes[d]) + 1
        BY <3>1, FS_AddElement
      <3>3. Cardinality(delegatorScopes[d]) \in Nat
        BY <3>1, FS_CardinalityType
      <3>4. Cardinality(delegatorScopes[d]) < MaxScopes
        BY <2>1 DEF UpdateDelegationRoot
      <3>5. QED
        BY <3>2, <3>3, <3>4, DelegationAssumption
    <2>2. QED
      BY <1>3, <2>1 DEF TrackedScopesWithinLimit
  <1>7. QED
    BY <1>4, <1>5, <1>6

LEMMA PublicationTyped ==
    ASSUME NEW p \in Publications
    PROVE  /\ p[1] \in Accounts /\ p[2] \in Scopes
           /\ p[3] \in Roots \cup {NoRoot} /\ p[4] \in Nat
  BY DelegationAssumption

LEMMA StepIInv == IInv /\ [Next]_vars => IInv'
  <1> SUFFICES ASSUME IInv, [Next]_vars PROVE IInv'
    OBVIOUS
  <1>1. CASE \E caller \in Accounts, d \in Accounts : ReAuthorizeDelegator(caller, d)
    BY <1>1, ReAuthorizeIInv
  <1>2. CASE \E caller \in Accounts, p \in Publications :
                UpdateDelegationRoot(caller, p[1], p[2], p[3], p[4])
    BY <1>2, UpdateIInv, PublicationTyped
  <1>3. CASE Monotone
    <2>1. TypeOK
      BY DEF IInv
    <2>2. TypeOK'
      <3>1. CASE RoleStep
        BY <2>1, <3>1, RoleTypeOK
      <3>2. CASE RootStep
        BY <2>1, <3>2, <1>1, <1>2, RevocationTypeOK DEF RootStep, IInv
      <3>3. CASE Tick
        BY <2>1, <3>3, DelegationAssumption
        DEF TypeOK, Tick, roleVars, rootVars, revocationVars
      <3>4. CASE UNCHANGED vars
        BY <2>1, <3>4 DEF TypeOK, vars, roleVars, rootVars, revocationVars
      <3>5. QED
        BY <3>1, <3>2, <3>3, <3>4 DEF Next
    <2>3. QED
      BY <1>3, <2>2, MonotoneIInv DEF IInv
  <1>4. QED
    BY <1>1, <1>2, <1>3, StepKinds DEF IInv

\* Every reachable state satisfies the inductive invariant.
THEOREM Invariance == Spec => []IInv
  BY InitIInv, StepIInv, PTL DEF Spec

\* Every variable of the delegation manager keeps its type.
THEOREM TypeCorrect == Spec => []TypeOK
  <1>1. IInv => TypeOK
    BY DEF IInv
  <1>2. QED
    BY <1>1, Invariance, PTL

\* A delegator never has more live scopes than the limit.
THEOREM LiveScopesLimited == Spec => []LiveScopesWithinLimit
  <1>1. ASSUME IInv PROVE LiveScopesWithinLimit
    <2> SUFFICES ASSUME NEW d \in Accounts PROVE Cardinality(LiveScopes(d)) <= MaxScopes
      BY DEF LiveScopesWithinLimit
    <2>1. /\ IsFiniteSet(delegatorScopes[d])
          /\ Cardinality(delegatorScopes[d]) <= MaxScopes
          /\ LiveScopes(d) \subseteq delegatorScopes[d]
      BY <1>1 DEF IInv, TrackedScopesWithinLimit, LiveScopesTracked
    <2>2. /\ IsFiniteSet(LiveScopes(d))
          /\ Cardinality(LiveScopes(d)) <= Cardinality(delegatorScopes[d])
      BY <2>1, FS_Subset
    <2>3. Cardinality(LiveScopes(d)) \in Nat /\ Cardinality(delegatorScopes[d]) \in Nat
      BY <2>1, <2>2, FS_CardinalityType
    <2>4. QED
      BY <2>1, <2>2, <2>3, DelegationAssumption
  <1>2. QED
    BY <1>1, Invariance, PTL

\* A re-authorised delegator starts without a live root.
THEOREM ReAuthorizationClears == Spec => ReAuthorizedHoldsNoRoot
  <1>1. ASSUME IInv, [Next]_vars
        PROVE  [\A d \in Accounts :
                 d \in revokedDelegators /\ d \notin revokedDelegators'
                     => LiveScopes(d)' = {}]_vars
    <2> SUFFICES ASSUME NEW d \in Accounts, d \in revokedDelegators, d \notin revokedDelegators'
                 PROVE  LiveScopes(d)' = {}
      OBVIOUS
    <2>1. ~Monotone
      BY DEF Monotone
    <2>2. ASSUME NEW caller \in Accounts, NEW p \in Publications
          PROVE  ~UpdateDelegationRoot(caller, p[1], p[2], p[3], p[4])
      BY DEF UpdateDelegationRoot, revocationVars
    <2>3. PICK caller \in Accounts, e \in Accounts : ReAuthorizeDelegator(caller, e)
      BY <1>1, <2>1, <2>2, StepKinds DEF IInv
    <2>4. e = d
      BY <2>3 DEF ReAuthorizeDelegator
    <2>5. QED
      BY <1>1, <2>3, <2>4, ReAuthorizeIInv
  <1>2. QED
    BY <1>1, Invariance, PTL DEF Spec, ReAuthorizedHoldsNoRoot

-----------------------------------------------------------------------------
(* Only a publication makes a chain verify.                                *)

\* Without a publication for it, a hop that verifies after a step verified
\* before: roots only vanish, revocations only grow and time only passes.
LEMMA HopStands ==
    ASSUME IInv, [Next]_vars, NEW hop \in Hop, NEW delegate, NEW depth,
           ~Publishes(hop.delegator, hop.scopeHash),
           VerifySingleHop(hop, delegate, depth)'
    PROVE  VerifySingleHop(hop, delegate, depth)
  <1> DEFINE d == hop.delegator
             s == hop.scopeHash
  <1>1. d \in Accounts /\ s \in Scopes /\ hop.expiresAt \in Nat
    BY DEF Hop
  <1>2. /\ d \notin revokedDelegators'
        /\ delegationRoots'[d][s].root # NoRoot
        /\ hop.leaf \notin revokedDelegations'
    BY DEF VerifySingleHop
  <1>3. SUFFICES /\ delegationRoots'[d][s] = delegationRoots[d][s]
                 /\ d \notin revokedDelegators
                 /\ hop.leaf \notin revokedDelegations
                 /\ now' \in {now, now + 1}
    <2>1. delegationRoots[d][s].expiresAt \in Nat /\ now \in Nat
      BY <1>1 DEF IInv, TypeOK, DelegationRoot
    <2>2. QED
      BY <1>1, <1>3, <2>1 DEF VerifySingleHop, Expired
  <1>4. CASE Monotone
    BY <1>2, <1>4 DEF Monotone, rootVars
  <1>5. ASSUME NEW caller \in Accounts, NEW e \in Accounts, ReAuthorizeDelegator(caller, e)
        PROVE  /\ delegationRoots'[d][s] = delegationRoots[d][s]
               /\ d \notin revokedDelegators
               /\ hop.leaf \notin revokedDelegations
               /\ now' \in {now, now + 1}
    <2>1. e # d
      <3>1. ASSUME e = d PROVE FALSE
        <4>1. LiveScopes(d)' = {}
          BY <1>5, <3>1, ReAuthorizeIInv
        <4>2. QED
          BY <1>1, <1>2, <4>1 DEF LiveScopes
      <3>2. QED
        BY <3>1
    <2>2. QED
      BY <1>1, <1>2, <1>5, <2>1 DEF ReAuthorizeDelegator, IInv, TypeOK
  <1>6. ASSUME NEW caller \in Accounts, NEW p \in Publications,
               UpdateDelegationRoot(caller, p[1], p[2], p[3], p[4])
        PROVE  /\ delegationRoots'[d][s] = delegationRoots[d][s]
               /\ d \notin revokedDelegators
               /\ hop.leaf \notin revokedDelegations
               /\ now' \in {now, now + 1}
    <2>1. /\ d \notin revokedDelegators
          /\ hop.leaf \notin revokedDelegations
          /\ now' = now /\ ~paused
      BY <1>2, <1>6 DEF UpdateDelegationRoot, revocationVars
    <2>2. delegationRoots'[d][s] = delegationRoots[d][s]
      <3>1. CASE p[1] = d /\ p[2] = s
        <4>1. delegationRoots'[d][s].createdAt = now
          BY <1>1, <1>6, <3>1 DEF UpdateDelegationRoot, IInv, TypeOK
        <4>2. QED
          BY <1>2, <2>1, <4>1 DEF Publishes
      <3>2. CASE ~(p[1] = d /\ p[2] = s)
        BY <1>1, <1>6, <3>2, PublicationTyped DEF UpdateDelegationRoot, IInv, TypeOK
      <3>3. QED
        BY <3>1, <3>2
    <2>3. QED
      BY <2>1, <2>2
  <1>7. QED
    BY <1>4, <1>5, <1>6, StepKinds DEF IInv

\* No role, pause, revocation, re-authorisation or passage of time makes a
\* chain verify that did not.
THEOREM RevocationLasts == Spec => OnlyPublishingEnables
  <1>1. ASSUME IInv, [Next]_vars
        PROVE  [\A chain \in Chains, caller \in Accounts :
                 (VerifyDelegationChain(chain, caller)' /\ ~VerifyDelegationChain(chain, caller))
                   => \E i \in DOMAIN chain :
                        Publishes(chain[i].delegator, chain[i].scopeHash)]_vars
    <2> SUFFICES ASSUME NEW chain \in Chains, NEW caller \in Accounts,
                        VerifyDelegationChain(chain, caller)',
                        \A i \in DOMAIN chain :
                            ~Publishes(chain[i].delegator, chain[i].scopeHash)
                 PROVE  VerifyDelegationChain(chain, caller)
      OBVIOUS
    <2>1. \A i \in DOMAIN chain : chain[i] \in Hop
      BY DelegationAssumption
    <2>2. ASSUME NEW i \in DOMAIN chain
          PROVE  VerifySingleHop(chain[i], IF i = Len(chain) THEN caller
                                           ELSE chain[i].delegate, i)
      BY <1>1, <2>1, HopStands DEF VerifyDelegationChain
    <2>3. QED
      BY <2>2 DEF VerifyDelegationChain
  <1>2. QED
    BY <1>1, Invariance, PTL DEF Spec, OnlyPublishingEnables
=============================================================================
