--------------------------- MODULE DelegationManager ---------------------------
(***************************************************************************)
(* contracts/src/DelegationManager.sol.                                    *)
(*                                                                         *)
(* A delegator publishes, for each scope, the root of a Merkle tree whose  *)
(* leaves are its delegations.  A delegate proves that it stands at the    *)
(* end of a chain of delegations, each one a leaf of a published tree.     *)
(*                                                                         *)
(* Abstractions.  A root is the set of the leaves of its tree, bytes32(0)  *)
(* the empty set, and a leaf the fields that are hashed into it: this is   *)
(* collision freedom of keccak256 and of MerkleProof.verify.  The proof a  *)
(* caller brings is left out: it brings the right one when there is one.   *)
(***************************************************************************)
EXTENDS Naturals, FiniteSets, Sequences

CONSTANTS
    Accounts, Scopes,
    Owner,          \* owner_ of initialize
    Roots,          \* the trees that may be published
    MaxScopes,      \* 32 in updateDelegationRoot
    MaxDepth,       \* MAX_DELEGATION_DEPTH
    \* the inputs the calls are made with
    RoleHolders,    \* accounts that are given a role, or have it taken away
    Publications,   \* <<delegator, scopeHash, newRoot, expiresAt>>
    Revocations,    \* <<delegationLeafHash, delegator>>
    Chains,         \* sequences of hops, brought to verifyDelegationChain
    MaxNow          \* bound: the clock stops here

Leaf == [delegator : Accounts, delegate : Accounts, scopeHash : Scopes, expiresAt : Nat]
Hop == [leaf : Leaf, delegator : Accounts, delegate : Accounts, scopeHash : Scopes,
        expiresAt : Nat, maxDepth : Nat]

NoRoot == {}

ASSUME DelegationAssumption ==
    /\ Owner \in Accounts
    /\ RoleHolders \subseteq Accounts
    /\ Roots \subseteq SUBSET Leaf
    /\ MaxScopes \in Nat /\ MaxDepth \in Nat
    /\ Publications \subseteq Accounts \X Scopes \X (Roots \cup {NoRoot}) \X Nat
    /\ Revocations \subseteq Leaf \X Accounts
    /\ Chains \subseteq Seq(Hop)
    /\ MaxNow \in Nat

VARIABLES
    now,                    \* block.timestamp
    paused,
    admins, rootUpdaters,   \* holders of DEFAULT_ADMIN_ROLE and ROOT_UPDATER_ROLE
    delegationRoots, revokedDelegations, revokedDelegators,
    scopeActions,           \* the scopes whose action string is registered
    delegatorScopes         \* _delegatorScopes

roleVars == <<admins, rootUpdaters>>
rootVars == <<delegationRoots, delegatorScopes>>
revocationVars == <<revokedDelegations, revokedDelegators>>
vars == <<now, paused, roleVars, rootVars, revocationVars, scopeActions>>

DelegationRoot == [root : Roots \cup {NoRoot}, expiresAt : Nat, createdAt : Nat]
NoDelegationRoot == [root |-> NoRoot, expiresAt |-> 0, createdAt |-> 0]

Init ==
    /\ now = 0
    /\ paused = FALSE
    /\ admins = {Owner}
    /\ rootUpdaters = {Owner}
    /\ delegationRoots = [d \in Accounts |-> [s \in Scopes |-> NoDelegationRoot]]
    /\ revokedDelegations = {}
    /\ revokedDelegators = {}
    /\ scopeActions = {}
    /\ delegatorScopes = [d \in Accounts |-> {}]

-----------------------------------------------------------------------------
(* Admin functions.                                                        *)

Pause(caller) ==
    /\ caller \in admins
    /\ ~paused
    /\ paused' = TRUE
    /\ UNCHANGED <<now, roleVars, rootVars, revocationVars, scopeActions>>

Unpause(caller) ==
    /\ caller \in admins
    /\ paused
    /\ paused' = FALSE
    /\ UNCHANGED <<now, roleVars, rootVars, revocationVars, scopeActions>>

SetRootUpdater(caller, updater, allowed) ==
    /\ caller \in admins
    /\ rootUpdaters' = IF allowed THEN rootUpdaters \cup {updater} ELSE rootUpdaters \ {updater}
    /\ UNCHANGED <<now, paused, admins, rootVars, revocationVars, scopeActions>>

\* grantRole, revokeRole and renounceRole, inherited.
SetAdmin(caller, account, allowed) ==
    /\ caller \in admins
    /\ admins' = IF allowed THEN admins \cup {account} ELSE admins \ {account}
    /\ UNCHANGED <<now, paused, rootUpdaters, rootVars, revocationVars, scopeActions>>

RenounceRootUpdater(caller) ==
    /\ caller \in rootUpdaters
    /\ rootUpdaters' = rootUpdaters \ {caller}
    /\ UNCHANGED <<now, paused, admins, rootVars, revocationVars, scopeActions>>

RegisterScope(caller, s) ==
    /\ caller \in admins
    /\ s \notin scopeActions
    /\ scopeActions' = scopeActions \cup {s}
    /\ UNCHANGED <<now, paused, roleVars, rootVars, revocationVars>>

EmergencyRevokeAll(caller, d) ==
    /\ caller \in admins
    /\ ~paused
    /\ revokedDelegators' = revokedDelegators \cup {d}
    /\ UNCHANGED <<now, paused, roleVars, rootVars, revokedDelegations, scopeActions>>

\* Mutant: the scopes are forgotten, their roots stay.
ReAuthorizeKeepingRoots(caller, d) ==
    /\ caller \in admins
    /\ revokedDelegators' = revokedDelegators \ {d}
    /\ delegatorScopes' = [delegatorScopes EXCEPT ![d] = {}]
    /\ UNCHANGED <<now, paused, roleVars, delegationRoots, revokedDelegations, scopeActions>>

\* Not gated by the pause.  Only the roots of the tracked scopes are deleted.
ReAuthorizeDelegator(caller, d) ==
    /\ caller \in admins
    /\ revokedDelegators' = revokedDelegators \ {d}
    /\ delegationRoots' = [delegationRoots EXCEPT ![d] = [s \in Scopes |->
                              IF s \in delegatorScopes[d] THEN NoDelegationRoot ELSE @[s]]]
    /\ delegatorScopes' = [delegatorScopes EXCEPT ![d] = {}]
    /\ UNCHANGED <<now, paused, roleVars, revokedDelegations, scopeActions>>

-----------------------------------------------------------------------------
(* Roots and leaves.                                                       *)

\* Whether the call starts tracking scope s, which the limit allows or not.
IsNewScope(d, s, newRoot) == delegationRoots[d][s].root = NoRoot /\ newRoot # NoRoot

\* Mutant: the limit is tested with > instead of >=.
UpdateDelegationRootOffByOne(caller, d, s, newRoot, expiresAt) ==
    /\ ~paused
    /\ d \notin revokedDelegators
    /\ caller = d \/ caller \in rootUpdaters
    /\ IsNewScope(d, s, newRoot) => Cardinality(delegatorScopes[d]) <= MaxScopes
    /\ delegatorScopes' = [delegatorScopes EXCEPT ![d] =
                              IF IsNewScope(d, s, newRoot) THEN @ \cup {s} ELSE @]
    /\ delegationRoots' = [delegationRoots EXCEPT ![d][s] =
                              [root |-> newRoot, expiresAt |-> expiresAt, createdAt |-> now]]
    /\ UNCHANGED <<now, paused, roleVars, revocationVars, scopeActions>>

\* Mutant: a scope is tracked when it is first written, with whatever root.
UpdateDelegationRootFirstWrite(caller, d, s, newRoot, expiresAt) ==
    /\ ~paused
    /\ d \notin revokedDelegators
    /\ caller = d \/ caller \in rootUpdaters
    /\ delegationRoots[d][s] = NoDelegationRoot => Cardinality(delegatorScopes[d]) < MaxScopes
    /\ delegatorScopes' = [delegatorScopes EXCEPT ![d] =
                              IF delegationRoots[d][s] = NoDelegationRoot /\ newRoot # NoRoot
                              THEN @ \cup {s} ELSE @]
    /\ delegationRoots' = [delegationRoots EXCEPT ![d][s] =
                              [root |-> newRoot, expiresAt |-> expiresAt, createdAt |-> now]]
    /\ UNCHANGED <<now, paused, roleVars, revocationVars, scopeActions>>

\* A zero root is written too, and its scope stays tracked.
UpdateDelegationRoot(caller, d, s, newRoot, expiresAt) ==
    /\ ~paused
    /\ d \notin revokedDelegators
    /\ caller = d \/ caller \in rootUpdaters
    /\ IsNewScope(d, s, newRoot) => Cardinality(delegatorScopes[d]) < MaxScopes
    /\ delegatorScopes' = [delegatorScopes EXCEPT ![d] =
                              IF IsNewScope(d, s, newRoot) THEN @ \cup {s} ELSE @]
    /\ delegationRoots' = [delegationRoots EXCEPT ![d][s] =
                              [root |-> newRoot, expiresAt |-> expiresAt, createdAt |-> now]]
    /\ UNCHANGED <<now, paused, roleVars, revocationVars, scopeActions>>

\* The leaf is not compared with the delegator given.
RevokeDelegation(caller, leaf, d) ==
    /\ ~paused
    /\ caller = d \/ caller \in admins
    /\ leaf \notin revokedDelegations
    /\ revokedDelegations' = revokedDelegations \cup {leaf}
    /\ UNCHANGED <<now, paused, roleVars, rootVars, revokedDelegators, scopeActions>>

Tick ==
    /\ now < MaxNow
    /\ now' = now + 1
    /\ UNCHANGED <<paused, roleVars, rootVars, revocationVars, scopeActions>>

-----------------------------------------------------------------------------
(* Verification: views, which no action calls.                             *)

Expired(expiresAt) == expiresAt # 0 /\ expiresAt < now

VerifySingleHop(hop, delegate, currentDepth) ==
    LET rootInfo == delegationRoots[hop.delegator][hop.scopeHash]
    IN  /\ hop.delegator \notin revokedDelegators
        /\ rootInfo.root # NoRoot
        /\ ~Expired(rootInfo.expiresAt)
        /\ hop.leaf \notin revokedDelegations
        /\ ~Expired(hop.expiresAt)
        /\ currentDepth <= hop.maxDepth
        /\ hop.leaf = [delegator |-> hop.delegator, delegate |-> delegate,
                       scopeHash |-> hop.scopeHash, expiresAt |-> hop.expiresAt]
        /\ hop.leaf \in rootInfo.root

VerifyDelegation(hop, caller) == VerifySingleHop(hop, caller, 1)

\* The last hop is verified for the caller, whatever delegate is given for it.
VerifyDelegationChain(chain, caller) ==
    /\ chain # <<>>
    /\ Len(chain) <= MaxDepth
    /\ \A i \in DOMAIN chain :
        /\ VerifySingleHop(chain[i], IF i = Len(chain) THEN caller ELSE chain[i].delegate, i)
        /\ i > 1 => chain[i].delegator = chain[i - 1].delegate

-----------------------------------------------------------------------------
RoleStep ==
    \E caller \in Accounts :
        \/ Pause(caller) \/ Unpause(caller)
        \/ RenounceRootUpdater(caller)
        \/ \E s \in Scopes : RegisterScope(caller, s)
        \/ \E a \in RoleHolders, allowed \in BOOLEAN :
            SetRootUpdater(caller, a, allowed) \/ SetAdmin(caller, a, allowed)

RootStep ==
    \E caller \in Accounts :
        \/ \E d \in Accounts : EmergencyRevokeAll(caller, d) \/ ReAuthorizeDelegator(caller, d)
        \/ \E p \in Publications : UpdateDelegationRoot(caller, p[1], p[2], p[3], p[4])
        \/ \E r \in Revocations : RevokeDelegation(caller, r[1], r[2])

Next == RoleStep \/ RootStep \/ Tick

Spec == Init /\ [][Next]_vars

-----------------------------------------------------------------------------
(* Properties.                                                             *)

\* Every variable holds a value of its type.
TypeOK ==
    /\ now \in 0 .. MaxNow
    /\ paused \in BOOLEAN
    /\ admins \subseteq Accounts
    /\ rootUpdaters \subseteq Accounts
    /\ delegationRoots \in [Accounts -> [Scopes -> DelegationRoot]]
    /\ revokedDelegations \subseteq Leaf
    /\ revokedDelegators \subseteq Accounts
    /\ scopeActions \subseteq Scopes
    /\ delegatorScopes \in [Accounts -> SUBSET Scopes]

LiveScopes(d) == {s \in Scopes : delegationRoots[d][s].root # NoRoot}

\* No sequence of publications, clearings and re-authorisations gives a
\* delegator more live scopes than the limit, though updateDelegationRoot only
\* counts the scopes it tracks and a scope can be cleared without being
\* untracked.
LiveScopesWithinLimit == \A d \in Accounts : Cardinality(LiveScopes(d)) <= MaxScopes

\* Inductive: every live scope is tracked, and the tracked scopes are within the
\* limit.  The converse of the first part fails once a root is cleared.
LiveScopesTracked == \A d \in Accounts : LiveScopes(d) \subseteq delegatorScopes[d]
TrackedScopesWithinLimit ==
    \A d \in Accounts : /\ IsFiniteSet(delegatorScopes[d])
                        /\ Cardinality(delegatorScopes[d]) <= MaxScopes
IInv == TypeOK /\ LiveScopesTracked /\ TrackedScopesWithinLimit

\* reAuthorizeDelegator leaves the delegator without a live root: the roots it
\* deletes, those of the tracked scopes, are all there are.
ReAuthorizedHoldsNoRoot ==
    [][\A d \in Accounts :
        d \in revokedDelegators /\ d \notin revokedDelegators' => LiveScopes(d)' = {}]_vars

\* A step that publishes a new root of d under s.
Publishes(d, s) ==
    /\ ~paused
    /\ d \notin revokedDelegators
    /\ delegationRoots'[d][s] # delegationRoots[d][s]
    /\ delegationRoots'[d][s].root # NoRoot
    /\ delegationRoots'[d][s].createdAt = now

\* A chain that does not verify comes to verify only by a publication, by a
\* delegator on it, of a new root under the scope of its hop, while that
\* delegator is not revoked and the contract not paused.  Neither time, nor a
\* role, nor the pause, nor a re-authorisation, nor a revocation revives it.
OnlyPublishingEnables ==
    [][\A chain \in Chains, caller \in Accounts :
        (VerifyDelegationChain(chain, caller)' /\ ~VerifyDelegationChain(chain, caller)) =>
            \E i \in DOMAIN chain : Publishes(chain[i].delegator, chain[i].scopeHash)]_vars
=============================================================================
