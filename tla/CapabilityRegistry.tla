-------------------------- MODULE CapabilityRegistry --------------------------
(***************************************************************************)
(* contracts/src/CapabilityRegistry.sol.  The owner registers capabilities,*)
(* which are listed until they are revoked; their registrars publish roots *)
(* of trees whose leaves are grants.  As in DelegationManager, a root is   *)
(* the set of its leaves, bytes32(0) the empty set, and a leaf the fields  *)
(* hashed into it, without the constraints, which only agents read.  The   *)
(* views only read; VerifyCapability is an operator.                       *)
(***************************************************************************)
EXTENDS SwapAndPop, ContractBlock, FiniteSets

CONSTANTS
    RegistryOwner,  \* owner_ of initialize
    Capabilities,   \* capability ids
    GrantTrees,     \* the trees that may be published
    \* the inputs the calls are made with
    Terms,          \* <<capabilityId, expiresAt>>, to register
    Publications,   \* <<grantee, capabilityId, newRoot>>
    Revocations     \* <<grantLeafHash, capabilityId, grantor, grantee>>

Grant == [capability : Capabilities, grantor : Accounts, agent : Accounts, expiresAt : Nat]
NoGrants == {}

ASSUME CapabilityAssumption ==
    /\ RegistryOwner \in Accounts
    /\ GrantTrees \subseteq SUBSET Grant
    /\ Terms \subseteq Capabilities \X Nat
    /\ Publications \subseteq Accounts \X Capabilities \X GrantTrees
    /\ Revocations \subseteq Grant \X Capabilities \X Accounts \X Accounts

VARIABLES
    owner, paused,
    capabilities,       \* registrar NoAddr for createdAt = 0
    capabilityList,
    capabilityIndex,    \* counted from 0; 0 when there is no entry
    grantRoots, revokedGrants

capabilityVars == <<now, owner, paused, capabilities, capabilityList, capabilityIndex, grantRoots, revokedGrants>>

CapabilityInit ==
    /\ now = 0
    /\ owner = RegistryOwner
    /\ paused = FALSE
    /\ capabilities = [c \in Capabilities |-> [registrar |-> NoAddr, expiresAt |-> 0, revoked |-> FALSE]]
    /\ capabilityList = <<>>
    /\ capabilityIndex = [c \in Capabilities |-> 0]
    /\ grantRoots = [grantor \in Accounts |-> [grantee \in Accounts |-> [c \in Capabilities |-> NoGrants]]]
    /\ revokedGrants = {}

Registered(c) == capabilities[c].registrar # NoAddr

-----------------------------------------------------------------------------
SetPaused(caller, value) ==
    /\ caller = owner
    /\ paused = ~value
    /\ paused' = value
    /\ UNCHANGED <<now, owner, capabilities, capabilityList, capabilityIndex, grantRoots, revokedGrants>>

\* transferOwnership and renounceOwnership, inherited.
SetOwner(caller, account) ==
    /\ caller = owner
    /\ owner' = account
    /\ UNCHANGED <<now, paused, capabilities, capabilityList, capabilityIndex, grantRoots, revokedGrants>>

RegisterCapability(caller, c, expiresAt) ==
    /\ caller = owner
    /\ ~paused
    /\ ~Registered(c)
    /\ capabilities' = [capabilities EXCEPT ![c] =
                           [registrar |-> caller, expiresAt |-> expiresAt, revoked |-> FALSE]]
    /\ capabilityList' = Append(capabilityList, c)
    /\ capabilityIndex' = [capabilityIndex EXCEPT ![c] = Len(capabilityList)]
    /\ UNCHANGED <<now, owner, paused, grantRoots, revokedGrants>>

\* Mutant: the capability that is moved keeps its old index.
RevokeCapabilityStaleIndex(caller, c) ==
    /\ Registered(c)
    /\ caller \in {capabilities[c].registrar, owner}
    /\ ~capabilities[c].revoked
    /\ capabilities' = [capabilities EXCEPT ![c].revoked = TRUE]
    /\ capabilityList' = SwapPop(capabilityList, capabilityIndex[c] + 1)
    /\ capabilityIndex' = [capabilityIndex EXCEPT ![c] = 0]
    /\ UNCHANGED <<now, owner, paused, grantRoots, revokedGrants>>

\* Also while paused.  The last one's index is written and then that of the revoked
\* one deleted, which may be the same.
RevokeCapability(caller, c) ==
    LET index == capabilityIndex[c]
        last == capabilityList[Len(capabilityList)]
    IN  /\ Registered(c)
        /\ caller \in {capabilities[c].registrar, owner}
        /\ ~capabilities[c].revoked
        /\ capabilities' = [capabilities EXCEPT ![c].revoked = TRUE]
        /\ capabilityList' = SwapPop(capabilityList, index + 1)
        /\ capabilityIndex' = [[capabilityIndex EXCEPT ![last] = index] EXCEPT ![c] = 0]
        /\ UNCHANGED <<now, owner, paused, grantRoots, revokedGrants>>

\* Written under the caller, also for a revoked capability.
UpdateGrantRoot(caller, grantee, c, newRoot) ==
    /\ ~paused
    /\ Registered(c)
    /\ caller \in {capabilities[c].registrar, owner}
    /\ newRoot # NoGrants
    /\ grantRoots' = [grantRoots EXCEPT ![caller][grantee][c] = newRoot]
    /\ UNCHANGED <<now, owner, paused, capabilities, capabilityList, capabilityIndex, revokedGrants>>

\* The leaf is not compared with the other arguments.
RevokeGrant(caller, leaf, c, grantor, grantee) ==
    /\ caller \in {capabilities[c].registrar, owner, grantor}
    /\ grantRoots[grantor][grantee][c] # NoGrants
    /\ leaf \notin revokedGrants
    /\ revokedGrants' = revokedGrants \union {leaf}
    /\ UNCHANGED <<now, owner, paused, capabilities, capabilityList, capabilityIndex, grantRoots>>

CapabilityTick ==
    /\ TimePasses
    /\ UNCHANGED <<owner, paused, capabilities, capabilityList, capabilityIndex, grantRoots, revokedGrants>>

CapabilityNext ==
    \/ \E caller \in Accounts :
        \/ \E value \in BOOLEAN : SetPaused(caller, value)
        \/ \E account \in Accounts \union {NoAddr} : SetOwner(caller, account)
        \/ \E t \in Terms : RegisterCapability(caller, t[1], t[2])
        \/ \E c \in Capabilities : RevokeCapability(caller, c)
        \/ \E p \in Publications : UpdateGrantRoot(caller, p[1], p[2], p[3])
        \/ \E r \in Revocations : RevokeGrant(caller, r[1], r[2], r[3], r[4])
    \/ CapabilityTick

CapabilitySpec == CapabilityInit /\ [][CapabilityNext]_capabilityVars

-----------------------------------------------------------------------------
\* verifyCapability, a view.
Over(expiresAt) == expiresAt # 0 /\ expiresAt < now

\* Mutant: the root of any grantor is accepted, not only the registrar's.
VerifyAnyGrantor(leaf) ==
    LET cap == capabilities[leaf.capability] IN
    /\ ~cap.revoked
    /\ ~Over(cap.expiresAt)
    /\ leaf \in grantRoots[leaf.grantor][leaf.agent][leaf.capability]
    /\ leaf \notin revokedGrants
    /\ ~Over(leaf.expiresAt)

\* The arguments are those that the leaf is hashed from, or the call returns false;
\* the Merkle proof is the right one where there is one.
VerifyCapability(leaf) ==
    LET cap == capabilities[leaf.capability] IN
    /\ ~cap.revoked
    /\ ~Over(cap.expiresAt)
    /\ cap.registrar = leaf.grantor
    /\ leaf \in grantRoots[leaf.grantor][leaf.agent][leaf.capability]
    /\ leaf \notin revokedGrants
    /\ ~Over(leaf.expiresAt)

-----------------------------------------------------------------------------
Trees == GrantTrees \union {NoGrants}

CapabilityTypeOK ==
    /\ now \in 0 .. MaxNow
    /\ owner \in Accounts \union {NoAddr}
    /\ paused \in BOOLEAN
    /\ capabilities \in [Capabilities -> [registrar : Accounts \union {NoAddr}, expiresAt : Nat, revoked : BOOLEAN]]
    /\ capabilityList \in Seq(Capabilities)
    /\ capabilityIndex \in [Capabilities -> Nat]
    /\ grantRoots \in [Accounts -> [Accounts -> [Capabilities -> Trees]]]
    /\ revokedGrants \subseteq Grant

Live(c) == Registered(c) /\ ~capabilities[c].revoked

\* The list has every live capability once and nothing else, and each at the place
\* its index says, in whatever order they are registered and revoked: the place a
\* revocation frees goes to the last, which may be the revoked one itself
\* (CapabilityRegistry.sol:82-87).
CapabilitiesListed ==
    /\ \A c \in Capabilities : Live(c) =>
        capabilityIndex[c] < Len(capabilityList) /\ capabilityList[capabilityIndex[c] + 1] = c
    /\ \A k \in 1 .. Len(capabilityList) :
        Live(capabilityList[k]) /\ capabilityIndex[capabilityList[k]] = k - 1

\* Inductive: roots are published for registered capabilities only, so that a
\* registration enables no grant that was waiting for it.
RootsOfRegistered ==
    \A grantor, grantee \in Accounts, c \in Capabilities :
        grantRoots[grantor][grantee][c] # NoGrants => Registered(c)

\* A grant that does not verify comes to verify only by a publication of its
\* registrar while the contract is not paused: no registration, change of owner,
\* revocation, root published by another account or passage of time does it
\* (CapabilityRegistry.sol:94, 122).
OnlyRegistrarsEnable ==
    [][\A leaf \in UNION GrantTrees :
        VerifyCapability(leaf)' /\ ~VerifyCapability(leaf) =>
            /\ ~paused
            /\ leaf.grantor = capabilities[leaf.capability].registrar
            /\ LET root == grantRoots[leaf.grantor][leaf.agent][leaf.capability]
               IN  root' # root]_capabilityVars
=============================================================================
