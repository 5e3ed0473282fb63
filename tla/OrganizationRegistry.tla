------------------------- MODULE OrganizationRegistry -------------------------
(***************************************************************************)
(* contracts/src/OrganizationRegistry.sol and the anchors it clones,       *)
(* contracts/src/OrganizationCredentialAnchor.sol.                         *)
(*                                                                         *)
(* The registry says which contract is the anchor of an organisation; the  *)
(* anchor's own owner publishes the roots.  A clone's address is given by  *)
(* the implementation and the organisation it is salted with; the registry *)
(* takes any other contract as a replacement.                              *)
(***************************************************************************)
EXTENDS TimelockedSlot

CONSTANTS
    Organizations,          \* organizationIds, not bytes32(0)
    AnchorImplementation,
    OtherContracts,         \* contracts the registry did not clone
    InitialOwner,           \* owner_ of initialize
    Registrations,          \* <<organizationId, owner_>>, the inputs of registerOrganization
    RootHashes, NoRoot,     \* NoRoot is bytes32(0)
    Hashes,                 \* of metadata
    MaxEpoch                \* bound on currentEpoch

Clone(id) == <<AnchorImplementation, id>>
Clones == {Clone(id) : id \in Organizations}
Anchors == Clones \cup OtherContracts

ASSUME OrganizationAssumption ==
    /\ InitialOwner \in Accounts
    /\ Registrations \subseteq Organizations \X Accounts
    /\ NoAddr \notin Organizations \cup Anchors
    /\ MaxEpoch \in Nat

VARIABLES
    registryOwner, registryPaused,
    organizations,          \* _organizations with pendingAnchor and anchorActivationTime
    anchors                 \* the storage of each clone

registryVars == <<registryOwner, registryPaused>>
organizationVars == <<now, registryVars, organizations, anchors>>

Organization == [owner : Accounts \cup {NoAddr}, anchor : Slot(Anchors), active : BOOLEAN]
NoOrganization == [owner |-> NoAddr, anchor |-> Holding(NoAddr), active |-> FALSE]

Anchor == [organizationId : Organizations \cup {NoAddr}, owner : Accounts \cup {NoAddr},
           paused : BOOLEAN, currentRoot : RootHashes \cup {NoRoot},
           revokedRoot : RootHashes \cup {NoRoot}, currentEpoch : Nat,
           public : BOOLEAN, metadataHash : Hashes \cup {NoRoot}]
NewAnchor(id, owner) ==
    [organizationId |-> id, owner |-> owner, paused |-> FALSE, currentRoot |-> NoRoot,
     revokedRoot |-> NoRoot, currentEpoch |-> 0, public |-> FALSE, metadataHash |-> NoRoot]

OrganizationInit ==
    /\ now = 0
    /\ registryOwner = InitialOwner
    /\ registryPaused = FALSE
    /\ organizations = [id \in Organizations |-> NoOrganization]
    /\ anchors = [a \in Clones |-> NewAnchor(NoAddr, NoAddr)]

\* createdAt # 0
OrganizationExists(id) == organizations[id].owner # NoAddr
IsContract(a) == a \in OtherContracts \/ \E id \in Organizations : a = Clone(id) /\ OrganizationExists(id)

-----------------------------------------------------------------------------
(* The registry.                                                           *)

SetRegistryPaused(caller, value) ==
    /\ caller = registryOwner
    /\ registryPaused = ~value
    /\ registryPaused' = value
    /\ UNCHANGED <<now, registryOwner, organizations, anchors>>

\* transferOwnership and renounceOwnership, inherited.
SetRegistryOwner(caller, account) ==
    /\ caller = registryOwner
    /\ registryOwner' = account
    /\ UNCHANGED <<now, registryPaused, organizations, anchors>>

\* One transaction with the clone and its initialize.
RegisterOrganization(caller, id, owner) ==
    /\ caller = registryOwner
    /\ ~registryPaused
    /\ ~OrganizationExists(id)
    /\ anchors' = [anchors EXCEPT ![Clone(id)] = NewAnchor(id, owner)]
    /\ organizations' = [organizations EXCEPT ![id] =
                            [owner |-> owner, anchor |-> Holding(Clone(id)), active |-> TRUE]]
    /\ UNCHANGED <<now, registryVars>>

\* deactivateOrganization and reactivateOrganization.  The anchor is not told.
SetActive(caller, id, value) ==
    /\ caller = registryOwner
    /\ OrganizationExists(id)
    /\ organizations[id].active = ~value
    /\ organizations' = [organizations EXCEPT ![id].active = value]
    /\ UNCHANGED <<now, registryVars, anchors>>

\* Neither call is gated by the pause, and nothing asks whose anchor a is.
ProposeCredentialAnchor(caller, id, a) ==
    /\ caller = registryOwner
    /\ IsContract(a)
    /\ OrganizationExists(id)
    /\ MayPropose(organizations[id].anchor)
    /\ organizations' = [organizations EXCEPT ![id].anchor = Proposed(@, a, now)]
    /\ UNCHANGED <<now, registryVars, anchors>>

\* Mutant: the activation time is not compared.
AcceptCredentialAnchorEarly(caller, id) ==
    /\ caller = registryOwner
    /\ organizations[id].anchor.pending # NoAddr
    /\ OrganizationExists(id)
    /\ organizations' = [organizations EXCEPT ![id].anchor = Accepted(@)]
    /\ UNCHANGED <<now, registryVars, anchors>>

AcceptCredentialAnchor(caller, id) ==
    /\ caller = registryOwner
    /\ MayAccept(organizations[id].anchor, now)
    /\ OrganizationExists(id)
    /\ organizations' = [organizations EXCEPT ![id].anchor = Accepted(@)]
    /\ UNCHANGED <<now, registryVars, anchors>>

-----------------------------------------------------------------------------
(* An anchor, whose owner may be another than the organisation's.          *)

\* Every function is onlyOwner.
EditAnchor(caller, a, next) ==
    /\ caller = anchors[a].owner
    /\ anchors' = [anchors EXCEPT ![a] = next]
    /\ UNCHANGED <<now, registryVars, organizations>>

SetAnchorPaused(caller, a, value) ==
    /\ anchors[a].paused = ~value
    /\ EditAnchor(caller, a, [anchors[a] EXCEPT !.paused = value])

SetAnchorOwner(caller, a, account) == EditAnchor(caller, a, [anchors[a] EXCEPT !.owner = account])

UpdateRoot(caller, a, newRoot) ==
    /\ ~anchors[a].paused
    /\ newRoot # anchors[a].currentRoot
    /\ EditAnchor(caller, a, [anchors[a] EXCEPT !.currentRoot = newRoot])

UpdateRevokedRoot(caller, a, newRoot) ==
    /\ ~anchors[a].paused
    /\ newRoot # NoRoot
    /\ EditAnchor(caller, a, [anchors[a] EXCEPT !.revokedRoot = newRoot])

IncrementEpoch(caller, a) ==
    /\ ~anchors[a].paused
    /\ anchors[a].currentEpoch < MaxEpoch
    /\ EditAnchor(caller, a, [anchors[a] EXCEPT !.currentEpoch = @ + 1])

SetVisibility(caller, a, public) == EditAnchor(caller, a, [anchors[a] EXCEPT !.public = public])

SetMetadataHash(caller, a, hash) == EditAnchor(caller, a, [anchors[a] EXCEPT !.metadataHash = hash])

AnchorStep(caller, a) ==
    \/ \E value \in BOOLEAN : SetAnchorPaused(caller, a, value) \/ SetVisibility(caller, a, value)
    \/ \E account \in Accounts \cup {NoAddr} : SetAnchorOwner(caller, a, account)
    \/ \E root \in RootHashes \cup {NoRoot} : UpdateRoot(caller, a, root) \/ UpdateRevokedRoot(caller, a, root)
    \/ IncrementEpoch(caller, a)
    \/ \E hash \in Hashes : SetMetadataHash(caller, a, hash)

OrganizationTick == TimePasses /\ UNCHANGED <<registryVars, organizations, anchors>>

OrganizationNext ==
    \/ \E caller \in Accounts :
        \/ \E value \in BOOLEAN : SetRegistryPaused(caller, value)
        \/ \E account \in Accounts \cup {NoAddr} : SetRegistryOwner(caller, account)
        \/ \E r \in Registrations : RegisterOrganization(caller, r[1], r[2])
        \/ \E id \in Organizations :
            \/ \E value \in BOOLEAN : SetActive(caller, id, value)
            \/ \E a \in Anchors : ProposeCredentialAnchor(caller, id, a)
            \/ AcceptCredentialAnchor(caller, id)
        \/ \E a \in Clones : AnchorStep(caller, a)
    \/ OrganizationTick

OrganizationSpec == OrganizationInit /\ [][OrganizationNext]_organizationVars

-----------------------------------------------------------------------------
OrganizationTypeOK ==
    /\ now \in 0 .. MaxNow
    /\ registryOwner \in Accounts \cup {NoAddr}
    /\ registryPaused \in BOOLEAN
    /\ organizations \in [Organizations -> Organization]
    /\ anchors \in [Clones -> Anchor]

\* Inductive: an organisation that exists has an anchor, which is a contract, its
\* clone was initialised for it, and a pending anchor is not ready before its delay.
AnchorsBelong ==
    \A id \in Organizations :
        /\ OrganizationExists(id) <=> organizations[id].anchor.current # NoAddr
        /\ OrganizationExists(id) <=> anchors[Clone(id)].organizationId = id
        /\ ~OrganizationExists(id) => anchors[Clone(id)] = NewAnchor(NoAddr, NoAddr)
        /\ PendingWaits(organizations[id].anchor)

Roots(a) == <<anchors[a].currentRoot, anchors[a].revokedRoot>>

\* The roots in force for an organisation are those of the anchor it has at the
\* registry.  They change only with the anchor, to one proposed at least the delay
\* before, or at the anchor while it is not paused; and its first anchor has no roots,
\* whatever happened at its address before (OrganizationRegistry.sol:76-77, 118).
RootsInForceGuarded ==
    [][\A id \in Organizations :
        LET slot == organizations[id].anchor
            next == organizations'[id].anchor
        IN  IF OrganizationExists(id)
            THEN /\ ChangesTimelocked(slot, next, now)
                 /\ \A a \in Clones : slot.current = a /\ next.current = a /\ Roots(a)' # Roots(a) => ~anchors[a].paused
            ELSE next.current # NoAddr => next.current = Clone(id) /\ Roots(Clone(id))' = <<NoRoot, NoRoot>>
      ]_organizationVars
=============================================================================
