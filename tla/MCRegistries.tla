----------------------------- MODULE MCRegistries -----------------------------
(***************************************************************************)
(* Three contracts' tables for TLC: the array of a wallet's session ids    *)
(* with the loop that prunes it, the capabilities, and the organisations   *)
(* with their anchors.  They share the clock and nothing else, and each    *)
(* behaviour is of one of them.                                            *)
(***************************************************************************)
EXTENDS SessionPruning, CapabilityRegistry, OrganizationRegistry

CONSTANTS o, p, c1, c2, c3, g1, g2

VARIABLE stepping       \* the one that steps

\* The first grant of a tree ends with the first tick.
GrantBy(grantor, expiresAt) ==
    [capability |-> c1, grantor |-> grantor, agent |-> p, expiresAt |-> expiresAt]
MCTerms == {<<c1, 0>>, <<c1, 1>>, <<c2, 0>>, <<c3, 0>>}
MCGrantTrees == {{GrantBy(o, 1), GrantBy(o, 0)}, {GrantBy(p, 0)}}
MCPublications == {<<p, c1, t>> : t \in MCGrantTrees}
MCRevocations == {<<GrantBy(o, 0), c1, o, p>>, <<GrantBy(p, 0), c1, p, p>>}

MCRegistrations == {<<g1, p>>, <<g2, p>>}

MCInit ==
    /\ stepping \in {"sessions", "capabilities", "organizations"}
    /\ PruningInit
    /\ stepping # "sessions" => initialIds = <<>> /\ expired = {} /\ limit = 0
    /\ CapabilityInit
    /\ OrganizationInit

\* Whether an organisation is active, and what an anchor holds besides its roots, is
\* read by nothing, and the contents of an anchor by the anchor only: one of these,
\* or the pause of the registry, is touched in a behaviour, at one place.
Touched(a) ==
    {f \in {"currentEpoch", "public", "metadataHash"} : anchors[a][f] # NewAnchor(NoAddr, NoAddr)[f]} \cup
    (IF anchors[a].paused \/ Roots(a) # <<NoRoot, NoRoot>> \/ anchors[a].owner \notin {p, NoAddr}
     THEN {"roots"} ELSE {})
Apart ==
    LET touched == {<<a, f>> \in Clones \X {"roots", "currentEpoch", "public", "metadataHash"} : f \in Touched(a)}
        inactive == {id \in Organizations : OrganizationExists(id) /\ ~organizations[id].active}
    IN  Cardinality(touched) + Cardinality(inactive) + (IF registryPaused THEN 1 ELSE 0) <= 1

capabilityState == <<owner, paused, capabilities, capabilityList, capabilityIndex, grantRoots, revokedGrants>>
organizationState == <<registryVars, organizations, anchors>>

MCNext ==
    \/ stepping = "sessions" /\ PruningNext /\ UNCHANGED <<now, capabilityState, organizationState>>
    \/ stepping = "capabilities" /\ CapabilityNext /\ UNCHANGED <<pruningVars, organizationState>>
    \/ stepping = "organizations" /\ OrganizationNext /\ Apart' /\ UNCHANGED <<pruningVars, capabilityState>>

MCSpec == MCInit /\ [][MCNext /\ UNCHANGED stepping]_<<pruningVars, capabilityVars, organizationVars, stepping>>
=============================================================================
