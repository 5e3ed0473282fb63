-------------------------- MODULE CredentialRegistry --------------------------
(***************************************************************************)
(* contracts/src/CredentialRegistry.sol: the two credential Merkle roots,  *)
(* the accounts that may publish them, the session managers that may       *)
(* consume nullifiers, and the nullifiers already consumed.                *)
(*                                                                         *)
(* A Solidity transaction is atomic and a revert undoes it, so every       *)
(* external function is one action whose guard is the negation of its      *)
(* reverts.  A call by the contract's owner has no caller parameter; a     *)
(* call by an issuer or a manager names its caller.                        *)
(***************************************************************************)
CONSTANTS
    Issuers,        \* accounts that may be made issuers
    RegistryOwner,  \* the owner; initialize makes it the first issuer
    Managers,       \* contracts that may be made session managers
    Roots,          \* non-zero Merkle roots
    NoRoot,         \* bytes32(0)
    Nullifiers      \* non-zero nullifiers

ASSUME RegistryAssumption ==
    /\ RegistryOwner \in Issuers
    /\ NoRoot \notin Roots

VARIABLES
    issuers,            \* { a : issuers[a] }
    sessionManagers,    \* { m : sessionManagers[m] }
    activeRoot,
    revokedSecretRoot,
    usedNullifiers,     \* { n : usedNullifiers[n] }
    registryPaused

registryVars == <<issuers, sessionManagers, activeRoot, revokedSecretRoot,
                  usedNullifiers, registryPaused>>

RegistryTypeOK ==
    /\ issuers \subseteq Issuers
    /\ sessionManagers \subseteq Managers
    /\ activeRoot \in Roots \cup {NoRoot}
    /\ revokedSecretRoot \in Roots \cup {NoRoot}
    /\ usedNullifiers \subseteq Nullifiers
    /\ registryPaused \in BOOLEAN

RegistryInit ==
    /\ issuers = {RegistryOwner}
    /\ sessionManagers = {}
    /\ activeRoot = NoRoot
    /\ revokedSecretRoot = NoRoot
    /\ usedNullifiers = {}
    /\ registryPaused = FALSE

-----------------------------------------------------------------------------
PauseRegistry ==
    /\ ~registryPaused
    /\ registryPaused' = TRUE
    /\ UNCHANGED <<issuers, sessionManagers, activeRoot, revokedSecretRoot, usedNullifiers>>

UnpauseRegistry ==
    /\ registryPaused
    /\ registryPaused' = FALSE
    /\ UNCHANGED <<issuers, sessionManagers, activeRoot, revokedSecretRoot, usedNullifiers>>

AddIssuer(a) ==
    /\ issuers' = issuers \cup {a}
    /\ UNCHANGED <<sessionManagers, activeRoot, revokedSecretRoot, usedNullifiers, registryPaused>>

RemoveIssuer(a) ==
    /\ issuers' = issuers \ {a}
    /\ UNCHANGED <<sessionManagers, activeRoot, revokedSecretRoot, usedNullifiers, registryPaused>>

SetSessionManager(m, allowed) ==
    /\ sessionManagers' = IF allowed THEN sessionManagers \cup {m} ELSE sessionManagers \ {m}
    /\ UNCHANGED <<issuers, activeRoot, revokedSecretRoot, usedNullifiers, registryPaused>>

UpdateActiveRoot(caller, r) ==
    /\ caller \in issuers
    /\ ~registryPaused
    /\ r # NoRoot
    /\ activeRoot' = r
    /\ UNCHANGED <<issuers, sessionManagers, revokedSecretRoot, usedNullifiers, registryPaused>>

UpdateRevokedSecretRoot(caller, r) ==
    /\ caller \in issuers
    /\ ~registryPaused
    /\ r # NoRoot
    /\ revokedSecretRoot' = r
    /\ UNCHANGED <<issuers, sessionManagers, activeRoot, usedNullifiers, registryPaused>>

\* Mutant: the nullifier is not looked up before it is marked.
MarkNullifierUnchecked(manager, n) ==
    /\ manager \in sessionManagers
    /\ usedNullifiers' = usedNullifiers \cup {n}
    /\ UNCHANGED <<issuers, sessionManagers, activeRoot, revokedSecretRoot, registryPaused>>

\* The registry's pause does not stop a manager from consuming a nullifier.
MarkNullifierUsed(manager, n) ==
    /\ manager \in sessionManagers
    /\ n \notin usedNullifiers
    /\ usedNullifiers' = usedNullifiers \cup {n}
    /\ UNCHANGED <<issuers, sessionManagers, activeRoot, revokedSecretRoot, registryPaused>>

\* Everything that can happen to the registry outside a session manager's call.
RegistryAdmin ==
    \/ PauseRegistry
    \/ UnpauseRegistry
    \/ \E a \in Issuers : AddIssuer(a) \/ RemoveIssuer(a)
    \/ \E m \in Managers, allowed \in BOOLEAN : SetSessionManager(m, allowed)
    \/ \E a \in Issuers, r \in Roots : UpdateActiveRoot(a, r) \/ UpdateRevokedSecretRoot(a, r)
=============================================================================
