----------------------------- MODULE AgentIdentity -----------------------------
(***************************************************************************)
(* contracts/src/AgentIdentity.sol: registries of the identities of agent  *)
(* wallets.  A registry reads the owner of a wallet from the wallet.       *)
(***************************************************************************)
EXTENDS AgentWallet

CONSTANTS
    Registries,         \* AgentIdentity contracts
    OwnRegistries,      \* those whose walletFactory is the factory modelled
    Credentials, MetadataRoots,
    NoMetadata,         \* bytes32(0)
    MaxWallets          \* bound on the wallets, thus on the identities

ASSUME IdentityAssumption ==
    /\ NoAddr \notin Registries
    /\ OwnRegistries \subseteq Registries
    /\ 0 \in Credentials
    /\ NoMetadata \notin MetadataRoots
    /\ MaxWallets \in Nat

Ids == 0 .. MaxWallets

VARIABLES
    identityCount,
    identities,         \* _identities
    walletToIdentity,   \* _walletToIdentity, 0 for none
    identityPaused

identityVars == <<identityCount, identities, walletToIdentity, identityPaused>>

Identity == [wallet : Wallets, credentialId : Credentials,
             metadataRoot : MetadataRoots \cup {NoMetadata},
             createdAt : Nat, updatedAt : Nat, active : BOOLEAN]
NoIdentity == [wallet |-> NoAddr, credentialId |-> 0, metadataRoot |-> NoMetadata,
               createdAt |-> 0, updatedAt |-> 0, active |-> FALSE]

IdentityInit ==
    /\ identityCount = [r \in Registries |-> 0]
    /\ identities = [r \in Registries |-> [id \in Ids |-> NoIdentity]]
    /\ walletToIdentity = [r \in Registries |-> [w \in Wallets |-> 0]]
    /\ identityPaused = [r \in Registries |-> FALSE]

Exists(r, id) == identities[r][id].wallet # NoAddr
OwnerOfIdentity(r, id) == walletOwner[identities[r][id].wallet]

PauseIdentity(r) ==
    /\ ~identityPaused[r]
    /\ identityPaused' = [identityPaused EXCEPT ![r] = TRUE]
    /\ UNCHANGED <<identityCount, identities, walletToIdentity>>

UnpauseIdentity(r) ==
    /\ identityPaused[r]
    /\ identityPaused' = [identityPaused EXCEPT ![r] = FALSE]
    /\ UNCHANGED <<identityCount, identities, walletToIdentity>>

\* Mutant: identityCount++ in place of ++identityCount.
RegisterIdentityPostIncrement(r, w) ==
    /\ r \in OwnRegistries
    /\ ~identityPaused[r]
    /\ walletToIdentity[r][w] = 0
    /\ LET id == identityCount[r] IN
        /\ id + 1 \in Ids
        /\ identityCount' = [identityCount EXCEPT ![r] = id + 1]
        /\ identities' = [identities EXCEPT ![r][id] =
               [NoIdentity EXCEPT !.wallet = w, !.createdAt = now, !.updatedAt = now,
                                  !.active = TRUE]]
        /\ walletToIdentity' = [walletToIdentity EXCEPT ![r][w] = id]
    /\ UNCHANGED identityPaused

\* A call of the factory.
RegisterIdentity(r, w) ==
    /\ r \in OwnRegistries
    /\ ~identityPaused[r]
    /\ walletToIdentity[r][w] = 0
    /\ LET id == identityCount[r] + 1 IN
        /\ id \in Ids
        /\ identityCount' = [identityCount EXCEPT ![r] = id]
        /\ identities' = [identities EXCEPT ![r][id] =
               [NoIdentity EXCEPT !.wallet = w, !.createdAt = now, !.updatedAt = now,
                                  !.active = TRUE]]
        /\ walletToIdentity' = [walletToIdentity EXCEPT ![r][w] = id]
    /\ UNCHANGED identityPaused

\* A call on an identity by the owner of its wallet, which makes it changed.
Edit(caller, r, id, changed) ==
    /\ ~identityPaused[r]
    /\ Exists(r, id)
    /\ caller = OwnerOfIdentity(r, id)
    /\ identities' = [identities EXCEPT ![r][id] = [changed EXCEPT !.updatedAt = now]]
    /\ UNCHANGED <<identityCount, walletToIdentity, identityPaused>>

LinkCredential(caller, r, id, credentialId) ==
    /\ identities[r][id].active
    /\ Edit(caller, r, id, [identities[r][id] EXCEPT !.credentialId = credentialId])

UpdateMetadata(caller, r, id, metadataRoot) ==
    /\ identities[r][id].active
    /\ metadataRoot # identities[r][id].metadataRoot
    /\ Edit(caller, r, id, [identities[r][id] EXCEPT !.metadataRoot = metadataRoot])

Deactivate(caller, r, id) ==
    /\ identities[r][id].active
    /\ Edit(caller, r, id, [identities[r][id] EXCEPT !.active = FALSE])

Reactivate(caller, r, id) ==
    /\ ~identities[r][id].active
    /\ Edit(caller, r, id, [identities[r][id] EXCEPT !.active = TRUE])

IdentityTypeOK ==
    /\ identityCount \in [Registries -> Ids]
    /\ identities \in [Registries -> [Ids -> Identity \cup {NoIdentity}]]
    /\ walletToIdentity \in [Registries -> [Wallets -> Ids]]
    /\ identityPaused \in [Registries -> BOOLEAN]
=============================================================================
