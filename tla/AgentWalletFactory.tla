-------------------------- MODULE AgentWalletFactory --------------------------
(***************************************************************************)
(* contracts/src/AgentWalletFactory.sol together with the wallets it       *)
(* clones and the AgentIdentity registries it registers them with.         *)
(***************************************************************************)
EXTENDS AgentIdentity, FiniteSets

CONSTANTS
    AutoSalt,               \* the salt createWallet(owner) derives, for each owner and each walletCount
    FirstAddress            \* the addresses given to initialize, by slot

FactorySlotNames == {"implementation"} \cup WalletSlotNames

ASSUME FactoryAssumption ==
    /\ \A owner \in Accounts, n \in 0 .. (MaxWallets - 1) : AutoSalt[owner][n] \in Salts
    /\ \A k \in FactorySlotNames : FirstAddress[k] \in Candidates(k)

VARIABLES
    factorySlots,           \* implementation, sessionManager and entryPoint
    agentIdentity,          \* the registry in use, NoAddr for none
    agentWallets, walletCount,
    bornWith                \* history: agentIdentity when the wallet was created

factoryVars == <<factorySlots, agentIdentity, agentWallets, walletCount, bornWith>>
vars == <<now, walletVars, identityVars, factoryVars>>

Init ==
    /\ now = 0
    /\ WalletInit
    /\ IdentityInit
    /\ factorySlots = [k \in FactorySlotNames |-> Holding(FirstAddress[k])]
    /\ agentIdentity = NoAddr
    /\ agentWallets = {}
    /\ walletCount = 0
    /\ bornWith = [w \in Wallets |-> NoAddr]

-----------------------------------------------------------------------------
\* Mutant: a pending proposal may be replaced without restarting its timelock.
ProposeFactorySlotReplacing(k, a) ==
    /\ factorySlots' = [factorySlots EXCEPT ![k] = ProposedOver(@, a, now)]
    /\ UNCHANGED <<now, walletVars, identityVars, agentIdentity, agentWallets, walletCount, bornWith>>

ProposeFactorySlot(k, a) ==
    /\ MayPropose(factorySlots[k])
    /\ factorySlots' = [factorySlots EXCEPT ![k] = Proposed(@, a, now)]
    /\ UNCHANGED <<now, walletVars, identityVars, agentIdentity, agentWallets, walletCount, bornWith>>

AcceptFactorySlot(k) ==
    /\ MayAccept(factorySlots[k], now)
    /\ factorySlots' = [factorySlots EXCEPT ![k] = Accepted(@)]
    /\ UNCHANGED <<now, walletVars, identityVars, agentIdentity, agentWallets, walletCount, bornWith>>

\* No timelock, and no way back to no registry.
SetAgentIdentity(r) ==
    /\ agentIdentity' = r
    /\ UNCHANGED <<now, walletVars, identityVars, factorySlots, agentWallets, walletCount, bornWith>>

Current(k) == factorySlots[k].current

\* Mutant: a registration that fails leaves the wallet without an identity.
CreateWalletTryRegister(owner, salt) ==
    LET wallet == <<Current("implementation"), salt>> IN
    /\ walletCount < MaxWallets
    /\ Initialize(wallet, owner, Current("sessionManager"), Current("entryPoint"))
    /\ agentWallets' = agentWallets \cup {wallet}
    /\ walletCount' = walletCount + 1
    /\ IF agentIdentity # NoAddr /\ ~identityPaused[agentIdentity]
       THEN RegisterIdentity(agentIdentity, wallet)
       ELSE UNCHANGED identityVars
    /\ bornWith' = [bornWith EXCEPT ![wallet] = agentIdentity]
    /\ UNCHANGED <<now, factorySlots, agentIdentity>>

\* One transaction: where the registry refuses, nothing of it remains.  For a
\* wallet that exists the call changes nothing, whoever owns it.
CreateWallet(owner, salt) ==
    LET wallet == <<Current("implementation"), salt>> IN
    /\ walletCount < MaxWallets
    /\ Initialize(wallet, owner, Current("sessionManager"), Current("entryPoint"))
    /\ agentWallets' = agentWallets \cup {wallet}
    /\ walletCount' = walletCount + 1
    /\ IF agentIdentity # NoAddr
       THEN RegisterIdentity(agentIdentity, wallet)
       ELSE UNCHANGED identityVars
    /\ bornWith' = [bornWith EXCEPT ![wallet] = agentIdentity]
    /\ UNCHANGED <<now, factorySlots, agentIdentity>>

\* createWallet(owner).
CreateWalletAuto(owner) == walletCount < MaxWallets /\ CreateWallet(owner, AutoSalt[owner][walletCount])

Tick ==
    /\ TimePasses
    /\ UNCHANGED <<walletVars, identityVars, factoryVars>>

FactoryStep ==
    \/ \E k \in FactorySlotNames :
        \/ \E a \in Candidates(k) : ProposeFactorySlot(k, a)
        \/ AcceptFactorySlot(k)
    \/ \E r \in Registries : SetAgentIdentity(r)

CreateStep ==
    \E owner \in Accounts :
        \/ CreateWalletAuto(owner)
        \/ \E salt \in Salts : CreateWallet(owner, salt)

WalletStep ==
    /\ \E caller \in Accounts, w \in Wallets :
        \/ \E newOwner \in Accounts : ChangeOwner(caller, w, newOwner)
        \/ AcceptOwnership(caller, w)
        \/ \E k \in WalletSlotNames :
            \/ \E a \in Candidates(k) : ProposeWalletSlot(caller, w, k, a)
            \/ AcceptWalletSlot(caller, w, k)
    /\ UNCHANGED <<now, identityVars, factoryVars>>

IdentityStep ==
    /\ \E r \in Registries :
        \/ PauseIdentity(r)
        \/ UnpauseIdentity(r)
        \/ \E caller \in Accounts, id \in Ids :
            \/ \E c \in Credentials : LinkCredential(caller, r, id, c)
            \/ \E m \in MetadataRoots : UpdateMetadata(caller, r, id, m)
            \/ Deactivate(caller, r, id)
            \/ Reactivate(caller, r, id)
    /\ UNCHANGED <<now, walletVars, factoryVars>>

Next == FactoryStep \/ CreateStep \/ WalletStep \/ IdentityStep \/ Tick

Spec == Init /\ [][Next]_vars

-----------------------------------------------------------------------------
(* Properties.                                                             *)

\* Every variable holds a value of its type.
TypeOK ==
    /\ WalletTypeOK
    /\ IdentityTypeOK
    /\ factorySlots \in [FactorySlotNames -> AnySlot]
    /\ \A k \in FactorySlotNames :
        factorySlots[k] \in Slot(Candidates(k)) /\ Current(k) # NoAddr
    /\ agentIdentity \in Registries \cup {NoAddr}
    /\ agentWallets \subseteq Wallets
    /\ walletCount \in 0 .. MaxWallets
    /\ bornWith \in [Wallets -> Registries \cup {NoAddr}]

\* The identities of a registry are 1 .. identityCount, and the two mappings of
\* AgentIdentity are inverse of each other: one wallet, one identity.
IdentitiesMatchWallets ==
    \A r \in Registries :
        /\ \A id \in Ids : Exists(r, id) <=> id \in 1 .. identityCount[r]
        /\ \A id \in 1 .. identityCount[r] :
            walletToIdentity[r][identities[r][id].wallet] = id
        /\ \A w \in Wallets :
            walletToIdentity[r][w] # 0 =>
                /\ walletToIdentity[r][w] \in 1 .. identityCount[r]
                /\ identities[r][walletToIdentity[r][w]].wallet = w

\* Inductive: no slot is ready before its delay.
SlotsWait ==
    /\ \A k \in FactorySlotNames : PendingWaits(factorySlots[k])
    /\ \A w \in Wallets, k \in WalletSlotNames : PendingWaits(walletSlots[w][k])

\* A wallet has an identity in the registry that was in use when it was created
\* and in no other, whatever registries were paused or replaced before and
\* after: creation and registration happen together or not at all.
IdentityFromBirth ==
    \A w \in Wallets, r \in Registries :
        walletToIdentity[r][w] # 0 <=> w \in agentWallets /\ bornWith[w] = r

\* The wallets known to the factory are the clones that exist, all of them
\* initialised, and walletCount is their number.
WalletsCounted ==
    /\ agentWallets = {w \in Wallets : walletOwner[w] # NoAddr}
    /\ \A w \in agentWallets, k \in WalletSlotNames : walletSlots[w][k].current # NoAddr
    /\ walletCount = Cardinality(agentWallets)

\* Inductive: only a wallet that exists has a nominated owner, so that no
\* acceptance makes an owner where there is no clone.
NominationsOwned == \A w \in Wallets : pendingOwner[w] # NoAddr => walletOwner[w] # NoAddr

IInv == /\ TypeOK
        /\ IdentitiesMatchWallets
        /\ IdentityFromBirth
        /\ WalletsCounted /\ IsFiniteSet(agentWallets)
        /\ SlotsWait
        /\ NominationsOwned

\* The implementation, session manager or entry point of the factory, and the
\* session manager or entry point of a wallet that exists, change only to the
\* address proposed there at least the delay before.  The factory's changes do
\* not reach the wallets that exist.
SlotChangesTimelocked ==
    [][/\ \A k \in FactorySlotNames : ChangesTimelocked(factorySlots[k], factorySlots'[k], now)
       /\ \A w \in agentWallets, k \in WalletSlotNames :
            ChangesTimelocked(walletSlots[w][k], walletSlots'[w][k], now)]_vars
=============================================================================
