------------------------- MODULE MCAgentWalletFactory -------------------------
(***************************************************************************)
(* A finite instance of AgentWalletFactory for TLC: every owner has a salt *)
(* of its own for each count of wallets, and any salt may be given to      *)
(* createWallet(owner, salt).                                              *)
(***************************************************************************)
EXTENDS AgentWalletFactory, TLC

CONSTANTS i1, m1, e1

MCSalts == Accounts \X (0 .. MaxWallets - 1)
MCAutoSalt == [owner \in Accounts |-> [n \in 0 .. MaxWallets - 1 |-> <<owner, n>>]]

MCFirstAddress ==
    [k \in FactorySlotNames |-> CASE k = "implementation" -> i1
                                  [] k = "sessionManager" -> m1
                                  [] k = "entryPoint"     -> e1]

\* The specification never distinguishes two owners, nor two registries.
Symmetry == Permutations(Accounts) \cup Permutations(Registries)

\* Slots, pending owners and the contents of identities do not read one another:
\* only one of the three is touched in a behaviour, and of the slots only one.
SlotsTouched ==
    {k \in FactorySlotNames : factorySlots[k] # Holding(FirstAddress[k])} \cup
    {wk \in agentWallets \X WalletSlotNames :
        walletSlots[wk[1]][wk[2]] # Holding(walletSlots[wk[1]][wk[2]].current)}
OwnersTouched == {w \in agentWallets : pendingOwner[w] # NoAddr}
IdentitiesTouched ==
    {ri \in Registries \X Ids : Exists(ri[1], ri[2]) /\
        LET identity == identities[ri[1]][ri[2]]
        IN  ~identity.active \/ identity.updatedAt # identity.createdAt
                             \/ identity.metadataRoot # NoMetadata}
Apart ==
    /\ Cardinality(SlotsTouched) <= 1
    /\ SlotsTouched = {} \/ OwnersTouched = {}
    /\ SlotsTouched = {} \/ IdentitiesTouched = {}
    /\ OwnersTouched = {} \/ IdentitiesTouched = {}

ApartSpec == Init /\ [][Next /\ Apart']_vars
=============================================================================
