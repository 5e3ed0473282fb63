------------------------------ MODULE AgentWallet ------------------------------
(***************************************************************************)
(* The administration of the clones of contracts/src/AgentWallet.sol: who  *)
(* owns a wallet, and the session manager and entry point it trusts.       *)
(*                                                                         *)
(* A wallet's address is given by the implementation and the salt it was   *)
(* cloned from (CREATE2).  The calls a wallet executes, the operations it  *)
(* validates and its deposit are left to other modules.                    *)
(***************************************************************************)
EXTENDS TimelockedSlot

CONSTANTS
    Implementations, Salts,
    SessionManagers, EntryPoints

Wallets == Implementations \X Salts

ASSUME WalletAssumption ==
    /\ NoAddr \notin Implementations \cup SessionManagers \cup EntryPoints
    /\ NoAddr \notin Wallets

WalletSlotNames == {"sessionManager", "entryPoint"}

\* The addresses proposed for a slot.
Candidates(k) ==
    CASE k = "implementation" -> Implementations
      [] k = "sessionManager" -> SessionManagers
      [] k = "entryPoint"     -> EntryPoints

AnySlot == Slot(Implementations \cup SessionManagers \cup EntryPoints)

VARIABLES
    walletOwner,        \* owner, NoAddr where there is no clone
    pendingOwner,
    walletSlots         \* sessionManager and entryPoint of each wallet

ownerVars == <<walletOwner, pendingOwner>>
walletVars == <<ownerVars, walletSlots>>

WalletInit ==
    /\ walletOwner = [w \in Wallets |-> NoAddr]
    /\ pendingOwner = [w \in Wallets |-> NoAddr]
    /\ walletSlots = [w \in Wallets |-> [k \in WalletSlotNames |-> Holding(NoAddr)]]

\* No clone yet at this address.
NoCode(w) == walletOwner[w] = NoAddr

\* A call of the factory, in the transaction that clones the wallet.
Initialize(w, owner, sessionManager, entryPoint) ==
    /\ NoCode(w)
    /\ walletOwner' = [walletOwner EXCEPT ![w] = owner]
    /\ walletSlots' = [walletSlots EXCEPT ![w] = [k \in WalletSlotNames |->
                          Holding(IF k = "sessionManager" THEN sessionManager ELSE entryPoint)]]
    /\ UNCHANGED pendingOwner

\* A nomination stays until it is accepted: there is no call to cancel it.
ChangeOwner(caller, w, newOwner) ==
    /\ caller = walletOwner[w]
    /\ pendingOwner[w] = NoAddr
    /\ pendingOwner' = [pendingOwner EXCEPT ![w] = newOwner]
    /\ UNCHANGED <<walletOwner, walletSlots>>

AcceptOwnership(caller, w) ==
    /\ caller = pendingOwner[w]
    /\ walletOwner' = [walletOwner EXCEPT ![w] = caller]
    /\ pendingOwner' = [pendingOwner EXCEPT ![w] = NoAddr]
    /\ UNCHANGED walletSlots

\* proposeSessionManager and proposeEntryPoint.
ProposeWalletSlot(caller, w, k, a) ==
    /\ caller = walletOwner[w]
    /\ MayPropose(walletSlots[w][k])
    /\ walletSlots' = [walletSlots EXCEPT ![w][k] = Proposed(@, a, now)]
    /\ UNCHANGED ownerVars

\* acceptSessionManager and acceptEntryPoint.
AcceptWalletSlot(caller, w, k) ==
    /\ caller = walletOwner[w]
    /\ MayAccept(walletSlots[w][k], now)
    /\ walletSlots' = [walletSlots EXCEPT ![w][k] = Accepted(@)]
    /\ UNCHANGED ownerVars

WalletTypeOK ==
    /\ now \in Nat
    /\ walletOwner \in [Wallets -> Accounts \cup {NoAddr}]
    /\ pendingOwner \in [Wallets -> Accounts \cup {NoAddr}]
    /\ walletSlots \in [Wallets -> [WalletSlotNames -> AnySlot]]
    /\ \A w \in Wallets, k \in WalletSlotNames : walletSlots[w][k] \in Slot(Candidates(k))
=============================================================================
