---------------------------- MODULE TimelockedSlot ----------------------------
(***************************************************************************)
(* An address that is replaced in two calls, propose and accept, at least  *)
(* TIMELOCK_DELAY apart: the pattern of sessionManager and entryPoint in   *)
(* contracts/src/AgentWallet.sol, of implementation, sessionManager and    *)
(* entryPoint in contracts/src/AgentWalletFactory.sol, and of the anchors  *)
(* in contracts/src/OrganizationRegistry.sol.                              *)
(***************************************************************************)
EXTENDS ContractBlock

CONSTANT TimelockDelay      \* TIMELOCK_DELAY

ASSUME TimelockAssumption == TimelockDelay \in Nat \ {0}

\* proposedAt is a history field: when the last proposal was made.
Slot(addresses) ==
    [current : addresses \cup {NoAddr}, pending : addresses \cup {NoAddr},
     activationTime : Nat, proposedAt : Nat]

Holding(a) == [current |-> a, pending |-> NoAddr, activationTime |-> 0, proposedAt |-> 0]

MayPropose(slot) == slot.pending = NoAddr

\* Mutant: a proposal may replace a pending one; its timelock is not restarted.
ProposedOver(slot, a, time) ==
    [slot EXCEPT !.pending = a,
                 !.activationTime = IF slot.activationTime = 0 THEN time + TimelockDelay ELSE @,
                 !.proposedAt = time]

Proposed(slot, a, time) ==
    [slot EXCEPT !.pending = a, !.activationTime = time + TimelockDelay, !.proposedAt = time]

MayAccept(slot, time) == slot.pending # NoAddr /\ time >= slot.activationTime

Accepted(slot) ==
    [slot EXCEPT !.current = slot.pending, !.pending = NoAddr, !.activationTime = 0]

\* A pending address is not ready before the delay of its proposal has passed.
PendingWaits(slot) ==
    slot.pending # NoAddr => slot.activationTime >= slot.proposedAt + TimelockDelay

\* What a step may do to a slot: its address changes only to the pending one,
\* proposed at least the delay ago.
ChangesTimelocked(slot, next, time) ==
    next.current # slot.current =>
        /\ slot.pending # NoAddr
        /\ next.current = slot.pending
        /\ time >= slot.proposedAt + TimelockDelay
=============================================================================
