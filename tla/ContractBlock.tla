---- MODULE ContractBlock ----
(* What the contracts of contracts/src read of the chain: the addresses     *)
(* that call them and own things, address(0), with which they compare, and  *)
(* block.timestamp, which is the same in all of one transaction, so that it *)
(* goes on only between two transactions.                                   *)
EXTENDS Naturals

CONSTANTS
    NoAddr,         \* address(0)
    Accounts,       \* msg.sender and owner, present and to come
    MaxNow          \* bound: the clock stops here

VARIABLE now        \* block.timestamp

ASSUME BlockAssumption == MaxNow \in Nat /\ NoAddr \notin Accounts

TimePasses == now' = now + 1 /\ now < MaxNow
====
