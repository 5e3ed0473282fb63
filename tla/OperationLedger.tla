---------------------------- MODULE OperationLedger ----------------------------
(***************************************************************************)
(* What the bundler of src/runtime promises of wallet operations, whatever *)
(* number of calls carry them to the chain and whatever happens to those   *)
(* calls: an operation is executed at most once, it is reported as mined   *)
(* only after that, and as successful only when it was.                    *)
(***************************************************************************)
CONSTANT Ops

VARIABLES
    outcome,    \* what the execution of each operation gave
    confirmed,  \* operations reported as mined
    succeeded   \* operations reported as successful

ledgerVars == <<outcome, confirmed, succeeded>>

Init ==
    /\ outcome = [o \in Ops |-> "none"]
    /\ confirmed = {}
    /\ succeeded = {}

Execute(o, result) ==
    /\ outcome[o] = "none"
    /\ outcome' = [outcome EXCEPT ![o] = result]
    /\ UNCHANGED <<confirmed, succeeded>>

\* The report may say more than that the operation was mined.
Confirm(o) ==
    /\ outcome[o] # "none"
    /\ confirmed' = confirmed \union {o}
    /\ \/ UNCHANGED succeeded
       \/ outcome[o] = "ok" /\ succeeded' = succeeded \union {o}
    /\ UNCHANGED outcome

Next == \E o \in Ops :
    \/ \E result \in {"ok", "reverted"} : Execute(o, result)
    \/ Confirm(o)

Spec == Init /\ [][Next]_ledgerVars
=============================================================================
