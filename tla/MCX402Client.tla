------------------------------ MODULE MCX402Client ------------------------------
(***************************************************************************)
(* Two requests of the agent, or two fetches, or one of each: those that   *)
(* take no part have ended at the start.                                   *)
(***************************************************************************)
EXTENDS X402Client, TLC

CONSTANTS r1, r2, f1, f2, send, pay, p1, p2

MCRequests == {r1, r2, f1, f2}
MCFetches == {f1, f2}
MCIntents == {send, pay}
MCIntentOf == (r1 :> send) @@ (r2 :> send) @@ (f1 :> pay) @@ (f2 :> pay)
MCValueOf == (send :> 1) @@ (pay :> 0)
MCPlans == {p1, p2}
MCPolicies == {[allows |-> MCIntents, perTxLimit |-> 1, dailyLimit |-> 1]}
MCAmountOf == [f \in MCFetches |-> 1]

Actors == {{r1, r2}, {f1, f2}, {r1, f1}}

ScenarioInit == \E taking \in Actors :
    /\ now \in 0 .. DayLength - 1
    /\ policy = None
    /\ plans = [p \in Plans |-> [status |-> "none", approval |-> FALSE]]
    /\ cache = [i \in Intents |-> [plan |-> None, at |-> 0]]
    /\ requests = [r \in Requests |-> [phase |-> IF r \in taking THEN "new" ELSE "done",
                                       plan |-> None, seen |-> {}, success |-> FALSE]]
    /\ chain = [r \in Requests |-> "none"]
    /\ actions = [r \in Requests |-> None]
    /\ fetches = [f \in Fetches |-> [phase |-> IF f \in taking THEN "new" ELSE "done", seen |-> {}]]
    /\ payments = [f \in Fetches |-> None]
    /\ Ledger!Init

ScenarioSpec == ScenarioInit /\ [][PaymentsNext]_paymentsVars

Symmetry == Permutations(MCPlans)
=============================================================================
