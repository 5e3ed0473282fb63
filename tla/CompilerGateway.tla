---------------------------- MODULE CompilerGateway ----------------------------
(***************************************************************************)
(* The gateway through which agents act: src/compiler-gateway.ts with the  *)
(* owner policy it checks (src/core/owner-policy.ts), and the plans and    *)
(* the cache of the intent compiler (packages/compiler).  A request is     *)
(* checked against the policy, compiled into a plan or served one from the *)
(* cache, executed on the chain and logged; it awaits the compiler and the *)
(* chain, and other requests, and the owner, act meanwhile.                *)
(***************************************************************************)
EXTENDS Naturals, FiniteSets, FiniteSetsExt

CONSTANTS
    Requests,   \* bound: the calls of executeIntent in a behaviour
    Intents,    \* the inputs the cache tells apart: action, parameters and context
    IntentOf,   \* the intent of each request
    ValueOf,    \* params.value of each intent
    Plans,      \* plan ids
    Policies,   \* owner policies: the intents whose action and target they allow, and the limits
    CacheTtl,   \* cacheTtl (300)
    DayLength,  \* 86400
    MaxTime,    \* bound
    None

ASSUME GatewayAssumption ==
    /\ IntentOf \in [Requests -> Intents]
    /\ ValueOf \in [Intents -> Nat]
    /\ Policies \subseteq [allows : SUBSET Intents, perTxLimit : Nat, dailyLimit : Nat] /\ Policies # {}
    /\ CacheTtl \in Nat /\ DayLength \in Nat \ {0} /\ MaxTime \in Nat
    /\ None \notin Plans \union Policies \union Nat

VARIABLES
    now,        \* the clock
    policy,     \* the row of owner_policies of the wallet, or None
    plans,      \* execution_plans; status "none" before the INSERT
    cache,      \* compilation_cache
    requests,   \* the requests; seen: history, the successes logged before the check
    chain,      \* what became of the transaction of each request
    actions     \* agent_actions with success = 1: when each request was logged, or None

gatewayVars == <<now, policy, plans, cache, requests, chain, actions>>

Value(r) == ValueOf[IntentOf[r]]
Logged == {r \in Requests : actions[r] # None}

GatewayInit ==
    /\ now \in 0 .. DayLength - 1
    /\ policy = None
    /\ plans = [p \in Plans |-> [status |-> "none", approval |-> FALSE]]
    /\ cache = [i \in Intents |-> [plan |-> None, at |-> 0]]
    /\ requests = [r \in Requests |-> [phase |-> "new", plan |-> None, seen |-> {}, success |-> FALSE]]
    /\ chain = [r \in Requests |-> "none"]
    /\ actions = [r \in Requests |-> None]

-----------------------------------------------------------------------------
\* The owner.

SetOwnerPolicy(p) ==
    /\ policy' = p
    /\ UNCHANGED <<now, plans, cache, requests, chain, actions>>

DeleteOwnerPolicy ==
    /\ policy' = None
    /\ UNCHANGED <<now, plans, cache, requests, chain, actions>>

\* Mutant: a completed plan may fail.
LifecycleLoose ==
    [s \in {"APPROVAL_REQUIRED", "APPROVED", "EXECUTING", "FAILED", "COMPLETED", "REJECTED", "none"} |->
        CASE s = "APPROVAL_REQUIRED" -> {"APPROVED", "REJECTED"}
          [] s = "APPROVED" -> {"EXECUTING", "REJECTED"}
          [] s \in {"EXECUTING", "COMPLETED"} -> {"COMPLETED", "FAILED"}
          [] s = "FAILED" -> {"APPROVED", "REJECTED"}
          [] OTHER -> {}]

\* PLAN_LIFECYCLE, without the states no caller reaches.
Lifecycle ==
    [s \in {"APPROVAL_REQUIRED", "APPROVED", "EXECUTING", "FAILED", "COMPLETED", "REJECTED", "none"} |->
        CASE s = "APPROVAL_REQUIRED" -> {"APPROVED", "REJECTED"}
          [] s = "APPROVED" -> {"EXECUTING", "REJECTED"}
          [] s = "EXECUTING" -> {"COMPLETED", "FAILED"}
          [] s = "FAILED" -> {"APPROVED", "REJECTED"}
          [] OTHER -> {}]

\* approve, reject, execute, complete and fail of the plan generator: a transition
\* the lifecycle does not have leaves the plan as it is.
Move(table, p, status) ==
    [table EXCEPT ![p].status = IF status \in Lifecycle[@] THEN status ELSE @]

\* The endpoints for plans; nothing executes a plan approved or marked here.
MovePlan(p, status) ==
    /\ plans[p].status # "none"
    /\ plans' = Move(plans, p, status)
    /\ UNCHANGED <<now, policy, cache, requests, chain, actions>>

PruneCache ==
    /\ cache' = [i \in Intents |-> IF cache[i].at + CacheTtl < now THEN [plan |-> None, at |-> 0] ELSE cache[i]]
    /\ UNCHANGED <<now, policy, plans, requests, chain, actions>>

-----------------------------------------------------------------------------
\* A request.

DayStart(t) == t - (t % DayLength)

\* The rows the daily limit counts: those logged after the first second of the day.
CountedToday(t) == {r \in Logged : actions[r] > DayStart(t)}

Total(rows) == MapThenSumSet(Value, rows)

\* Mutant: the value asked for is not added to what was spent.
CheckPolicySpentOnly(r) ==
    /\ policy # None
    /\ IntentOf[r] \in policy.allows
    /\ Value(r) <= policy.perTxLimit
    /\ Total(CountedToday(now)) <= policy.dailyLimit

CheckPolicy(r) ==
    /\ policy # None
    /\ IntentOf[r] \in policy.allows
    /\ Value(r) <= policy.perTxLimit
    /\ Total(CountedToday(now)) + Value(r) <= policy.dailyLimit

Fresh(i) == cache[i].plan # None /\ cache[i].at + CacheTtl >= now

End(r, success) == requests' = [requests EXCEPT ![r].phase = "done", ![r].success = success]

\* The policy check and the cache lookup, before anything is awaited.
Begin(r) ==
    /\ requests[r].phase = "new"
    /\ IF ~CheckPolicy(r) THEN End(r, FALSE) /\ cache' = cache
       ELSE IF Fresh(IntentOf[r])
       THEN /\ requests' = [requests EXCEPT ![r].phase = "compiled", ![r].plan = cache[IntentOf[r]].plan,
                                            ![r].seen = Logged]
            /\ cache' = cache
       ELSE /\ requests' = [requests EXCEPT ![r].phase = "compiling", ![r].seen = Logged]
            /\ cache' = [cache EXCEPT ![IntentOf[r]] = [plan |-> None, at |-> 0]]
    /\ UNCHANGED <<now, policy, plans, chain, actions>>

CompileFails(r) ==
    /\ requests[r].phase = "compiling"
    /\ End(r, FALSE)
    /\ UNCHANGED <<now, policy, plans, cache, chain, actions>>

\* The risk engine says whether the plan needs approval; plan and cache are stored.
Compile(r, p, approval) ==
    /\ requests[r].phase = "compiling"
    /\ plans[p].status = "none"
    /\ plans' = [plans EXCEPT ![p] =
        [status |-> IF approval THEN "APPROVAL_REQUIRED" ELSE "APPROVED", approval |-> approval]]
    /\ cache' = [cache EXCEPT ![IntentOf[r]] = [plan |-> p, at |-> now]]
    /\ requests' = [requests EXCEPT ![r].phase = "compiled", ![r].plan = p]
    /\ UNCHANGED <<now, policy, chain, actions>>

\* The risk is the plan's as compiled; the status of its row is not looked at.
Dispatch(r) ==
    /\ requests[r].phase = "compiled"
    /\ IF plans[requests[r].plan].approval
       THEN End(r, FALSE) /\ plans' = plans
       ELSE /\ plans' = Move(Move(plans, requests[r].plan, "APPROVED"), requests[r].plan, "EXECUTING")
            /\ requests' = [requests EXCEPT ![r].phase = "sending"]
    /\ UNCHANGED <<now, policy, cache, chain, actions>>

Send(r) ==
    /\ requests[r].phase = "sending"
    /\ chain' = [chain EXCEPT ![r] = "sent"]
    /\ requests' = [requests EXCEPT ![r].phase = "waiting"]
    /\ UNCHANGED <<now, policy, plans, cache, actions>>

\* The chain; a transaction whose receipt was lost may still be mined.
Mine(r) ==
    /\ chain[r] = "sent"
    /\ \E outcome \in {"mined", "reverted"} : chain' = [chain EXCEPT ![r] = outcome]
    /\ UNCHANGED <<now, policy, plans, cache, requests, actions>>

\* Mutant: the hash of the transaction is enough.
SucceedUnmined(r) ==
    /\ requests[r].phase = "waiting"
    /\ plans' = Move(plans, requests[r].plan, "COMPLETED")
    /\ actions' = [actions EXCEPT ![r] = now]
    /\ End(r, TRUE)
    /\ UNCHANGED <<now, policy, cache, chain>>

Succeed(r) ==
    /\ requests[r].phase = "waiting"
    /\ chain[r] = "mined"
    /\ plans' = Move(plans, requests[r].plan, "COMPLETED")
    /\ actions' = [actions EXCEPT ![r] = now]
    /\ End(r, TRUE)
    /\ UNCHANGED <<now, policy, cache, chain>>

\* It cannot be encoded, sent or awaited, or it reverted, or an event handler threw.
Fail(r) ==
    /\ requests[r].phase \in {"sending", "waiting"}
    /\ plans' = Move(plans, requests[r].plan, "FAILED")
    /\ End(r, FALSE)
    /\ UNCHANGED <<now, policy, cache, chain, actions>>

Pass ==
    /\ now < MaxTime
    /\ now' = now + 1
    /\ UNCHANGED <<policy, plans, cache, requests, chain, actions>>

\* What a request does once it has begun.
RequestStep(r) ==
    \/ CompileFails(r)
    \/ \E p \in Plans, approval \in BOOLEAN : Compile(r, p, approval)
    \/ Dispatch(r) \/ Send(r) \/ Succeed(r) \/ Fail(r)

OwnerStep ==
    \/ \E p \in Policies : SetOwnerPolicy(p)
    \/ DeleteOwnerPolicy
    \/ \E p \in Plans, status \in {"APPROVED", "REJECTED", "EXECUTING"} : MovePlan(p, status)
    \/ PruneCache

-----------------------------------------------------------------------------
\* A plan is COMPLETED, and an action logged as a success, only when a transaction
\* of it was mined, whatever requests share the plan and whichever of them end
\* first (compiler-gateway.ts:163, 170).
CompletedWasMined ==
    /\ \A p \in Plans : plans[p].status = "COMPLETED" =>
        \E r \in Requests : requests[r].plan = p /\ chain[r] = "mined"
    /\ \A r \in Logged : chain[r] = "mined"

\* The requests logged on one day, after its first second, exceed the largest daily
\* limit only when two of them were in progress at once, so that neither check saw
\* the other's row (compiler-gateway.ts:98, owner-policy.ts:238).
OverspendNeedsOverlap == \A t \in 0 .. now :
    LET rows == {r \in Logged : actions[r] > DayStart(t) /\ DayStart(actions[r]) = DayStart(t)} IN
    (\A p \in Policies : Total(rows) > p.dailyLimit) =>
        \E r, q \in rows : r # q /\ r \notin requests[q].seen /\ q \notin requests[r].seen

\* Completed and rejected plans stay so: a request that shares the plan and ends
\* later does not reopen it (execution-plan.ts:17).
FinalPlansStay == [][\A p \in Plans :
    plans[p].status \in {"COMPLETED", "REJECTED"} => plans'[p] = plans[p]]_gatewayVars

-----------------------------------------------------------------------------
(* The inductive invariant.                                                *)

Phases == {"new", "compiling", "compiled", "sending", "waiting", "done"}

PlanRow == [status : DOMAIN Lifecycle, approval : BOOLEAN]
RequestRow == [phase : Phases, plan : Plans \union {None}, seen : SUBSET Requests, success : BOOLEAN]

GatewayTypeOK ==
    /\ now \in Nat
    /\ policy \in Policies \union {None}
    /\ plans \in [Plans -> PlanRow]
    /\ cache \in [Intents -> [plan : Plans \union {None}, at : Nat]]
    /\ requests \in [Requests -> RequestRow]
    /\ chain \in [Requests -> {"none", "sent", "mined", "reverted"}]
    /\ actions \in [Requests -> Nat \union {None}]

\* A request has sent nothing before it is sending, has a plan from then on that it
\* was compiled, and is logged when it is over.
RequestInv == \A r \in Requests :
    /\ requests[r].phase \in {"new", "compiling", "compiled", "sending"} => chain[r] = "none"
    /\ requests[r].phase \in {"compiled", "sending", "waiting"} => requests[r].plan \in Plans
    /\ r \in Logged => requests[r].phase = "done"

\* The largest limit leaves room for a request beside the rows it saw of the day of t.
RoomAt(r, t) == \E p \in Policies :
    Total({q \in requests[r].seen : actions[q] > DayStart(t)}) + Value(r) <= p.dailyLimit

\* A request saw rows that were logged, of two requests one saw all that the other
\* did, and what it saw left room for it when it was checked and does when it is logged.
SeenInv ==
    /\ IsFiniteSet(Logged)
    /\ \A r \in Requests : requests[r].seen \subseteq Logged \ {r}
    /\ \A r, q \in Requests :
        requests[r].seen \subseteq requests[q].seen \/ requests[q].seen \subseteq requests[r].seen
    /\ \A r \in Requests :
        requests[r].phase \in {"compiling", "compiled", "sending", "waiting"} => RoomAt(r, now)
    /\ \A r \in Logged : actions[r] <= now /\ RoomAt(r, actions[r])

GatewayInv == GatewayTypeOK /\ RequestInv /\ CompletedWasMined /\ SeenInv
=============================================================================
