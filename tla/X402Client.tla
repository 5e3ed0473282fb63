------------------------------- MODULE X402Client -------------------------------
(***************************************************************************)
(* Payments of the agent: src/core/x402-client.ts.  A fetch that meets 402 *)
(* checks the payment policy against the payments recorded today, passes a *)
(* wallet_execute intent through the gateway, pays by an operation of its  *)
(* wallet, asks again and records the payment.  The operation is one of    *)
(* the ledger the bundler implements.                                      *)
(***************************************************************************)
EXTENDS CompilerGateway

CONSTANTS
    Fetches,        \* calls of fetchWithPayment that meet 402; each is also a request
    AmountOf,       \* maxAmountRequired of each
    PaymentLimit,   \* policy.maxPaymentPerRequest
    PaymentDaily    \* policy.dailyLimit

ASSUME FetchAssumption ==
    /\ Fetches \subseteq Requests
    /\ AmountOf \in [Fetches -> Nat]
    /\ PaymentLimit \in Nat /\ PaymentDaily \in Nat

VARIABLES
    fetches,    \* phase; seen: history, the payments recorded before the check
    payments,   \* x402_payments: when the payment of each fetch was recorded, or None
    outcome, confirmed, succeeded   \* the ledger of the payments' operations

fetchVars == <<fetches, payments, outcome, confirmed, succeeded>>
paymentsVars == <<gatewayVars, fetchVars>>

Ledger == INSTANCE OperationLedger WITH Ops <- Fetches

Amount(f) == AmountOf[f]
Recorded == {f \in Fetches : payments[f] # None}

FetchInit ==
    /\ fetches = [f \in Fetches |-> [phase |-> "new", seen |-> {}]]
    /\ payments = [f \in Fetches |-> None]
    /\ Ledger!Init

TotalPaid(rows) == MapThenSumSet(Amount, rows)

RecordedToday(t) == {f \in Recorded : payments[f] >= DayStart(t)}

\* Mutant: the amount asked for is not added to the day's payments.
CheckPaymentPolicySpentOnly(f) ==
    /\ Amount(f) <= PaymentLimit
    /\ TotalPaid(RecordedToday(now)) <= PaymentDaily

CheckPaymentPolicy(f) ==
    /\ Amount(f) <= PaymentLimit
    /\ TotalPaid(RecordedToday(now)) + Amount(f) <= PaymentDaily

GoTo(f, phase) == fetches' = [fetches EXCEPT ![f].phase = phase]

\* The answer is 402: the policy is checked.
Demand(f) ==
    /\ fetches[f].phase = "new"
    /\ fetches' = [fetches EXCEPT ![f] =
        IF CheckPaymentPolicy(f) THEN [phase |-> "assessing", seen |-> Recorded]
        ELSE [@ EXCEPT !.phase = "done"]]
    /\ UNCHANGED <<payments, outcome, confirmed, succeeded>>

\* Mutant: the gateway's answer is only logged.
AssessedIgnoring(f) ==
    /\ fetches[f].phase = "assessing"
    /\ requests[f].phase \in {"new", "done"}
    /\ GoTo(f, "paying")
    /\ UNCHANGED <<payments, outcome, confirmed, succeeded>>

\* The gateway has answered; when it cannot be loaded the payment goes on without.
Assessed(f) ==
    /\ fetches[f].phase = "assessing"
    /\ requests[f].phase \in {"new", "done"}
    /\ GoTo(f, IF requests[f].phase = "new" \/ requests[f].success THEN "paying" ELSE "done")
    /\ UNCHANGED <<payments, outcome, confirmed, succeeded>>

\* Not enough USDC, no key, or the operation is not built or not sent.
NotPaid(f) ==
    /\ fetches[f].phase = "paying"
    /\ GoTo(f, "done")
    /\ UNCHANGED <<payments, outcome, confirmed, succeeded>>

SendOp(f) ==
    /\ fetches[f].phase = "paying"
    /\ GoTo(f, "sent")
    /\ UNCHANGED <<payments, outcome, confirmed, succeeded>>

\* The chain executes the operation, in time or after the fetch has given up.
ExecuteOp(f) ==
    /\ fetches[f].phase \in {"sent", "lost"}
    /\ \E result \in {"ok", "reverted"} : Ledger!Execute(f, result)
    /\ UNCHANGED <<fetches, payments>>

\* bundleUserOp reports a success.
Paid(f) ==
    /\ fetches[f].phase = "sent"
    /\ Ledger!Confirm(f) /\ f \in succeeded'
    /\ GoTo(f, "retrying")
    /\ UNCHANGED payments

\* It reports a failure: the operation reverted, or the receipt did not come.
PaymentFailed(f) ==
    /\ fetches[f].phase = "sent"
    /\ GoTo(f, "lost")
    /\ UNCHANGED <<payments, outcome, confirmed, succeeded>>

\* The request with the proof of payment is accepted: the payment is recorded.
Accepted(f) ==
    /\ fetches[f].phase = "retrying"
    /\ payments' = [payments EXCEPT ![f] = now]
    /\ GoTo(f, "done")
    /\ UNCHANGED <<outcome, confirmed, succeeded>>

\* It is refused or fails, or the INSERT does: paid, and not recorded.
NotRecorded(f) ==
    /\ fetches[f].phase = "retrying"
    /\ GoTo(f, "done")
    /\ UNCHANGED <<payments, outcome, confirmed, succeeded>>

FetchStep(f) ==
    \/ Demand(f) \/ Assessed(f) \/ NotPaid(f) \/ SendOp(f) \/ ExecuteOp(f)
    \/ Paid(f) \/ PaymentFailed(f) \/ Accepted(f) \/ NotRecorded(f)

\* The process dies: every request and fetch in progress ends.
ServerCrash ==
    /\ \E r \in Requests : requests[r].phase \notin {"new", "done"} \/ (r \in Fetches /\ fetches[r].phase # "new")
    /\ requests' = [r \in Requests |-> IF requests[r].phase = "new" THEN requests[r] ELSE [requests[r] EXCEPT !.phase = "done"]]
    /\ fetches' = [f \in Fetches |->
        [fetches[f] EXCEPT !.phase = IF @ = "new" THEN @ ELSE IF @ \in {"sent", "lost"} THEN "lost" ELSE "done"]]
    /\ UNCHANGED <<now, policy, plans, cache, chain, actions, payments, outcome, confirmed, succeeded>>

PaymentsInit == GatewayInit /\ FetchInit

PaymentsNext ==
    \/ /\ \/ \E r \in Requests \ Fetches : Begin(r)
          \/ \E f \in Fetches : fetches[f].phase = "assessing" /\ Begin(f)
          \/ \E r \in Requests : RequestStep(r) \/ Mine(r)
          \/ OwnerStep \/ Pass
       /\ UNCHANGED fetchVars
    \/ \E f \in Fetches : FetchStep(f) /\ UNCHANGED gatewayVars
    \/ ServerCrash

PaymentsSpec == PaymentsInit /\ [][PaymentsNext]_paymentsVars

-----------------------------------------------------------------------------
\* A payment is recorded only when its operation was executed and did not revert, and
\* none is made that the gateway refused, although the outcome of either is known
\* only after awaits in which both can fail (x402-client.ts:285, 361, 475).
RecordedWasPaid ==
    /\ \A f \in Recorded : outcome[f] = "ok"
    /\ \A f \in Fetches : outcome[f] # "none" => requests[f].phase = "new" \/ requests[f].success

\* The payments recorded on one day exceed the daily limit only when two of them were
\* in progress at once (x402-client.ts:204).
PaymentsOverspendNeedsOverlap == \A t \in 0 .. now :
    LET rows == {f \in Recorded : DayStart(payments[f]) = DayStart(t)} IN
    TotalPaid(rows) > PaymentDaily =>
        \E f, g \in rows : f # g /\ f \notin fetches[g].seen /\ g \notin fetches[f].seen

-----------------------------------------------------------------------------
(* The inductive invariant.                                                *)

FetchPhases == {"new", "assessing", "paying", "sent", "lost", "retrying", "done"}

FetchTypeOK ==
    /\ fetches \in [Fetches -> [phase : FetchPhases, seen : SUBSET Fetches]]
    /\ payments \in [Fetches -> Nat \union {None}]
    /\ outcome \in [Fetches -> {"none", "ok", "reverted"}]
    /\ confirmed \subseteq Fetches
    /\ succeeded \subseteq Fetches

\* The gateway has answered before a payment is made and does not act for the fetch
\* again; what is reported as successful was, and is recorded once, at the end.
PaymentInv == \A f \in Fetches :
    /\ fetches[f].phase \in {"paying", "sent", "lost", "retrying"} \/ outcome[f] # "none" =>
        \/ requests[f].phase = "new"
        \/ requests[f].phase = "done" /\ requests[f].success
    /\ fetches[f].phase \in {"new", "assessing", "paying"} => outcome[f] = "none"
    /\ f \in succeeded \/ fetches[f].phase = "retrying" \/ f \in Recorded => outcome[f] = "ok"
    /\ f \in Recorded => fetches[f].phase = "done"

\* The daily limit leaves room for a fetch beside the payments it saw of the day of t.
PaymentRoomAt(f, t) ==
    TotalPaid({g \in fetches[f].seen : payments[g] >= DayStart(t)}) + Amount(f) <= PaymentDaily

SeenPaymentsInv ==
    /\ IsFiniteSet(Recorded)
    /\ \A f \in Fetches : fetches[f].seen \subseteq Recorded \ {f}
    /\ \A f, g \in Fetches :
        fetches[f].seen \subseteq fetches[g].seen \/ fetches[g].seen \subseteq fetches[f].seen
    /\ \A f \in Fetches :
        fetches[f].phase \in {"assessing", "paying", "sent", "lost", "retrying"} => PaymentRoomAt(f, now)
    /\ \A f \in Recorded : payments[f] <= now /\ PaymentRoomAt(f, payments[f])

PaymentsInv == GatewayInv /\ FetchTypeOK /\ PaymentInv /\ SeenPaymentsInv
=============================================================================
