-------------------------------- MODULE UserOps --------------------------------
(***************************************************************************)
(* Wallet operations on their way to the EntryPoint.  src/runtime/bundler  *)
(* signs an operation over the live nonce and submits it (bundleUserOp);   *)
(* bundler-service keeps a queue in the database, submits an operation     *)
(* under the nonce it reads then (submitUserOp), for the submit tool of    *)
(* the MCP server or for a flush of the queue.  Each call awaits the chain *)
(* at every step, so calls interleave, and they may carry the same         *)
(* operation: the tool's leaves its row pending for the next flush.        *)
(***************************************************************************)
EXTENDS Naturals, FiniteSets

CONSTANTS
    Wallets,
    Ops,        \* signed operations
    WalletOf,   \* the sender of each
    Calls,      \* bound: the calls of a behaviour, flushes and submissions
    None        \* not an operation, not a nonce

ASSUME UserOpsAssumption ==
    /\ WalletOf \in [Ops -> Wallets]
    /\ None \notin Nat \union Ops

VARIABLES
    nonce,      \* the EntryPoint's nonce of each wallet
    signed,     \* the nonce each operation was signed over
    queue,      \* bundler_queue: the status of each operation's row, "none" before it
    calls,      \* the calls in progress
    txs,        \* the handleOps transactions that were sent
    rows,       \* operations with a confirmed row in the transactions table
    told        \* history: the successes reported, in a row or to a caller

vars == <<nonce, signed, queue, calls, txs, rows, told>>

Kinds == {"flush", "tool", "bundle"}
New == [kind |-> "none", phase |-> "new", op |-> None, todo |-> {}, nonce |-> None]
Done == [New EXCEPT !.phase = "done"]

Init ==
    /\ nonce = [w \in Wallets |-> 0]
    /\ signed = [o \in Ops |-> None]
    /\ queue = [o \in Ops |-> "none"]
    /\ calls = [c \in Calls |-> New]
    /\ txs = {}
    /\ rows = {}
    /\ told = [mined |-> {}, ok |-> {}]

Live(o) == nonce[WalletOf[o]]

-----------------------------------------------------------------------------
\* Operations, and the calls that carry them.

\* buildSessionUserOp and buildOwnerUserOp.
Build(o) ==
    /\ signed[o] = None
    /\ signed' = [signed EXCEPT ![o] = Live(o)]
    /\ UNCHANGED <<nonce, queue, calls, txs, rows, told>>

Checking(kind, o, todo) ==
    [kind |-> kind, phase |-> "checking", op |-> o, todo |-> todo, nonce |-> None]

StartBundle(c, o) ==
    /\ calls[c].phase = "new"
    /\ signed[o] # None
    /\ calls' = [calls EXCEPT ![c] = Checking("bundle", o, {})]
    /\ UNCHANGED <<nonce, signed, queue, txs, rows, told>>

\* The tool queues the operation, and submits it without touching its row.
StartTool(c, o) ==
    /\ calls[c].phase = "new"
    /\ signed[o] # None
    /\ queue[o] = "none"
    /\ queue' = [queue EXCEPT ![o] = "pending"]
    /\ calls' = [calls EXCEPT ![c] = Checking("tool", o, {})]
    /\ UNCHANGED <<nonce, signed, txs, rows, told>>

\* Mutant: the query also takes what failed.
PendingOrFailed == {o \in Ops : queue[o] \in {"pending", "failed"}}

PendingOps == {o \in Ops : queue[o] = "pending"}

\* A flush reads the pending rows and marks the first; rows of one second come in
\* any order.
StartFlush(c) ==
    /\ calls[c].phase = "new"
    /\ \E o \in PendingOps :
        /\ queue' = [queue EXCEPT ![o] = "submitted"]
        /\ calls' = [calls EXCEPT ![c] = Checking("flush", o, PendingOps \ {o})]
    /\ UNCHANGED <<nonce, signed, txs, rows, told>>

-----------------------------------------------------------------------------
\* The answer to a call about the operation it carries.

\* Mutant: only a success is written to the row.
AnswerSuccessOnly(c, success) ==
    LET call == calls[c]
        settled == [queue EXCEPT ![call.op] = IF success THEN "completed" ELSE @]
    IN  IF call.kind # "flush"
        THEN queue' = queue /\ calls' = [calls EXCEPT ![c] = Done]
        ELSE IF call.todo = {}
        THEN queue' = settled /\ calls' = [calls EXCEPT ![c] = Done]
        ELSE \E o \in call.todo :
            /\ queue' = [settled EXCEPT ![o] = "submitted"]
            /\ calls' = [calls EXCEPT ![c] = Checking("flush", o, call.todo \ {o})]

\* A flush settles the row, marks the next and goes on; other calls return.
Answer(c, success) ==
    LET call == calls[c]
        settled == [queue EXCEPT ![call.op] = IF success THEN "completed" ELSE "failed"]
    IN  IF call.kind # "flush"
        THEN queue' = queue /\ calls' = [calls EXCEPT ![c] = Done]
        ELSE IF call.todo = {}
        THEN queue' = settled /\ calls' = [calls EXCEPT ![c] = Done]
        ELSE \E o \in call.todo :
            /\ queue' = [settled EXCEPT ![o] = "submitted"]
            /\ calls' = [calls EXCEPT ![c] = Checking("flush", o, call.todo \ {o})]

\* No gas, no deposit, a hash mismatch or an RPC error before the submission.
Refused(c) ==
    /\ calls[c].phase \in {"checking", "ready"}
    /\ Answer(c, FALSE)
    /\ UNCHANGED <<nonce, signed, txs, rows, told>>

\* submitUserOp puts the live nonce in the operation it was given.
ReadNonce(c) ==
    /\ calls[c].phase = "checking"
    /\ calls[c].kind # "bundle"
    /\ calls' = [calls EXCEPT ![c].phase = "ready", ![c].nonce = Live(calls[c].op)]
    /\ UNCHANGED <<nonce, signed, queue, txs, rows, told>>

\* bundleUserOp leaves the nonce that was signed.
CheckBundle(c) ==
    /\ calls[c].phase = "checking"
    /\ calls[c].kind = "bundle"
    /\ calls' = [calls EXCEPT ![c].phase = "ready", ![c].nonce = signed[calls[c].op]]
    /\ UNCHANGED <<nonce, signed, queue, txs, rows, told>>

Send(c) ==
    /\ calls[c].phase = "ready"
    /\ txs' = txs \union {[call |-> c, op |-> calls[c].op, nonce |-> calls[c].nonce, result |-> "waiting"]}
    /\ calls' = [calls EXCEPT ![c].phase = "sent"]
    /\ UNCHANGED <<nonce, signed, queue, rows, told>>

Mined(c) == {tx \in txs : tx.call = c /\ tx.op = calls[c].op /\ tx.result # "waiting"}

\* Mutant: the transaction was mined, so the operation has succeeded.
VerdictOfTransaction(kind, result) == [success |-> result # "invalid", ok |-> kind = "bundle" /\ result # "invalid"]

\* A transaction that reverts makes wait() throw.  bundleUserOp takes the result of
\* the operation from its event, submitUserOp is content with the transaction.
Verdict(kind, result) ==
    [success |-> result = "ok" \/ (kind # "bundle" /\ result = "reverted"),
     ok |-> kind = "bundle" /\ result = "ok"]

Receipt(c) ==
    /\ calls[c].phase = "sent"
    /\ \E tx \in Mined(c) :
        LET verdict == Verdict(calls[c].kind, tx.result) IN
        /\ Answer(c, verdict.success)
        /\ told' = [mined |-> IF verdict.success THEN told.mined \union {tx.op} ELSE told.mined,
                    ok |-> IF verdict.ok THEN told.ok \union {tx.op} ELSE told.ok]
        /\ rows' \in {rows, IF verdict.ok THEN rows \union {tx.op} ELSE rows}
    /\ UNCHANGED <<nonce, signed, txs>>

\* The receipt does not come, or an event handler throws after it: a failure.
ReceiptLost(c) ==
    /\ calls[c].phase = "sent"
    /\ Answer(c, FALSE)
    /\ UNCHANGED <<nonce, signed, txs, rows, told>>

\* The process of the call dies.
Die(c) ==
    /\ calls[c].phase \notin {"new", "done"}
    /\ calls' = [calls EXCEPT ![c].phase = "dead", ![c].nonce = None]
    /\ UNCHANGED <<nonce, signed, queue, txs, rows, told>>

-----------------------------------------------------------------------------
\* The chain: the EntryPoint executes an operation whose signature covers the nonce
\* it carries, when that is the wallet's, and raises the nonce; otherwise, and when
\* the wallet refuses the operation, the transaction reverts.
Mine(tx) ==
    /\ tx.result = "waiting"
    /\ \E result \in {"ok", "reverted", "invalid"} :
        /\ txs' = (txs \ {tx}) \union {[tx EXCEPT !.result = result]}
        /\ IF result = "invalid" THEN nonce' = nonce
           ELSE /\ tx.nonce = signed[tx.op] /\ tx.nonce = Live(tx.op)
                /\ nonce' = [nonce EXCEPT ![WalletOf[tx.op]] = @ + 1]
    /\ UNCHANGED <<signed, queue, calls, rows, told>>

CallStep(c) == Refused(c) \/ ReadNonce(c) \/ CheckBundle(c) \/ Send(c) \/ Receipt(c) \/ ReceiptLost(c)

Next ==
    \/ \E o \in Ops : Build(o)
    \/ \E c \in Calls :
        \/ \E o \in Ops : StartBundle(c, o) \/ StartTool(c, o)
        \/ StartFlush(c)
        \/ CallStep(c)
        \/ Die(c)
    \/ \E tx \in txs : Mine(tx)

Spec == Init /\ [][Next]_vars

\* Every await of a call ends.
Fairness == \A c \in Calls : WF_vars(CallStep(c))
FairSpec == Spec /\ Fairness

-----------------------------------------------------------------------------
Nonces == Nat \union {None}
Statuses == {"none", "pending", "submitted", "completed", "failed"}
Phases == {"new", "checking", "ready", "sent", "done", "dead"}

Call == [kind : Kinds \union {"none"}, phase : Phases, op : Ops \union {None}, todo : SUBSET Ops,
         nonce : Nonces]
Transaction == [call : Calls, op : Ops, nonce : Nat, result : {"waiting", "ok", "reverted", "invalid"}]

Active(c) == calls[c].phase \in {"checking", "ready", "sent"}

TypeOK ==
    /\ nonce \in [Wallets -> Nat]
    /\ signed \in [Ops -> Nonces]
    /\ queue \in [Ops -> Statuses]
    /\ calls \in [Calls -> Call]
    /\ \A c \in Calls : Active(c) => calls[c].op \in Ops /\ signed[calls[c].op] \in Nat
    /\ txs \subseteq Transaction
    /\ rows \subseteq Ops
    /\ told \in [mined : SUBSET Ops, ok : SUBSET Ops]

\* What the chain has made of an operation.
Executions(o) == {tx \in txs : tx.op = o /\ tx.result \in {"ok", "reverted"}}

Outcome(o) ==
    IF Executions(o) = {} THEN "none"
    ELSE IF \E tx1, tx2 \in Executions(o) : tx1 # tx2 THEN "twice"
    ELSE (CHOOSE tx \in Executions(o) : TRUE).result

Ledger == INSTANCE OperationLedger WITH
    outcome <- [o \in Ops |-> Outcome(o)], confirmed <- told.mined, succeeded <- told.ok \union rows

\* The bundler implements the ledger: overlapping flushes, direct submissions and
\* submissions repeated after a lost receipt execute an operation once, a row is
\* completed and a caller told so only after that, and bundleUserOp reports a success
\* only when the operation did not revert (bundler-service.ts:214, bundler.ts:171).
LedgerKept == Ledger!Spec

\* The call has read the row of o and will write to it.
Holds(c, o) ==
    /\ calls[c].kind = "flush"
    /\ calls[c].phase \notin {"new", "done", "dead"}
    /\ o = calls[c].op \/ o \in calls[c].todo

\* A row in a final status, or left submitted by a process that died, stays as it is
\* once no flush holds it, although flushes overlap and a late one may turn completed
\* into failed (bundler-service.ts:234, 243).
UnheldRowStays == [][\A o \in Ops :
    /\ queue[o] \in {"submitted", "completed", "failed"}
    /\ \A c \in Calls : ~Holds(c, o)
    => queue'[o] = queue[o]]_vars

\* A row a flush has marked submitted is settled, whatever the answers, unless the
\* process of a flush that holds it dies (bundler-service.ts:230).
SubmittedIsSettled == \A o \in Ops :
    queue[o] = "submitted" ~>
        \/ queue[o] \in {"completed", "failed"}
        \/ \E c \in Calls : calls[c].phase = "dead" /\ (o = calls[c].op \/ o \in calls[c].todo)
=============================================================================
