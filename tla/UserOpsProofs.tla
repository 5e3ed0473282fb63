----------------------------- MODULE UserOpsProofs -----------------------------
(***************************************************************************)
(* The bundler implements the ledger of operations, for every set of       *)
(* wallets, operations and calls.  The reason is the nonce: an operation   *)
(* is signed over one, the EntryPoint executes it under that one only and  *)
(* raises the wallet's nonce past it, so that no second transaction of the *)
(* operation executes, whichever call sent it; and a call reports only     *)
(* what a transaction it sent has done.                                    *)
(***************************************************************************)
EXTENDS UserOps, TLAPS

Signed(o) == signed[o] \in Nat

\* The calls in progress carry signed operations, and a nonce when they send.
CallsSigned == \A c \in Calls : Active(c) =>
    /\ calls[c].op \in Ops /\ Signed(calls[c].op)
    /\ \A o \in calls[c].todo : Signed(o)
    /\ calls[c].phase = "ready" => calls[c].nonce \in Nat

QueueSigned == \A o \in Ops : queue[o] # "none" => Signed(o)

Executed(tx) == tx.result \in {"ok", "reverted"}

\* The nonce of an executed operation is spent.
NonceSpent == \A tx \in txs : Executed(tx) =>
    /\ Signed(tx.op)
    /\ tx.nonce = signed[tx.op]
    /\ tx.nonce < Live(tx.op)

ExecutedOnce == \A tx1, tx2 \in txs : Executed(tx1) /\ Executed(tx2) /\ tx1.op = tx2.op => tx1 = tx2

\* What was reported is what the chain did.
ToldTrue ==
    /\ \A o \in told.mined : \E tx \in txs : tx.op = o /\ Executed(tx)
    /\ \A o \in told.ok \union rows : \E tx \in txs : tx.op = o /\ tx.result = "ok"

\* The inductive invariant: the queue and the calls, and the chain.
CallsInv == TypeOK /\ CallsSigned /\ QueueSigned
ChainInv == NonceSpent /\ ExecutedOnce /\ ToldTrue
IInv == CallsInv /\ ChainInv

-----------------------------------------------------------------------------
(* The queue and the calls.                                                *)

\* A call that starts on a signed operation.
LEMMA CallStarts ==
    ASSUME CallsInv, NEW c \in Calls, NEW kind \in Kinds, NEW o \in Ops, NEW todo \in SUBSET Ops,
           Signed(o), \A p \in todo : Signed(p),
           calls' = [calls EXCEPT ![c] = Checking(kind, o, todo)],
           signed' = signed
    PROVE  /\ calls' \in [Calls -> Call] /\ CallsSigned'
           /\ \A b \in Calls : Active(b)' => calls'[b].op \in Ops /\ signed'[calls'[b].op] \in Nat
<1> DEFINE new == Checking(kind, o, todo)
<1>1. /\ new \in Call /\ new.phase = "checking" /\ new.op = o /\ new.todo = todo
  BY UserOpsAssumption DEF Checking, Call, Phases, Nonces
<1> HIDE DEF new
<1>2. calls \in [Calls -> Call]
  BY DEF CallsInv, TypeOK
<1>3. calls' \in [Calls -> Call] /\ calls'[c] = new /\ \A b \in Calls \ {c} : calls'[b] = calls[b]
  BY <1>1, <1>2 DEF new
<1>4. CallsSigned'
  <2> SUFFICES ASSUME NEW b \in Calls, Active(b)'
               PROVE  (/\ calls[b].op \in Ops /\ Signed(calls[b].op)
                       /\ \A p \in calls[b].todo : Signed(p)
                       /\ calls[b].phase = "ready" => calls[b].nonce \in Nat)'
    BY DEF CallsSigned
  <2>1. CASE b = c
    BY <2>1, <1>1, <1>3 DEF Signed
  <2>2. CASE b # c
    BY <2>2, <1>3 DEF CallsInv, CallsSigned, Active, Signed
  <2> QED
    BY <2>1, <2>2
<1> QED
  BY <1>3, <1>4 DEF CallsSigned, Signed

\* A call that goes to a phase in which it sends nothing, or that has a nonce.
LEMMA CallMoves ==
    ASSUME CallsInv, NEW c \in Calls, NEW new \in Call,
           calls' = [calls EXCEPT ![c] = new], signed' = signed,
           new.phase \in {"checking", "ready", "sent"} =>
                Active(c) /\ new.op = calls[c].op /\ new.todo = calls[c].todo,
           new.phase = "ready" => new.nonce \in Nat
    PROVE  /\ calls' \in [Calls -> Call] /\ CallsSigned'
           /\ \A b \in Calls : Active(b)' => calls'[b].op \in Ops /\ signed'[calls'[b].op] \in Nat
<1>1. calls \in [Calls -> Call]
  BY DEF CallsInv, TypeOK
<1>2. calls' \in [Calls -> Call] /\ calls'[c] = new /\ \A b \in Calls \ {c} : calls'[b] = calls[b]
  BY <1>1
<1>3. CallsSigned'
  <2> SUFFICES ASSUME NEW b \in Calls, Active(b)'
               PROVE  (/\ calls[b].op \in Ops /\ Signed(calls[b].op)
                       /\ \A p \in calls[b].todo : Signed(p)
                       /\ calls[b].phase = "ready" => calls[b].nonce \in Nat)'
    BY DEF CallsSigned
  <2>1. CASE b = c
    BY <2>1, <1>2 DEF CallsInv, CallsSigned, Active, Signed
  <2>2. CASE b # c
    BY <2>2, <1>2 DEF CallsInv, CallsSigned, Active, Signed
  <2> QED
    BY <2>1, <2>2
<1> QED
  BY <1>2, <1>3 DEF CallsSigned, Signed

LEMMA DoneCall == Done \in Call /\ Done.phase = "done"
BY UserOpsAssumption DEF Done, New, Call, Phases, Nonces

\* A row with another status.
LEMMA RowMoves ==
    ASSUME NEW table \in [Ops -> Statuses], NEW o \in Ops, NEW status \in Statuses \ {"none"},
           \A p \in Ops : table[p] # "none" => Signed(p), Signed(o)
    PROVE  /\ [table EXCEPT ![o] = status] \in [Ops -> Statuses]
           /\ \A p \in Ops : [table EXCEPT ![o] = status][p] # "none" => Signed(p)
OBVIOUS

LEMMA AnswerKeeps ==
    ASSUME CallsInv, NEW c \in Calls, Active(c), NEW success \in BOOLEAN, Answer(c, success),
           signed' = signed
    PROVE  /\ queue' \in [Ops -> Statuses] /\ QueueSigned'
           /\ calls' \in [Calls -> Call] /\ CallsSigned'
           /\ \A b \in Calls : Active(b)' => calls'[b].op \in Ops /\ signed'[calls'[b].op] \in Nat
<1> DEFINE call == calls[c]
           status == IF success THEN "completed" ELSE "failed"
           settled == [queue EXCEPT ![call.op] = status]
<1>1. /\ queue \in [Ops -> Statuses] /\ call \in Call /\ call.op \in Ops /\ Signed(call.op)
      /\ call.todo \subseteq Ops /\ \A o \in call.todo : Signed(o)
      /\ \A p \in Ops : queue[p] # "none" => Signed(p)
  BY DEF CallsInv, TypeOK, CallsSigned, QueueSigned, Call
<1>2. status \in Statuses \ {"none"} /\ "submitted" \in Statuses \ {"none"}
  BY DEF Statuses
<1>3. /\ settled \in [Ops -> Statuses]
      /\ \A p \in Ops : settled[p] # "none" => Signed(p)
  BY <1>1, <1>2, RowMoves
<1>4. \/ /\ queue' \in {queue, settled}
         /\ calls' = [calls EXCEPT ![c] = Done]
      \/ \E o \in call.todo :
            /\ queue' = [settled EXCEPT ![o] = "submitted"]
            /\ calls' = [calls EXCEPT ![c] = Checking("flush", o, call.todo \ {o})]
  BY DEF Answer
<1> HIDE DEF settled, status, call
<1>5. CASE queue' \in {queue, settled} /\ calls' = [calls EXCEPT ![c] = Done]
  <2>1. queue' \in [Ops -> Statuses] /\ QueueSigned'
    BY <1>5, <1>1, <1>3 DEF QueueSigned, Signed
  <2> QED
    BY <2>1, <1>5, DoneCall, CallMoves
<1>6. ASSUME NEW o \in call.todo, queue' = [settled EXCEPT ![o] = "submitted"],
             calls' = [calls EXCEPT ![c] = Checking("flush", o, call.todo \ {o})]
      PROVE  /\ queue' \in [Ops -> Statuses] /\ QueueSigned'
             /\ calls' \in [Calls -> Call] /\ CallsSigned'
             /\ \A b \in Calls : Active(b)' => calls'[b].op \in Ops /\ signed'[calls'[b].op] \in Nat
  <2>1. queue' \in [Ops -> Statuses] /\ \A p \in Ops : queue'[p] # "none" => Signed(p)
    BY <1>6, <1>1, <1>2, <1>3, RowMoves
  <2>2. QueueSigned'
    BY <2>1 DEF QueueSigned, Signed
  <2>3. "flush" \in Kinds /\ o \in Ops /\ call.todo \ {o} \in SUBSET Ops /\ Signed(o)
        /\ \A p \in call.todo \ {o} : Signed(p)
    BY <1>1 DEF Kinds
  <2> QED
    BY <2>1, <2>2, <2>3, <1>6, CallStarts
<1> QED
  BY <1>4, <1>5, <1>6

\* The queue and the calls after a step.
CallsAfter ==
    /\ queue' \in [Ops -> Statuses] /\ QueueSigned'
    /\ calls' \in [Calls -> Call] /\ CallsSigned'
    /\ \A b \in Calls : Active(b)' => calls'[b].op \in Ops /\ signed'[calls'[b].op] \in Nat

LEMMA FrameCalls ==
    ASSUME CallsInv, queue' = queue, calls' = calls, signed' = signed
    PROVE  CallsAfter
BY DEF CallsInv, TypeOK, CallsAfter, CallsSigned, QueueSigned, Active, Signed

LEMMA BuildCalls ==
    ASSUME CallsInv, NEW o \in Ops, Build(o)
    PROVE  CallsAfter
<1>1. /\ signed \in [Ops -> Nonces] /\ nonce \in [Wallets -> Nat] /\ Live(o) \in Nat
      /\ queue \in [Ops -> Statuses] /\ calls \in [Calls -> Call]
  BY UserOpsAssumption DEF CallsInv, TypeOK, Live
<1>2. /\ signed' = [signed EXCEPT ![o] = Live(o)] /\ queue' = queue /\ calls' = calls
  BY DEF Build
<1>3. \A p \in Ops : Signed(p) => Signed(p)'
  BY <1>1, <1>2 DEF Signed
<1>4. \A c \in Calls : calls[c].todo \subseteq Ops
  BY <1>1 DEF Call
<1>5. CallsSigned'
  BY <1>2, <1>3, <1>4 DEF CallsInv, CallsSigned, Active
<1>6. QueueSigned'
  BY <1>2, <1>3 DEF CallsInv, QueueSigned
<1> QED
  BY <1>1, <1>2, <1>5, <1>6 DEF CallsAfter, CallsSigned, Signed

LEMMA StartCalls ==
    ASSUME CallsInv, NEW c \in Calls,
           StartFlush(c) \/ \E o \in Ops : StartBundle(c, o) \/ StartTool(c, o)
    PROVE  CallsAfter
<1>1. /\ queue \in [Ops -> Statuses] /\ signed \in [Ops -> Nonces]
      /\ \A o \in Ops : queue[o] # "none" => Signed(o)
      /\ {"pending", "submitted"} \subseteq Statuses \ {"none"} /\ Kinds = {"flush", "tool", "bundle"}
  BY DEF CallsInv, TypeOK, QueueSigned, Statuses, Kinds
<1>2. signed' = signed
  BY DEF StartFlush, StartBundle, StartTool
<1>3. ASSUME NEW kind \in Kinds, NEW o \in Ops, NEW todo \in SUBSET Ops,
             Signed(o), \A p \in todo : Signed(p),
             queue' \in [Ops -> Statuses], \A p \in Ops : queue'[p] # "none" => Signed(p),
             calls' = [calls EXCEPT ![c] = Checking(kind, o, todo)]
      PROVE  CallsAfter
  <2>1. QueueSigned'
    BY <1>2, <1>3 DEF QueueSigned, Signed
  <2> QED
    BY <1>2, <1>3, <2>1, CallStarts DEF CallsAfter
<1>4. CASE StartFlush(c)
  <2>1. PICK o \in PendingOps :
          /\ queue' = [queue EXCEPT ![o] = "submitted"]
          /\ calls' = [calls EXCEPT ![c] = Checking("flush", o, PendingOps \ {o})]
    BY <1>4 DEF StartFlush
  <2>2. PendingOps \subseteq Ops /\ \A p \in PendingOps : Signed(p)
    BY <1>1 DEF PendingOps
  <2>3. PendingOps \ {o} \in SUBSET Ops /\ o \in Ops /\ Signed(o) /\ \A p \in PendingOps \ {o} : Signed(p)
    BY <2>1, <2>2
  <2>4. /\ [queue EXCEPT ![o] = "submitted"] \in [Ops -> Statuses]
        /\ \A p \in Ops : [queue EXCEPT ![o] = "submitted"][p] # "none" => Signed(p)
    BY <1>1, <2>3, RowMoves
  <2>5. "flush" \in Kinds /\ queue' \in [Ops -> Statuses] /\ \A p \in Ops : queue'[p] # "none" => Signed(p)
    BY <1>1, <2>1, <2>4
  <2> QED
    BY <1>3, <2>1, <2>3, <2>5, Zenon
<1>5. ASSUME NEW o \in Ops, StartBundle(c, o) PROVE CallsAfter
  <2>1. Signed(o) /\ queue' = queue /\ calls' = [calls EXCEPT ![c] = Checking("bundle", o, {})]
    BY <1>1, <1>5 DEF StartBundle, Signed, Nonces
  <2>2. /\ "bundle" \in Kinds /\ queue' \in [Ops -> Statuses] /\ \A p \in Ops : queue'[p] # "none" => Signed(p)
        /\ {} \in SUBSET Ops /\ \A p \in {} : Signed(p)
    BY <1>1, <2>1
  <2> QED
    BY <1>3, <2>1, <2>2, Zenon
<1>6. ASSUME NEW o \in Ops, StartTool(c, o) PROVE CallsAfter
  <2>1. /\ Signed(o) /\ queue' = [queue EXCEPT ![o] = "pending"]
        /\ calls' = [calls EXCEPT ![c] = Checking("tool", o, {})]
    BY <1>1, <1>6 DEF StartTool, Signed, Nonces
  <2>2. /\ [queue EXCEPT ![o] = "pending"] \in [Ops -> Statuses]
        /\ \A p \in Ops : [queue EXCEPT ![o] = "pending"][p] # "none" => Signed(p)
    BY <1>1, <2>1, RowMoves
  <2>3. /\ "tool" \in Kinds /\ queue' \in [Ops -> Statuses] /\ \A p \in Ops : queue'[p] # "none" => Signed(p)
        /\ {} \in SUBSET Ops /\ \A p \in {} : Signed(p)
    BY <1>1, <2>1, <2>2
  <2> QED
    BY <1>3, <2>1, <2>3, Zenon
<1> QED
  BY <1>4, <1>5, <1>6

LEMMA AnsweredCalls ==
    ASSUME CallsInv, NEW c \in Calls, Refused(c) \/ Receipt(c) \/ ReceiptLost(c)
    PROVE  CallsAfter
<1>1. Active(c) /\ signed' = signed
  BY DEF Refused, Receipt, ReceiptLost, Active
<1>2. PICK success \in BOOLEAN : Answer(c, success)
  BY DEF Refused, Receipt, ReceiptLost, Verdict
<1> QED
  BY <1>1, <1>2, AnswerKeeps DEF CallsAfter

LEMMA MovedCalls ==
    ASSUME CallsInv, NEW c \in Calls, ReadNonce(c) \/ CheckBundle(c) \/ Send(c) \/ Die(c)
    PROVE  CallsAfter
<1> DEFINE old == calls[c]
<1>1. /\ calls \in [Calls -> Call] /\ old \in Call /\ old.nonce \in Nonces
      /\ nonce \in [Wallets -> Nat] /\ signed \in [Ops -> Nonces]
  BY DEF CallsInv, TypeOK, Call
<1>2. signed' = signed /\ queue' = queue
  BY DEF ReadNonce, CheckBundle, Send, Die
<1> HIDE DEF old
<1>3. ASSUME NEW phase \in Phases, NEW number \in Nonces,
             calls' = [calls EXCEPT ![c] = [old EXCEPT !.phase = phase, !.nonce = number]],
             phase \in {"checking", "ready", "sent"} => Active(c),
             phase = "ready" => number \in Nat
      PROVE  CallsAfter
  <2> DEFINE new == [old EXCEPT !.phase = phase, !.nonce = number]
  <2>1. new \in Call /\ new.phase = phase /\ new.nonce = number /\ new.op = old.op /\ new.todo = old.todo
    BY <1>1 DEF Call
  <2>2. calls' = [calls EXCEPT ![c] = new]
    BY <1>3
  <2> HIDE DEF new
  <2>3. /\ calls' \in [Calls -> Call] /\ CallsSigned'
        /\ \A b \in Calls : Active(b)' => calls'[b].op \in Ops /\ signed'[calls'[b].op] \in Nat
    BY <1>2, <1>3, <2>1, <2>2, CallMoves DEF old
  <2>4. queue' \in [Ops -> Statuses] /\ QueueSigned'
    BY <1>2 DEF CallsInv, TypeOK, QueueSigned, Signed
  <2> QED
    BY <2>3, <2>4 DEF CallsAfter
<1>4. CASE ReadNonce(c)
  <2>1. Active(c) /\ old.op \in Ops
    BY <1>4 DEF ReadNonce, Active, CallsInv, CallsSigned, old
  <2>2. Live(old.op) \in Nat
    BY <2>1, <1>1, UserOpsAssumption DEF Live
  <2>3. calls' = [calls EXCEPT ![c] = [old EXCEPT !.phase = "ready", !.nonce = Live(old.op)]]
    BY <1>4 DEF ReadNonce, old
  <2> QED
    BY <2>1, <2>2, <2>3, <1>3 DEF Phases, Nonces
<1>5. CASE CheckBundle(c)
  <2>1. Active(c) /\ signed[old.op] \in Nat
    BY <1>5 DEF CheckBundle, Active, CallsInv, CallsSigned, Signed, old
  <2>2. calls' = [calls EXCEPT ![c] = [old EXCEPT !.phase = "ready", !.nonce = signed[old.op]]]
    BY <1>5 DEF CheckBundle, old
  <2> QED
    BY <2>1, <2>2, <1>3 DEF Phases, Nonces
<1>6. CASE Send(c)
  <2>1. Active(c)
    BY <1>6 DEF Send, Active
  <2>2. calls' = [calls EXCEPT ![c] = [old EXCEPT !.phase = "sent", !.nonce = old.nonce]]
    <3>1. calls' = [calls EXCEPT ![c] = [old EXCEPT !.phase = "sent"]]
      BY <1>6 DEF Send, old
    <3>2. [old EXCEPT !.phase = "sent"] = [old EXCEPT !.phase = "sent", !.nonce = old.nonce]
      BY <1>1 DEF Call
    <3> QED
      BY <3>1, <3>2
  <2> QED
    BY <2>1, <2>2, <1>1, <1>3 DEF Phases
<1>7. CASE Die(c)
  <2>1. calls' = [calls EXCEPT ![c] = [old EXCEPT !.phase = "dead", !.nonce = None]]
    BY <1>7 DEF Die, old
  <2> QED
    BY <2>1, <1>3 DEF Phases, Nonces
<1> QED
  BY <1>4, <1>5, <1>6, <1>7

LEMMA CallsNext ==
    ASSUME CallsInv, [Next]_vars
    PROVE  CallsAfter
<1>1. ASSUME NEW o \in Ops, Build(o) PROVE CallsAfter
  BY <1>1, BuildCalls
<1>2. ASSUME NEW c \in Calls, StartFlush(c) \/ \E o \in Ops : StartBundle(c, o) \/ StartTool(c, o)
      PROVE  CallsAfter
  BY <1>2, StartCalls
<1>3. ASSUME NEW c \in Calls, Refused(c) \/ Receipt(c) \/ ReceiptLost(c) PROVE CallsAfter
  BY <1>3, AnsweredCalls
<1>4. ASSUME NEW c \in Calls, ReadNonce(c) \/ CheckBundle(c) \/ Send(c) \/ Die(c) PROVE CallsAfter
  BY <1>4, MovedCalls
<1>5. CASE (\E tx \in txs : Mine(tx)) \/ UNCHANGED vars
  <2>1. queue' = queue /\ calls' = calls /\ signed' = signed
    BY <1>5 DEF Mine, vars
  <2> QED
    BY <2>1, FrameCalls
<1> QED
  BY <1>1, <1>2, <1>3, <1>4, <1>5 DEF Next, CallStep

-----------------------------------------------------------------------------
(* The chain and the reports.                                              *)

\* Steps that send, mine and report nothing.
Quiet ==
    /\ nonce' = nonce /\ txs' = txs /\ rows' = rows /\ told' = told
    /\ \A o \in Ops : Signed(o) => signed'[o] = signed[o]
    /\ signed' \in [Ops -> Nonces]

LEMMA QuietSteps ==
    ASSUME CallsInv,
           \/ \E o \in Ops : Build(o)
           \/ \E c \in Calls :
                \/ \E o \in Ops : StartBundle(c, o) \/ StartTool(c, o)
                \/ StartFlush(c) \/ Refused(c) \/ ReadNonce(c) \/ CheckBundle(c) \/ ReceiptLost(c) \/ Die(c)
           \/ UNCHANGED vars
    PROVE  Quiet
<1>1. signed \in [Ops -> Nonces] /\ nonce \in [Wallets -> Nat]
  BY DEF CallsInv, TypeOK
<1>2. ASSUME NEW o \in Ops, Build(o) PROVE Quiet
  <2>1. Live(o) \in Nonces
    BY <1>1, UserOpsAssumption DEF Live, Nonces
  <2>2. ~Signed(o)
    BY <1>2, UserOpsAssumption DEF Build, Signed
  <2>3. signed' = [signed EXCEPT ![o] = Live(o)]
    BY <1>2 DEF Build
  <2>4. signed' \in [Ops -> Nonces] /\ \A p \in Ops : p # o => signed'[p] = signed[p]
    BY <1>1, <2>1, <2>3
  <2> QED
    BY <1>2, <2>2, <2>4 DEF Build, Quiet
<1> QED
  BY <1>1, <1>2 DEF StartBundle, StartTool, StartFlush, Refused, ReadNonce, CheckBundle, ReceiptLost, Die, vars, Quiet

LEMMA QuietKeeps ==
    ASSUME IInv, Quiet
    PROVE  ChainInv'
<1>1. \A tx \in txs : tx.op \in Ops
  BY DEF IInv, CallsInv, TypeOK, Transaction
<1>2. NonceSpent'
  BY <1>1 DEF IInv, ChainInv, NonceSpent, Quiet, Live, Signed
<1>3. ExecutedOnce' /\ ToldTrue'
  BY DEF IInv, ChainInv, ExecutedOnce, ToldTrue, Quiet
<1> QED
  BY <1>2, <1>3 DEF ChainInv

\* A transaction that waits adds nothing to what the chain has done.
LEMMA SendKeeps ==
    ASSUME IInv, NEW c \in Calls, Send(c)
    PROVE  /\ ChainInv' /\ txs' \subseteq Transaction
           /\ \A tx : Executed(tx) => (tx \in txs' <=> tx \in txs)
<1> DEFINE new == [call |-> c, op |-> calls[c].op, nonce |-> calls[c].nonce, result |-> "waiting"]
<1>1. calls[c].op \in Ops /\ calls[c].nonce \in Nat
  BY DEF IInv, CallsInv, CallsSigned, Send, Active
<1>2. new \in Transaction /\ new.result = "waiting"
  BY <1>1 DEF Transaction
<1>3. txs' = txs \union {new} /\ nonce' = nonce /\ signed' = signed /\ rows' = rows /\ told' = told
  BY DEF Send
<1> HIDE DEF new
<1>4. txs' \subseteq Transaction
  BY <1>2, <1>3 DEF IInv, CallsInv, TypeOK
<1>5. ~Executed(new)
  BY <1>2 DEF Executed
<1>6. NonceSpent'
  BY <1>3, <1>5 DEF IInv, ChainInv, NonceSpent, Live, Signed, Executed
<1>7. ExecutedOnce'
  BY <1>3, <1>5 DEF IInv, ChainInv, ExecutedOnce, Executed
<1>8. ToldTrue'
  BY <1>3 DEF IInv, ChainInv, ToldTrue, Executed
<1> QED
  BY <1>3, <1>4, <1>5, <1>6, <1>7, <1>8 DEF ChainInv

\* A report is taken from a transaction of the operation.
LEMMA ReceiptKeeps ==
    ASSUME IInv, NEW c \in Calls, Receipt(c)
    PROVE  \E o \in Ops :
             /\ told' \in [mined : SUBSET Ops, ok : SUBSET Ops] /\ rows' \subseteq Ops
             /\ nonce' = nonce /\ signed' = signed /\ txs' = txs
             /\ \/ told' = told /\ rows' = rows
                \/ /\ \E tx \in txs : tx.op = o /\ Executed(tx)
                   /\ told'.mined = told.mined \union {o}
                   /\ \/ told'.ok = told.ok /\ rows' = rows
                      \/ /\ \E tx \in txs : tx.op = o /\ tx.result = "ok"
                         /\ told'.ok = told.ok \union {o} /\ rows' \in {rows, rows \union {o}}
<1>1. PICK tx \in Mined(c) :
        LET verdict == Verdict(calls[c].kind, tx.result) IN
        /\ told' = [mined |-> IF verdict.success THEN told.mined \union {tx.op} ELSE told.mined,
                    ok |-> IF verdict.ok THEN told.ok \union {tx.op} ELSE told.ok]
        /\ rows' \in {rows, IF verdict.ok THEN rows \union {tx.op} ELSE rows}
  BY DEF Receipt
<1>2. /\ tx \in txs /\ tx.op \in Ops /\ rows \subseteq Ops
      /\ told \in [mined : SUBSET Ops, ok : SUBSET Ops]
      /\ told.mined \subseteq Ops /\ told.ok \subseteq Ops /\ told = [mined |-> told.mined, ok |-> told.ok]
  BY <1>1 DEF Mined, IInv, CallsInv, TypeOK, Transaction
<1>3. nonce' = nonce /\ signed' = signed /\ txs' = txs
  BY DEF Receipt
<1> DEFINE success == Verdict(calls[c].kind, tx.result).success
           ok == Verdict(calls[c].kind, tx.result).ok
           mined2 == IF success THEN told.mined \union {tx.op} ELSE told.mined
           ok2 == IF ok THEN told.ok \union {tx.op} ELSE told.ok
<1>4. (success => Executed(tx)) /\ (ok => success /\ tx.result = "ok")
  BY DEF Verdict, Executed
<1>5. /\ told' = [mined |-> mined2, ok |-> ok2]
      /\ rows' \in {rows, IF ok THEN rows \union {tx.op} ELSE rows}
  BY <1>1
<1> HIDE DEF success, ok
<1>6. CASE ~success
  <2>1. told' = told /\ rows' = rows
    BY <1>2, <1>4, <1>5, <1>6
  <2> QED
    BY <2>1, <1>2, <1>3
<1>7. CASE success
  <2>1. told' \in [mined : SUBSET Ops, ok : SUBSET Ops] /\ rows' \subseteq Ops
        /\ told'.mined = told.mined \union {tx.op}
    BY <1>2, <1>5, <1>7
  <2>2. \/ told'.ok = told.ok /\ rows' = rows
        \/ tx.result = "ok" /\ told'.ok = told.ok \union {tx.op} /\ rows' \in {rows, rows \union {tx.op}}
    BY <1>2, <1>4, <1>5
  <2> QED
    BY <2>1, <2>2, <1>2, <1>3, <1>4, <1>7
<1> QED
  BY <1>6, <1>7

LEMMA ReportKeeps ==
    ASSUME IInv, NEW c \in Calls, Receipt(c)
    PROVE  ChainInv'
<1>1. nonce' = nonce /\ signed' = signed /\ txs' = txs
  BY DEF Receipt
<1>2. ToldTrue'
  BY <1>1, ReceiptKeeps DEF IInv, ChainInv, ToldTrue, Executed
<1>3. NonceSpent' /\ ExecutedOnce'
  BY <1>1 DEF IInv, ChainInv, NonceSpent, ExecutedOnce, Live, Signed
<1> QED
  BY <1>2, <1>3 DEF ChainInv

\* The EntryPoint executes an operation that was not executed before, or the
\* transaction has no effect.
LEMMA MineMoves ==
    ASSUME IInv, NEW tx \in txs, Mine(tx)
    PROVE  /\ nonce' \in [Wallets -> Nat] /\ txs' \subseteq Transaction
           /\ signed' = signed /\ rows' = rows /\ told' = told
           /\ \A o \in Ops : Live(o) <= Live(o)'
           /\ \E done \in Transaction :
                /\ txs' = (txs \ {tx}) \union {done} /\ ~Executed(tx)
                /\ done.op = tx.op /\ tx.op \in Ops
                /\ \/ ~Executed(done)
                   \/ /\ Executed(done) /\ Signed(tx.op) /\ done.nonce = signed[tx.op]
                      /\ done.nonce < Live(tx.op)'
                      /\ \A other \in txs : Executed(other) => other.op # tx.op
<1>1. /\ tx \in Transaction /\ tx.op \in Ops /\ tx.nonce \in Nat /\ txs \subseteq Transaction
      /\ nonce \in [Wallets -> Nat] /\ WalletOf \in [Ops -> Wallets]
  BY UserOpsAssumption DEF IInv, CallsInv, TypeOK, Transaction
<1>2. PICK result \in {"ok", "reverted", "invalid"} :
        /\ txs' = (txs \ {tx}) \union {[tx EXCEPT !.result = result]}
        /\ IF result = "invalid" THEN nonce' = nonce
           ELSE /\ tx.nonce = signed[tx.op] /\ tx.nonce = Live(tx.op)
                /\ nonce' = [nonce EXCEPT ![WalletOf[tx.op]] = @ + 1]
  BY DEF Mine
<1> DEFINE done == [tx EXCEPT !.result = result]
<1>3. done \in Transaction /\ done.op = tx.op /\ done.nonce = tx.nonce /\ done.result = result
  BY <1>1 DEF Transaction
<1>4. signed' = signed /\ rows' = rows /\ told' = told /\ ~Executed(tx)
  BY DEF Mine, Executed
<1>5. txs' = (txs \ {tx}) \union {done} /\ txs' \subseteq Transaction
  BY <1>1, <1>2, <1>3
<1> HIDE DEF done
<1>6. CASE result = "invalid"
  <2>1. ~Executed(done) /\ nonce' = nonce
    BY <1>2, <1>3, <1>6 DEF Executed
  <2>2. \A o \in Ops : Live(o) <= Live(o)'
    BY <2>1, <1>1 DEF Live
  <2> QED
    BY <2>1, <2>2, <1>1, <1>3, <1>4, <1>5
<1>7. CASE result # "invalid"
  <2>1. /\ tx.nonce = signed[tx.op] /\ tx.nonce = Live(tx.op)
        /\ nonce' = [nonce EXCEPT ![WalletOf[tx.op]] = @ + 1]
    BY <1>2, <1>7
  <2>2. /\ nonce' \in [Wallets -> Nat] /\ tx.nonce < Live(tx.op)'
        /\ \A o \in Ops : Live(o) <= Live(o)'
    BY <2>1, <1>1 DEF Live
  <2>3. Executed(done) /\ Signed(tx.op) /\ done.nonce = signed[tx.op] /\ done.nonce < Live(tx.op)'
    BY <2>1, <2>2, <1>1, <1>3, <1>7 DEF Executed, Signed
  <2>4. ASSUME NEW other \in txs, Executed(other), other.op = tx.op PROVE FALSE
    <3>1. other.nonce = signed[tx.op] /\ other.nonce < Live(tx.op)
      BY <2>4 DEF IInv, ChainInv, NonceSpent
    <3> QED
      BY <3>1, <2>1, <1>1
  <2> QED
    BY <2>2, <2>3, <2>4, <1>1, <1>3, <1>4, <1>5
<1> QED
  BY <1>6, <1>7

LEMMA MineKeeps ==
    ASSUME IInv, NEW tx \in txs, Mine(tx)
    PROVE  ChainInv'
<1>1. /\ signed' = signed /\ rows' = rows /\ told' = told
      /\ \A o \in Ops : Live(o) <= Live(o)'
      /\ nonce' \in [Wallets -> Nat] /\ nonce \in [Wallets -> Nat] /\ txs \subseteq Transaction
  BY MineMoves DEF IInv, CallsInv, TypeOK
<1>2. PICK done \in Transaction :
        /\ txs' = (txs \ {tx}) \union {done} /\ ~Executed(tx)
        /\ done.op = tx.op /\ tx.op \in Ops
        /\ \/ ~Executed(done)
           \/ /\ Executed(done) /\ Signed(tx.op) /\ done.nonce = signed[tx.op]
              /\ done.nonce < Live(tx.op)'
              /\ \A other \in txs : Executed(other) => other.op # tx.op
  BY MineMoves
<1>3. NonceSpent'
  <2> SUFFICES ASSUME NEW other \in txs', Executed(other)
               PROVE  /\ Signed(other.op) /\ other.nonce = signed[other.op] /\ other.nonce < Live(other.op)'
    BY <1>1 DEF NonceSpent, Signed, Executed
  <2>1. CASE other = done
    BY <2>1, <1>2
  <2>2. CASE other # done
    <3>1. other \in txs /\ other.op \in Ops /\ other.nonce \in Nat
      BY <2>2, <1>1, <1>2 DEF Transaction
    <3>2. Signed(other.op) /\ other.nonce = signed[other.op] /\ other.nonce < Live(other.op)
      BY <3>1 DEF IInv, ChainInv, NonceSpent
    <3>3. Live(other.op) <= Live(other.op)' /\ Live(other.op) \in Nat /\ Live(other.op)' \in Nat
      BY <3>1, <1>1, UserOpsAssumption DEF Live
    <3> QED
      BY <3>1, <3>2, <3>3
  <2> QED
    BY <2>1, <2>2
<1>4. ExecutedOnce'
  BY <1>2 DEF IInv, ChainInv, ExecutedOnce, Executed
<1>5. \A other \in txs : Executed(other) => other \in txs'
  BY <1>2
<1>6. ToldTrue'
  BY <1>1, <1>5 DEF IInv, ChainInv, ToldTrue, Executed
<1> QED
  BY <1>3, <1>4, <1>6 DEF ChainInv

-----------------------------------------------------------------------------
(* The theorems.                                                           *)

LEMMA InitIInv == Init => IInv
<1> SUFFICES ASSUME Init PROVE IInv
  OBVIOUS
<1>1. New \in Call /\ New.phase = "new"
  BY UserOpsAssumption DEF New, Call, Phases, Nonces
<1>2. calls = [c \in Calls |-> New] /\ calls \in [Calls -> Call] /\ \A c \in Calls : ~Active(c)
  BY <1>1 DEF Init, Active
<1>3. /\ signed \in [Ops -> Nonces] /\ queue \in [Ops -> Statuses] /\ nonce \in [Wallets -> Nat]
      /\ told \in [mined : SUBSET Ops, ok : SUBSET Ops] /\ txs = {} /\ rows = {}
      /\ told.mined = {} /\ told.ok = {}
  BY DEF Init, Nonces, Statuses
<1>4. CallsInv
  BY <1>2, <1>3 DEF CallsInv, TypeOK, CallsSigned, QueueSigned, Init
<1>5. ChainInv
  BY <1>3 DEF ChainInv, NonceSpent, ExecutedOnce, ToldTrue
<1> QED
  BY <1>4, <1>5 DEF IInv

LEMMA NextIInv == IInv /\ [Next]_vars => IInv'
<1> SUFFICES ASSUME IInv, [Next]_vars PROVE IInv'
  OBVIOUS
<1> DEFINE Data == /\ nonce' \in [Wallets -> Nat] /\ signed' \in [Ops -> Nonces] /\ txs' \subseteq Transaction
                   /\ rows' \subseteq Ops /\ told' \in [mined : SUBSET Ops, ok : SUBSET Ops]
<1>1. CallsAfter
  BY CallsNext DEF IInv
<1>2. TypeOK
  BY DEF IInv, CallsInv
<1>3. CASE Quiet
  <2>1. Data
    BY <1>2, <1>3 DEF Quiet, TypeOK
  <2> QED
    BY <2>1, <1>1, <1>3, QuietKeeps DEF IInv, CallsInv, CallsAfter, TypeOK
<1>4. ASSUME NEW c \in Calls, Send(c) PROVE IInv'
  <2>1. Data
    BY <1>2, <1>4, SendKeeps DEF Send, TypeOK
  <2> QED
    BY <2>1, <1>1, <1>4, SendKeeps DEF IInv, CallsInv, CallsAfter, TypeOK
<1>5. ASSUME NEW c \in Calls, Receipt(c) PROVE IInv'
  <2>1. Data
    BY <1>2, <1>5, ReceiptKeeps DEF TypeOK
  <2> QED
    BY <2>1, <1>1, <1>5, ReportKeeps DEF IInv, CallsInv, CallsAfter, TypeOK
<1>6. ASSUME NEW tx \in txs, Mine(tx) PROVE IInv'
  <2>1. Data
    BY <1>2, <1>6, MineMoves DEF TypeOK
  <2> QED
    BY <2>1, <1>1, <1>6, MineKeeps DEF IInv, CallsInv, CallsAfter, TypeOK
<1>7. Quiet \/ (\E c \in Calls : Send(c) \/ Receipt(c)) \/ \E tx \in txs : Mine(tx)
  BY QuietSteps DEF IInv, Next, CallStep
<1> QED
  BY <1>3, <1>4, <1>5, <1>6, <1>7

\* The invariant holds throughout.
THEOREM Invariance == Spec => []IInv
BY InitIInv, NextIInv, PTL DEF Spec

\* The calls, the queue and the transactions keep their types: a call in progress
\* carries an operation that was signed (bundler-service.ts:163, 184).
THEOREM TypeCorrect == Spec => []TypeOK
<1>1. IInv => TypeOK
  BY DEF IInv, CallsInv
<1> QED
  BY <1>1, Invariance, PTL

\* No two transactions of one operation were executed, whichever calls sent them
\* (bundler-service.ts:184, bundler.ts:166).
THEOREM ExecutesOnce == Spec => []ExecutedOnce
<1>1. IInv => ExecutedOnce
  BY DEF IInv, ChainInv
<1> QED
  BY <1>1, Invariance, PTL

-----------------------------------------------------------------------------
(* The refinement.                                                         *)

\* While an operation executes at most once, its outcome is its transaction's.
LEMMA OutcomeIs ==
    ASSUME ExecutedOnce, NEW o \in Ops
    PROVE  /\ (\A tx \in txs : ~(tx.op = o /\ Executed(tx))) => Outcome(o) = "none"
           /\ \A tx \in txs : tx.op = o /\ Executed(tx) => Outcome(o) = tx.result
<1>1. Executions(o) = {tx \in txs : tx.op = o /\ Executed(tx)}
  BY DEF Executions, Executed
<1>2. ASSUME \A tx \in txs : ~(tx.op = o /\ Executed(tx)) PROVE Outcome(o) = "none"
  <2>1. Executions(o) = {}
    BY <1>1, <1>2
  <2> QED
    BY <2>1 DEF Outcome
<1>3. ASSUME NEW tx \in txs, tx.op = o, Executed(tx) PROVE Outcome(o) = tx.result
  <2>1. Executions(o) = {tx}
    BY <1>1, <1>3 DEF ExecutedOnce
  <2>2. (CHOOSE t \in Executions(o) : TRUE) = tx
    BY <2>1
  <2> QED
    BY <2>1, <2>2 DEF Outcome
<1> QED
  BY <1>2, <1>3

Outcomes == [o \in Ops |-> Outcome(o)]

LEMMA LedgerInit == Init => Ledger!Init
<1> SUFFICES ASSUME Init PROVE Ledger!Init
  OBVIOUS
<1>1. \A o \in Ops : Outcome(o) = "none"
  BY DEF Init, Outcome, Executions
<1>2. told.mined = {} /\ told.ok \union rows = {}
  BY DEF Init
<1> QED
  BY <1>1, <1>2 DEF Ledger!Init

\* When the outcomes stay, the ledger stutters or confirms an operation.
LEMMA SameOutcomes ==
    ASSUME IInv, IInv', \A tx : Executed(tx) => (tx \in txs' <=> tx \in txs)
    PROVE  Outcomes' = Outcomes
<1> SUFFICES ASSUME NEW o \in Ops PROVE Outcome(o)' = Outcome(o)
  BY DEF Outcomes
<1>1. Executions(o)' = Executions(o)
  BY DEF Executions, Executed
<1> QED
  BY <1>1 DEF Outcome

\* A report of a call confirms the operation.
LEMMA ReceiptConfirms ==
    ASSUME IInv, IInv', NEW c \in Calls, Receipt(c)
    PROVE  UNCHANGED Ledger!ledgerVars \/ \E o \in Ops : Ledger!Confirm(o)
<1>1. PICK o \in Ops :
        /\ txs' = txs
        /\ \/ told' = told /\ rows' = rows
           \/ /\ \E tx \in txs : tx.op = o /\ Executed(tx)
              /\ told'.mined = told.mined \union {o}
              /\ \/ told'.ok = told.ok /\ rows' = rows
                 \/ /\ \E tx \in txs : tx.op = o /\ tx.result = "ok"
                    /\ told'.ok = told.ok \union {o} /\ rows' \in {rows, rows \union {o}}
  BY ReceiptKeeps
<1>2. Outcomes' = Outcomes
  BY <1>1, SameOutcomes
<1>3. CASE told' = told /\ rows' = rows
  BY <1>2, <1>3 DEF Ledger!ledgerVars, Outcomes
<1>4. CASE /\ \E tx \in txs : tx.op = o /\ Executed(tx)
           /\ told'.mined = told.mined \union {o}
           /\ \/ told'.ok = told.ok /\ rows' = rows
              \/ /\ \E tx \in txs : tx.op = o /\ tx.result = "ok"
                 /\ told'.ok = told.ok \union {o} /\ rows' \in {rows, rows \union {o}}
  <2>1. Outcome(o) # "none"
    <3>1. PICK tx \in txs : tx.op = o /\ Executed(tx)
      BY <1>4
    <3>2. Outcome(o) = tx.result
      BY <3>1, OutcomeIs DEF IInv, ChainInv
    <3> QED
      BY <3>1, <3>2 DEF Executed
  <2>2. \/ told'.ok \union rows' = told.ok \union rows
        \/ Outcome(o) = "ok" /\ told'.ok \union rows' = (told.ok \union rows) \union {o}
    <3>1. CASE told'.ok = told.ok /\ rows' = rows
      BY <3>1
    <3>2. CASE /\ \E tx \in txs : tx.op = o /\ tx.result = "ok"
               /\ told'.ok = told.ok \union {o} /\ rows' \in {rows, rows \union {o}}
      <4>1. Outcome(o) = "ok"
        BY <3>2, OutcomeIs DEF IInv, ChainInv, Executed
      <4> QED
        BY <3>2, <4>1
    <3> QED
      BY <1>4, <3>1, <3>2
  <2> QED
    BY <1>2, <1>4, <2>1, <2>2 DEF Ledger!Confirm, Outcomes
<1> QED
  BY <1>1, <1>3, <1>4

\* What the EntryPoint does with a transaction is an execution, or nothing.
LEMMA MineExecutes ==
    ASSUME IInv, IInv', NEW tx \in txs, Mine(tx)
    PROVE  UNCHANGED Ledger!ledgerVars
           \/ \E o \in Ops, result \in {"ok", "reverted"} : Ledger!Execute(o, result)
<1>1. PICK done \in Transaction :
        /\ txs' = (txs \ {tx}) \union {done} /\ ~Executed(tx)
        /\ done.op = tx.op /\ tx.op \in Ops
        /\ \/ ~Executed(done)
           \/ /\ Executed(done)
              /\ \A other \in txs : Executed(other) => other.op # tx.op
  BY MineMoves
<1>2. rows' = rows /\ told' = told
  BY MineMoves
<1>3. CASE ~Executed(done)
  <2>1. \A t : Executed(t) => (t \in txs' <=> t \in txs)
    BY <1>1, <1>3
  <2>2. Outcomes' = Outcomes
    BY <2>1, SameOutcomes
  <2> QED
    BY <2>2, <1>2 DEF Ledger!ledgerVars, Outcomes
<1>4. CASE Executed(done) /\ \A other \in txs : Executed(other) => other.op # tx.op
  <2>1. Outcome(tx.op) = "none"
    BY <1>1, <1>4, OutcomeIs DEF IInv, ChainInv
  <2>2. Outcome(tx.op)' = done.result
    <3>1. \A t \in txs' : t.op = tx.op /\ Executed(t) => t = done
      BY <1>1, <1>4
    <3>2. Executions(tx.op)' = {done}
      BY <3>1, <1>1, <1>4 DEF Executions, Executed
    <3>3. (CHOOSE t \in Executions(tx.op)' : TRUE) = done
      BY <3>2
    <3> QED
      BY <3>2, <3>3 DEF Outcome
  <2>3. \A o \in Ops : o # tx.op => Outcome(o)' = Outcome(o)
    <3> SUFFICES ASSUME NEW o \in Ops, o # tx.op PROVE Outcome(o)' = Outcome(o)
      OBVIOUS
    <3>1. Executions(o)' = Executions(o)
      BY <1>1 DEF Executions
    <3> QED
      BY <3>1 DEF Outcome
  <2>4. Outcomes' = [Outcomes EXCEPT ![tx.op] = done.result]
    BY <2>2, <2>3, <1>1 DEF Outcomes
  <2>5. done.result \in {"ok", "reverted"}
    BY <1>4 DEF Executed
  <2>6. Ledger!Execute(tx.op, done.result)
    BY <2>1, <2>4, <1>1, <1>2 DEF Ledger!Execute, Outcomes
  <2> QED
    BY <2>5, <2>6, <1>1
<1> QED
  BY <1>1, <1>3, <1>4

LEMMA StepLedger ==
    ASSUME IInv, IInv', [Next]_vars
    PROVE  [Ledger!Next]_(Ledger!ledgerVars)
<1>1. CASE Quiet
  <2>1. Outcomes' = Outcomes
    BY <1>1, SameOutcomes DEF Quiet
  <2> QED
    BY <2>1, <1>1 DEF Quiet, Ledger!ledgerVars, Outcomes
<1>2. ASSUME NEW c \in Calls, Send(c) PROVE UNCHANGED Ledger!ledgerVars
  <2>1. Outcomes' = Outcomes
    BY <1>2, SendKeeps, SameOutcomes
  <2> QED
    BY <2>1, <1>2 DEF Send, Ledger!ledgerVars, Outcomes
<1>3. ASSUME NEW c \in Calls, Receipt(c) PROVE [Ledger!Next]_(Ledger!ledgerVars)
  BY <1>3, ReceiptConfirms DEF Ledger!Next
<1>4. ASSUME NEW tx \in txs, Mine(tx) PROVE [Ledger!Next]_(Ledger!ledgerVars)
  BY <1>4, MineExecutes DEF Ledger!Next
<1>5. Quiet \/ (\E c \in Calls : Send(c) \/ Receipt(c)) \/ \E tx \in txs : Mine(tx)
  BY QuietSteps DEF IInv, Next, CallStep
<1> QED
  BY <1>1, <1>2, <1>3, <1>4, <1>5

\* The bundler implements the ledger: an operation is executed once, and reported as
\* mined or successful only after that (bundler-service.ts:214, bundler.ts:171).
THEOREM ImplementsLedger == Spec => LedgerKept
<1>1. Init => Ledger!Init
  BY LedgerInit
<1>2. IInv /\ IInv' /\ [Next]_vars => [Ledger!Next]_(Ledger!ledgerVars)
  BY StepLedger
<1> QED
  BY <1>1, <1>2, Invariance, PTL DEF Spec, LedgerKept, Ledger!Spec

-----------------------------------------------------------------------------
(* Rows no flush holds.                                                    *)

\* An answer changes rows the flush holds, and no other call changes any.
LEMMA AnswerSpares ==
    ASSUME IInv, NEW c \in Calls, Active(c), NEW success \in BOOLEAN, Answer(c, success),
           NEW o \in Ops, ~Holds(c, o)
    PROVE  queue'[o] = queue[o]
<1>1. queue \in [Ops -> Statuses] /\ calls[c].phase \notin {"new", "done", "dead"}
  BY DEF IInv, CallsInv, TypeOK, Active
<1>2. CASE calls[c].kind # "flush"
  BY <1>2 DEF Answer
<1>3. CASE calls[c].kind = "flush"
  <2>1. o # calls[c].op /\ o \notin calls[c].todo
    BY <1>1, <1>3 DEF Holds
  <2> QED
    BY <1>1, <1>3, <2>1 DEF Answer
<1> QED
  BY <1>2, <1>3

\* Only the flushes that read a row before it was settled can change it still
\* (bundler-service.ts:214, 230).
THEOREM UnheldRowsStay == Spec => UnheldRowStays
<1>1. ASSUME IInv, [Next]_vars, NEW o \in Ops, queue[o] \in {"submitted", "completed", "failed"},
             \A c \in Calls : ~Holds(c, o)
      PROVE  queue'[o] = queue[o]
  <2>1. queue \in [Ops -> Statuses]
    BY <1>1 DEF IInv, CallsInv, TypeOK
  <2>2. ASSUME NEW c \in Calls, Refused(c) \/ Receipt(c) \/ ReceiptLost(c) PROVE queue'[o] = queue[o]
    <3>1. Active(c)
      BY <2>2 DEF Refused, Receipt, ReceiptLost, Active
    <3>2. PICK success \in BOOLEAN : Answer(c, success)
      BY <2>2 DEF Refused, Receipt, ReceiptLost, Verdict
    <3> QED
      BY <1>1, <3>1, <3>2, AnswerSpares
  <2>3. ASSUME NEW c \in Calls, StartFlush(c) PROVE queue'[o] = queue[o]
    BY <1>1, <2>1, <2>3 DEF StartFlush, PendingOps
  <2>4. ASSUME NEW c \in Calls, NEW p \in Ops, StartTool(c, p) PROVE queue'[o] = queue[o]
    BY <1>1, <2>1, <2>4 DEF StartTool
  <2>5. CASE UNCHANGED queue
    BY <2>5
  <2> QED
    BY <1>1, <2>2, <2>3, <2>4, <2>5
    DEF Next, CallStep, Build, StartBundle, ReadNonce, CheckBundle, Send, Die, Mine, vars
<1>2. IInv /\ [Next]_vars => [\A o \in Ops :
        /\ queue[o] \in {"submitted", "completed", "failed"}
        /\ \A c \in Calls : ~Holds(c, o)
        => queue'[o] = queue[o]]_vars
  BY <1>1
<1> QED
  BY <1>2, Invariance, PTL DEF Spec, UnheldRowStays
===============================================================================
