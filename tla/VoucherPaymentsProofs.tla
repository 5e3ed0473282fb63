------------------------ MODULE VoucherPaymentsProofs ------------------------
(***************************************************************************)
(* Proofs about VoucherPayments, for any number of vouchers, requests,     *)
(* overlapping settlements and crashes.                                    *)
(***************************************************************************)
EXTENDS VoucherPayments, TLAPS

-----------------------------------------------------------------------------
(* Type correctness.                                                       *)

LEMMA IdleTyped == Idle \in Settlement
  BY DEF Idle, Settlement

LEMMA AfterTyped ==
    ASSUME NEW batch \in SUBSET Vouchers, NEW g
    PROVE  After(batch, g) \in Settlement
  BY DEF After, Idle, Settlement

LEMMA TransactionTyped ==
    ASSUME TypeOK, NEW p \in Settlers
    PROVE  TransactionOf(p) \in Transaction
  BY DEF TypeOK, TransactionOf, Transaction, Settlement

\* What a mined transaction does to the chain.
LEMMA PayTyped ==
    ASSUME TypeOK, NEW tx, PayGroup(tx) \/ FailGroup(tx)
    PROVE  chainNonce' \in [Wallets -> Nat] /\ paid' \in [Vouchers -> Nat]
  BY DEF TypeOK, PayGroup, FailGroup, UseNonce

LEMMA InitTypeOK == Init => TypeOK
  BY VoucherAssumption, IdleTyped DEF Init, TypeOK

LEMMA RequestTypeOK ==
    ASSUME TypeOK, NEW r \in Requests, RequestStep(r)
    PROVE  TypeOK'
  <1>1. ASSUME NEW v \in Vouchers, Verify(r, v) PROVE TypeOK'
    <2>1. verifiedAt' \in [Sessions -> Nat \cup {NoTime}]
      BY <1>1, VoucherAssumption DEF TypeOK, Verify, VerifySessionKey
    <2>2. request' \in [Requests -> Vouchers \cup {NoVoucher}]
      BY <1>1 DEF TypeOK, Verify
    <2>3. QED
      BY <1>1, <2>1, <2>2 DEF TypeOK, Verify, serverVars, chainVars, historyVars
  <1>2. CASE GatewayRefuses(r)
    BY <1>2 DEF TypeOK, GatewayRefuses, serverVars, chainVars, historyVars
  <1>3. CASE Accept(r)
    <2>1. request[r] \in Vouchers /\ NonceOf[request[r]] \in Nonces
      BY <1>3, VoucherAssumption DEF TypeOK, Accept
    <2>2. /\ status' \in [Vouchers -> {"none", "pending", "settled"}]
          /\ createdAt' \in [Vouchers -> Nat \cup {NoTime}]
          /\ accepted' \in [Vouchers -> Nat]
      BY <1>3, <2>1, VoucherAssumption DEF TypeOK, Accept
    <2>3. marked' \subseteq Nonces /\ request' \in [Requests -> Vouchers \cup {NoVoucher}]
      BY <1>3, <2>1 DEF TypeOK, Accept
    <2>4. QED
      BY <1>3, <2>2, <2>3 DEF TypeOK, Accept, chainVars
  <1>4. QED
    BY <1>1, <1>2, <1>3 DEF RequestStep

LEMMA SettlementTypeOK ==
    ASSUME TypeOK, NEW p \in Settlers, SettlementStep(p)
    PROVE  TypeOK'
  <1>0. /\ settler[p] \in Settlement
        /\ settler[p].batch \in SUBSET Vouchers /\ settler[p].group \in SUBSET Vouchers
    BY DEF TypeOK, Settlement
  <1>1. CASE StartSettlement(p)
    <2>1. PICK batch \in SUBSET PendingVouchers :
            settler' = [settler EXCEPT ![p] = [Idle EXCEPT !.pc = "next", !.batch = batch]]
      BY <1>1 DEF StartSettlement
    <2>2. [Idle EXCEPT !.pc = "next", !.batch = batch] \in Settlement
      BY DEF PendingVouchers, Settlement, Idle
    <2>3. settler' \in [Settlers -> Settlement]
      BY <2>1, <2>2 DEF TypeOK
    <2>4. QED
      BY <1>1, <2>3 DEF TypeOK, StartSettlement, serverVars, chainVars, historyVars
  <1>2. CASE SendGroup(p)
    <2>0. PICK w \in Wallets :
            settler' = [settler EXCEPT ![p].pc = "sent",
                                       ![p].group = GroupOf(settler[p].batch, w),
                                       ![p].nonce = chainNonce[w]]
      BY <1>2 DEF SendGroup
    <2>a. GroupOf(settler[p].batch, w) \in SUBSET Vouchers /\ chainNonce[w] \in Nat
      BY <1>0 DEF GroupOf, TypeOK
    <2>1. settler' \in [Settlers -> Settlement]
      BY <1>0, <2>0, <2>a DEF TypeOK, Settlement
    <2>2. QED
      BY <1>2, <2>1 DEF TypeOK, SendGroup, serverVars, chainVars, historyVars
  <1>3. CASE GroupNotSent(p)
    BY <1>0, <1>3, AfterTyped DEF TypeOK, GroupNotSent, serverVars, chainVars, historyVars
  <1>4. CASE Mined(p)
    <2>0. \A pc \in {"paid", "refused"} : [settler[p] EXCEPT !.pc = pc] \in Settlement
      BY <1>0 DEF Settlement
    <2>1. settler' \in [Settlers -> Settlement]
      BY <1>4, <2>0 DEF TypeOK, Mined
    <2>2. chainNonce' \in [Wallets -> Nat] /\ paid' \in [Vouchers -> Nat]
      BY <1>4, PayTyped DEF Mined
    <2>3. QED
      BY <1>4, <2>1, <2>2 DEF TypeOK, Mined, serverVars, historyVars
  <1>5. CASE ReceiptLost(p)
    <2>1. settler' \in [Settlers -> Settlement]
      BY <1>0, <1>5 DEF TypeOK, ReceiptLost, Settlement
    <2>2. orphans' \subseteq Transaction
      BY <1>5, TransactionTyped DEF TypeOK, ReceiptLost
    <2>3. QED
      BY <1>5, <2>1, <2>2 DEF TypeOK, ReceiptLost, serverVars, historyVars
  <1>6. CASE MarkSettled(p)
    <2>1. status' \in [Vouchers -> {"none", "pending", "settled"}]
      BY <1>6 DEF TypeOK, MarkSettled
    <2>2. QED
      BY <1>0, <1>6, <2>1, AfterTyped DEF TypeOK, MarkSettled, chainVars, historyVars
  <1>7. CASE GroupFailed(p)
    BY <1>0, <1>7, AfterTyped DEF TypeOK, GroupFailed, serverVars, chainVars, historyVars
  <1>8. QED
    BY <1>1, <1>2, <1>3, <1>4, <1>5, <1>6, <1>7 DEF SettlementStep

LEMMA CrashTypeOK ==
    ASSUME TypeOK, Crash
    PROVE  TypeOK'
  <1>1. marked' \subseteq Nonces /\ status' \in [Vouchers -> {"none", "pending", "settled"}]
    BY VoucherAssumption DEF TypeOK, Crash
  <1>2. orphans' \subseteq Transaction
    BY TransactionTyped DEF TypeOK, Crash
  <1>3. crashes' \in 0 .. MaxCrashes
    BY VoucherAssumption DEF TypeOK, Crash
  <1>4. QED
    BY <1>1, <1>2, <1>3, IdleTyped, VoucherAssumption DEF TypeOK, Crash, historyVars

LEMMA NextTypeOK == TypeOK /\ [Next]_vars => TypeOK'
  <1> SUFFICES ASSUME TypeOK, [Next]_vars PROVE TypeOK'
    OBVIOUS
  <1>1. CASE UNCHANGED vars
    BY <1>1 DEF vars, TypeOK, serverVars, chainVars, historyVars
  <1>2. CASE Tick
    <2>1. now' \in 0 .. MaxNow /\ now + 1 \in Nat
      BY <1>2, VoucherAssumption DEF TypeOK, Tick
    <2>2. activeAt' \in [Sessions -> Nat \cup {NoTime}]
      BY <1>2, <2>1 DEF TypeOK, Tick, SeenActive
    <2>3. QED
      BY <1>2, <2>1, <2>2 DEF TypeOK, Tick, serverVars, chainVars
  <1>3. ASSUME NEW s \in Sessions, SessionRevoked(s) PROVE TypeOK'
    BY <1>3 DEF TypeOK, SessionRevoked, serverVars, chainVars, historyVars
  <1>4. ASSUME NEW tx \in orphans, OrphanMined(tx) PROVE TypeOK'
    <2>1. chainNonce' \in [Wallets -> Nat] /\ paid' \in [Vouchers -> Nat]
      BY <1>4, PayTyped DEF OrphanMined
    <2>2. QED
      BY <1>4, <2>1 DEF TypeOK, OrphanMined, serverVars, historyVars
  <1>5. QED
    BY <1>1, <1>2, <1>3, <1>4, RequestTypeOK, SettlementTypeOK, CrashTypeOK DEF Next, Step

\* Type correctness: the server's tables and caches, the settlements in
\* progress and the chain keep their types.
THEOREM TypeCorrect == Spec => []TypeOK
  <1>1. Init => TypeOK
    BY InitTypeOK
  <1>2. TypeOK /\ [Next]_vars => TypeOK'
    BY NextTypeOK
  <1>3. QED
    BY <1>1, <1>2, PTL DEF Spec

-----------------------------------------------------------------------------
(* The invariant.                                                          *)

RowsInv == NonceAcceptedOnce /\ AcceptedIsRecorded
PaymentInv == SettledWasPaid /\ SettlementInv /\ OrphanInv

\* A row that exists goes on existing and a transfer is not undone.
Grows ==
    /\ \A v \in Vouchers : status[v] # "none" => status'[v] # "none"
    /\ \A v \in Vouchers : accepted[v] > 0 => accepted'[v] > 0
    /\ \A v \in Vouchers : paid[v] > 0 => paid'[v] > 0

LEMMA InitIInv == Init => IInv
  <1> SUFFICES ASSUME Init PROVE IInv
    OBVIOUS
  <1>1. TypeOK
    BY InitTypeOK
  <1>2. NonceAcceptedOnce /\ AcceptedIsRecorded /\ SettledWasPaid
    BY DEF Init, NonceAcceptedOnce, AcceptedIsRecorded, SettledWasPaid
  <1>3. SettlementInv /\ OrphanInv
    BY DEF Init, SettlementInv, OrphanInv, Idle
  <1>4. CacheInv
    BY VoucherAssumption DEF Init, CacheInv, SessionValid
  <1>5. QuietInv
    <2>1. /\ disturbed = FALSE /\ orphans = {} /\ ~Overlap
          /\ \A p \in Settlers : settler[p].batch = {}
          /\ \A v \in Vouchers : paid[v] = 0
      BY DEF Init, Overlap, Idle
    <2>2. Quiet
      BY <2>1 DEF Quiet
    <2>3. QED
      BY <2>1, <2>2, Zenon DEF QuietInv
  <1>6. QED
    BY <1>1, <1>2, <1>3, <1>4, <1>5 DEF IInv

\* Accepting: the row and the count of a voucher appear together, and only
\* where no row has its nonce.
LEMMA AcceptRows ==
    ASSUME TypeOK, RowsInv, NEW r \in Requests, Accept(r)
    PROVE  RowsInv'
  <1> DEFINE n == request[r]
  <1>1. n \in Vouchers
    BY DEF TypeOK, Accept
  <1>2. \A v \in Vouchers : accepted[v] \in Nat
    BY DEF TypeOK
  <1>3. CASE HasRow(NonceOf[n])
    BY <1>3 DEF Accept, RowsInv, NonceAcceptedOnce, AcceptedIsRecorded
  <1>4. CASE ~HasRow(NonceOf[n])
    <2>1. \A v \in Vouchers : NonceOf[v] = NonceOf[n] => status[v] = "none" /\ accepted[v] = 0
      BY <1>2, <1>4 DEF HasRow, RowsInv, AcceptedIsRecorded
    <2>2. /\ status' = [status EXCEPT ![n] = "pending"]
          /\ accepted' = [accepted EXCEPT ![n] = @ + 1]
          /\ marked' = marked \cup {NonceOf[n]}
      BY <1>4 DEF Accept
    <2>3. accepted'[n] = 1 /\ status'[n] = "pending" /\ NonceOf[n] \in marked'
      BY <1>1, <2>1, <2>2 DEF TypeOK
    <2>4. \A v \in Vouchers \ {n} : accepted'[v] = accepted[v] /\ status'[v] = status[v]
      BY <2>2 DEF TypeOK
    <2>5. AcceptedIsRecorded'
      BY <2>2, <2>3, <2>4 DEF RowsInv, AcceptedIsRecorded
    <2>6. NonceAcceptedOnce'
      <3>1. \A v \in Vouchers : accepted'[v] <= 1
        BY <2>3, <2>4 DEF RowsInv, NonceAcceptedOnce
      <3>2. ASSUME NEW u \in Vouchers, NEW v \in Vouchers,
                   accepted'[u] > 0, accepted'[v] > 0, NonceOf[u] = NonceOf[v]
            PROVE  u = v
        BY <2>1, <2>4, <3>2 DEF RowsInv, NonceAcceptedOnce
      <3>3. QED
        BY <3>1, <3>2 DEF NonceAcceptedOnce
    <2>7. QED
      BY <2>5, <2>6 DEF RowsInv
  <1>5. QED
    BY <1>3, <1>4

\* Every other step leaves the counts alone, keeps every row and adds none.
LEMMA FrameRows ==
    ASSUME TypeOK, RowsInv,
           UNCHANGED accepted, marked \subseteq marked',
           \A v \in Vouchers : status'[v] # "none" <=> status[v] # "none"
    PROVE  RowsInv'
  BY DEF RowsInv, NonceAcceptedOnce, AcceptedIsRecorded

LEMMA OtherStepRows ==
    ASSUME TypeOK, PaymentInv, [Next]_vars, \A r \in Requests : ~Accept(r)
    PROVE  /\ UNCHANGED accepted /\ marked \subseteq marked'
           /\ \A v \in Vouchers : status'[v] # "none" <=> status[v] # "none"
  <1> DEFINE Goal == /\ UNCHANGED accepted /\ marked \subseteq marked'
                     /\ \A v \in Vouchers : status'[v] # "none" <=> status[v] # "none"
  <1>1. CASE UNCHANGED vars
    BY <1>1 DEF vars, serverVars, historyVars
  <1>2. CASE Tick
    BY <1>2 DEF Tick, serverVars
  <1>3. ASSUME NEW s \in Sessions, SessionRevoked(s) PROVE Goal
    BY <1>3 DEF SessionRevoked, serverVars, historyVars
  <1>4. ASSUME NEW tx \in orphans, OrphanMined(tx) PROVE Goal
    BY <1>4 DEF OrphanMined, serverVars, historyVars
  <1>5. ASSUME NEW r \in Requests, RequestStep(r) PROVE Goal
    BY <1>5 DEF RequestStep, Verify, GatewayRefuses, serverVars, historyVars
  <1>6. ASSUME NEW p \in Settlers, SettlementStep(p) PROVE Goal
    <2>1. CASE MarkSettled(p)
      <3>1. \A v \in settler[p].group : v \in Vouchers /\ status[v] # "none"
        BY <1>6 DEF PaymentInv, SettlementInv, TypeOK, Settlement
      <3>2. QED
        BY <2>1, <3>1 DEF MarkSettled, historyVars
    <2>2. CASE ~MarkSettled(p)
      BY <1>6, <2>2 DEF SettlementStep, StartSettlement, SendGroup, GroupNotSent, Mined, ReceiptLost,
                        GroupFailed, serverVars, historyVars
    <2>3. QED
      BY <2>1, <2>2
  <1>7. CASE Crash
    <2>1. \A q \in Settlers : \A v \in settler[q].group : v \in Vouchers /\ status[v] # "none"
      BY DEF PaymentInv, SettlementInv, TypeOK, Settlement
    <2>2. QED
      BY <1>7, <2>1 DEF Crash, historyVars
  <1>8. QED
    BY <1>1, <1>2, <1>3, <1>4, <1>5, <1>6, <1>7 DEF Next, Step

LEMMA RowsStep == TypeOK /\ RowsInv /\ PaymentInv /\ [Next]_vars => RowsInv'
  BY AcceptRows, OtherStepRows, FrameRows

-----------------------------------------------------------------------------
(* Payments.                                                               *)

LEMMA PayGrows ==
    ASSUME TypeOK, NEW tx, PayGroup(tx) \/ FailGroup(tx)
    PROVE  /\ \A v \in Vouchers : paid[v] > 0 => paid'[v] > 0
           /\ \A v \in Vouchers : paid'[v] > 0 => paid[v] > 0 \/ v \in tx.group
           /\ PayGroup(tx) => \A v \in tx.group : v \in Vouchers => paid'[v] > 0
  BY DEF TypeOK, PayGroup, FailGroup

\* The rows and transfers of a state without a mined transaction.
LEMMA FramePayment ==
    ASSUME TypeOK, PaymentInv, AcceptedIsRecorded, AcceptedIsRecorded',
           \A v \in Vouchers : status[v] # "none" => status'[v] # "none",
           \A v \in Vouchers : status'[v] = "settled" => status[v] = "settled" \/ paid[v] > 0,
           UNCHANGED paid
    PROVE  SettledWasPaid'
  BY DEF PaymentInv, SettledWasPaid, AcceptedIsRecorded

LEMMA AcceptPayment ==
    ASSUME TypeOK, PaymentInv, RowsInv, RowsInv', NEW r \in Requests, Accept(r)
    PROVE  PaymentInv'
  <1>1. /\ \A v \in Vouchers : status[v] # "none" => status'[v] # "none"
        /\ \A v \in Vouchers : status'[v] = "settled" => status[v] = "settled"
    BY DEF TypeOK, Accept
  <1>2. UNCHANGED <<settler, chainVars>>
    BY DEF Accept
  <1>3. SettledWasPaid'
    BY <1>1, <1>2, FramePayment DEF RowsInv, chainVars
  <1>4. SettlementInv'
    BY <1>1, <1>2 DEF PaymentInv, SettlementInv, TypeOK, Settlement, chainVars
  <1>5. OrphanInv'
    BY <1>1, <1>2 DEF PaymentInv, OrphanInv, TypeOK, Transaction, chainVars
  <1>6. QED
    BY <1>3, <1>4, <1>5 DEF PaymentInv

\* A step of one settlement leaves the other settlements alone.
LEMMA SettlementFrame ==
    ASSUME TypeOK, PaymentInv, NEW p \in Settlers, NEW s \in Settlement,
           settler' = [settler EXCEPT ![p] = s],
           \A v \in Vouchers : status[v] # "none" => status'[v] # "none",
           \A v \in Vouchers : paid[v] > 0 => paid'[v] > 0,
           \A v \in s.batch : status[v] # "none",
           s.group \subseteq s.batch,
           s.pc = "paid" => \A v \in s.group : paid'[v] > 0
    PROVE  SettlementInv'
  <1> SUFFICES ASSUME NEW q \in Settlers
               PROVE  /\ \A v \in settler'[q].batch : status'[v] # "none"
                      /\ settler'[q].group \subseteq settler'[q].batch
                      /\ settler'[q].pc = "paid" => \A v \in settler'[q].group : paid'[v] > 0
    BY DEF SettlementInv
  <1>1. settler[q] \in Settlement /\ settler[q].batch \subseteq Vouchers
        /\ settler[q].group \subseteq Vouchers /\ s.batch \subseteq Vouchers
    BY DEF TypeOK, Settlement
  <1>2. CASE q = p
    <2>1. settler'[q] = s
      BY <1>2 DEF TypeOK
    <2>2. QED
      BY <1>1, <2>1
  <1>3. CASE q # p
    <2>1. settler'[q] = settler[q]
      BY <1>3 DEF TypeOK
    <2>2. QED
      BY <1>1, <2>1 DEF PaymentInv, SettlementInv
  <1>4. QED
    BY <1>2, <1>3

LEMMA AfterFacts ==
    ASSUME NEW batch \in SUBSET Vouchers, NEW g
    PROVE  /\ After(batch, g) \in Settlement
           /\ \A v \in After(batch, g).batch : v \in batch
           /\ After(batch, g).group = {} /\ After(batch, g).pc # "paid"
  <1>1. CASE batch \ g = {}
    BY <1>1, AfterTyped DEF After, Idle
  <1>2. CASE batch \ g # {}
    <2>1. After(batch, g) = [Idle EXCEPT !.pc = "next", !.batch = batch \ g]
      BY <1>2 DEF After
    <2>2. QED
      BY <2>1, AfterTyped DEF Idle
  <1>3. QED
    BY <1>1, <1>2

\* What is left of a batch after a group is none of the group.
LEMMA AfterLeaves ==
    ASSUME NEW batch \in SUBSET Vouchers, NEW g
    PROVE  \A v \in After(batch, g).batch : v \in batch /\ v \notin g
  <1>1. CASE batch \ g = {}
    BY <1>1 DEF After, Idle
  <1>2. CASE batch \ g # {}
    <2>1. After(batch, g) = [Idle EXCEPT !.pc = "next", !.batch = batch \ g]
      BY <1>2 DEF After
    <2>2. QED
      BY <2>1 DEF Idle
  <1>3. QED
    BY <1>1, <1>2

\* A transaction of vouchers that have rows pays accepted vouchers only.
LEMMA MinedPayment ==
    ASSUME TypeOK, PaymentInv, RowsInv, NEW tx \in Transaction, PayGroup(tx) \/ FailGroup(tx),
           \A v \in tx.group : status[v] # "none", UNCHANGED <<status, accepted>>
    PROVE  SettledWasPaid'
  <1>1. \A v \in Vouchers : paid[v] > 0 => paid'[v] > 0
    BY PayGrows
  <1>2. \A v \in Vouchers : paid'[v] > 0 => paid[v] > 0 \/ v \in tx.group
    BY PayGrows
  <1>3. QED
    BY <1>1, <1>2 DEF PaymentInv, SettledWasPaid, RowsInv, AcceptedIsRecorded

LEMMA SettlementPayment ==
    ASSUME TypeOK, PaymentInv, RowsInv, NEW p \in Settlers, SettlementStep(p)
    PROVE  PaymentInv'
  <1> DEFINE s == settler[p]
  <1>0. /\ s \in Settlement /\ s.batch \in SUBSET Vouchers /\ s.group \in SUBSET Vouchers
        /\ s.group \subseteq s.batch /\ \A v \in s.batch : status[v] # "none"
        /\ s.pc = "paid" => \A v \in s.group : paid[v] > 0
    BY DEF TypeOK, Settlement, PaymentInv, SettlementInv
  <1>1. CASE StartSettlement(p)
    <2>1. PICK batch \in SUBSET PendingVouchers :
            settler' = [settler EXCEPT ![p] = [Idle EXCEPT !.pc = "next", !.batch = batch]]
      BY <1>1 DEF StartSettlement
    <2> DEFINE t == [Idle EXCEPT !.pc = "next", !.batch = batch]
    <2>2. /\ t \in Settlement /\ t.batch = batch /\ t.group = {} /\ t.pc = "next"
          /\ \A v \in batch : status[v] # "none"
      BY DEF PendingVouchers, Settlement, Idle
    <2>3. UNCHANGED <<status, accepted, chainVars>>
      BY <1>1 DEF StartSettlement, serverVars, historyVars
    <2> HIDE DEF t
    <2>4. SettlementInv'
      BY <2>1, <2>2, <2>3, SettlementFrame DEF chainVars, t
    <2>5. QED
      BY <2>3, <2>4 DEF PaymentInv, SettledWasPaid, OrphanInv, chainVars
  <1>2. CASE SendGroup(p)
    <2>1. PICK w \in Wallets :
            settler' = [settler EXCEPT ![p].pc = "sent", ![p].group = GroupOf(s.batch, w),
                                       ![p].nonce = chainNonce[w]]
      BY <1>2 DEF SendGroup
    <2> DEFINE t == [s EXCEPT !.pc = "sent", !.group = GroupOf(s.batch, w), !.nonce = chainNonce[w]]
    <2>2. settler' = [settler EXCEPT ![p] = t]
      BY <2>1 DEF TypeOK
    <2>3. /\ t \in Settlement /\ t.batch = s.batch /\ t.group = GroupOf(s.batch, w) /\ t.pc = "sent"
      BY <1>0 DEF GroupOf, Settlement, TypeOK
    <2>4. t.group \subseteq t.batch
      BY <2>3 DEF GroupOf
    <2>5. UNCHANGED <<status, accepted, chainVars>>
      BY <1>2 DEF SendGroup, serverVars, historyVars
    <2> HIDE DEF t
    <2>6. SettlementInv'
      BY <1>0, <2>2, <2>3, <2>4, <2>5, SettlementFrame DEF chainVars
    <2>7. QED
      BY <2>5, <2>6 DEF PaymentInv, SettledWasPaid, OrphanInv, chainVars
  <1>3. CASE GroupNotSent(p) \/ GroupFailed(p)
    <2>1. PICK g : settler' = [settler EXCEPT ![p] = After(s.batch, g)]
      BY <1>3 DEF GroupNotSent, GroupFailed
    <2>2. UNCHANGED <<status, accepted, chainVars>>
      BY <1>3 DEF GroupNotSent, GroupFailed, serverVars, historyVars
    <2> DEFINE t == After(s.batch, g)
    <2>a. t \in Settlement /\ t.group \subseteq t.batch /\ t.pc # "paid"
      BY <1>0, AfterFacts
    <2>b. \A v \in t.batch : status[v] # "none"
      BY <1>0, AfterFacts
    <2>c. settler' = [settler EXCEPT ![p] = t]
      BY <2>1
    <2> HIDE DEF t
    <2>3. SettlementInv'
      BY <2>a, <2>b, <2>c, <2>2, SettlementFrame DEF chainVars
    <2>4. QED
      BY <2>2, <2>3 DEF PaymentInv, SettledWasPaid, OrphanInv, chainVars
  <1>4. CASE Mined(p)
    <2> DEFINE tx == TransactionOf(p)
    <2>1. tx \in Transaction /\ tx.group = s.group
      BY TransactionTyped DEF TransactionOf
    <2>2. UNCHANGED <<status, accepted, orphans>>
      BY <1>4 DEF Mined, serverVars, historyVars
    <2>3. \/ PayGroup(tx) /\ settler' = [settler EXCEPT ![p].pc = "paid"]
          \/ FailGroup(tx) /\ settler' = [settler EXCEPT ![p].pc = "refused"]
      BY <1>4 DEF Mined
    <2> HIDE DEF tx
    <2>4. \A v \in Vouchers : paid[v] > 0 => paid'[v] > 0
      BY <2>3, PayGrows
    <2>a. \A v \in Vouchers : status[v] # "none" => status'[v] # "none"
      BY <2>2
    <2>5. SettledWasPaid'
      BY <1>0, <2>1, <2>2, <2>3, MinedPayment
    <2>6. ASSUME PayGroup(tx), settler' = [settler EXCEPT ![p].pc = "paid"]
          PROVE  SettlementInv'
      <3> DEFINE t == [s EXCEPT !.pc = "paid"]
      <3>1. settler' = [settler EXCEPT ![p] = t]
        BY <2>6 DEF TypeOK
      <3>2. t \in Settlement /\ t.batch = s.batch /\ t.group = s.group /\ t.pc = "paid"
        BY <1>0 DEF Settlement
      <3>3. \A v \in s.group : paid'[v] > 0
        BY <1>0, <2>1, <2>6, PayGrows
      <3>4. /\ \A v \in t.batch : status[v] # "none"
            /\ t.group \subseteq t.batch
            /\ t.pc = "paid" => \A v \in t.group : paid'[v] > 0
        BY <1>0, <3>3
      <3> HIDE DEF t
      <3>5. QED
        BY <2>a, <2>4, <3>1, <3>2, <3>4, SettlementFrame
    <2>7. ASSUME settler' = [settler EXCEPT ![p].pc = "refused"]
          PROVE  SettlementInv'
      <3> DEFINE t == [s EXCEPT !.pc = "refused"]
      <3>1. settler' = [settler EXCEPT ![p] = t]
        BY <2>7 DEF TypeOK
      <3>2. t \in Settlement /\ t.batch = s.batch /\ t.group = s.group /\ t.pc = "refused"
        BY <1>0 DEF Settlement
      <3>3. (\A v \in t.batch : status[v] # "none") /\ t.group \subseteq t.batch
        BY <1>0
      <3> HIDE DEF t
      <3>4. QED
        BY <2>a, <2>4, <3>1, <3>2, <3>3, SettlementFrame
    <2>8. OrphanInv'
      BY <2>2 DEF PaymentInv, OrphanInv
    <2>9. QED
      BY <2>3, <2>5, <2>6, <2>7, <2>8 DEF PaymentInv
  <1>5. CASE ReceiptLost(p)
    <2> DEFINE t == [s EXCEPT !.pc = "refused"]
    <2>1. settler' = [settler EXCEPT ![p] = t]
      BY <1>5 DEF ReceiptLost, TypeOK
    <2>2. t \in Settlement /\ t.batch = s.batch /\ t.group = s.group /\ t.pc = "refused"
      BY <1>0 DEF Settlement
    <2>3. UNCHANGED <<status, accepted, paid>> /\ orphans' = orphans \cup {TransactionOf(p)}
      BY <1>5 DEF ReceiptLost, serverVars, historyVars
    <2> HIDE DEF t
    <2>4. SettlementInv'
      BY <1>0, <2>1, <2>2, <2>3, SettlementFrame
    <2>5. \A v \in TransactionOf(p).group : status[v] # "none"
      BY <1>0 DEF TransactionOf
    <2>6. OrphanInv'
      BY <2>3, <2>5 DEF PaymentInv, OrphanInv
    <2>7. QED
      BY <2>3, <2>4, <2>6 DEF PaymentInv, SettledWasPaid
  <1>6. CASE MarkSettled(p)
    <2>1. /\ status' = [v \in Vouchers |-> IF v \in s.group THEN "settled" ELSE status[v]]
          /\ settler' = [settler EXCEPT ![p] = After(s.batch, s.group)]
          /\ s.pc = "paid"
          /\ UNCHANGED <<accepted, chainVars>>
      BY <1>6 DEF MarkSettled, historyVars
    <2>2. \A v \in Vouchers : status[v] # "none" => status'[v] # "none"
      BY <2>1
    <2> DEFINE t == After(s.batch, s.group)
    <2>a. t \in Settlement /\ t.group \subseteq t.batch /\ t.pc # "paid"
      BY <1>0, AfterFacts
    <2>b. \A v \in t.batch : status[v] # "none"
      BY <1>0, AfterFacts
    <2>c. settler' = [settler EXCEPT ![p] = t]
      BY <2>1
    <2> HIDE DEF t
    <2>3. SettlementInv'
      BY <2>a, <2>b, <2>c, <2>1, <2>2, SettlementFrame DEF chainVars
    <2>4. SettledWasPaid'
      BY <1>0, <2>1 DEF PaymentInv, SettledWasPaid, chainVars
    <2>5. OrphanInv'
      BY <2>1, <2>2 DEF PaymentInv, OrphanInv, TypeOK, Transaction, chainVars
    <2>6. QED
      BY <2>3, <2>4, <2>5 DEF PaymentInv
  <1>7. QED
    BY <1>1, <1>2, <1>3, <1>4, <1>5, <1>6 DEF SettlementStep

LEMMA PaymentStep == TypeOK /\ RowsInv /\ PaymentInv /\ [Next]_vars => PaymentInv'
  <1> SUFFICES ASSUME TypeOK, RowsInv, PaymentInv, [Next]_vars PROVE PaymentInv'
    OBVIOUS
  <1>0. RowsInv'
    BY RowsStep
  <1>1. CASE UNCHANGED vars
    BY <1>1 DEF vars, serverVars, chainVars, historyVars,
                PaymentInv, SettledWasPaid, SettlementInv, OrphanInv
  <1>2. CASE Tick \/ \E s \in Sessions : SessionRevoked(s)
    <2>1. UNCHANGED <<status, settler, orphans, accepted, paid>>
      BY <1>2 DEF Tick, SessionRevoked, serverVars, chainVars, historyVars
    <2>2. QED
      BY <2>1 DEF PaymentInv, SettledWasPaid, SettlementInv, OrphanInv
  <1>3. ASSUME NEW tx \in orphans, OrphanMined(tx) PROVE PaymentInv'
    <2>1. PayGroup(tx) \/ FailGroup(tx)
      BY <1>3 DEF OrphanMined
    <2>2. UNCHANGED <<status, accepted, settler>> /\ orphans' = orphans \ {tx}
      BY <1>3 DEF OrphanMined, serverVars, historyVars
    <2>3. tx \in Transaction /\ \A v \in tx.group : status[v] # "none"
      BY DEF TypeOK, PaymentInv, OrphanInv
    <2>4. SettledWasPaid'
      BY <2>1, <2>2, <2>3, MinedPayment
    <2>5. \A v \in Vouchers : paid[v] > 0 => paid'[v] > 0
      BY <2>1, PayGrows
    <2>6. \A q \in Settlers : settler[q].group \subseteq Vouchers
      BY DEF TypeOK, Settlement
    <2>7. SettlementInv'
      BY <2>2, <2>5, <2>6 DEF PaymentInv, SettlementInv
    <2>8. QED
      BY <2>2, <2>4, <2>7 DEF PaymentInv, OrphanInv
  <1>4. ASSUME NEW r \in Requests, RequestStep(r) PROVE PaymentInv'
    <2>1. CASE Accept(r)
      BY <1>0, <2>1, AcceptPayment
    <2>2. CASE ~Accept(r)
      <3>1. UNCHANGED <<status, settler, orphans, accepted, paid>>
        BY <1>4, <2>2 DEF RequestStep, Verify, GatewayRefuses, serverVars, chainVars, historyVars
      <3>2. QED
        BY <3>1 DEF PaymentInv, SettledWasPaid, SettlementInv, OrphanInv
    <2>3. QED
      BY <2>1, <2>2
  <1>5. ASSUME NEW p \in Settlers, SettlementStep(p) PROVE PaymentInv'
    BY <1>5, SettlementPayment
  <1>6. CASE Crash
    <2>1. \A q \in Settlers : \A v \in settler[q].group :
            v \in Vouchers /\ status[v] # "none" /\ (settler[q].pc = "paid" => paid[v] > 0)
      BY DEF PaymentInv, SettlementInv, TypeOK, Settlement
    <2>2. UNCHANGED <<accepted, paid>> /\ settler' = [p \in Settlers |-> Idle]
      BY <1>6 DEF Crash, historyVars
    <2>3. /\ \A v \in Vouchers : status[v] # "none" => status'[v] # "none"
          /\ \A v \in Vouchers : status'[v] = "settled" => status[v] = "settled" \/ paid[v] > 0
      BY <1>6, <2>1 DEF Crash
    <2>4. SettledWasPaid'
      BY <1>0, <2>2, <2>3, FramePayment DEF RowsInv
    <2>5. SettlementInv'
      BY <2>2 DEF SettlementInv, Idle
    <2>6. ASSUME NEW tx \in orphans' PROVE \A v \in tx.group : status'[v] # "none"
      <3>1. tx \in orphans \/ \E q \in Settlers : tx = TransactionOf(q)
        BY <1>6 DEF Crash
      <3>2. \A v \in tx.group : v \in Vouchers /\ status[v] # "none"
        BY <2>1, <3>1 DEF TransactionOf, PaymentInv, OrphanInv, TypeOK, Transaction
      <3>3. QED
        BY <2>3, <3>2
    <2>7. QED
      BY <2>4, <2>5, <2>6 DEF PaymentInv, OrphanInv
  <1>7. QED
    BY <1>1, <1>2, <1>3, <1>4, <1>5, <1>6 DEF Next, Step

-----------------------------------------------------------------------------
(* The session cache.                                                      *)

LEMMA CacheStep == TypeOK /\ CacheInv /\ [Next]_vars => CacheInv'
  <1> SUFFICES ASSUME TypeOK, CacheInv, [Next]_vars PROVE CacheInv'
    OBVIOUS
  <1>0. /\ now \in Nat /\ NoTime \in Int
        /\ \A s \in Sessions : activeAt[s] \in Int /\ verifiedAt[s] \in Int /\ SessionExpiry[s] \in Nat
    BY VoucherAssumption DEF TypeOK
  <1>1. CASE UNCHANGED <<now, revoked, verifiedAt, activeAt>>
    BY <1>1 DEF CacheInv, SessionValid
  <1>2. ASSUME NEW r \in Requests, NEW v \in Vouchers, Verify(r, v) PROVE CacheInv'
    <2>1. UNCHANGED <<now, revoked, activeAt>>
      BY <1>2 DEF Verify, historyVars
    <2>2. VerifySessionKey(SessionOf[v])
      BY <1>2 DEF Verify
    <2>3. CASE UNCHANGED verifiedAt
      BY <1>1, <2>1, <2>3
    <2>4. CASE /\ SessionValid(SessionOf[v])
               /\ verifiedAt' = [verifiedAt EXCEPT ![SessionOf[v]] = now]
      BY <1>0, <2>1, <2>4 DEF CacheInv, SessionValid, TypeOK
    <2>5. QED
      BY <2>2, <2>3, <2>4 DEF VerifySessionKey
  <1>3. CASE Tick
    <2>1. now' = now + 1 /\ activeAt' = SeenActive(now + 1, revoked) /\ UNCHANGED <<revoked, verifiedAt>>
      BY <1>3 DEF Tick
    <2>2. ASSUME NEW s \in Sessions
          PROVE  /\ activeAt'[s] <= now'
                 /\ SessionValid(s)' => activeAt'[s] = now'
                 /\ verifiedAt'[s] # NoTime => verifiedAt'[s] <= activeAt'[s]
      BY <1>0, <2>1 DEF CacheInv, SeenActive, SessionValid
    <2>3. QED
      BY <2>2 DEF CacheInv
  <1>4. ASSUME NEW s \in Sessions, SessionRevoked(s) PROVE CacheInv'
    BY <1>4 DEF CacheInv, SessionRevoked, SessionValid, TypeOK, historyVars
  <1>5. CASE Crash
    BY <1>5 DEF CacheInv, Crash, SessionValid, historyVars
  <1>6. ASSUME NEW tx \in orphans, OrphanMined(tx) PROVE CacheInv'
    BY <1>1, <1>6 DEF OrphanMined, historyVars
  <1>7. ASSUME NEW p \in Settlers, SettlementStep(p) PROVE CacheInv'
    BY <1>1, <1>7 DEF SettlementStep, StartSettlement, SendGroup, GroupNotSent, Mined, ReceiptLost,
                      MarkSettled, GroupFailed, historyVars
  <1>8. ASSUME NEW r \in Requests, GatewayRefuses(r) \/ Accept(r) PROVE CacheInv'
    BY <1>1, <1>8 DEF GatewayRefuses, Accept, historyVars
  <1>9. CASE UNCHANGED vars
    BY <1>1, <1>9 DEF vars, historyVars
  <1>10. QED
    BY <1>2, <1>3, <1>4, <1>5, <1>6, <1>7, <1>8, <1>9 DEF Next, Step, RequestStep

-----------------------------------------------------------------------------
(* Undisturbed settlements.                                                *)

\* A settlement that moves while its group is unpaid, or rests, disturbs nothing.
LEMMA MoveQuiet ==
    ASSUME TypeOK, Quiet, UNCHANGED <<status, paid>>, orphans' = {}, ~Overlap',
           NEW p \in Settlers, settler[p].pc # "paid", NEW move \in Settlement,
           settler' = [settler EXCEPT ![p] = move],
           \A v \in move.batch : status[v] = "pending"
    PROVE  Quiet'
  <1>1. \A q \in Settlers : settler'[q] = IF q = p THEN move ELSE settler[q]
    BY DEF TypeOK
  <1>2. \A q \in Settlers : \A v \in settler'[q].batch : status'[v] = "pending"
    BY <1>1 DEF Quiet
  <1>3. ASSUME NEW v \in Vouchers, paid'[v] = 1
        PROVE  \/ status'[v] = "settled"
               \/ \E q \in Settlers : settler'[q].pc = "paid" /\ v \in settler'[q].group
    BY <1>1, <1>3 DEF Quiet
  <1>4. \A v \in Vouchers : paid'[v] \in {0, 1}
    BY DEF Quiet
  <1>5. QED
    BY <1>2, <1>3, <1>4 DEF Quiet

LEMMA SettlementQuiet ==
    ASSUME TypeOK, SettlementInv, Quiet, orphans' = {}, ~Overlap',
           NEW p \in Settlers, SettlementStep(p)
    PROVE  Quiet'
  <1>0. /\ settler[p] \in Settlement
        /\ settler[p].batch \in SUBSET Vouchers /\ settler[p].group \in SUBSET Vouchers
        /\ settler[p].group \subseteq settler[p].batch
    BY DEF TypeOK, Settlement, SettlementInv
  <1>1. CASE StartSettlement(p)
    <2>1. PICK batch \in SUBSET PendingVouchers :
            settler' = [settler EXCEPT ![p] = [Idle EXCEPT !.pc = "next", !.batch = batch]]
      BY <1>1 DEF StartSettlement
    <2> DEFINE move == [Idle EXCEPT !.pc = "next", !.batch = batch]
    <2>2. move \in Settlement /\ move.batch = batch
      BY DEF PendingVouchers, Settlement, Idle
    <2>3. \A v \in batch : status[v] = "pending"
      BY DEF PendingVouchers
    <2>4. settler[p].pc # "paid" /\ UNCHANGED <<status, paid>>
      BY <1>1 DEF StartSettlement, Idle, serverVars, chainVars
    <2> HIDE DEF move
    <2>5. QED
      BY <2>1, <2>2, <2>3, <2>4, MoveQuiet DEF move
  <1>2. CASE SendGroup(p)
    <2>1. PICK w \in Wallets :
            settler' = [settler EXCEPT ![p].pc = "sent",
                                       ![p].group = GroupOf(settler[p].batch, w),
                                       ![p].nonce = chainNonce[w]]
      BY <1>2 DEF SendGroup
    <2> DEFINE move == [settler[p] EXCEPT !.pc = "sent",
                                          !.group = GroupOf(settler[p].batch, w),
                                          !.nonce = chainNonce[w]]
    <2>2. GroupOf(settler[p].batch, w) \in SUBSET Vouchers /\ chainNonce[w] \in Nat
      BY <1>0 DEF GroupOf, TypeOK
    <2>3. move \in Settlement /\ move.batch = settler[p].batch
      BY <1>0, <2>2 DEF Settlement
    <2>4. settler' = [settler EXCEPT ![p] = move]
      BY <2>1 DEF TypeOK
    <2>5. /\ settler[p].pc # "paid" /\ UNCHANGED <<status, paid>>
          /\ \A v \in settler[p].batch : status[v] = "pending"
      BY <1>2 DEF SendGroup, serverVars, chainVars, Quiet
    <2> HIDE DEF move
    <2>6. QED
      BY <2>3, <2>4, <2>5, MoveQuiet
  <1>3. ASSUME NEW g, settler' = [settler EXCEPT ![p] = After(settler[p].batch, g)],
               settler[p].pc # "paid", UNCHANGED <<status, paid>>
        PROVE  Quiet'
    <2>1. /\ After(settler[p].batch, g) \in Settlement
          /\ After(settler[p].batch, g).batch \subseteq settler[p].batch
      BY <1>0, AfterFacts
    <2>2. \A v \in After(settler[p].batch, g).batch : status[v] = "pending"
      BY <2>1 DEF Quiet
    <2>3. QED
      BY <1>3, <2>1, <2>2, MoveQuiet
  <1>4. CASE GroupNotSent(p)
    BY <1>3, <1>4 DEF GroupNotSent, serverVars, chainVars
  <1>5. CASE GroupFailed(p)
    BY <1>3, <1>5 DEF GroupFailed, serverVars, chainVars
  <1>6. CASE Mined(p)
    <2>0. settler[p].pc = "sent" /\ settler[p] # Idle /\ status' = status
      BY <1>6 DEF Mined, Idle, serverVars
    <2>1. CASE PayGroup(TransactionOf(p)) /\ settler' = [settler EXCEPT ![p].pc = "paid"]
      <3>1. \A v \in Vouchers : paid'[v] = paid[v] + IF v \in settler[p].group THEN 1 ELSE 0
        BY <2>1 DEF PayGroup, TransactionOf
      <3>2. \A q \in Settlers : settler[q].pc = "paid" => FALSE
        BY <2>0 DEF Quiet, Overlap, Idle
      <3>3. \A v \in settler[p].group : paid[v] = 0
        BY <1>0, <3>2 DEF Quiet
      <3>4. \A q \in Settlers : settler'[q].batch = settler[q].batch
        BY <2>1 DEF TypeOK, Settlement
      <3>5. settler'[p].pc = "paid" /\ settler'[p].group = settler[p].group
        BY <1>0, <2>1 DEF TypeOK, Settlement
      <3>6. ASSUME NEW v \in Vouchers
            PROVE  /\ paid'[v] \in {0, 1}
                   /\ paid'[v] = 1 => \/ status'[v] = "settled"
                                      \/ \E q \in Settlers : settler'[q].pc = "paid" /\ v \in settler'[q].group
        <4>1. CASE v \in settler[p].group
          BY <3>1, <3>3, <3>5, <4>1
        <4>2. CASE v \notin settler[p].group
          <5>1. paid'[v] = paid[v]
            BY <3>1, <4>2 DEF TypeOK
          <5>2. QED
            BY <2>0, <3>2, <5>1 DEF Quiet
        <4>3. QED
          BY <4>1, <4>2
      <3>7. QED
        BY <2>0, <3>4, <3>6 DEF Quiet
    <2>2. CASE FailGroup(TransactionOf(p)) /\ settler' = [settler EXCEPT ![p].pc = "refused"]
      <3> DEFINE move == [settler[p] EXCEPT !.pc = "refused"]
      <3>1. move \in Settlement /\ move.batch = settler[p].batch
        BY <1>0 DEF Settlement
      <3>2. settler' = [settler EXCEPT ![p] = move]
        BY <2>2 DEF TypeOK
      <3>3. UNCHANGED <<status, paid>> /\ \A v \in settler[p].batch : status[v] = "pending"
        BY <2>0, <2>2 DEF FailGroup, Quiet
      <3> HIDE DEF move
      <3>4. QED
        BY <2>0, <3>1, <3>2, <3>3, MoveQuiet
    <2>3. QED
      BY <1>6, <2>1, <2>2 DEF Mined
  <1>7. CASE ReceiptLost(p)
    BY <1>7 DEF ReceiptLost
  <1>8. CASE MarkSettled(p)
    <2> DEFINE left == After(settler[p].batch, settler[p].group)
    <2>1. \A v \in left.batch : v \in settler[p].batch /\ v \notin settler[p].group
      BY <1>0, AfterLeaves
    <2>2. /\ settler[p].pc = "paid" /\ settler' = [settler EXCEPT ![p] = left]
          /\ paid' = paid
          /\ status' = [v \in Vouchers |-> IF v \in settler[p].group THEN "settled" ELSE status[v]]
      BY <1>8 DEF MarkSettled, chainVars
    <2> HIDE DEF left
    <2>3. \A q \in Settlers \ {p} : settler[q] = Idle /\ settler'[q] = Idle
      BY <2>2 DEF Quiet, Overlap, Idle, TypeOK
    <2>4. settler'[p] = left
      BY <2>2 DEF TypeOK
    <2>5. \A q \in Settlers : \A v \in settler'[q].batch : status'[v] = "pending"
      BY <1>0, <2>1, <2>2, <2>3, <2>4 DEF Quiet, Idle
    <2>6. \A v \in Vouchers : /\ paid'[v] \in {0, 1}
                              /\ paid'[v] = 1 => status'[v] = "settled"
      <3>1. \A q \in Settlers : settler[q].pc = "paid" => q = p
        BY <2>3 DEF Idle
      <3>2. QED
        BY <2>2, <3>1 DEF Quiet
    <2>7. QED
      BY <2>5, <2>6 DEF Quiet
  <1>9. QED
    BY <1>1, <1>2, <1>4, <1>5, <1>6, <1>7, <1>8 DEF SettlementStep

LEMMA QuietStep == TypeOK /\ SettlementInv /\ QuietInv /\ [Next]_vars => QuietInv'
  <1> SUFFICES ASSUME TypeOK, SettlementInv, QuietInv, [Next]_vars PROVE QuietInv'
    OBVIOUS
  <1>1. CASE UNCHANGED vars
    BY <1>1 DEF vars, QuietInv, Quiet, Overlap, serverVars, chainVars, historyVars
  <1>2. CASE Next
    <2>1. Step /\ disturbed' = (disturbed \/ crashes' > 0 \/ orphans' # {} \/ Overlap')
      BY <1>2 DEF Next
    <2>2. disturbed' \in BOOLEAN
      BY <2>1 DEF QuietInv
    <2>3. ASSUME ~disturbed' PROVE Quiet'
      <3>1. Quiet /\ ~(crashes' > 0) /\ orphans' = {} /\ ~Overlap'
        BY <2>1, <2>3 DEF QuietInv
      <3>2. ASSUME NEW r \in Requests, RequestStep(r) PROVE Quiet'
        <4>1. /\ settler' = settler /\ paid' = paid
              /\ \/ status' = status
                 \/ \E v \in Vouchers : status[v] = "none" /\ status' = [status EXCEPT ![v] = "pending"]
          <5>1. CASE Accept(r)
            <6>1. request[r] \in Vouchers
              BY <5>1 DEF TypeOK, Accept
            <6>2. QED
              BY <5>1, <6>1 DEF Accept, HasRow, chainVars
          <5>2. QED
            BY <3>2, <5>1 DEF RequestStep, Verify, GatewayRefuses, serverVars, chainVars
        <4>2. \A v \in Vouchers : /\ status[v] = "pending" => status'[v] = "pending"
                                  /\ status[v] = "settled" => status'[v] = "settled"
          BY <4>1 DEF TypeOK
        <4>3. \A p \in Settlers : settler[p].batch \subseteq Vouchers
          BY DEF TypeOK, Settlement
        <4>4. QED
          BY <3>1, <4>1, <4>2, <4>3 DEF Quiet
      <3>3. ASSUME NEW p \in Settlers, SettlementStep(p) PROVE Quiet'
        BY <3>1, <3>3, SettlementQuiet
      <3>4. \A tx \in orphans : FALSE
        BY <3>1 DEF Quiet
      <3>5. ASSUME Tick \/ \E s \in Sessions : SessionRevoked(s) PROVE Quiet'
        BY <3>1, <3>5 DEF Tick, SessionRevoked, serverVars, chainVars, Quiet, Overlap
      <3>6. ~Crash
        BY <3>1 DEF Crash, TypeOK
      <3>7. QED
        BY <2>1, <3>2, <3>3, <3>4, <3>5, <3>6 DEF Step
    <2>4. QED
      BY <2>2, <2>3 DEF QuietInv
  <1>3. QED
    BY <1>1, <1>2

-----------------------------------------------------------------------------
(* The theorems.                                                           *)

\* The inductive invariant holds in every reachable state.
THEOREM Invariance == Spec => []IInv
  <1>1. Init => IInv
    BY InitIInv
  <1>2. IInv /\ [Next]_vars => IInv'
    BY NextTypeOK, RowsStep, PaymentStep, CacheStep, QuietStep DEF IInv, RowsInv, PaymentInv
  <1>3. QED
    BY <1>1, <1>2, PTL DEF Spec

\* One nonce is one accepted voucher, however many requests interleave at the
\* await of the compiler gateway and whenever the process dies.
THEOREM NoncesAcceptedOnce == Spec => []NonceAcceptedOnce
  <1>1. IInv => NonceAcceptedOnce
    BY DEF IInv
  <1>2. QED
    BY <1>1, Invariance, PTL

\* What was accepted is in the tables, and nothing else is.
THEOREM AcceptedAreRecorded == Spec => []AcceptedIsRecorded
  <1>1. IInv => AcceptedIsRecorded
    BY DEF IInv
  <1>2. QED
    BY <1>1, Invariance, PTL

\* A voucher marked settled was transferred, and only accepted vouchers are,
\* for any number of overlapping settlements, lost receipts and crashes.
THEOREM SettledWerePaid == Spec => []SettledWasPaid
  <1>1. IInv => SettledWasPaid
    BY DEF IInv
  <1>2. QED
    BY <1>1, Invariance, PTL

\* A voucher is transferred twice only after a crash, a lost receipt or an overlap of
\* settlements, for any number of settlements, batches and refused operations.
THEOREM PaidAtMostOnce == Spec => []PaidOnce
  <1>1. IInv => PaidOnce
    BY DEF IInv, QuietInv, Quiet, PaidOnce
  <1>2. QED
    BY <1>1, Invariance, PTL

\* No voucher passes verification on a session that has not been valid for
\* longer than the TTL of the session key cache.
THEOREM SessionsRecentlyValid == Spec => SessionRecentlyValid
  <1> DEFINE Recent == \A r \in Requests :
        request[r] = NoVoucher /\ request'[r] # NoVoucher =>
            LET s == SessionOf[request'[r]] IN
            activeAt[s] # NoTime /\ now - activeAt[s] <= CacheTTL
  <1>1. IInv /\ [Next]_vars => [Recent]_vars
    <2> SUFFICES ASSUME IInv, Next, NEW r \in Requests,
                        request[r] = NoVoucher, request'[r] # NoVoucher
                 PROVE  LET s == SessionOf[request'[r]] IN
                        activeAt[s] # NoTime /\ now - activeAt[s] <= CacheTTL
      OBVIOUS
    <2>0. request \in [Requests -> Vouchers \cup {NoVoucher}]
      BY DEF IInv, TypeOK
    <2>1. PICK q \in Requests, v \in Vouchers : Verify(q, v)
      <3>1. ASSUME NEW q \in Requests, GatewayRefuses(q) \/ Accept(q) PROVE FALSE
        BY <2>0, <3>1 DEF GatewayRefuses, Accept
      <3>2. ASSUME NEW p \in Settlers, SettlementStep(p) PROVE FALSE
        BY <3>2 DEF SettlementStep, StartSettlement, SendGroup, GroupNotSent, Mined, ReceiptLost,
                    MarkSettled, GroupFailed
      <3>3. ASSUME NEW tx \in orphans, OrphanMined(tx) PROVE FALSE
        BY <3>3 DEF OrphanMined
      <3>4. ASSUME NEW s \in Sessions, SessionRevoked(s) PROVE FALSE
        BY <3>4 DEF SessionRevoked
      <3>5. ~Tick /\ ~Crash
        BY DEF Tick, Crash
      <3>6. QED
        BY <3>1, <3>2, <3>3, <3>4, <3>5 DEF Next, Step, RequestStep
    <2>2. request'[r] = v
      BY <2>0, <2>1 DEF Verify
    <2> DEFINE s == SessionOf[v]
    <2>3. /\ s \in Sessions /\ now \in Nat /\ CacheTTL \in Nat
          /\ activeAt[s] \in Nat \cup {NoTime} /\ verifiedAt[s] \in Nat \cup {NoTime}
          /\ NoTime \in Int \ Nat
      BY VoucherAssumption DEF IInv, TypeOK
    <2>4. /\ SessionValid(s) => activeAt[s] = now
          /\ verifiedAt[s] # NoTime => verifiedAt[s] <= activeAt[s]
      BY <2>3 DEF IInv, CacheInv
    <2>5. Cached(s) \/ SessionValid(s)
      BY <2>1 DEF Verify, VerifySessionKey
    <2>6. CASE Cached(s)
      <3>1. verifiedAt[s] # NoTime /\ now - verifiedAt[s] < CacheTTL
        BY <2>6 DEF Cached
      <3> HIDE DEF s
      <3>2. activeAt[s] # NoTime /\ now - activeAt[s] <= CacheTTL
        BY <2>3, <2>4, <3>1
      <3>3. QED
        BY <2>2, <3>2 DEF s
    <2>7. CASE SessionValid(s)
      BY <2>2, <2>3, <2>4, <2>7
    <2>8. QED
      BY <2>5, <2>6, <2>7
  <1>2. QED
    BY <1>1, Invariance, PTL DEF Spec, SessionRecentlyValid
=============================================================================
