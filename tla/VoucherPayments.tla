---------------------------- MODULE VoucherPayments ----------------------------
(***************************************************************************)
(* agentix/src/core/x402-voucher.ts and the voucher path of x402-seller.ts *)
(* and runtime/bundler.ts: a merchant's server accepts signed payment      *)
(* vouchers at once and has them paid later, many in one UserOperation.    *)
(*                                                                         *)
(* The server is one JavaScript process: what it does between two awaits   *)
(* is one action, and requests and settlements interleave at the awaits.   *)
(* SQLite is synchronous and every statement commits on its own, so that a *)
(* crash can fall between two statements of one action.                    *)
(*                                                                         *)
(* Abstractions.  A voucher is a model value, its fields functions of it;  *)
(* its signature is the claimed session key's (the two checks that refuse  *)
(* it otherwise change nothing).  A session is a wallet with one of its    *)
(* keys.  usedNonces, a cache of the table, is folded into the table.      *)
(* The order of rows matters to LIMIT only.                                *)
(***************************************************************************)
EXTENDS Integers, FiniteSets, FiniteSetsExt

CONSTANTS
    Vouchers, Nonces, Sessions, Wallets,
    NonceOf, SessionOf, AmountOf, ExpiryOf,     \* the fields of a voucher
    WalletOf, SessionExpiry, DailyLimit,        \* the columns of a session
    Requests, Settlers,     \* concurrent requests, and settlements: ticks or calls of the endpoint
    NoVoucher, NoTime,
    Price,                  \* route.priceAtomic
    CacheTTL,               \* SESSION_KEY_CACHE_TTL
    MaxBatch,               \* MAX_BATCH_SIZE of a settlement
    WalletMaxBatch,         \* MAX_BATCH_SIZE of AgentWallet
    SettlementKey,          \* what settleVoucherBatch signs with
    ReceiptsMayBeLost,      \* whether the RPC node may fail after a submission
    MaxCrashes, MaxOps, MaxNow      \* bounds: crashes, operations of a wallet, time

ASSUME VoucherAssumption ==
    /\ NonceOf \in [Vouchers -> Nonces]
    /\ SessionOf \in [Vouchers -> Sessions]
    /\ AmountOf \in [Vouchers -> Nat] /\ ExpiryOf \in [Vouchers -> Nat]
    /\ WalletOf \in [Sessions -> Wallets]
    /\ SessionExpiry \in [Sessions -> Nat] /\ DailyLimit \in [Sessions -> Nat]
    /\ NoVoucher \notin Vouchers /\ NoTime \in Int \ Nat
    /\ Price \in Nat /\ CacheTTL \in Nat /\ MaxBatch \in Nat /\ WalletMaxBatch \in Nat
    /\ SettlementKey \in {"address", "session", "owner"}
    /\ ReceiptsMayBeLost \in BOOLEAN
    /\ MaxCrashes \in Nat /\ MaxOps \in Nat /\ MaxNow \in Nat

VARIABLES
    now,
    marked,         \* x402_used_nonces: the nonces marked used
    status,         \* x402_vouchers: "none" where there is no row
    createdAt,      \* x402_vouchers.created_at
    revoked,        \* sessions.revoked
    verifiedAt,     \* sessionKeyCache: verifiedAt of an entry, NoTime for none
    request,        \* the voucher a request has verified and not yet accepted
    settler,        \* each settlement in progress
    chainNonce,     \* EntryPoint nonce of each wallet
    orphans,        \* transactions sent whose sender no longer waits for them
    crashes,
    accepted,       \* history: how often a voucher was accepted
    paid,           \* history: how often a voucher was transferred
    activeAt,       \* history: when each session was last known valid in the table
    disturbed       \* history: a crash, a lost receipt, or two settlements at once

serverVars == <<marked, status, createdAt>>
chainVars == <<chainNonce, orphans, paid>>
historyVars == <<accepted, activeAt>>
vars == <<now, serverVars, revoked, verifiedAt, request, settler, chainVars, crashes, historyVars,
          disturbed>>

Idle == [pc |-> "idle", batch |-> {}, group |-> {}, nonce |-> 0]
Settlement == [pc : {"idle", "next", "sent", "paid", "refused"}, batch : SUBSET Vouchers,
               group : SUBSET Vouchers, nonce : Nat]
Transaction == [group : SUBSET Vouchers, nonce : Nat]

WalletOfVoucher(v) == WalletOf[SessionOf[v]]
SessionValid(s) == ~revoked[s] /\ SessionExpiry[s] > now
HasRow(n) == \E v \in Vouchers : NonceOf[v] = n /\ status[v] # "none"

Init ==
    /\ now = 0
    /\ marked = {}
    /\ status = [v \in Vouchers |-> "none"]
    /\ createdAt = [v \in Vouchers |-> NoTime]
    /\ revoked = [s \in Sessions |-> FALSE]
    /\ verifiedAt = [s \in Sessions |-> NoTime]
    /\ request = [r \in Requests |-> NoVoucher]
    /\ settler = [p \in Settlers |-> Idle]
    /\ chainNonce = [w \in Wallets |-> 0]
    /\ orphans = {}
    /\ crashes = 0
    /\ accepted = [v \in Vouchers |-> 0]
    /\ paid = [v \in Vouchers |-> 0]
    /\ activeAt = [s \in Sessions |-> IF SessionExpiry[s] > 0 THEN 0 ELSE NoTime]
    /\ disturbed = FALSE

-----------------------------------------------------------------------------
(* Accepting a voucher.                                                    *)

\* verifySessionKey: a cached entry is believed until its TTL has passed,
\* otherwise the table is asked and a valid session is cached.
Cached(s) == verifiedAt[s] # NoTime /\ now - verifiedAt[s] < CacheTTL

\* Mutant: every hit renews the entry.
VerifySessionKeySliding(s) ==
    /\ Cached(s) \/ SessionValid(s)
    /\ verifiedAt' = [verifiedAt EXCEPT ![s] = now]

VerifySessionKey(s) ==
    \/ Cached(s) /\ UNCHANGED verifiedAt
    \/ ~Cached(s) /\ SessionValid(s) /\ verifiedAt' = [verifiedAt EXCEPT ![s] = now]

\* A session's entry carries a daily spend of "0": nothing is ever added to it.
WithinDailyLimit(v) == DailyLimit[SessionOf[v]] > 0 => AmountOf[v] <= DailyLimit[SessionOf[v]]

\* verifyVoucherPayment and verifyVoucher up to the first await of acceptVoucher.
Verify(r, v) ==
    /\ request[r] = NoVoucher
    /\ AmountOf[v] >= Price
    /\ ExpiryOf[v] >= now
    /\ NonceOf[v] \notin marked
    /\ VerifySessionKey(SessionOf[v])
    /\ request' = [request EXCEPT ![r] = IF WithinDailyLimit(v) THEN v ELSE NoVoucher]
    /\ UNCHANGED <<now, serverVars, revoked, settler, chainVars, crashes, historyVars>>

\* The compiler gateway refuses the payment or asks for an approval.
GatewayRefuses(r) ==
    /\ request[r] # NoVoucher
    /\ request' = [request EXCEPT ![r] = NoVoucher]
    /\ UNCHANGED <<now, serverVars, revoked, verifiedAt, settler, chainVars, crashes, historyVars>>

\* Mutant: a row whose nonce is taken is ignored instead of raising an error.
AcceptIgnoring(r) == LET v == request[r] IN
    /\ v # NoVoucher
    /\ marked' = marked \cup {NonceOf[v]}
    /\ status' = [status EXCEPT ![v] = IF HasRow(NonceOf[v]) THEN @ ELSE "pending"]
    /\ createdAt' = [createdAt EXCEPT ![v] = now]
    /\ accepted' = [accepted EXCEPT ![v] = @ + 1]
    /\ request' = [request EXCEPT ![r] = NoVoucher]
    /\ UNCHANGED <<now, revoked, verifiedAt, settler, chainVars, crashes, activeAt>>

\* The gateway lets the payment pass, or cannot be reached: the nonce is marked
\* and the row inserted.  The column nonce is UNIQUE: if the insert fails the
\* request fails with it.
Accept(r) == LET v == request[r] IN
    /\ v # NoVoucher
    /\ marked' = marked \cup {NonceOf[v]}
    /\ IF HasRow(NonceOf[v])
       THEN UNCHANGED <<status, createdAt, accepted>>
       ELSE /\ status' = [status EXCEPT ![v] = "pending"]
            /\ createdAt' = [createdAt EXCEPT ![v] = now]
            /\ accepted' = [accepted EXCEPT ![v] = @ + 1]
    /\ request' = [request EXCEPT ![r] = NoVoucher]
    /\ UNCHANGED <<now, revoked, verifiedAt, settler, chainVars, crashes, activeAt>>

-----------------------------------------------------------------------------
(* Settling vouchers.                                                      *)

\* Mutant: settled rows are read again.
PendingVouchersAnyStatus == {v \in Vouchers : status[v] # "none" /\ ExpiryOf[v] > now}

PendingVouchers == {v \in Vouchers : status[v] = "pending" /\ ExpiryOf[v] > now}

\* getPendingVouchers: the oldest rows, as many as the limit lets through.
IsOldest(batch) ==
    /\ batch \subseteq PendingVouchers
    /\ Cardinality(batch) = IF MaxBatch < Cardinality(PendingVouchers) THEN MaxBatch
                            ELSE Cardinality(PendingVouchers)
    /\ \A v \in batch, u \in PendingVouchers \ batch : createdAt[v] <= createdAt[u]

StartSettlement(p) ==
    /\ settler[p] = Idle
    /\ PendingVouchers # {}
    /\ \E batch \in SUBSET PendingVouchers :
         /\ IsOldest(batch)
         /\ settler' = [settler EXCEPT ![p] = [Idle EXCEPT !.pc = "next", !.batch = batch]]
    /\ UNCHANGED <<now, serverVars, revoked, verifiedAt, request, chainVars, crashes, historyVars>>

\* What is left of a batch after the group g: the next wallet, or the end.
After(batch, g) ==
    IF batch \ g = {} THEN Idle ELSE [Idle EXCEPT !.pc = "next", !.batch = batch \ g]

GroupOf(batch, w) == {v \in batch : WalletOfVoucher(v) = w}

\* buildSessionUserOp: the op of one wallet's vouchers is signed over the nonce
\* the EntryPoint reports, and sent.
SendGroup(p) ==
    /\ settler[p].pc = "next"
    /\ SettlementKey # "address"
    /\ \E w \in Wallets : LET g == GroupOf(settler[p].batch, w) IN
         /\ g # {}
         /\ chainNonce[w] < MaxOps
         /\ settler' = [settler EXCEPT ![p].pc = "sent", ![p].group = g, ![p].nonce = chainNonce[w]]
    /\ UNCHANGED <<now, serverVars, revoked, verifiedAt, request, chainVars, crashes, historyVars>>

\* Nothing is sent: the key is an address and no Wallet can be made of it, or
\* the node is down, the hash differs, or the wallet has no deposit.
GroupNotSent(p) ==
    /\ settler[p].pc = "next"
    /\ \E w \in Wallets : LET g == GroupOf(settler[p].batch, w) IN
         /\ g # {}
         /\ settler' = [settler EXCEPT ![p] = After(settler[p].batch, g)]
    /\ UNCHANGED <<now, serverVars, revoked, verifiedAt, request, chainVars, crashes, historyVars>>

TransactionOf(p) == [group |-> settler[p].group, nonce |-> settler[p].nonce]

\* What EntryPoint and AgentWallet do with a transaction: validateUserOp refuses
\* a stale nonce, and an executeBatch signed by anyone but the owner; the batch
\* then pays all of its vouchers or, when it is too large or a transfer fails,
\* none, and the nonce is used up in both cases.
OpValid(tx) ==
    /\ SettlementKey = "owner"
    /\ \A v \in tx.group : tx.nonce = chainNonce[WalletOfVoucher(v)]
UseNonce(tx) ==
    chainNonce' = [w \in Wallets |->
        chainNonce[w] + IF \E v \in tx.group : WalletOfVoucher(v) = w THEN 1 ELSE 0]
PayGroup(tx) ==
    /\ OpValid(tx)
    /\ Cardinality(tx.group) <= WalletMaxBatch
    /\ UseNonce(tx)
    /\ paid' = [v \in Vouchers |-> paid[v] + IF v \in tx.group THEN 1 ELSE 0]
FailGroup(tx) ==
    /\ IF OpValid(tx) THEN UseNonce(tx) ELSE UNCHANGED chainNonce
    /\ UNCHANGED paid

\* The transaction is mined while the settlement waits for its receipt.
Mined(p) ==
    /\ settler[p].pc = "sent"
    /\ \/ PayGroup(TransactionOf(p)) /\ settler' = [settler EXCEPT ![p].pc = "paid"]
       \/ FailGroup(TransactionOf(p)) /\ settler' = [settler EXCEPT ![p].pc = "refused"]
    /\ UNCHANGED <<now, serverVars, revoked, verifiedAt, request, orphans, crashes, historyVars>>

\* The node fails before the receipt arrives: handleOps is taken to have failed.
ReceiptLost(p) ==
    /\ ReceiptsMayBeLost
    /\ settler[p].pc = "sent"
    /\ orphans' = orphans \cup {TransactionOf(p)}
    /\ settler' = [settler EXCEPT ![p].pc = "refused"]
    /\ UNCHANGED <<now, serverVars, revoked, verifiedAt, request, chainNonce, paid, crashes,
                   historyVars>>

OrphanMined(tx) ==
    /\ orphans' = orphans \ {tx}
    /\ PayGroup(tx) \/ FailGroup(tx)
    /\ UNCHANGED <<now, serverVars, revoked, verifiedAt, request, settler, crashes, historyVars>>

\* Mutant: the whole batch is marked when one wallet's group was paid.
MarkSettledWholeBatch(p) ==
    /\ settler[p].pc = "paid"
    /\ status' = [v \in Vouchers |-> IF v \in settler[p].batch THEN "settled" ELSE status[v]]
    /\ settler' = [settler EXCEPT ![p] = After(settler[p].batch, settler[p].group)]
    /\ UNCHANGED <<now, marked, createdAt, revoked, verifiedAt, request, chainVars, crashes, historyVars>>

MarkSettled(p) ==
    /\ settler[p].pc = "paid"
    /\ status' = [v \in Vouchers |-> IF v \in settler[p].group THEN "settled" ELSE status[v]]
    /\ settler' = [settler EXCEPT ![p] = After(settler[p].batch, settler[p].group)]
    /\ UNCHANGED <<now, marked, createdAt, revoked, verifiedAt, request, chainVars, crashes, historyVars>>

GroupFailed(p) ==
    /\ settler[p].pc = "refused"
    /\ settler' = [settler EXCEPT ![p] = After(settler[p].batch, settler[p].group)]
    /\ UNCHANGED <<now, serverVars, revoked, verifiedAt, request, chainVars, crashes, historyVars>>

-----------------------------------------------------------------------------
(* Time, sessions and crashes.                                             *)

\* activeAt follows the clock and the table.
SeenActive(t, rev) == [s \in Sessions |->
    IF ~rev[s] /\ SessionExpiry[s] > t THEN t ELSE activeAt[s]]

Tick ==
    /\ now < MaxNow
    /\ now' = now + 1
    /\ activeAt' = SeenActive(now + 1, revoked)
    /\ UNCHANGED <<serverVars, revoked, verifiedAt, request, settler, chainVars, crashes, accepted>>

\* The indexer or a tool sets the column revoked.
SessionRevoked(s) ==
    /\ ~revoked[s]
    /\ revoked' = [revoked EXCEPT ![s] = TRUE]
    /\ UNCHANGED <<now, serverVars, verifiedAt, request, settler, chainVars, crashes, historyVars>>

\* The process dies and starts again.  Besides between two actions it may die
\* after a nonce is marked and before its row is inserted, or when some of a
\* paid group's rows are marked and others are not.
Crash ==
    /\ crashes < MaxCrashes
    /\ crashes' = crashes + 1
    /\ \/ UNCHANGED <<marked, status>>
       \/ /\ \E r \in Requests :
               /\ request[r] # NoVoucher
               /\ marked' = marked \cup {NonceOf[request[r]]}
          /\ UNCHANGED status
       \/ /\ \E p \in Settlers : \E done \in SUBSET settler[p].group :
               /\ settler[p].pc = "paid"
               /\ status' = [v \in Vouchers |-> IF v \in done THEN "settled" ELSE status[v]]
          /\ UNCHANGED marked
    /\ verifiedAt' = [s \in Sessions |-> NoTime]
    /\ request' = [r \in Requests |-> NoVoucher]
    /\ settler' = [p \in Settlers |-> Idle]
    /\ orphans' = orphans \cup {TransactionOf(p) : p \in {q \in Settlers : settler[q].pc = "sent"}}
    /\ UNCHANGED <<now, createdAt, revoked, chainNonce, paid, historyVars>>

RequestStep(r) == (\E v \in Vouchers : Verify(r, v)) \/ GatewayRefuses(r) \/ Accept(r)
SettlementStep(p) ==
    \/ StartSettlement(p) \/ SendGroup(p) \/ GroupNotSent(p) \/ Mined(p) \/ ReceiptLost(p)
    \/ MarkSettled(p) \/ GroupFailed(p)

Step ==
    \/ \E r \in Requests : RequestStep(r)
    \/ \E p \in Settlers : SettlementStep(p)
    \/ \E tx \in orphans : OrphanMined(tx)
    \/ \E s \in Sessions : SessionRevoked(s)
    \/ Tick
    \/ Crash

\* Two settlements are in progress.
Overlap == \E p, q \in Settlers : p # q /\ settler[p] # Idle /\ settler[q] # Idle

Next ==
    /\ Step
    /\ disturbed' = (disturbed \/ crashes' > 0 \/ orphans' # {} \/ Overlap')

Spec == Init /\ [][Next]_vars

-----------------------------------------------------------------------------
(* Properties.                                                             *)

TypeOK ==
    /\ now \in 0 .. MaxNow
    /\ marked \subseteq Nonces
    /\ status \in [Vouchers -> {"none", "pending", "settled"}]
    /\ createdAt \in [Vouchers -> Nat \cup {NoTime}]
    /\ revoked \in [Sessions -> BOOLEAN]
    /\ verifiedAt \in [Sessions -> Nat \cup {NoTime}]
    /\ request \in [Requests -> Vouchers \cup {NoVoucher}]
    /\ settler \in [Settlers -> Settlement]
    /\ chainNonce \in [Wallets -> Nat]
    /\ orphans \subseteq Transaction
    /\ crashes \in 0 .. MaxCrashes
    /\ accepted \in [Vouchers -> Nat]
    /\ paid \in [Vouchers -> Nat]
    /\ activeAt \in [Sessions -> Nat \cup {NoTime}]

\* However many requests bring vouchers with one nonce at once, and although the
\* nonce is looked up long before it is marked, the server serves one of them:
\* it is the UNIQUE column that decides.
NonceAcceptedOnce == \A u, v \in Vouchers :
    /\ accepted[v] <= 1
    /\ accepted[u] > 0 /\ accepted[v] > 0 /\ NonceOf[u] = NonceOf[v] => u = v

\* A voucher the server served for has its row and its nonce marked, through
\* every crash, and no other voucher has a row.
AcceptedIsRecorded == \A v \in Vouchers :
    /\ accepted[v] > 0 <=> status[v] # "none"
    /\ accepted[v] > 0 => NonceOf[v] \in marked

\* A row marked settled was transferred, whatever failed on the way, and only
\* accepted vouchers are ever transferred.
SettledWasPaid == \A v \in Vouchers :
    /\ status[v] = "settled" => paid[v] > 0
    /\ paid[v] > 0 => accepted[v] > 0

\* No voucher is transferred twice, however often its batch is sent again, unless the
\* server crashed, a receipt was lost or two settlements ran at once
\* (x402-voucher.ts:393, 413, 553).
PaidOnce == \A v \in Vouchers : paid[v] > 1 => disturbed

\* A voucher passes verification only with a session that the table held valid
\* less than SESSION_KEY_CACHE_TTL ago.
SessionRecentlyValid == [][\A r \in Requests :
    request[r] = NoVoucher /\ request'[r] # NoVoucher =>
        LET s == SessionOf[request'[r]] IN
        activeAt[s] # NoTime /\ now - activeAt[s] <= CacheTTL]_vars

-----------------------------------------------------------------------------
(* The inductive invariant.                                                *)

\* The batch of a settlement was read from the table and its group is a part of
\* it; what a mined transaction paid is paid.
SettlementInv == \A p \in Settlers :
    /\ \A v \in settler[p].batch : status[v] # "none"
    /\ settler[p].group \subseteq settler[p].batch
    /\ settler[p].pc = "paid" => \A v \in settler[p].group : paid[v] > 0

OrphanInv == \A tx \in orphans : \A v \in tx.group : status[v] # "none"

\* A cached entry is no newer than the last time its session was valid.
CacheInv == \A s \in Sessions :
    /\ activeAt[s] <= now
    /\ SessionValid(s) => activeAt[s] = now
    /\ verifiedAt[s] # NoTime => verifiedAt[s] <= activeAt[s]

\* As long as nothing disturbed the settlements: the one in progress holds pending
\* vouchers, and of the accepted ones those are paid that are marked settled or
\* about to be.
Quiet ==
    /\ orphans = {} /\ ~Overlap
    /\ \A p \in Settlers : \A v \in settler[p].batch : status[v] = "pending"
    /\ \A v \in Vouchers :
         /\ paid[v] \in {0, 1}
         /\ paid[v] = 1 => \/ status[v] = "settled"
                          \/ \E p \in Settlers : settler[p].pc = "paid" /\ v \in settler[p].group
QuietInv ==
    /\ disturbed \in BOOLEAN
    /\ ~disturbed => Quiet

IInv ==
    /\ TypeOK /\ NonceAcceptedOnce /\ AcceptedIsRecorded /\ SettledWasPaid
    /\ SettlementInv /\ OrphanInv /\ CacheInv /\ QuietInv

-----------------------------------------------------------------------------
(* What comments of the code say and it does not do.                       *)

\* "Check daily spend limit", "Would exceed daily spend limit": what is accepted
\* of a session in a day stays within its limit (the clock of a run stays
\* within one day).
AcceptedWithinDailyLimit == \A s \in Sessions :
    DailyLimit[s] > 0 =>
        MapThenSumSet(LAMBDA v : AmountOf[v] * accepted[v], {v \in Vouchers : SessionOf[v] = s})
            <= DailyLimit[s]
=============================================================================
