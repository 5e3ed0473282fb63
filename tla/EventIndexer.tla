------------------------------ MODULE EventIndexer ------------------------------
(***************************************************************************)
(* src/core/event-indexer.ts: the events of each contract are read from    *)
(* the chain in chunks of blocks and stored, by a poll that goes on from   *)
(* the checkpoint of the contract or by a reindexing from a given block.   *)
(* Every call of the provider is awaited and may fail, and the process     *)
(* may die at any await.  A contract has one event in every block, and     *)
(* GENESIS_BLOCK is 0; a row no longer written is the absence of its event.*)
(***************************************************************************)
EXTENDS Integers, Sequences, FiniteSets

CONSTANTS
    Contracts,      \* a sequence: the order of getIndexedContracts
    BlockChunk,     \* BLOCK_CHUNK
    MaxScan,        \* FIRST_RUN_MAX_SCAN
    MaxBlock,       \* bound: the height of the chain
    MaxFailures,    \* bound: the calls of the provider and the INSERTs that fail
    MaxReindexes,   \* bound
    MaxCrashes      \* bound

ContractSet == {Contracts[i] : i \in DOMAIN Contracts}

ASSUME IndexerAssumption ==
    /\ Contracts \in Seq(ContractSet)
    /\ \A i, j \in DOMAIN Contracts : Contracts[i] = Contracts[j] => i = j
    /\ BlockChunk \in Nat \ {0} /\ MaxScan \in Nat /\ MaxBlock \in Nat
    /\ MaxFailures \in Nat /\ MaxReindexes \in Nat /\ MaxCrashes \in Nat

VARIABLES
    head,           \* the height of the chain
    checkpoint,     \* indexer_checkpoints: last_block of each contract
    stored,         \* indexed_events: the blocks whose event is a row
    timer,          \* _timer is set
    scan,           \* the run under way (_running unless "idle")
    gaps,           \* history: blocks the checkpoint has passed without their event
    failures, reindexes, crashes

counters == <<failures, reindexes, crashes>>
vars == <<head, checkpoint, stored, timer, scan, gaps, failures, reindexes, crashes>>

Blocks == 1 .. MaxBlock
Larger(a, b) == IF a > b THEN a ELSE b
Smaller(a, b) == IF a < b THEN a ELSE b

\* kind, from: runIndexer, or reindexFromBlock from a block; current: the height read;
\* i: the contract; start, last: start and lastBlock of indexContract; todo: the blocks
\* of the answer still to be stored; missed: history, the blocks this contract's scan
\* has passed over; clean: history, no call of the run has failed.
Idle == [phase |-> "idle", kind |-> "poll", from |-> 0, current |-> 0, i |-> 1,
         start |-> 0, last |-> 0, todo |-> {}, missed |-> {}, clean |-> TRUE]

Scan == [phase : {"idle", "height", "next", "query", "storing", "finished"},
         kind : {"poll", "reindex"}, from : 0 .. MaxBlock + 1, current : 0 .. MaxBlock,
         i : 1 .. Len(Contracts) + 1, start : 0 .. MaxBlock + 1, last : 0 .. MaxBlock + 1,
         todo : SUBSET Blocks, missed : SUBSET Blocks, clean : BOOLEAN]

Contract == Contracts[scan.i]
Chunk(start) == start .. Smaller(start + BlockChunk - 1, scan.current)

Init ==
    /\ head = 0
    /\ checkpoint = [c \in ContractSet |-> 0]
    /\ stored = [c \in ContractSet |-> {}]
    /\ timer = FALSE
    /\ scan = Idle
    /\ gaps = [c \in ContractSet |-> {}]
    /\ failures = 0 /\ reindexes = 0 /\ crashes = 0

-----------------------------------------------------------------------------
Fail == failures < MaxFailures /\ failures' = failures + 1

\* A poll or a reindexing begins, unless one is under way, and asks for the height.
Begin(kind, from) ==
    /\ scan.phase = "idle"
    /\ scan' = [Idle EXCEPT !.phase = "height", !.kind = kind, !.from = from]

\* startIndexer, when the server starts: a poll begins at once.
Start ==
    /\ ~timer
    /\ timer' = TRUE
    /\ IF scan.phase = "idle" THEN Begin("poll", 0) ELSE UNCHANGED scan
    /\ UNCHANGED <<head, checkpoint, stored, gaps, counters>>

\* The timer fires, or the endpoint of the server asks for a run.
Poll ==
    /\ timer
    /\ Begin("poll", 0)
    /\ UNCHANGED <<head, checkpoint, stored, timer, gaps, counters>>

Reindex(from) ==
    /\ reindexes < MaxReindexes
    /\ reindexes' = reindexes + 1
    /\ Begin("reindex", from)
    /\ UNCHANGED <<head, checkpoint, stored, timer, gaps, failures, crashes>>

HeightRead ==
    /\ scan.phase = "height"
    /\ scan' = [scan EXCEPT !.phase = "next", !.current = head]
    /\ UNCHANGED <<head, checkpoint, stored, timer, gaps, counters>>

HeightFails ==
    /\ scan.phase = "height"
    /\ Fail
    /\ scan' = Idle
    /\ UNCHANGED <<head, checkpoint, stored, timer, gaps, reindexes, crashes>>

\* Where the poll of a contract begins: after the checkpoint, or not further than
\* MaxScan below the height.
PollFrom(c) ==
    LET after == Larger(checkpoint[c], 0) + 1
    IN  IF scan.current - after > MaxScan THEN scan.current - MaxScan ELSE after

\* indexContract up to its first query, or past its loop when that is empty.
Enter(start, missed) ==
    scan' = [scan EXCEPT !.phase = IF start > scan.current THEN "finished" ELSE "query",
                         !.start = start, !.last = start, !.missed = missed]

\* Mutant: the newest block alone is not worth a query.
NothingNewOffByOne(start) == start >= scan.current

NothingNew(start) == start > scan.current

\* Mutant: the checkpoint is moved before the blocks are read.
BeginPollEarly ==
    LET start == PollFrom(Contract) IN
    /\ scan.phase = "next" /\ scan.i \in DOMAIN Contracts /\ scan.kind = "poll"
    /\ IF NothingNew(start) THEN scan' = [scan EXCEPT !.i = @ + 1] /\ UNCHANGED checkpoint
       ELSE Enter(start, checkpoint[Contract] + 1 .. start - 1)
            /\ checkpoint' = [checkpoint EXCEPT ![Contract] = scan.current]
    /\ UNCHANGED <<head, stored, timer, gaps, counters>>

BeginPoll ==
    LET start == PollFrom(Contract) IN
    /\ scan.phase = "next" /\ scan.i \in DOMAIN Contracts /\ scan.kind = "poll"
    /\ IF NothingNew(start) THEN scan' = [scan EXCEPT !.i = @ + 1]
       ELSE Enter(start, (checkpoint[Contract] + 1 .. start - 1) \intersect Blocks)
    /\ UNCHANGED <<head, checkpoint, stored, timer, gaps, counters>>

\* The checkpoint is reset at once, and may pass over blocks never read.
BeginReindex ==
    LET c == Contract IN
    /\ scan.phase = "next" /\ scan.i \in DOMAIN Contracts /\ scan.kind = "reindex"
    /\ Enter(scan.from, {})
    /\ checkpoint' = [checkpoint EXCEPT ![c] = scan.from - 1]
    /\ gaps' = [gaps EXCEPT ![c] = @ \union ((checkpoint[c] + 1 .. scan.from - 1) \intersect Blocks)]
    /\ UNCHANGED <<head, stored, timer, counters>>

\* The next chunk, when there is one.
Advance(run) ==
    scan' = IF run.start + BlockChunk > run.current THEN [run EXCEPT !.phase = "finished", !.start = 0]
            ELSE [run EXCEPT !.phase = "query", !.start = @ + BlockChunk]

\* The query is answered, whole or in halves after the provider found it too large.
QueryAnswered ==
    /\ scan.phase = "query"
    /\ scan' = [scan EXCEPT !.phase = "storing", !.todo = Chunk(scan.start) \intersect Blocks]
    /\ UNCHANGED <<head, checkpoint, stored, timer, gaps, counters>>

\* The query fails, or one of its halves: the loop goes on with the next chunk.
QueryFails ==
    /\ scan.phase = "query"
    /\ Fail
    /\ Advance([scan EXCEPT !.clean = FALSE, !.missed = @ \union (Chunk(scan.start) \intersect Blocks)])
    /\ UNCHANGED <<head, checkpoint, stored, timer, gaps, reindexes, crashes>>

\* The logs of an answer are stored in their order.
NextLog(b) == b \in scan.todo /\ \A other \in scan.todo : b <= other

\* storeEvent of one log, after its block has been asked for; storing it again does
\* nothing.
StoreEvent == \E b \in scan.todo :
    /\ scan.phase = "storing" /\ NextLog(b)
    /\ stored' = [stored EXCEPT ![Contract] = @ \union {b}]
    /\ scan' = [scan EXCEPT !.todo = @ \ {b}]
    /\ UNCHANGED <<head, checkpoint, timer, gaps, counters>>

\* The INSERT, or the reading of the log, fails: a warning.
StoreFails == \E b \in scan.todo :
    /\ scan.phase = "storing" /\ NextLog(b)
    /\ Fail
    /\ scan' = [scan EXCEPT !.todo = @ \ {b}, !.clean = FALSE, !.missed = @ \union {b}]
    /\ UNCHANGED <<head, checkpoint, stored, timer, gaps, reindexes, crashes>>

\* Mutant: the next chunk begins one block too far.
ChunkStoredSkipping ==
    /\ scan.phase = "storing" /\ scan.todo = {}
    /\ LET end == Smaller(scan.start + BlockChunk - 1, scan.current)
       IN  Advance([scan EXCEPT !.last = Larger(@, end), !.start = @ + 1])
    /\ UNCHANGED <<head, checkpoint, stored, timer, gaps, counters>>

ChunkStored ==
    /\ scan.phase = "storing" /\ scan.todo = {}
    /\ Advance([scan EXCEPT !.last = Larger(@, Smaller(scan.start + BlockChunk - 1, scan.current))])
    /\ UNCHANGED <<head, checkpoint, stored, timer, gaps, counters>>

\* indexContract returns and the checkpoint is set; a poll all of whose chunks failed
\* moves it by one block, a reindexing from above the height beyond that.
FinishContract ==
    LET passed == scan.missed \union (scan.current + 1 .. scan.last) IN
    /\ scan.phase = "finished"
    /\ checkpoint' = [checkpoint EXCEPT ![Contract] = scan.last]
    /\ gaps' = [gaps EXCEPT ![Contract] = @ \union ((passed \intersect (1 .. scan.last)) \intersect Blocks)]
    /\ scan' = [scan EXCEPT !.phase = "next", !.i = @ + 1, !.start = 0, !.last = 0, !.missed = {}]
    /\ UNCHANGED <<head, stored, timer, counters>>

\* finally: _running = false.
Done ==
    /\ scan.phase = "next" /\ scan.i \notin DOMAIN Contracts
    /\ scan' = Idle
    /\ UNCHANGED <<head, checkpoint, stored, timer, gaps, counters>>

\* stopIndexer and the end of the process, or its death.
Exit ==
    /\ timer
    /\ crashes < MaxCrashes
    /\ crashes' = crashes + 1
    /\ timer' = FALSE
    /\ scan' = Idle
    /\ UNCHANGED <<head, checkpoint, stored, gaps, failures, reindexes>>

NewBlock ==
    /\ head < MaxBlock
    /\ head' = head + 1
    /\ UNCHANGED <<checkpoint, stored, timer, scan, gaps, counters>>

ScanStep ==
    \/ HeightRead \/ HeightFails \/ BeginPoll \/ BeginReindex \/ QueryAnswered \/ QueryFails
    \/ StoreEvent \/ StoreFails \/ ChunkStored \/ FinishContract \/ Done

Next ==
    \/ Start \/ Poll \/ ScanStep \/ Exit \/ NewBlock
    \/ \E from \in 0 .. MaxBlock + 1 : Reindex(from)

\* Calls of the provider return, an interval fires, a server is started again.
Fairness == WF_vars(Start) /\ WF_vars(Poll) /\ WF_vars(ScanStep)

Spec == Init /\ [][Next]_vars /\ Fairness

-----------------------------------------------------------------------------
TypeOK ==
    /\ head \in 0 .. MaxBlock
    /\ checkpoint \in [ContractSet -> -1 .. MaxBlock + 1]
    /\ stored \in [ContractSet -> SUBSET Blocks]
    /\ timer \in BOOLEAN
    /\ scan \in Scan
    /\ gaps \in [ContractSet -> SUBSET Blocks]
    /\ failures \in 0 .. MaxFailures /\ reindexes \in 0 .. MaxReindexes /\ crashes \in 0 .. MaxCrashes

\* Every block at or below the checkpoint is stored, or was passed over because a
\* query or an INSERT failed, the first run was capped, or a reindexing began beyond
\* the checkpoint: a death between the rows and the checkpoint, a reindexing between
\* two polls or a later chunk that is answered lose nothing more
\* (event-indexer.ts:192, 252, 303).
PassedIsAccounted == \A c \in ContractSet, b \in Blocks :
    b <= checkpoint[c] => b \in stored[c] \union gaps[c]

\* The block up to which the scan of a contract has come, but for what is to be stored.
InContract == scan.phase \in {"query", "storing", "finished"}
Reach ==
    CASE scan.phase = "query"    -> scan.start - 1
      [] scan.phase = "storing"  -> Smaller(scan.start + BlockChunk - 1, scan.current)
      [] scan.phase = "finished" -> scan.current

\* Inductive: what holds between the awaits of a run.  Its blocks above the checkpoint
\* are stored, missed or in hand; those of an undisturbed reindexing are not missed.
ScanInv ==
    /\ InContract => scan.i \in DOMAIN Contracts
    /\ scan.phase \in {"query", "storing"} => scan.start <= scan.current
    /\ scan.phase \in {"idle", "height"} => scan.i = 1
    /\ scan.phase # "storing" => scan.todo = {}
    /\ InContract => \A b \in Blocks :
        checkpoint[Contract] < b /\ b <= Reach => b \in stored[Contract] \union scan.missed \union scan.todo
    /\ scan.kind = "reindex" /\ scan.clean =>
        /\ \A j \in DOMAIN Contracts, b \in Blocks :
            j < scan.i /\ scan.from <= b /\ b <= scan.current => b \in stored[Contracts[j]]
        /\ InContract => \A b \in Blocks :
            scan.from <= b /\ b <= Reach => b \in stored[Contract] \union scan.todo

\* A reindexing none of whose calls failed has stored every block from its first one
\* to the height it read: the gaps are filled (event-indexer.ts:274).
ReindexFillsGaps ==
    [][scan.kind = "reindex" /\ scan.clean /\ Done =>
            \A c \in ContractSet : (scan.from .. scan.current) \intersect Blocks \subseteq stored[c]]_vars

\* Every event is stored in the end, or was passed over for one of the same reasons,
\* whatever deaths and failures came between (event-indexer.ts:437).
EventuallyIndexed == \A c \in ContractSet, b \in Blocks :
    b <= head ~> b \in stored[c] \union gaps[c]
=============================================================================
