--------------------------- MODULE EventIndexerProofs ---------------------------
(***************************************************************************)
(* Proofs about EventIndexer, for any contracts, chunks and heights.       *)
(***************************************************************************)
EXTENDS EventIndexer, TLAPS

IInv == TypeOK /\ PassedIsAccounted /\ ScanInv

LEMMA ContractsFacts ==
    /\ Len(Contracts) \in Nat
    /\ DOMAIN Contracts = 1 .. Len(Contracts)
    /\ \A i \in DOMAIN Contracts : Contracts[i] \in ContractSet
    /\ \A c \in ContractSet : \E i \in DOMAIN Contracts : c = Contracts[i]
  BY IndexerAssumption DEF ContractSet

LEMMA Bounds ==
    /\ MaxBlock \in Nat /\ BlockChunk \in Nat /\ BlockChunk > 0 /\ MaxScan \in Nat
    /\ MaxFailures \in Nat /\ MaxReindexes \in Nat /\ MaxCrashes \in Nat
  BY IndexerAssumption

LEMMA SmallerFacts ==
    ASSUME NEW a \in Int, NEW b \in Int
    PROVE  /\ Smaller(a, b) \in Int /\ Smaller(a, b) <= a /\ Smaller(a, b) <= b
           /\ Smaller(a, b) = a \/ Smaller(a, b) = b
           /\ Larger(a, b) \in Int /\ Larger(a, b) >= a /\ Larger(a, b) >= b
           /\ Larger(a, b) = a \/ Larger(a, b) = b
  BY DEF Smaller, Larger

\* An idle run satisfies every clause.
LEMMA IdleFacts ==
    /\ Idle \in Scan /\ Idle.phase = "idle" /\ Idle.i = 1 /\ Idle.todo = {} /\ Idle.kind = "poll"
  BY Bounds, ContractsFacts DEF Idle, Scan

LEMMA InitInv == Init => IInv
  <1> SUFFICES ASSUME Init PROVE IInv
    OBVIOUS
  <1>1. TypeOK
    <2>1. timer \in BOOLEAN /\ scan \in Scan
      BY IdleFacts DEF Init
    <2>2. head \in 0 .. MaxBlock
      BY Bounds DEF Init
    <2>3. checkpoint \in [ContractSet -> -1 .. MaxBlock + 1]
      <3>1. 0 \in -1 .. MaxBlock + 1
        BY Bounds
      <3>2. QED
        BY <3>1 DEF Init
    <2>4. stored \in [ContractSet -> SUBSET Blocks] /\ gaps \in [ContractSet -> SUBSET Blocks]
      BY DEF Init
    <2>5. failures \in 0 .. MaxFailures /\ reindexes \in 0 .. MaxReindexes /\ crashes \in 0 .. MaxCrashes
      BY Bounds DEF Init
    <2>6. QED
      BY <2>1, <2>2, <2>3, <2>4, <2>5 DEF TypeOK
  <1>2. PassedIsAccounted
    <2>1. ASSUME NEW c \in ContractSet, NEW b \in Blocks, b <= checkpoint[c] PROVE FALSE
      <3>1. checkpoint[c] = 0
        BY DEF Init
      <3>2. QED
        BY <2>1, <3>1, Bounds DEF Blocks
    <2>2. QED
      BY <2>1 DEF PassedIsAccounted
  <1>3. ScanInv
    BY IdleFacts DEF Init, ScanInv, InContract
  <1>4. QED
    BY <1>1, <1>2, <1>3 DEF IInv

-----------------------------------------------------------------------------
(* The beginning and the end of a run.                                     *)

\* A run that is over, or that has not read the height, satisfies ScanInv.
LEMMA FreshInv ==
    ASSUME scan' \in Scan, scan'.phase \in {"idle", "height"}, scan'.i = 1, scan'.todo = {}
    PROVE  ScanInv'
  <1>1. \A j \in DOMAIN Contracts : ~(j < 1)
    BY ContractsFacts
  <1>2. QED
    BY <1>1 DEF ScanInv, InContract

LEMMA BeginFresh ==
    ASSUME NEW kind \in {"poll", "reindex"}, NEW from \in 0 .. MaxBlock + 1, Begin(kind, from)
    PROVE  scan' \in Scan /\ scan'.phase = "height" /\ scan'.i = 1 /\ scan'.todo = {}
  BY IdleFacts DEF Begin, Idle, Scan

LEMMA FromZero == 0 \in 0 .. MaxBlock + 1
  BY Bounds

LEMMA StartInv == ASSUME IInv, Start PROVE IInv'
  <1>1. CASE scan.phase = "idle"
    <2>1. Begin("poll", 0)
      BY <1>1 DEF Start
    <2>2. scan' \in Scan /\ ScanInv'
      BY <2>1, BeginFresh, FreshInv, FromZero
    <2>3. QED
      BY <2>2 DEF Start, counters, IInv, TypeOK, PassedIsAccounted
  <1>2. CASE scan.phase # "idle"
    BY <1>2 DEF Start, counters, IInv, TypeOK, PassedIsAccounted, ScanInv, InContract, Contract, Reach
  <1>3. QED
    BY <1>1, <1>2

LEMMA PollInv == ASSUME IInv, Poll PROVE IInv'
  <1>1. scan' \in Scan /\ ScanInv'
    BY BeginFresh, FreshInv, FromZero DEF Poll
  <1>2. QED
    BY <1>1 DEF Poll, counters, IInv, TypeOK, PassedIsAccounted

LEMMA ReindexInv == ASSUME IInv, NEW from \in 0 .. MaxBlock + 1, Reindex(from) PROVE IInv'
  <1>1. scan' \in Scan /\ ScanInv'
    BY BeginFresh, FreshInv DEF Reindex
  <1>2. reindexes' \in 0 .. MaxReindexes
    BY Bounds DEF Reindex, IInv, TypeOK
  <1>3. QED
    BY <1>1, <1>2 DEF Reindex, IInv, TypeOK, PassedIsAccounted

LEMMA ToIdle == ASSUME scan' = Idle PROVE scan' \in Scan /\ ScanInv'
  BY IdleFacts, FreshInv

LEMMA FailTyped == ASSUME TypeOK, Fail PROVE failures' \in 0 .. MaxFailures
  BY Bounds DEF TypeOK, Fail

LEMMA HeightInv == ASSUME IInv, HeightRead \/ HeightFails PROVE IInv'
  <1>1. CASE HeightRead
    <2>1. /\ scan \in Scan /\ scan.phase = "height" /\ scan.i = 1 /\ scan.todo = {} /\ head \in 0 .. MaxBlock
          /\ scan' = [scan EXCEPT !.phase = "next", !.current = head]
      BY <1>1 DEF HeightRead, IInv, TypeOK, ScanInv
    <2>2. scan' \in Scan /\ scan'.phase = "next" /\ scan'.i = 1 /\ scan'.todo = {}
      BY <2>1 DEF Scan
    <2>3. \A j \in DOMAIN Contracts : ~(j < 1)
      BY ContractsFacts
    <2>4. ScanInv'
      BY <2>2, <2>3 DEF ScanInv, InContract
    <2>5. QED
      BY <1>1, <2>2, <2>4 DEF HeightRead, counters, IInv, TypeOK, PassedIsAccounted
  <1>2. CASE HeightFails
    <2>1. scan' \in Scan /\ ScanInv' /\ failures' \in 0 .. MaxFailures
      BY <1>2, ToIdle, FailTyped DEF HeightFails, IInv
    <2>2. QED
      BY <1>2, <2>1 DEF HeightFails, IInv, TypeOK, PassedIsAccounted
  <1>3. QED
    BY <1>1, <1>2

LEMMA DoneInv == ASSUME IInv, Done PROVE IInv'
  BY ToIdle DEF Done, counters, IInv, TypeOK, PassedIsAccounted

LEMMA ExitInv == ASSUME IInv, Exit PROVE IInv'
  <1>1. crashes' \in 0 .. MaxCrashes
    BY Bounds DEF Exit, IInv, TypeOK
  <1>2. QED
    BY <1>1, ToIdle DEF Exit, IInv, TypeOK, PassedIsAccounted

LEMMA NewBlockInv == ASSUME IInv, NewBlock PROVE IInv'
  <1>1. head' \in 0 .. MaxBlock
    BY Bounds DEF NewBlock, IInv, TypeOK
  <1>2. QED
    BY <1>1 DEF NewBlock, counters, IInv, TypeOK, PassedIsAccounted, ScanInv, InContract, Contract, Reach

-----------------------------------------------------------------------------
(* The scan of one contract.                                               *)

LEMMA ScanTypes ==
    ASSUME IInv
    PROVE  /\ scan \in Scan /\ scan.current \in Nat /\ scan.current <= MaxBlock
           /\ scan.start \in Nat /\ scan.last \in Nat /\ scan.from \in Nat /\ scan.i \in Nat
           /\ \A c \in ContractSet : checkpoint[c] \in Int
           /\ \A b \in Blocks : b \in Nat /\ b > 0 /\ b <= MaxBlock
           /\ InContract => scan.i \in DOMAIN Contracts /\ Contract \in ContractSet
  BY Bounds, ContractsFacts DEF IInv, TypeOK, ScanInv, Scan, Blocks, Contract

\* What an action that stays within a contract, or enters or leaves one, must show:
\* the clauses of ScanInv after the step, for the contract it is at.
LEMMA StepInv ==
    ASSUME IInv, TypeOK', PassedIsAccounted',
           InContract' => scan'.i \in DOMAIN Contracts,
           scan'.phase \in {"query", "storing"} => scan'.start <= scan'.current,
           scan'.phase \in {"query", "storing", "finished", "next"},
           scan'.phase # "storing" => scan'.todo = {},
           InContract' => \A b \in Blocks :
              checkpoint'[Contract'] < b /\ b <= Reach'
                => b \in stored'[Contract'] \union scan'.missed \union scan'.todo,
           scan'.kind = "reindex" /\ scan'.clean =>
              /\ \A j \in DOMAIN Contracts, b \in Blocks :
                   j < scan'.i /\ scan'.from <= b /\ b <= scan'.current => b \in stored'[Contracts[j]]
              /\ InContract' => \A b \in Blocks :
                   scan'.from <= b /\ b <= Reach' => b \in stored'[Contract'] \union scan'.todo
    PROVE  IInv'
  BY DEF IInv, ScanInv

LEMMA EnterFacts ==
    ASSUME IInv, scan.phase = "next", scan.i \in DOMAIN Contracts,
           NEW start \in 0 .. MaxBlock + 1, NEW missed \in SUBSET Blocks, Enter(start, missed)
    PROVE  /\ scan' \in Scan /\ scan'.phase \in {"query", "finished"}
           /\ scan'.phase = "query" => start <= scan.current
           /\ scan'.phase = "finished" => start > scan.current
           /\ scan'.start = start /\ scan'.missed = missed /\ scan'.todo = {}
           /\ UNCHANGED <<scan.current, scan.i, scan.kind, scan.from, scan.clean, Contract>>
           /\ InContract' /\ Reach' < start
  <1>1. scan.todo = {} /\ scan.current \in Nat /\ start \in Nat
    BY ScanTypes, Bounds DEF IInv, ScanInv
  <1>2. scan \in Scan
    BY ScanTypes
  <1>3. /\ scan' \in Scan /\ scan'.phase = IF start > scan.current THEN "finished" ELSE "query"
        /\ scan'.start = start /\ scan'.missed = missed /\ scan'.todo = {}
        /\ UNCHANGED <<scan.current, scan.i, scan.kind, scan.from, scan.clean>>
    BY <1>1, <1>2 DEF Enter, Scan
  <1>4. QED
    BY <1>1, <1>3 DEF InContract, Contract, Reach

LEMMA PollFromTyped ==
    ASSUME IInv, NEW c \in ContractSet
    PROVE  PollFrom(c) \in Nat /\ PollFrom(c) > 0
  <1>1. checkpoint[c] \in Int /\ scan.current \in Nat
    BY ScanTypes
  <1>2. Larger(checkpoint[c], 0) \in Nat
    BY <1>1 DEF Larger
  <1>3. QED
    BY <1>1, <1>2, Bounds DEF PollFrom

LEMMA BeginPollInv == ASSUME IInv, BeginPoll PROVE IInv'
  <1> DEFINE start == PollFrom(Contract)
             missed == (checkpoint[Contract] + 1 .. start - 1) \intersect Blocks
  <1>1. /\ scan.phase = "next" /\ scan.i \in DOMAIN Contracts /\ scan.kind = "poll"
        /\ Contract \in ContractSet /\ scan \in Scan /\ scan.todo = {} /\ scan.current \in Nat
        /\ UNCHANGED <<head, checkpoint, stored, timer, gaps, counters>>
    BY ContractsFacts, ScanTypes DEF BeginPoll, Contract, IInv, ScanInv
  <1>2. start \in Nat /\ checkpoint[Contract] \in Int
    BY <1>1, PollFromTyped, ScanTypes
  <1> HIDE DEF start
  <1>3. CASE start > scan.current
    <2>1. scan' = [scan EXCEPT !.i = @ + 1]
      BY <1>3 DEF BeginPoll, NothingNew, start
    <2>2. scan' \in Scan /\ scan'.phase = "next" /\ scan'.todo = {} /\ scan'.kind = "poll"
      BY <1>1, <2>1, ContractsFacts DEF Scan
    <2>3. TypeOK' /\ PassedIsAccounted' /\ ~InContract'
      BY <1>1, <2>2 DEF IInv, TypeOK, PassedIsAccounted, counters, InContract
    <2>4. QED
      BY <2>2, <2>3, StepInv
  <1>4. CASE ~(start > scan.current)
    <2>1. Enter(start, missed)
      BY <1>4 DEF BeginPoll, NothingNew, start
    <2>2. start \in 0 .. MaxBlock + 1
      BY <1>1, <1>2, <1>4, ScanTypes, Bounds
    <2>3. /\ scan' \in Scan /\ scan'.phase \in {"query", "finished"} /\ scan'.start = start
          /\ scan'.phase = "query" => start <= scan.current
          /\ scan'.missed = missed /\ scan'.todo = {} /\ InContract' /\ Reach' < start
          /\ UNCHANGED <<scan.current, scan.i, scan.kind, scan.from, scan.clean, Contract>>
      BY <1>1, <2>1, <2>2, EnterFacts
    <2>4. TypeOK' /\ PassedIsAccounted'
      BY <1>1, <2>3 DEF IInv, TypeOK, PassedIsAccounted, counters
    <2>5. Reach' \in Int
      BY <2>3, ScanTypes, <1>2 DEF Reach
    <2>6. ASSUME NEW b \in Blocks, checkpoint[Contract] < b, b <= Reach' PROVE b \in missed
      BY <1>2, <2>3, <2>5, <2>6, ScanTypes
    <2> HIDE DEF missed
    <2>7. QED
      BY <1>1, <2>3, <2>4, <2>6, StepInv
  <1>5. QED
    BY <1>3, <1>4

LEMMA BeginReindexInv == ASSUME IInv, BeginReindex PROVE IInv'
  <1> DEFINE c == Contract
             passed == (checkpoint[c] + 1 .. scan.from - 1) \intersect Blocks
  <1>1. /\ scan.phase = "next" /\ scan.i \in DOMAIN Contracts /\ scan.kind = "reindex"
        /\ c \in ContractSet /\ scan.todo = {} /\ Enter(scan.from, {})
        /\ UNCHANGED <<head, stored, timer, counters>>
    BY ContractsFacts DEF BeginReindex, Contract, IInv, ScanInv
  <1>2. scan.from \in 0 .. MaxBlock + 1 /\ checkpoint[c] \in Int /\ scan.from - 1 \in -1 .. MaxBlock + 1
    BY <1>1, ScanTypes, Bounds DEF Scan
  <1>3. /\ scan' \in Scan /\ scan'.phase \in {"query", "finished"} /\ scan'.start = scan.from
        /\ scan'.phase = "query" => scan.from <= scan.current
        /\ scan'.missed = {} /\ scan'.todo = {} /\ InContract' /\ Reach' < scan.from
        /\ UNCHANGED <<scan.current, scan.i, scan.kind, scan.from, scan.clean, Contract>>
    BY <1>1, <1>2, EnterFacts
  <1>4. /\ checkpoint' = [checkpoint EXCEPT ![c] = scan.from - 1]
        /\ gaps' = [gaps EXCEPT ![c] = @ \union passed]
        /\ passed \subseteq Blocks
    BY DEF BeginReindex
  <1>5. TypeOK'
    BY <1>1, <1>2, <1>3, <1>4 DEF IInv, TypeOK, counters
  <1>6. PassedIsAccounted'
    <2> SUFFICES ASSUME NEW d \in ContractSet, NEW b \in Blocks, b <= checkpoint'[d]
                 PROVE  b \in stored'[d] \union gaps'[d]
      BY DEF PassedIsAccounted
    <2>1. CASE d = c
      <3>1. checkpoint'[c] = scan.from - 1 /\ gaps'[c] = gaps[c] \union passed
        BY <1>1, <1>4 DEF IInv, TypeOK
      <3>2. CASE b <= checkpoint[c]
        BY <1>1, <2>1, <3>1, <3>2 DEF IInv, PassedIsAccounted
      <3>3. CASE ~(b <= checkpoint[c])
        <4>1. b \in passed
          BY <1>2, <2>1, <3>1, <3>3, ScanTypes
        <4>2. QED
          BY <2>1, <3>1, <4>1
      <3>4. QED
        BY <3>2, <3>3
    <2>2. CASE d # c
      BY <1>1, <1>4, <2>2 DEF IInv, TypeOK, PassedIsAccounted
    <2>3. QED
      BY <2>1, <2>2
  <1>7. Reach' \in Int /\ checkpoint'[c] = scan.from - 1
    BY <1>1, <1>2, <1>3, <1>4, ScanTypes DEF Reach, IInv, TypeOK
  <1>8. ASSUME NEW b \in Blocks, scan.from <= b \/ scan.from - 1 < b, b <= Reach' PROVE FALSE
    BY <1>2, <1>3, <1>7, <1>8, ScanTypes
  <1>9. scan.clean => \A j \in DOMAIN Contracts, b \in Blocks :
            j < scan.i /\ scan.from <= b /\ b <= scan.current => b \in stored[Contracts[j]]
    BY <1>1 DEF IInv, ScanInv
  <1> HIDE DEF c, passed
  <1>10. QED
    BY <1>1, <1>3, <1>5, <1>6, <1>7, <1>8, <1>9, StepInv DEF c
-----------------------------------------------------------------------------
(* The chunks.                                                             *)

\* The last block of the chunk in hand.
End == Smaller(scan.start + BlockChunk - 1, scan.current)

LEMMA ChunkFacts ==
    ASSUME IInv, scan.phase \in {"query", "storing"}
    PROVE  /\ scan.start <= scan.current /\ End \in Nat /\ End <= scan.current
           /\ End = scan.current \/ End = scan.start + BlockChunk - 1
           /\ Chunk(scan.start) = scan.start .. End
           /\ Contract \in ContractSet /\ InContract /\ scan.i \in DOMAIN Contracts
  BY ScanTypes, Bounds DEF End, Smaller, Chunk, InContract, IInv, ScanInv

\* Advance goes on after the chunk of run, which is that of scan.
LEMMA AdvanceFacts ==
    ASSUME IInv, scan.phase \in {"query", "storing"}, NEW run \in Scan,
           run.start = scan.start, run.current = scan.current, run.i = scan.i, Advance(run)
    PROVE  /\ scan' \in Scan /\ scan'.phase \in {"query", "finished"}
           /\ scan'.phase = "query" => scan'.start <= scan'.current
           /\ scan'.missed = run.missed /\ scan'.todo = run.todo /\ scan'.clean = run.clean
           /\ scan'.from = run.from /\ scan'.kind = run.kind
           /\ scan'.i = scan.i /\ scan'.current = scan.current /\ Contract' = Contract
           /\ InContract' /\ Reach' = End
  <1>1. scan.start \in Nat /\ scan.current \in Nat /\ scan.current <= MaxBlock /\ scan.start <= scan.current
    BY ScanTypes, ChunkFacts
  <1>2. CASE run.start + BlockChunk > run.current
    <2>1. scan' = [run EXCEPT !.phase = "finished", !.start = 0]
      BY <1>2 DEF Advance
    <2>2. /\ scan' \in Scan /\ scan'.phase = "finished"
          /\ scan'.missed = run.missed /\ scan'.todo = run.todo /\ scan'.clean = run.clean
          /\ scan'.from = run.from /\ scan'.kind = run.kind
          /\ scan'.i = scan.i /\ scan'.current = scan.current
      BY <2>1, FromZero DEF Scan
    <2>3. End = scan.current
      BY <1>1, <1>2, Bounds DEF End, Smaller
    <2>4. QED
      BY <2>2, <2>3 DEF InContract, Contract, Reach
  <1>3. CASE ~(run.start + BlockChunk > run.current)
    <2>1. scan' = [run EXCEPT !.phase = "query", !.start = @ + BlockChunk]
      BY <1>3 DEF Advance
    <2>2. run.start + BlockChunk \in 0 .. MaxBlock + 1
      BY <1>1, <1>3, Bounds
    <2>3. /\ scan' \in Scan /\ scan'.phase = "query" /\ scan'.start = scan.start + BlockChunk
          /\ scan'.missed = run.missed /\ scan'.todo = run.todo /\ scan'.clean = run.clean
          /\ scan'.from = run.from /\ scan'.kind = run.kind
          /\ scan'.i = scan.i /\ scan'.current = scan.current
      BY <2>1, <2>2 DEF Scan
    <2>4. End = scan.start + BlockChunk - 1 /\ scan'.start <= scan'.current
      BY <1>1, <1>3, <2>3, Bounds DEF End, Smaller
    <2>5. QED
      BY <1>1, <2>3, <2>4, Bounds DEF InContract, Contract, Reach
  <1>4. QED
    BY <1>2, <1>3

\* The clauses of ScanInv about the contract in hand, before the step.
LEMMA Covered ==
    ASSUME IInv, InContract, NEW b \in Blocks, b <= Reach
    PROVE  /\ checkpoint[Contract] < b => b \in stored[Contract] \union scan.missed \union scan.todo
           /\ scan.kind = "reindex" /\ scan.clean /\ scan.from <= b
                => b \in stored[Contract] \union scan.todo
  BY DEF IInv, ScanInv

LEMMA EarlierContracts ==
    ASSUME IInv, scan.kind = "reindex", scan.clean,
           NEW j \in DOMAIN Contracts, NEW b \in Blocks, j < scan.i, scan.from <= b, b <= scan.current
    PROVE  b \in stored[Contracts[j]]
  BY DEF IInv, ScanInv

LEMMA QueryAnsweredInv == ASSUME IInv, QueryAnswered PROVE IInv'
  <1> DEFINE chunk == Chunk(scan.start) \intersect Blocks
  <1>1. /\ scan.phase = "query" /\ scan \in Scan /\ scan.todo = {} /\ InContract
        /\ scan' = [scan EXCEPT !.phase = "storing", !.todo = chunk]
        /\ UNCHANGED <<head, checkpoint, stored, timer, gaps, counters>>
    BY ScanTypes DEF QueryAnswered, IInv, ScanInv, InContract
  <1>2. /\ scan.start \in Nat /\ scan.start <= scan.current /\ End \in Nat
        /\ Chunk(scan.start) = scan.start .. End
        /\ Contract \in ContractSet /\ scan.i \in DOMAIN Contracts /\ Reach = scan.start - 1
    BY <1>1, ChunkFacts, ScanTypes DEF Reach
  <1>3. chunk \in SUBSET Blocks
    OBVIOUS
  <1>4. \A b \in Blocks : b \in Int /\ (b <= End => b <= Reach \/ b \in chunk)
    BY <1>2, ScanTypes
  <1> HIDE DEF chunk
  <1>5. /\ scan' \in Scan /\ scan'.phase = "storing" /\ scan'.todo = chunk
        /\ UNCHANGED <<scan.start, scan.current, scan.i, scan.kind, scan.from, scan.clean, scan.missed>>
    BY <1>1, <1>3 DEF Scan
  <1>6. InContract' /\ Contract' = Contract /\ Reach' = End
    BY <1>5 DEF InContract, Contract, Reach, End
  <1>7. TypeOK' /\ PassedIsAccounted'
    BY <1>1, <1>5 DEF IInv, TypeOK, PassedIsAccounted, counters
  <1>8. \A b \in Blocks : checkpoint'[Contract'] < b /\ b <= Reach'
           => b \in stored'[Contract'] \union scan'.missed \union scan'.todo
    BY <1>1, <1>4, <1>5, <1>6, Covered
  <1>9. scan'.kind = "reindex" /\ scan'.clean => \A b \in Blocks : scan'.from <= b /\ b <= Reach'
           => b \in stored'[Contract'] \union scan'.todo
    BY <1>1, <1>4, <1>5, <1>6, Covered
  <1>10. scan'.kind = "reindex" /\ scan'.clean => \A j \in DOMAIN Contracts, b \in Blocks :
           j < scan'.i /\ scan'.from <= b /\ b <= scan'.current => b \in stored'[Contracts[j]]
    BY <1>1, <1>5, EarlierContracts
  <1>11. QED
    BY <1>2, <1>5, <1>6, <1>7, <1>8, <1>9, <1>10, StepInv

LEMMA QueryFailsInv == ASSUME IInv, QueryFails PROVE IInv'
  <1> DEFINE chunk == Chunk(scan.start) \intersect Blocks
             run == [scan EXCEPT !.clean = FALSE, !.missed = @ \union chunk]
  <1>1. /\ scan.phase = "query" /\ scan \in Scan /\ scan.todo = {} /\ InContract /\ Advance(run)
        /\ UNCHANGED <<head, checkpoint, stored, timer, gaps, reindexes, crashes>>
        /\ failures' \in 0 .. MaxFailures
    BY ScanTypes, FailTyped DEF QueryFails, IInv, ScanInv, InContract
  <1>2. /\ scan.start \in Nat /\ End \in Nat /\ Chunk(scan.start) = scan.start .. End
        /\ Contract \in ContractSet /\ scan.i \in DOMAIN Contracts /\ Reach = scan.start - 1
    BY <1>1, ChunkFacts, ScanTypes DEF Reach
  <1>3. chunk \in SUBSET Blocks /\ \A b \in Blocks : b \in Int /\ (b <= End => b <= Reach \/ b \in chunk)
    BY <1>2, ScanTypes
  <1> HIDE DEF chunk
  <1>4. /\ run \in Scan /\ run.start = scan.start /\ run.current = scan.current /\ run.i = scan.i
        /\ run.missed = scan.missed \union chunk /\ run.todo = {} /\ run.clean = FALSE
    BY <1>1, <1>3 DEF Scan
  <1> HIDE DEF run
  <1>5. /\ scan' \in Scan /\ scan'.phase \in {"query", "finished"}
        /\ scan'.phase = "query" => scan'.start <= scan'.current
        /\ scan'.missed = scan.missed \union chunk /\ scan'.todo = {} /\ scan'.clean = FALSE
        /\ scan'.i = scan.i /\ Contract' = Contract /\ InContract' /\ Reach' = End
    BY <1>1, <1>4, AdvanceFacts
  <1>6. TypeOK' /\ PassedIsAccounted'
    BY <1>1, <1>5 DEF IInv, TypeOK, PassedIsAccounted
  <1>7. \A b \in Blocks : checkpoint'[Contract'] < b /\ b <= Reach'
           => b \in stored'[Contract'] \union scan'.missed \union scan'.todo
    BY <1>1, <1>3, <1>5, Covered
  <1>8. QED
    BY <1>2, <1>5, <1>6, <1>7, StepInv

LEMMA ChunkStoredInv == ASSUME IInv, ChunkStored PROVE IInv'
  <1> DEFINE last == Larger(scan.last, End)
             run == [scan EXCEPT !.last = last]
  <1>1. /\ scan.phase = "storing" /\ scan \in Scan /\ scan.todo = {} /\ InContract /\ Advance(run)
        /\ UNCHANGED <<head, checkpoint, stored, timer, gaps, counters>>
    BY ScanTypes DEF ChunkStored, InContract, End
  <1>2. /\ End \in Nat /\ End <= MaxBlock /\ Reach = End
        /\ Contract \in ContractSet /\ scan.i \in DOMAIN Contracts
    BY <1>1, ChunkFacts, ScanTypes, Bounds DEF Reach, End
  <1>3. last \in 0 .. MaxBlock + 1
    BY <1>1, <1>2, Bounds DEF Larger, Scan
  <1> HIDE DEF last
  <1>4. /\ run \in Scan /\ run.start = scan.start /\ run.current = scan.current /\ run.i = scan.i
        /\ run.missed = scan.missed /\ run.todo = {} /\ run.clean = scan.clean
        /\ run.kind = scan.kind /\ run.from = scan.from
    BY <1>1, <1>3 DEF Scan
  <1> HIDE DEF run
  <1>5. /\ scan' \in Scan /\ scan'.phase \in {"query", "finished"}
        /\ scan'.phase = "query" => scan'.start <= scan'.current
        /\ scan'.missed = scan.missed /\ scan'.todo = {} /\ scan'.clean = scan.clean
        /\ scan'.from = scan.from /\ scan'.kind = scan.kind /\ scan'.current = scan.current
        /\ scan'.i = scan.i /\ Contract' = Contract /\ InContract' /\ Reach' = Reach
    BY <1>1, <1>2, <1>4, AdvanceFacts
  <1>6. TypeOK' /\ PassedIsAccounted'
    BY <1>1, <1>5 DEF IInv, TypeOK, PassedIsAccounted, counters
  <1>7. \A b \in Blocks : checkpoint'[Contract'] < b /\ b <= Reach'
           => b \in stored'[Contract'] \union scan'.missed \union scan'.todo
    BY <1>1, <1>5, Covered
  <1>8. scan'.kind = "reindex" /\ scan'.clean => \A b \in Blocks : scan'.from <= b /\ b <= Reach'
           => b \in stored'[Contract'] \union scan'.todo
    BY <1>1, <1>5, Covered
  <1>9. scan'.kind = "reindex" /\ scan'.clean => \A j \in DOMAIN Contracts, b \in Blocks :
           j < scan'.i /\ scan'.from <= b /\ b <= scan'.current => b \in stored'[Contracts[j]]
    BY <1>1, <1>5, EarlierContracts
  <1>10. QED
    BY <1>2, <1>5, <1>6, <1>7, <1>8, <1>9, StepInv
LEMMA NextLogFacts ==
    ASSUME IInv, scan.phase = "storing", NEW b \in scan.todo
    PROVE  /\ b \in Blocks /\ scan \in Scan /\ InContract /\ Contract \in ContractSet
           /\ scan.i \in DOMAIN Contracts /\ scan.start <= scan.current
  BY ScanTypes, ChunkFacts DEF Scan, InContract

LEMMA StoreEventInv == ASSUME IInv, StoreEvent PROVE IInv'
  <1>1. PICK b \in scan.todo :
          /\ scan.phase = "storing"
          /\ stored' = [stored EXCEPT ![Contract] = @ \union {b}]
          /\ scan' = [scan EXCEPT !.todo = @ \ {b}]
          /\ UNCHANGED <<head, checkpoint, timer, gaps, counters>>
    BY DEF StoreEvent
  <1>2. /\ b \in Blocks /\ scan \in Scan /\ InContract /\ Contract \in ContractSet
        /\ scan.i \in DOMAIN Contracts /\ scan.start <= scan.current
    BY <1>1, NextLogFacts
  <1>3. /\ scan' \in Scan /\ scan'.phase = "storing" /\ scan'.todo = scan.todo \ {b}
        /\ UNCHANGED <<scan.start, scan.current, scan.i, scan.kind, scan.from, scan.clean, scan.missed>>
    BY <1>1, <1>2 DEF Scan
  <1>4. InContract' /\ Contract' = Contract /\ Reach' = Reach
    BY <1>1, <1>3 DEF InContract, Contract, Reach
  <1>5. /\ stored' \in [ContractSet -> SUBSET Blocks]
        /\ stored'[Contract] = stored[Contract] \union {b}
        /\ \A c \in ContractSet : stored[c] \subseteq stored'[c]
    BY <1>1, <1>2 DEF IInv, TypeOK
  <1>6. TypeOK'
    BY <1>1, <1>3, <1>5 DEF IInv, TypeOK, counters
  <1>7. PassedIsAccounted'
    BY <1>1, <1>5 DEF IInv, PassedIsAccounted
  <1>8. \A a \in Blocks : checkpoint'[Contract'] < a /\ a <= Reach'
           => a \in stored'[Contract'] \union scan'.missed \union scan'.todo
    BY <1>1, <1>2, <1>3, <1>4, <1>5, Covered
  <1>9. scan'.kind = "reindex" /\ scan'.clean => \A a \in Blocks : scan'.from <= a /\ a <= Reach'
           => a \in stored'[Contract'] \union scan'.todo
    BY <1>1, <1>2, <1>3, <1>4, <1>5, Covered
  <1>10. scan'.kind = "reindex" /\ scan'.clean => \A j \in DOMAIN Contracts, a \in Blocks :
           j < scan'.i /\ scan'.from <= a /\ a <= scan'.current => a \in stored'[Contracts[j]]
    BY <1>3, <1>5, EarlierContracts, ContractsFacts
  <1>11. QED
    BY <1>2, <1>3, <1>4, <1>6, <1>7, <1>8, <1>9, <1>10, StepInv

LEMMA StoreFailsInv == ASSUME IInv, StoreFails PROVE IInv'
  <1>1. PICK b \in scan.todo :
          /\ scan.phase = "storing" /\ Fail
          /\ scan' = [scan EXCEPT !.todo = @ \ {b}, !.clean = FALSE, !.missed = @ \union {b}]
          /\ UNCHANGED <<head, checkpoint, stored, timer, gaps, reindexes, crashes>>
    BY DEF StoreFails
  <1>2. /\ b \in Blocks /\ scan \in Scan /\ InContract /\ Contract \in ContractSet
        /\ scan.i \in DOMAIN Contracts /\ scan.start <= scan.current /\ failures' \in 0 .. MaxFailures
    BY <1>1, NextLogFacts, FailTyped DEF IInv
  <1>3. /\ scan' \in Scan /\ scan'.phase = "storing" /\ scan'.todo = scan.todo \ {b}
        /\ scan'.missed = scan.missed \union {b} /\ scan'.clean = FALSE
        /\ UNCHANGED <<scan.start, scan.current, scan.i>>
    BY <1>1, <1>2 DEF Scan
  <1>4. InContract' /\ Contract' = Contract /\ Reach' = Reach
    BY <1>1, <1>3 DEF InContract, Contract, Reach
  <1>5. TypeOK' /\ PassedIsAccounted'
    BY <1>1, <1>2, <1>3 DEF IInv, TypeOK, PassedIsAccounted
  <1>6. \A a \in Blocks : checkpoint'[Contract'] < a /\ a <= Reach'
           => a \in stored'[Contract'] \union scan'.missed \union scan'.todo
    BY <1>1, <1>2, <1>3, <1>4, Covered
  <1>7. QED
    BY <1>2, <1>3, <1>4, <1>5, <1>6, StepInv

LEMMA FinishContractInv == ASSUME IInv, FinishContract PROVE IInv'
  <1> DEFINE c == Contract
             passed == scan.missed \union (scan.current + 1 .. scan.last)
             added == (passed \intersect (1 .. scan.last)) \intersect Blocks
  <1>1. /\ scan.phase = "finished" /\ InContract /\ c \in ContractSet /\ scan.i \in DOMAIN Contracts
        /\ scan \in Scan /\ scan.todo = {} /\ Reach = scan.current
        /\ scan.last \in 0 .. MaxBlock + 1 /\ scan.last \in Nat /\ scan.current \in Nat
        /\ checkpoint' = [checkpoint EXCEPT ![c] = scan.last]
        /\ gaps' = [gaps EXCEPT ![c] = @ \union added]
        /\ scan' = [scan EXCEPT !.phase = "next", !.i = @ + 1, !.start = 0, !.last = 0, !.missed = {}]
        /\ UNCHANGED <<head, stored, timer, counters>>
    BY ScanTypes DEF FinishContract, InContract, Reach, Scan, IInv, ScanInv
  <1>2. /\ scan' \in Scan /\ scan'.phase = "next" /\ scan'.todo = {} /\ scan'.i = scan.i + 1
        /\ UNCHANGED <<scan.kind, scan.from, scan.clean, scan.current>>
    <2>1. scan.i + 1 \in 1 .. Len(Contracts) + 1
      BY <1>1, ContractsFacts
    <2>2. QED
      BY <1>1, <2>1, FromZero DEF Scan
  <1>3. checkpoint' \in [ContractSet -> -1 .. MaxBlock + 1] /\ checkpoint'[c] = scan.last
    <2>1. scan.last \in -1 .. MaxBlock + 1
      BY <1>1, Bounds
    <2>2. QED
      BY <1>1, <2>1 DEF IInv, TypeOK
  <1>4. gaps' \in [ContractSet -> SUBSET Blocks] /\ gaps'[c] = gaps[c] \union added
    BY <1>1 DEF IInv, TypeOK
  <1>5. TypeOK'
    BY <1>1, <1>2, <1>3, <1>4 DEF IInv, TypeOK, counters
  <1>6. \A b \in Blocks : b <= scan.last => b \in stored[c] \union gaps[c] \union added
    <2> SUFFICES ASSUME NEW b \in Blocks, b <= scan.last, b \notin stored[c] \union gaps[c]
                 PROVE  b \in added
      OBVIOUS
    <2>1. b \in Nat /\ b > 0 /\ checkpoint[c] \in Int
      BY <1>1, ScanTypes
    <2>2. checkpoint[c] < b
      BY <1>1, <2>1 DEF IInv, PassedIsAccounted
    <2>3. b <= scan.current => b \in scan.missed
      BY <1>1, <2>2, Covered
    <2>4. QED
      BY <1>1, <2>1, <2>3
  <1> HIDE DEF added
  <1>7. PassedIsAccounted'
    <2> SUFFICES ASSUME NEW d \in ContractSet, NEW b \in Blocks, b <= checkpoint'[d]
                 PROVE  b \in stored'[d] \union gaps'[d]
      BY DEF PassedIsAccounted
    <2>1. CASE d = c
      BY <1>1, <1>3, <1>4, <1>6, <2>1
    <2>2. CASE d # c
      BY <1>1, <2>2 DEF IInv, TypeOK, PassedIsAccounted
    <2>3. QED
      BY <2>1, <2>2
  <1>8. ASSUME scan.kind = "reindex", scan.clean, NEW j \in DOMAIN Contracts, NEW b \in Blocks,
               j < scan.i + 1, scan.from <= b, b <= scan.current
        PROVE  b \in stored[Contracts[j]]
    <2>1. CASE j < scan.i
      BY <1>8, <2>1, EarlierContracts
    <2>2. CASE j = scan.i
      BY <1>1, <1>8, <2>2, Covered DEF Contract
    <2>3. QED
      BY <1>1, <1>8, <2>1, <2>2, ContractsFacts
  <1>9. ~InContract' /\ stored' = stored
    BY <1>1, <1>2 DEF InContract
  <1>10. QED
    BY <1>2, <1>5, <1>7, <1>8, <1>9, StepInv

-----------------------------------------------------------------------------
(* The invariant and what follows from it.                                 *)

LEMMA StepsInv == IInv /\ [Next]_vars => IInv'
  <1> SUFFICES ASSUME IInv, [Next]_vars PROVE IInv'
    OBVIOUS
  <1>1. CASE Start
    BY <1>1, StartInv
  <1>2. CASE Poll
    BY <1>2, PollInv
  <1>3. CASE ScanStep
    BY <1>3, HeightInv, BeginPollInv, BeginReindexInv, QueryAnsweredInv, QueryFailsInv, StoreEventInv,
       StoreFailsInv, ChunkStoredInv, FinishContractInv, DoneInv DEF ScanStep
  <1>4. CASE Exit
    BY <1>4, ExitInv
  <1>5. CASE NewBlock
    BY <1>5, NewBlockInv
  <1>6. CASE \E from \in 0 .. MaxBlock + 1 : Reindex(from)
    BY <1>6, ReindexInv
  <1>7. CASE UNCHANGED vars
    BY <1>7 DEF vars, counters, IInv, TypeOK, PassedIsAccounted, ScanInv, InContract, Contract, Reach
  <1>8. QED
    BY <1>1, <1>2, <1>3, <1>4, <1>5, <1>6, <1>7 DEF Next

LEMMA IInvHolds == Spec => []IInv
  BY InitInv, StepsInv, PTL DEF Spec

\* The variables keep their types.
THEOREM TypeCorrect == Spec => []TypeOK
  <1>1. IInv => TypeOK
    BY DEF IInv
  <1>2. QED
    BY <1>1, IInvHolds, PTL

\* A block at or below the checkpoint of a contract is stored, or was passed over for
\* a reason the code logs, for any chain and chunk and any deaths and failures.
THEOREM PassedAccounted == Spec => []PassedIsAccounted
  <1>1. IInv => PassedIsAccounted
    BY DEF IInv
  <1>2. QED
    BY <1>1, IInvHolds, PTL

\* A reindexing that ends with none of its calls having failed has filled the gaps
\* of every contract.
THEOREM ReindexComplete == Spec => ReindexFillsGaps
  <1>1. ASSUME IInv, scan.kind = "reindex", scan.clean, Done, NEW c \in ContractSet
        PROVE  (scan.from .. scan.current) \intersect Blocks \subseteq stored[c]
    <2>1. PICK j \in DOMAIN Contracts : c = Contracts[j]
      BY ContractsFacts
    <2>2. scan.i = Len(Contracts) + 1
      BY <1>1, ContractsFacts, ScanTypes DEF Done, Scan
    <2>3. j < scan.i
      BY <2>2, ContractsFacts
    <2>4. ASSUME NEW b \in (scan.from .. scan.current) \intersect Blocks PROVE b \in stored[c]
      <3>1. b \in Blocks /\ scan.from <= b /\ b <= scan.current
        BY <2>4
      <3>2. QED
        BY <1>1, <2>1, <2>3, <3>1, EarlierContracts
    <2>5. QED
      BY <2>4
  <1>2. IInv => [scan.kind = "reindex" /\ scan.clean /\ Done =>
            \A c \in ContractSet : (scan.from .. scan.current) \intersect Blocks \subseteq stored[c]]_vars
    BY <1>1
  <1>3. QED
    BY <1>2, IInvHolds, PTL DEF ReindexFillsGaps
==============================================================================
