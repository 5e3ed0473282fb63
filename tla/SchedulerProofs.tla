---------------------------- MODULE SchedulerProofs ----------------------------
(***************************************************************************)
(* The safety properties of Scheduler, for every set of jobs, types and    *)
(* overlapping ticks and every value of the options.  Between two awaits a *)
(* tick works on a table of rows of its own making (the row of the handler *)
(* that ended is settled or pending again), so the argument is about       *)
(* Proceed from any table that keeps the invariant but for the tick itself.*)
(***************************************************************************)
EXTENDS Scheduler, SequenceTheorems, TLAPS

\* Attempts and starts agree, and a row never inserted was never started.
Counted(table) == \A j \in Jobs :
    /\ table[j].status \notin {"none", "deleted"} => table[j].attempts = starts[j]
    /\ table[j].status = "none" => starts[j] = 0
    /\ table[j].status = "failed" => starts[j] >= MaxAttempts

\* The rows a tick holds exist and were read with at most the present count.
Known(table, todo) == \A i \in DOMAIN todo :
    /\ table[todo[i].id].status # "none"
    /\ todo[i].attempts <= starts[todo[i].id]

\* What tick u holds, with the handler of its first row started since.
HeldBy(table, u) ==
    /\ Known(table, ticks[u].todo)
    /\ ticks[u].todo # <<>> => Head(ticks[u].todo).attempts < starts[Head(ticks[u].todo).id]

Running(table, among) == \A j \in Jobs :
    table[j].status = "running" => j \in orphans \/ \E u \in among : Executes(u, j)

\* The inductive invariant.
IInv ==
    /\ TypeOK
    /\ Counted(jobs)
    /\ \A u \in Ticks : HeldBy(jobs, u)
    /\ Running(jobs, Ticks)

-----------------------------------------------------------------------------
\* The rows from the k-th on.
LEMMA Suffix ==
    ASSUME NEW S, NEW s \in Seq(S), NEW k \in 1 .. Len(s)
    PROVE  LET r == SubSeq(s, k, Len(s)) IN
           /\ r \in Seq(S) /\ r # <<>>
           /\ Head(r) = s[k] /\ Head(r) \in S
           /\ DOMAIN r = 1 .. Len(s) - k + 1
           /\ \A i \in DOMAIN r : r[i] = s[i + k - 1] /\ i + k - 1 \in DOMAIN s
<1> DEFINE r == SubSeq(s, k, Len(s))
<1>1. Len(s) \in Nat /\ k \in Nat /\ k >= 1 /\ k <= Len(s) /\ DOMAIN s = 1 .. Len(s)
  OBVIOUS
<1>2. r \in Seq(S) /\ Len(r) = Len(s) - k + 1 /\ \A i \in 1 .. Len(s) - k + 1 : r[i] = s[i + k - 1]
  BY <1>1
<1> HIDE DEF r
<1>3. DOMAIN r = 1 .. Len(s) - k + 1 /\ 1 \in DOMAIN r
  BY <1>1, <1>2
<1>4. r # <<>> /\ Head(r) = r[1] /\ r[1] = s[k] /\ s[k] \in S
  BY <1>1, <1>2, <1>3
<1>5. \A i \in DOMAIN r : r[i] = s[i + k - 1] /\ i + k - 1 \in DOMAIN s
  BY <1>1, <1>2, <1>3
<1> QED
  BY <1>2, <1>3, <1>4, <1>5 DEF r

\* The fields of the rows in a sequence of them.
LEMMA SnapshotFields ==
    ASSUME NEW s \in Seq(Snapshot)
    PROVE  /\ \A i \in DOMAIN s : s[i] \in Snapshot /\ s[i].id \in Jobs /\ s[i].attempts \in Nat
           /\ s # <<>> => Head(s) = s[1] /\ 1 \in DOMAIN s /\ Head(s).id \in Jobs /\ Head(s).attempts \in Nat
<1>1. \A i \in DOMAIN s : s[i] \in Snapshot
  OBVIOUS
<1>2. \A i \in DOMAIN s : s[i].id \in Jobs /\ s[i].attempts \in Nat
  BY <1>1 DEF Snapshot
<1>3. s # <<>> => Head(s) = s[1] /\ 1 \in DOMAIN s
  OBVIOUS
<1> QED
  BY <1>1, <1>2, <1>3

-----------------------------------------------------------------------------
(* One step of a tick, from any table.                                     *)

\* What the step may rely on: the invariant but for tick t.
Between(t, table, todo) ==
    /\ TypeOK
    /\ table \in [Jobs -> Row]
    /\ Counted(table)
    /\ Known(table, todo)
    /\ \A u \in Ticks \ {t} : HeldBy(table, u)
    /\ Running(table, Ticks \ {t})

LEMMA StatusSets ==
    /\ Settled \subseteq Statuses
    /\ {"none", "pending", "running", "deleted"} \subseteq Statuses
    /\ Settled = {"completed", "failed", "cancelled"}
BY DEF Settled, Statuses

LEMMA RestartedRow ==
    ASSUME NEW r \in Row
    PROVE  [r EXCEPT !.status = "running", !.attempts = @ + 1] \in Row
<1>1. r.attempts + 1 \in Nat
  BY DEF Row
<1>2. [[r EXCEPT !.status = "running"] EXCEPT !.attempts = r.attempts + 1] \in Row
  <2>1. [r EXCEPT !.status = "running"] \in Row
    BY StatusSets DEF Row
  <2> QED
    BY <1>1, <2>1 DEF Row
<1> QED
  BY <1>2 DEF Row

\* The tick ends its loop: settled rows are deleted.
LEMMA LoopEnds ==
    ASSUME NEW t \in Ticks, NEW table, NEW todo, NEW started \in Times,
           Between(t, table, todo),
           jobs' = DeleteOld(table, started), starts' = starts,
           ticks' = [ticks EXCEPT ![t] = [Idle EXCEPT !.phase = "after"]],
           UNCHANGED <<now, recurring, handlers, running, orphans, crashes>>
    PROVE  IInv'
<1>1. TypeOK /\ table \in [Jobs -> Row]
  BY DEF Between
<1>2. \A j \in Jobs : \/ jobs'[j] = table[j]
                      \/ table[j].status \in Settled /\ jobs'[j] = [table[j] EXCEPT !.status = "deleted"]
  BY DEF DeleteOld
<1>3. jobs' \in [Jobs -> Row]
  <2>1. ASSUME NEW j \in Jobs PROVE jobs'[j] \in Row
    BY <1>1, <1>2, StatusSets DEF Row
  <2>2. jobs' = [j \in Jobs |-> jobs'[j]]
    BY DEF DeleteOld
  <2> QED
    BY <2>1, <2>2
<1>4. /\ ticks' \in [Ticks -> Tick]
      /\ ticks'[t].todo = <<>> /\ ticks'[t].phase = "after"
      /\ \A u \in Ticks \ {t} : ticks'[u] = ticks[u]
  <2> DEFINE over == [Idle EXCEPT !.phase = "after"]
  <2>0. over = [phase |-> "after", now |-> 0, todo |-> <<>>, pos |-> 0]
    BY DEF Idle
  <2> HIDE DEF over
  <2>1. over \in Tick /\ over.todo = <<>> /\ over.phase = "after"
    <3>1. 0 \in Times /\ <<>> \in Seq(Snapshot)
      BY SchedulerAssumption DEF Times
    <3> QED
      BY <2>0, <3>1 DEF Tick
  <2>2. ticks \in [Ticks -> Tick]
    BY <1>1 DEF TypeOK
  <2>3. ticks' = [ticks EXCEPT ![t] = over]
    BY DEF over
  <2> QED
    BY <2>1, <2>2, <2>3
<1>5. TypeOK'
  <2>1. \A u \in Ticks : /\ ticks'[u].phase = "jobs" <=> ticks'[u].todo # <<>>
                         /\ ticks'[u].phase = "recurring" => ticks'[u].pos \in DOMAIN recurring'
    BY <1>1, <1>4 DEF TypeOK
  <2> QED
    BY <1>1, <1>3, <1>4, <2>1 DEF TypeOK
<1>6. Counted(jobs)'
  <2> SUFFICES ASSUME NEW j \in Jobs
               PROVE  /\ jobs'[j].status \notin {"none", "deleted"} => jobs'[j].attempts = starts'[j]
                      /\ jobs'[j].status = "none" => starts'[j] = 0
                      /\ jobs'[j].status = "failed" => starts'[j] >= MaxAttempts
    BY DEF Counted
  <2>1. CASE jobs'[j] = table[j]
    BY <2>1 DEF Between, Counted
  <2>2. CASE jobs'[j] # table[j]
    <3>1. jobs'[j].status = "deleted"
      BY <1>1, <1>2, <2>2 DEF Row
    <3> QED
      BY <3>1
  <2> QED
    BY <2>1, <2>2
<1>7. \A u \in Ticks : HeldBy(jobs, u)'
  <2>1. \A j \in Jobs : table[j].status # "none" => jobs'[j].status # "none"
    BY <1>1, <1>2 DEF Row, Settled
  <2>2. HeldBy(jobs, t)'
    BY <1>4 DEF HeldBy, Known
  <2>3. ASSUME NEW u \in Ticks \ {t} PROVE HeldBy(jobs, u)'
    <3>1. HeldBy(table, u) /\ ticks'[u] = ticks[u]
      BY <1>4 DEF Between
    <3>2. \A i \in DOMAIN ticks[u].todo : ticks[u].todo[i].id \in Jobs
      <4>1. ticks[u].todo \in Seq(Snapshot)
        BY <1>1 DEF TypeOK, Tick
      <4> QED
        BY <4>1, SnapshotFields
    <3> QED
      BY <3>1, <3>2, <2>1 DEF HeldBy, Known
  <2> QED
    BY <2>2, <2>3
<1>8. Running(jobs, Ticks)'
  <2> SUFFICES ASSUME NEW j \in Jobs, jobs'[j].status = "running"
               PROVE  j \in orphans' \/ \E u \in Ticks : Executes(u, j)'
    BY DEF Running
  <2>1. table[j].status = "running"
    BY <1>1, <1>2 DEF Row
  <2>2. j \in orphans \/ \E u \in Ticks \ {t} : Executes(u, j)
    BY <2>1 DEF Between, Running
  <2> QED
    BY <2>2, <1>4 DEF Executes
<1> QED
  BY <1>5, <1>6, <1>7, <1>8 DEF IInv

\* The tick starts the handler of the k-th row.
LEMMA JobStarts ==
    ASSUME NEW t \in Ticks, NEW table, NEW todo \in Seq(Snapshot), NEW started \in Times,
           Between(t, table, todo), NEW k \in 1 .. Len(todo),
           jobs' = MarkRunning(table, todo[k]),
           starts' = [starts EXCEPT ![todo[k].id] = @ + 1],
           ticks' = [ticks EXCEPT ![t] =
                [phase |-> "jobs", now |-> started, todo |-> SubSeq(todo, k, Len(todo)), pos |-> 0]],
           UNCHANGED <<now, recurring, handlers, running, orphans, crashes>>
    PROVE  IInv'
<1> DEFINE row == todo[k]
           rest == SubSeq(todo, k, Len(todo))
           id == row.id
<1>1. TypeOK /\ table \in [Jobs -> Row] /\ starts \in [Jobs -> Nat]
  BY DEF Between, TypeOK
<1>2. /\ rest \in Seq(Snapshot) /\ rest # <<>> /\ Head(rest) = row /\ row \in Snapshot
      /\ \A i \in DOMAIN rest : i + k - 1 \in DOMAIN todo /\ rest[i] = todo[i + k - 1]
  BY Suffix
<1>3. id \in Jobs /\ row.attempts \in Nat
  BY <1>2 DEF Snapshot
<1>4. /\ starts' \in [Jobs -> Nat] /\ starts'[id] = starts[id] + 1
      /\ \A j \in Jobs : starts'[j] >= starts[j] /\ (j # id => starts'[j] = starts[j])
  BY <1>1, <1>3
<1>5. k \in DOMAIN todo /\ table[id].status # "none" /\ row.attempts <= starts[id]
  BY DEF Between, Known
<1>6. /\ \A j \in Jobs : j # id => jobs'[j] = table[j]
      /\ \/ table[id].status = "deleted" /\ jobs'[id] = table[id]
         \/ /\ table[id].status # "deleted"
            /\ jobs'[id] = [table[id] EXCEPT !.status = "running", !.attempts = @ + 1]
      /\ jobs' \in [Jobs -> Row]
  <2>1. jobs' = IF table[id].status = "deleted" THEN table
                ELSE [table EXCEPT ![id] = [table[id] EXCEPT !.status = "running", !.attempts = @ + 1]]
    BY <1>1, <1>3 DEF MarkRunning
  <2>2. [table[id] EXCEPT !.status = "running", !.attempts = @ + 1] \in Row
    BY <1>1, <1>3, RestartedRow
  <2> HIDE DEF id
  <2> QED
    BY <1>1, <1>3, <2>1, <2>2
<1> DEFINE tick == [phase |-> "jobs", now |-> started, todo |-> rest, pos |-> 0]
<1>7. tick \in Tick /\ tick.todo = rest /\ tick.phase = "jobs"
  BY <1>2 DEF Tick
<1>8. /\ ticks' \in [Ticks -> Tick] /\ ticks'[t].todo = rest /\ ticks'[t].phase = "jobs"
      /\ \A u \in Ticks \ {t} : ticks'[u] = ticks[u]
  <2>1. ticks \in [Ticks -> Tick] /\ ticks' = [ticks EXCEPT ![t] = tick]
    BY <1>1 DEF TypeOK
  <2> HIDE DEF tick
  <2> QED
    BY <1>7, <2>1
<1> HIDE DEF rest, tick, row, id
<1>9. TypeOK'
  <2>1. \A u \in Ticks : /\ ticks'[u].phase = "jobs" <=> ticks'[u].todo # <<>>
                         /\ ticks'[u].phase = "recurring" => ticks'[u].pos \in DOMAIN recurring'
    BY <1>1, <1>2, <1>8 DEF TypeOK
  <2> QED
    BY <1>1, <1>4, <1>6, <1>8, <2>1 DEF TypeOK
<1>10. Counted(jobs)'
  <2>1. Counted(table)
    BY DEF Between
  <2>2. ASSUME NEW j \in Jobs, j # id
        PROVE  /\ jobs'[j].status \notin {"none", "deleted"} => jobs'[j].attempts = starts'[j]
               /\ jobs'[j].status = "none" => starts'[j] = 0
               /\ jobs'[j].status = "failed" => starts'[j] >= MaxAttempts
    BY <2>1, <2>2, <1>4, <1>6 DEF Counted
  <2>3. /\ jobs'[id].status \notin {"none", "deleted"} => jobs'[id].attempts = starts'[id]
        /\ jobs'[id].status = "none" => starts'[id] = 0
        /\ jobs'[id].status = "failed" => starts'[id] >= MaxAttempts
    <3>1. table[id] \in Row /\ (table[id].status # "deleted" => table[id].attempts = starts[id])
      BY <2>1, <1>1, <1>3, <1>5 DEF Counted
    <3>2. CASE table[id].status = "deleted"
      BY <3>2, <1>6
    <3>3. CASE table[id].status # "deleted"
      <4>1. jobs'[id].status = "running" /\ jobs'[id].attempts = table[id].attempts + 1
        BY <3>1, <3>3, <1>6 DEF Row
      <4> QED
        BY <4>1, <3>1, <3>3, <1>4
    <3> QED
      BY <3>2, <3>3
  <2> QED
    BY <2>2, <2>3 DEF Counted
<1>11. \A u \in Ticks : HeldBy(jobs, u)'
  <2>1. \A j \in Jobs : table[j].status # "none" => jobs'[j].status # "none"
    BY <1>1, <1>3, <1>6 DEF Row
  <2>2. HeldBy(jobs, t)'
    <3>1. \A i \in DOMAIN rest :
            /\ rest[i].id \in Jobs /\ rest[i].attempts \in Nat
            /\ table[rest[i].id].status # "none" /\ rest[i].attempts <= starts[rest[i].id]
      <4>1. Known(table, todo) /\ \A i \in DOMAIN todo : todo[i] \in Snapshot
        BY DEF Between
      <4> QED
        BY <4>1, <1>2 DEF Known, Snapshot
    <3>2. Known(jobs, rest)'
      <4>1. \A i \in DOMAIN rest :
              jobs'[rest[i].id].status # "none" /\ rest[i].attempts <= starts'[rest[i].id]
        BY <3>1, <2>1, <1>1, <1>4
      <4> QED
        BY <4>1 DEF Known, rest
    <3>3. Head(rest).attempts < starts'[Head(rest).id]
      <4>1. row.attempts < starts'[id]
        BY <1>1, <1>3, <1>4, <1>5
      <4> QED
        BY <4>1, <1>2 DEF id
    <3> QED
      BY <3>2, <3>3, <1>8 DEF HeldBy, rest, Known
  <2>3. ASSUME NEW u \in Ticks \ {t} PROVE HeldBy(jobs, u)'
    <3>1. HeldBy(table, u) /\ ticks'[u] = ticks[u] /\ ticks[u].todo \in Seq(Snapshot)
      BY <1>1, <1>8 DEF Between, TypeOK, Tick
    <3>2. \A i \in DOMAIN ticks[u].todo : ticks[u].todo[i].id \in Jobs /\ ticks[u].todo[i].attempts \in Nat
      BY <3>1, SnapshotFields
    <3>3. ticks[u].todo # <<>> => Head(ticks[u].todo).id \in Jobs /\ Head(ticks[u].todo).attempts \in Nat
      BY <3>1, SnapshotFields
    <3>4. Known(jobs, ticks[u].todo)'
      <4>1. \A i \in DOMAIN ticks[u].todo :
              /\ jobs'[ticks[u].todo[i].id].status # "none"
              /\ ticks[u].todo[i].attempts <= starts'[ticks[u].todo[i].id]
        <5> SUFFICES ASSUME NEW i \in DOMAIN ticks[u].todo
                     PROVE  /\ jobs'[ticks[u].todo[i].id].status # "none"
                            /\ ticks[u].todo[i].attempts <= starts'[ticks[u].todo[i].id]
          OBVIOUS
        <5> DEFINE seen == ticks[u].todo[i]
        <5>1. seen.id \in Jobs /\ seen.attempts \in Nat
          BY <3>2
        <5>2. table[seen.id].status # "none" /\ seen.attempts <= starts[seen.id]
          BY <3>1 DEF HeldBy, Known
        <5> HIDE DEF seen
        <5>3. jobs'[seen.id].status # "none" /\ seen.attempts <= starts'[seen.id]
          BY <5>1, <5>2, <2>1, <1>1, <1>4
        <5> QED
          BY <5>3 DEF seen
      <4> QED
        BY <4>1, <3>1 DEF Known
    <3>5. ticks[u].todo # <<>> => Head(ticks[u].todo).attempts < starts'[Head(ticks[u].todo).id]
      BY <3>1, <3>3, <1>1, <1>4 DEF HeldBy
    <3> QED
      BY <3>1, <3>4, <3>5 DEF HeldBy
  <2> QED
    BY <2>2, <2>3
<1>12. Running(jobs, Ticks)'
  <2> SUFFICES ASSUME NEW j \in Jobs, jobs'[j].status = "running"
               PROVE  j \in orphans' \/ \E u \in Ticks : Executes(u, j)'
    BY DEF Running
  <2>1. CASE j = id
    <3>1. ticks'[t].todo # <<>> /\ Head(ticks'[t].todo).id = j
      BY <1>2, <1>8, <2>1 DEF id
    <3> QED
      BY <3>1 DEF Executes
  <2>2. CASE j # id
    <3>1. j \in orphans \/ \E u \in Ticks \ {t} : Executes(u, j)
      BY <2>2, <1>6 DEF Between, Running
    <3> QED
      BY <3>1, <1>8 DEF Executes
  <2> QED
    BY <2>1, <2>2
<1> QED
  BY <1>9, <1>10, <1>11, <1>12 DEF IInv

LEMMA ProceedKeeps ==
    ASSUME NEW t \in Ticks, NEW table, NEW todo \in Seq(Snapshot), NEW started \in Times,
           Between(t, table, todo), Proceed(t, table, todo, started),
           UNCHANGED <<now, recurring, handlers, running, orphans, crashes>>
    PROVE  IInv'
<1>1. ASSUME jobs' = DeleteOld(table, started), starts' = starts,
             ticks' = [ticks EXCEPT ![t] = [Idle EXCEPT !.phase = "after"]]
      PROVE  IInv'
  BY <1>1, LoopEnds
<1>2. ASSUME NEW k \in 1 .. Len(todo),
             jobs' = MarkRunning(table, todo[k]),
             starts' = [starts EXCEPT ![todo[k].id] = @ + 1],
             ticks' = [ticks EXCEPT ![t] =
                [phase |-> "jobs", now |-> started, todo |-> SubSeq(todo, k, Len(todo)), pos |-> 0]]
      PROVE  IInv'
  BY <1>2, JobStarts
<1>3. PICK k \in 1 .. Len(todo) + 1 :
        IF k > Len(todo)
        THEN /\ jobs' = DeleteOld(table, started)
             /\ starts' = starts
             /\ ticks' = [ticks EXCEPT ![t] = [Idle EXCEPT !.phase = "after"]]
        ELSE /\ jobs' = MarkRunning(table, todo[k])
             /\ starts' = [starts EXCEPT ![todo[k].id] = @ + 1]
             /\ ticks' = [ticks EXCEPT ![t] =
                   [phase |-> "jobs", now |-> started, todo |-> SubSeq(todo, k, Len(todo)), pos |-> 0]]
  BY Zenon DEF Proceed
<1>4. CASE k > Len(todo)
  BY <1>1, <1>3, <1>4
<1>5. CASE ~(k > Len(todo))
  <2>1. k \in 1 .. Len(todo)
    BY <1>5
  <2> QED
    BY <1>2, <1>3, <1>5, <2>1, Zenon
<1> QED
  BY <1>4, <1>5

-----------------------------------------------------------------------------
(* The steps of a tick.                                                    *)

LEMMA StartTickKeeps ==
    ASSUME IInv, NEW t \in Ticks, StartTick(t)
    PROVE  IInv'
<1>1. PICK order \in Batches :
        Proceed(t, jobs, [i \in DOMAIN order |-> [id |-> order[i], attempts |-> jobs[order[i]].attempts]], now)
  BY DEF StartTick
<1> DEFINE todo == [i \in DOMAIN order |-> [id |-> order[i], attempts |-> jobs[order[i]].attempts]]
<1>2. PICK n \in 0 .. BatchSize : order \in [1 .. n -> Due]
  BY <1>1 DEF Batches, Injection
<1>3. n \in Nat /\ DOMAIN order = 1 .. n
  BY <1>2, SchedulerAssumption
<1>4. \A i \in 1 .. n : order[i] \in Jobs /\ jobs[order[i]].status = "pending"
  BY <1>2 DEF Due
<1>5. TypeOK /\ jobs \in [Jobs -> Row] /\ now \in Times
  BY DEF IInv, TypeOK
<1>6. todo \in Seq(Snapshot)
  <2>1. \A i \in 1 .. n : [id |-> order[i], attempts |-> jobs[order[i]].attempts] \in Snapshot
    BY <1>4, <1>5 DEF Row, Snapshot
  <2>2. todo \in [1 .. n -> Snapshot]
    BY <1>3, <2>1
  <2> HIDE DEF todo
  <2> QED
    BY <1>3, <2>2
<1>7. Known(jobs, todo)
  <2> SUFFICES ASSUME NEW i \in DOMAIN todo
               PROVE  jobs[todo[i].id].status # "none" /\ todo[i].attempts <= starts[todo[i].id]
    BY DEF Known
  <2>1. i \in 1 .. n /\ todo[i].id = order[i] /\ todo[i].attempts = jobs[order[i]].attempts
    BY <1>3
  <2>2. jobs[order[i]].attempts = starts[order[i]] /\ starts[order[i]] \in Nat
    BY <2>1, <1>4 DEF IInv, Counted, TypeOK
  <2> HIDE DEF todo
  <2> QED
    BY <2>1, <2>2, <1>4
<1>8. Running(jobs, Ticks \ {t})
  <2>1. ticks[t].todo = <<>>
    BY <1>5 DEF TypeOK, StartTick
  <2> QED
    BY <2>1 DEF IInv, Running, Executes
<1>9. Between(t, jobs, todo)
  BY <1>5, <1>7, <1>8 DEF Between, IInv
<1>10. Proceed(t, jobs, todo, now)
  BY <1>1
<1>11. UNCHANGED <<now, recurring, handlers, running, orphans, crashes>>
  BY DEF StartTick
<1> HIDE DEF todo
<1> QED
  BY <1>5, <1>6, <1>9, <1>10, <1>11, ProceedKeeps

\* The row after the handler, in the table of the tick.
EndedRow(t, table) ==
    LET id == Head(ticks[t].todo).id IN
    /\ table \in [Jobs -> Row]
    /\ \A j \in Jobs : j # id => table[j] = jobs[j]
    /\ table[id].attempts = jobs[id].attempts
    /\ \/ table[id].status = "deleted" /\ jobs[id].status = "deleted"
       \/ table[id].status \in {"completed", "pending"} /\ jobs[id].status # "deleted"
       \/ table[id].status = "failed" /\ jobs[id].status # "deleted" /\ starts[id] >= MaxAttempts

LEMMA HeadOfTick ==
    ASSUME IInv, NEW t \in Ticks, ticks[t].phase = "jobs"
    PROVE  /\ ticks[t].todo \in Seq(Snapshot) /\ ticks[t].todo # <<>> /\ ticks[t].now \in Times
           /\ Head(ticks[t].todo) \in Snapshot
           /\ Head(ticks[t].todo).id \in Jobs /\ Head(ticks[t].todo).attempts \in Nat
           /\ jobs[Head(ticks[t].todo).id].status # "none"
           /\ Head(ticks[t].todo).attempts < starts[Head(ticks[t].todo).id]
<1>1. ticks[t] \in Tick /\ ticks[t].todo # <<>>
  BY DEF IInv, TypeOK
<1>2. ticks[t].todo \in Seq(Snapshot) /\ ticks[t].now \in Times
  BY <1>1 DEF Tick
<1>3. /\ Head(ticks[t].todo) = ticks[t].todo[1] /\ 1 \in DOMAIN ticks[t].todo
      /\ Head(ticks[t].todo) \in Snapshot
      /\ Head(ticks[t].todo).id \in Jobs /\ Head(ticks[t].todo).attempts \in Nat
  BY <1>1, <1>2, SnapshotFields
<1>4. HeldBy(jobs, t)
  BY DEF IInv
<1> QED
  BY <1>1, <1>2, <1>3, <1>4 DEF HeldBy, Known

LEMMA EndedKeeps ==
    ASSUME IInv, NEW t \in Ticks, ticks[t].phase = "jobs", NEW table, EndedRow(t, table)
    PROVE  Between(t, table, Tail(ticks[t].todo)) /\ Tail(ticks[t].todo) \in Seq(Snapshot)
<1> DEFINE todo == ticks[t].todo
           id == Head(todo).id
<1>1. /\ todo \in Seq(Snapshot) /\ todo # <<>> /\ id \in Jobs
      /\ jobs[id].status # "none"
  BY HeadOfTick
<1>2. TypeOK /\ starts \in [Jobs -> Nat] /\ jobs \in [Jobs -> Row] /\ Counted(jobs) /\ Running(jobs, Ticks)
  BY DEF IInv, TypeOK
<1>3. /\ table \in [Jobs -> Row]
      /\ \A j \in Jobs : j # id => table[j] = jobs[j]
      /\ table[id].attempts = jobs[id].attempts
      /\ \/ table[id].status = "deleted" /\ jobs[id].status = "deleted"
         \/ table[id].status \in {"completed", "pending"} /\ jobs[id].status # "deleted"
         \/ table[id].status = "failed" /\ jobs[id].status # "deleted" /\ starts[id] >= MaxAttempts
  BY DEF EndedRow
<1>4. Counted(table)
  <2> SUFFICES ASSUME NEW j \in Jobs
               PROVE  /\ table[j].status \notin {"none", "deleted"} => table[j].attempts = starts[j]
                      /\ table[j].status = "none" => starts[j] = 0
                      /\ table[j].status = "failed" => starts[j] >= MaxAttempts
    BY DEF Counted
  <2> HIDE DEF id
  <2>1. CASE j = id
    BY <2>1, <1>1, <1>2, <1>3 DEF Counted
  <2>2. CASE j # id
    BY <2>2, <1>2, <1>3 DEF Counted
  <2> QED
    BY <2>1, <2>2
<1>5. \A j \in Jobs : jobs[j].status # "none" => table[j].status # "none"
  BY <1>3
<1>6. \A u \in Ticks \ {t} : HeldBy(table, u)
  <2> SUFFICES ASSUME NEW u \in Ticks \ {t} PROVE HeldBy(table, u)
    OBVIOUS
  <2>1. HeldBy(jobs, u) /\ ticks[u].todo \in Seq(Snapshot)
    BY DEF IInv, TypeOK, Tick
  <2>2. \A i \in DOMAIN ticks[u].todo : ticks[u].todo[i].id \in Jobs
    BY <2>1, SnapshotFields
  <2> QED
    BY <2>1, <2>2, <1>5 DEF HeldBy, Known
<1>7. Tail(todo) \in Seq(Snapshot) /\ Known(table, Tail(todo))
  <2>1. /\ Tail(todo) \in Seq(Snapshot)
        /\ \A i \in DOMAIN Tail(todo) : i + 1 \in DOMAIN todo /\ Tail(todo)[i] = todo[i + 1]
    BY <1>1
  <2>2. Known(jobs, todo) /\ \A i \in DOMAIN todo : todo[i].id \in Jobs
    BY <1>1, SnapshotFields DEF IInv, HeldBy
  <2> HIDE DEF todo
  <2> QED
    BY <2>1, <2>2, <1>5 DEF Known
<1>8. Running(table, Ticks \ {t})
  <2> SUFFICES ASSUME NEW j \in Jobs, table[j].status = "running"
               PROVE  j \in orphans \/ \E u \in Ticks \ {t} : Executes(u, j)
    BY DEF Running
  <2>1. j # id /\ jobs[j].status = "running"
    BY <1>3
  <2>2. j \in orphans \/ \E u \in Ticks : Executes(u, j)
    BY <2>1, <1>2 DEF Running
  <2>3. ~Executes(t, j)
    BY <2>1 DEF Executes
  <2> QED
    BY <2>2, <2>3
<1> QED
  BY <1>2, <1>3, <1>4, <1>6, <1>7, <1>8 DEF Between

LEMMA CompletedEnds ==
    ASSUME IInv, NEW t \in Ticks, ticks[t].phase = "jobs"
    PROVE  EndedRow(t, Completed(Head(ticks[t].todo).id))
<1> DEFINE id == Head(ticks[t].todo).id
           old == jobs[id]
           new == [old EXCEPT !.status = IF @ = "deleted" THEN @ ELSE "completed"]
<1>1. id \in Jobs /\ jobs \in [Jobs -> Row] /\ old \in Row
  BY HeadOfTick DEF IInv, TypeOK
<1>2. Completed(id) = [jobs EXCEPT ![id] = new]
  BY DEF Completed
<1> HIDE DEF old
<1>3. /\ new \in Row /\ new.attempts = old.attempts
      /\ new.status = IF old.status = "deleted" THEN "deleted" ELSE "completed"
  BY <1>1, StatusSets DEF Row
<1> HIDE DEF new, id
<1> QED
  BY <1>1, <1>2, <1>3 DEF EndedRow, id, old

LEMMA FailedEnds ==
    ASSUME IInv, NEW t \in Ticks, ticks[t].phase = "jobs"
    PROVE  EndedRow(t, Failed(Head(ticks[t].todo), ticks[t].now))
<1> DEFINE row == Head(ticks[t].todo)
           id == row.id
           old == jobs[id]
           tried == row.attempts + 1
           later == AtMost(ticks[t].now + Backoff * 2 ^ (tried - 1))
           failed == [old EXCEPT !.status = "failed"]
           again == [old EXCEPT !.status = "pending", !.at = later]
<1>1. id \in Jobs /\ jobs \in [Jobs -> Row] /\ old \in Row /\ row.attempts \in Nat /\ row.attempts < starts[id]
      /\ starts[id] \in Nat
  BY HeadOfTick DEF IInv, TypeOK
<1>2. Failed(row, ticks[t].now) =
        IF old.status = "deleted" THEN jobs
        ELSE IF tried >= MaxAttempts THEN [jobs EXCEPT ![id] = failed]
        ELSE [jobs EXCEPT ![id] = again]
  BY <1>1 DEF Failed
<1>3. later \in Times
  BY SchedulerAssumption DEF AtMost, Times
<1> HIDE DEF old, later
<1>4. failed \in Row /\ failed.attempts = old.attempts /\ failed.status = "failed"
  BY <1>1, StatusSets DEF Row
<1>5. again \in Row /\ again.attempts = old.attempts /\ again.status = "pending"
  BY <1>1, <1>3, StatusSets DEF Row
<1>6. tried >= MaxAttempts => starts[id] >= MaxAttempts
  BY <1>1, SchedulerAssumption
<1> HIDE DEF failed, again, tried, id
<1>7. CASE old.status = "deleted"
  BY <1>7, <1>1, <1>2 DEF EndedRow, id, old
<1>8. CASE old.status # "deleted" /\ tried >= MaxAttempts
  BY <1>8, <1>1, <1>2, <1>4, <1>6 DEF EndedRow, id, old
<1>9. CASE old.status # "deleted" /\ ~(tried >= MaxAttempts)
  BY <1>9, <1>1, <1>2, <1>5 DEF EndedRow, id, old
<1> QED
  BY <1>7, <1>8, <1>9

LEMMA FinishJobKeeps ==
    ASSUME IInv, NEW t \in Ticks, FinishJob(t)
    PROVE  IInv'
<1>1. ticks[t].phase = "jobs" /\ UNCHANGED <<now, recurring, handlers, running, orphans, crashes>>
  BY DEF FinishJob
<1>2. PICK table : EndedRow(t, table) /\ Proceed(t, table, Tail(ticks[t].todo), ticks[t].now)
  BY <1>1, CompletedEnds, FailedEnds DEF FinishJob
<1>3. ticks[t].now \in Times
  BY <1>1, HeadOfTick
<1> QED
  BY <1>1, <1>2, <1>3, EndedKeeps, ProceedKeeps

-----------------------------------------------------------------------------
(* The other steps, and the theorems.                                      *)

\* Steps that touch neither the rows nor what a tick holds.
LEMMA FrameKeeps ==
    ASSUME IInv, TypeOK', jobs' = jobs, starts' = starts, orphans' = orphans,
           \A u \in Ticks : ticks'[u].todo = ticks[u].todo
    PROVE  IInv'
<1>1. Counted(jobs)'
  BY DEF IInv, Counted
<1>2. \A u \in Ticks : HeldBy(jobs, u)'
  BY DEF IInv, HeldBy, Known
<1>3. Running(jobs, Ticks)'
  BY DEF IInv, Running, Executes
<1> QED
  BY <1>1, <1>2, <1>3 DEF IInv

LEMMA InitIInv == Init => IInv
<1> SUFFICES ASSUME Init PROVE IInv
  OBVIOUS
<1>1. Idle \in Tick /\ Idle.todo = <<>> /\ Idle.phase = "idle" /\ 0 \in Times
  BY SchedulerAssumption DEF Idle, Tick, Times
<1>2. [status |-> "none", attempts |-> 0, at |-> 0, created |-> 0] \in Row
  BY <1>1, StatusSets DEF Row
<1> DEFINE new == [status |-> "none", attempts |-> 0, at |-> 0, created |-> 0]
<1> HIDE DEF new
<1>3. TypeOK
  <2>1. jobs = [j \in Jobs |-> new] /\ new \in Row
    BY <1>2 DEF Init, new
  <2>2. jobs \in [Jobs -> Row] /\ now \in Times
    BY <2>1, <1>1 DEF Init
  <2>3. /\ recurring \in Seq([nextRunAt : Times, active : BOOLEAN])
        /\ Len(recurring) <= Len(RecurringTypes)
    BY SchedulerAssumption DEF Init
  <2>4. /\ ticks \in [Ticks -> Tick]
        /\ \A t \in Ticks : ticks[t] = Idle
    BY <1>1 DEF Init
  <2>5. \A t \in Ticks : /\ ticks[t].phase = "jobs" <=> ticks[t].todo # <<>>
                         /\ ticks[t].phase = "recurring" => ticks[t].pos \in DOMAIN recurring
    BY <2>4, <1>1
  <2>6. starts \in [Jobs -> Nat] /\ orphans \subseteq Jobs /\ handlers \subseteq Types /\ running \in BOOLEAN
    BY DEF Init
  <2>7. crashes \in 0 .. MaxCrashes
    BY SchedulerAssumption DEF Init
  <2> QED
    BY <2>2, <2>3, <2>4, <2>5, <2>6, <2>7 DEF TypeOK
<1>4. Counted(jobs) /\ Running(jobs, Ticks)
  BY DEF Init, Counted, Running
<1>5. \A u \in Ticks : HeldBy(jobs, u)
  BY <1>1 DEF Init, HeldBy, Known
<1> QED
  BY <1>3, <1>4, <1>5 DEF IInv

LEMMA ScheduleKeeps ==
    ASSUME IInv, NEW j \in Jobs, NEW at \in now .. MaxTime, Schedule(j, at)
    PROVE  IInv'
<1> DEFINE new == [status |-> "pending", attempts |-> 0, at |-> at, created |-> now]
<1>1. /\ TypeOK /\ jobs \in [Jobs -> Row] /\ now \in Times
      /\ \A u \in Ticks : ticks[u].todo \in Seq(Snapshot)
  BY DEF IInv, TypeOK, Tick
<1>2. new \in Row /\ new.status = "pending" /\ new.attempts = 0
  BY <1>1, StatusSets, SchedulerAssumption DEF Row, Times
<1>3. jobs[j].status = "none" /\ jobs' = [jobs EXCEPT ![j] = new] /\ starts[j] = 0
  BY DEF Schedule, IInv, Counted
<1> HIDE DEF new
<1>4. jobs' \in [Jobs -> Row] /\ jobs'[j] = new /\ \A k \in Jobs : k # j => jobs'[k] = jobs[k]
  BY <1>1, <1>2, <1>3
<1>5. UNCHANGED <<now, recurring, handlers, running, ticks, starts, orphans, crashes>>
  BY DEF Schedule
<1>6. TypeOK'
  BY <1>1, <1>4, <1>5 DEF TypeOK
<1>7. Counted(jobs)'
  BY <1>2, <1>3, <1>4, <1>5 DEF IInv, Counted
<1>8. \A u \in Ticks : HeldBy(jobs, u)'
  <2> SUFFICES ASSUME NEW u \in Ticks PROVE HeldBy(jobs, u)'
    OBVIOUS
  <2>1. HeldBy(jobs, u) /\ \A i \in DOMAIN ticks[u].todo : ticks[u].todo[i].id \in Jobs
    BY <1>1, SnapshotFields DEF IInv
  <2> QED
    BY <2>1, <1>2, <1>4, <1>5 DEF HeldBy, Known
<1>9. Running(jobs, Ticks)'
  BY <1>2, <1>4, <1>5 DEF IInv, Running, Executes
<1> QED
  BY <1>6, <1>7, <1>8, <1>9 DEF IInv

LEMMA CancelKeeps ==
    ASSUME IInv, NEW j \in Jobs, Cancel(j)
    PROVE  IInv'
<1>1. /\ TypeOK /\ jobs \in [Jobs -> Row]
      /\ \A u \in Ticks : ticks[u].todo \in Seq(Snapshot)
  BY DEF IInv, TypeOK, Tick
<1> DEFINE old == jobs[j]
           new == [old EXCEPT !.status = "cancelled"]
<1>2. old \in Row /\ old.status = "pending" /\ jobs' = [jobs EXCEPT ![j] = new]
  BY <1>1 DEF Cancel
<1> HIDE DEF old
<1>3. new \in Row /\ new.status = "cancelled" /\ new.attempts = old.attempts
  BY <1>2, StatusSets DEF Row
<1> HIDE DEF new
<1>4. jobs' \in [Jobs -> Row] /\ jobs'[j] = new /\ \A k \in Jobs : k # j => jobs'[k] = jobs[k]
  BY <1>1, <1>2, <1>3
<1>5. UNCHANGED <<now, recurring, handlers, running, ticks, starts, orphans, crashes>>
  BY DEF Cancel
<1>6. TypeOK'
  BY <1>1, <1>4, <1>5 DEF TypeOK
<1>7. Counted(jobs)'
  BY <1>2, <1>3, <1>4, <1>5 DEF IInv, Counted, old
<1>8. \A u \in Ticks : HeldBy(jobs, u)'
  <2> SUFFICES ASSUME NEW u \in Ticks PROVE HeldBy(jobs, u)'
    OBVIOUS
  <2>1. HeldBy(jobs, u) /\ \A i \in DOMAIN ticks[u].todo : ticks[u].todo[i].id \in Jobs
    BY <1>1, SnapshotFields DEF IInv
  <2> QED
    BY <2>1, <1>3, <1>4, <1>5 DEF HeldBy, Known
<1>9. Running(jobs, Ticks)'
  BY <1>3, <1>4, <1>5 DEF IInv, Running, Executes
<1> QED
  BY <1>6, <1>7, <1>8, <1>9 DEF IInv

LEMMA CrashKeeps ==
    ASSUME IInv, Crash
    PROVE  IInv'
<1>1. Idle \in Tick /\ Idle.todo = <<>> /\ Idle.phase = "idle"
  BY SchedulerAssumption DEF Idle, Tick, Times
<1>2. TypeOK'
  <2>1. /\ now' \in Times /\ jobs' \in [Jobs -> Row] /\ starts' \in [Jobs -> Nat]
        /\ handlers' \subseteq Types /\ running' \in BOOLEAN /\ orphans' \subseteq Jobs
    BY DEF IInv, TypeOK, Crash
  <2>2. crashes' \in 0 .. MaxCrashes
    BY SchedulerAssumption DEF IInv, TypeOK, Crash
  <2>3. /\ recurring' \in Seq([nextRunAt : Times, active : BOOLEAN])
        /\ Len(recurring') <= Len(RecurringTypes)
    BY SchedulerAssumption DEF Crash
  <2>4. /\ ticks' \in [Ticks -> Tick]
        /\ \A t \in Ticks : ticks'[t] = Idle
    BY <1>1 DEF Crash
  <2>5. \A t \in Ticks : /\ ticks'[t].phase = "jobs" <=> ticks'[t].todo # <<>>
                         /\ ticks'[t].phase = "recurring" => ticks'[t].pos \in DOMAIN recurring'
    BY <2>4, <1>1
  <2> QED
    BY <2>1, <2>2, <2>3, <2>4, <2>5 DEF TypeOK
<1>3. Counted(jobs)'
  BY DEF IInv, Counted, Crash
<1>4. \A u \in Ticks : HeldBy(jobs, u)'
  BY <1>1 DEF HeldBy, Known, Crash
<1>5. Running(jobs, Ticks)'
  BY DEF Running, Crash
<1> QED
  BY <1>2, <1>3, <1>4, <1>5 DEF IInv

\* Where the loop over the recurring jobs leaves a tick that holds no row.
LEMMA RecurringMoves ==
    ASSUME IInv, NEW t \in Ticks, ticks[t].phase # "jobs", NEW first \in Nat, NEW started \in Times,
           ProceedRecurring(t, first, started)
    PROVE  /\ ticks' \in [Ticks -> Tick]
           /\ \A u \in Ticks : ticks'[u].todo = ticks[u].todo
           /\ \A u \in Ticks \ {t} : ticks'[u] = ticks[u]
           /\ ticks'[t].phase # "jobs"
           /\ ticks'[t].phase = "recurring" => first <= ticks'[t].pos /\ ticks'[t].pos <= Len(recurring)
<1>1. ticks \in [Ticks -> Tick] /\ ticks[t].todo = <<>> /\ recurring \in Seq([nextRunAt : Times, active : BOOLEAN])
  BY DEF IInv, TypeOK
<1>2. PICK k \in first .. Len(recurring) + 1 :
        ticks' = [ticks EXCEPT ![t] =
            IF k > Len(recurring) THEN Idle
            ELSE [phase |-> "recurring", now |-> started, todo |-> <<>>, pos |-> k]]
  BY DEF ProceedRecurring
<1> DEFINE tick == IF k > Len(recurring) THEN Idle
                   ELSE [phase |-> "recurring", now |-> started, todo |-> <<>>, pos |-> k]
<1>3. Len(recurring) \in Nat /\ k \in Nat /\ first <= k /\ 0 \in Times /\ <<>> \in Seq(Snapshot)
  BY <1>1, SchedulerAssumption DEF Times
<1>4. /\ tick \in Tick /\ tick.todo = <<>> /\ tick.phase # "jobs"
      /\ tick.phase = "recurring" => tick.pos = k /\ k <= Len(recurring)
  <2>1. CASE k > Len(recurring)
    <3>1. tick = Idle
      BY <2>1
    <3> HIDE DEF tick
    <3> QED
      BY <3>1, <1>3 DEF Idle, Tick
  <2>2. CASE ~(k > Len(recurring))
    <3>1. tick = [phase |-> "recurring", now |-> started, todo |-> <<>>, pos |-> k]
      BY <2>2
    <3> HIDE DEF tick
    <3> QED
      BY <3>1, <1>3, <2>2 DEF Tick
  <2> QED
    BY <2>1, <2>2
<1>5. ticks' = [ticks EXCEPT ![t] = tick]
  BY <1>2
<1> HIDE DEF tick
<1> QED
  BY <1>1, <1>3, <1>4, <1>5

LEMMA EntryAt ==
    ASSUME NEW S, NEW s \in Seq(S), NEW i \in DOMAIN s
    PROVE  s[i] \in S
OBVIOUS

\* An entry of the Map with a new time, or cancelled, is an entry.
LEMMA ChangedEntry ==
    ASSUME NEW e \in [nextRunAt : Times, active : BOOLEAN], NEW time \in Times
    PROVE  /\ [e EXCEPT !.nextRunAt = time] \in [nextRunAt : Times, active : BOOLEAN]
           /\ [e EXCEPT !.active = FALSE] \in [nextRunAt : Times, active : BOOLEAN]
OBVIOUS

LEMMA RecurringKeeps ==
    ASSUME IInv, NEW t \in Ticks, BeginRecurring(t) \/ FinishRecurring(t)
    PROVE  IInv'
<1>1. TypeOK /\ ticks[t].phase # "jobs" /\ ticks[t].now \in Times /\ now \in Times /\ ticks[t].pos \in Nat
  BY DEF IInv, TypeOK, Tick, BeginRecurring, FinishRecurring
<1>2. PICK first \in Nat \ {0}, started \in Times : ProceedRecurring(t, first, started)
  <2>1. CASE BeginRecurring(t)
    BY <2>1, <1>1 DEF BeginRecurring
  <2>2. CASE FinishRecurring(t)
    <3>1. ticks[t].pos + 1 \in Nat \ {0}
      BY <1>1
    <3> QED
      BY <2>2, <3>1, <1>1 DEF FinishRecurring
  <2> QED
    BY <2>1, <2>2
<1>3. /\ ticks' \in [Ticks -> Tick]
      /\ \A u \in Ticks : ticks'[u].todo = ticks[u].todo
      /\ \A u \in Ticks \ {t} : ticks'[u] = ticks[u]
      /\ ticks'[t].phase # "jobs"
      /\ ticks'[t].phase = "recurring" => first <= ticks'[t].pos /\ ticks'[t].pos <= Len(recurring)
  BY <1>1, <1>2, RecurringMoves
<1>4. /\ recurring' \in Seq([nextRunAt : Times, active : BOOLEAN])
      /\ Len(recurring') = Len(recurring) /\ DOMAIN recurring' = DOMAIN recurring
  <2>1. CASE BeginRecurring(t)
    BY <2>1 DEF BeginRecurring, IInv, TypeOK
  <2>2. CASE FinishRecurring(t)
    <3> DEFINE p == ticks[t].pos
               later == AtMost(ticks[t].now + Interval)
               entry == [recurring[p] EXCEPT !.nextRunAt = later]
    <3>1. p \in DOMAIN recurring /\ recurring \in Seq([nextRunAt : Times, active : BOOLEAN])
      BY <2>2 DEF FinishRecurring, IInv, TypeOK
    <3>2. later \in Times
      BY SchedulerAssumption DEF AtMost, Times
    <3> HIDE DEF later
    <3>3. entry \in [nextRunAt : Times, active : BOOLEAN]
      <4> DEFINE before == recurring[p]
      <4>1. before \in [nextRunAt : Times, active : BOOLEAN]
        BY <3>1, EntryAt, Zenon
      <4> HIDE DEF before
      <4>2. [before EXCEPT !.nextRunAt = later] \in [nextRunAt : Times, active : BOOLEAN]
        BY <4>1, <3>2, ChangedEntry
      <4> QED
        BY <4>2 DEF before
    <3>4. recurring' = [recurring EXCEPT ![p] = entry]
      BY <2>2 DEF FinishRecurring, later
    <3> HIDE DEF entry, p
    <3> QED
      BY <3>1, <3>3, <3>4
  <2> QED
    BY <2>1, <2>2
<1>5. UNCHANGED <<now, jobs, handlers, running, starts, orphans, crashes>>
  BY DEF BeginRecurring, FinishRecurring
<1>6. TypeOK'
  <2>1. \A u \in Ticks : /\ ticks'[u].phase = "jobs" <=> ticks'[u].todo # <<>>
                         /\ ticks'[u].phase = "recurring" => ticks'[u].pos \in DOMAIN recurring'
    <3> SUFFICES ASSUME NEW u \in Ticks
                 PROVE  /\ ticks'[u].phase = "jobs" <=> ticks'[u].todo # <<>>
                        /\ ticks'[u].phase = "recurring" => ticks'[u].pos \in DOMAIN recurring'
      OBVIOUS
    <3>1. CASE u # t
      BY <3>1, <1>3, <1>4 DEF IInv, TypeOK
    <3>2. CASE u = t
      <4>1. ticks[t].todo = <<>>
        BY <1>1 DEF IInv, TypeOK
      <4>2. ticks'[t].phase = "recurring" => ticks'[t].pos \in DOMAIN recurring
        <5>1. first >= 1 /\ ticks'[t].pos \in Nat /\ recurring \in Seq([nextRunAt : Times, active : BOOLEAN])
          BY <1>1, <1>2, <1>3 DEF Tick, TypeOK
        <5> QED
          BY <5>1, <1>3
      <4> QED
        BY <3>2, <4>1, <4>2, <1>3, <1>4
    <3> QED
      BY <3>1, <3>2
  <2> QED
    BY <2>1, <1>1, <1>3, <1>4, <1>5 DEF TypeOK
<1> QED
  BY <1>3, <1>5, <1>6, FrameKeeps

\* The steps of the callers, the clock and the timer that leave the rows alone.
LEMMA FrameSteps ==
    ASSUME IInv,
           \/ \E type \in Types : RegisterHandler(type) \/ UnregisterHandler(type)
           \/ ScheduleRecurring
           \/ \E r \in DOMAIN recurring : CancelRecurring(r)
           \/ Start \/ Stop \/ Pass \/ UNCHANGED vars
    PROVE  IInv'
<1>1. jobs' = jobs /\ starts' = starts /\ orphans' = orphans /\ ticks' = ticks /\ crashes' = crashes
  BY DEF RegisterHandler, UnregisterHandler, ScheduleRecurring, CancelRecurring, Start, Stop, Pass, vars
<1>2. now' \in Times
  <2>1. CASE Pass
    BY <2>1, SchedulerAssumption DEF Pass, IInv, TypeOK, Times
  <2>2. CASE ~Pass
    BY <2>2 DEF IInv, TypeOK, RegisterHandler, UnregisterHandler, ScheduleRecurring, CancelRecurring, Start, Stop, vars
  <2> QED
    BY <2>1, <2>2
<1>3. handlers' \subseteq Types /\ running' \in BOOLEAN
  BY DEF IInv, TypeOK, RegisterHandler, UnregisterHandler, ScheduleRecurring, CancelRecurring, Start, Stop, Pass, vars
<1> DEFINE Entry == [nextRunAt : Times, active : BOOLEAN]
<1>4. /\ recurring' \in Seq(Entry) /\ Len(recurring') <= Len(RecurringTypes)
      /\ \A i \in DOMAIN recurring : i \in DOMAIN recurring'
  <2>1. recurring \in Seq(Entry) /\ Len(recurring) <= Len(RecurringTypes) /\ Len(RecurringTypes) \in Nat
        /\ now \in Times
    BY SchedulerAssumption DEF IInv, TypeOK
  <2>2. CASE ScheduleRecurring
    <3> DEFINE entry == [nextRunAt |-> now, active |-> TRUE]
    <3>1. entry \in Entry
      BY <2>1
    <3>2. recurring' = Append(recurring, entry) /\ Len(recurring) < Len(RecurringTypes)
      BY <2>2 DEF ScheduleRecurring
    <3> HIDE DEF entry, Entry
    <3> QED
      BY <2>1, <3>1, <3>2
  <2>3. ASSUME NEW r \in DOMAIN recurring, CancelRecurring(r)
        PROVE  recurring' \in Seq(Entry) /\ Len(recurring') = Len(recurring) /\ DOMAIN recurring' = DOMAIN recurring
    <3> DEFINE before == recurring[r]
               entry == [before EXCEPT !.active = FALSE]
    <3>1. before \in Entry
      BY <2>1, EntryAt, Zenon
    <3>2. recurring' = [recurring EXCEPT ![r] = entry]
      BY <2>3 DEF CancelRecurring
    <3> HIDE DEF before
    <3>3. entry \in Entry
      BY <3>1, <2>1, ChangedEntry
    <3> HIDE DEF entry, Entry
    <3> QED
      BY <2>1, <3>2, <3>3
  <2>4. CASE UNCHANGED recurring
    BY <2>1, <2>4
  <2> QED
    BY <2>1, <2>2, <2>3, <2>4 DEF RegisterHandler, UnregisterHandler, Start, Stop, Pass, vars
<1>5. TypeOK'
  BY <1>1, <1>2, <1>3, <1>4 DEF IInv, TypeOK
<1> QED
  BY <1>1, <1>5, FrameKeeps

LEMMA NextIInv == IInv /\ [Next]_vars => IInv'
<1> SUFFICES ASSUME IInv, [Next]_vars PROVE IInv'
  OBVIOUS
<1>1. ASSUME NEW j \in Jobs, Cancel(j) PROVE IInv'
  BY <1>1, CancelKeeps
<1>2. ASSUME NEW j \in Jobs, NEW at \in now .. MaxTime, Schedule(j, at) PROVE IInv'
  BY <1>2, ScheduleKeeps
<1>3. ASSUME NEW t \in Ticks, StartTick(t) PROVE IInv'
  BY <1>3, StartTickKeeps
<1>4. ASSUME NEW t \in Ticks, TickStep(t) PROVE IInv'
  BY <1>4, FinishJobKeeps, RecurringKeeps DEF TickStep
<1>5. CASE Crash
  BY <1>5, CrashKeeps
<1>6. CASE \/ \E type \in Types : RegisterHandler(type) \/ UnregisterHandler(type)
           \/ ScheduleRecurring
           \/ \E r \in DOMAIN recurring : CancelRecurring(r)
           \/ Start \/ Stop \/ Pass \/ UNCHANGED vars
  BY <1>6, FrameSteps
<1> QED
  BY <1>1, <1>2, <1>3, <1>4, <1>5, <1>6 DEF Next

\* The invariant holds throughout.
THEOREM Invariance == Spec => []IInv
BY InitIInv, NextIInv, PTL DEF Spec

\* The rows, the entries and the ticks keep their types: a tick is at an entry
\* that exists, and holds rows exactly while it runs them (index.ts:200-304).
THEOREM TypeCorrect == Spec => []TypeOK
<1>1. IInv => TypeOK
  BY DEF IInv
<1> QED
  BY <1>1, Invariance, PTL

\* attempts counts the calls of the handler whichever tick makes them (index.ts:221).
THEOREM AttemptsAreStarts == Spec => []AttemptsCountStarts
<1>1. IInv => AttemptsCountStarts
  BY DEF IInv, Counted, AttemptsCountStarts, HasRow
<1> QED
  BY <1>1, Invariance, PTL

\* A failed job was tried maxAttempts times, overlapping ticks included (index.ts:239).
THEOREM FailureIsEarned == Spec => []FailedWasTried
<1>1. IInv => FailedWasTried
  BY DEF IInv, Counted, FailedWasTried
<1> QED
  BY <1>1, Invariance, PTL

\* A running row has a tick that awaits its handler, unless a crash orphaned it
\* (index.ts:217).
THEOREM RunningHasExecutor == Spec => []RunningIsExecuted
<1>1. IInv => RunningIsExecuted
  BY DEF IInv, Running, RunningIsExecuted
<1> QED
  BY <1>1, Invariance, PTL

-----------------------------------------------------------------------------
(* What becomes of a row that no tick holds.                               *)

Unheld(j) ==
    /\ jobs[j].status \in Settled \union {"running"}
    /\ \A t \in Ticks : ~Holds(t, j)

Spared(j) ==
    \/ jobs'[j] = jobs[j]
    \/ jobs[j].status \in Settled /\ jobs'[j].status = "deleted"

\* A tick changes the rows it runs; the others it may only delete.
LEMMA ProceedSpares ==
    ASSUME NEW t, NEW table \in [Jobs -> Row], NEW todo \in Seq(Snapshot), NEW started,
           NEW j \in Jobs, table[j] = jobs[j], \A i \in DOMAIN todo : todo[i].id # j,
           Proceed(t, table, todo, started)
    PROVE  Spared(j)
<1>1. PICK k \in 1 .. Len(todo) + 1 :
        \/ jobs' = DeleteOld(table, started)
        \/ k \in 1 .. Len(todo) /\ jobs' = MarkRunning(table, todo[k])
  <2>1. PICK k \in 1 .. Len(todo) + 1 :
          IF k > Len(todo)
          THEN jobs' = DeleteOld(table, started)
          ELSE jobs' = MarkRunning(table, todo[k])
    BY Zenon DEF Proceed
  <2>2. CASE k > Len(todo)
    BY <2>1, <2>2
  <2>3. CASE ~(k > Len(todo))
    <3>1. k \in 1 .. Len(todo)
      BY <2>3
    <3> QED
      BY <3>1, <2>1, <2>3, Zenon
  <2> QED
    BY <2>2, <2>3
<1>2. CASE jobs' = DeleteOld(table, started)
  <2>1. CASE table[j].status \in Settled /\ table[j].created + Retention < started
    <3>1. jobs'[j] = [table[j] EXCEPT !.status = "deleted"] /\ table[j] \in Row
      BY <1>2, <2>1 DEF DeleteOld
    <3>2. jobs'[j].status = "deleted"
      BY <3>1 DEF Row
    <3> QED
      BY <2>1, <3>2 DEF Spared
  <2>2. CASE ~(table[j].status \in Settled /\ table[j].created + Retention < started)
    <3>1. jobs'[j] = table[j]
      BY <1>2, <2>2 DEF DeleteOld
    <3> QED
      BY <3>1 DEF Spared
  <2> QED
    BY <2>1, <2>2
<1>3. CASE k \in 1 .. Len(todo) /\ jobs' = MarkRunning(table, todo[k])
  <2>1. todo[k].id # j
    BY <1>3
  <2>2. jobs'[j] = table[j]
    BY <1>3, <2>1 DEF MarkRunning
  <2> QED
    BY <2>2 DEF Spared
<1> QED
  BY <1>1, <1>2, <1>3

\* The rows a tick reads are pending.
LEMMA StartTickSpares ==
    ASSUME IInv, NEW t \in Ticks, StartTick(t), NEW j \in Jobs, Unheld(j)
    PROVE  Spared(j)
<1>1. PICK order \in Batches :
        Proceed(t, jobs, [i \in DOMAIN order |-> [id |-> order[i], attempts |-> jobs[order[i]].attempts]], now)
  BY DEF StartTick
<1> DEFINE todo == [i \in DOMAIN order |-> [id |-> order[i], attempts |-> jobs[order[i]].attempts]]
<1>2. PICK n \in 0 .. BatchSize : order \in [1 .. n -> Due]
  BY <1>1 DEF Batches, Injection
<1>3. n \in Nat /\ DOMAIN order = 1 .. n
  BY <1>2, SchedulerAssumption
<1>4. \A i \in 1 .. n : order[i] \in Jobs /\ jobs[order[i]].status = "pending"
  BY <1>2 DEF Due
<1>5. jobs \in [Jobs -> Row]
  BY DEF IInv, TypeOK
<1>6. todo \in Seq(Snapshot)
  <2>1. \A i \in 1 .. n : [id |-> order[i], attempts |-> jobs[order[i]].attempts] \in Snapshot
    BY <1>4, <1>5 DEF Row, Snapshot
  <2>2. todo \in [1 .. n -> Snapshot]
    BY <1>3, <2>1
  <2> HIDE DEF todo
  <2> QED
    BY <1>3, <2>2
<1>7. \A i \in DOMAIN todo : todo[i].id # j
  <2>1. jobs[j].status # "pending"
    BY StatusSets DEF Unheld
  <2> QED
    BY <1>3, <1>4, <2>1
<1>8. Proceed(t, jobs, todo, now)
  BY <1>1
<1> HIDE DEF todo
<1> QED
  BY <1>5, <1>6, <1>7, <1>8, ProceedSpares

\* The row whose handler ended is one the tick holds.
LEMMA FinishJobSpares ==
    ASSUME IInv, NEW t \in Ticks, FinishJob(t), NEW j \in Jobs, Unheld(j)
    PROVE  Spared(j)
<1> DEFINE todo == ticks[t].todo
<1>1. ticks[t].phase = "jobs"
  BY DEF FinishJob
<1>2. PICK table : EndedRow(t, table) /\ Proceed(t, table, Tail(todo), ticks[t].now)
  BY <1>1, CompletedEnds, FailedEnds DEF FinishJob
<1>3. todo \in Seq(Snapshot) /\ todo # <<>> /\ \A i \in DOMAIN todo : todo[i].id # j
  BY <1>1, HeadOfTick DEF Unheld, Holds
<1> HIDE DEF todo
<1>4. /\ Tail(todo) \in Seq(Snapshot)
      /\ \A i \in DOMAIN Tail(todo) : i + 1 \in DOMAIN todo /\ Tail(todo)[i] = todo[i + 1]
      /\ Head(todo) = todo[1] /\ 1 \in DOMAIN todo
  BY <1>3
<1>5. \A i \in DOMAIN Tail(todo) : Tail(todo)[i].id # j
  BY <1>3, <1>4
<1>6. Head(todo).id # j
  BY <1>3, <1>4
<1>7. table \in [Jobs -> Row] /\ table[j] = jobs[j]
  BY <1>2, <1>6 DEF EndedRow, todo
<1> QED
  BY <1>2, <1>4, <1>5, <1>7, ProceedSpares

LEMMA NextSpares ==
    ASSUME IInv, [Next]_vars, NEW j \in Jobs, Unheld(j)
    PROVE  Spared(j)
<1>1. ASSUME NEW k \in Jobs, Cancel(k) PROVE Spared(j)
  <2>1. k # j /\ jobs' = [jobs EXCEPT ![k].status = "cancelled"]
    BY <1>1, StatusSets DEF Cancel, Unheld
  <2> QED
    BY <2>1 DEF Spared, IInv, TypeOK
<1>2. ASSUME NEW k \in Jobs, NEW at \in now .. MaxTime, Schedule(k, at) PROVE Spared(j)
  <2>1. k # j /\ jobs'[j] = jobs[j]
    BY <1>2, StatusSets DEF Schedule, Unheld, IInv, TypeOK
  <2> QED
    BY <2>1 DEF Spared
<1>3. ASSUME NEW t \in Ticks, StartTick(t) PROVE Spared(j)
  BY <1>3, StartTickSpares
<1>4. ASSUME NEW t \in Ticks, FinishJob(t) PROVE Spared(j)
  BY <1>4, FinishJobSpares
<1>5. CASE UNCHANGED jobs
  BY <1>5 DEF Spared
<1> QED
  BY <1>1, <1>2, <1>3, <1>4, <1>5
  DEF Next, TickStep, BeginRecurring, FinishRecurring, Crash, RegisterHandler, UnregisterHandler,
      ScheduleRecurring, CancelRecurring, Start, Stop, Pass, vars

\* Only a tick that read its row before can change a settled or an orphaned job,
\* but for the DELETE of old rows (index.ts:195, 221, 266).
THEOREM UnheldStaysFinal == Spec => UnheldIsFinal
<1>1. IInv /\ [Next]_vars => \A j \in Jobs : Unheld(j) => Spared(j)
  BY NextSpares
<1>2. IInv /\ [Next]_vars => [\A j \in Jobs :
        /\ jobs[j].status \in Settled \union {"running"}
        /\ \A t \in Ticks : ~Holds(t, j)
        => jobs'[j] = jobs[j] \/ (jobs[j].status \in Settled /\ jobs'[j].status = "deleted")]_vars
  BY <1>1 DEF Unheld, Spared
<1> QED
  BY <1>2, Invariance, PTL DEF Spec, UnheldIsFinal
===============================================================================
