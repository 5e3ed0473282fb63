------------------------------- MODULE Scheduler -------------------------------
(***************************************************************************)
(* The job scheduler of packages/scheduler/index.ts.  Jobs are rows of     *)
(* scheduler_jobs; recurring jobs and handlers live in memory.  A timer    *)
(* starts a tick, which reads the due rows, then awaits their handlers one *)
(* by one, then those of the due recurring jobs.  The timer does not wait  *)
(* for the tick before: up to MaxTicks of them overlap here, each holding  *)
(* the rows as it read them.  A step is what runs between two awaits.      *)
(***************************************************************************)
EXTENDS Naturals, Sequences, FiniteSets, Functions

CONSTANTS
    Jobs,           \* the ids generateId returns for the jobs of a behaviour
    Types,          \* job types
    TypeOf,         \* the type each job is scheduled with
    RecurringTypes, \* the types of the recurring jobs, in the order they are added
    Ticks,          \* bound: the ticks in progress at once
    BatchSize,      \* rows a tick reads (10)
    MaxAttempts,    \* options.maxAttempts
    Backoff,        \* backoffMs in seconds; the multiplier is 2
    Interval,       \* intervalMs of the recurring jobs, in seconds
    Retention,      \* age at which a settled row is deleted (86400)
    MaxTime,        \* bound: the last instant, which stands for every later one
    MaxCrashes      \* bound

ASSUME SchedulerAssumption ==
    /\ TypeOf \in [Jobs -> Types]
    /\ RecurringTypes \in Seq(Types)
    /\ BatchSize \in Nat \ {0} /\ MaxAttempts \in Nat \ {0}
    /\ Backoff \in Nat /\ Interval \in Nat /\ Retention \in Nat
    /\ MaxTime \in Nat /\ MaxCrashes \in Nat

VARIABLES
    now,        \* the clock, in seconds
    jobs,       \* the rows; status "none" before the INSERT and "deleted" after the DELETE
    recurring,  \* recurringJobs, in the order of the Map
    handlers,   \* the types with a handler
    running,    \* the timer is set
    ticks,      \* the ticks in progress
    starts,     \* history: how often the handler was called for a job
    orphans,    \* history: the jobs that were running when the process died
    crashes

vars == <<now, jobs, recurring, handlers, running, ticks, starts, orphans, crashes>>

Settled == {"completed", "failed", "cancelled"}
Statuses == Settled \union {"none", "pending", "running", "deleted"}
Times == 0 .. MaxTime
AtMost(t) == IF t \in Times THEN t ELSE MaxTime

Idle == [phase |-> "idle", now |-> 0, todo |-> <<>>, pos |-> 0]

Init ==
    /\ now = 0
    /\ jobs = [j \in Jobs |-> [status |-> "none", attempts |-> 0, at |-> 0, created |-> 0]]
    /\ recurring = <<>>
    /\ handlers = {}
    /\ running = FALSE
    /\ ticks = [t \in Ticks |-> Idle]
    /\ starts = [j \in Jobs |-> 0]
    /\ orphans = {}
    /\ crashes = 0

-----------------------------------------------------------------------------
\* What callers do between ticks.

RegisterHandler(type) ==
    /\ handlers' = handlers \union {type}
    /\ UNCHANGED <<now, jobs, recurring, running, ticks, starts, orphans, crashes>>

UnregisterHandler(type) ==
    /\ handlers' = handlers \ {type}
    /\ UNCHANGED <<now, jobs, recurring, running, ticks, starts, orphans, crashes>>

Schedule(j, at) ==
    /\ jobs[j].status = "none"
    /\ jobs' = [jobs EXCEPT ![j] = [status |-> "pending", attempts |-> 0, at |-> at, created |-> now]]
    /\ UNCHANGED <<now, recurring, handlers, running, ticks, starts, orphans, crashes>>

ScheduleRecurring ==
    /\ Len(recurring) < Len(RecurringTypes)
    /\ recurring' = Append(recurring, [nextRunAt |-> now, active |-> TRUE])
    /\ UNCHANGED <<now, jobs, handlers, running, ticks, starts, orphans, crashes>>

\* Mutant: the UPDATE of cancel has lost its condition on the status.
CancelAny(j) ==
    /\ jobs[j].status \notin {"none", "deleted"}
    /\ jobs' = [jobs EXCEPT ![j].status = "cancelled"]
    /\ UNCHANGED <<now, recurring, handlers, running, ticks, starts, orphans, crashes>>

Cancel(j) ==
    /\ jobs[j].status = "pending"
    /\ jobs' = [jobs EXCEPT ![j].status = "cancelled"]
    /\ UNCHANGED <<now, recurring, handlers, running, ticks, starts, orphans, crashes>>

CancelRecurring(r) ==
    /\ recurring' = [recurring EXCEPT ![r].active = FALSE]
    /\ UNCHANGED <<now, jobs, handlers, running, ticks, starts, orphans, crashes>>

Start ==
    /\ running' = TRUE
    /\ UNCHANGED <<now, jobs, recurring, handlers, ticks, starts, orphans, crashes>>

\* Ticks in progress go on.
Stop ==
    /\ running' = FALSE
    /\ UNCHANGED <<now, jobs, recurring, handlers, ticks, starts, orphans, crashes>>

-----------------------------------------------------------------------------
\* A tick.

Due == {j \in Jobs : jobs[j].status = "pending" /\ jobs[j].at <= now}

\* The rows the query may return: the oldest of those due, ties in any order.
Batches ==
    {order \in UNION {Injection(1 .. n, Due) : n \in 0 .. BatchSize} :
        /\ \A i, k \in DOMAIN order : i < k => jobs[order[i]].at <= jobs[order[k]].at
        /\ \A j \in Due \ Range(order) :
            /\ Len(order) = BatchSize
            /\ \A i \in DOMAIN order : jobs[order[i]].at <= jobs[j].at}

Handled(row) == TypeOf[row.id] \in handlers

HasRow(j) == jobs[j].status \notin {"none", "deleted"}

\* UPDATE ... SET status = 'running', attempts = attempts + 1 WHERE job_id = ?
MarkRunning(table, row) ==
    IF table[row.id].status = "deleted" THEN table
    ELSE [table EXCEPT ![row.id].status = "running", ![row.id].attempts = @ + 1]

DeleteOld(table, cutoff) ==
    [j \in Jobs |->
        IF table[j].status \in Settled /\ table[j].created + Retention < cutoff
        THEN [table[j] EXCEPT !.status = "deleted"] ELSE table[j]]

\* Mutant: a row without a handler ends the loop.
ProceedBreaks(t, table, todo, started) ==
    IF todo = <<>> \/ ~Handled(Head(todo))
    THEN /\ jobs' = DeleteOld(table, started)
         /\ starts' = starts
         /\ ticks' = [ticks EXCEPT ![t] = [Idle EXCEPT !.phase = "after"]]
    ELSE /\ jobs' = MarkRunning(table, Head(todo))
         /\ starts' = [starts EXCEPT ![Head(todo).id] = @ + 1]
         /\ ticks' = [ticks EXCEPT ![t] = [phase |-> "jobs", now |-> started, todo |-> todo, pos |-> 0]]

\* From the head of todo to the next await: rows without a handler are passed
\* over, the first with one is started; after the last the old rows are deleted.
Proceed(t, table, todo, started) ==
    \E k \in 1 .. Len(todo) + 1 :
        /\ \A i \in 1 .. k - 1 : ~Handled(todo[i])
        /\ IF k > Len(todo)
           THEN /\ jobs' = DeleteOld(table, started)
                /\ starts' = starts
                /\ ticks' = [ticks EXCEPT ![t] = [Idle EXCEPT !.phase = "after"]]
           ELSE /\ Handled(todo[k])
                /\ jobs' = MarkRunning(table, todo[k])
                /\ starts' = [starts EXCEPT ![todo[k].id] = @ + 1]
                /\ ticks' = [ticks EXCEPT ![t] =
                    [phase |-> "jobs", now |-> started, todo |-> SubSeq(todo, k, Len(todo)), pos |-> 0]]

\* The timer fires.
StartTick(t) ==
    /\ running
    /\ ticks[t].phase = "idle"
    /\ \E order \in Batches :
        Proceed(t, jobs, [i \in DOMAIN order |-> [id |-> order[i], attempts |-> jobs[order[i]].attempts]], now)
    /\ UNCHANGED <<now, recurring, handlers, running, orphans, crashes>>

\* Mutant: the UPDATE that completes a job asks for a pending row.
CompletedIfPending(j) == [jobs EXCEPT ![j].status = IF @ = "pending" THEN "completed" ELSE @]

\* The row after its handler has returned, or has thrown or timed out.
Completed(j) == [jobs EXCEPT ![j].status = IF @ = "deleted" THEN @ ELSE "completed"]

Failed(row, started) ==
    LET tried == row.attempts + 1 IN
    IF jobs[row.id].status = "deleted" THEN jobs
    ELSE IF tried >= MaxAttempts THEN [jobs EXCEPT ![row.id].status = "failed"]
    ELSE [jobs EXCEPT ![row.id].status = "pending",
                      ![row.id].at = AtMost(started + Backoff * 2 ^ (tried - 1))]

\* The awaited handler ends, and the tick goes on to the next row.
FinishJob(t) ==
    /\ ticks[t].phase = "jobs"
    /\ LET row == Head(ticks[t].todo)
           rest == Tail(ticks[t].todo)
           started == ticks[t].now
       IN  \/ Proceed(t, Completed(row.id), rest, started)
           \/ Proceed(t, Failed(row, started), rest, started)
    /\ UNCHANGED <<now, recurring, handlers, running, orphans, crashes>>

Runnable(r, started) ==
    /\ recurring[r].active
    /\ recurring[r].nextRunAt <= started
    /\ RecurringTypes[r] \in handlers

\* Mutant: an entry that cannot run ends the loop.
ProceedRecurringBreaks(t, first, started) ==
    ticks' = [ticks EXCEPT ![t] =
        IF first > Len(recurring) \/ ~Runnable(first, started) THEN Idle
        ELSE [phase |-> "recurring", now |-> started, todo |-> <<>>, pos |-> first]]

\* From entry first of the Map to the next await, or to the end of the tick.
ProceedRecurring(t, first, started) ==
    \E k \in first .. Len(recurring) + 1 :
        /\ \A r \in first .. k - 1 : ~Runnable(r, started)
        /\ k <= Len(recurring) => Runnable(k, started)
        /\ ticks' = [ticks EXCEPT ![t] =
            IF k > Len(recurring) THEN Idle
            ELSE [phase |-> "recurring", now |-> started, todo |-> <<>>, pos |-> k]]

BeginRecurring(t) ==
    /\ ticks[t].phase = "after"
    /\ ProceedRecurring(t, 1, now)
    /\ UNCHANGED <<now, jobs, recurring, handlers, running, starts, orphans, crashes>>

\* An error of the handler is ignored.  The loop sees nextRunAt as it was: the
\* entry it moves past is the one it sets.
FinishRecurring(t) ==
    /\ ticks[t].phase = "recurring"
    /\ recurring' = [recurring EXCEPT ![ticks[t].pos].nextRunAt = AtMost(ticks[t].now + Interval)]
    /\ ProceedRecurring(t, ticks[t].pos + 1, ticks[t].now)
    /\ UNCHANGED <<now, jobs, handlers, running, starts, orphans, crashes>>

-----------------------------------------------------------------------------
Pass ==
    /\ now < MaxTime
    /\ now' = now + 1
    /\ UNCHANGED <<jobs, recurring, handlers, running, ticks, starts, orphans, crashes>>

\* The process dies: what is in memory is lost.  The next process registers its
\* handlers and calls start().
Crash ==
    /\ crashes < MaxCrashes
    /\ crashes' = crashes + 1
    /\ recurring' = <<>>
    /\ handlers' = {}
    /\ running' = FALSE
    /\ ticks' = [t \in Ticks |-> Idle]
    /\ orphans' = orphans \union {j \in Jobs : jobs[j].status = "running"}
    /\ UNCHANGED <<now, jobs, starts>>

TickStep(t) == FinishJob(t) \/ BeginRecurring(t) \/ FinishRecurring(t)

Next ==
    \/ \E type \in Types : RegisterHandler(type) \/ UnregisterHandler(type)
    \/ \E j \in Jobs : Cancel(j) \/ \E at \in now .. MaxTime : Schedule(j, at)
    \/ ScheduleRecurring
    \/ \E r \in DOMAIN recurring : CancelRecurring(r)
    \/ Start \/ Stop
    \/ \E t \in Ticks : StartTick(t) \/ TickStep(t)
    \/ Pass \/ Crash

Spec == Init /\ [][Next]_vars

\* The clock runs, the timer fires while it is set, and _runWithTimeout ends
\* every await.
Fairness ==
    /\ WF_vars(Pass)
    /\ WF_vars(\E t \in Ticks : StartTick(t))
    /\ \A t \in Ticks : WF_vars(TickStep(t))

FairSpec == Spec /\ Fairness

-----------------------------------------------------------------------------
Row == [status : Statuses, attempts : Nat, at : Times, created : Times]
Snapshot == [id : Jobs, attempts : Nat]
Tick == [phase : {"idle", "jobs", "after", "recurring"}, now : Times, todo : Seq(Snapshot), pos : Nat]

TypeOK ==
    /\ now \in Times
    /\ jobs \in [Jobs -> Row]
    /\ recurring \in Seq([nextRunAt : Times, active : BOOLEAN])
    /\ Len(recurring) <= Len(RecurringTypes)
    /\ handlers \subseteq Types
    /\ running \in BOOLEAN
    /\ ticks \in [Ticks -> Tick]
    /\ \A t \in Ticks :
        /\ ticks[t].phase = "jobs" <=> ticks[t].todo # <<>>
        /\ ticks[t].phase = "recurring" => ticks[t].pos \in DOMAIN recurring
    /\ starts \in [Jobs -> Nat]
    /\ orphans \subseteq Jobs
    /\ crashes \in 0 .. MaxCrashes

\* The tick holds job j: it is running it, or has read its row and will.
Holds(t, j) == \E i \in DOMAIN ticks[t].todo : ticks[t].todo[i].id = j

Executes(t, j) == ticks[t].todo # <<>> /\ Head(ticks[t].todo).id = j

\* The attempts of a row count the calls of its handler, however many ticks that
\* read the row with an older count start it (index.ts:221).
AttemptsCountStarts == \A j \in Jobs : HasRow(j) => jobs[j].attempts = starts[j]

\* A job is given up only after its handler was called maxAttempts times, although
\* the decision is taken from the count the tick read (index.ts:239).
FailedWasTried == \A j \in Jobs : jobs[j].status = "failed" => starts[j] >= MaxAttempts

\* A row says running only while a tick awaits its handler, or for ever when the
\* process died meanwhile: no path of _processJobs leaves it behind (index.ts:217).
RunningIsExecuted == \A j \in Jobs :
    jobs[j].status = "running" => j \in orphans \/ \E t \in Ticks : Executes(t, j)

\* A row that is settled, or was orphaned by a crash, changes no more once no
\* tick holds it, except that a settled one is deleted: only a tick that read it
\* before can start it again (index.ts:195, 221).
UnheldIsFinal == [][\A j \in Jobs :
    /\ jobs[j].status \in Settled \union {"running"}
    /\ \A t \in Ticks : ~Holds(t, j)
    => jobs'[j] = jobs[j] \/ (jobs[j].status \in Settled /\ jobs'[j].status = "deleted")]_vars

Pending(j) == jobs[j].status = "pending"

\* While the scheduler runs and j has a handler, j does not stay pending, failing
\* handlers and overlapping ticks notwithstanding, as long as the due rows without
\* a handler do not fill the batch a tick reads (index.ts:195, 218).
PendingIsServed == \A j \in Jobs :
    <>[](/\ running /\ TypeOf[j] \in handlers
         /\ Cardinality({k \in Jobs : Pending(k) /\ TypeOf[k] \notin handlers}) < BatchSize)
    => <>[]~Pending(j)

\* While the scheduler runs, a recurring job with a handler runs again and again,
\* whatever the other jobs' handlers do (index.ts:277).
RecurringRunsAgain == \A r \in DOMAIN RecurringTypes :
    <>[](running /\ RecurringTypes[r] \in handlers /\ r \in DOMAIN recurring /\ recurring[r].active)
    => []<>(\E t \in Ticks : ticks[t].phase = "recurring" /\ ticks[t].pos = r)
=============================================================================
