------------------------------ MODULE MCScheduler ------------------------------
(***************************************************************************)
(* Two scenarios, each begun in a state the scheduler reaches: two jobs    *)
(* once the recurring ones are cancelled and the process was restarted;    *)
(* one job beside two recurring ones.                                      *)
(***************************************************************************)
EXTENDS Scheduler

CONSTANTS j1, j2, mail, sweep

MCJobs == {j1, j2}
MCTypes == {mail, sweep}
MCTypeOf == [j \in MCJobs |-> IF j = j1 THEN mail ELSE sweep]
MCRecurringTypes == <<sweep, mail>>

TwoJobs ==
    /\ crashes = MaxCrashes
    /\ recurring = [r \in DOMAIN RecurringTypes |-> [nextRunAt |-> 0, active |-> FALSE]]
    /\ jobs = [j \in Jobs |-> [status |-> "none", attempts |-> 0, at |-> 0, created |-> 0]]

OneJob ==
    /\ crashes = 0
    /\ recurring = <<>>
    /\ jobs = [j \in Jobs |-> [status |-> IF j = j1 THEN "none" ELSE "deleted",
                               attempts |-> 0, at |-> 0, created |-> 0]]

ScenarioInit ==
    /\ now = 0
    /\ handlers = {}
    /\ running = FALSE
    /\ ticks = [t \in Ticks |-> Idle]
    /\ starts = [j \in Jobs |-> 0]
    /\ orphans = {}
    /\ TwoJobs \/ OneJob

ScenarioSpec == ScenarioInit /\ [][Next]_vars /\ Fairness
=============================================================================
