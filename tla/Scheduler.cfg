SPECIFICATION ScenarioSpec
CONSTANTS
    j1 = j1
    j2 = j2
    mail = mail
    sweep = sweep
    Jobs <- MCJobs
    Types <- MCTypes
    TypeOf <- MCTypeOf
    RecurringTypes <- MCRecurringTypes
    Ticks = {1, 2}
    BatchSize = 2
    MaxAttempts = 2
    Backoff = 1
    Interval = 1
    Retention = 0
    MaxTime = 1
    MaxCrashes = 1
INVARIANT RunningIsExecuted
PROPERTIES UnheldIsFinal PendingIsServed RecurringRunsAgain
CHECK_DEADLOCK FALSE
