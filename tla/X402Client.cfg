SPECIFICATION ScenarioSpec
CONSTANTS
    r1 = r1
    r2 = r2
    f1 = f1
    f2 = f2
    send = send
    pay = pay
    p1 = p1
    p2 = p2
    None = None
    Requests <- MCRequests
    Fetches <- MCFetches
    Intents <- MCIntents
    IntentOf <- MCIntentOf
    ValueOf <- MCValueOf
    Plans <- MCPlans
    Policies <- MCPolicies
    AmountOf <- MCAmountOf
    CacheTtl = 1
    DayLength = 2
    MaxTime = 3
    PaymentLimit = 1
    PaymentDaily = 1
SYMMETRY Symmetry
INVARIANTS CompletedWasMined  RecordedWasPaid 
PROPERTIES FinalPlansStay
CHECK_DEADLOCK FALSE
