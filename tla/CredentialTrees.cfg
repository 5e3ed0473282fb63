SPECIFICATION ScenarioSpec
CONSTANTS
    c1 = c1
    c2 = c2
    c3 = c3
    v1 = v1
    v2 = v2
    Nil = Nil
    Processes = {server}
    Credentials <- MCCredentials
    Revocations <- MCRevocations
    MaxLeaves = 2
    MaxCrashes = 2
SYMMETRY Symmetry
INVARIANTS    SharedIdNeedsOverlap
CHECK_DEADLOCK FALSE
