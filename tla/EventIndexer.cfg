SPECIFICATION Spec
CONSTANTS
    c1 = c1
    c2 = c2
    Contracts <- MCContracts
    BlockChunk = 2
    MaxScan = 2
    MaxBlock = 4
    MaxFailures = 1
    MaxReindexes = 1
    MaxCrashes = 1
INVARIANTS PassedIsAccounted
PROPERTIES ReindexFillsGaps EventuallyIndexed
