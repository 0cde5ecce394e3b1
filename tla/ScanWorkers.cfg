SPECIFICATION FairSpec
CONSTANTS
    Jobs = {j1}
    Workers = {w1, w2}
    NoJob = NoJob
    NoWorker = NoWorker
    N = 2
    PageSize = 1
    SliceMaxPages = 2
    MaxMessages = 2
    MaxGen = 1
    MaxFaults = 1
    DelayedStatements = TRUE
INVARIANTS
    ScannerInStep
PROPERTIES
    StopEndsTheJob
    EveryScanEnds
CHECK_DEADLOCK FALSE
