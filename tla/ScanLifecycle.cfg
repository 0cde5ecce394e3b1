SPECIFICATION Spec
CONSTANTS
    Jobs = {j1, j2}
    Workers = {w1}
    NoJob = NoJob
    NoWorker = NoWorker
    N = 2
    PageSize = 2
    SliceMaxPages = 1
    MaxMessages = 2
    MaxGen = 2
    MaxFaults = 1
    DelayedStatements = FALSE
SYMMETRY JobSymmetry
INVARIANTS
    OneActiveJob
    SessionIsCurrent
    ActiveJobUsesCurrentLogin
    MarkersAreOfTheRunningJob
PROPERTIES
    PruneSparesSteady
    ExhaustedMeansImported
    TerminalIsFinal
CHECK_DEADLOCK FALSE
