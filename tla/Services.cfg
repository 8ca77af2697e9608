INIT MCInit
NEXT MCNext
CONSTANTS
    RecoverySamples = 2
    CacheTicks = 1
    MaxAge = 1
    MaxTime = 4
    Commands = {1}
    Directories = {1}
    MaxBranch = 2
    MaxHead = 2
    MaxModels = 1
    Tokens = {1, 2}
    Depth = 0
    MaxHeight = 2
    MaxLedgerForks = 1
    MaxReads = 1
    Clerks = {1, 2}
    Windows = {4, 5}
    MaxHour = 5
    MaxRevisions = 1
    MaxReports = 2
    Samplers = {1, 2}
    SourceTtl = 0
    VerifyTtl = 0
    RowTtl = 1
    MaxGasTime = 2
    MaxGasForks = 1
    MaxMark = 2
    MaxGasReports = 2
    Narrow = TRUE
INVARIANTS
    CostsOnOneBranch
    GasRowsSound
    
    AssessmentsAgree
    SwapSound
    CircuitSound
    EntryVouched
    EnumerationTrue
CHECK_DEADLOCK FALSE
