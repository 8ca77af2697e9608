INIT MCInit
NEXT MCNext
CONSTANTS
    Requests = {1, 2}
    Bookers = {3}
    PreviewTtl = 3
    CandidateTtl = 2
    GasTtl = 0
    ClaimTtl = 0
    MaxConfTime = 3
    MaxConfForks = 1
    MaxFirsts = 2
    MaxNonce = 7
    MaxAttempts = 1
    CountCap = 2
    MaxManual = 1
    MaxBuild = 2
    MaxPilotNonce = 6
    MaxDeposits = 1
    MaxRecovery = 1
    ReviewLife = 3
    MaxHold = 5
    ReadDelay = 2
    RefreshAfter = 4
    MaxClock = 6
    MaxMarks = 1
    MaxPreviews = 1
    MaxTurns = 1
    MaxCheckpoints = 4
    MaxSessions = 3
    MaxSourceAge = 0
    MaxGap = 1
    PauseTtl = 1
    QuoteTtl = 1
    Budget = 3
    MaxReorgs = 1
    MaxBuilds = 2
    Units = 2
    Cap = 2
    MaxRequests = 18
    Readers = {1, 2}
    MaxReplaced = 1
INVARIANTS
    OpeningConfirmed
    SamplesExact
    SetupsAdmitted
    KeeperFlat
    CreditsBooked
    SessionSound
    ReleasesSound
    
PROPERTIES
    KeeperSteps
    PilotSteps
    StopOutlivesPreflight
CHECK_DEADLOCK FALSE
