SPECIFICATION Spec
CONSTANTS
    deployer = deployer
    guardian = guardian
    k1 = k1
    k2 = k2
    k3 = k3
    n1 = n1
    n2 = n2
    Undefined = Undefined
    Accounts <- MCAccounts
    Deployer = deployer
    SigningKeys <- MCSigningKeys
    Guardians <- MCGuardians
    V1Storages <- MCV1Storages
    Storages <- MCStorages
    Scenes <- MCScenes
    CallsOf <- MCCallsOf
    MaxCalls <- MCMaxCalls
    Names <- MCNames
    NewKeys <- MCNewKeys
    File <- MCFile
    Programs <- MCPrograms
    Holders = {"a", "b"}
    Counts = {0, 1, 2}
    Buffers = {2}
    StuckPenaltyDelay = 1
    MaxOperators = 2
    MaxKeys = 6
    MaxNonce = 9
    MaxTime = 3
    MaxDepositsPerBlock = 2
    MinDepositBlockDistance = 1
    PauseIntentValidity = 1
    HashWindow = 2
    MaxDepositerRuns = 2
    MaxFailures = 1
    MaxSessions = 2
    MaxPoolChanges = 4
    MaxProgramRuns = 2
    ToBlock = 0
    MaxLedgerBlock = 1
    MaxLedgerEvents = 6
    MaxImages = 2
    MaxJobStarts = 2
INVARIANTS
    CountersConsistent
    DepositsAreServed
    VettedKeysWereSeen
    CacheIsFreshOrPending
    FileKeysAddedOnce
    ImageIsExact
PROPERTIES
    AttestedKeysDeposited
CHECK_DEADLOCK FALSE
