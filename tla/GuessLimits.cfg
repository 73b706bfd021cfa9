SPECIFICATION PartsSpec
CONSTANTS
    Requests = {v1, v2}
    ThresholdShort = 2
    ThresholdLong = 3
    DurationShort = 1
    DurationLong = 2
    CounterWindow = 2
    MaxSwapAttempts = 2
    MaxTime = 5
    MaxGuesses = 5
    MaxFaults = 1
SYMMETRY Symmetry
INVARIANTS
    UserCodesHold
    PatientClientIsSafe
    FailuresAreCounted
    LateGuessesBounded
    MailedCodesHold
    SendsAreLimited
PROPERTIES
    LocksAreTheKeysOwn
    LockNeverShortened
CHECK_DEADLOCK FALSE
