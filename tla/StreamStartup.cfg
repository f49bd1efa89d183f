SPECIFICATION StartupSpec
CONSTANTS
    Deployment = {d1, d2}
    Env <- SomeEnv
    Unset = Unset
    Typo = Typo
    Edits <- SomeEdits
    NoStream = NoStream
    U64 = 15
    I64 = 7
    SecsPerHour = 3
    MsPerSec = 2
    NanosPerMs = 2
    DefaultMaxAge = 36
    MaxBackoff = 8
    MaxFaults = 2
INVARIANTS
    StartupTypeOK
    LeasesAreCovered
    PlaintextIsDeliberate
    AgesAreKept
PROPERTIES
    EventuallyDrains
CHECK_DEADLOCK FALSE
