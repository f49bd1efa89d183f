SPECIFICATION CoreInTurns
CONSTANTS
    r1 = r1
    r2 = r2
    r3 = r3
    r4 = r4
    tA = tA
    tB = tB
    key = key
    WellFormed <- SomeWords
    Uuids <- SomeUuids
    VersionOf <- SomeVersions
    VersionToken <- SomeVersionTokens
    None = None
    Row = {r1, r2, r3, r4}
    Choices <- SomeChoices
    Drainer = {d1, d2}
    BatchSize = 2
    MaxFaults = 1
    Handler = {h1, h2}
    Mutating = {r1, r2, r4}
    NoRow = NoRow
    MaxNow = 2
SYMMETRY HandlerSymmetry
INVARIANTS
    CoreTypeOK
    OutcomeIsHonest
    OncePerBusinessKey
    StoredIsReceivable
    GatedEffects
CHECK_DEADLOCK FALSE
