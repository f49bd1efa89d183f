SPECIFICATION Spec
CONSTANTS
    Row = {r1, p}
    FirstRow = r1
    Poison = {p}
    CreatedAt <- SameCreatedAt
    Relay = {w1, w2}
    Owner = {o1, o2, o3, o4}
    NoOwner = NoOwner
    NoRow = NoRow
    BatchSize = 2
    MaxAttempts = 2
    ClaimTTL = 2
    MaxBackoff = 1
    DupWindow = 2
    RetentionOn = TRUE
    Retention = 1
    PromptBatches = FALSE
    Faults = {"crash", "db", "slow", "stop"}
    MaxFaults = 2
    MaxLate = 1
    StoreCap = 2
SYMMETRY RelaySymmetry
INVARIANTS
    PublishedWasStored
    DrainInv
PROPERTIES
    FencedByOwner
    TerminalIsFinal
    NoStrandedLease
    ImplementsDelivery
CHECK_DEADLOCK FALSE
