SPECIFICATION FairSpec
CONSTANTS
    Row = {r1, r2}
    FirstRow = r1
    Poison = {}
    CreatedAt <- SomeCreatedAt
    Relay = {w1, w2}
    Owner = {o1, o2, o3, o4}
    NoOwner = NoOwner
    NoRow = NoRow
    BatchSize = 2
    MaxAttempts = 2
    ClaimTTL = 2
    MaxBackoff = 2
    DupWindow = 5
    RetentionOn = FALSE
    Retention = 1
    PromptBatches = TRUE
    Faults = {"crash", "db", "stop"}
    MaxFaults = 1
    MaxLate = 0
    StoreCap = 2
INVARIANTS
    StoredOnce
    SinglePublisher
PROPERTIES
    Resolved
CHECK_DEADLOCK FALSE
