SPECIFICATION FairSpec
CONSTANTS
    Row = {r1, p, q}
    FirstRow = p
    Poison = {p, q}
    CreatedAt <- SomeCreatedAt
    Service = {w1, w2}
    NoRow = NoRow
    BatchSize = 2
    MaxBackoff = 2
    AttemptsCap = 2
    Faults = {"crash", "db", "connection"}
    MaxFaults = 2
    StoreCap = 1
INVARIANTS
    TypeOK
    SinglePublisher
    CompatInv
PROPERTIES
    ImplementsDelivery
    EventuallyPublished
