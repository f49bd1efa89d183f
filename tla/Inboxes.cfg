SPECIFICATION InboxesSpec
CONSTANTS
    m1 = m1
    m2 = m2
    m3 = m3
    id1 = id1
    id2 = id2
    tA = tA
    tB = tB
    text = text
    Msg = {m1, m2, m3}
    IdOf <- SomeIds
    TenantOf <- SomeTenants
    KeyOf <- OneKey
    Handler = {h1, h2}
    NoMsg = NoMsg
    RetentionOn = TRUE
    Retention = 1
    Horizon = 1
    MaxCrashes = 1
    DedupId = {k1, k2, k3}
    Capacity = 2
    NoId = NoId
    Never = Never
    MaxTick = 6
SYMMETRY HandlerSymmetry
INVARIANTS
    TypeOK
    EffectOnce
    SkippedForACause
    ProcessedHadEffect
    MapsAgree
    EvictsLeastRecent
CHECK_DEADLOCK FALSE
