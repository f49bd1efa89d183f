SPECIFICATION FairSpec
CONSTANTS
    m1 = m1
    m2 = m2
    i1 = i1
    t1 = t1
    t2 = t2
    c1 = c1
    s1 = s1
    s2 = s2
    Msg = {m1, m2}
    MsgId = {i1}
    Tenant = {t1, t2}
    IdOf <- SomeIds
    TenantOf <- SomeTenants
    Consumer = {c1}
    Session = {s1, s2}
    ConsumerOf <- SomeConsumers
    NoMsg = NoMsg
    NoClaim = NoClaim
    RetentionOn = TRUE
    Retention = 2
    Horizon = 2
    MaxAborts = 2
    StoreCap = 1
INVARIANTS
    InboxTypeOK
    EffectOnce
    ClaimIffEffect
    NothingSuppressedByARow
    InboxInv
PROPERTIES
    EffectFollows
CHECK_DEADLOCK FALSE
