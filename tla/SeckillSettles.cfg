SPECIFICATION FairSpec
CONSTANTS
    o1 = o1  o2 = o2  o3 = o3  u1 = u1  u2 = u2  v1 = v1  v2 = v2
    OrderIds = {o1, o3}
    Users = {u1, u2}
    Vouchers = {v1}
    UserOf <- RivalUsers
    VoucherOf <- OneVoucher
    InitStock <- OneUnit
    OrderConsumers = {c1, c2}
    CancelConsumers = {k1}
    Pollers = {p1}
    MaxFaults = 1
    PreheatValues = {2}
    SchedulingEnabled = TRUE
    PromptConsumption = TRUE
    RedisForgets = TRUE
    None = None
    Orphan = Orphan
CHECK_DEADLOCK FALSE
INVARIANTS TypeOK ListenerInv
PROPERTIES LedgerSpec DroppedForAReason SavedWithoutFaults ListenersReturn UserLockIsFreed
