SPECIFICATION ScanningSpec
CONSTANTS
    o1 = o1  o2 = o2  o3 = o3  u1 = u1  u2 = u2  v1 = v1  v2 = v2
    OrderIds = {o1, o3}
    Users = {u1, u2}
    Vouchers = {v1}
    UserOf <- RivalUsers
    VoucherOf <- OneVoucher
    InitStock <- OneUnit
    OrderConsumers = {c1}
    CancelConsumers = {k1}
    Pollers = {p1}
    MaxFaults = 0
    PreheatValues = {}
    SchedulingEnabled = FALSE
    PromptConsumption = TRUE
    RedisForgets = FALSE
    None = None
    Orphan = Orphan
CHECK_DEADLOCK FALSE
PROPERTIES UnpaidIsSettled
