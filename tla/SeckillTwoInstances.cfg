SPECIFICATION Spec
CONSTANTS
    o1 = o1  o2 = o2  o3 = o3  u1 = u1  u2 = u2  v1 = v1  v2 = v2
    OrderIds = {o1, o2, o3}
    Users = {u1, u2}
    Vouchers = {v1}
    UserOf <- RivalUsers
    VoucherOf <- OneVoucher
    InitStock <- TwoUnits
    OrderConsumers = {c1, c2}
    CancelConsumers = {k1}
    Pollers = {p1, p2}
    MaxFaults = 1
    PreheatValues = {}
    SchedulingEnabled = TRUE
    PromptConsumption = FALSE
    RedisForgets = FALSE
    None = None
    Orphan = Orphan
CHECK_DEADLOCK FALSE
SYMMETRY Alike
INVARIANTS OneRowPerPurchase OneCancelMessage StockConserved RedisAccountsForEveryUnit 
 
