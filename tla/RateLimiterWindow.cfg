SPECIFICATION Spec
CONSTANTS
    q1 = q1
    q2 = q2
    q3 = q3
    q4 = q4
    Requests = {q1, q2, q3, q4}
    UserOf <- Users
    IpOf <- OneIp
    LimitType = "COMBINED"
    Window = 4
    Limit = 2
    Suffixes = {1, 2}
    MaxSkew = 1
    MaxDelay = 1
    MaxTime = 5
    MaxFaults = 1
SYMMETRY Interchangeable
CHECK_DEADLOCK FALSE
INVARIANTS TypeOK SlidingWindow
