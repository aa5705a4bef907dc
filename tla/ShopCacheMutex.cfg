SPECIFICATION Spec
CONSTANTS
    i1 = i1
    i2 = i2
    r1 = r1
    r2 = r2
    w1 = w1
    k2 = k2
    None = None
    Instances = {i1, i2}
    Readers = {r1, r2}
    Writers = {w1}
    RetryConsumers = {k2}
    InstanceOf <- InstanceOfThread
    InitVersions = {1}
    MaxVersion = 1
    MaxFaults = 0
INVARIANTS DbQueryIsExclusive
