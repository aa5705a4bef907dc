SPECIFICATION FairSpec
CONSTANTS
    i1 = i1
    i2 = i2
    r1 = r1
    r2 = r2
    w1 = w1
    k2 = k2
    None = None
    Instances = {i1, i2}
    Readers = {r1, r2}
    Writers = {w1}
    RetryConsumers = {k2}
    InstanceOf <- InstanceOfThread
    InitVersions = {0, 1}
    MaxVersion = 2
    MaxFaults = 1
INVARIANTS TypeOK RedisStaleOnlyByRace LocalStaleOnlyByRace
PROPERTIES CachesConverge QueriesReturn LockIsFreed
