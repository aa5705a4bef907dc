SPECIFICATION Spec
CONSTANTS
    q1 = q1
    q2 = q2
    q3 = q3
    q4 = q4
    Requests = {q1, q2, q3, q4}
    DayLength = 3
    CountLimit = 4
    MaxSkew = 1
    Downtime = 2
    MaxTime = 6
    MaxRestarts = 1
SYMMETRY Interchangeable
CHECK_DEADLOCK FALSE
INVARIANT UniqueIds
