SPECIFICATION Spec
CONSTANTS
    u1 = u1  u2 = u2  c1 = c1  c2 = c2  c3 = c3
    b1 = b1  b2 = b2  b3 = b3  b4 = b4  q1 = q1  q2 = q2  q3 = q3
    Users = {u1}
    Calls = {}
    CallerOf <- Callers
    Tabs = {u1}
    OwnerOf <- Owners
    TabOf <- Callers
    Blogs = {b1, b2, b3, b4}
    InitFeeds <- ThreeBlogs
    InitTime = 2
    MaxTime = 3
    MaxSkew = 1
    ClientLag = 1
    Viewer = u1
    Rank <- Ranks
    Queries = {q1, q2, q3}
    MaxFaults = 1
SYMMETRY Interchangeable
CHECK_DEADLOCK FALSE
INVARIANTS
    TypeOK ScrollInOrder NothingSkipped EmptyPageIsTheEnd
