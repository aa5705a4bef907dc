SPECIFICATION Spec
CONSTANTS
    u1 = u1  u2 = u2  c1 = c1  c2 = c2  c3 = c3
    b1 = b1  b2 = b2  b3 = b3  b4 = b4  q1 = q1  q2 = q2  q3 = q3
    Users = {u1, u2}
    Calls = {c1, c2, c3}
    CallerOf <- Callers
    Tabs = {u1, u2}
    OwnerOf <- Owners
    TabOf <- Callers
    Blogs = {b4}
    InitFeeds <- NoBlogs
    InitTime = 1
    MaxTime = 1
    MaxSkew = 0
    ClientLag = 1
    Viewer = u1
    Rank <- Ranks
    Queries = {}
    MaxFaults = 1
CHECK_DEADLOCK FALSE
INVARIANTS
    LikesDrift LikeCanBeTakenBack
    FollowsAgree  FollowersGetTheBlog
