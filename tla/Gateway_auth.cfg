SPECIFICATION Spec
CONSTANTS
    Keys = {1}
    Accounts = {1, 2}
    AdminKeys = {}
    Requests = {r1, r2}
    Admins = {p1, p2}
    Capacity = 1
    Batch = 1
    Invokable <- MCInvokable
    MaxTime = 1
    MaxOps = 3
    MaxRestarts = 1
SYMMETRY Symmetry
INVARIANTS TypeOK RevokeIsFinal RateBound PoolFollowsRows
CHECK_DEADLOCK FALSE
