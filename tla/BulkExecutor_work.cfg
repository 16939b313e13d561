SPECIFICATION Spec
CONSTANTS
    Accounts = {a1, a2}
    Pools = {{}, {a1, a2}}
    Total = 3
    Keys = {"k"}
    KeyOf <- MCKeyOf
    NoKey = NoKey
    NoAccount = NoAccount
    Lows = {{}, {a1}}
    PerAccount = 1
    MaxAttempts = 2
    MaxParkWaits = 1
    MaxChanges = 1
INVARIANTS TypeOK RefusedNotRetried LateCallsBounded OneResultEach
PROPERTIES MapReturns
CHECK_DEADLOCK FALSE
