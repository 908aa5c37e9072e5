\* Each of the three parts on its own, from every state it starts in.
\* A key that one role has, and one that only the tables know; two valid roles and
\* an invalid one.
SPECIFICATION MCSpec
CONSTANTS
    Users = {"u1"}
    Requests = {r1, r2}
    MaxFailed = 2
    LockDuration = 2
    PinLimits = {6, 9}
    KeysChanged = {"min", "max"}
    RoleNames = {"OPERATOR", "COURIER", "GUEST"}
    Keys = {"cc.view", "retired"}
    Known = {"cc.view"}
    Fallback <- MCFallback
    Addresses = {a1, a2}
    Limit = 2
    Window = 1
    CleanEvery = 2
    MaxTime = 6
    NoEntry = NoEntry
INVARIANTS AccessInv LockFollowsAttempts PermissionsInv
PROPERTIES ImplementsLoginWindow LocksEnd
