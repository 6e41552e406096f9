\* No fault at all: a lead races the timeout of its order.
SPECIFICATION Spec
CONSTANTS
    Users = {u1, u2}
    NoUser = NoUser
    Copies = {c1}
    Workers = {w1}
    Total = 1
    MaxOrders = 2
    MaxOutboxRetries = 1
    MaxMsgRetries = 0
    TimelyTimeouts = TRUE
    FaultBound <- Bounds
    MaxKinds = 1
    Restarts = 0
    Connections = 0
    Expiries = 0
    DbErrors = 0
    LostMarks = 0
    RedisErrors = 0
    PublishErrors = 0
    Reconciliations = 0
INVARIANT LockedUnitIsKept
CHECK_DEADLOCK FALSE
