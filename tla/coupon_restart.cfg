\* The API process restarts once.
SPECIFICATION Spec
CONSTANTS
    Users = {u1, u2}
    NoUser = NoUser
    Copies = {c1}
    Workers = {w1}
    Total = 1
    MaxOrders = 2
    MaxOutboxRetries = 1
    MaxMsgRetries = 0
    TimelyTimeouts = TRUE
    FaultBound <- Bounds
    MaxKinds = 1
    Restarts = 1
    Connections = 0
    Expiries = 0
    DbErrors = 0
    LostMarks = 0
    RedisErrors = 0
    PublishErrors = 0
    Reconciliations = 0
INVARIANT NeverOversold
CHECK_DEADLOCK FALSE
