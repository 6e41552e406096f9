\* No fault at all: one user claims and leaves a lead.
SPECIFICATION Spec
CONSTANTS
    Users = {u1}
    NoUser = NoUser
    Copies = {c1}
    Workers = {w1}
    Total = 1
    MaxOrders = 1
    MaxOutboxRetries = 1
    MaxMsgRetries = 0
    TimelyTimeouts = TRUE
    FaultBound <- Bounds
    MaxKinds = 1
    Restarts = 0
    Connections = 0
    Expiries = 0
    DbErrors = 0
    LostMarks = 0
    RedisErrors = 0
    PublishErrors = 0
    Reconciliations = 0
INVARIANT HandledLeadIsDeducted
CHECK_DEADLOCK FALSE
