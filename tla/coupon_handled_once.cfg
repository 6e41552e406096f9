\* Every timeout handled once, with MySQL, Redis and publish errors.
SPECIFICATION Spec
CONSTANTS
    Users = {u1, u2}
    NoUser = NoUser
    Copies = {c1, c2}
    Workers = {w1, w2}
    Total = 2
    MaxOrders = 2
    MaxOutboxRetries = 2
    MaxMsgRetries = 1
    TimelyTimeouts = TRUE
    FaultBound <- Bounds
    MaxKinds = 3
    Restarts = 0
    Connections = 0
    Expiries = 1
    DbErrors = 1
    LostMarks = 0
    RedisErrors = 1
    PublishErrors = 1
    Reconciliations = 0
SYMMETRY Symmetry
INVARIANTS StockConserved WaitingOrderHoldsKey OneOpenOrderPerUser
PROPERTY ImplementsLedger
CHECK_DEADLOCK FALSE
