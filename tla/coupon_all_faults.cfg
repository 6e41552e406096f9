\* Every kind of fault, two kinds mixed.
SPECIFICATION Spec
CONSTANTS
    Users = {u1}
    NoUser = NoUser
    Copies = {c1, c2}
    Workers = {w1, w2}
    Total = 1
    MaxOrders = 2
    MaxOutboxRetries = 2
    MaxMsgRetries = 1
    TimelyTimeouts = FALSE
    FaultBound <- Bounds
    MaxKinds = 2
    Restarts = 1
    Connections = 1
    Expiries = 1
    DbErrors = 1
    LostMarks = 1
    RedisErrors = 1
    PublishErrors = 2
    Reconciliations = 1
SYMMETRY Symmetry
INVARIANTS TypeOK LedgerBalanced StockNeverNegative
PROPERTIES LockedForGood OutboxGivesUpLate
CHECK_DEADLOCK FALSE
