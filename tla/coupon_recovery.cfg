\* Crashes, lost connections, lost marks and publish errors, with fairness.
SPECIFICATION FairSpec
CONSTANTS
    Users = {u1}
    NoUser = NoUser
    Copies = {c1}
    Workers = {w1}
    Total = 1
    MaxOrders = 2
    MaxOutboxRetries = 2
    MaxMsgRetries = 0
    TimelyTimeouts = TRUE
    FaultBound <- Bounds
    MaxKinds = 2
    Restarts = 1
    Connections = 1
    Expiries = 0
    DbErrors = 0
    LostMarks = 1
    RedisErrors = 0
    PublishErrors = 1
    Reconciliations = 0
INVARIANT ClaimedOrderIsTracked
PROPERTIES EveryClaimResolved EveryReleaseReturnsStock
CHECK_DEADLOCK FALSE
