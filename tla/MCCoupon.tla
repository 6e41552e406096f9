------------------------------- MODULE MCCoupon -------------------------------
(* Instances of CouponSystem for TLC. *)
EXTENDS CouponSystem, TLC

CONSTANTS Restarts, Connections, Expiries, DbErrors, LostMarks, RedisErrors,
          PublishErrors, Reconciliations

Bounds ==
    [ f \in Fault |->
        CASE f = "restart"    -> Restarts
          [] f = "connection" -> Connections
          [] f = "expiry"     -> Expiries
          [] f = "db"         -> DbErrors
          [] f = "mark"       -> LostMarks
          [] f = "redis"      -> RedisErrors
          [] f = "publish"    -> PublishErrors
          [] f = "reconcile"  -> Reconciliations ]

Symmetry == Permutations(Users) \cup Permutations(Copies) \cup Permutations(Workers)

=============================================================================
