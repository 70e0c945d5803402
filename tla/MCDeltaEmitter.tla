-------------------------- MODULE MCDeltaEmitter --------------------------
(* The instance TLC checks: two tiers that can be late, one that cannot.   *)
EXTENDS DeltaEmitter

MCInterval == [t \in {"hourly", "daily", "startup"} |->
                 CASE t = "hourly" -> 1 [] t = "daily" -> 2 [] OTHER -> 0]
=============================================================================
