----------------------------- MODULE MCTelemetry -----------------------------
(***************************************************************************)
(* The instance of Telemetry that TLC checks: in one partition a message   *)
(* can follow another, and the other partition shares the cache.           *)
(***************************************************************************)
EXTENDS TelemetryProperties

CONSTANTS p1, p2

TwoPartitions == {p1, p2}
TwoAndOne     == [p \in TwoPartitions |-> IF p = p1 THEN 2 ELSE 1]
OneVehicleTwoSDs == [veh |-> 1, sd |-> 2]
=============================================================================
