---------------------------- MODULE MCZoneAlerts ----------------------------
(***************************************************************************)
(* Instance of ZoneAlerts for TLC: a zone of 50 spaces (each one is 2 %,   *)
(* so that readings fall on every threshold and inside every hysteresis    *)
(* band) under the thresholds of config/thresholds.json.                   *)
(***************************************************************************)
EXTENDS ZoneAlerts

AroundThresholds == {38, 39, 40, 43, 44, 45, 49, 50}

OneOfEach == [crash |-> 1, abandon |-> 1]
=============================================================================
