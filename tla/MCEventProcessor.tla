-------------------------- MODULE MCEventProcessor --------------------------
(* Two car zones and two versions of config/zones.json: one of them has a  *)
(* space less in z1 and does not have z2. Half of two spaces is CRITICAL,  *)
(* so that a zone can leave FULL without leaving the upper categories.     *)
EXTENDS EventProcessor

CONSTANTS z1, z2

MCZones == {z1, z2}
MCVehicleType == [z \in MCZones |-> "CAR"]
MCConfigs == {[z \in MCZones |-> IF z = z1 THEN 2 ELSE 1], [z \in {z1} |-> 1]}
MCThresholds == [normal |-> 2000, warning |-> 4000, critical |-> 5000, full |-> 10000]
=============================================================================
