---------------------------- MODULE MCDashboard ----------------------------
(* One zone and the simulator. An alert slot changes, travels and is       *)
(* reloaded as a zone is, but for the catch-up.                            *)
EXTENDS Dashboard

CONSTANTS z1

MCZones == {z1}
NoAlerts == {}
=============================================================================
