--------------------------- MODULE MCServiceStatus ---------------------------
(* The publisher with its simulator and the processor, which the health of *)
(* the system depends on. The archiver differs from them by its DEGRADED   *)
(* state only.                                                             *)
EXTENDS ServiceStatus

MCServices == {"publisher", "processor"}
=============================================================================
