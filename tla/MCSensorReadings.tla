-------------------------- MODULE MCSensorReadings --------------------------
(***************************************************************************)
(* Instance of SensorReadings for TLC: a zone of two or three spaces, and  *)
(* days of a few ticks that begin after midnight. The entry of the         *)
(* schedule that crosses midnight is not the last one, and a tick ends     *)
(* exactly where an entry begins.                                          *)
(***************************************************************************)
EXTENDS SensorReadings

Entry(from, to, name) == [from |-> from * 60, to |-> to * 60, profile |-> name]

ThreeProfiles == <<Entry(6, 12, "HIGH_ENTRY"), Entry(20, 6, "LOW"), Entry(12, 20, "STABLE")>>
==============================================================================
