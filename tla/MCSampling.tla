----------------------------- MODULE MCSampling -----------------------------
(***************************************************************************)
(* Instance of Sampling for TLC: windows of one and two steps, and one     *)
(* step more for the TTL and the history, as 15 and 16 minutes are. The    *)
(* stream keeps as many samples as the history has steps, so that it is    *)
(* trimmed before the clock stops.                                         *)
(***************************************************************************)
EXTENDS Sampling

MCCounts == {0, 2}
MCLengths == {1, 2}
=============================================================================
