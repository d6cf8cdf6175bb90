----------------------------- MODULE Occupancy -----------------------------
(***************************************************************************)
(* packages/shared/src/domain/occupancy.ts: everything a zone shows is     *)
(* derived from (capacity, occupied). Percentages are kept to two decimals *)
(* by round2, so here they are integers in hundredths of a point: 80 % is  *)
(* 8000.                                                                   *)
(***************************************************************************)
EXTENDS Integers

(* Math.round of n / d for naturals, halves upwards.                       *)
Round(n, d) == (2 * n + d) \div (2 * d)

(* 0 <= occupied <= capacity, whatever was reported.                       *)
ClampOccupied(occupied, capacity) ==
  IF occupied < 0 THEN 0
  ELSE IF occupied > capacity THEN capacity
  ELSE occupied

CalculateAvailable(capacity, occupied) ==
  capacity - ClampOccupied(occupied, capacity)

(* round2(occupied / capacity * 100).                                      *)
CalculateOccupancy(occupied, capacity) ==
  Round(10000 * ClampOccupied(occupied, capacity), capacity)

(* The status of a zone from its occupancy, under the thresholds            *)
(* [normal, warning, critical, full].                                      *)
DetermineStatus(occupancy, t) ==
  IF occupancy >= t.full THEN "FULL"
  ELSE IF occupancy >= t.critical THEN "CRITICAL"
  ELSE IF occupancy >= t.warning THEN "WARNING"
  ELSE IF occupancy >= t.normal THEN "NORMAL"
  ELSE "LOW"

(* The direction of a change, in hundredths of a point.                    *)
DetermineTrend(delta, threshold) ==
  IF delta >= threshold THEN "RISING"
  ELSE IF delta <= -threshold THEN "FALLING"
  ELSE "STABLE"

============================================================================
