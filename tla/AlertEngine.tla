---------------------------- MODULE AlertEngine ----------------------------
(***************************************************************************)
(* apps/processor/src/alerts/alert-engine.ts, the pure part: which alerts  *)
(* of one zone are raised and resolved when it is evaluated. Percentages   *)
(* and the hysteresis are in hundredths of a point.                        *)
(***************************************************************************)
EXTENDS Occupancy, FiniteSets

CONSTANTS
  Warning, Critical, Full,   \* thresholds.occupancy
  AlertHysteresis,           \* thresholds.alertHysteresis
  LowAvailability            \* thresholds.lowAvailability, in spaces

(* What ThresholdsSchema lets through.                                     *)
ASSUME ThresholdsAssumption ==
  /\ Warning \in 1..10000 /\ Critical \in 1..10000 /\ Full \in 1..10000
  /\ Warning < Critical /\ Critical <= Full
  /\ AlertHysteresis \in Nat
  /\ LowAvailability \in Nat

AlertLevels == {"NONE", "WARNING", "CRITICAL", "FULL"}
LevelAlerts == {"OCCUPANCY_WARNING", "HIGH_OCCUPANCY", "PARKING_FULL"}
AlertTypes == LevelAlerts \cup {"LOW_AVAILABILITY", "UNUSUAL_OCCUPANCY_INCREASE"}
CooldownKeys == {"OCCUPANCY", "LOW_AVAILABILITY", "UNUSUAL_OCCUPANCY_INCREASE"}

(* The increase inside the window of unusual growth, null included: under  *)
(* half of unusualIncreasePercent, at least all of it, or in between.      *)
Increases == {"calm", "elevated", "spike"}

LevelRank == [NONE |-> 0, WARNING |-> 1, CRITICAL |-> 2, FULL |-> 3]

LevelThreshold ==
  [NONE |-> 0, WARNING |-> Warning, CRITICAL |-> Critical, FULL |-> Full]

LevelAlert == [WARNING |-> "OCCUPANCY_WARNING", CRITICAL |-> "HIGH_OCCUPANCY",
               FULL |-> "PARKING_FULL"]

RawLevel(occupancy) ==
  IF occupancy >= Full THEN "FULL"
  ELSE IF occupancy >= Critical THEN "CRITICAL"
  ELSE IF occupancy >= Warning THEN "WARNING"
  ELSE "NONE"

(* Mutation: coming down lands one threshold below, not on the raw level.  *)
NextLevelStepwise(current, occupancy) ==
  LET raw == RawLevel(occupancy)
  IN  IF LevelRank[raw] >= LevelRank[current] THEN raw
      ELSE IF occupancy >= LevelThreshold[current] - AlertHysteresis THEN current
      ELSE CHOOSE l \in AlertLevels : LevelRank[l] = LevelRank[current] - 1

(* Going up is immediate, coming down takes threshold - hysteresis.        *)
NextLevel(current, occupancy) ==
  LET raw == RawLevel(occupancy)
  IN  IF \/ LevelRank[raw] >= LevelRank[current]
         \/ occupancy < LevelThreshold[current] - AlertHysteresis
      THEN raw ELSE current

(* A change of level resolves the first level alert found.                 *)
LevelResolves(level, next, active) ==
  IF next = level THEN {}
  ELSE IF "OCCUPANCY_WARNING" \in active THEN {"OCCUPANCY_WARNING"}
  ELSE IF "HIGH_OCCUPANCY" \in active THEN {"HIGH_OCCUPANCY"}
  ELSE active \cap {"PARKING_FULL"}

(* Mutation: an alert that the level demands is not looked for again.      *)
LevelRaisesOnChangeOnly(level, next, active, cooldowns) ==
  {LevelAlert[l] : l \in {m \in AlertLevels \ {"NONE"} :
     /\ m = next
     /\ next # level
     /\ ~(level = "NONE" /\ next = "WARNING" /\ "OCCUPANCY" \in cooldowns)}}

(* It raises the alert of the new level, except a first warning during the *)
(* cooldown. A level that stays raises the alert it lacks.                 *)
LevelRaises(level, next, active, cooldowns) ==
  {LevelAlert[l] : l \in {m \in AlertLevels \ {"NONE"} :
     /\ m = next
     /\ IF next # level
        THEN level = "NONE" /\ next = "WARNING" => "OCCUPANCY" \notin cooldowns
        ELSE active \cap LevelAlerts = {} /\ "OCCUPANCY" \notin cooldowns}}

(* The level alert in force is resolved as RECOVERED.                      *)
Recovers(level, next, active) ==
  level # next /\ next = "NONE" /\ active \cap LevelAlerts # {}

(* Math.max(1, Math.round(alertHysteresis)), in spaces.                    *)
LowHysteresis ==
  LET rounded == Round(AlertHysteresis, 100)
  IN  IF rounded < 1 THEN 1 ELSE rounded

LowRaised(next, active, cooldowns, available) ==
  /\ "LOW_AVAILABILITY" \notin active \cup cooldowns
  /\ available <= LowAvailability
  /\ next # "FULL"

LowReplaced(next, active) == "LOW_AVAILABILITY" \in active /\ next = "FULL"

LowCleared(next, active, available) ==
  /\ "LOW_AVAILABILITY" \in active
  /\ next # "FULL"
  /\ available > LowAvailability + LowHysteresis

(* Mutation: the alert already active is not asked for.                    *)
UnusualRaisedAgain(active, cooldowns, increase) ==
  /\ "UNUSUAL_OCCUPANCY_INCREASE" \notin cooldowns
  /\ increase = "spike"

UnusualRaised(active, cooldowns, increase) ==
  /\ "UNUSUAL_OCCUPANCY_INCREASE" \notin active \cup cooldowns
  /\ increase = "spike"

UnusualCleared(active, increase) ==
  "UNUSUAL_OCCUPANCY_INCREASE" \in active /\ increase = "calm"

Only(type, condition) == IF condition THEN {type} ELSE {}

(* evaluateZoneAlerts: the three parts above, in one result.               *)
EvaluateZoneAlerts(level, active, cooldowns, occupied, capacity, increase) ==
  LET next == NextLevel(level, CalculateOccupancy(occupied, capacity))
      available == CalculateAvailable(capacity, occupied)
      low == "LOW_AVAILABILITY"
      unusual == "UNUSUAL_OCCUPANCY_INCREASE"
  IN  [level     |-> next,
       raise     |-> LevelRaises(level, next, active, cooldowns)
                     \cup Only(low, LowRaised(next, active, cooldowns, available))
                     \cup Only(unusual, UnusualRaised(active, cooldowns, increase)),
       resolve   |-> LevelResolves(level, next, active)
                     \cup Only(low, \/ LowReplaced(next, active)
                                    \/ LowCleared(next, active, available))
                     \cup Only(unusual, UnusualCleared(active, increase)),
       recovered |-> Recovers(level, next, active),
       cooldowns |-> Only("OCCUPANCY", Recovers(level, next, active))
                     \cup Only(low, LowCleared(next, active, available))
                     \cup Only(unusual, UnusualCleared(active, increase))]
============================================================================
