-------------------------- MODULE ZoneAlertsProofs --------------------------
(***************************************************************************)
(* Proofs about AlertEngine and ZoneAlerts for every capacity, threshold,  *)
(* hysteresis and number of faults. The first part is what one evaluation  *)
(* guarantees, for every occupation. Of the parts about the specification, *)
(* the first holds under any fault, the second one as long as every        *)
(* interrupted event is replayed.                                          *)
(***************************************************************************)
EXTENDS ZoneAlerts, TLAPS

------------------------------------------------------------------------------
(* One evaluation of a zone.                                               *)

(* At most one level alert among some alerts.                              *)
AtMostOneLevel(alerts) == \A a, b \in alerts \cap LevelAlerts : a = b

(* A level and the level alerts beside it.                                 *)
Agree(from, alerts) ==
  \/ from \in {"NONE", "WARNING"} /\ alerts \cap LevelAlerts = {}
  \/ from # "NONE" /\ alerts \cap LevelAlerts = {LevelAlert[from]}

(* Another evaluation of the same occupation would leave the level alone.  *)
AtRest(from, occupancy) == NextLevel(from, occupancy) = from

(* LOW_AVAILABILITY is on for a reason.                                    *)
LowJustified(from, alerts, available) ==
  "LOW_AVAILABILITY" \in alerts =>
    from # "FULL" /\ available <= LowAvailability + LowHysteresis

LEMMA NextLevelType ==
  ASSUME NEW from \in AlertLevels, NEW occupancy
  PROVE  NextLevel(from, occupancy) \in AlertLevels
  BY DEF NextLevel, RawLevel, AlertLevels

(* The level settles in one evaluation: evaluating the same occupation     *)
(* again never moves it, up or down.                                       *)
THEOREM NextLevelSettles ==
  ASSUME NEW from \in AlertLevels, NEW occupancy
  PROVE  AtRest(NextLevel(from, occupancy), occupancy)
  <1> DEFINE raw == RawLevel(occupancy)
  <1>1. raw \in AlertLevels
    BY DEF RawLevel, AlertLevels
  <1>2. LevelRank[raw] >= LevelRank[raw]
    BY <1>1 DEF LevelRank, AlertLevels
  <1>3. CASE NextLevel(from, occupancy) = raw
    BY <1>2, <1>3 DEF AtRest, NextLevel
  <1>4. CASE NextLevel(from, occupancy) = from
    BY <1>4 DEF AtRest
  <1> QED BY <1>3, <1>4 DEF NextLevel

(* A level at rest is never under the raw one, nor above its threshold by  *)
(* more than the hysteresis.                                               *)
THEOREM AtRestIsInBand ==
  ASSUME NEW from \in AlertLevels, NEW occupancy \in Int, AtRest(from, occupancy)
  PROVE  /\ LevelRank[from] >= LevelRank[RawLevel(occupancy)]
         /\ from # "NONE" => occupancy >= LevelThreshold[from] - AlertHysteresis
  <1> DEFINE raw == RawLevel(occupancy)
  <1>1. raw \in AlertLevels
    BY DEF RawLevel, AlertLevels
  <1>2. raw # "NONE" => occupancy >= LevelThreshold[raw]
    BY DEF RawLevel, LevelThreshold
  <1>3. \A l \in AlertLevels : LevelRank[l] \in Nat /\ LevelThreshold[l] \in Nat
    <2>1. Warning \in Nat /\ Critical \in Nat /\ Full \in Nat
      BY ThresholdsAssumption
    <2>2. \A l \in AlertLevels : LevelRank[l] \in Nat
      BY DEF LevelRank, AlertLevels
    <2>3. \A l \in AlertLevels : LevelThreshold[l] \in Nat
      BY <2>1 DEF LevelThreshold, AlertLevels
    <2> QED BY <2>2, <2>3
  <1> HIDE DEF raw
  <1>4. CASE raw = from
    BY <1>1, <1>2, <1>3, <1>4, ThresholdsAssumption DEF raw
  <1>5. CASE raw # from
    <2>1. /\ ~(LevelRank[raw] >= LevelRank[from])
          /\ ~(occupancy < LevelThreshold[from] - AlertHysteresis)
      BY <1>5 DEF AtRest, NextLevel, raw
    <2> QED BY <1>1, <1>3, <2>1, ThresholdsAssumption DEF raw
  <1> QED BY <1>4, <1>5

(* Percentages and rooms are integers.                                     *)
LEMMA OccupancyType ==
  ASSUME NEW capacity \in Nat \ {0}, NEW count \in Int
  PROVE  /\ CalculateOccupancy(count, capacity) \in Int
         /\ CalculateAvailable(capacity, count) \in Int
  <1>1. ClampOccupied(count, capacity) \in Int
    BY DEF ClampOccupied
  <1>2. CalculateAvailable(capacity, count) \in Int
    BY <1>1 DEF CalculateAvailable
  <1>3. ASSUME NEW n \in Int, NEW d \in Nat \ {0} PROVE n \div d \in Int
    OBVIOUS
  <1>4. /\ 2 * (10000 * ClampOccupied(count, capacity)) + capacity \in Int
        /\ 2 * capacity \in Nat \ {0}
    BY <1>1
  <1>5. CalculateOccupancy(count, capacity) \in Int
    BY <1>3, <1>4 DEF CalculateOccupancy, Round
  <1> QED BY <1>2, <1>5

LEMMA LowHysteresisType == LowHysteresis \in Nat
  <1>1. (2 * AlertHysteresis + 100) \div (2 * 100) \in Int
    BY ThresholdsAssumption
  <1> QED BY <1>1 DEF LowHysteresis, Round

------------------------------------------------------------------------------
(* The level alerts.                                                       *)

LEMMA ResolvesOnChange ==
  ASSUME NEW alerts, AtMostOneLevel(alerts), NEW from, NEW next
  PROVE  LevelResolves(from, next, alerts)
           = IF next = from THEN {} ELSE alerts \cap LevelAlerts
  BY DEF LevelResolves, AtMostOneLevel, LevelAlerts

LEMMA RaisesOwnAlert ==
  ASSUME NEW alerts, NEW held, NEW from, NEW next \in AlertLevels
  PROVE  \/ LevelRaises(from, next, alerts, held) = {}
         \/ /\ next # "NONE"
            /\ LevelRaises(from, next, alerts, held) = {LevelAlert[next]}
  BY DEF LevelRaises

LEMMA LevelAlertType ==
  \A from \in AlertLevels \ {"NONE"} : LevelAlert[from] \in LevelAlerts
  BY DEF LevelAlert, LevelAlerts, AlertLevels

(* The level alerts that one evaluation leaves.                            *)
LevelAlertsAfter(from, next, alerts, held) ==
  (alerts \ LevelResolves(from, next, alerts))
    \cup LevelRaises(from, next, alerts, held)

(* A change of level, or a level that agreed with its alerts, agrees with  *)
(* them after the evaluation, whatever a crash had left before.            *)
LEMMA LevelPartAgrees ==
  ASSUME NEW alerts, AtMostOneLevel(alerts), NEW held,
         NEW from \in AlertLevels, NEW next \in AlertLevels,
         next # from \/ Agree(from, alerts)
  PROVE  Agree(next, LevelAlertsAfter(from, next, alerts, held))
  <1> DEFINE raises == LevelRaises(from, next, alerts, held)
  <1> DEFINE after == LevelAlertsAfter(from, next, alerts, held)
  <1>1. raises \subseteq LevelAlerts
    BY RaisesOwnAlert, LevelAlertType
  <1>2. CASE next # from
    <2>1. after \cap LevelAlerts = raises
      BY <1>1, <1>2, ResolvesOnChange DEF LevelAlertsAfter
    <2>2. raises = {} => next \in {"NONE", "WARNING"}
      BY <1>2 DEF LevelRaises, AlertLevels
    <2> QED BY <2>1, <2>2, RaisesOwnAlert DEF Agree
  <1>3. CASE next = from
    <2>1. after \cap LevelAlerts = (alerts \cap LevelAlerts) \cup raises
      BY <1>1, <1>3, ResolvesOnChange DEF LevelAlertsAfter
    <2>2. raises # {} => alerts \cap LevelAlerts = {}
      BY <1>3 DEF LevelRaises
    <2> QED BY <1>3, <2>1, <2>2, RaisesOwnAlert DEF Agree
  <1> QED BY <1>2, <1>3

(* One level alert stays one level alert.                                  *)
LEMMA LevelPartKeepsOne ==
  ASSUME NEW alerts, AtMostOneLevel(alerts), NEW held,
         NEW from \in AlertLevels, NEW next \in AlertLevels
  PROVE  /\ AtMostOneLevel(LevelAlertsAfter(from, next, alerts, held))
         /\ LevelRaises(from, next, alerts, held)
              \cap (alerts \ LevelResolves(from, next, alerts)) = {}
  <1> DEFINE raises == LevelRaises(from, next, alerts, held)
  <1>1. raises \subseteq LevelAlerts /\ \A a, b \in raises : a = b
    BY RaisesOwnAlert, LevelAlertType
  <1>2. CASE next # from
    BY <1>1, <1>2, ResolvesOnChange DEF LevelAlertsAfter, AtMostOneLevel
  <1>3. CASE next = from
    <2>1. raises # {} => alerts \cap LevelAlerts = {}
      BY <1>3 DEF LevelRaises
    <2> QED BY <1>1, <1>3, <2>1, ResolvesOnChange DEF LevelAlertsAfter, AtMostOneLevel
  <1> QED BY <1>2, <1>3

------------------------------------------------------------------------------
(* What holds under any fault.                                             *)

Occ(reading) == CalculateOccupancy(reading, Capacity)
Room(reading) == CalculateAvailable(Capacity, reading)
NextFor(reading) == NextLevel(level, Occ(reading))

(* What a task is made of, and when there is one.                          *)
Shape ==
  /\ pc = "idle" => task = NoTask
  /\ pc # "idle" => replay = NoReading /\ task.source \in {"event", "sampler"}
  /\ pc = "written" => task.source = "event"
  /\ task.source = "event" => task.reading \in Readings
  /\ task.source = "sampler" => task.reading = occupied

Safe == TypeOK /\ Shape /\ OneLevelAlert /\ HistoryMatchesActive

LEMMA ReadingsAreInt ==
  /\ Capacity \in Nat \ {0}
  /\ \A reading \in Readings \cup {0} :
       reading \in Int /\ Occ(reading) \in Int /\ Room(reading) \in Int
  <1>1. Capacity \in Nat \ {0}
    BY ZoneAssumption
  <1> SUFFICES ASSUME NEW reading \in Readings \cup {0}
               PROVE  /\ reading \in Int /\ Occ(reading) \in Int
                      /\ Room(reading) \in Int
    BY <1>1
  <1>2. reading \in Int
    BY <1>1, ZoneAssumption
  <1> QED BY <1>1, <1>2, OccupancyType DEF Occ, Room

LEMMA NoReadingIsNone == NoReading \notin Readings \cup {0}
  BY ZoneAssumption DEF NoReading

(* Out is the result of one evaluation of the zone as it stands.           *)
Out(reading, increase) ==
  EvaluateZoneAlerts(level, active, cooldowns, reading, Capacity, increase)

LEMMA OutParts ==
  ASSUME NEW reading, NEW increase
  PROVE  LET out == Out(reading, increase)
             next == NextFor(reading)
             low == "LOW_AVAILABILITY"
             unusual == "UNUSUAL_OCCUPANCY_INCREASE"
         IN  /\ out.level = next
             /\ out.recovered = Recovers(level, next, active)
             /\ out.raise = LevelRaises(level, next, active, cooldowns)
                   \cup Only(low, LowRaised(next, active, cooldowns, Room(reading)))
                   \cup Only(unusual, UnusualRaised(active, cooldowns, increase))
             /\ out.resolve = LevelResolves(level, next, active)
                   \cup Only(low, \/ LowReplaced(next, active)
                                  \/ LowCleared(next, active, Room(reading)))
                   \cup Only(unusual, UnusualCleared(active, increase))
             /\ out.cooldowns \subseteq CooldownKeys
  BY DEF Out, EvaluateZoneAlerts, NextFor, Occ, Room, Only, CooldownKeys

(* What is raised is new once the resolved alerts are gone, and only what  *)
(* was active is resolved.                                                 *)
LEMMA OutBalanced ==
  ASSUME TypeOK, OneLevelAlert, NEW reading, NEW increase
  PROVE  LET out == Out(reading, increase)
         IN  /\ out.raise \subseteq AlertTypes
             /\ out.resolve \subseteq active
             /\ out.raise \cap (active \ out.resolve) = {}
             /\ active \cap LevelAlerts \subseteq LevelAlerts
             /\ ActiveAfter(out.raise, out.resolve) \cap LevelAlerts
                  = LevelAlertsAfter(level, NextFor(reading), active, cooldowns)
                      \cap LevelAlerts
  <1> DEFINE next == NextFor(reading)
  <1> DEFINE raises == LevelRaises(level, next, active, cooldowns)
  <1> DEFINE resolves == LevelResolves(level, next, active)
  <1> DEFINE out == Out(reading, increase)
  <1>1. level \in AlertLevels /\ next \in AlertLevels
    BY NextLevelType DEF TypeOK, NextFor
  <1>2. AtMostOneLevel(active)
    BY DEF OneLevelAlert, AtMostOneLevel
  <1>3. raises \subseteq LevelAlerts /\ resolves \subseteq active \cap LevelAlerts
    BY <1>1, <1>2, RaisesOwnAlert, LevelAlertType, ResolvesOnChange
  <1>4. raises \cap (active \ resolves) = {}
    BY <1>1, <1>2, LevelPartKeepsOne
  <1>5. /\ "LOW_AVAILABILITY" \notin LevelAlerts
        /\ "UNUSUAL_OCCUPANCY_INCREASE" \notin LevelAlerts
    BY DEF LevelAlerts
  <1> HIDE DEF next, raises, resolves
  <1>6. out.raise = raises
          \cup Only("LOW_AVAILABILITY", LowRaised(next, active, cooldowns, Room(reading)))
          \cup Only("UNUSUAL_OCCUPANCY_INCREASE", UnusualRaised(active, cooldowns, increase))
    BY OutParts DEF next, raises
  <1>7. out.resolve = resolves
          \cup Only("LOW_AVAILABILITY", \/ LowReplaced(next, active)
                                       \/ LowCleared(next, active, Room(reading)))
          \cup Only("UNUSUAL_OCCUPANCY_INCREASE", UnusualCleared(active, increase))
    BY OutParts DEF next, resolves
  <1> HIDE DEF out
  <1>8. out.raise \subseteq AlertTypes
    BY <1>3, <1>6 DEF Only, AlertTypes
  <1>9. out.resolve \subseteq active
    BY <1>3, <1>7 DEF Only, LowReplaced, LowCleared, UnusualCleared
  <1>10. out.raise \cap (active \ out.resolve) = {}
    BY <1>3, <1>4, <1>6, <1>7 DEF Only, LowRaised, UnusualRaised
  <1>11. out.raise \cap LevelAlerts = raises /\ out.resolve \cap LevelAlerts = resolves
    BY <1>3, <1>5, <1>6, <1>7 DEF Only
  <1>12. ActiveAfter(out.raise, out.resolve) \cap LevelAlerts
           = LevelAlertsAfter(level, next, active, cooldowns) \cap LevelAlerts
    BY <1>3, <1>11 DEF ActiveAfter, LevelAlertsAfter, raises, resolves
  <1> QED BY <1>8, <1>9, <1>10, <1>12 DEF out, next

(* LOW_AVAILABILITY is justified after any evaluation, whatever was before. *)
LEMMA OutLowJustified ==
  ASSUME NEW reading \in Readings \cup {0}, NEW increase
  PROVE  LET out == Out(reading, increase)
         IN  LowJustified(NextFor(reading), ActiveAfter(out.raise, out.resolve),
                          Room(reading))
  <1> DEFINE out == Out(reading, increase)
  <1> DEFINE next == NextFor(reading)
  <1>1. Room(reading) \in Int /\ LowHysteresis \in Nat /\ LowAvailability \in Nat
    BY ReadingsAreInt, LowHysteresisType, ThresholdsAssumption
  <1>2. "LOW_AVAILABILITY" \notin LevelAlerts
    BY DEF LevelAlerts
  <1> SUFFICES ASSUME "LOW_AVAILABILITY" \in ActiveAfter(out.raise, out.resolve)
               PROVE  next # "FULL" /\ Room(reading) <= LowAvailability + LowHysteresis
    BY DEF LowJustified
  <1>3. CASE "LOW_AVAILABILITY" \in out.raise
    <2>1. LevelRaises(level, next, active, cooldowns) \subseteq LevelAlerts
      BY LevelAlertType DEF LevelRaises
    <2>2. LowRaised(next, active, cooldowns, Room(reading))
      BY <1>2, <1>3, <2>1, OutParts DEF Only
    <2> QED BY <1>1, <2>2 DEF LowRaised
  <1>4. CASE "LOW_AVAILABILITY" \in active /\ "LOW_AVAILABILITY" \notin out.resolve
    <2>1. ~LowReplaced(next, active) /\ ~LowCleared(next, active, Room(reading))
      BY <1>4, OutParts DEF Only
    <2> QED BY <1>1, <1>4, <2>1 DEF LowReplaced, LowCleared
  <1> QED BY <1>3, <1>4 DEF ActiveAfter

------------------------------------------------------------------------------
(* Under any fault.                                                        *)

(* What every evaluation does, live, replayed or sampled.                  *)
LEMMA EvaluateKeeps ==
  ASSUME TypeOK, OneLevelAlert, HistoryMatchesActive,
         NEW source \in {"event", "sampler"}, NEW reading \in Readings \cup {0},
         NEW increase, Evaluate(source, reading, increase)
  PROVE  /\ active' \subseteq AlertTypes /\ OneLevelAlert' /\ HistoryMatchesActive'
         /\ opened' \in [AlertTypes -> Int]
         /\ announced' \subseteq AlertTypes /\ recoveries' \in Int
         /\ task' \in Tasks /\ pc' = "persisted"
         /\ task'.source = source /\ task'.reading = reading
  <1> DEFINE out == Out(reading, increase)
  <1>1. /\ active' = ActiveAfter(out.raise, out.resolve)
        /\ opened' = [type \in AlertTypes |->
                        opened[type] - Count(type \in out.resolve)
                                     + Count(type \in out.raise)]
        /\ announced' = announced \ out.resolve
        /\ recoveries' = recoveries + Count(out.recovered)
        /\ task' = [source |-> source, reading |-> reading, level |-> out.level,
                    cooldowns |-> out.cooldowns,
                    derived |-> DeriveAlertEvents(out.raise, out.recovered)]
        /\ pc' = "persisted"
    BY DEF Evaluate, Out
  <1>2. /\ out.raise \subseteq AlertTypes /\ out.resolve \subseteq active
        /\ out.raise \cap (active \ out.resolve) = {}
        /\ active' \cap LevelAlerts
             = LevelAlertsAfter(level, NextFor(reading), active, cooldowns)
                 \cap LevelAlerts
    BY <1>1, OutBalanced
  <1>3. out.level \in AlertLevels /\ out.cooldowns \subseteq CooldownKeys
    <2>1. out.level = NextFor(reading) /\ out.cooldowns \subseteq CooldownKeys
      BY OutParts
    <2>2. NextFor(reading) \in AlertLevels
      BY NextLevelType DEF TypeOK, NextFor
    <2> QED BY <2>1, <2>2
  <1> HIDE DEF out
  <1>4. active' \subseteq AlertTypes
    BY <1>1, <1>2 DEF ActiveAfter, TypeOK
  <1>5. OneLevelAlert'
    <2>1. AtMostOneLevel(active)
      BY DEF OneLevelAlert, AtMostOneLevel
    <2>2. level \in AlertLevels /\ NextFor(reading) \in AlertLevels
      BY NextLevelType DEF TypeOK, NextFor
    <2>3. AtMostOneLevel(LevelAlertsAfter(level, NextFor(reading), active, cooldowns))
      BY <2>1, <2>2, LevelPartKeepsOne
    <2> QED BY <1>2, <2>3 DEF OneLevelAlert, AtMostOneLevel
  <1>6. HistoryMatchesActive' /\ opened' \in [AlertTypes -> Int]
    <2> SUFFICES ASSUME NEW type \in AlertTypes
                 PROVE  /\ opened[type] - Count(type \in out.resolve)
                             + Count(type \in out.raise) = Count(type \in active')
                        /\ Count(type \in active') \in Int
      BY <1>1 DEF HistoryMatchesActive
    <2>1. opened[type] = Count(type \in active)
      BY DEF HistoryMatchesActive
    <2>2. CASE type \in out.resolve /\ type \in out.raise
      BY <1>1, <1>2, <2>1, <2>2 DEF ActiveAfter, Count
    <2>3. CASE type \in out.resolve /\ type \notin out.raise
      BY <1>1, <1>2, <2>1, <2>3 DEF ActiveAfter, Count
    <2>4. CASE type \notin out.resolve /\ type \in out.raise
      BY <1>1, <1>2, <2>1, <2>4 DEF ActiveAfter, Count
    <2>5. CASE type \notin out.resolve /\ type \notin out.raise
      BY <1>1, <1>2, <2>1, <2>5 DEF ActiveAfter, Count
    <2> QED BY <2>2, <2>3, <2>4, <2>5
  <1>7. announced' \subseteq AlertTypes /\ recoveries' \in Int
    BY <1>1 DEF TypeOK, Count
  <1>8. DeriveAlertEvents(out.raise, out.recovered) \subseteq DerivedEvents
    BY DEF DeriveAlertEvents, DerivedEvents, Only
  <1>9. task' \in Tasks
    BY <1>1, <1>3, <1>8 DEF Tasks
  <1> QED BY <1>1, <1>4, <1>5, <1>6, <1>7, <1>9

LEMMA SafeInit == Init => Safe
  <1> SUFFICES ASSUME Init PROVE Safe
    OBVIOUS
  <1>1. TypeOK
    <2>1. NoTask \in Tasks
      BY DEF NoTask, Tasks, AlertLevels
    <2>2. sampling \in BOOLEAN /\ backlog \in BOOLEAN
      BY DEF Init
    <2>3. /\ occupied \in Readings \cup {0} /\ level \in AlertLevels
          /\ replay \in Readings \cup {NoReading} /\ opened \in [AlertTypes -> Int]
          /\ recoveries \in Int /\ faults \in [FaultKinds -> Nat]
          /\ active \subseteq AlertTypes /\ cooldowns \subseteq CooldownKeys
          /\ announced \subseteq AlertTypes /\ pc \in {"idle", "persisted", "written"}
          /\ task \in Tasks
      BY <2>1 DEF Init, AlertLevels
    <2> QED BY <2>2, <2>3 DEF TypeOK
  <1>2. Shape
    BY DEF Init, Shape, NoTask
  <1>3. OneLevelAlert /\ HistoryMatchesActive
    BY DEF Init, OneLevelAlert, HistoryMatchesActive, Count
  <1> QED BY <1>1, <1>2, <1>3 DEF Safe

LEMMA SafeNext == Safe /\ [Next]_vars => Safe'
  <1> SUFFICES ASSUME Safe, [Next]_vars PROVE Safe'
    OBVIOUS
  <1> USE DEF redisVars, historyVars, samplerVars
  <1>1. TypeOK /\ Shape /\ OneLevelAlert /\ HistoryMatchesActive
    BY DEF Safe
  <1>2. NoTask \in Tasks /\ NoTask.source = "none"
    BY DEF NoTask, Tasks, AlertLevels
  <1>3. ASSUME UNCHANGED <<active, opened>> PROVE OneLevelAlert' /\ HistoryMatchesActive'
    BY <1>1, <1>3 DEF OneLevelAlert, HistoryMatchesActive
  <1>4. ASSUME NEW kind \in FaultKinds, Fault(kind)
        PROVE  faults' \in [FaultKinds -> Nat]
    BY <1>1, <1>4 DEF TypeOK, Fault
  <1>5. CASE ProcessEvent
    <2>1. PICK reading \in Readings, increase \in Increases :
            Evaluate("event", reading, increase)
      BY <1>5 DEF ProcessEvent
    <2> QED BY <1>1, <1>5, <2>1, EvaluateKeeps DEF ProcessEvent, Safe, TypeOK, Shape
  <1>6. CASE ReplayEvent
    <2>1. PICK increase \in Increases : Evaluate("event", replay, increase)
      BY <1>6 DEF ReplayEvent
    <2>2. replay \in Readings
      BY <1>1, <1>6 DEF ReplayEvent, TypeOK
    <2> QED BY <1>1, <1>6, <2>1, <2>2, EvaluateKeeps DEF ReplayEvent, Safe, TypeOK, Shape
  <1>7. CASE Sample
    <2>1. PICK increase \in Increases : Evaluate("sampler", occupied, increase)
      BY <1>7 DEF Sample
    <2>2. occupied \in Readings \cup {0}
      BY <1>1 DEF TypeOK
    <2> QED BY <1>1, <1>7, <2>1, <2>2, EvaluateKeeps DEF Sample, Safe, TypeOK, Shape
  <1>8. CASE WriteLevel
    <2>1. task.level \in AlertLevels /\ task.cooldowns \subseteq CooldownKeys
      BY <1>1 DEF TypeOK, Tasks
    <2>2. task' \in Tasks /\ pc' \in {"idle", "persisted", "written"}
      BY <1>1, <1>2, <1>8 DEF WriteLevel, TypeOK
    <2>3. TypeOK'
      BY <1>1, <1>8, <2>1, <2>2 DEF WriteLevel, TypeOK
    <2>4. Shape'
      BY <1>1, <1>2, <1>8 DEF WriteLevel, Shape
    <2> QED BY <1>3, <1>8, <2>3, <2>4 DEF WriteLevel, Safe
  <1>9. CASE SaveProcessed
    <2>1. task.reading \in Readings
      BY <1>1, <1>9 DEF SaveProcessed, Shape
    <2>2. announced' \subseteq AlertTypes /\ recoveries' \in Int
      BY <1>1, <1>9 DEF SaveProcessed, TypeOK, Count
    <2>3. TypeOK'
      BY <1>1, <1>2, <1>9, <2>1, <2>2 DEF SaveProcessed, TypeOK
    <2>4. Shape'
      BY <1>2, <1>9 DEF SaveProcessed, Shape
    <2> QED BY <1>3, <1>9, <2>3, <2>4 DEF SaveProcessed, Safe
  <1>10. ASSUME NEW key \in CooldownKeys, CooldownExpires(key) PROVE Safe'
    BY <1>1, <1>3, <1>10 DEF CooldownExpires, Safe, TypeOK, Shape
  <1>11. CASE Crash
    <2>1. faults' \in [FaultKinds -> Nat]
      BY <1>4, <1>11 DEF Crash, FaultKinds
    <2>2. replay' \in Readings \cup {NoReading}
      BY <1>1, <1>11 DEF Crash, Shape
    <2>3. TypeOK'
      BY <1>1, <1>2, <1>11, <2>1, <2>2 DEF Crash, TypeOK
    <2>4. Shape'
      BY <1>2, <1>11 DEF Crash, Shape
    <2> QED BY <1>3, <1>11, <2>3, <2>4 DEF Crash, Safe
  <1>12. CASE Abandon
    <2>1. faults' \in [FaultKinds -> Nat]
      BY <1>4, <1>12 DEF Abandon, FaultKinds
    <2>2. TypeOK'
      BY <1>1, <1>2, <1>12, <2>1 DEF Abandon, TypeOK
    <2>3. Shape'
      BY <1>2, <1>12 DEF Abandon, Shape
    <2> QED BY <1>3, <1>12, <2>2, <2>3 DEF Abandon, Safe
  <1>13. CASE BacklogChanges \/ SampleTimer
    <2>1. sampling' \in BOOLEAN /\ backlog' \in BOOLEAN
      BY <1>1, <1>13 DEF BacklogChanges, SampleTimer, TypeOK
    <2> QED BY <1>1, <1>3, <1>13, <2>1 DEF BacklogChanges, SampleTimer, Safe, TypeOK, Shape
  <1>14. CASE UNCHANGED vars
    BY <1>1, <1>3, <1>14 DEF vars, Safe, TypeOK, Shape
  <1> QED
    BY <1>5, <1>6, <1>7, <1>8, <1>9, <1>10, <1>11, <1>12, <1>13, <1>14
       DEF Next

LEMMA SafeAlways == Spec => []Safe
  BY SafeInit, SafeNext, PTL DEF Spec

(* Every variable keeps its type.                                          *)
THEOREM TypeCorrect == Spec => []TypeOK
  <1>1. Safe => TypeOK
    BY DEF Safe
  <1> QED BY <1>1, SafeAlways, PTL

(* A zone never shows two level alerts at once, even when a crash falls    *)
(* between persisting the alerts and writing the level, and even when the  *)
(* event of that crash is never processed again.                           *)
THEOREM OneLevelAlertAlways == Spec => []OneLevelAlert
  <1>1. Safe => OneLevelAlert
    BY DEF Safe
  <1> QED BY <1>1, SafeAlways, PTL

(* Under the same faults the history opens and closes every alert once.    *)
THEOREM HistoryMatchesActiveAlways == Spec => []HistoryMatchesActive
  <1>1. Safe => HistoryMatchesActive
    BY DEF Safe
  <1> QED BY <1>1, SafeAlways, PTL

------------------------------------------------------------------------------
(* As long as every interrupted event is replayed.                         *)

Good(alertLevel, alerts, reading) ==
  /\ Agree(alertLevel, alerts)
  /\ LowJustified(alertLevel, alerts, Room(reading))

(* Between the pipeline that writes the alerts and the one that writes the *)
(* level, the alerts agree with the level to come. A crash leaves exactly  *)
(* that gap, and the replay evaluates the same reading again.              *)
Halves ==
  /\ pc = "idle" /\ replay = NoReading
       => Good(level, active, occupied) /\ AtRest(level, Occ(occupied))
  /\ pc = "idle" /\ replay # NoReading => Agree(NextFor(replay), active)
  /\ pc = "persisted" =>
       /\ task.level = NextFor(task.reading)
       /\ Good(task.level, active, task.reading)
       /\ task.source = "sampler" => task.level = level
  /\ pc = "written" =>
       /\ task.level = level
       /\ Good(level, active, task.reading)
       /\ AtRest(level, Occ(task.reading))

(* Without any fault, what is recovered and not yet announced is what the  *)
(* task in progress will announce.                                         *)
Owed ==
  /\ recoveries = Count(pc # "idle" /\ "ZONE_RECOVERED" \in task.derived)
  /\ task.source = "sampler" => "ZONE_RECOVERED" \notin task.derived

IInv ==
  /\ Safe
  /\ faults["abandon"] = 0 => Halves
  /\ faults["abandon"] = 0 /\ faults["crash"] = 0 => Owed /\ replay = NoReading

LEMMA AgreeOnLevelAlerts ==
  ASSUME NEW alertLevel, NEW a, NEW b, a \cap LevelAlerts = b \cap LevelAlerts
  PROVE  Agree(alertLevel, a) <=> Agree(alertLevel, b)
  BY DEF Agree

(* One evaluation of a zone in good order, or of the reading that a crash  *)
(* had half processed, leaves the alerts in order.                         *)
LEMMA EvaluateGood ==
  ASSUME TypeOK, OneLevelAlert, NEW source, NEW reading \in Readings \cup {0},
         NEW increase, Evaluate(source, reading, increase),
         Agree(level, active) \/ Agree(NextFor(reading), active)
  PROVE  /\ task'.level = NextFor(reading)
         /\ Good(NextFor(reading), active', reading)
  <1> DEFINE out == Out(reading, increase)
  <1> DEFINE next == NextFor(reading)
  <1>1. active' = ActiveAfter(out.raise, out.resolve) /\ task'.level = out.level
    BY DEF Evaluate, Out
  <1>2. level \in AlertLevels /\ next \in AlertLevels
    BY NextLevelType DEF TypeOK, NextFor
  <1>3. AtMostOneLevel(active)
    BY DEF OneLevelAlert, AtMostOneLevel
  <1>4. next # level \/ Agree(level, active)
    OBVIOUS
  <1>5. Agree(next, LevelAlertsAfter(level, next, active, cooldowns))
    BY <1>2, <1>3, <1>4, LevelPartAgrees
  <1>6. active' \cap LevelAlerts
          = LevelAlertsAfter(level, next, active, cooldowns) \cap LevelAlerts
    BY <1>1, OutBalanced
  <1>7. Agree(next, active')
    BY <1>5, <1>6, AgreeOnLevelAlerts
  <1>8. LowJustified(next, active', Room(reading))
    BY <1>1, OutLowJustified
  <1>9. out.level = next
    BY OutParts
  <1> QED BY <1>1, <1>7, <1>8, <1>9 DEF Good

(* And what the task owes is what was just recovered.                      *)
LEMMA EvaluateOwes ==
  ASSUME TypeOK, NEW source, NEW reading, NEW increase,
         Evaluate(source, reading, increase), recoveries = 0
  PROVE  /\ recoveries' = Count("ZONE_RECOVERED" \in task'.derived)
         /\ "ZONE_RECOVERED" \in task'.derived => NextFor(reading) # level
  <1> DEFINE out == Out(reading, increase)
  <1>1. /\ recoveries' = recoveries + Count(out.recovered)
        /\ task'.derived = DeriveAlertEvents(out.raise, out.recovered)
    BY DEF Evaluate, Out
  <1>2. out.recovered = Recovers(level, NextFor(reading), active)
    BY OutParts
  <1> HIDE DEF out
  <1>3. "ZONE_RECOVERED" \in task'.derived <=> out.recovered
    BY <1>1 DEF DeriveAlertEvents, Only
  <1>4. CASE out.recovered
    <2>1. Count(out.recovered) = 1 /\ Count("ZONE_RECOVERED" \in task'.derived) = 1
      BY <1>3, <1>4 DEF Count
    <2>2. NextFor(reading) # level
      BY <1>2, <1>4 DEF Recovers
    <2> QED BY <1>1, <2>1, <2>2
  <1>5. CASE ~out.recovered
    <2>1. Count(out.recovered) = 0 /\ Count("ZONE_RECOVERED" \in task'.derived) = 0
      BY <1>3, <1>5 DEF Count
    <2> QED BY <1>1, <1>3, <1>5, <2>1
  <1> QED BY <1>4, <1>5

LEMMA EmptyZoneIsAtRest == AtRest("NONE", Occ(0))
  <1>1. Capacity \in Nat \ {0}
    BY ZoneAssumption
  <1>2. Occ(0) = (2 * (10000 * 0) + Capacity) \div (2 * Capacity)
    BY <1>1 DEF Occ, CalculateOccupancy, Round, ClampOccupied
  <1>3. Capacity \div (2 * Capacity) = 0
    BY <1>1
  <1>4. Occ(0) = 0
    BY <1>1, <1>2, <1>3
  <1>5. RawLevel(0) = "NONE"
    BY ThresholdsAssumption DEF RawLevel
  <1> QED BY <1>4, <1>5 DEF AtRest, NextLevel

LEMMA IInvInit == Init => IInv
  <1> SUFFICES ASSUME Init PROVE IInv
    OBVIOUS
  <1>1. Safe
    BY SafeInit
  <1>2. Good("NONE", {}, 0)
    BY DEF Good, Agree, LowJustified
  <1>3. Halves
    BY <1>2, EmptyZoneIsAtRest DEF Init, Halves
  <1>4. Owed /\ replay = NoReading
    BY DEF Init, Owed, Count, NoTask
  <1> QED BY <1>1, <1>3, <1>4 DEF IInv

(* A fault that is not counted did not happen.                             *)
LEMMA FaultCounts ==
  ASSUME TypeOK, NEW kind \in FaultKinds, Fault(kind)
  PROVE  /\ faults'[kind] # 0
         /\ \A other \in FaultKinds \ {kind} : faults'[other] = faults[other]
  <1>1. faults \in [FaultKinds -> Nat]
    BY DEF TypeOK
  <1>2. faults' = [faults EXCEPT ![kind] = faults[kind] + 1]
    BY DEF Fault
  <1> QED BY <1>1, <1>2

LEMMA HalvesNext ==
  ASSUME Safe, Safe', [Next]_vars, faults'["abandon"] = 0,
         faults["abandon"] = 0 => Halves
  PROVE  Halves'
  <1> USE DEF redisVars, historyVars, samplerVars
  <1>1. TypeOK /\ Shape /\ OneLevelAlert
    BY DEF Safe
  <1>2. faults["abandon"] = 0 /\ Halves
    <2>1. CASE Crash
      BY <1>1, <2>1, FaultCounts DEF Crash, FaultKinds
    <2>2. CASE Abandon
      BY <1>1, <2>2, FaultCounts DEF Abandon, FaultKinds
    <2>3. CASE UNCHANGED faults
      BY <2>3
    <2> QED
      BY <2>1, <2>2, <2>3 DEF Next, ProcessEvent, ReplayEvent, BacklogChanges,
         SampleTimer, Sample, WriteLevel, SaveProcessed, CooldownExpires, vars
  <1>3. level \in AlertLevels
    BY <1>1 DEF TypeOK
  <1>4. ASSUME NEW source, NEW reading \in Readings \cup {0}, NEW increase,
               Evaluate(source, reading, increase), level' = level,
               Agree(level, active) \/ Agree(NextFor(reading), active),
               source = "sampler" => NextFor(reading) = level
        PROVE  Halves'
    <2>1. /\ task'.level = NextFor(reading)
          /\ Good(NextFor(reading), active', reading)
      BY <1>1, <1>4, EvaluateGood
    <2>2. pc' = "persisted" /\ task'.reading = reading /\ task'.source = source
      BY <1>4 DEF Evaluate
    <2>3. NextLevel(level', Occ(reading)) = NextFor(reading)
      BY <1>4 DEF NextFor
    <2> QED BY <1>4, <2>1, <2>2, <2>3 DEF Halves, NextFor, Occ, Good, Room
  <1>5. CASE ProcessEvent
    <2>1. PICK reading \in Readings, increase \in Increases :
            Evaluate("event", reading, increase)
      BY <1>5 DEF ProcessEvent
    <2>2. Agree(level, active) /\ level' = level
      BY <1>2, <1>5 DEF ProcessEvent, Halves, Good
    <2> QED BY <1>4, <2>1, <2>2
  <1>6. CASE ReplayEvent
    <2>1. PICK increase \in Increases : Evaluate("event", replay, increase)
      BY <1>6 DEF ReplayEvent
    <2>2. Agree(NextFor(replay), active) /\ level' = level
      BY <1>2, <1>6 DEF ReplayEvent, Halves
    <2>3. replay \in Readings
      BY <1>1, <1>6 DEF ReplayEvent, TypeOK
    <2> QED BY <1>4, <2>1, <2>2, <2>3
  <1>7. CASE Sample
    <2>1. PICK increase \in Increases : Evaluate("sampler", occupied, increase)
      BY <1>7 DEF Sample
    <2>2. Agree(level, active) /\ AtRest(level, Occ(occupied)) /\ level' = level
      BY <1>2, <1>7 DEF Sample, Halves, Good
    <2>3. NextFor(occupied) = level
      BY <2>2 DEF NextFor, AtRest
    <2>4. occupied \in Readings \cup {0}
      BY <1>1 DEF TypeOK
    <2> QED BY <1>4, <2>1, <2>2, <2>3, <2>4
  <1>8. CASE WriteLevel
    <2>1. /\ task.level = NextFor(task.reading)
          /\ Good(task.level, active, task.reading)
          /\ level' = task.level /\ active' = active /\ occupied' = occupied
          /\ replay' = NoReading
      BY <1>1, <1>2, <1>8 DEF WriteLevel, Halves, Shape
    <2>2. AtRest(level', Occ(task.reading))
      BY <1>3, <2>1, NextLevelSettles DEF NextFor
    <2>3. CASE task.source = "event"
      <3>1. pc' = "written" /\ task' = task
        BY <1>8, <2>3 DEF WriteLevel
      <3> QED BY <2>1, <2>2, <3>1 DEF Halves, Good, Occ, Room
    <2>4. CASE task.source # "event"
      <3>1. pc' = "idle" /\ task.reading = occupied
        BY <1>1, <1>8, <2>4 DEF WriteLevel, Shape
      <3> QED BY <2>1, <2>2, <3>1 DEF Halves, Good, Occ, Room
    <2> QED BY <2>3, <2>4
  <1>9. CASE SaveProcessed
    <2>1. /\ Good(level, active, task.reading) /\ AtRest(level, Occ(task.reading))
          /\ level' = level /\ active' = active /\ occupied' = task.reading
          /\ replay' = NoReading /\ pc' = "idle"
      BY <1>1, <1>2, <1>9 DEF SaveProcessed, Halves, Shape
    <2> QED BY <2>1 DEF Halves, Good, Occ, Room
  <1>10. ASSUME NEW key \in CooldownKeys, CooldownExpires(key) PROVE Halves'
    BY <1>2, <1>10 DEF CooldownExpires, Halves, Good, Occ, Room, NextFor
  <1>11. CASE Crash
    <2>1. pc' = "idle" /\ level' = level /\ active' = active /\ occupied' = occupied
      BY <1>11 DEF Crash
    <2>2. CASE task.source = "event"
      <3>1. replay' = task.reading /\ replay' # NoReading
        BY <1>1, <1>11, <2>2, NoReadingIsNone DEF Crash, Shape
      <3>2. Agree(NextFor(task.reading), active)
        <4>1. CASE pc = "persisted"
          BY <1>2, <4>1 DEF Halves, Good
        <4>2. CASE pc = "written"
          BY <1>2, <4>2 DEF Halves, Good, AtRest, NextFor
        <4> QED BY <1>1, <1>11, <4>1, <4>2 DEF Crash, TypeOK
      <3>3. NextLevel(level', Occ(replay')) = NextFor(task.reading)
        BY <2>1, <3>1 DEF NextFor
      <3> QED BY <2>1, <3>1, <3>2, <3>3 DEF Halves, NextFor, Occ
    <2>3. CASE task.source # "event"
      <3>1. replay' = NoReading /\ pc = "persisted" /\ task.source = "sampler"
        BY <1>1, <1>11, <2>3 DEF Crash, Shape, TypeOK
      <3>2. /\ task.level = level /\ task.reading = occupied
            /\ task.level = NextFor(task.reading)
            /\ Good(level, active, occupied)
        BY <1>1, <1>2, <3>1 DEF Halves, Shape
      <3>3. AtRest(level, Occ(occupied))
        BY <3>2 DEF NextFor, AtRest
      <3> QED BY <2>1, <3>1, <3>2, <3>3 DEF Halves, Good, Occ, Room
    <2> QED BY <2>2, <2>3
  <1>12. CASE Abandon
    BY <1>1, <1>12, FaultCounts DEF Abandon, FaultKinds
  <1>13. CASE BacklogChanges \/ SampleTimer
    BY <1>2, <1>13 DEF BacklogChanges, SampleTimer, Halves, Good, Occ, Room, NextFor
  <1>14. CASE UNCHANGED vars
    BY <1>2, <1>14 DEF vars, Halves, Good, Occ, Room, NextFor
  <1> QED
    BY <1>5, <1>6, <1>7, <1>8, <1>9, <1>10, <1>11, <1>12, <1>13, <1>14
       DEF Next

LEMMA OwedNext ==
  ASSUME Safe, [Next]_vars, faults'["abandon"] = 0, faults'["crash"] = 0,
         faults["abandon"] = 0 => Halves,
         faults["abandon"] = 0 /\ faults["crash"] = 0 => Owed /\ replay = NoReading
  PROVE  Owed' /\ replay' = NoReading
  <1> USE DEF redisVars, historyVars, samplerVars
  <1>1. TypeOK /\ Shape
    BY DEF Safe
  <1>2. ~Crash /\ ~Abandon
    BY <1>1, FaultCounts DEF Crash, Abandon, FaultKinds
  <1>3. UNCHANGED faults
    BY <1>2 DEF Next, ProcessEvent, ReplayEvent, BacklogChanges, SampleTimer,
       Sample, WriteLevel, SaveProcessed, CooldownExpires, vars
  <1>4. Halves /\ Owed /\ replay = NoReading
    BY <1>3
  <1>5. ASSUME NEW source, NEW reading, NEW increase,
               Evaluate(source, reading, increase), pc = "idle",
               source = "sampler" => NextFor(reading) = level
        PROVE  Owed'
    <2>1. recoveries = 0
      BY <1>4, <1>5 DEF Owed, Count
    <2>2. /\ recoveries' = Count("ZONE_RECOVERED" \in task'.derived)
          /\ "ZONE_RECOVERED" \in task'.derived => NextFor(reading) # level
      BY <1>1, <1>5, <2>1, EvaluateOwes
    <2>3. pc' = "persisted" /\ task'.source = source
      BY <1>5 DEF Evaluate
    <2>4. (pc' # "idle" /\ "ZONE_RECOVERED" \in task'.derived)
            <=> "ZONE_RECOVERED" \in task'.derived
      BY <2>3
    <2>5. recoveries' = Count(pc' # "idle" /\ "ZONE_RECOVERED" \in task'.derived)
      BY <2>2, <2>4 DEF Count
    <2> QED BY <1>5, <2>2, <2>3, <2>5 DEF Owed
  <1>6. CASE ProcessEvent
    <2>1. PICK reading \in Readings, increase \in Increases :
            Evaluate("event", reading, increase)
      BY <1>6 DEF ProcessEvent
    <2>2. Owed'
      BY <1>5, <1>6, <2>1 DEF ProcessEvent
    <2> QED BY <1>4, <1>6, <2>2 DEF ProcessEvent
  <1>7. CASE ReplayEvent
    BY <1>4, <1>7 DEF ReplayEvent
  <1>8. CASE Sample
    <2>1. PICK increase \in Increases : Evaluate("sampler", occupied, increase)
      BY <1>8 DEF Sample
    <2>2. NextFor(occupied) = level
      BY <1>4, <1>8 DEF Sample, Halves, AtRest, NextFor
    <2>3. Owed'
      BY <1>5, <1>8, <2>1, <2>2 DEF Sample
    <2> QED BY <1>4, <1>8, <2>3 DEF Sample
  <1>9. CASE WriteLevel
    <2>1. replay' = NoReading /\ recoveries' = recoveries /\ pc = "persisted"
      BY <1>4, <1>9 DEF WriteLevel
    <2>2. CASE task.source = "event"
      <3>1. pc' = "written" /\ task' = task
        BY <1>9, <2>2 DEF WriteLevel
      <3> QED BY <1>4, <2>1, <3>1 DEF Owed, Count
    <2>3. CASE task.source # "event"
      <3>1. pc' = "idle" /\ task' = NoTask /\ task.source = "sampler"
        BY <1>1, <1>9, <2>1, <2>3 DEF WriteLevel, Shape
      <3>2. recoveries = 0
        BY <1>4, <3>1 DEF Owed, Count
      <3> QED BY <2>1, <3>1, <3>2 DEF Owed, Count, NoTask
    <2> QED BY <2>2, <2>3
  <1>10. CASE SaveProcessed
    <2>1. /\ pc = "written" /\ pc' = "idle" /\ task' = NoTask /\ replay' = NoReading
          /\ recoveries' = recoveries - Count("ZONE_RECOVERED" \in task.derived)
      BY <1>4, <1>10 DEF SaveProcessed
    <2>2. recoveries = Count("ZONE_RECOVERED" \in task.derived)
      BY <1>4, <2>1 DEF Owed, Count
    <2>3. recoveries' = 0
      BY <2>1, <2>2 DEF Count
    <2> QED BY <2>1, <2>3 DEF Owed, Count, NoTask
  <1>11. ASSUME NEW key \in CooldownKeys, CooldownExpires(key)
         PROVE  Owed' /\ replay' = NoReading
    BY <1>4, <1>11 DEF CooldownExpires, Owed
  <1>12. CASE BacklogChanges \/ SampleTimer
    BY <1>4, <1>12 DEF BacklogChanges, SampleTimer, Owed
  <1>13. CASE UNCHANGED vars
    BY <1>4, <1>13 DEF vars, Owed
  <1> QED
    BY <1>2, <1>6, <1>7, <1>8, <1>9, <1>10, <1>11, <1>12, <1>13 DEF Next

LEMMA IInvNext == IInv /\ [Next]_vars => IInv'
  <1> SUFFICES ASSUME IInv, [Next]_vars PROVE IInv'
    OBVIOUS
  <1>1. Safe'
    BY SafeNext DEF IInv
  <1>2. faults'["abandon"] = 0 => Halves'
    BY <1>1, HalvesNext DEF IInv
  <1>3. faults'["abandon"] = 0 /\ faults'["crash"] = 0 => Owed' /\ replay' = NoReading
    BY OwedNext DEF IInv
  <1> QED BY <1>1, <1>2, <1>3 DEF IInv

LEMMA IInvAlways == Spec => []IInv
  BY IInvInit, IInvNext, PTL DEF Spec

(* The alert in force is always the one of the level between two events,   *)
(* or the warning that a cooldown holds back, also after a crash between   *)
(* writing one and writing the other.                                      *)
THEOREM LevelAlertMatchesLevelAlways == Spec => []LevelAlertMatchesLevel
  <1>1. IInv => LevelAlertMatchesLevel
    <2> SUFFICES ASSUME IInv, Settled PROVE Agree(level, active)
      BY DEF LevelAlertMatchesLevel, Agree
    <2> QED BY DEF IInv, Settled, Halves, Good
  <1> QED BY <1>1, IInvAlways, PTL

(* The level stays in the band of its threshold, for every hysteresis.     *)
THEOREM LevelFollowsOccupancyAlways == Spec => []LevelFollowsOccupancy
  <1>1. IInv => LevelFollowsOccupancy
    <2> SUFFICES ASSUME IInv, Settled
                 PROVE  /\ LevelRank[level] >= LevelRank[RawLevel(Occ(occupied))]
                        /\ level # "NONE" =>
                             Occ(occupied) >= LevelThreshold[level] - AlertHysteresis
      BY DEF LevelFollowsOccupancy, Occ
    <2>1. level \in AlertLevels /\ Occ(occupied) \in Int
      BY ReadingsAreInt DEF IInv, Safe, TypeOK
    <2>2. AtRest(level, Occ(occupied))
      BY DEF IInv, Settled, Halves
    <2> QED BY <2>1, <2>2, AtRestIsInBand
  <1> QED BY <1>1, IInvAlways, PTL

(* LOW_AVAILABILITY yields to a full zone and ends with the shortage.      *)
THEOREM LowAvailabilityJustifiedAlways == Spec => []LowAvailabilityJustified
  <1>1. IInv => LowAvailabilityJustified
    <2> SUFFICES ASSUME IInv, Settled
                 PROVE  LowJustified(level, active, Room(occupied))
      BY DEF LowAvailabilityJustified, LowJustified, Room
    <2> QED BY DEF IInv, Settled, Halves, Good
  <1> QED BY <1>1, IInvAlways, PTL

(* The three together, as the run checks them.                             *)
THEOREM AlertsFitZoneAlways == Spec => []AlertsFitZone
  <1>1. LevelAlertMatchesLevel /\ LevelFollowsOccupancy /\ LowAvailabilityJustified
          => AlertsFitZone
    BY DEF AlertsFitZone
  <1> QED BY <1>1, LevelAlertMatchesLevelAlways, LevelFollowsOccupancyAlways,
             LowAvailabilityJustifiedAlways, PTL

(* A sample of the sampler never moves the level, so that the `recovered`  *)
(* it drops is always false.                                               *)
THEOREM SampleKeepsLevelAlways == Spec => []SampleKeepsLevel
  <1>1. IInv => SampleKeepsLevel
    BY DEF IInv, Halves, SampleKeepsLevel
  <1> QED BY <1>1, IInvAlways, PTL

(* Without faults every recovery of a zone has had its ZONE_RECOVERED.     *)
THEOREM RecoveryAnnouncedAlways == Spec => []RecoveryAnnounced
  <1>1. IInv => RecoveryAnnounced
    BY DEF IInv, Owed, RecoveryAnnounced, Count
  <1> QED BY <1>1, IInvAlways, PTL
=============================================================================
