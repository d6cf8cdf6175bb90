------------------------------ MODULE Sampling ------------------------------
(***************************************************************************)
(* The past of one zone, as the Processor keeps it:                        *)
(*                                                                         *)
(*   state-repository.ts    recordMovement, windowCountsAll: sorted sets   *)
(*                          with a TTL; appendSample, loadSamples          *)
(*   sample-history.ts      the samples of the last minutes, in memory     *)
(*   timeseries-sampler.ts  one sample at a time                           *)
(*   zone-state.ts          timeDependentFields                            *)
(*   event-processor.ts     unusualIncrease and its calibration            *)
(*                                                                         *)
(* Time is counted in steps of a common clock. An event is processed some  *)
(* time after it was generated, and the Processor may be stopped for any   *)
(* time, and started with a configuration that has the zone or has it not. *)
(* Occupation is a small number; samples are taken when their task has its *)
(* turn, not at fixed moments, and have no figure of a zone without hash.  *)
(***************************************************************************)
EXTENDS Occupancy, FiniteSetsExt

CONSTANTS
  Counts,            \* occupations that the sensor reports
  Lengths,           \* lengths of the sliding windows: 1, 5 and 15 minutes
  WindowTTL,         \* WINDOW_TTL_SECONDS
  HistoryAge,        \* maxAgeMs of SampleHistory, 16 minutes
  TrendWindow,       \* thresholds.trend.windowSeconds
  TrendThreshold,    \* thresholds.trend.threshold
  IncreaseWindow,    \* thresholds.unusualIncreaseWindowSeconds
  TimeseriesMaxLength,   \* MAXLEN of parking:timeseries, taken as exact
  MaxTime,           \* bound: the clock
  MaxEvents,         \* bound: sensor events
  MaxStops           \* bound: restarts of the Processor

Retention == Max(Lengths)   \* WINDOW_RETENTION_MS

ASSUME SamplingAssumption ==
  /\ Counts \subseteq Nat
  /\ Lengths \subseteq Nat \ {0}
  /\ \E longest \in Lengths : \A length \in Lengths : longest >= length
  /\ WindowTTL \in Nat /\ WindowTTL >= Retention
  /\ HistoryAge \in Nat /\ HistoryAge >= Retention
  /\ TrendWindow \in 1..HistoryAge /\ IncreaseWindow \in 1..HistoryAge
  /\ TrendThreshold \in Nat \ {0}
  /\ TimeseriesMaxLength \in Nat /\ TimeseriesMaxLength > HistoryAge
  /\ MaxTime \in Nat /\ MaxEvents \in Nat /\ MaxStops \in Nat

VARIABLES
  now,
  \* Redis
  present,           \* the zone is configured, and has its hash
  occupied,          \* the zone hash
  initial,           \* its last_event is INIT
  trend,             \* its trend
  window,            \* members of the sorted set, [id, at]
  expires,           \* when its TTL runs out
  timeseries,        \* parking:timeseries
  \* Processor: lost when it stops
  running,
  samples,           \* SampleHistory
  calibratedAt,      \* -1 while the zone has not been calibrated
  \* the sensor
  transit,           \* the event that is on its way, NoEvent if none
  \* history
  movements,         \* movements recorded so far, [id, at]
  changed,           \* when the occupation last changed in Redis
  patched,           \* when the sampler last wrote the trend, -1 if not since
  calibration,       \* when the first reading was processed, -1 before
  stops              \* when the Processor stopped

redisVars == <<present, occupied, initial, trend, window, expires, timeseries>>
memoryVars == <<running, samples, calibratedAt>>
historyVars == <<movements, changed, patched, calibration, stops>>
samplingVars == <<now, present, occupied, initial, trend, window, expires, timeseries,
                  running, samples, calibratedAt, transit, movements, changed, patched,
                  calibration, stops>>

Never == -1
NoEvent == [count |-> Never]
None == -1           \* undefined in a sample, null in an answer

------------------------------------------------------------------------------
(* SampleHistory, on any samples. It keeps them in the order of their      *)
(* time, and no two have the same: a list of them is the set of them.      *)

Since(list, since) == {s \in list : s.ts >= since}

Oldest(list) == CHOOSE s \in list : \A r \in list : s.ts <= r.ts
Newest(list) == CHOOSE s \in list : \A r \in list : s.ts >= r.ts

(* Samples without a figure of the zone are passed over.                   *)
Selected(list) == {s \in list : s.value # None}

(* Mutation: the search stops at the first sample up to ts.                *)
ValueAtFirst(list, ts) ==
  IF Selected(list) = {} THEN None ELSE Oldest(Selected(list)).value

(* valueAt: the last sample up to ts, or the oldest there is.              *)
ValueAt(list, ts) ==
  LET before == {s \in Selected(list) : s.ts <= ts}
  IN  IF Selected(list) = {} THEN None
      ELSE IF before = {} THEN Oldest(Selected(list)).value ELSE Newest(before).value

Total(list) == MapThenSumSet(LAMBDA s : s.value, list)

(* average: a sum and a number of samples.                                 *)
Average(list, since) ==
  LET picked == Since(Selected(list), since)
  IN  [sum |-> Total(picked), count |-> Cardinality(picked)]

(* min.                                                                    *)
Least(list, since) ==
  LET picked == Since(Selected(list), since)
  IN  IF picked = {} THEN None ELSE Min({s.value : s \in picked})

(* add(): what is older than the cutoff of the new sample goes.            *)
Added(list, sample) == Since(list \cup {sample}, sample.ts - HistoryAge)

(* sampleToFields: a field for each zone that has a hash, and the time.    *)
SampleToFields(sample) ==
  [ts |-> sample.ts, zones |-> IF sample.value = None THEN {} ELSE {sample.value}]

(* fieldsToSample: what has no field is undefined again.                   *)
FieldsToSample(fields) ==
  [ts |-> fields.ts, value |-> IF fields.zones = {} THEN None
                               ELSE CHOOSE v \in fields.zones : TRUE]

(* appendSample: XADD with MAXLEN.                                         *)
Appended(sample) ==
  LET all == timeseries \cup {SampleToFields(sample)}
  IN  IF Cardinality(all) > TimeseriesMaxLength THEN all \ {Oldest(all)} ELSE all

(* getMetricsHistory: XRANGE from a moment on.                             *)
MetricsHistory(since) == {FieldsToSample(fields) : fields \in Since(timeseries, since)}

(* The sliding window as Redis has it: a key whose TTL ran out is gone.    *)
Members == IF now >= expires THEN {} ELSE window

(* ZCOUNT (now - length, +inf).                                            *)
CountWithin(length) == Cardinality({m \in Members : m.at > now - length})

(* windowCountsAll, for this zone.                                         *)
WindowCounts == [length \in Lengths |-> CountWithin(length)]

(* ZREMRANGEBYSCORE -inf (now - 15 min).                                   *)
Pruned(members) == {m \in members : m.at >= now - Retention}

(* timeDependentFields: the trend against the value some time before.      *)
TrendAt(occupancy, fallback, at) ==
  LET reference == ValueAt(samples, at - TrendWindow)
  IN  DetermineTrend(occupancy - (IF reference = None THEN fallback ELSE reference),
                     TrendThreshold)

(* Mutation: the first reading is not remembered.                          *)
IncreaseUncalibrated(occupancy, at) ==
  LET least == Least(samples, at - IncreaseWindow)
  IN  IF least = None THEN None ELSE occupancy - least

(* unusualIncrease. It may be negative; only its positive part matters.    *)
Increase(occupancy, at) ==
  LET since == at - IncreaseWindow
      least == Least(samples, since)
  IN  IF calibratedAt > since \/ least = None THEN None ELSE occupancy - least

------------------------------------------------------------------------------
SamplingInit ==
  /\ now = 0
  /\ present \in BOOLEAN
  /\ occupied = 0 /\ initial = TRUE /\ trend = "STABLE"
  /\ window = {} /\ expires = 0 /\ timeseries = {}
  /\ running = TRUE /\ samples = {} /\ calibratedAt = Never
  /\ transit = NoEvent
  /\ movements = {} /\ changed = 0 /\ patched = Never /\ calibration = Never
  /\ stops = {}

Tick ==
  /\ now < MaxTime
  /\ now' = now + 1
  /\ UNCHANGED <<redisVars, memoryVars, transit, historyVars>>

(* The sensor reports a count; generated_at is the time of the report.     *)
Sense ==
  /\ transit = NoEvent
  /\ Cardinality(movements) < MaxEvents
  /\ \E count \in Counts : transit' = [count |-> count, at |-> now]
  /\ UNCHANGED <<now, redisVars, memoryVars, historyVars>>

(* Mutation: only the first movement sets the TTL.                         *)
ExpiresOnce == IF Members = {} THEN now + WindowTTL ELSE expires

(* EXPIRE with every movement.                                             *)
ExpiresAfter == now + WindowTTL

(* process() of a zone that is not configured.                             *)
Ignore ==
  /\ running /\ ~present
  /\ transit # NoEvent
  /\ transit' = NoEvent
  /\ UNCHANGED <<now, redisVars, memoryVars, historyVars>>

(* process(): recordMovement, calculateState, saveProcessed.               *)
Process ==
  /\ running /\ present
  /\ transit # NoEvent
  /\ LET movement == [id |-> Cardinality(movements), at |-> transit.at]
     IN  /\ window' = Pruned(Members \cup {movement})
         /\ movements' = movements \cup {movement}
  /\ expires' = ExpiresAfter
  /\ trend' = TrendAt(transit.count, occupied, transit.at)
  /\ calibratedAt' = IF initial THEN transit.at ELSE calibratedAt
  /\ calibration' = IF initial THEN now ELSE calibration
  /\ changed' = IF transit.count = occupied THEN changed ELSE now
  /\ occupied' = transit.count /\ initial' = FALSE
  /\ patched' = Never
  /\ transit' = NoEvent
  /\ UNCHANGED <<now, present, timeseries, running, samples, stops>>

(* sample(): windows and trend of a zone that has a hash, then the sample. *)
Sample ==
  /\ running
  /\ \A entry \in timeseries : entry.ts < now
  /\ LET sample == [ts |-> now, value |-> IF present THEN occupied ELSE None]
     IN  /\ timeseries' = Appended(sample)
         /\ samples' = Added(samples, sample)
  /\ IF present
     THEN /\ window' = Pruned(Members)
          /\ trend' = TrendAt(occupied, occupied, now)
          /\ patched' = now
     ELSE UNCHANGED <<window, trend, patched>>
  /\ UNCHANGED <<now, present, occupied, initial, expires, running, calibratedAt, transit,
                 movements, changed, calibration, stops>>

Stop ==
  /\ running
  /\ Cardinality(stops) < MaxStops
  /\ stops' = stops \cup {now}
  /\ running' = FALSE /\ samples' = {} /\ calibratedAt' = Never
  /\ UNCHANGED <<now, redisVars, transit, movements, changed, patched, calibration>>

(* Mutation: as much as the longest use of unusualIncrease asks for.       *)
LoadedShort == MetricsHistory(now - IncreaseWindow)

(* loadSamples(now - 16 min), then load().                                 *)
Loaded == MetricsHistory(now - HistoryAge)

(* initializeZones: a zone that is new gets a hash, one that is gone loses *)
(* it and its windows.                                                     *)
Configure ==
  /\ occupied' = 0 /\ initial' = TRUE /\ trend' = "STABLE"
  /\ window' = {} /\ expires' = 0
  /\ movements' = {} /\ changed' = now /\ patched' = Never /\ calibration' = Never

Start ==
  /\ ~running
  /\ running' = TRUE
  /\ present' \in BOOLEAN
  /\ IF present' # present THEN Configure
     ELSE UNCHANGED <<occupied, initial, trend, window, expires, movements, changed,
                      patched, calibration>>
  /\ samples' = Loaded
  /\ UNCHANGED <<now, timeseries, calibratedAt, transit, stops>>

SamplingNext == Tick \/ Sense \/ Ignore \/ Process \/ Sample \/ Stop \/ Start

SamplingSpec == SamplingInit /\ [][SamplingNext]_samplingVars

------------------------------------------------------------------------------
(* Properties                                                              *)

(* A sliding window counts every movement of its time and no other: the    *)
(* TTL and the pruning take nothing that is still inside, however events   *)
(* are delayed and the Processor stops.                                    *)
WindowCountsExact ==
  WindowCounts = [length \in Lengths |-> Cardinality({m \in movements : m.at > now - length})]

(* What is remembered in memory answers as parking:timeseries would: for   *)
(* every length up to the retention the same sum and number of samples and *)
(* the same minimum, after a restart too, and though the zone was not      *)
(* always there; and the value at a moment is the one of the last sample   *)
(* before it, if that one is not too old.                                  *)
HistoryAnswersAsTimeseries ==
  LET stored == MetricsHistory(0)
  IN  running =>
        \A back \in 0..HistoryAge :
          /\ Average(samples, now - back) = Average(stored, now - back)
          /\ Least(samples, now - back) = Least(stored, now - back)
          /\ (\E s \in Selected(stored) : now - HistoryAge <= s.ts /\ s.ts <= now - back)
               => ValueAt(samples, now - back) = ValueAt(stored, now - back)

Figures == Selected(MetricsHistory(0))

(* A zone that has stood still for the length of the trend, with a sample  *)
(* to prove it, is STABLE once the sampler has looked.                     *)
QuietZoneIsStable ==
  /\ running /\ patched # Never
  /\ \E s \in Figures :
       changed <= s.ts /\ patched - HistoryAge <= s.ts /\ s.ts <= patched - TrendWindow
       /\ s.value = occupied
  => trend = "STABLE"

(* Samples of the zone as it was before its first reading.                 *)
Uncalibrated == {s \in Figures : s.ts < calibration}

(* The jump from 0 to the first reading is no unusual growth. Whatever     *)
(* growth is reported is one over readings of the sensor, except in the    *)
(* two cases that calibratedAt misses: the Processor was restarted after   *)
(* the first reading and forgot it, or a sample was taken while that       *)
(* reading was on its way.                                                 *)
GrowthIsOverReadings ==
  LET grown == Increase(occupied, now)
      readings == {s \in Figures \ Uncalibrated : s.ts >= now - IncreaseWindow}
  IN  running /\ ~initial /\ grown > 0 =>
        \/ \E r \in readings : grown = occupied - r.value
        \/ \E t \in stops : t >= calibration
        \/ calibratedAt # Never /\ \E s \in Uncalibrated : s.ts >= calibratedAt
=============================================================================
