----------------------------- MODULE ZoneAlerts -----------------------------
(***************************************************************************)
(* The alerts of one zone: the steps of EventProcessor.process and of      *)
(* TimeseriesSampler.sample that read and write them, one command to Redis *)
(* at a time. Both run in the Processor's serial queue, so their steps do  *)
(* not interleave; a crash or a rejected command falls between two steps.  *)
(*                                                                         *)
(*   alert-service.ts    evaluateZone: read, decide, persist the alerts,   *)
(*                       then write the level and the cooldowns            *)
(*   event-processor.ts  then save the zone, the derived events and the    *)
(*                       checkpoint; a crash before that replays the event *)
(***************************************************************************)
EXTENDS AlertEngine

CONSTANTS
  Capacity,          \* capacity of the zone
  Readings,          \* counts that its sensor reports
  MaxFaults          \* bound: how often each kind of fault may happen

(* "crash": the Processor restarts and its startup catch-up replays the    *)
(* event it was processing. "abandon": the event is not processed again,   *)
(* because its task was rejected or because a later one overtook it.       *)
FaultKinds == {"crash", "abandon"}

ASSUME ZoneAssumption ==
  /\ Capacity \in Nat \ {0}
  /\ Readings \subseteq 0..Capacity
  /\ MaxFaults \in [FaultKinds -> Nat]

VARIABLES
  \* Redis
  occupied,          \* the zone hash
  level,             \* parking:alert:state:<zone>, "NONE" while unset
  active,            \* types of this zone in parking:alerts:active
  cooldowns,         \* parking:alert:cooldown:<zone>:<key> that exist
  \* Processor: lost in a crash
  pc,                \* "idle", "persisted", "written": last step of the task
  task,              \* the task in progress
  sampling,          \* a sample waits in the serial queue for its turn
  backlog,           \* more than 25 tasks are pending, or Redis is not ready
  \* the catch-up that follows a crash
  replay,            \* reading of the event to replay, or NoReading
  \* history
  opened,            \* per type, RAISED minus RESOLVED in parking:alerts:stream
  announced,         \* level alerts whose derived event is in parking:stream
  recoveries,        \* alerts RECOVERED minus ZONE_RECOVERED events
  faults             \* faults so far

redisVars == <<occupied, level, active, cooldowns>>
historyVars == <<opened, announced, recoveries>>
samplerVars == <<sampling, backlog>>
vars == <<occupied, level, active, cooldowns, pc, task, sampling, backlog, replay,
          opened, announced, recoveries, faults>>

NoReading == -1
NoTask == [source |-> "none", reading |-> NoReading, level |-> "NONE",
           cooldowns |-> {}, derived |-> {}]

DerivedEvents == {"OCCUPANCY_WARNING", "OCCUPANCY_CRITICAL", "ZONE_RECOVERED"}

Fault(kind) ==
  /\ faults[kind] < MaxFaults[kind]
  /\ faults' = [faults EXCEPT ![kind] = @ + 1]

Init ==
  /\ occupied = 0 /\ level = "NONE" /\ active = {} /\ cooldowns = {}
  /\ pc = "idle" /\ task = NoTask /\ replay = NoReading
  /\ sampling = FALSE /\ backlog = FALSE
  /\ opened = [type \in AlertTypes |-> 0] /\ announced = {} /\ recoveries = 0
  /\ faults = [kind \in FaultKinds |-> 0]

------------------------------------------------------------------------------
(* The alerts that a derived event of parking:stream announces.            *)
AnnouncedBy(derived) ==
  Only("OCCUPANCY_WARNING", "OCCUPANCY_WARNING" \in derived)
  \cup Only("HIGH_OCCUPANCY", "OCCUPANCY_CRITICAL" \in derived)

(* Mutation: a recovery derives no event.                                  *)
DeriveRaisedOnly(raised, recovered) ==
  Only("OCCUPANCY_WARNING", "OCCUPANCY_WARNING" \in raised)
  \cup Only("OCCUPANCY_CRITICAL", "HIGH_OCCUPANCY" \in raised)

DeriveAlertEvents(raised, recovered) ==
  Only("OCCUPANCY_WARNING", "OCCUPANCY_WARNING" \in raised)
  \cup Only("OCCUPANCY_CRITICAL", "HIGH_OCCUPANCY" \in raised)
  \cup Only("ZONE_RECOVERED", recovered)

(* One pipeline: HDEL what is resolved, then HSET what is raised.          *)
ActiveAfter(raised, resolved) == (active \ resolved) \cup raised

Count(condition) == IF condition THEN 1 ELSE 0

(* evaluateZone up to persist: the alerts and their history change, the    *)
(* level and the cooldowns do not yet.                                     *)
Evaluate(source, reading, increase) ==
  LET out == EvaluateZoneAlerts(level, active, cooldowns, reading, Capacity,
                                increase)
  IN  /\ active' = ActiveAfter(out.raise, out.resolve)
      /\ opened' = [type \in AlertTypes |->
                      opened[type] - Count(type \in out.resolve)
                                   + Count(type \in out.raise)]
      /\ announced' = announced \ out.resolve
      /\ recoveries' = recoveries + Count(out.recovered)
      /\ task' = [source |-> source, reading |-> reading, level |-> out.level,
                  cooldowns |-> out.cooldowns,
                  derived |-> DeriveAlertEvents(out.raise, out.recovered)]
      /\ pc' = "persisted"

(* A live event: the sensor's absolute count is the zone's new occupation. *)
ProcessEvent ==
  /\ pc = "idle" /\ replay = NoReading
  /\ \E reading \in Readings, increase \in Increases :
       Evaluate("event", reading, increase)
  /\ UNCHANGED <<occupied, level, cooldowns, samplerVars, replay, faults>>

(* The startup catch-up: nothing else of this zone runs before it.         *)
ReplayEvent ==
  /\ pc = "idle" /\ replay # NoReading
  /\ \E increase \in Increases : Evaluate("event", replay, increase)
  /\ replay' = NoReading
  /\ UNCHANGED <<occupied, level, cooldowns, samplerVars, faults>>

(* Events arrive faster than they are processed, or Redis goes away; the   *)
(* queue drains, or Redis is back.                                         *)
BacklogChanges ==
  /\ backlog' = ~backlog
  /\ UNCHANGED <<redisVars, pc, task, sampling, replay, historyVars, faults>>

(* The interval of METRICS_SAMPLE_INTERVAL_MS, which starts after the      *)
(* startup catch-up: a tick queues a sample, unless the queue is backed up *)
(* or Redis is not ready. One waiting sample stands for several, which     *)
(* would evaluate the same zone.                                           *)
SampleTimer ==
  /\ replay = NoReading
  /\ ~backlog /\ ~sampling
  /\ sampling' = TRUE
  /\ UNCHANGED <<redisVars, pc, task, backlog, replay, historyVars, faults>>

(* The turn of the sample: it evaluates the zone hash as it stands.        *)
Sample ==
  /\ pc = "idle" /\ replay = NoReading
  /\ sampling
  /\ sampling' = FALSE
  /\ \E increase \in Increases : Evaluate("sampler", occupied, increase)
  /\ UNCHANGED <<occupied, level, cooldowns, backlog, replay, faults>>

(* The second pipeline of evaluateZone. The sampler is done with the zone: *)
(* it drops `recovered` and derives no event.                              *)
WriteLevel ==
  /\ pc = "persisted"
  /\ level' = task.level
  /\ cooldowns' = cooldowns \cup task.cooldowns
  /\ IF task.source = "event"
     THEN pc' = "written" /\ task' = task
     ELSE pc' = "idle" /\ task' = NoTask
  /\ UNCHANGED <<occupied, active, samplerVars, replay, historyVars, faults>>

(* saveProcessed: the zone hash, the derived events and the checkpoint.    *)
SaveProcessed ==
  /\ pc = "written"
  /\ occupied' = task.reading
  /\ announced' = announced \cup (AnnouncedBy(task.derived) \cap active)
  /\ recoveries' = recoveries - Count("ZONE_RECOVERED" \in task.derived)
  /\ pc' = "idle" /\ task' = NoTask
  /\ UNCHANGED <<level, active, cooldowns, samplerVars, replay, opened, faults>>

(* EX alertCooldownSeconds runs out.                                       *)
CooldownExpires(key) ==
  /\ key \in cooldowns
  /\ cooldowns' = cooldowns \ {key}
  /\ UNCHANGED <<occupied, level, active, pc, task, samplerVars, replay,
                 historyVars, faults>>

(* The process dies between two steps of a task, and its queue with it.    *)
(* The sampler's task is not repeated, the event's is.                     *)
Crash ==
  /\ pc # "idle"
  /\ Fault("crash")
  /\ replay' = IF task.source = "event" THEN task.reading ELSE NoReading
  /\ pc' = "idle" /\ task' = NoTask /\ sampling' = FALSE
  /\ UNCHANGED <<redisVars, backlog, historyVars>>

(* The task of an event ends there for good.                               *)
Abandon ==
  /\ pc # "idle"
  /\ task.source = "event"
  /\ Fault("abandon")
  /\ pc' = "idle" /\ task' = NoTask
  /\ UNCHANGED <<redisVars, samplerVars, replay, historyVars>>

Next ==
  \/ ProcessEvent
  \/ ReplayEvent
  \/ BacklogChanges
  \/ SampleTimer
  \/ Sample
  \/ WriteLevel
  \/ SaveProcessed
  \/ \E key \in CooldownKeys : CooldownExpires(key)
  \/ Crash
  \/ Abandon

Spec == Init /\ [][Next]_vars

(* The interval ticks again and again: while there is no backlog, a tick   *)
(* queues a sample. The serial queue runs a task to its end and is first   *)
(* in, first out: at most 25 tasks stand before a queued sample, which     *)
(* therefore has its turn whatever arrives behind it, hence strong         *)
(* fairness (a crash disables it together with its place). Nothing says    *)
(* that a backlog ends. A key with a TTL expires.                          *)
FairSpec ==
  /\ Spec
  /\ WF_vars(WriteLevel)
  /\ WF_vars(SaveProcessed)
  /\ WF_vars(ReplayEvent)
  /\ WF_vars(SampleTimer)
  /\ SF_vars(Sample)
  /\ \A key \in CooldownKeys : WF_vars(CooldownExpires(key))

------------------------------------------------------------------------------
(* Properties                                                              *)

Tasks == [source : {"none", "event", "sampler"}, reading : Readings \cup {0, NoReading},
          level : AlertLevels, cooldowns : SUBSET CooldownKeys,
          derived : SUBSET DerivedEvents]

TypeOK ==
  /\ occupied \in Readings \cup {0}
  /\ level \in AlertLevels
  /\ active \subseteq AlertTypes
  /\ cooldowns \subseteq CooldownKeys
  /\ pc \in {"idle", "persisted", "written"}
  /\ task \in Tasks
  /\ sampling \in BOOLEAN /\ backlog \in BOOLEAN
  /\ replay \in Readings \cup {NoReading}
  /\ opened \in [AlertTypes -> Int]
  /\ announced \subseteq AlertTypes
  /\ recoveries \in Int
  /\ faults \in [FaultKinds -> Nat]

(* Between tasks, with every interrupted event replayed.                   *)
Settled == pc = "idle" /\ replay = NoReading /\ faults["abandon"] = 0

(* At most one of WARNING, HIGH and FULL is active, although a change of   *)
(* level resolves a single alert and the alerts are written before the     *)
(* level that decides about the next ones.                                 *)
OneLevelAlert ==
  \A a, b \in active \cap LevelAlerts : a = b

(* parking:alerts:stream opens an alert once and closes it once: what is   *)
(* active is what was RAISED and not RESOLVED, through crashes and replays. *)
HistoryMatchesActive ==
  \A type \in AlertTypes : opened[type] = Count(type \in active)

(* The alert in force is the one of the level; only a warning may be       *)
(* missing, the one a cooldown held back. A replay repairs the halves that *)
(* a crash left behind.                                                    *)
LevelAlertMatchesLevel ==
  Settled =>
    \/ level = "NONE" /\ active \cap LevelAlerts = {}
    \/ level = "WARNING" /\ active \cap LevelAlerts = {}
    \/ level # "NONE" /\ active \cap LevelAlerts = {LevelAlert[level]}

(* The level is never below what the thresholds say of the saved zone, and *)
(* above it only inside the hysteresis.                                    *)
LevelFollowsOccupancy ==
  Settled =>
    LET occupancy == CalculateOccupancy(occupied, Capacity)
    IN  /\ LevelRank[level] >= LevelRank[RawLevel(occupancy)]
        /\ level # "NONE" => occupancy >= LevelThreshold[level] - AlertHysteresis

(* LOW_AVAILABILITY never stands beside a full zone, nor on a zone with    *)
(* more room than limit and hysteresis.                                    *)
LowAvailabilityJustified ==
  Settled /\ "LOW_AVAILABILITY" \in active =>
    /\ level # "FULL"
    /\ CalculateAvailable(Capacity, occupied) <= LowAvailability + LowHysteresis

(* The alerts fit the zone that was saved: the level is the one of its     *)
(* occupancy, the level alert in force is that of the level, and           *)
(* LOW_AVAILABILITY has its reason, whatever was interrupted and replayed  *)
(* before, and whichever of sampler and events looked last.                *)
AlertsFitZone ==
  /\ LevelAlertMatchesLevel
  /\ LevelFollowsOccupancy
  /\ LowAvailabilityJustified

(* The sampler drops `recovered`, which is harmless only because a sample  *)
(* never moves the level: it evaluates a zone that its last event left at  *)
(* rest. So every recovery, without faults, is followed by its event.      *)
RecoveryAnnounced ==
  pc = "idle" /\ faults["abandon"] = 0 /\ faults["crash"] = 0 => recoveries = 0

(* A sample raises and resolves alerts but leaves the level where it is.   *)
SampleKeepsLevel ==
  pc = "persisted" /\ task.source = "sampler" /\ faults["abandon"] = 0
    => task.level = level

(* A warning held back by the cooldown is raised in the end, if the zone   *)
(* stays at that level and the queue does not back up again: under a load  *)
(* that keeps more than 25 tasks pending at every tick the samples are     *)
(* skipped, and the warning is raised only once the load is over.          *)
HeldBackWarningIsRaised ==
  (level = "WARNING" /\ active \cap LevelAlerts = {})
    ~> (level # "WARNING" \/ active \cap LevelAlerts # {} \/ backlog)

(* event-model.md: OCCUPANCY_WARNING is derived when the alert is raised.  *)
(* It does not hold: the sampler raises a held-back warning without event. *)
WarningHasItsEvent ==
  pc = "idle" /\ "OCCUPANCY_WARNING" \in active
    => "OCCUPANCY_WARNING" \in announced

(* event-model.md: ZONE_RECOVERED is derived when the alert is resolved;   *)
(* architecture.md: what is lost while the Processor is down is recovered. *)
(* It does not hold after a crash between the alerts and the zone.         *)
RecoveryHasItsEvent ==
  Settled => recoveries <= 0
=============================================================================
