--------------------------- MODULE EventProcessor ---------------------------
(***************************************************************************)
(* What one sensor event leaves in Redis, command by command, for all the  *)
(* zones together.                                                         *)
(*                                                                         *)
(*   event-processor.ts     process(): read, window, save, groups, metrics *)
(*   state-repository.ts    the pipelines behind each of those steps       *)
(*   zone-state.ts          calculateState                                 *)
(*   derived-events.ts      the status events                              *)
(*   metrics-calculator.ts  the figures of each group                      *)
(*   timeseries-sampler.ts  recomputes groups and figures every 2 s        *)
(*                                                                         *)
(* Which event has its turn is the subject of EventDelivery, and what the  *)
(* zone alerts do between two of the steps that of ZoneAlerts. Here the    *)
(* next event is read when the one before it is done with: an event that   *)
(* waits changes nothing.                                                  *)
(***************************************************************************)
EXTENDS Occupancy, Sequences, FiniteSetsExt

CONSTANTS
  Zones,             \* zones that some configuration has
  VehicleType,       \* of each zone
  Configs,           \* capacities of the zones in config/zones.json, one
                     \* function for each version of the file
  Thresholds,        \* thresholds.occupancy: normal, warning, critical, full
  MaxEvents,         \* bound: sensor events
  MaxFaults          \* bound: how many faults happen in all

VehicleTypes == {"CAR", "MOTORCYCLE"}
Kinds == {"ENTRY", "EXIT"}

(* "crash": the process stops between two steps. "cut": it stops while     *)
(* saveProcessed is being sent. "resent": the reply of saveProcessed is    *)
(* lost and the client sends it again. "refused": Redis refuses commands   *)
(* of saveProcessed, and nobody looks. "rejected": a command is rejected   *)
(* and the task ends there. "torn": a start does not run all commands of   *)
(* initializeZones, because it stops on the way or Redis refuses them.     *)
FaultKinds == {"crash", "cut", "resent", "refused", "rejected", "torn"}

ASSUME EventProcessorAssumption ==
  /\ VehicleType \in [Zones -> VehicleTypes]
  /\ Configs # {}
  /\ \A c \in Configs : DOMAIN c \subseteq Zones /\ \A z \in DOMAIN c : c[z] \in Nat \ {0}
  /\ Thresholds \in [normal : Nat, warning : Nat, critical : Nat, full : Nat]
  /\ Thresholds.normal < Thresholds.warning /\ Thresholds.warning < Thresholds.critical
  /\ Thresholds.critical <= Thresholds.full /\ Thresholds.full <= 10000
  /\ MaxEvents \in Nat
  /\ MaxFaults \in Nat

VARIABLES
  \* Redis
  hash,              \* parking:zone:<id>, NoZone if there is none
  ranking,           \* parking:ranking:occupancy: score of each member
  window,            \* members of parking:window:{entries,exits}:<id>
  stats,             \* parking:stats:{entries,exits}
  told,              \* status in the last ZONE_STATUS_CHANGED of the zone
  fulls,             \* zones whose PARKING_FULL no PARKING_AVAILABLE has followed
  groupAlerts,       \* types of vehicle whose group alert is active
  metrics,           \* parking:metrics:*
  checkpoint,        \* parking:processor:checkpoint
  \* Processor
  config,            \* the configuration it runs with
  pc,                \* step of the task in progress
  previous,          \* what getZone read for it
  \* the sensors
  stream,            \* the sensor events after the checkpoint, by number
  next,              \* the one whose turn it is
  \* history
  reconfigured,      \* zones that a new configuration changed, not told since
  altered,           \* those, and those that were told since
  removed,           \* zones that a configuration took away at some time
  faults             \* faults so far

zoneVars == <<hash, ranking, stats, told, fulls, checkpoint, stream>>
figureVars == <<groupAlerts, metrics>>
historyVars == <<reconfigured, altered, removed>>
vars == <<hash, ranking, window, stats, told, fulls, groupAlerts, metrics, checkpoint,
          config, pc, previous, stream, next, reconfigured, altered,
          removed, faults>>

NoZone == [exists |-> FALSE]

Fault(kind) ==
  /\ MapThenSumSet(LAMBDA k : faults[k], FaultKinds) < MaxFaults
  /\ faults' = [faults EXCEPT ![kind] = @ + 1]

------------------------------------------------------------------------------
(* What is computed from the zones.                                        *)

OccupancyOf(z) == CalculateOccupancy(hash[z].occupied, hash[z].capacity)
StatusOf(h) == DetermineStatus(CalculateOccupancy(h.occupied, h.capacity), Thresholds)

(* initialZoneState: last_event is INIT until the first reading.           *)
InitialZone(capacity) ==
  [exists |-> TRUE, capacity |-> capacity, occupied |-> 0,
   total |-> [k \in Kinds |-> 0]]

(* getAllZones: the zones of the configuration that have a hash.           *)
AllZones == {z \in DOMAIN config : hash[z] # NoZone}
OfType(type) == {z \in AllZones : VehicleType[z] = type}

(* ZREVRANGE, and the first of it that is in the group.                    *)
Top(zones) ==
  LET ranked == zones \cap DOMAIN ranking
  IN  IF ranked = {} THEN {}
      ELSE {CHOOSE z \in ranked : \A y \in ranked : ranking[z] >= ranking[y]}

(* computeGroupMetrics: sums from the hashes, the top zone from the        *)
(* ranking.                                                                *)
GroupMetrics(zones) ==
  LET capacity == MapThenSumSet(LAMBDA z : hash[z].capacity, zones)
      occupied == MapThenSumSet(LAMBDA z : hash[z].occupied, zones)
  IN  [zones     |-> Cardinality(zones),
       capacity  |-> capacity,
       occupied  |-> occupied,
       available |-> capacity - occupied,
       critical  |-> {z \in zones : StatusOf(hash[z]) \in {"CRITICAL", "FULL"}},
       full      |-> {z \in zones : StatusOf(hash[z]) = "FULL"},
       top       |-> Top(zones)]

(* computeMetrics.                                                         *)
Metrics ==
  [GLOBAL     |-> GroupMetrics(AllZones),
   CAR        |-> GroupMetrics(OfType("CAR")),
   MOTORCYCLE |-> GroupMetrics(OfType("MOTORCYCLE"))]

AllFull(type) == \A z \in OfType(type) : StatusOf(hash[z]) = "FULL"

(* Mutation: a group alert is raised and never resolved.                   *)
GroupAlertsKept == groupAlerts \cup {type \in VehicleTypes : OfType(type) # {} /\ AllFull(type)}

(* evaluateGroupAlerts: a type without zones is passed over.               *)
GroupAlertsAfter ==
  {type \in VehicleTypes : IF OfType(type) = {} THEN type \in groupAlerts
                           ELSE AllFull(type)}

(* Mutation: a full zone that falls back to CRITICAL is not available yet. *)
StatusEventsLate(before, after) ==
  IF before = after THEN {}
  ELSE {"ZONE_STATUS_CHANGED"}
       \cup (IF after = "FULL" THEN {"PARKING_FULL"} ELSE {})
       \cup (IF before = "FULL" /\ after # "CRITICAL" THEN {"PARKING_AVAILABLE"} ELSE {})

(* deriveStatusEvents.                                                     *)
StatusEvents(before, after) ==
  IF before = after THEN {}
  ELSE {"ZONE_STATUS_CHANGED"}
       \cup (IF after = "FULL" THEN {"PARKING_FULL"} ELSE {})
       \cup (IF before = "FULL" THEN {"PARKING_AVAILABLE"} ELSE {})

Waiting == next \in DOMAIN stream
event == stream[next]

(* calculateState: the sensor's absolute count, and one more in the total  *)
(* of its kind.                                                            *)
NewZone ==
  [exists   |-> TRUE,
   capacity |-> config[event.zone],
   occupied |-> ClampOccupied(event.occupied, config[event.zone]),
   total    |-> [k \in Kinds |->
                   (IF previous = NoZone THEN 0 ELSE previous.total[k])
                   + (IF k = event.kind THEN 1 ELSE 0)]]

Derived ==
  IF previous = NoZone THEN {} ELSE StatusEvents(StatusOf(previous), StatusOf(NewZone))

------------------------------------------------------------------------------
(* initializeZones: a missing hash is created, a changed capacity is       *)
(* applied to the count that was there, a zone that is no longer           *)
(* configured loses its hash, its ranking and its windows.                 *)
InitializedZone(z, c) ==
  IF z \notin DOMAIN c THEN IF z \in DOMAIN ranking THEN NoZone ELSE hash[z]
  ELSE IF hash[z] = NoZone THEN InitialZone(c[z])
  ELSE [hash[z] EXCEPT !.capacity = c[z],
                       !.occupied = ClampOccupied(@, c[z])]

(* The zones that initializeZones takes out.                               *)
Gone(c) == DOMAIN ranking \ DOMAIN c

(* Mutation: the ranking keeps the score of the old capacity.              *)
RescoredNew(c) == {z \in DOMAIN c : hash[z] = NoZone}

(* The zones that initializeZones writes, and gives a score.               *)
Rescored(c) == {z \in DOMAIN c : hash[z] = NoZone \/ hash[z].capacity # c[z]}

Init ==
  /\ config \in Configs
  /\ hash = [z \in Zones |-> IF z \in DOMAIN config THEN InitialZone(config[z]) ELSE NoZone]
  /\ ranking = [z \in DOMAIN config |-> 0]
  /\ window = [z \in Zones |-> [k \in Kinds |-> {}]]
  /\ stats = [z \in Zones |-> [k \in Kinds |-> 0]]
  /\ told = [z \in Zones |-> DetermineStatus(0, Thresholds)] /\ fulls = {}
  /\ groupAlerts = {} /\ metrics = Metrics /\ checkpoint = 0
  /\ pc = "idle" /\ previous = NoZone
  /\ stream = [n \in {} |-> 0] /\ next = 1
  /\ reconfigured = {} /\ altered = {} /\ removed = {}
  /\ faults = [kind \in FaultKinds |-> 0]

------------------------------------------------------------------------------
LastNumber == checkpoint + Cardinality(DOMAIN stream)

(* A vehicle passes a sensor: the count after an entry is not 0, the count *)
(* after an exit leaves room. Counts may jump, as after a reset.           *)
Sense ==
  /\ Waiting => pc = "down"
  /\ LastNumber < MaxEvents
  /\ \E z \in DOMAIN config, k \in Kinds :
       \E count \in IF k = "ENTRY" THEN 1..config[z] ELSE 0..(config[z] - 1) :
         stream' = [n \in DOMAIN stream \cup {LastNumber + 1} |->
                      IF n \in DOMAIN stream THEN stream[n]
                      ELSE [zone |-> z, kind |-> k, occupied |-> count]]
  /\ UNCHANGED <<hash, ranking, stats, told, fulls, checkpoint, figureVars, window,
                 config, pc, previous, next, historyVars, faults>>

(* Mutation: every attempt to process an event has a member of its own.    *)
MemberPerAttempt == <<next, faults["crash"]>>

(* ZADD: the member of the window is the event's id.                       *)
Member == next

(* getZone, then recordMovement.                                           *)
Record ==
  /\ pc = "idle" /\ Waiting
  /\ event.zone \in DOMAIN config
  /\ previous' = hash[event.zone]
  /\ window' = [window EXCEPT ![event.zone][event.kind] = @ \cup {Member}]
  /\ pc' = "recorded"
  /\ UNCHANGED <<zoneVars, figureVars, config, next, historyVars, faults>>

(* An event of a zone that is not configured is ignored.                   *)
UnknownZone ==
  /\ pc = "idle" /\ Waiting
  /\ event.zone \notin DOMAIN config
  /\ next' = next + 1
  /\ UNCHANGED <<zoneVars, figureVars, window, config, pc, previous,
                 historyVars, faults>>

(* The pipeline of saveProcessed; nextEventIds before it only draws        *)
(* numbers. "times" says how often Redis runs each of its commands.        *)
Commands == <<"zone", "ranking", "stats", "derived", "checkpoint">>
CommandNames == {Commands[i] : i \in DOMAIN Commands}
Place(c) == CHOOSE i \in DOMAIN Commands : Commands[i] = c

SavePipeline(times) ==
  LET z == event.zone
      derived == IF times["derived"] = 0 THEN {} ELSE Derived
  IN  /\ hash' = IF times["zone"] = 0 THEN hash ELSE [hash EXCEPT ![z] = NewZone]
      /\ ranking' = IF times["ranking"] = 0 THEN ranking
                    ELSE [y \in DOMAIN ranking \cup {z} |->
                            IF y = z THEN CalculateOccupancy(NewZone.occupied, config[z])
                            ELSE ranking[y]]
      /\ stats' = [stats EXCEPT ![z][event.kind] = @ + times["stats"]]
      /\ told' = IF "ZONE_STATUS_CHANGED" \in derived
                 THEN [told EXCEPT ![z] = StatusOf(NewZone)] ELSE told
      /\ fulls' = IF "PARKING_FULL" \in derived THEN fulls \cup {z}
                  ELSE IF "PARKING_AVAILABLE" \in derived THEN fulls \ {z} ELSE fulls
      /\ reconfigured' = IF "ZONE_STATUS_CHANGED" \in derived
                         THEN reconfigured \ {z} ELSE reconfigured
      /\ checkpoint' = IF times["checkpoint"] = 0 THEN checkpoint ELSE next
      /\ stream' = [n \in {m \in DOMAIN stream : m > checkpoint'} |-> stream[n]]

SaveProcessed ==
  /\ pc = "recorded"
  /\ SavePipeline([c \in CommandNames |-> 1])
  /\ pc' = "saved"
  /\ UNCHANGED <<figureVars, window, config, previous, next, altered, removed, faults>>

(* The connection closes before any reply: the client connects again and   *)
(* sends the whole pipeline once more, whatever Redis had run of it.       *)
SaveResent ==
  /\ pc = "recorded"
  /\ Fault("resent")
  /\ \E ran \in DOMAIN Commands :
       SavePipeline([c \in CommandNames |-> IF Place(c) <= ran THEN 2 ELSE 1])
  /\ pc' = "saved"
  /\ UNCHANGED <<figureVars, window, config, previous, next, altered, removed>>

(* exec() resolves with an error for each command that was refused or      *)
(* given up, and saveProcessed does not look at them.                      *)
SaveRefused ==
  /\ pc = "recorded"
  /\ Fault("refused")
  /\ \E refused \in SUBSET CommandNames \ {{}} :
       SavePipeline([c \in CommandNames |-> IF c \in refused THEN 0 ELSE 1])
  /\ pc' = "saved"
  /\ UNCHANGED <<figureVars, window, config, previous, next, altered, removed>>

(* The Processor or Redis stops when part of the pipeline has run.         *)
SaveCut ==
  /\ pc = "recorded"
  /\ Fault("cut")
  /\ \E ran \in DOMAIN Commands :
       SavePipeline([c \in CommandNames |-> IF Place(c) <= ran THEN 1 ELSE 0])
  /\ pc' = "down"
  /\ UNCHANGED <<figureVars, window, config, previous, next, altered, removed>>

(* evaluateGroups: of an event between the save and the metrics, of a      *)
(* sample at its end.                                                      *)
EvaluateGroups ==
  /\ pc \in {"saved", "sampled"}
  /\ groupAlerts' = GroupAlertsAfter
  /\ pc' = IF pc = "saved" THEN "grouped" ELSE "idle"
  /\ UNCHANGED <<zoneVars, window, metrics, config, previous, next,
                 historyVars, faults>>

SaveMetrics ==
  /\ pc = "grouped"
  /\ metrics' = Metrics
  /\ pc' = "idle" /\ previous' = NoZone /\ next' = next + 1
  /\ UNCHANGED <<zoneVars, window, groupAlerts, config, historyVars, faults>>

(* The sampler saves the figures first and looks at the groups last.       *)
Sample ==
  /\ pc = "idle"
  /\ metrics' = Metrics
  /\ pc' = "sampled"
  /\ UNCHANGED <<zoneVars, window, groupAlerts, config, previous, next,
                 historyVars, faults>>

(* The serial queue logs a rejected task and runs the next one. A live     *)
(* event ends alone, a catch-up with everything it had still to replay.    *)
Reject ==
  /\ pc \notin {"idle", "down"}
  /\ Fault("rejected")
  /\ pc' = "idle" /\ previous' = NoZone
  /\ next' = IF pc = "sampled" THEN next ELSE LastNumber + 1
  /\ UNCHANGED <<zoneVars, figureVars, window, config, historyVars>>

Crash ==
  /\ pc # "down"
  /\ Fault("crash")
  /\ pc' = "down"
  /\ UNCHANGED <<zoneVars, figureVars, window, config, previous, next, historyVars>>

(* The catch-up replays what is after the checkpoint.                      *)
Resume == checkpoint + 1

(* initializeZones under the file as it is now, of which Redis runs what   *)
(* concerns the hashes and windows of some zones (HSET, DEL) and the       *)
(* ranking of others (ZADD; one ZREM for all that are gone).               *)
InitializeZones(c, hashed, ranked) ==
  /\ hash' = [z \in Zones |-> IF z \in hashed THEN InitializedZone(z, c) ELSE hash[z]]
  /\ ranking' = [z \in (DOMAIN ranking \ (Gone(c) \cap ranked)) \cup (Rescored(c) \cap ranked) |->
                   IF z \in Rescored(c) \cap ranked
                   THEN LET h == InitializedZone(z, c)
                        IN  CalculateOccupancy(h.occupied, h.capacity)
                   ELSE ranking[z]]
  /\ window' = [z \in Zones |-> IF z \in Gone(c) \cap hashed
                                THEN [k \in Kinds |-> {}] ELSE window[z]]
  /\ reconfigured' = reconfigured \cup
       {z \in Zones : \/ hash[z] # NoZone /\ hash'[z] = NoZone
                      \/ /\ hash[z] # NoZone /\ hash'[z] # NoZone
                         /\ StatusOf(hash[z]) # StatusOf(hash'[z])}
  /\ removed' = removed \cup Gone(c)
  /\ altered' = altered \cup reconfigured'
  /\ config' = c

(* main(): the zones, then the catch-up.                                   *)
Restart ==
  /\ pc = "down"
  /\ \E c \in Configs : InitializeZones(c, Zones, Zones)
  /\ pc' = "idle" /\ previous' = NoZone
  /\ next' = Resume
  /\ UNCHANGED <<stats, told, fulls, checkpoint, stream, figureVars, faults>>

(* No result of exec() is looked at: the start goes on, unless it was the  *)
(* process that stopped.                                                   *)
RestartTorn ==
  /\ pc = "down"
  /\ Fault("torn")
  /\ \E c \in Configs, hashed, ranked \in SUBSET Zones :
       /\ Gone(c) \subseteq ranked \/ Gone(c) \cap ranked = {}
       /\ InitializeZones(c, hashed, ranked)
  /\ pc' \in {"idle", "down"} /\ previous' = NoZone
  /\ next' = Resume
  /\ UNCHANGED <<stats, told, fulls, checkpoint, stream, figureVars>>

Next ==
  \/ Sense \/ Record \/ UnknownZone
  \/ SaveProcessed \/ SaveResent \/ SaveRefused \/ SaveCut
  \/ EvaluateGroups \/ SaveMetrics \/ Sample
  \/ Reject \/ Crash \/ Restart \/ RestartTorn

Spec == Init /\ [][Next]_vars

Work == Record \/ UnknownZone \/ SaveProcessed \/ EvaluateGroups \/ SaveMetrics \/ Restart

(* The queue runs each task to its end; a container that stops is started  *)
(* again. The sampler leaves out its sample while the queue is backed up,  *)
(* so that nothing is said of its turn among the events: weak fairness     *)
(* asks for a sample only once no event waits.                             *)
Fairness ==
  /\ WF_vars(Work)
  /\ WF_vars(Sample)

FairSpec == Spec /\ Fairness

------------------------------------------------------------------------------
(* Properties                                                              *)

Running == pc # "down"
Within(x, low, high) == low <= x /\ x <= high

(* Three counts of the movements of a zone are kept apart: the totals of   *)
(* its hash, the counters of parking:stats and the members of its windows. *)
(* They agree through crashes, replays and new configurations. Only a      *)
(* pipeline that was sent twice, cut or refused sets them apart, by one    *)
(* each time, and a rejected task leaves one member without its count.     *)
CountersAgree ==
  \A z \in AllZones, k \in Kinds :
    LET total == hash[z].total[k]
        members == Cardinality(window[z][k])
        underWay == Cardinality({n \in DOMAIN stream : stream[n].zone = z /\ stream[n].kind = k})
    IN  /\ z \notin removed =>
             Within(stats[z][k] - total,
                    -(faults["cut"] + faults["refused"]),
                    faults["resent"] + faults["refused"])
        /\ Within(members - total, -(faults["cut"] + faults["refused"]),
                  underWay + faults["rejected"] + faults["refused"])

(* Who reads parking:stream knows the status of every zone: the last       *)
(* ZONE_STATUS_CHANGED has it, and PARKING_FULL and PARKING_AVAILABLE      *)
(* answer one another, whatever was replayed, rejected or sent twice. Only *)
(* a new configuration changes a zone without saying so, unless commands   *)
(* of saveProcessed or of initializeZones were not carried out.            *)
StatusIsTold ==
  faults["cut"] = 0 /\ faults["refused"] = 0 /\ faults["torn"] = 0 =>
    \A z \in AllZones :
      /\ z \notin reconfigured => told[z] = StatusOf(hash[z])
      /\ z \notin altered => (z \in fulls) = (StatusOf(hash[z]) = "FULL")

(* getRanking of the Backend: the configured zones, each with those that   *)
(* come before it. Equal scores may stand either way.                      *)
RankedBy(score) ==
  LET known == DOMAIN score \cap DOMAIN config
  IN  [z \in known |-> [occupancy |-> score[z], before |-> {y \in known : score[y] > score[z]}]]

(* What is answered for the ranking are all zones of the configuration in  *)
(* the order of the occupancy of their hashes, and nothing else is kept;   *)
(* what a cut pipeline leaves out, the replay of its event puts right. A   *)
(* refused command and a start that was torn leave it wrong until the next *)
(* event of the zone or the next start.                                    *)
RankingFollowsZones ==
  /\ Running /\ faults["refused"] = 0 /\ faults["torn"] = 0
  /\ faults["cut"] = 0 \/ (DOMAIN stream = {} /\ faults["rejected"] = 0)
  =>
    /\ DOMAIN ranking = DOMAIN config
    /\ RankedBy(ranking) = RankedBy([z \in DOMAIN config |-> OccupancyOf(z)])

Current ==
  /\ metrics = Metrics
  /\ \A type \in VehicleTypes : OfType(type) # {} => (type \in groupAlerts) = AllFull(type)

(* Group alerts and saved figures may fall behind the zones after a        *)
(* failure, but never for good: the next sample sets both right.           *)
FiguresFollowZones == []<>Current
=============================================================================
