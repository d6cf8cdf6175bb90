--------------------------- MODULE SensorReadings ---------------------------
(***************************************************************************)
(* The way of one reading: captured by the virtual sensor of a zone,       *)
(* stamped with the simulated clock, normalised, validated, written to     *)
(* parking:stream, validated again and applied by the Processor.           *)
(*                                                                         *)
(*   sim-clock.ts, demand-profile.ts    what time it is, and what is usual *)
(*   zone-simulator.ts                  the sensor and its own window      *)
(*   event-normalizer.ts, event-validator.ts, event.schema.ts              *)
(*   parking-simulator.ts               tick, apply, reset, restore        *)
(*   zone-state.ts, derived-events.ts   what the Processor makes of it     *)
(*                                                                         *)
(* One zone: zones share the clock and nothing else. Publisher and         *)
(* Processor read config/zones.json when they start, each on its own, so   *)
(* an edit reaches them one after the other. Which plans a scenario makes  *)
(* is the subject of ScenarioManager, the order of the queue's tasks that  *)
(* of Publisher; any plan may come here.                                   *)
(***************************************************************************)
EXTENDS Occupancy, FiniteSets, SequencesExt, Functions

CONSTANTS
  Capacities,        \* capacity of the zone in the versions of zones.json
  Percents,          \* what the generator may draw for initialOccupancy
  Schedule,          \* schedule of simulation.json: from, to, profile
  StartTime,         \* SIMULATION_START_TIME, DayStart and DayEnd:
  DayStart, DayEnd,  \* minutes of the day
  PerTick,           \* simMinutesPerTick when accelerated
  WallStart,         \* minute of the real day when the system is started
  Minute,            \* moments of real time in a minute
  MaxNow,            \* bound: moments that pass
  MaxMoves,          \* bound: movements of a plan
  MaxTicks,          \* bound: ticks that the Publisher makes
  MaxCommands,       \* bound: commands of the panel
  MaxStops           \* bound: stops of the two processes

Kinds == {"ENTRY", "EXIT"}
Modes == {"ACCELERATED_DEMO", "REAL_TIME_PROFILE"}
DayMinutes == 24 * 60

(* ScheduleEntrySchema: two clock times and a profile.                     *)
ValidSchedule ==
  /\ Len(Schedule) > 0
  /\ \A i \in 1..Len(Schedule) :
       Schedule[i].from \in 0..DayMinutes - 1 /\ Schedule[i].to \in 0..DayMinutes - 1

ASSUME SensorAssumption ==
  /\ Capacities \subseteq Nat \ {0} /\ Capacities # {}
  /\ Percents \subseteq 0..100 /\ Percents # {}
  /\ ValidSchedule
  /\ DayStart \in 0..DayMinutes - 1 /\ DayEnd \in DayStart + 1..DayMinutes - 1
  /\ StartTime \in DayStart..DayEnd - 1
  /\ PerTick \in Nat \ {0} /\ WallStart \in 0..DayMinutes - 1
  /\ Minute \in Nat \ {0}
  /\ {MaxNow, MaxMoves, MaxTicks, MaxCommands, MaxStops} \subseteq Nat

VARIABLES
  \* Publisher: configuration, SimulatedClock, ZoneSimulator
  capacity, mode, minute, day, occupied,
  recent,            \* movements that the sensor remembers: at, kind
  \* Publisher: index.ts
  loop,              \* where run() stands: "boot", "poll", "plan"; "stopping"
                     \* and "stopped" are the same two once stopping is set
  plan,              \* movements left of the tick
  profile,           \* profile the plan was made for, and the minute
  task,              \* running task of the queue: by, step and what it holds
  \* Redis
  saved,             \* parking:simulator:state: empty, or one snapshot
  zone,              \* parking:zone:<id>, NoZone until the Processor starts
  stream,            \* readings that the Processor has not come to
  \* Processor
  processor,         \* capacity in its configuration
  derived,           \* data of the last derived event: empty, or one
  \* history
  rejected,          \* readings that a schema turned away
  shown,             \* clock in the last reading published
  jumped,            \* the clock was set to another time since
  moves,             \* movements since the zone was last set: at, kind
  exact,             \* every window was what the movements say
  now, ticks, sent, stops

clockVars == <<mode, minute, day>>
sensorVars == <<capacity, occupied, recent, moves>>
loopVars == <<loop, plan, profile>>
processorVars == <<zone, processor, derived>>
historyVars == <<rejected, shown, exact>>
bounds == <<ticks, sent, stops>>
vars == <<capacity, mode, minute, day, occupied, recent, loop, plan, profile, task,
          saved, zone, stream, processor, derived, rejected, shown, jumped, moves,
          exact, now, ticks, sent, stops>>

NoZone == [capacity |-> 0, occupied |-> 0]
NoTask == [by |-> "nobody", step |-> "none"]

------------------------------------------------------------------------------
(* The clock and the schedule.                                             *)

Wall == (WallStart + now \div Minute) % DayMinutes

(* minuteOfDay(), when the accelerated clock says accelerated.             *)
MinuteOfDay(accelerated) == IF mode = "ACCELERATED_DEMO" THEN accelerated ELSE Wall

(* formatClock: the hours and minutes of any number of minutes.            *)
Label == MinuteOfDay(minute) % DayMinutes

(* advance(): what goes beyond the end of the day is lost.                 *)
NewDay == mode = "ACCELERATED_DEMO" /\ minute + PerTick >= DayEnd

Advance ==
  /\ minute' = IF mode # "ACCELERATED_DEMO" THEN minute
               ELSE IF NewDay THEN DayStart ELSE minute + PerTick
  /\ day' = IF NewDay THEN day + 1 ELSE day
  /\ UNCHANGED mode

(* Mutation: the end of a range belongs to it.                             *)
InRangeClosed(m, from, to) ==
  IF from <= to THEN m >= from /\ m <= to ELSE m >= from \/ m <= to

(* A range may cross midnight.                                             *)
InRange(m, from, to) ==
  IF from <= to THEN m >= from /\ m < to ELSE m >= from \/ m < to

(* resolveProfile: the first entry that covers the minute, or the last.    *)
ResolveProfile(m) ==
  LET covering == {i \in 1..Len(Schedule) : InRange(m, Schedule[i].from, Schedule[i].to)}
  IN  IF covering = {} THEN Last(Schedule).profile
      ELSE Schedule[CHOOSE i \in covering : \A j \in covering : i <= j].profile

------------------------------------------------------------------------------
(* The sensor.                                                             *)

InitialOccupancies(c) == {Round(c * percent, 100) : percent \in Percents}

(* prune(): from the front, until one is recent enough.                    *)
Pruned(movements) ==
  LET old == {i \in 1..Len(movements) : \A j \in 1..i : now - movements[j].at > Minute}
  IN  SubSeq(movements, Cardinality(old) + 1, Len(movements))

Count(movements, kind) ==
  Cardinality({i \in 1..Len(movements) : movements[i].kind = kind})

(* applyMovement: what is not possible is not applied.                     *)
Possible(kind) == IF kind = "ENTRY" THEN occupied < capacity ELSE occupied > 0

(* Mutation: a sensor that is set keeps its window.                        *)
ForgottenNever == recent

Forgotten == <<>>

(* set()                                                                   *)
Set(value, c) ==
  /\ capacity' = c
  /\ occupied' = ClampOccupied(value, c)
  /\ recent' = Forgotten
  /\ moves' = <<>>

(* The movements of the last minute, whoever remembers them.               *)
WithinMinute(kind) ==
  Cardinality({i \in 1..Len(moves') : moves'[i].kind = kind /\ now - moves'[i].at <= Minute})

(* apply(): the movement, and the reading that the sensor gives.           *)
Capture(kind, by) ==
  /\ Possible(kind)
  /\ LET count == IF kind = "ENTRY" THEN occupied + 1 ELSE occupied - 1
         move == [at |-> now, kind |-> kind]
     IN  /\ occupied' = count
         /\ recent' = Pruned(Append(recent, move))
         /\ moves' = Append(moves, move)
         /\ task' = [by |-> by, step |-> "emit", kind |-> kind, count |-> count,
                     in |-> Count(recent', "ENTRY"), out |-> Count(recent', "EXIT"),
                     clock |-> Label, at |-> [day |-> day, minute |-> minute]]
  /\ exact' = (exact /\ \A k \in Kinds : Count(recent', k) = WithinMinute(k))
  /\ UNCHANGED capacity

------------------------------------------------------------------------------
(* Events.                                                                 *)

(* normalize(): the catalogue says the capacity, not the sensor. Zone ids  *)
(* are in upper case, and so come back from the sensor's lower case.       *)
Normalize(reading) ==
  LET count == ClampOccupied(reading.count, capacity)
  IN  [kind      |-> reading.kind,
       capacity  |-> capacity,
       occupied  |-> count,
       available |-> CalculateAvailable(capacity, count),
       occupancy |-> CalculateOccupancy(count, capacity),
       previous  |-> 0,
       entries   |-> reading.in,
       exits     |-> reading.out,
       clock     |-> reading.clock]

(* EventMetadataSchema: simulated_time is two digits and two digits.       *)
ValidMetadata(event) == event.clock \in 0..DayMinutes - 1

(* ZoneEventDataSchema, with the rules of its superRefine.                 *)
ValidData(data) ==
  /\ data.capacity > 0 /\ data.occupied >= 0 /\ data.available >= 0
  /\ \A percentage \in {data.occupancy, data.previous} : percentage >= 0 /\ percentage <= 10000
  /\ data.entries >= 0 /\ data.exits >= 0
  /\ data.occupied <= data.capacity
  /\ data.available = data.capacity - data.occupied
  /\ CalculateOccupancy(data.occupied, data.capacity) - data.occupancy \in -1..1

(* SensorEventSchema, ZoneEventSchema.                                     *)
ValidEvent(event) == ValidData(event) /\ ValidMetadata(event)

(* validateSensorEvent: the event, or an error instead of it.              *)
Validated(candidate) == {event \in {candidate} : ValidEvent(event)}

(* Mutation: the Processor takes the sensor's count as it comes.           *)
ReportedAsIs(event) == event.occupied

(* calculateState: the count, within the capacity the Processor knows.     *)
Reported(event) == ClampOccupied(event.occupied, processor)

(* buildDerivedEvent: the new state, and the clock of its cause. Nobody    *)
(* validates it.                                                           *)
DerivedFrom(event) ==
  [kind      |-> "DERIVED",
   capacity  |-> processor,
   occupied  |-> Reported(event),
   available |-> processor - Reported(event),
   occupancy |-> CalculateOccupancy(Reported(event), processor),
   previous  |-> IF zone = NoZone THEN CalculateOccupancy(Reported(event), processor)
                 ELSE CalculateOccupancy(zone.occupied, zone.capacity),
   entries   |-> 0,
   exits     |-> 0,
   clock     |-> event.clock]

------------------------------------------------------------------------------
(* Publisher: start, tick, tasks.                                          *)

Init ==
  /\ capacity \in Capacities /\ occupied \in InitialOccupancies(capacity)
  /\ mode = "ACCELERATED_DEMO" /\ minute = StartTime /\ day = 1
  /\ recent = <<>> /\ moves = <<>>
  /\ loop = "boot" /\ plan = <<>> /\ task = NoTask
  /\ profile = [name |-> ResolveProfile(StartTime), minute |-> StartTime]
  /\ saved = {} /\ zone = NoZone /\ stream = <<>>
  /\ processor \in Capacities /\ derived = {}
  /\ rejected = 0 /\ exact = TRUE
  /\ shown = [day |-> 1, minute |-> StartTime] /\ jumped = FALSE
  /\ now = 0 /\ ticks = 0 /\ sent = 0 /\ stops = 0

(* Mutation: a restart restores the minute and forgets the day.            *)
RestoredFirstDay(state) == 1

RestoredDay(state) == IF state.day > 1 THEN state.day ELSE 1

(* loadState and restore(): without a saved state it is a clean start.     *)
Boot ==
  /\ loop = "boot"
  /\ \E c \in Capacities : \E initial \in InitialOccupancies(c) :
       \/ /\ saved = {}
          /\ Set(initial, c)
          /\ mode' = "ACCELERATED_DEMO" /\ minute' = StartTime /\ day' = 1
       \/ \E state \in saved :
            /\ Set(IF zone = NoZone THEN initial ELSE zone.occupied, c)
            /\ mode' = state.mode /\ minute' = state.minute
            /\ day' = RestoredDay(state)
  /\ loop' = "poll"
  /\ UNCHANGED <<plan, profile, task, saved, stream, processorVars, historyVars, jumped,
                 now, bounds>>

LoopWaits == task.by = "loop"

(* tick(): the clock first, then the plans.                                *)
Tick ==
  /\ loop = "poll" /\ ~LoopWaits
  /\ ticks < MaxTicks
  /\ Advance
  /\ plan' \in UNION {[1..n -> Kinds] : n \in 0..MaxMoves}
  /\ profile' = [name |-> ResolveProfile(MinuteOfDay(minute')), minute |-> MinuteOfDay(minute')]
  /\ loop' = "plan"
  /\ ticks' = ticks + 1
  /\ UNCHANGED <<sensorVars, task, saved, stream, processorVars, historyVars, jumped,
                 now, sent, stops>>

(* emitMovement: a movement that is not possible is discarded.             *)
Move ==
  /\ loop \in {"plan", "stopping"} /\ task = NoTask /\ plan # <<>>
  /\ plan' = Tail(plan)
  /\ \/ Capture(Head(plan), "loop")
     \/ ~Possible(Head(plan)) /\ UNCHANGED <<sensorVars, task, exact>>
  /\ UNCHANGED <<clockVars, loop, profile, saved, stream, processorVars, rejected, shown,
                 jumped, now, bounds>>

Snapshot == [mode |-> mode, minute |-> minute, day |-> day]

(* saveState at the end of a tick.                                         *)
EndTick ==
  /\ loop \in {"plan", "stopping"} /\ task = NoTask /\ plan = <<>>
  /\ task' = [by |-> "loop", step |-> "write", state |-> Snapshot]
  /\ loop' = IF loop = "plan" THEN "poll" ELSE "stopped"
  /\ UNCHANGED <<sensorVars, clockVars, plan, profile, saved, stream, processorVars,
                 historyVars, jumped, now, bounds>>

(* FORCE_ENTRY, FORCE_EXIT with a count of one.                            *)
ForceMove ==
  /\ loop # "boot" /\ task = NoTask /\ sent < MaxCommands
  /\ \E kind \in Kinds :
       \/ Capture(kind, "command")
       \/ /\ ~Possible(kind)
          /\ task' = [by |-> "command", step |-> "emitted"]
          /\ UNCHANGED <<sensorVars, exact>>
  /\ sent' = sent + 1
  /\ UNCHANGED <<clockVars, loopVars, saved, stream, processorVars, rejected, shown,
                 jumped, now, ticks, stops>>

(* SET_MODE: the accelerated clock stands still meanwhile.                 *)
SetMode ==
  /\ loop # "boot" /\ task = NoTask /\ sent < MaxCommands
  /\ mode' \in Modes
  /\ jumped' = TRUE
  /\ task' = [by |-> "command", step |-> "write", state |-> [Snapshot EXCEPT !.mode = mode']]
  /\ sent' = sent + 1
  /\ UNCHANGED <<sensorVars, minute, day, loopVars, saved, stream, processorVars,
                 historyVars, now, ticks, stops>>

(* RESET: what is left of the plan stays.                                  *)
Reset ==
  /\ loop # "boot" /\ task = NoTask /\ sent < MaxCommands
  /\ \E initial \in InitialOccupancies(capacity) : Set(initial, capacity)
  /\ minute' = StartTime /\ day' = 1
  /\ jumped' = TRUE
  /\ task' = [by |-> "command", step |-> "announce"]
  /\ sent' = sent + 1
  /\ UNCHANGED <<mode, loopVars, saved, stream, processorVars, historyVars, now,
                 ticks, stops>>

(* The state is taken when the command has done its work.                  *)
TakeSnapshot ==
  /\ task.step \in {"announce", "emitted"}
  /\ task' = [by |-> "command", step |-> "write", state |-> Snapshot]
  /\ UNCHANGED <<sensorVars, clockVars, loopVars, saved, stream, processorVars,
                 historyVars, jumped, now, bounds>>

(* nextEventId, normalize, validate, XADD. What is not valid is left out,  *)
(* though the zone has moved.                                              *)
Emit ==
  /\ task.step = "emit"
  /\ \/ \E event \in Validated(Normalize(task)) :
          /\ stream' = Append(stream, event)
          /\ shown' = task.at /\ jumped' = (jumped /\ mode # "ACCELERATED_DEMO")
          /\ UNCHANGED rejected
     \/ /\ Validated(Normalize(task)) = {}
        /\ rejected' = rejected + 1
        /\ UNCHANGED <<stream, shown, jumped>>
  /\ task' = IF LoopWaits THEN NoTask ELSE [by |-> "command", step |-> "emitted"]
  /\ UNCHANGED <<sensorVars, clockVars, loopVars, saved, processorVars, exact, now,
                 bounds>>

(* HSET parking:simulator:state                                            *)
WriteState ==
  /\ task.step = "write"
  /\ saved' = {task.state}
  /\ task' = NoTask
  /\ UNCHANGED <<sensorVars, clockVars, loopVars, stream, processorVars, historyVars,
                 jumped, now, bounds>>

(* onShutdown: its event has its turn, then the state is saved. A movement *)
(* whose time the loop is waiting for may still come.                      *)
Shutdown ==
  /\ loop \in {"poll", "plan"} /\ task = NoTask /\ stops < MaxStops
  /\ loop' = IF loop = "plan" THEN "stopping" ELSE "stopped"
  /\ plan' \in {<<>>} \cup {<<plan[i]>> : i \in {1} \cap DOMAIN plan}
  /\ saved' = {Snapshot}
  /\ stops' = stops + 1
  /\ UNCHANGED <<sensorVars, clockVars, profile, task, stream, processorVars, historyVars,
                 jumped, now, ticks, sent>>

(* What was not saved is lost, and the clock with it.                      *)
End ==
  /\ loop' = "boot" /\ plan' = <<>> /\ task' = NoTask
  /\ jumped' = (jumped \/ saved # {Snapshot})
  /\ UNCHANGED <<sensorVars, clockVars, profile, saved, stream, processorVars, historyVars,
                 now, ticks, sent>>

Crash ==
  /\ loop \in {"poll", "plan"} /\ stops < MaxStops
  /\ stops' = stops + 1
  /\ End

Exit ==
  /\ loop \in {"stopping", "stopped"}
  /\ UNCHANGED stops
  /\ End

------------------------------------------------------------------------------
(* Processor, and time.                                                    *)

(* initializeZones: a new zone is empty, a changed one is clamped.         *)
ProcessorStarts ==
  /\ zone = NoZone \/ stops < MaxStops
  /\ stops' = IF zone = NoZone THEN stops ELSE stops + 1
  /\ processor' \in IF zone = NoZone THEN {processor} ELSE Capacities
  /\ zone' = [capacity |-> processor',
              occupied |-> ClampOccupied(zone.occupied, processor')]
  /\ derived' = {}
  /\ UNCHANGED <<sensorVars, clockVars, loopVars, task, saved, stream, historyVars, jumped,
                 now, ticks, sent>>

(* SensorEventSchema again, then calculateState and a derived event.       *)
Process ==
  /\ zone # NoZone /\ stream # <<>>
  /\ LET event == Head(stream)
     IN  IF ValidEvent(event)
         THEN /\ zone' = [capacity |-> processor, occupied |-> Reported(event)]
              /\ derived' = {DerivedFrom(event)}
              /\ UNCHANGED rejected
         ELSE rejected' = rejected + 1 /\ UNCHANGED <<zone, derived>>
  /\ stream' = Tail(stream)
  /\ UNCHANGED <<sensorVars, clockVars, loopVars, task, saved, processor, shown, exact,
                 jumped, now, bounds>>

TimePasses ==
  /\ now < MaxNow
  /\ now' = now + 1
  /\ UNCHANGED <<sensorVars, clockVars, loopVars, task, saved, stream, processorVars,
                 historyVars, jumped, bounds>>

Next ==
  \/ Boot
  \/ Tick
  \/ Move
  \/ EndTick
  \/ ForceMove
  \/ SetMode
  \/ Reset
  \/ TakeSnapshot
  \/ Emit
  \/ WriteState
  \/ Shutdown
  \/ Crash
  \/ Exit
  \/ ProcessorStarts
  \/ Process
  \/ TimePasses

Spec == Init /\ [][Next]_vars

------------------------------------------------------------------------------
(* Properties                                                              *)

(* Emitting a reading is not undone when it is not valid: the zone has     *)
(* moved. No reading is turned away, by the Publisher or the Processor,    *)
(* and the derived events, which nobody validates, keep the same rules:    *)
(* also while the two run with different capacities, after restarts in any *)
(* order and RESETs in between.                                            *)
EveryReadingCounts ==
  /\ rejected = 0
  /\ \A event \in derived : ValidEvent(event)

(* entries_per_minute and exits_per_minute of a reading are the movements  *)
(* of the last minute since the zone was set to a value, itself among      *)
(* them: going back by them never leaves what the zone can hold.           *)
WindowBalances ==
  /\ exact
  /\ task.step = "emit" =>
       /\ task.in + task.out >= 1
       /\ task.count - task.in + task.out \in 0..capacity

(* Readings are published in the order of the simulated time, day after    *)
(* day and across restarts, unless a command set the clock or a crash lost *)
(* what had not been saved; a forced movement between a tick and its       *)
(* movements is no exception.                                              *)
SimulatedTimeMovesOn ==
  [][shown' # shown /\ ~jumped =>
       \/ shown'.day > shown.day
       \/ shown'.day = shown.day /\ shown'.minute >= shown.minute]_vars

(* A plan is made for the entry of the schedule that began last, also when *)
(* it began before midnight.                                               *)
PlanFollowsSchedule ==
  LET since(i) == (profile.minute - Schedule[i].from) % DayMinutes
  IN  \E i \in 1..Len(Schedule) :
        /\ profile.name = Schedule[i].profile
        /\ \A j \in 1..Len(Schedule) : since(i) <= since(j)
=============================================================================
