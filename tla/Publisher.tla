------------------------------ MODULE Publisher ------------------------------
(***************************************************************************)
(* apps/publisher: the simulation loop, the commands of the panel, the     *)
(* serial queue that both use, and what a restart restores.                *)
(*                                                                         *)
(*   index.ts               loop, handleCommand, enqueue                   *)
(*   parking-simulator.ts   tick, apply, reset, restore, snapshot          *)
(*   publisher.service.ts   saveState, loadState                           *)
(*                                                                         *)
(* One action is what runs without another turn of the event loop; a task  *)
(* of the queue takes several, and the loop goes on between them. The      *)
(* Processor is external: it writes into the zone hash what was published, *)
(* sooner or later. Clock, sleeping times and demand profiles are left     *)
(* out: they choose how many movements a plan has, and any number may come. *)
(***************************************************************************)
EXTENDS ScenarioManager

CONSTANTS
  Zones,
  Capacity,          \* spaces of a zone
  Initial,           \* initialOccupancy, in spaces
  Commands,          \* commands that the panel may send
  MaxCommands,       \* bound: commands sent
  Faults,            \* faults that may happen: "crash", "task", "offline"
  MaxFaults          \* bound: faults that happen

ForceLimit == 50
Speeds == {1, 2, 5}
Modes == {"ACCELERATED_DEMO", "REAL_TIME_PROFILE"}
Targets == Zones \cup {"ALL"}

(* SimulatorCommandSchema, after assertZone: a command for an unknown zone *)
(* does nothing at all.                                                    *)
AllCommands ==
       [action : {"SET_SCENARIO"}, scenario : ScenarioNames, zone : Targets]
  \cup [action : {"SET_SPEED"}, speed : Speeds]
  \cup [action : {"SET_MODE"}, mode : Modes]
  \cup [action : {"PAUSE", "RESUME", "RESET"}]
  \cup [action : {"FORCE"}, kind : Kinds, zone : Zones, count : 1..ForceLimit]

ASSUME PublisherAssumption ==
  /\ "ALL" \notin Zones
  /\ Capacity \in [Zones -> Nat \ {0}]
  /\ Initial \in [Zones -> Nat]
  /\ \A z \in Zones : Initial[z] <= Capacity[z]
  /\ Commands \subseteq AllCommands
  /\ MaxCommands \in Nat
  /\ MaxFaults \in Nat

VARIABLES
  \* ParkingSimulator
  status, speed, mode, global,
  overrides,         \* override of each zone
  occupied,          \* occupied of each zone
  \* index.ts
  pc,                \* where run() stands
  movements,         \* what the loop has left of its plan, per zone
  transitions,       \* scenarios that ended in this tick, still to announce
  queue,             \* tasks of enqueue(), the running one first
  step,              \* what the running task does next
  left,              \* forced movements that the running task has left
  reading,           \* what the running task holds: a reading to publish
  snapshot,          \* or a state to save: empty, or one snapshot
  inbox,             \* commandChain: received, not yet in the queue
  \* Redis
  saved,             \* parking:simulator:state: empty, or one snapshot
  hash,              \* occupied in parking:zone:*
  \* history
  last,              \* last reading published of each zone, or Nothing
  jump,              \* zones whose next reading need not follow the last one
  announced,         \* what the last SCENARIO_CHANGED says (its message) of each zone
  overtaken,         \* zones of which it may not say the truth
  strays,            \* planned readings published since the last PAUSE
  disturbed,         \* zones moved by others since the last tick
  unsaved,           \* a save was left out or a command failed, and none came after
  misfit,            \* a planned movement was discarded for no reason
  sent, faults

simVars == <<status, speed, mode, global, overrides, occupied>>
loopVars == <<pc, movements, transitions>>
taskVars == <<queue, step, left, reading, snapshot>>
redisVars == <<saved, hash>>
historyVars == <<last, jump, announced, overtaken, strays, disturbed, unsaved,
                 misfit, sent, faults>>
vars == <<status, speed, mode, global, overrides, occupied, pc, movements,
          transitions, queue, step, left, reading, snapshot, inbox, saved, hash,
          last, jump, announced, overtaken, strays, disturbed, unsaved, misfit,
          sent, faults>>

Nothing == -1
NoMovements == [z \in Zones |-> <<>>]
NoReading == [zone |-> "ALL", count |-> Nothing]

Snapshot == [status |-> status, speed |-> speed, mode |-> mode, global |-> global,
             overrides |-> overrides]

Fault(kind) ==
  /\ kind \in Faults
  /\ faults < MaxFaults
  /\ faults' = faults + 1

Running(kind) == queue # <<>> /\ Head(queue).kind = kind
command == Head(queue).command
Done == queue' = Tail(queue) /\ step' = "begin"

Queued(kind) == \E i \in 1..Len(queue) : queue[i].kind = kind

(* The loop awaits each of its tasks before it goes on.                    *)
LoopWaits == \E kind \in {"start", "transition", "movement", "save"} : Queued(kind)

(* Zones with a transition that is decided and not announced.              *)
Waiting == {t.zone : t \in transitions}
  \cup {queue[i].zone : i \in {j \in 1..Len(queue) : queue[j].kind = "transition"}}

(* What the constructors give, as it would be saved.                       *)
Fresh == [status |-> "RUNNING", speed |-> 1, mode |-> "ACCELERATED_DEMO",
          global |-> "NORMAL", overrides |-> [z \in Zones |-> NoOverride]]

(* Between two ticks, with nothing under way and nothing left unsaved.     *)
Settled == pc = "poll" /\ queue = <<>> /\ ~unsaved

------------------------------------------------------------------------------
(* Start and restart.                                                      *)

(* What the constructors give.                                             *)
Constructed ==
  /\ status' = "RUNNING" /\ speed' = 1 /\ mode' = "ACCELERATED_DEMO"
  /\ global' = "NORMAL" /\ overrides' = [z \in Zones |-> NoOverride]
  /\ occupied' = Initial

Init ==
  /\ status = "RUNNING" /\ speed = 1 /\ mode = "ACCELERATED_DEMO"
  /\ global = "NORMAL" /\ overrides = [z \in Zones |-> NoOverride]
  /\ occupied = Initial
  /\ pc = "boot" /\ movements = NoMovements /\ transitions = {}
  /\ queue = <<>> /\ step = "begin" /\ left = 0
  /\ reading = NoReading /\ snapshot = {} /\ inbox = <<>>
  /\ saved = {} /\ hash = [z \in Zones |-> 0]
  /\ last = [z \in Zones |-> Nothing] /\ jump = Zones
  /\ announced = [z \in Zones |-> "NORMAL"] /\ overtaken = {}
  /\ strays = 0 /\ disturbed = {} /\ unsaved = FALSE /\ misfit = FALSE
  /\ sent = 0 /\ faults = 0

(* Mutation: a restart draws the occupancy again.                          *)
RestoredInitial == Initial

(* loadState: the zone hashes, which the Processor writes.                 *)
RestoredOccupancy == hash

(* Mutation: the scenarios of the zones are not restored.                  *)
RestoredNoOverrides(state) == [z \in Zones |-> NoOverride]

RestoredOverrides(state) == state.overrides

(* restore()                                                               *)
Restore(state) ==
  /\ status' = state.status /\ speed' = state.speed /\ mode' = state.mode
  /\ global' = IF state.global \in GLOBAL_SCENARIOS THEN state.global ELSE "NORMAL"
  /\ overrides' = RestoredOverrides(state)
  /\ occupied' = RestoredOccupancy

(* run(): without a saved state it is a clean start. A zone is free to     *)
(* jump after a clean start, or where the Processor was behind.            *)
Boot ==
  /\ pc = "boot"
  /\ IF saved = {} THEN UNCHANGED simVars /\ jump' = Zones
     ELSE /\ \E state \in saved : Restore(state)
          /\ jump' = {z \in Zones : hash[z] # last[z]}
  /\ queue' = <<[kind |-> "start"]>>
  /\ pc' = "poll"
  /\ UNCHANGED <<movements, transitions, step, left, reading, snapshot, inbox,
                 redisVars, last, announced, overtaken, strays, disturbed,
                 unsaved, misfit, sent, faults>>

Crash ==
  /\ pc # "boot"
  /\ Fault("crash")
  /\ Constructed
  /\ pc' = "boot" /\ movements' = NoMovements /\ transitions' = {}
  /\ queue' = <<>> /\ step' = "begin" /\ left' = 0
  /\ reading' = NoReading /\ snapshot' = {} /\ inbox' = <<>>
  /\ overtaken' = IF Settled THEN overtaken ELSE Zones
  /\ strays' = 0
  /\ unsaved' = FALSE
  /\ UNCHANGED <<redisVars, last, jump, announced, disturbed, misfit, sent>>

(* The Processor gets to the last reading of a zone.                       *)
ProcessorApplies ==
  /\ \E z \in Zones :
       /\ last[z] # Nothing /\ hash[z] # last[z]
       /\ hash' = [hash EXCEPT ![z] = last[z]]
  /\ UNCHANGED <<simVars, loopVars, taskVars, inbox, saved, historyVars>>

------------------------------------------------------------------------------
(* The loop of run().                                                      *)

(* tick(): every zone gets a plan, and bursts count down.                  *)
Tick ==
  /\ pc = "poll" /\ ~LoopWaits
  /\ status = "RUNNING"
  /\ movements' \in [Zones -> UNION {Plans(overrides[z], global, occupied[z], Capacity[z]) :
                                       z \in Zones}]
  /\ \A z \in Zones :
       movements'[z] \in Plans(overrides[z], global, occupied[z], Capacity[z])
  /\ overrides' = [z \in Zones |-> OverrideAfter(overrides[z], occupied[z], Capacity[z])]
  /\ transitions' = {[zone |-> z, to |-> global] :
                       z \in {y \in Zones : Ends(overrides[y], occupied[y], Capacity[y])}}
  /\ disturbed' = {}
  /\ pc' = "plan"
  /\ UNCHANGED <<status, speed, mode, global, occupied, taskVars, inbox, redisVars,
                 last, jump, announced, overtaken, strays, unsaved, misfit, sent,
                 faults>>

EnqueueTransition ==
  /\ pc = "plan" /\ ~LoopWaits
  /\ \E t \in transitions :
       /\ queue' = Append(queue, [kind |-> "transition", zone |-> t.zone, to |-> t.to])
       /\ transitions' = transitions \ {t}
  /\ UNCHANGED <<simVars, pc, movements, step, left, reading, snapshot, inbox,
                 redisVars, historyVars>>

(* Mutation: a pause is not looked for before the next movement.           *)
NeverStops == TRUE

GoesOn == status = "RUNNING"

MovementsLeft == \E z \in Zones : movements[z] # <<>>

(* The status is looked at before the wait for the movement's offset.      *)
CheckStatus ==
  /\ pc = "plan" /\ ~LoopWaits /\ transitions = {}
  /\ MovementsLeft /\ GoesOn
  /\ pc' = "sleep"
  /\ UNCHANGED <<simVars, movements, transitions, taskVars, inbox, redisVars,
                 historyVars>>

(* Offsets mix the zones in any way and keep the order within each.        *)
EnqueueMovement ==
  /\ pc = "sleep"
  /\ \E z \in {y \in Zones : movements[y] # <<>>} :
       /\ queue' = Append(queue, [kind |-> "movement", zone |-> z,
                                  move |-> Head(movements[z])])
       /\ movements' = [movements EXCEPT ![z] = Tail(@)]
  /\ pc' = "plan"
  /\ UNCHANGED <<simVars, transitions, step, left, reading, snapshot, inbox,
                 redisVars, historyVars>>

EndTick ==
  /\ pc = "plan" /\ ~LoopWaits /\ transitions = {}
  /\ ~(MovementsLeft /\ GoesOn)
  /\ queue' = Append(queue, [kind |-> "save"])
  /\ movements' = NoMovements
  /\ pc' = "poll"
  /\ UNCHANGED <<simVars, transitions, step, left, reading, snapshot, inbox,
                 redisVars, historyVars>>

------------------------------------------------------------------------------
(* Commands: one after the other, each a task of the queue.                *)

SendCommand ==
  /\ pc # "boot"
  /\ sent < MaxCommands
  /\ \E c \in Commands : inbox' = Append(inbox, c)
  /\ sent' = sent + 1
  /\ UNCHANGED <<simVars, loopVars, taskVars, redisVars, last, jump, announced,
                 overtaken, strays, disturbed, unsaved, misfit, faults>>

(* commandChain                                                            *)
QueueCommand ==
  /\ inbox # <<>> /\ ~Queued("command")
  /\ queue' = Append(queue, [kind |-> "command", command |-> Head(inbox)])
  /\ inbox' = Tail(inbox)
  /\ UNCHANGED <<simVars, loopVars, step, left, reading, snapshot, redisVars,
                 historyVars>>

TargetsOf(c) == IF c.zone = "ALL" THEN Zones ELSE {c.zone}

SetsGlobal(c) == c.zone = "ALL" /\ c.scenario \in GLOBAL_SCENARIOS

(* Mutation: NORMAL always means the global scenario.                      *)
ClearsOnAnyNormal(c) == SetsGlobal(c) \/ c.scenario = "NORMAL"

ClearsOverride(c) ==
  SetsGlobal(c) \/ (c.zone # "ALL" /\ c.scenario = "NORMAL" /\ global = "NORMAL")

(* ScenarioManager.set                                                     *)
SetScenario ==
  LET c == command
  IN  /\ Running("command") /\ step = "begin"
      /\ c.action = "SET_SCENARIO"
      /\ global' = IF SetsGlobal(c) THEN c.scenario ELSE global
      /\ overrides' = [z \in Zones |->
           IF z \notin TargetsOf(c) THEN overrides[z]
           ELSE IF ClearsOverride(c) THEN NoOverride ELSE NewOverride(c.scenario)]
      /\ overtaken' = (overtaken \ TargetsOf(c)) \cup (TargetsOf(c) \cap Waiting)
      /\ step' = "announce"
      /\ UNCHANGED <<status, speed, mode, occupied, loopVars, queue, left, reading,
                     snapshot, inbox, redisVars, last, jump, announced, strays,
                     disturbed, unsaved, misfit, sent, faults>>

(* SET_SPEED, SET_MODE: no event says so.                                  *)
SetPace ==
  /\ Running("command") /\ step = "begin"
  /\ command.action \in {"SET_SPEED", "SET_MODE"}
  /\ speed' = IF command.action = "SET_SPEED" THEN command.speed ELSE speed
  /\ mode' = IF command.action = "SET_MODE" THEN command.mode ELSE mode
  /\ step' = "save"
  /\ UNCHANGED <<status, global, overrides, occupied, loopVars, queue, left,
                 reading, snapshot, inbox, redisVars, historyVars>>

(* PAUSE, RESUME: nothing to announce when it is so already.               *)
SetStatus ==
  /\ Running("command") /\ step = "begin"
  /\ command.action \in {"PAUSE", "RESUME"}
  /\ status' = IF command.action = "PAUSE" THEN "PAUSED" ELSE "RUNNING"
  /\ step' = IF status' = status THEN "save" ELSE "announce"
  /\ strays' = IF status' = status THEN strays ELSE 0
  /\ UNCHANGED <<speed, mode, global, overrides, occupied, loopVars, queue, left,
                 reading, snapshot, inbox, redisVars, last, jump, announced,
                 overtaken, disturbed, unsaved, misfit, sent, faults>>

(* RESET: status, speed and mode stay, and so does what is left of a plan. *)
ResetSimulator ==
  /\ Running("command") /\ step = "begin"
  /\ command.action = "RESET"
  /\ global' = "NORMAL" /\ overrides' = [z \in Zones |-> NoOverride]
  /\ occupied' = Initial
  /\ jump' = Zones /\ disturbed' = Zones /\ overtaken' = Zones
  /\ step' = "announce"
  /\ UNCHANGED <<status, speed, mode, loopVars, queue, left, reading, snapshot,
                 inbox, redisVars, last, announced, strays, unsaved, misfit, sent,
                 faults>>

StartForcing ==
  /\ Running("command") /\ step = "begin"
  /\ command.action = "FORCE"
  /\ left' = command.count
  /\ step' = "force"
  /\ UNCHANGED <<simVars, loopVars, queue, reading, snapshot, inbox, redisVars,
                 historyVars>>

------------------------------------------------------------------------------
(* Tasks of the queue.                                                     *)

Fits(z, move) == IF move = "ENTRY" THEN occupied[z] < Capacity[z] ELSE occupied[z] > 0

(* ZoneSimulator.apply, and the reading that the sensor gives.             *)
Apply(z, move) ==
  LET count == IF move = "ENTRY" THEN occupied[z] + 1 ELSE occupied[z] - 1
  IN  /\ occupied' = [occupied EXCEPT ![z] = count]
      /\ reading' = [zone |-> z, count |-> count]
      /\ step' = "emit"

(* emitMovement, up to its first await. A movement that does not fit is    *)
(* discarded.                                                              *)
EmitMovement ==
  /\ Running("movement") /\ step = "begin"
  /\ LET z == Head(queue).zone
         move == Head(queue).move
     IN  \/ /\ Fits(z, move)
            /\ Apply(z, move)
            /\ UNCHANGED <<queue, misfit>>
         \/ /\ ~Fits(z, move)
            /\ Done
            /\ misfit' = (misfit \/ z \notin disturbed)
            /\ UNCHANGED <<occupied, reading>>
  /\ UNCHANGED <<status, speed, mode, global, overrides, loopVars, left, snapshot,
                 inbox, redisVars, last, jump, announced, overtaken, strays,
                 disturbed, unsaved, sent, faults>>

ForceMovement ==
  /\ Running("command") /\ step = "force"
  /\ \/ left = 0 /\ step' = "save" /\ UNCHANGED <<occupied, reading, left, disturbed>>
     \/ left > 0 /\ Fits(command.zone, command.kind)
        /\ Apply(command.zone, command.kind) /\ left' = left - 1
        /\ disturbed' = disturbed \cup {command.zone}
     \/ left > 0 /\ ~Fits(command.zone, command.kind)
        /\ left' = left - 1 /\ UNCHANGED <<occupied, reading, step, disturbed>>
  /\ UNCHANGED <<status, speed, mode, global, overrides, loopVars, queue, snapshot,
                 inbox, redisVars, last, jump, announced, overtaken, strays,
                 unsaved, misfit, sent, faults>>

(* publish(): XADD. A planned movement ends its task with it.              *)
PublishReading ==
  /\ step = "emit"
  /\ last' = [last EXCEPT ![reading.zone] = reading.count]
  /\ jump' = jump \ {reading.zone}
  /\ reading' = NoReading
  /\ \/ Running("movement") /\ Done
        /\ strays' = IF status = "PAUSED" THEN strays + 1 ELSE strays
     \/ Running("command") /\ step' = "force" /\ UNCHANGED <<queue, strays>>
  /\ UNCHANGED <<simVars, loopVars, left, snapshot, inbox, redisVars, announced,
                 overtaken, disturbed, unsaved, misfit, sent, faults>>

(* emitSystemEvent of a command: SCENARIO_CHANGED, or SIMULATION_STARTED   *)
(* and SIMULATION_STOPPED.                                                 *)
AnnounceCommand ==
  /\ Running("command") /\ step = "announce"
  /\ announced' = IF command.action # "SET_SCENARIO" THEN announced
                  ELSE [z \in Zones |-> IF z \in TargetsOf(command)
                                       THEN command.scenario ELSE announced[z]]
  /\ step' = "save"
  /\ UNCHANGED <<simVars, loopVars, queue, left, reading, snapshot, inbox, redisVars,
                 last, jump, overtaken, strays, disturbed, unsaved, misfit, sent,
                 faults>>

AnnounceTransition ==
  /\ Running("transition")
  /\ announced' = [announced EXCEPT ![Head(queue).zone] = Head(queue).to]
  /\ Done
  /\ UNCHANGED <<simVars, loopVars, left, reading, snapshot, inbox, redisVars, last,
                 jump, overtaken, strays, disturbed, unsaved, misfit, sent, faults>>

AnnounceStart ==
  /\ Running("start")
  /\ Done
  /\ UNCHANGED <<simVars, loopVars, left, reading, snapshot, inbox, redisVars,
                 historyVars>>

SaveIsDue ==
  \/ Running("command") /\ step = "save"
  \/ Running("save") /\ step = "begin"

(* saveState: the snapshot is taken now and written later.                 *)
TakeSnapshot ==
  /\ SaveIsDue
  /\ snapshot' = {Snapshot}
  /\ step' = "write"
  /\ UNCHANGED <<simVars, loopVars, queue, left, reading, inbox, redisVars,
                 historyVars>>

(* saveState does nothing while Redis is not there.                        *)
SkipSave ==
  /\ SaveIsDue
  /\ Fault("offline")
  /\ unsaved' = TRUE
  /\ Done
  /\ UNCHANGED <<simVars, loopVars, left, reading, snapshot, inbox, redisVars, last,
                 jump, announced, overtaken, strays, disturbed, misfit, sent>>

WriteState ==
  /\ step = "write"
  /\ saved' = snapshot
  /\ snapshot' = {}
  /\ unsaved' = FALSE
  /\ Done
  /\ UNCHANGED <<simVars, loopVars, left, reading, inbox, hash, last, jump,
                 announced, overtaken, strays, disturbed, misfit, sent, faults>>

(* A command of Redis is refused: the rest of the task is not done.        *)
TaskFails ==
  /\ Fault("task")
  /\ \/ step \in {"emit", "announce", "write"}
     \/ Running("transition") \/ Running("start")
  /\ jump' = IF step = "emit" THEN jump \cup {reading.zone} ELSE jump
  /\ overtaken' =
       IF Running("transition") THEN overtaken \cup {Head(queue).zone}
       ELSE IF step = "announce" THEN Zones ELSE overtaken
  /\ unsaved' = (unsaved \/ Running("command") \/ Running("save"))
  /\ Done
  /\ left' = 0 /\ reading' = NoReading /\ snapshot' = {}
  /\ UNCHANGED <<simVars, loopVars, inbox, redisVars, last, announced, strays,
                 disturbed, misfit, sent>>

Loop ==
  \/ Boot
  \/ Tick
  \/ EnqueueTransition
  \/ CheckStatus
  \/ EnqueueMovement
  \/ EndTick

Task ==
  \/ SetScenario
  \/ SetPace
  \/ SetStatus
  \/ ResetSimulator
  \/ StartForcing
  \/ EmitMovement
  \/ ForceMovement
  \/ PublishReading
  \/ AnnounceCommand
  \/ AnnounceTransition
  \/ AnnounceStart
  \/ TakeSnapshot
  \/ WriteState

Next ==
  \/ Loop
  \/ Task
  \/ QueueCommand
  \/ SendCommand
  \/ SkipSave
  \/ TaskFails
  \/ Crash
  \/ ProcessorApplies

Spec == Init /\ [][Next]_vars

(* Timers fire and Redis answers or refuses (maxRetriesPerRequest null);   *)
(* a process that stopped is started again.                                *)
FairSpec == Spec /\ WF_vars(Loop) /\ WF_vars(Task) /\ WF_vars(QueueCommand)

------------------------------------------------------------------------------
(* Properties                                                              *)

Pending ==
  [kind : {"start", "save"}] \cup [kind : {"command"}, command : Commands]
  \cup [kind : {"transition"}, zone : Zones, to : GLOBAL_SCENARIOS]
  \cup [kind : {"movement"}, zone : Zones, move : Kinds]

Snapshots ==
  [status : {"RUNNING", "PAUSED"}, speed : Speeds, mode : Modes,
   global : GLOBAL_SCENARIOS, overrides : [Zones -> Overrides \cup {NoOverride}]]

TypeOK ==
  /\ Snapshot \in Snapshots
  /\ occupied \in [Zones -> Nat] /\ \A z \in Zones : occupied[z] <= Capacity[z]
  /\ pc \in {"boot", "poll", "plan", "sleep"}
  /\ movements \in [Zones -> Seq(Kinds)]
  /\ transitions \subseteq [zone : Zones, to : GLOBAL_SCENARIOS]
  /\ queue \in Seq(Pending)
  /\ step \in {"begin", "announce", "force", "emit", "save", "write"}
  /\ left \in 0..ForceLimit
  /\ reading \in [zone : Zones \cup {"ALL"}, count : Nat \cup {Nothing}]
  /\ snapshot \subseteq Snapshots /\ saved \subseteq Snapshots
  /\ inbox \in Seq(Commands)
  /\ hash \in [Zones -> Nat] /\ \A z \in Zones : hash[z] <= Capacity[z]
  /\ last \in [Zones -> Nat \cup {Nothing}]
  /\ jump \subseteq Zones /\ overtaken \subseteq Zones /\ disturbed \subseteq Zones
  /\ announced \in [Zones -> ScenarioNames]
  /\ strays \in Nat /\ unsaved \in BOOLEAN /\ misfit \in BOOLEAN
  /\ sent \in 0..MaxCommands /\ faults \in 0..MaxFaults

(* occupied(t+1) = occupied(t) + 1 or - 1, as published: movements of the  *)
(* plan, forced ones and discarded ones in any order, and a crash between  *)
(* a movement and its event, leave no gap and no repetition. Only RESET, a *)
(* refused event and a restart with the Processor behind may.              *)
ReadingsContinuous ==
  [][PublishReading => \A z \in Zones : z = reading.zone /\ z \notin jump =>
       last'[z] \in {last[z] - 1, last[z] + 1}]_vars

(* A pause lets through one planned movement at most: the one whose status *)
(* was looked at before it.                                                *)
AtMostOneStray == strays <= 1

(* What a restart would start with is what the simulator is: every change  *)
(* of status, pace or scenario, by a command or by a tick, is saved, and   *)
(* no older snapshot is written over a newer one. What a save that was     *)
(* skipped or refused leaves behind is made up for by the next one.        *)
SavedWhenSettled ==
  Settled => saved = {Snapshot} \/ (saved = {} /\ Snapshot = Fresh)

(* simulator.md: every change, manual or automatic, is published. What the *)
(* last event says of a zone is its scenario, unless a newer command       *)
(* overtook an event, RESET left its own out, or a fault lost it.          *)
ScenarioAnnounced ==
  Settled => \A z \in Zones \ overtaken :
               announced[z] = ScenarioUnder(overrides[z], global)

(* The same without the excuse of being overtaken, as index.ts:63 says of  *)
(* the queue. It does not hold: the end of a burst is announced after the  *)
(* newer command that overtook it.                                         *)
LastEventSaysScenario ==
  Settled => \A z \in Zones : announced[z] = ScenarioUnder(overrides[z], global)

(* A plan is made on what the zone will hold when its turn comes: nothing  *)
(* of it is discarded unless a command moved the zone in between.          *)
PlannedMovementsFit == ~misfit

(* The plan of a cycle is carried out as it was made, and stops at a pause. *)
PlanIsKept == AtMostOneStray /\ PlannedMovementsFit

(* plan() counts every burst down without looking whether there is         *)
(* something to count: a burst is never global, never without a count, and *)
(* never at zero, also after a restart in the middle of it.                *)
BurstsAreCounted ==
  /\ global \notin Bursts
  /\ \A z \in Zones : overrides[z].scenario \in Bursts => overrides[z].left >= 1

(* A burst ends by itself, unless the simulation is paused.                *)
BurstEnds ==
  \A z \in Zones :
    overrides[z].scenario \in Bursts
      ~> overrides[z].scenario \notin Bursts \/ status = "PAUSED"

(* publisher.service.ts:80: a restart does not teleport the values. It     *)
(* does not hold while the Processor is behind the last reading.           *)
RestartKeepsOccupancy ==
  [][pc = "boot" /\ saved # {} =>
       \A z \in Zones : last[z] # Nothing => occupied'[z] = last[z]]_vars
==============================================================================
