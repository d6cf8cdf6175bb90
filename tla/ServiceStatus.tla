---------------------------- MODULE ServiceStatus ----------------------------
(***************************************************************************)
(* Who is running, as the dashboard is told.                               *)
(*                                                                         *)
(*   node/redis.ts        createRedis, startHeartbeat: SET ... EX ttl      *)
(*   system.service.ts    getStatus, getHealth: heartbeats read with MGET  *)
(*   socket-gateway.ts    pushStatus every 2 s                             *)
(*                                                                         *)
(* Time goes in ticks. A timer that is due and an answer of Redis that is  *)
(* on its way come before the next tick: the processes that run are not    *)
(* starved of time. The browser stays connected to the backend.            *)
(***************************************************************************)
EXTENDS Integers, FiniteSets

CONSTANTS
  Services,          \* publisher, processor and archiver, as far as modelled
  TTL,               \* HEARTBEAT_TTL_SECONDS
  Push,              \* interval of pushStatus
  MaxChanges         \* bound: stops, starts, lost connections, changes of mode

(* Math.max(1000, ttl * 1000 / 3).                                         *)
Period == IF TTL \div 3 < 1 THEN 1 ELSE TTL \div 3

ASSUME ServiceStatusAssumption ==
  /\ Services \subseteq {"publisher", "processor", "archiver"}
  /\ TTL \in Nat \ {0, 1} /\ Push \in Nat \ {0}
  /\ MaxChanges \in Nat

(* What the details of a heartbeat say: the simulator's status of the      *)
(* publisher, the PostgreSQL connection of the archiver.                   *)
Modes == [publisher |-> {"RUNNING", "PAUSED"}, processor |-> {"RUNNING"},
          archiver |-> {"connected", "disconnected"}]

Entries == Services \cup (IF "publisher" \in Services THEN {"simulator"} ELSE {})

VARIABLES
  alive,             \* the process runs
  ready,             \* its connection to Redis is ready
  mode,              \* what it would say in a heartbeat
  beat,              \* ticks until its next heartbeat, NotStarted before
  unsent,            \* heartbeat whose SET was not answered, "" if none
  left,              \* TTL left of its key, 0 for no key
  note,              \* mode in its key
  backend,           \* the backend's connection to Redis is ready
  pushIn,            \* ticks until the next pushStatus
  answer,            \* what MGET found for a getStatus in progress
  shown,             \* states that the browser was sent last
  health,            \* what /api/health said at that time
  steady,            \* ticks since a service changed, up to Long
  calm,              \* ticks since the backend's connection changed, up to Long
  changes            \* how many so far

serviceVars == <<alive, ready, mode, beat, unsent>>
keyVars == <<left, note>>
pageVars == <<pushIn, answer, shown, health>>
statusVars == <<alive, ready, mode, beat, unsent, left, note, backend, pushIn, answer,
                shown, health, steady, calm, changes>>

NotStarted == -1
NoAnswer == [read |-> FALSE]
Long == TTL + Push + 1
Later(ticks) == IF ticks < Long THEN ticks + 1 ELSE Long

ModeAtStart == [s \in Services |-> CHOOSE m \in Modes[s] : m \in {"RUNNING", "connected"}]

Change ==
  /\ changes < MaxChanges
  /\ changes' = changes + 1

StatusInit ==
  /\ alive = [s \in Services |-> TRUE] /\ ready = [s \in Services |-> FALSE]
  /\ mode = ModeAtStart
  /\ beat = [s \in Services |-> NotStarted] /\ unsent = [s \in Services |-> ""]
  /\ left = [s \in Services |-> 0] /\ note = [s \in Services |-> ""]
  /\ backend = TRUE /\ pushIn = Push /\ answer = NoAnswer
  /\ shown = [e \in Entries |-> "OFFLINE"] /\ health = "unhealthy"
  /\ steady = [s \in Services |-> 0] /\ calm = 0 /\ changes = 0

------------------------------------------------------------------------------
(* The services.                                                           *)

(* SET parking:heartbeat:<service> EX ttl, whatever instance it is.        *)
SetKey(s, m) ==
  /\ left' = [left EXCEPT ![s] = TTL]
  /\ note' = [note EXCEPT ![s] = m]

(* A process that begins waits for its connection, takes up its state from *)
(* Redis and then beats for the first time; one that lost its connection   *)
(* sends again what was not answered, and waits for its timer to beat.     *)
Connect(s) ==
  /\ alive[s] /\ ~ready[s]
  /\ ready' = [ready EXCEPT ![s] = TRUE]
  /\ beat' = [beat EXCEPT ![s] = IF @ = NotStarted THEN 0 ELSE @]
  /\ IF unsent[s] # "" THEN SetKey(s, unsent[s]) ELSE UNCHANGED keyVars
  /\ unsent' = [unsent EXCEPT ![s] = ""]
  /\ steady' = [steady EXCEPT ![s] = 0]
  /\ UNCHANGED <<alive, mode, backend, pageVars, calm, changes>>

Disconnect(s) ==
  /\ alive[s] /\ ready[s]
  /\ Change
  /\ ready' = [ready EXCEPT ![s] = FALSE]
  /\ \E payload \in {"", mode[s]} : unsent' = [unsent EXCEPT ![s] = payload]
  /\ steady' = [steady EXCEPT ![s] = 0]
  /\ UNCHANGED <<alive, mode, beat, keyVars, backend, pageVars, calm>>

(* Mutation: a heartbeat is only written when there is none.               *)
WritesIfMissing(s) == ready[s] /\ left[s] = 0

(* beat() does nothing while the connection is not ready.                  *)
Writes(s) == ready[s]

Beat(s) ==
  /\ alive[s] /\ beat[s] = 0
  /\ beat' = [beat EXCEPT ![s] = Period]
  /\ IF Writes(s) THEN SetKey(s, mode[s]) ELSE UNCHANGED keyVars
  /\ UNCHANGED <<alive, ready, mode, unsent, backend, pageVars, steady, calm, changes>>

(* PAUSE or RESUME, PostgreSQL lost or found.                              *)
ChangeMode(s) ==
  /\ alive[s]
  /\ Change
  /\ \E m \in Modes[s] \ {mode[s]} : mode' = [mode EXCEPT ![s] = m]
  /\ steady' = [steady EXCEPT ![s] = 0]
  /\ UNCHANGED <<alive, ready, beat, unsent, keyVars, backend, pageVars, calm>>

(* A process that stops leaves its key behind.                             *)
Stop(s) ==
  /\ alive[s]
  /\ Change
  /\ alive' = [alive EXCEPT ![s] = FALSE]
  /\ ready' = [ready EXCEPT ![s] = FALSE]
  /\ beat' = [beat EXCEPT ![s] = NotStarted]
  /\ unsent' = [unsent EXCEPT ![s] = ""]
  /\ steady' = [steady EXCEPT ![s] = 0]
  /\ UNCHANGED <<mode, keyVars, backend, pageVars, calm>>

Start(s) ==
  /\ ~alive[s]
  /\ Change
  /\ alive' = [alive EXCEPT ![s] = TRUE]
  /\ mode' = [mode EXCEPT ![s] = ModeAtStart[s]]
  /\ steady' = [steady EXCEPT ![s] = 0]
  /\ UNCHANGED <<ready, beat, unsent, keyVars, backend, pageVars, calm>>

(* volatile-lru may evict any key with a TTL.                              *)
Evict(s) ==
  /\ left[s] > 0
  /\ Change
  /\ left' = [left EXCEPT ![s] = 0]
  /\ steady' = [steady EXCEPT ![s] = 0]
  /\ UNCHANGED <<serviceVars, note, backend, pageVars, calm>>

------------------------------------------------------------------------------
(* The backend.                                                            *)

(* What MGET finds at this moment.                                         *)
KeysNow == [read |-> TRUE, exists |-> [s \in Services |-> left[s] > 0], note |-> note]

(* What was asked and not answered is asked again, once; if only the       *)
(* XINFO after MGET is, what MGET found before stays.                      *)
BackendConnects ==
  /\ ~backend
  /\ backend' = TRUE /\ calm' = 0
  /\ answer' \in IF answer = NoAnswer THEN {NoAnswer} ELSE {answer, KeysNow}
  /\ UNCHANGED <<serviceVars, keyVars, pushIn, shown, health, steady, changes>>

(* Either the promise of getStatus is rejected, pushStatus ignores it and  *)
(* the browser keeps the last status, or it goes on waiting.               *)
BackendDisconnects ==
  /\ backend
  /\ Change
  /\ backend' = FALSE /\ calm' = 0
  /\ answer' \in {NoAnswer, answer}
  /\ UNCHANGED <<serviceVars, keyVars, pushIn, shown, health, steady>>

(* fromHeartbeat, and what the details change about it.                    *)
StateOf(s, exists, m) ==
  IF ~exists THEN "OFFLINE"
  ELSE IF s = "archiver" /\ m = "disconnected" THEN "DEGRADED"
  ELSE "ONLINE"

(* The page has an entry for the simulator, taken from the publisher's key. *)
SimulatorState(exists, m) ==
  IF ~exists THEN "OFFLINE" ELSE IF m = "RUNNING" THEN "ONLINE" ELSE "PAUSED"

Source(entry) == IF entry = "simulator" THEN "publisher" ELSE entry

Reported(found) ==
  [e \in Entries |->
     LET exists == found.exists[Source(e)]
         m == found.note[Source(e)]
     IN  IF e = "simulator" THEN SimulatorState(exists, m) ELSE StateOf(e, exists, m)]

(* getHealth: from the states, and the connection as it is at the end.     *)
HealthOf(states, connected) ==
  IF ~connected THEN "unhealthy"
  ELSE IF /\ \A s \in Services \cap {"publisher"} : states[s] # "OFFLINE"
          /\ \A s \in Services \cap {"processor"} : states[s] = "ONLINE"
       THEN "healthy" ELSE "degraded"

(* pushStatus without a connection: nothing is asked of Redis.             *)
PushUnknown ==
  /\ pushIn = 0 /\ ~backend
  /\ pushIn' = Push
  /\ shown' = [e \in Entries |-> "RECONNECTING"]
  /\ health' = "unhealthy"
  /\ UNCHANGED <<serviceVars, keyVars, backend, answer, steady, calm, changes>>

PushStarts ==
  /\ pushIn = 0 /\ backend /\ answer = NoAnswer
  /\ pushIn' = Push
  /\ answer' = KeysNow
  /\ UNCHANGED <<serviceVars, keyVars, backend, shown, health, steady, calm, changes>>

(* A failed XINFO is caught: getStatus then ends without a connection too. *)
PushEnds ==
  /\ answer # NoAnswer
  /\ shown' = Reported(answer)
  /\ health' = HealthOf(shown', backend)
  /\ answer' = NoAnswer
  /\ UNCHANGED <<serviceVars, keyVars, backend, pushIn, steady, calm, changes>>

------------------------------------------------------------------------------
Due == \/ pushIn = 0 \/ (answer # NoAnswer /\ backend)
       \/ \E s \in Services : alive[s] /\ beat[s] = 0

(* The timers of a process run whether its connection is ready or not.     *)
Tick ==
  /\ ~Due
  /\ beat' = [s \in Services |-> IF beat[s] > 0 THEN beat[s] - 1 ELSE beat[s]]
  /\ left' = [s \in Services |-> IF left[s] > 0 THEN left[s] - 1 ELSE 0]
  /\ pushIn' = pushIn - 1
  /\ steady' = [s \in Services |-> Later(steady[s])]
  /\ calm' = Later(calm)
  /\ UNCHANGED <<alive, ready, mode, unsent, note, backend, answer, shown, health, changes>>

StatusNext ==
  \/ \E s \in Services :
       Connect(s) \/ Disconnect(s) \/ Beat(s) \/ ChangeMode(s) \/ Stop(s) \/ Start(s)
       \/ Evict(s)
  \/ BackendConnects \/ BackendDisconnects
  \/ PushUnknown \/ PushStarts \/ PushEnds
  \/ Tick

StatusSpec == StatusInit /\ [][StatusNext]_statusVars

(* Time goes on, timers fire, Redis answers, and a client that lost its    *)
(* connection tries again every 5 seconds at most.                         *)
StatusFairness ==
  /\ WF_statusVars(Tick)
  /\ \A s \in Services : WF_statusVars(Beat(s)) /\ WF_statusVars(Connect(s))
  /\ WF_statusVars(BackendConnects)
  /\ WF_statusVars(PushUnknown) /\ WF_statusVars(PushStarts) /\ WF_statusVars(PushEnds)

StatusFairSpec == StatusSpec /\ StatusFairness

------------------------------------------------------------------------------
(* Properties                                                              *)

Working(s) == alive[s] /\ ready[s]

Expected(e) ==
  LET s == Source(e)
  IN  IF ~Working(s) THEN "OFFLINE"
      ELSE IF e = "simulator" /\ mode[s] = "PAUSED" THEN "PAUSED"
      ELSE IF e = "archiver" /\ mode[s] = "disconnected" THEN "DEGRADED"
      ELSE "ONLINE"

(* Long enough for the page to know: a heartbeat and a push for a service  *)
(* that works, the TTL and a push for one that does not.                   *)
Settled(s) == steady[s] > Push + (IF Working(s) THEN Period ELSE TTL)

(* /api/health says healthy only while the publisher and the processor     *)
(* have worked within the last TTL, and degraded in time when one has not; *)
(* a paused simulator and an archiver without PostgreSQL are healthy.      *)
HealthInTime ==
  (\A s \in Services : Settled(s)) =>
    health = IF \A s \in Services \ {"archiver"} : Working(s) THEN "healthy" ELSE "degraded"

(* The page tells the truth in time: what a service has been for longer    *)
(* than its heartbeat (or its TTL) and one push is what the page shows,    *)
(* and what /api/health goes by. Old keys of a former instance, a          *)
(* heartbeat sent again after a reconnection and an answer that never came *)
(* change nothing about it.                                                *)
ShownInTime ==
  backend /\ calm > Push =>
    /\ \A e \in Entries : Settled(Source(e)) => shown[e] = Expected(e)
    /\ HealthInTime

(* As a failure detector the page is accurate and complete in the end.     *)
Detector == INSTANCE FailureDetector WITH
  Processes <- Services,
  working <- {s \in Services : Working(s)},
  suspected <- {s \in Services : shown[s] = "OFFLINE"}

DetectorHolds == Detector!Spec
=============================================================================
