# UPTC Smart Parking: verification project

TLA+ modules, TLC configurations and TLAPS proofs about the event pipeline of
UPTC Smart Parking: a Publisher that simulates the sensors of six parking
zones, a Processor that turns their events into the state of the zones, an
archiver that copies the streams to PostgreSQL, a backend and a dashboard.
Redis is between all of them.

Paths below are those of the repository (`apps/...`, `packages/...`).

- [1. The system](#1-the-system)
- [2. What is hard](#2-what-is-hard)
- [3. Modules and code](#3-modules-and-code)
- [4. Runs](#4-runs)
- [5. Fairness](#5-fairness)
- [6. Proofs](#6-proofs)
- [7. Disagreements with the documentation](#7-disagreements-with-the-documentation)
- [8. Not modelled](#8-not-modelled)
- [9. Plan](#9-plan)

## 1. The system

| Component | State | Operations | What makes it correct |
|---|---|---|---|
| **Publisher, loop and commands** `apps/publisher/src/index.ts` | plan of the cycle, serial queue (`enqueue`), chain of commands | `run`, `tick`, `emitMovement`, `emitSystemEvent`, `handleCommand`, `onShutdown` | readings are continuous; a pause stops the plan; what changes is announced and saved |
| **Publisher, service** `publisher/publisher.service.ts` | `parking:stream`, `parking:simulator:state` | `publish` (XADD, then PUBLISH), `saveState`, `loadState` | no event is published twice; a restart takes up what was saved |
| **Publisher, simulation** `simulation/*.ts` | occupancy, scenario and burst counter of each zone, speed, mode, clock | `plan`, `set`, `consumeTick`, `apply`, `reset`, `snapshot`, `restore` | 0 ≤ occupied ≤ capacity; a burst ends; a plan fits |
| **Processor, subscriber** `subscriber/event-subscriber.ts`, `processor/serial-queue.ts` | subscriber connection, queue of tasks | `start`, `onMessage`, `catchUp` | every event is applied once, in order; nothing is passed over silently |
| **Processor, events** `processor/event-processor.ts`, `derived-events.ts`, `zone-state.ts` | `lastProcessedId`, zones in memory | `process`, `calculateState`, `publishResync` | state and checkpoint move together; what is saved is announced |
| **Processor, alerts** `alerts/alert-engine.ts`, `alert-service.ts` | `parking:alert:state:*`, `parking:alerts:active`, `parking:alerts:stream`, cooldowns | `evaluateZone`, `evaluateGroups`, `persist` | one level alert per zone, and the right one; history and active set agree |
| **Processor, metrics** `metrics/*.ts` | samples in memory and in `parking:timeseries`, `parking:metrics:*` | `sample`, `load`, `valueAt`, aggregation of the zones | a sample raises what was held back and moves nothing else; memory answers as Redis would; figures follow the zones |
| **Processor, repository** `redis/state-repository.ts` | zone hashes, ranking, statistics, checkpoint | `initializeZones`, `saveProcessed`, `readStreamAfter`, `recordMovement` | zone, statistics, ranking and windows agree; a new configuration leaves nothing behind |
| **Archiver** `apps/archiver/src/index.ts`, `archive-repository.ts` | consumer groups, pending entries, tables `parking_events`, `alerts`, `zone_snapshots` | `ensureGroups`, `connectPostgres`, `drainPending`, `consumeLoop`, `handleBatch`, `takeSnapshot`, `purge` | confirmed means written; a redelivery changes nothing |
| **Shared** `packages/shared/src` | none | occupancy arithmetic, schemas, event factory, Redis client, heartbeat, `onShutdown` | the same number means the same everywhere |
| **Backend, sockets** `websocket/socket-gateway.ts` | last simulator state sent | `route`, `routeUpdate`, `pushSimulatorState`, `pushStatus` | what Redis publishes reaches every connected browser; a service that stopped is shown as stopped |
| **Backend, REST** `services/*.ts` | `connected` and `counts` of the archive | reads of Redis and PostgreSQL, `getEvents`, `SimulatorService.send`, `SystemService.getStatus`, `ArchiveService.refreshCounts` | what is reported is what is stored, without holes |
| **Frontend** `apps/frontend/src` | `parking-store`, buffer of `useRealtime`, history of `ZoneDrawer` | `hydrate`, `applyBatch`, `loadSnapshot`, `zoneHistory` | the screen catches up with Redis; no event twice; nothing of another zone |

How they interact:

- Publisher → Redis: `XADD parking:stream` (durable), then `PUBLISH
  parking-events` (at most once, to who is subscribed at that instant).
- Redis → Processor: messages of the subscriber connection, and `XRANGE` on the
  command connection at start and after each reconnection (the catch-up).
- Processor → Redis: zone hashes, checkpoint and derived events in one pipeline;
  alerts in pipelines before it; `parking-updates` and `parking-alerts` after it.
- Processor → Publisher: only through the zone hashes, which the Publisher reads
  when it starts.
- Backend → Publisher: `simulator-commands`, a channel without storage.
- Redis → archiver: consumer groups over `parking:stream` and
  `parking:alerts:stream`; archiver → PostgreSQL: `INSERT ... ON CONFLICT`.
- Backend → browsers: Socket.IO; browsers → backend: REST for the first picture, at
  each reconnection and each RESYNC.
- Every service → Redis: a heartbeat key with a TTL, which the backend reads.

## 2. What is hard

`PROJECT.json` lists each hazard at its line. They come in these groups:

- *Two connections.* SUBSCRIBE and XRANGE travel on different sockets; nothing
  orders a live message with the catch-up that should precede it.
- *Commands one by one.* An event of a zone takes three pipelines and several
  single commands. A crash falls between any two; the replay has to repair
  the half that was done.
- *Two users of one state.* Events and the sampler evaluate the same alerts, and
  only one of them derives events from what changed.
- *Plans and queues.* The Publisher decides what happens in a cycle at its
  beginning. Commands, pauses and resets come before it is carried out.
- *Snapshots.* A state is taken now and written later; the reading of a zone is
  applied now and published later; restarts take what was written.
- *At least once.* Redis delivers again what was not confirmed, and retries a
  command whose reply was lost.
- *Two ways to the screen.* REST answers with what was, the socket with what
  changed since; nothing orders one with the other.
- *Time.* TTLs, windows, retention and a simulated clock, with processes that stand
  still for any time in between.
- *Two readers of one file.* Publisher and Processor read `config/zones.json` when
  they start, each on its own.
- *Boundaries.* Thresholds with hysteresis, pages that are exactly full, zones
  that are empty or full, bursts at their last cycle.

## 3. Modules and code

| Module | Models | Extends / used by |
|---|---|---|
| `SensorLog` | abstract: an append-only log whose sensor events are applied in order, with a checkpoint | refined by `EventDelivery` |
| `EventDelivery` | Publisher's XADD and PUBLISH, subscriber, serial queue, catch-up, save and announcement | |
| `Occupancy` | arithmetic of `domain/occupancy.ts` | |
| `AlertEngine` | `alert-engine.ts`: the level machine and the five alerts of a zone, as operators | extends `Occupancy` |
| `ZoneAlerts` | `alert-service.ts`, `process()` and `sample()` as far as they touch the alerts of a zone | extends `AlertEngine` |
| `Archiver` | the archiver, the parts of Redis Streams it relies on, the tables | |
| `ScenarioManager` | `scenario-manager.ts`: plans, ends and bursts of the scenarios, as operators | |
| `Publisher` | `index.ts`, `parking-simulator.ts`, saving and restoring | extends `ScenarioManager` |
| `SensorReadings` | one reading from the simulated clock and the virtual sensor through both validations to the Processor: `sim-clock.ts`, `demand-profile.ts`, `zone-simulator.ts`, `event-normalizer.ts`, `event.schema.ts`, `onShutdown` | extends `Occupancy` |
| `EventProcessor` | what an event leaves in Redis, command by command and for all zones: `process()`, `saveProcessed`, `initializeZones`, group alerts, `metrics-calculator.ts` | extends `Occupancy` |
| `Sampling` | the past of a zone: sliding windows, `sample-history.ts`, `parking:timeseries`, trend, growth | extends `Occupancy` |
| `LiveView` | abstract: a screen that shows only what has been and catches up with what was not given up | refined by `Dashboard` |
| `Dashboard` | zones, alerts and simulator from Redis through the gateway to the store of a browser | refines `LiveView` |
| `EventFeed` | events on the screen: the feed of the store, the zone drawer, `getEvents` | |
| `FailureDetector` | abstract: a status page that is accurate and complete in the end | refined by `ServiceStatus` |
| `ServiceStatus` | heartbeats with a TTL, `getStatus`, `getHealth`, `pushStatus` | refines `FailureDetector` |
| `ArchiveReports` | `connectPostgres`, schema, snapshots and purge of the archiver; counts, status and reports of the Backend | |
| `MC*` | values of the constants for TLC | |
| `*Proofs` | theorems about the module they are named after, and in `ZoneAlertsProofs` about `AlertEngine` too | extend it and `TLAPS` |
| `FiguresProofs`, `PageProofs`, `ArchiveProofs` | theorems about `Dashboard` and `Sampling`, `EventFeed` and `ServiceStatus`, `Archiver` and `ArchiveReports` | extend both |

`Sampling`, `ServiceStatus` and `ArchiveReports` share a proof module with another component, so that the names of their
specifications have a prefix (`SamplingSpec`, `StatusSpec`, `ReportsSpec`); nothing else joins the two.

`PROJECT.json` maps every definition to its lines. Operators preceded by a
comment "Mutation" are not used by any specification: each is a definition with
a plausible slip in it, kept to show that the property named for it would notice.

### EventDelivery

The stream is a sequence of kinds, an ID is a position in it; `trimmed` counts
the entries MAXLEN removed. The Publisher is two steps per event because
`publish()` awaits between XADD and PUBLISH. The subscriber connection goes
`down → ready → subscribed`: at `ready` ioredis sends SUBSCRIBE again *and* the
handler queues a catch-up, and these two go through different sockets.
`StartFinishes` is the code after the `await` of `start()`: the messages of the
chunk that carried the reply to SUBSCRIBE are handled before it.

The Processor is one queue of tasks and a program counter that names the `await`
at which the running task stands: `read` (XRANGE), `page` (entries of a page),
`save` (before the pipeline), `finish` (after it). `process()` returns early for an
old ID or an unknown zone (`Skipped`); otherwise `SaveProcessed` is the pipeline,
and `FinishLive` / `FinishReplayed` is all that follows it. Faults: a crash, a lost
subscriber connection, a rejected task, an event that is never published.

Abstracted: contents of events (only sensor, unknown zone, other), the other
consumers of the stream, group alerts and metrics between save and announcement
(they can only fail, which is `TaskFails` at `finish`). Pipelines are atomic here;
`EventProcessor` takes `saveProcessed` apart.

`SensorLog` is what a reader of the zone state may rely on. `EventDelivery`
implements it with its own `stream`, `log` and `checkpoint`.

### AlertEngine and ZoneAlerts

`AlertEngine` is pure: `NextLevel` (with its hysteresis), the alerts to raise and to
resolve in order, the cooldowns to set. Occupancy is in hundredths of a percent,
rounded as `toFixed(2)` does. `ZoneAlerts` runs it on one zone. A task is an event or
a sample; both are tasks of the same queue, so their steps do not interleave,
and each is cut where the code awaits a command: alerts persisted → level
and cooldowns written → zone, derived events and checkpoint saved. A crash in
between leaves the event to the startup catch-up (`ReplayEvent`). `abandon` is the
event that is never processed again: its task was rejected, or a later event
overtook it, as EventDelivery shows it can. The sampler's timer (`SampleTimer`) queues a sample only while there is no
backlog (`queue.pending > 25`, or Redis not ready); what fills and empties the queue is not modelled, so that the backlog
comes and goes as it likes (`BacklogChanges`). A queued sample (`sampling`) has its turn like any other task.

History variables: `opened` is RAISED minus RESOLVED per type in
`parking:alerts:stream`; `announced` the level alerts whose derived event is in
`parking:stream`; `recoveries` the alerts resolved as RECOVERED minus the ZONE_RECOVERED events.

### Archiver

Both streams share one history of IDs; `present`, `delivered` and `pending` are what
XADD with MAXLEN, XREADGROUP and XACK make of it (external, modelled from how
the archiver uses them). The loop is `start → connect → drain → read`, and a batch
is written and confirmed one stream after the other: `events`, then `alerts`.
Rows are keyed as in the SQL: events by stream ID, alerts by number *and* instant.
An entry of either stream may be one that does not parse (`AddUnreadable`): it is left out of what is written and confirmed
with the rest of its batch.
Faults: crash, rejected query (its effect done or not), lost reply, Redis losing
its data, trimming, retention purge.

### ScenarioManager and Publisher

Random numbers are sets: `Plans` is every plan the generator can draw for a zone
under a scenario. The loop `run()` is a program counter (`boot`, `poll`, `plan`,
`sleep`) and awaits each task it enqueues (`LoopWaits`). A task is a record in
`queue`; `step` names the await at which the running one stands (`emit`, `announce`,
`save`, `write`, `force`). Commands arrive in `inbox` (`commandChain`) and are queued one
at a time. Because the loop goes on while a task waits for Redis, a tick may fall
between the snapshot of a command and its write, and a pause between the look at
the status and the movement it let through. `saveState` does nothing while the connection is not ready (`SkipSave`): what it
left out is made up for by the next save (`unsaved`).

The Processor is external here: `ProcessorApplies` writes the last published
reading of a zone into its hash, sooner or later. Sleeping times and speed
only decide how many movements a plan has, any number up to `MaxMoves` may come; the clock and
the profiles are the subject of `SensorReadings`.

### SensorReadings

One zone. The Publisher's `run()` is `boot → poll → plan`, with the same two states again
once `stopping` is set; a task of the serial queue holds what it captured
before its first await, so that a command may change clock and sensor between a
movement and its event. `profile`, `plan` and the clock are decided in `tick()`, the
profile by `resolveProfile` over a schedule with a range that crosses midnight. `Emit` is
normalisation, `validateSensorEvent` and XADD; the schemas are the predicates `ValidData` and
`ValidMetadata`, one conjunct per rule of the `superRefine`. The Processor validates again,
clamps to the capacity it knows and derives an event that nobody validates. Both read the
capacity at their own start. History: `moves`, every movement since the last `set`, to compare
the sensor's own window with; `shown`, the clock of the last published reading; `jumped`, that a command
or a crash moved the clock.

### EventProcessor

`process()` cut where it awaits: window, pipeline, groups, figures. The pipeline is a
sequence of five commands (`Commands`), and `SavePipeline(times)` says how often Redis runs each of them:
once each (`SaveProcessed`), a prefix and then everything (`SaveResent`), any subset (`SaveRefused`),
a prefix and a stop (`SaveCut`). Sensors report absolute counts, which may jump, so a gap
needs no event of its own. A restart reads any of the versions of `config/zones.json`:
hashes are created, clamped or removed with ranking and windows, `parking:stats` is not touched. `initializeZones` writes zone
by zone without looking at results: `RestartTorn` leaves out the commands of any zones, and the Processor goes on or stops.
Occupancy decides the status, so thresholds are constants of the run.

### Sampling

Time is a counter. A movement is recorded in a sorted set with a TTL, pruned by every query;
samples go to a stream that keeps a limited number and to `SampleHistory` in memory, which is
loaded from it at start. A sample has no figure for a zone without a hash. `movements`, `changed`, `patched` and
`calibration` are history. No two samples have the same time, so that lists of samples, which the code keeps in the order of their
time, are sets here. The average of `timeDependentFields` is modelled as its sum and its number of
samples; `average` and `variation_5m` of the hash are not.

### Dashboard and LiveView

An item is a zone, an alert slot or the simulator; its content is a version number. The
Processor writes first and publishes later (`owed`); a replayed event is not published but followed by
a RESYNC. The gateway has a subscription that may drop and, for the simulator, a comparison with the
last state it sent. The browser has a connection, a buffer with its 120 ms timer and snapshots
that are being loaded: each request of `loadSnapshot` reads Redis at a moment of its own (`Answer`), fails
(`RequestFails`, counted as an empty answer by `settle`), and `Hydrate` replaces what the view has. `gone` is the newest
version whose message or answer was dropped by a fault, `takenBack` the newest one that the screen had and went back from:
`hydrate` replaces the view with answers that may be older, `flush` applies a batch that was buffered before the
snapshot. `LiveView` says what remains: the screen never shows what has not been, and every version
appears or was lost in one of these two ways.

### EventFeed

An event is its place in `parking:stream`: a reading, an event derived from one, or a system event, which is of no zone. The
Processor saves a reading with up to `MaxDerived` derived events and publishes them in that order; a catch-up saves what it
derives too, and publishes RESYNC only. The Publisher publishes system events by itself. A live event goes under
`stream_id ?? event_id`, and what the Processor derives carries no `stream_id`. Every kind takes places of the feed.
`top` and `cut` are the newest and the oldest event of the last snapshot, `added` counts what came in live since: together they
say which events of the snapshot newer ones have pushed out (`Outside`). `getEvents` for a zone reads batch after batch from
the newest entry back (`ReadBatch`, the exclusive `(` bound is `EndAfter`), while entries are added and trimmed. The drawer's
request is given up when the zone changes (`GivenUp`): `cancelled` makes its answer change nothing. `Kept(s, S)` is what
`filter` keeps: `SelectSeq` without its recursion, so that it can be reasoned about; `KeptIsFilter` of `MCEventFeed` has TLC
compare the two.

### ServiceStatus and FailureDetector

A process has a connection, a timer and at most one unanswered SET, which ioredis sends
again. Its first heartbeat is a step of its own after the connection. A `getStatus` that is under way when the backend loses its
connection is rejected or waits: `maxRetriesPerRequest: 1` sends MGET once more, and the XINFO after it may be what is sent
again, or fails and is ignored, so that what MGET found before is shown late. Keys lose TTL with each tick and may be evicted. `getStatus` is a read (`PushStarts`) and an answer
(`PushEnds`), and nothing is asked of Redis while the backend's connection is not ready (`PushUnknown`). `steady` and `calm`
count how long a service and the backend's connection have been as they are.

### ArchiveReports

`connectPostgres` is `ping → schema → zones → done`, a step per query, any of which fails. PostgreSQL may stop
(`Toggle`) and come back empty (`Replace`). `PurgeOlderThan` deletes one row at a time, in the order of the three statements
it stands for, since reports run between them. The Backend's requests are records in a set: what PostgreSQL answered is
decided when it is asked, and answers come in any order. The reports are operators over a set of rows, so
that a report on what is left can be compared with one on all that was archived.

## 4. Runs

| Run | Checks | Instance |
|---|---|---|
| `event_delivery` | `ProcessedInOrder`, `OvertakenOnlyIfLost`, `CatchUpIsComplete`, `DeliveredIsSettled`, refinement of `SensorLog` | 3 stream entries, pages of 2, MAXLEN 2, each fault once |
| `startup_gap` | `NothingMissing` is violated by one restart | 4 entries, one crash |
| `zone_alerts` | `HistoryMatchesActive`, `AlertsFitZone`, `RecoveryAnnounced`, `HeldBackWarningIsRaised` | a zone of 50 spaces, 8 readings, thresholds of `config/thresholds.json`, one crash and one abandoned event, a backlog at any time |
| `archiver` | `AckedIsArchived`, `AlertRowsCurrent`, `OpenAlertsAreActive`, `EveryEntryIsArchived` | 3 entries, readable or not, batches of 2, 2 alert numbers, each fault once |
| `publisher` | `PlanIsKept`, `SavedWhenSettled`, `ScenarioAnnounced`, `ReadingsContinuous`, `BurstEnds` | one zone of 2 spaces, bursts of 2 cycles, 11 kinds of command, at most 2 sent, one crash, failed task or skipped save |
| `sensor_readings` | `EveryReadingCounts`, `WindowBalances`, `PlanFollowsSchedule`, `SimulatedTimeMovesOn` | capacities 2 and 3, three ticks across the end of the day, one command, one stop |
| `event_processor` | `CountersAgree`, `StatusIsTold`, `RankingFollowsZones`, `FiguresFollowZones` | two zones, two configurations, two events, two faults (a torn start among them) |
| `sampling` | `WindowCountsExact`, `HistoryAnswersAsTimeseries`, `QuietZoneIsStable`, `GrowthIsOverReadings` | six moments, windows of 1 and 2, two events, one restart |
| `dashboard` | `BehindOnlyIfLost`, refinement of `LiveView` | one zone and the simulator, two versions, two reloads at a time, two disturbances |
| `event_feed` | `FeedInOrder`, `DrawerIsOfZone`, `HistoryIsNewest` | 4 entries of two zones, one of them a system event, while no zone is looked at, 3 and none otherwise; two derived events for a reading; feed and snapshots of 3, batches of 1, one fault |
| `service_status` | `ShownInTime`, refinement of `FailureDetector` | publisher and processor, TTL of 3 ticks, two changes |
| `archive_reports` | `ReadyMeansSchema`, `ReportsAreComplete`, `ShownAsItIs` | two zones, two days of two ticks, retention of one day, two entries, two requests, two faults |

`AlertsFitZone`, `CatchUpIsComplete` and `PlanIsKept` are conjunctions whose parts are stated one by one before
them. The type invariants of `EventDelivery`, `ZoneAlerts`, `Archiver` and `Publisher` are proved (section 6)
and left out of the runs.

Why the bounds are enough for the cases that matter:

- *Stream of 3, pages of 2*: a full page followed by a short one or an empty one, an event added
  while a page is in hand, an entry trimmed before the catch-up and between its pages, a
  derived event between two sensor events.
- *Each fault once*: every property of `EventDelivery` is about what lies between one
  outage and the next; with one of each kind, pairs of different faults occur
  in either order (a crash during the catch-up that follows a lost connection).
- *Readings*: of the 51 counts of the zone, eight: each threshold, the edge of each hysteresis band and a count below it,
  and the edge of LOW_AVAILABILITY; the lowest of them is below every band.
  A drop over several levels, a rise over several levels and the way through
  every level are sequences of these.
- *Archiver*: 3 entries and batches of 2 give a full batch, a short one, a batch
  with both streams and a redelivery that overlaps a new read. Two alert numbers
  are one that is used again after a reset and one that is not.
- *Publisher*: a zone of 2 spaces is empty, half full and full; "near full" and the
  target of a recovery are the middle. Two commands are enough for one to overtake
  the other's consequences; a burst of two cycles has a first, a last and a
  restart in the middle. Zones meet only through the global scenario
  and through the queue; the proofs hold for any number of zones.
- *SensorReadings*: a reading may be one above, equal to or below the other process's
  capacity; ticks of four hours end once in every range of the schedule, once exactly at a
  boundary and once beyond the end of the day; a window of one moment is full, pruned and set.
- *EventProcessor*: two faults are a replay of what a fault interrupted, and a fault in the replay. With
  two spaces in one zone and one in the other, zones tie, pass one another and are full together.
  A zone that is taken away and put back needs two restarts.
- *Sampling*: windows, TTL and history are 1, 2, 3 and 3 steps for 1 to 16 minutes, and the stream holds
  as many samples as the history has steps, so that TTL, pruning and MAXLEN all act before the clock stops.
- *Dashboard*: two versions are an old and a new one; two snapshots can be loaded at once and be answered in either
  order; two disturbances are a loss and another during its repair. An alert slot goes the way of a zone. With three versions an old
  batch, a snapshot and a newer message can meet: that case is left to the proofs, which hold for any number of
  versions, zones and slots.
- *EventFeed*: with three entries every limit of the drawer is reached, with four the feed and the snapshot too; a reading with
  two derived events, or one with a system event, fills the feed and pushes an event of the snapshot out. Three derived events
  and five entries are left to the proofs, which hold for any number of either.
- *ServiceStatus*: a TTL of three heartbeats, as in the code; two changes are a stop and a start, or
  one of them with a lost connection.
- *ArchiveReports*: a day of two ticks has a middle and an end; two requests are an old and a new
  refresh, or one with a report beside it.

`CHECK_DEADLOCK FALSE` stands where the system may really stop: a bounded
stream that has been consumed, a bound on commands, time or changes that was reached, a paused
simulation. `ZoneAlerts` never stops and is checked for deadlock.

## 5. Fairness

Safety is checked without fairness. Liveness assumes what the code and its
deployment give:

- `EventDelivery`: weak fairness of the steps of the running task, of the end of
  `start()` and of `onMessage`. They need only the event loop and a reply from Redis,
  and `maxRetriesPerRequest: null` makes the client repeat a command until it
  has one. Nothing is assumed of the Publisher, of reconnections or of restarts.
- `ZoneAlerts`: weak fairness of each command of a task and of the replay; keys with a TTL expire. Weak fairness of the
  sampler's timer, which queues nothing during a backlog. Strong fairness of `Sample`, which needs a sample in the queue: the
  queue is first in first out, so that a task once in it gets its turn although events come before it. That a backlog ends
  is not assumed: `HeldBackWarningIsRaised` has it as an alternative.
- `Archiver`: weak fairness of the loop, including its restart (`restart:
  unless-stopped` in `docker-compose.yml`). New entries and faults are not fair.
- `Publisher`: weak fairness of the loop (timers), of the running task (Redis answers
  or refuses) and of the chain of commands. Commands are not fair: `BurstEnds` has the
  pause as its exception, since a paused simulation may never be resumed.
- `EventProcessor`: weak fairness of the steps of a task and of the restart, and of `Sample`: since events may keep the
  queue so full that every sample is left out, one is only certain once no event waits. Events and faults are not fair.
- `Dashboard`: weak fairness of what timers, sockets and answered requests do, including
  reconnection of socket and gateway, which both clients repeat for ever. Nothing makes the
  Processor save anything, and disturbances are bounded.
- `ServiceStatus`: weak fairness of the clock, of the timers of a process that runs, of
  connecting (`retryStrategy` never gives up) and of the answer to a push. Stops and starts are not fair.

## 6. Proofs

TLAPS checks the theorems below for every value of the constants that satisfies
the assumption of the module, and without any of the bounds on faults.

| Module | Theorem | States |
|---|---|---|
| `EventDeliveryProofs` | `TypeCorrect` | `[](TypeOK /\ Scheduling)`: types, and queue, task, step and suspended catch-up fit one another |
| | `ProcessedInOrderAlways` | `[]ProcessedInOrder` |
| | `DeliveryKeepsPromise` | `Spec => Refinement`: `EventDelivery` implements `SensorLog` |
| | `OvertakenOnlyIfLostAlways`, `CatchUpIsCompleteAlways` | what becomes of an event that is not applied; what a catch-up goes through |
| `ZoneAlertsProofs` | `NextLevelSettles` | `NextLevel` is idempotent on the same occupancy |
| | `AtRestIsInBand` | a level at rest is within its hysteresis band |
| | `TypeCorrect`, `OneLevelAlertAlways`, `HistoryMatchesActiveAlways`, `LevelAlertMatchesLevelAlways`, `LevelFollowsOccupancyAlways`, `LowAvailabilityJustifiedAlways`, `AlertsFitZoneAlways`, `SampleKeepsLevelAlways`, `RecoveryAnnouncedAlways` | all invariants of the run and their parts |
| `ArchiveProofs` | `TypeCorrect`, `AckedIsArchivedAlways`, `AlertRowsCurrentAlways`, `OpenAlertsAreActiveAlways`, `NothingForgottenAlways` | all invariants of the run of `Archiver` |
| | `ReadyMeansSchemaAlways`, `ShownAsItIsAlways`, `ReportsAreCompleteAlways` | all invariants of the run of `ArchiveReports` |
| `PublisherProofs` | `NearFullHasRoom` | `Array(n)` of NEAR_FULL is never given a negative `n` |
| | `PlansWalk` | every plan of every scenario can be carried out from what the zone holds |
| | `TypeCorrect`, `BurstsAreCountedAlways`, `ReadingsContinuousAlways`, `AtMostOneStrayAlways`, `PlanIsKeptAlways`, `SavedWhenSettledAlways`, `ScenarioAnnouncedAlways` | all invariants and the action property of the run; `TypeCorrect` with the bounds of every published reading |
| `EventProcessorProofs` | `RankingFollowsZonesAlways`, `StatusIsToldAlways`, `CountersAgreeAlways` | all invariants of the run, the last one while no start is torn |
| `FiguresProofs` | `WindowCountsExactAlways`, `HistoryAnswersAsTimeseriesAlways`, `QuietZoneIsStableAlways`, `GrowthIsOverReadingsAlways` | all invariants of the run of `Sampling` |
| | `BehindOnlyIfLostAlways` | `[]BehindOnlyIfLost` |
| | `DashboardIsLiveView` | `Spec => View!Safety`: every step is one of `LiveView` |
| `SensorReadingsProofs` | `EveryReadingCountsAlways`, `WindowBalancesAlways`, `SimulatedTimeMovesOnAlways`, `PlanFollowsScheduleAlways` | all invariants and the action property of the run; the last one for schedules that are `Tiled` |
| `PageProofs` | `FeedInOrderAlways`, `DrawerIsOfZoneAlways`, `HistoryIsNewestAlways` | all invariants of the run of `EventFeed` |
| | `ShownInTimeAlways` | `StatusSpec => []ShownInTime` |
| | `StatusIsDetector` | `StatusSpec => Detector!Safety`: every step is one of `FailureDetector` |

**EventDelivery.** `IInv == TypeInv /\ KnownIds /\ Position /\ ProcessedInOrder`. Order is not
inductive: that the event about to be saved is newer than all saved ones
rests on `Position` (the in-memory position is the last saved ID, or one behind it
exactly while the task is between the pipeline and its reply), which rests on `KnownIds`
(whatever is on the wire, in the queue or behind the cursor is an entry of the
stream) and on the scheduling of the queue. The refinement maps XADD to `Record`,
`SaveProcessed` to `Apply` and every other step to a stutter.

`DeliveryInv` adds to it what the last two theorems need. `Accounted`: every sensor event beyond the position is on its way
(a message not yet published, on the wire, in the queue), lies ahead of a catch-up that is queued or
running, or was lost. `InOrder` and `InStream`: what is on its way is sorted and behind what it follows, so that nothing is
overtaken by what came after it. `Advancing`: the position is never behind what the catch-up has read. `Telling`: what is saved
and not announced is the running live event, or is owed a RESYNC (`recovered`).

**ZoneAlerts.** `IInv` has a part that holds under all faults (`Safe`: one level alert,
history, and what the persisted half of a task did to the alerts), one that
needs every interrupted event to be replayed (`Halves`: what each of the three
commands of a task leaves behind, and that the replay starts from a state in which it
decides the same), and one for a run without faults (`Owed`: what the running task
still owes the history). The key lemma is `NextLevelSettles`: a replay or a sample
evaluates a zone again at the same occupancy and must not move its level.

**Archiver.** `IInv == TypeOK /\ History /\ Reply /\ Rows /\ Drained /\ AckedIsArchived`. `History`
relates the stream, what was delivered and what is pending; `Reply` says that the entries in
hand are pending and which of them were written; `Rows` that the tables are what
the written entries make of them (the reason a redelivered RAISED cannot reopen
an alert); `Drained` what `pendingDrained` promises.

**Publisher.** `TInv == TypeOK /\ Fit /\ Counted`: types, which step belongs to which kind of task, and
the counts of bursts in memory, in the snapshot in hand and in Redis. On top of it
stand five invariants. `Continuous`: what was last published of a zone is what
it holds, but for the reading in hand. `Pause`: the queue holds at most one movement,
none while the loop is between its look at the status and the enqueueing. `Saving`:
whenever the saved state differs from the simulator, a save is still to come
(`Later`: the end of the tick, or a task in the queue that has not taken its snapshot) or the
running command has its own ahead. `Room`: what is left of the plan of a cycle can be carried out (is a `Walk`) from
what its zone will hold once the movement in the queue is applied, unless a command has moved the zone; a new plan is
one by `PlansWalk`, and `Pause` keeps a second movement out of the queue. `Announced`: the last event of a zone says its
scenario, unless the announcement is in the tick, in the queue or ahead of the running command; a crash brings the
scenarios of the saved state back, which is why it rests on `Saving`.

**EventProcessor.** The invariant is `faults["torn"] = 0 => ...`: what a torn start leaves in Redis is put right by no later
step, so that the proofs are about runs without one, and `CountersAgree` after a torn start is checked by TLC only. `Base` is
what every other step keeps, whatever fails: types; the zones of the configuration are those in Redis, with
its capacities (`Configured`); what is after the checkpoint has no gap (`Numbered`); where the task in progress is (`Task`);
a window holds events of its own zone and kind (`Members`). The five ways of `saveProcessed` are one
operator, `Save(times)`, with what each fault may do to `times` (`Outcome`). On `Base` stand five invariants. `Ranked`: a score that a cut left
behind belongs to a zone with an event still ahead, unless that was rejected. `AsTold` is `StatusIsTold` for zones without a hash
too, which count as empty. `StatsAgree` and `MembersSuffice` bound what a fault of the pipeline may set apart, and the second
one needs more than the size of the window: what is counted and behind the checkpoint was recorded (`Passed`). `MembersBounded` is the other
direction and the hardest: every crash may leave a member that is not counted, and the number of crashes is not in the bound. It
says that there is at most one such member beyond those of the rejections and refusals, and that it is then the first event of its zone and kind in the stream
(`Fits`): the replay comes by it before it records another one. Only a rejection jumps over events, and takes the
allowance of one that was not recorded with it. The lemmas about `Fits` speak of a set of events, a cursor and a number only.

**Sampling.** `WindowsInv == Times /\ Kept`. `Kept` says that the sorted set holds only movements and every movement that is still inside the longest
window, and that each of them is covered by the TTL (`m.at + WindowTTL <= expires`): without the last part a TTL that runs
out could take a member along. `Times` bounds recorded times by the clock, as late events have earlier times.

The other three theorems stand on `PastInv == Stored /\ Remembered /\ Still /\ Known`. `Remembered` is what they share: as far as the history
reaches back, memory and stream have the same samples. It needs `StreamKeeps`, a pigeonhole argument: a stream that is longer than MAXLEN has an
entry older than the history, so that XADD takes nothing away that the history may still ask for; and `RoundTrip`, that a zone
without a field is read back as one without a figure. `Still`: since the last change every sample says what the zone holds, so
that the reference of the trend does too (`LastBefore` finds it in memory where the stream has it). `Known`: a calibration that
is not remembered was followed by a stop. An earlier form of `GrowthIsOverReadings` let any sample from before the first reading pass when
the calibration was forgotten; the proof does not need that, and the property does not allow it any more.

**ArchiveReports.** `SetUpInv` says what each step of `connectPostgres` has done so far, unless the database was
replaced: after the schema, what is not in `zones` is still in `missing`; `postgresUp` comes with the last step only.
`BackendInv`: a request that was asked since PostgreSQL changed last has an answer that is still true (`Fresh`), and
counts are asked for after a ping that was answered. `Retained`: what was archived and is no row any more is older than the
cut of the retention, which never moves back.

**Dashboard.** `Inv == TypeInv /\ Reached /\ InOrder /\ SimulatorInOrder /\ Justified`. `Justified` is `BehindOnlyIfLost` and not
inductive: a buffered message replaced by another one, or a state of the simulator that reaches the view, must not be the older of
the two. `InOrder` says that the messages of an item are sorted along owed, channel, wire and buffer, `SimulatorInOrder`
that the last state on the wire is the one the gateway remembers, `Reached` that nothing knows a version Redis has not had. The
refinement maps a write to `Change` and every other step to `Show`; it needs that losses are never taken back
(`LossesStay`). The attempt to prove an earlier form of the invariant showed that it did not hold: a batch that was buffered before a
snapshot is flushed after it, which takes three versions to see. `takenBack` comes from there.

**SensorReadings.** The invariant is `TypeInv /\ Accepted /\ Windows /\ MovesOn /\ Planned`. `Accepted`, that no event is turned away by the schema or the
normalizer, is arithmetic: `RoundIs` (rounding stays below a whole number that bounds the quotient) gives the bounds of both
clampings and of the occupancy, in the Publisher and again in the Processor, whose capacity may be another one. `Windows`:
the sensor has forgotten only movements that are older than a minute (`Remembers`), movements are in the order of their time (`InTime`), and
whoever goes back by the movements since any moment comes to a count between empty and full (`Balanced`); `WindowBalances` is the case of one minute. `MovesOn`
places what has been captured, by a reading in hand or by a saved state, between the last reading and the clock. `PlanFollowsScheduleAlways` has a hypothesis, `Tiled`: every minute of the
day has an entry of the schedule, and none begins inside another. It is true of `config/simulation.json`; `SimulationConfigSchema` does not ask
for it, and with overlapping ranges `resolveProfile` takes the first that fits, not the one that began last.

**ServiceStatus.** The invariant is `StatusTypeInv /\ Started /\ KeysFollow /\ AnswerIsTrue /\ PageIsTrue`. A page follows its service in two legs, with a clock
of its own each. `KeysFollow`: the key says what the service is once that has lasted longer than `Lag`, one period for a service that works
(it beats again) and the TTL for one that does not (its key runs out). `PageIsTrue`: what is shown was read `Age` ticks ago, so that
it is true once the service has been as it is for `Age + Lag`, which is what `ShownInTime` allows at most. `AnswerIsTrue` joins the two: an
answer on its way was read in the tick in which it arrives, since time passes over it only while the backend has no connection,
and an answer from before a reconnection is shown in the tick of the reconnection, when `calm` is 0.

**EventFeed.** `Inv == TypeInv /\ StreamKept /\ Arrivals /\ Snapshots /\ FeedKept /\ FeedShape /\ FeedOrdered /\ DrawerKept`.
`Arrivals` says that the sensor events owed, on the wire and in the buffer are sorted, whatever stands between them, and not
ahead of what was processed. `FeedShape`: below what has come in since, the feed still is the last snapshot, as far as it has
room for it. An event of the snapshot that comes in live is therefore either left out, because the feed has it, or `Outside`,
and then `behind` is set. `FeedOrdered` holds until that happens: the feed is in order, and what it has is of the snapshot or
older than every sensor event still to come (`Pending`). No relation between `SnapshotLimit`, `MaxFeed` and `MaxDerived` is
needed. An earlier form counted the events that can still come in ahead of one of the snapshot, and concluded that none is
pushed out while the snapshot (60) is shorter than the feed (80): with up to three derived events for a reading that count is
wrong, and the exception in `FeedInOrder` is what the code really has. `DrawerKept` follows a request from batch to batch (`Reads`): what it has found is newest first,
of its zone, and `Complete` down to where it has read. Once the effect of a selection has run, the list is of the selected
zone, and so is every request that can still be answered into it.

Assumptions on the constants: `DeliveryAssumption`, `DashboardAssumption`, `ThresholdsAssumption` and
`EventProcessorAssumption` (what `ThresholdsSchema` imposes), `ZoneAssumption`, `ArchiverAssumption`, `PublisherAssumption`,
`SensorAssumption`, `SamplingAssumption`, `EventFeedAssumption`, `ServiceStatusAssumption`, `ArchiveReportsAssumption` and `ScenarioAssumption`. `SamplingAssumption` is what the defaults and `config/thresholds.json`
give: the windows of trend and growth (30 s and 6 s) are positive, as the schema asks, and fit in the 16 minutes of the history, which nothing
checks; the stream keeps more samples (5000) than are taken in that time (480, one every 2 s). `ScenarioAssumption` is stronger than the code: that
`nearFull.targetMin <= targetMax` and that targets are at most 1 is true of `config/simulation.json`,
but `SimulationConfigSchema` does not ask for it. A configuration with
`targetMin > targetMax` can make NEAR_FULL evaluate `Array(n)` with `n < 0`.

Only model-checked: the liveness properties (`DeliveredIsSettled`, `HeldBackWarningIsRaised`, `EveryEntryIsArchived`, `BurstEnds`,
`FiguresFollowZones`) and the liveness half of the two refinements `LiveViewHolds` and `DetectorHolds`. Fairness and ENABLED are out of the reach of TLAPS here, and so is what
a fold or another recursive definition computes for every input. Their safety halves are `DashboardIsLiveView` and `StatusIsDetector`,
and `ShownInTimeAlways` is a bounded form of what `DetectorHolds` says of the end. Every other property of a passing run is a theorem, `CountersAgree` as long as no start is torn.

## 7. Disagreements with the documentation

One run shows its disagreement as a counterexample of TLC:

1. `startup_gap`: after a restart of the Processor, live messages that come with the
   reply to SUBSCRIBE are processed before the startup catch-up and move the
   position past what was missed. The catch-up reads its cursor when it runs. What was
   missed is never applied, although `event-subscriber.ts:20-23` and `docs/architecture.md:140` say it is recovered.

The next ones are stated in the modules as properties that do not hold, and are not part of any run; put into
the configuration of the module, with the one fault named here, each of them is violated.

2. `NothingMissing`, one lost connection instead of a crash: the catch-up queued at `ready` may read the stream
   before Redis has the SUBSCRIBE that ioredis sends again, and an event published in between is in
   neither (`event-subscriber.ts:22-23`, `docs/redis-design.md:73-74`).
3. `RecoveryHasItsEvent` (`ZoneAlerts`), one crash between the alerts and the zone: the replay finds the alert
   resolved and derives no ZONE_RECOVERED (`docs/event-model.md:64`).
4. `WarningHasItsEvent` (`ZoneAlerts`), no fault: a warning that the cooldown held back is raised by
   the sampler, and no OCCUPANCY_WARNING event is derived from it (`docs/event-model.md:62`).
5. `PendingIsRetried` (`Archiver`), one lost reply: an XREADGROUP whose reply was lost is repeated with `>`; what it carried
   stays pending until the archiver restarts or another error sets `pendingDrained` back (`docs/architecture.md:141`, `README.md:623`).
6. `RestartKeepsOccupancy` (`Publisher`), one crash: a Publisher that restarts while the Processor is behind takes up an
   older occupancy than its own last reading (`publisher.service.ts:80-81`, `docs/technical-report.md:148`).
7. `LastEventSaysScenario` (`Publisher`), no fault: the end of a burst is announced after the newer command that overtook it
   (`index.ts:63` of the Publisher, `docs/simulator.md:103-104`).
8. `UpToDateByItself` (`Dashboard`), no fault: a live message is applied while an older answer of REST is on its way, `hydrate`
   puts the answer over it, and nothing brings the message again until the item changes the next time
   (`useRealtime.ts:45-46`, `README.md:610-611`).

`OvertakenOnlyIfLost` is the promise that remains of 1 and 2: an event is passed
over only if its live message was dropped or the stream had trimmed it.

These are written into a property as the exception it needs:

- *Calibration* (`GrowthIsOverReadings`). `event-processor.ts:159` says that the jump from 0 to the first real
  reading is no unusual growth. It counts as one if the Processor is restarted within
  the window after that reading (`calibratedAt` is lost), or if a sample is taken between the `generated_at` of the reading
  and its processing (`calibratedAt` takes the former).
- *Old snapshot* (`BehindOnlyIfLost`, `LiveViewHolds`). `takenBack` is the exception for what 8 shows. A request that fails counts as an empty answer and takes zones, alerts or feed off the screen.
- *Derived events* (`FeedInOrder`). The `ZONE_UPDATE` of an event carries its derived events without `stream_id`, so that they go by
  another key than the same events by REST and may stand in the feed twice.
- *Order of the feed* (`FeedInOrder`). The order is lost when a sensor event comes in that the last snapshot reaches and the feed
  has not: the Processor is a whole snapshot behind, or newer events have pushed it out of the 80 places
  (`parking-store.ts:145`) before it came in live. With two derived events for each, 21 readings that the Processor catches
  up with are enough for the latter. `applyBatch` puts every event it does not find in the feed in front.
- *Torn start* (`RankingFollowsZones`, `StatusIsTold`). `initializeZones` looks at no result of its pipelines: a zone may be without a
  hash or a score until its next event.
- *Zone drawer* (`DrawerIsOfZone`). When the zone changes, the history of the former one is painted once before the
  effect clears it; events that only the history has come after those of the feed, even when they are newer.
- *Configuration* (`StatusIsTold`, `CountersAgree`). `initializeZones` changes the status of a zone without an event, and a zone that is
  taken away keeps its counters in `parking:stats`.
- *Replaced database* (`ReadyMeansSchema`). `takeSnapshot` logs a failure and leaves `postgresUp` as it is: that the database was replaced by an
  empty one is only noticed by a batch.
- *Reports* (`ReportsAreComplete`). the daily summary may be asked for up to 90 days, more than the retention keeps; a day with alerts and
  without events has no row in the summary.
- *Counts* (`ShownAsItIs`). `refreshCounts` may overlap with itself, and an older answer that comes last stands until the next one.
- *Simulated time* (`SimulatedTimeMovesOn`). What a tick goes beyond the end of the day is not carried into the next one.

## 8. Not modelled, and limits of what is

- Random weights of the base plan and the spread of the movements over a cycle (`scenario-manager.ts`): any plan may come.
- Average and variation of a zone, rates per second, processing times and the numbers of the system page: measurements.
- Metrics, series and log of alerts in the store of the dashboard: they travel in the messages that are modelled.
- Texts and formats: alerts' messages, ids of events and alerts, number formats.
- Eviction of windows under `volatile-lru`: `ServiceStatus` has it for heartbeats, `Sampling` has not.
- `persist` of the alerts is one atomic pipeline in `ZoneAlerts`, never cut, refused or sent again: its history and its active set could
  then differ. Cut and refused pipelines are modelled for `saveProcessed`, where `StatusIsTold` names them as exceptions.
- `getEvents` with a filter scans at most 5000 entries; in the instance of `EventFeed` that limit is only just reached. The proof of
  `HistoryIsNewest` holds for any `ScanLimit`.
- Reports join `zones`, so that an entry of a zone without a row is missing from both sides of `ReportsAreComplete`.
- Several browsers: they share nothing but what the gateway sends to all of them.
- `debug.service.ts`, which lists keys as they are, and the debug page, whose inspector shows whichever answer
  comes last (a listed hazard). The other pages and charts render what the store holds.

## 9. Plan

Done, in this order: `SensorLog`, `EventDelivery` and its proofs; `Occupancy`, `AlertEngine`,
`ZoneAlerts` and their proofs; `Archiver` and its proofs; `ScenarioManager`, `Publisher` and its
proofs; `LiveView`, `Dashboard` and its proofs; `EventProcessor` and its proofs; `Sampling` and its proofs; `FailureDetector`,
`ServiceStatus` and its proofs; `SensorReadings` and its proofs; `EventFeed` and its proofs; `ArchiveReports` and its proofs.

What is left: eviction of windows in `Sampling`, and alert slots in the instance of `Dashboard`, which has one zone and the simulator.
