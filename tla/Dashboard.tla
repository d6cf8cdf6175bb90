------------------------------ MODULE Dashboard ------------------------------
(***************************************************************************)
(* From Redis to the browser.                                              *)
(*                                                                         *)
(*   socket-gateway.ts   Redis channels to Socket.IO, simulator:state      *)
(*   parking.service.ts, simulator.service.ts   what REST answers          *)
(*   useRealtime.ts      socket handlers, the 120 ms buffer, the reload    *)
(*   parking-store.ts    hydrate and applyBatch                            *)
(*                                                                         *)
(* An item is a zone hash, an active-alert slot <zone>:<type> or the       *)
(* simulator state. Its contents are a version: the number of times it was *)
(* changed. 0 is "not on the screen". Metrics, samples, feed and alert log *)
(* travel with the same messages and have no version of their own.         *)
(* A zone changes with an event; the fields that the sampler patches in    *)
(* between are not announced zone by zone and are not part of its version. *)
(***************************************************************************)
EXTENDS Integers, Sequences, FiniteSets, SequencesExt

CONSTANTS
  Zones,             \* zones of config/zones.json
  Alerts,            \* slots of parking:alerts:active
  Simulator,         \* parking:simulator:state
  MaxVersion,        \* bound: versions of one item
  MaxReloads,        \* bound: snapshots being loaded at a time
  MaxDisturbances    \* bound: how many disturbances happen in all

Items == Zones \cup Alerts \cup {Simulator}
Requests == {Zones, Alerts, {Simulator}} \ {{}}
Versions == 0..MaxVersion

ASSUME DashboardAssumption ==
  /\ Zones \cap Alerts = {} /\ Simulator \notin Zones \cup Alerts
  /\ MaxVersion \in Nat \ {0} /\ MaxReloads \in Nat \ {0}
  /\ MaxDisturbances \in Nat

VARIABLES
  \* Redis and the Processor
  saved,             \* version of each item in Redis
  owed,              \* changes written and not yet published, in order
  resyncOwed,        \* a catch-up is running: it ends with a RESYNC
  \* Backend
  subscribed,        \* the gateway's subscription stands
  channel,           \* messages on their way from Redis to the gateway
  lastSimulator,     \* lastSimulatorJson: the version it was taken from
  \* Browser
  connection,        \* "CONNECTING", "LIVE", "RECONNECTING"
  wire,              \* messages on their way to the browser
  buffer,            \* zones and alertChanges of the next batch, 0 for none
  timer,             \* the flush is scheduled
  view,              \* what the store shows
  reloads,           \* answers of each snapshot being loaded
  \* history
  gone,              \* newest version of each item whose message was dropped
  takenBack,         \* newest version of each item that the view went back from
  disturbances       \* how many so far

processorVars == <<saved, owed, resyncOwed>>
gatewayVars == <<subscribed, channel, lastSimulator>>
batchVars == <<buffer, timer>>
screenVars == <<view, takenBack>>
vars == <<saved, owed, resyncOwed, subscribed, channel, lastSimulator, connection,
          wire, buffer, timer, view, reloads, gone, takenBack, disturbances>>

Waiting == -1
NoReload == [i \in {} |-> 0]
AllWaiting == [i \in Items |-> Waiting]
Nothing == [i \in Items |-> 0]

Update(i, v) == [type |-> "update", item |-> i, version |-> v]
Resync == [type |-> "resync"]
SystemEvent == [type |-> "system"]

Larger(a, b) == IF a < b THEN b ELSE a

(* The versions of i that the messages of q carry.                         *)
Carried(q, i) == {v \in Versions : Update(i, v) \in ToSet(q)}

(* What dropping the messages of q gives up: a resync stands for all.      *)
GivenUp(q) ==
  [i \in Items |-> IF Resync \in ToSet(q) /\ i # Simulator THEN saved[i]
                  ELSE Max({gone[i]} \cup Carried(q, i))]

(* A Processor that stops or catches up, a system event, a connection of   *)
(* the gateway or of the browser that drops, a REST request that fails.    *)
Disturbance ==
  /\ disturbances < MaxDisturbances
  /\ disturbances' = disturbances + 1

Init ==
  /\ saved = [i \in Items |-> 1] /\ owed = <<>> /\ resyncOwed = FALSE
  /\ subscribed = TRUE /\ channel = <<>> /\ lastSimulator = 0
  /\ connection = "CONNECTING" /\ wire = <<>>
  /\ buffer = Nothing /\ timer = "none" /\ view = Nothing
  /\ reloads = [r \in 1..MaxReloads |-> NoReload]
  /\ gone = Nothing /\ takenBack = Nothing /\ disturbances = 0

------------------------------------------------------------------------------
(* The services that write: Redis first, the channel afterwards.           *)

Publish(m) ==
  /\ channel' = IF subscribed THEN Append(channel, m) ELSE channel
  /\ gone' = IF subscribed THEN gone ELSE GivenUp(<<m>>)

Write(i) ==
  /\ saved[i] < MaxVersion
  /\ saved' = [saved EXCEPT ![i] = @ + 1]

(* saveProcessed of a live event, persist of an alert change.              *)
Save(i) ==
  /\ owed = <<>>
  /\ i \in Zones => ~resyncOwed
  /\ Write(i)
  /\ owed' = <<Update(i, saved[i] + 1)>>
  /\ UNCHANGED <<resyncOwed, gatewayVars, connection, wire, batchVars, screenVars,
                 reloads, gone, disturbances>>

Announce ==
  /\ owed # <<>>
  /\ Publish(Head(owed))
  /\ owed' = Tail(owed)
  /\ UNCHANGED <<saved, resyncOwed, subscribed, lastSimulator, connection, wire,
                 batchVars, screenVars, reloads, disturbances>>

(* An event of the catch-up is saved and not published; RESYNC follows.    *)
Replay(z) ==
  /\ Disturbance
  /\ owed = <<>>
  /\ Write(z)
  /\ resyncOwed' = TRUE
  /\ UNCHANGED <<owed, gatewayVars, connection, wire, batchVars, screenVars, reloads,
                 gone>>

AnnounceResync ==
  /\ resyncOwed
  /\ owed = <<>>
  /\ Publish(Resync)
  /\ resyncOwed' = FALSE
  /\ UNCHANGED <<saved, owed, subscribed, lastSimulator, connection, wire,
                 batchVars, screenVars, reloads, disturbances>>

(* What was saved is behind the checkpoint and is not published again.     *)
Crash ==
  /\ Disturbance
  /\ gone' = GivenUp(owed \o (IF resyncOwed THEN <<Resync>> ELSE <<>>))
  /\ owed' = <<>> /\ resyncOwed' = FALSE
  /\ UNCHANGED <<saved, gatewayVars, connection, wire, batchVars, screenVars, reloads>>

ChangeSimulator ==
  /\ Write(Simulator)
  /\ UNCHANGED <<owed, resyncOwed, gatewayVars, connection, wire, batchVars,
                 screenVars, reloads, gone, disturbances>>

AnnounceScenario ==
  /\ Disturbance
  /\ Publish(SystemEvent)
  /\ UNCHANGED <<processorVars, subscribed, lastSimulator, connection, wire,
                 batchVars, screenVars, reloads>>

------------------------------------------------------------------------------
(* The gateway.                                                            *)

(* io.emit reaches the browsers that are connected.                        *)
Emit(q) == wire' = IF connection = "LIVE" THEN wire \o q ELSE wire

(* route(): an update or a resync is passed on, a system event makes the   *)
(* gateway send the simulator state whether it changed or not.             *)
Route ==
  /\ channel # <<>>
  /\ channel' = Tail(channel)
  /\ IF Head(channel) = SystemEvent
     THEN /\ Emit(<<Update(Simulator, saved[Simulator])>>)
          /\ lastSimulator' = saved[Simulator]
     ELSE Emit(<<Head(channel)>>) /\ UNCHANGED lastSimulator
  /\ UNCHANGED <<processorVars, subscribed, connection, batchVars, screenVars, reloads,
                 gone, disturbances>>

(* Every second: only a state that differs from the last one is sent.      *)
SimulatorChanged == saved[Simulator] # lastSimulator

PushSimulatorState ==
  /\ SimulatorChanged
  /\ Emit(<<Update(Simulator, saved[Simulator])>>)
  /\ lastSimulator' = saved[Simulator]
  /\ UNCHANGED <<processorVars, subscribed, channel, connection, batchVars, screenVars,
                 reloads, gone, disturbances>>

SubscriberDrops ==
  /\ subscribed
  /\ Disturbance
  /\ subscribed' = FALSE
  /\ channel' = <<>> /\ gone' = GivenUp(channel)
  /\ UNCHANGED <<processorVars, lastSimulator, connection, wire, batchVars, screenVars,
                 reloads>>

Resubscribe ==
  /\ ~subscribed
  /\ subscribed' = TRUE
  /\ UNCHANGED <<processorVars, channel, lastSimulator, connection, wire,
                 batchVars, screenVars, reloads, gone, disturbances>>

------------------------------------------------------------------------------
(* The browser.                                                            *)

Free == {r \in DOMAIN reloads : reloads[r] = NoReload}

(* Mutation: the snapshot is loaded when the page mounts, never again.     *)
StartReloadOnMount ==
  IF view # Nothing THEN UNCHANGED reloads
  ELSE \E r \in Free : reloads' = [reloads EXCEPT ![r] = AllWaiting]

StartReload ==
  \E r \in Free :
    /\ \A q \in Free : r <= q
    /\ reloads' = [reloads EXCEPT ![r] = AllWaiting]

OnConnect ==
  /\ connection # "LIVE"
  /\ connection' = "LIVE"
  /\ StartReload
  /\ UNCHANGED <<processorVars, gatewayVars, wire, batchVars, screenVars, gone, disturbances>>

OnDisconnect ==
  /\ connection = "LIVE"
  /\ Disturbance
  /\ connection' = "RECONNECTING"
  /\ wire' = <<>>
  /\ UNCHANGED <<processorVars, gatewayVars, batchVars, screenVars, reloads, gone>>

(* What the screen loses by going from the view to an older one: nothing    *)
(* repeats the message or the answer that brought the newer version.       *)
TakenBackBy(new) ==
  [i \in Items |-> IF new[i] < view[i] THEN Larger(takenBack[i], view[i])
                  ELSE takenBack[i]]

Schedule == timer' = IF timer = "none" THEN "armed" ELSE timer

(* onUpdate and onAlert: the newest message of an item is the one to apply.*)
Buffered(m) == [buffer EXCEPT ![m.item] = m.version]

OnUpdate ==
  /\ wire # <<>>
  /\ Head(wire).type = "update" /\ Head(wire).item # Simulator
  /\ buffer' = Buffered(Head(wire))
  /\ Schedule
  /\ wire' = Tail(wire)
  /\ UNCHANGED <<processorVars, gatewayVars, connection, screenVars, reloads, gone, disturbances>>

(* onSimulator goes to the store at once. An older state takes the view    *)
(* back for as long as the newer one is behind it on the wire.             *)
OnSimulator ==
  /\ wire # <<>>
  /\ Head(wire).type = "update" /\ Head(wire).item = Simulator
  /\ view' = [view EXCEPT ![Simulator] = Head(wire).version]
  /\ wire' = Tail(wire)
  /\ UNCHANGED <<processorVars, gatewayVars, connection, batchVars, takenBack, reloads,
                 gone, disturbances>>

OnResync ==
  /\ wire # <<>>
  /\ Head(wire) = Resync
  /\ StartReload
  /\ wire' = Tail(wire)
  /\ UNCHANGED <<processorVars, gatewayVars, connection, batchVars, screenVars, gone,
                 disturbances>>

(* Mutation: only what the store has already is replaced.                  *)
MergedIfKnown == [i \in Items |-> IF buffer[i] = 0 \/ view[i] = 0 THEN view[i] ELSE buffer[i]]

(* applyBatch: items of the batch replace those of the store.              *)
Merged == [i \in Items |-> IF buffer[i] = 0 THEN view[i] ELSE buffer[i]]

(* A batch that was buffered before a snapshot is applied after it.        *)
Flush ==
  /\ timer = "armed"
  /\ timer' = "none"
  /\ view' = Merged
  /\ takenBack' = TakenBackBy(Merged)
  /\ buffer' = Nothing
  /\ UNCHANGED <<processorVars, gatewayVars, connection, wire, reloads, gone, disturbances>>

Unanswered(r, R) == reloads[r] # NoReload /\ \A i \in R : reloads[r][i] = Waiting

(* Each of the parallel requests reads Redis at a moment of its own.       *)
Answer(r, R) ==
  /\ Unanswered(r, R)
  /\ reloads' = [reloads EXCEPT ![r] = [i \in Items |-> IF i \in R THEN saved[i]
                                                       ELSE @[i]]]
  /\ UNCHANGED <<processorVars, gatewayVars, connection, wire, batchVars, screenVars,
                 gone, disturbances>>

(* settle(): a request that fails counts as an empty answer.               *)
RequestFails(r, R) ==
  /\ Unanswered(r, R)
  /\ Disturbance
  /\ reloads' = [reloads EXCEPT ![r] = [i \in Items |-> IF i \in R THEN 0 ELSE @[i]]]
  /\ gone' = [i \in Items |-> IF i \in R THEN saved[i] ELSE gone[i]]
  /\ UNCHANGED <<processorVars, gatewayVars, connection, wire, batchVars, screenVars>>

(* hydrate: zones and alerts are replaced, a null simulator is ignored.    *)
Hydrated(answer) ==
  [i \in Items |-> IF i = Simulator /\ answer[i] = 0 THEN view[i] ELSE answer[i]]

(* A snapshot replaces the view, also with what is older.                  *)
Hydrate(r) ==
  /\ reloads[r] # NoReload
  /\ \A i \in Items : reloads[r][i] # Waiting
  /\ view' = Hydrated(reloads[r])
  /\ takenBack' = TakenBackBy(Hydrated(reloads[r]))
  /\ reloads' = [reloads EXCEPT ![r] = NoReload]
  /\ UNCHANGED <<processorVars, gatewayVars, connection, wire, batchVars, gone,
                 disturbances>>

------------------------------------------------------------------------------
Next ==
  \/ \E i \in Zones \cup Alerts : Save(i)
  \/ \E z \in Zones : Replay(z)
  \/ Announce \/ AnnounceResync \/ Crash
  \/ ChangeSimulator \/ AnnounceScenario
  \/ Route \/ PushSimulatorState \/ SubscriberDrops \/ Resubscribe
  \/ OnConnect \/ OnDisconnect \/ OnUpdate \/ OnSimulator \/ OnResync \/ Flush
  \/ \E r \in 1..MaxReloads :
       \/ \E R \in Requests : Answer(r, R) \/ RequestFails(r, R)
       \/ Hydrate(r)

Spec == Init /\ [][Next]_vars

(* Timers fire, sockets come back and deliver, requests are answered; the  *)
(* Processor publishes what it saved. Nothing makes it save anything.      *)
Fairness ==
  /\ WF_vars(Announce) /\ WF_vars(AnnounceResync)
  /\ WF_vars(Route) /\ WF_vars(PushSimulatorState) /\ WF_vars(Resubscribe)
  /\ WF_vars(OnConnect) /\ WF_vars(OnUpdate) /\ WF_vars(OnSimulator)
  /\ WF_vars(OnResync) /\ WF_vars(Flush)
  /\ \A r \in 1..MaxReloads :
       /\ \A R \in Requests : WF_vars(Answer(r, R))
       /\ WF_vars(Hydrate(r))

FairSpec == Spec /\ Fairness

------------------------------------------------------------------------------
InTransit == ToSet(owed \o channel \o wire)

(* Something under way will still put the current version of i on the      *)
(* screen: its message, a resync, a reload that has not read or has read   *)
(* it, the connection that will start one, or the next simulator push.     *)
OnItsWay(i) ==
  \/ connection # "LIVE"
  \/ Update(i, saved[i]) \in InTransit
  \/ buffer[i] = saved[i]
  \/ \E r \in 1..MaxReloads : reloads[r] # NoReload
                              /\ reloads[r][i] \in {Waiting, saved[i]}
  \/ i # Simulator /\ (resyncOwed \/ Resync \in InTransit)
  \/ i = Simulator /\ SimulatorChanged

(* The newest version of i that was lost.                                  *)
Lost(i) == Larger(gone[i], takenBack[i])

(* The dashboard is behind Redis only with a reason: the newer version is  *)
(* still on its way, or its message was dropped (a crash before PUBLISH,   *)
(* the gateway's subscription, a failed request), or the browser had it    *)
(* and put an older snapshot or an older batch over it.                    *)
BehindOnlyIfLost ==
  \A i \in Items : view[i] = saved[i] \/ OnItsWay(i) \/ saved[i] <= Lost(i)

(* "Carga el estado por REST y luego aplica en vivo los mensajes": a       *)
(* dashboard for which no message was dropped and no request failed brings *)
(* itself up to date.                                                      *)
UpToDateByItself ==
  \A i \in Items : view[i] = saved[i] \/ OnItsWay(i) \/ saved[i] <= gone[i]

(* The dashboard is a live view of Redis: it shows only what has been, and *)
(* what it is behind by and has not lost it catches up with.               *)
View == INSTANCE LiveView WITH current <- saved, shown <- view,
                               lost <- [i \in Items |-> Lost(i)]
LiveViewHolds == View!Spec
==============================================================================
