---------------------------- MODULE EventDelivery ----------------------------
(***************************************************************************)
(* How a sensor event travels from the Publisher to the zone state:        *)
(*                                                                         *)
(*   publisher.service.ts   XADD parking:stream, then PUBLISH parking-events*)
(*   event-subscriber.ts    SUBSCRIBE, live messages, catch-up from the    *)
(*                          stream at start and at every reconnection      *)
(*   serial-queue.ts        one task at a time, in order of arrival        *)
(*   event-processor.ts     discard what was already processed, save state *)
(*                          and checkpoint, announce on parking-updates    *)
(*                                                                         *)
(* The subscriber connection and the command connection are different      *)
(* sockets, so what Redis does for one is not ordered with the other.      *)
(* A stream ID is the position of the entry in the stream.                 *)
(***************************************************************************)
EXTENDS Integers, Sequences

CONSTANTS
  MaxStream,         \* bound: entries ever added to parking:stream
  StreamMaxLength,   \* STREAM_MAX_LENGTH, the MAXLEN ~ of every XADD
  PageSize,          \* COUNT of one XRANGE of the catch-up (250 in the code)
  MaxDerived,        \* bound: derived events one sensor event may cause
  MaxFaults          \* bound: how often each kind of fault may happen

FaultKinds == {"crash", "disconnect", "task", "publish"}

ASSUME DeliveryAssumption ==
  /\ MaxStream \in Nat
  /\ StreamMaxLength \in Nat
  /\ PageSize \in Nat \ {0}
  /\ MaxDerived \in Nat
  /\ MaxFaults \in [FaultKinds -> Nat]

(* "SENSOR": a sensor event of a configured zone. "FOREIGN": of a zone the *)
(* Processor does not know. "OTHER": a system or a derived event.          *)
Kinds == {"SENSOR", "FOREIGN", "OTHER"}

VARIABLES
  \* Redis: survives the services
  stream,            \* kind of every entry ever added to parking:stream
  trimmed,           \* how many of the oldest entries MAXLEN removed
  checkpoint,        \* parking:processor:checkpoint, 0 while unset
  conn,              \* subscriber connection: "down", "ready", "subscribed"
  \* Publisher
  unpublished,       \* ID returned by XADD and not yet PUBLISHed, or 0
  \* the subscriber socket
  wire,              \* IDs sent by Redis and not yet read by the Processor
  \* Processor: lost in a crash
  phase,             \* "down", "starting", "running"
  queue,             \* SerialQueue: tasks in order, the head is running
  pc,                \* where the running task is suspended
  lastProcessedId,   \* EventProcessor.lastProcessedId, 0 for '0-0'
  cursor,            \* catchUp: last entry looked at
  pageEnd,           \* catchUp: last entry of the page just read
  shortPage,         \* catchUp: the page had fewer than PageSize entries
  recovered,         \* catchUp: count > 0
  \* history
  from,              \* lastProcessedId when the running catch-up began
  log,               \* IDs of the events saved, in order
  announced,         \* saved IDs whose effect parking-updates has carried
  lost,              \* IDs whose live message was dropped on the way
  faults             \* faults so far

redisVars     == <<stream, trimmed, checkpoint>>
linkVars      == <<conn, wire, phase>>
catchUpVars   == <<cursor, pageEnd, shortPage, recovered, from>>
historyVars   == <<log, announced, lost, faults>>
vars == <<stream, trimmed, checkpoint, conn, unpublished, wire, phase, queue,
          pc, lastProcessedId, cursor, pageEnd, shortPage, recovered, from,
          log, announced, lost, faults>>

Live(id) == [kind |-> "live", id |-> id]
CatchUp == [kind |-> "catchUp", id |-> 0]
Tasks == [kind : {"live", "catchUp"}, id : Nat]

(* The IDs of a sequence of IDs, and those of the live tasks of the queue. *)
Ids(s) == {s[k] : k \in DOMAIN s}
QueuedIds == {queue[k].id : k \in {j \in DOMAIN queue : queue[j].kind = "live"}}

Greatest(a, b) == IF a < b THEN b ELSE a
Least(a, b) == IF a < b THEN a ELSE b

Fault(kind) ==
  /\ faults[kind] < MaxFaults[kind]
  /\ faults' = [faults EXCEPT ![kind] = @ + 1]

Init ==
  /\ stream = <<>> /\ trimmed = 0 /\ checkpoint = 0
  /\ conn = "down" /\ unpublished = 0 /\ wire = <<>>
  /\ phase = "starting" /\ queue = <<>> /\ pc = "idle" /\ lastProcessedId = 0
  /\ cursor = 0 /\ pageEnd = 0 /\ shortPage = FALSE /\ recovered = FALSE
  /\ from = 0
  /\ log = <<>> /\ announced = {} /\ lost = {}
  /\ faults = [kind \in FaultKinds |-> 0]

------------------------------------------------------------------------------
(* Publisher. Its own serial queue keeps XADD and PUBLISH of one event     *)
(* together: the next XADD waits for the previous PUBLISH.                 *)

(* XADD ... MAXLEN ~ StreamMaxLength: the trimming is approximate, it may  *)
(* leave more entries than asked for, never fewer.                         *)
Added(entries) ==
  /\ Len(stream) + Len(entries) <= MaxStream
  /\ stream' = stream \o entries
  /\ LET excess == Len(stream) + Len(entries) - StreamMaxLength
     IN  trimmed' \in {trimmed} \cup
                        {k \in (trimmed + 1)..excess : entries # <<>>}

XaddSensor(kind) ==
  /\ unpublished = 0
  /\ Added(<<kind>>)
  /\ unpublished' = Len(stream) + 1
  /\ UNCHANGED <<checkpoint, linkVars, queue, pc, lastProcessedId, catchUpVars,
                 historyVars>>

(* A system event: same stream, announced on a channel nobody here reads.  *)
XaddSystem ==
  /\ unpublished = 0
  /\ Added(<<"OTHER">>)
  /\ UNCHANGED <<checkpoint, linkVars, unpublished, queue, pc, lastProcessedId,
                 catchUpVars, historyVars>>

(* PUBLISH reaches the subscribers of this instant and nobody later.       *)
Publish ==
  /\ unpublished # 0
  /\ IF conn = "subscribed"
     THEN wire' = Append(wire, unpublished) /\ lost' = lost
     ELSE wire' = wire /\ lost' = lost \cup {unpublished}
  /\ unpublished' = 0
  /\ UNCHANGED <<redisVars, conn, phase, queue, pc, lastProcessedId,
                 catchUpVars, log, announced, faults>>

(* The Publisher stops, or its command fails, between XADD and PUBLISH.    *)
PublishFails ==
  /\ unpublished # 0
  /\ Fault("publish")
  /\ lost' = lost \cup {unpublished}
  /\ unpublished' = 0
  /\ UNCHANGED <<redisVars, linkVars, queue, pc, lastProcessedId, catchUpVars,
                 log, announced>>

------------------------------------------------------------------------------
(* Subscriber connection.                                                  *)

(* ioredis reports 'ready' and sends SUBSCRIBE again by itself. The handler *)
(* queues a catch-up unless start() has not finished.                      *)
Ready ==
  /\ phase # "down"
  /\ conn = "down"
  /\ conn' = "ready"
  /\ queue' = IF phase = "running" THEN Append(queue, CatchUp) ELSE queue
  /\ UNCHANGED <<redisVars, unpublished, wire, phase, pc, lastProcessedId,
                 catchUpVars, historyVars>>

(* Redis executes SUBSCRIBE: from here on it sends what is published.      *)
Subscribed ==
  /\ conn = "ready"
  /\ conn' = "subscribed"
  /\ UNCHANGED <<redisVars, unpublished, wire, phase, queue, pc,
                 lastProcessedId, catchUpVars, historyVars>>

(* The socket delivers the reply to the first SUBSCRIBE, perhaps in one     *)
(* chunk with the first k messages. The client handles the whole chunk     *)
(* before the code after the await in start() runs: k live tasks enter the *)
(* queue first, then started = true and the startup catch-up.              *)
StartFinishes ==
  /\ phase = "starting"
  /\ conn = "subscribed"
  /\ phase' = "running"
  /\ \E k \in 0..Len(wire) :
       /\ queue' = Append([j \in 1..k |-> Live(wire[j])], CatchUp)
       /\ wire' = SubSeq(wire, k + 1, Len(wire))
  /\ UNCHANGED <<redisVars, conn, unpublished, pc, lastProcessedId,
                 catchUpVars, historyVars>>

(* onMessage: a valid message becomes a task.                              *)
OnMessage ==
  /\ phase = "running"
  /\ wire # <<>>
  /\ queue' = Append(queue, Live(Head(wire)))
  /\ wire' = Tail(wire)
  /\ UNCHANGED <<redisVars, conn, phase, unpublished, pc, lastProcessedId,
                 catchUpVars, historyVars>>

(* The subscriber socket closes with whatever it still carried.            *)
Disconnect ==
  /\ conn # "down"
  /\ Fault("disconnect")
  /\ conn' = "down"
  /\ wire' = <<>>
  /\ lost' = lost \cup Ids(wire)
  /\ UNCHANGED <<redisVars, phase, unpublished, queue, pc, lastProcessedId,
                 catchUpVars, log, announced>>
------------------------------------------------------------------------------
(* Processor: one task of the queue at a time.                             *)

Idle == pc = "idle" /\ queue # <<>>
Replaying == Head(queue).kind = "catchUp"
Current == IF Replaying THEN cursor ELSE Head(queue).id

(* Mutation: the last event processed counts as new.                       *)
SkippedOffByOne(id) == id < lastProcessedId \/ stream[id] = "FOREIGN"

(* process() returns at once: already processed, or an unknown zone.       *)
Skipped(id) == id <= lastProcessedId \/ stream[id] = "FOREIGN"

StartLive ==
  /\ Idle
  /\ ~Replaying
  /\ ~Skipped(Head(queue).id)
  /\ pc' = "save"
  /\ UNCHANGED <<redisVars, linkVars, unpublished, queue, lastProcessedId,
                 catchUpVars, historyVars>>

DropLive ==
  /\ Idle
  /\ ~Replaying
  /\ Skipped(Head(queue).id)
  /\ queue' = Tail(queue)
  /\ UNCHANGED <<redisVars, linkVars, unpublished, pc, lastProcessedId,
                 catchUpVars, historyVars>>

(* First start ever: '0-0', only live events count.                        *)
SkipCatchUp ==
  /\ Idle
  /\ Replaying
  /\ lastProcessedId = 0
  /\ queue' = Tail(queue)
  /\ UNCHANGED <<redisVars, linkVars, unpublished, pc, lastProcessedId,
                 catchUpVars, historyVars>>

(* The cursor is read when the task runs, not when it was queued.          *)
StartCatchUp ==
  /\ Idle
  /\ Replaying
  /\ lastProcessedId # 0
  /\ cursor' = lastProcessedId
  /\ from' = lastProcessedId
  /\ recovered' = FALSE
  /\ pc' = "read"
  /\ UNCHANGED <<redisVars, linkVars, unpublished, queue, lastProcessedId,
                 pageEnd, shortPage, historyVars>>

(* Mutation: the entry after the cursor is left out of the range.          *)
PageStartOffByOne == Greatest(cursor, trimmed) + 1

(* The entry the next page starts after: the cursor, or what was trimmed.  *)
PageStart == Greatest(cursor, trimmed)

(* XRANGE parking:stream (cursor + COUNT PageSize. Trimmed entries are     *)
(* gone; an empty page ends the loop as a short one does.                  *)
ReadPage ==
  /\ pc = "read"
  /\ LET last == Least(PageStart + PageSize, Len(stream))
     IN  /\ cursor' = PageStart
         /\ pageEnd' = last
         /\ shortPage' = (last - PageStart < PageSize)
  /\ pc' = "page"
  /\ UNCHANGED <<redisVars, linkVars, unpublished, queue, lastProcessedId,
                 recovered, from, historyVars>>

(* One entry of the page: only sensor events of the simulator are handed   *)
(* to process(), which may still discard them.                             *)
NextEntry ==
  /\ pc = "page"
  /\ cursor < pageEnd
  /\ cursor' = cursor + 1
  /\ recovered' = (recovered \/ stream[cursor + 1] # "OTHER")
  /\ pc' = IF stream[cursor + 1] = "OTHER" \/ Skipped(cursor + 1)
           THEN "page" ELSE "save"
  /\ UNCHANGED <<redisVars, linkVars, unpublished, queue, lastProcessedId,
                 pageEnd, shortPage, from, historyVars>>

NextPage ==
  /\ pc = "page"
  /\ cursor = pageEnd
  /\ ~shortPage
  /\ pc' = "read"
  /\ UNCHANGED <<redisVars, linkVars, unpublished, queue, lastProcessedId,
                 catchUpVars, historyVars>>

(* publishResync carries every zone, hence every event saved so far.       *)
AnnouncedByResync == IF recovered THEN Ids(log) ELSE announced

(* The catch-up is over; if it replayed anything, publishResync sends the  *)
(* state of every zone.                                                    *)
EndCatchUp ==
  /\ pc = "page"
  /\ cursor = pageEnd
  /\ shortPage
  /\ announced' = AnnouncedByResync
  /\ queue' = Tail(queue)
  /\ pc' = "idle"
  /\ cursor' = 0 /\ pageEnd' = 0 /\ shortPage' = FALSE /\ recovered' = FALSE
  /\ from' = 0
  /\ UNCHANGED <<redisVars, linkVars, unpublished, lastProcessedId, log, lost,
                 faults>>

(* saveProcessed: zone hash, ranking, statistics, derived events and       *)
(* checkpoint in one pipeline.                                             *)
SaveProcessed ==
  /\ pc = "save"
  /\ \E n \in 0..MaxDerived : Added([k \in 1..n |-> "OTHER"])
  /\ checkpoint' = Current
  /\ log' = Append(log, Current)
  /\ pc' = "finish"
  /\ UNCHANGED <<linkVars, unpublished, queue, lastProcessedId, catchUpVars,
                 announced, lost, faults>>

(* After the reply: the in-memory position, then groups and metrics, then  *)
(* ZONE_UPDATE, which a replayed event does not send.                      *)
FinishLive ==
  /\ pc = "finish"
  /\ ~Replaying
  /\ lastProcessedId' = Current
  /\ announced' = announced \cup {Current}
  /\ queue' = Tail(queue)
  /\ pc' = "idle"
  /\ UNCHANGED <<redisVars, linkVars, unpublished, catchUpVars, log, lost,
                 faults>>

FinishReplayed ==
  /\ pc = "finish"
  /\ Replaying
  /\ lastProcessedId' = Current
  /\ pc' = "page"
  /\ UNCHANGED <<redisVars, linkVars, unpublished, queue, catchUpVars,
                 historyVars>>

(* Mutation: the position moves before the save instead of after it.       *)
PositionMovedEarly ==
  IF pc \in {"save", "finish"} THEN Current ELSE lastProcessedId

(* Where lastProcessedId stands when the running task is rejected.         *)
PositionOnFailure == IF pc = "finish" THEN Current ELSE lastProcessedId

(* Mutation: the queue's tail keeps the rejection, nothing runs after it.  *)
FailureStallsQueue == queue' = queue /\ pc' = "stalled"

(* .catch() of SerialQueue.push: the next task runs as after a success.    *)
FailureIsCaught == queue' = Tail(queue) /\ pc' = "idle"

(* A command of the running task is rejected: the queue logs the error and *)
(* goes on with the next task. A failing catch-up stops where it is. Once  *)
(* saveProcessed has returned, the position has moved already.             *)
TaskFails ==
  /\ pc \in {"read", "save", "finish"}
  /\ Fault("task")
  /\ lastProcessedId' = PositionOnFailure
  /\ lost' = IF pc = "save" /\ ~Replaying THEN lost \cup {Current} ELSE lost
  /\ FailureIsCaught
  /\ cursor' = 0 /\ pageEnd' = 0 /\ shortPage' = FALSE /\ recovered' = FALSE
  /\ from' = 0
  /\ UNCHANGED <<redisVars, linkVars, unpublished, log, announced>>

(* The process dies between any two steps; its memory and whatever was on  *)
(* its way to it are gone.                                                 *)
Crash ==
  /\ phase # "down"
  /\ Fault("crash")
  /\ phase' = "down" /\ conn' = "down" /\ wire' = <<>>
  /\ lost' = lost \cup Ids(wire) \cup QueuedIds
  /\ queue' = <<>> /\ pc' = "idle" /\ lastProcessedId' = 0
  /\ cursor' = 0 /\ pageEnd' = 0 /\ shortPage' = FALSE /\ recovered' = FALSE
  /\ from' = 0
  /\ UNCHANGED <<redisVars, unpublished, log, announced>>

(* Mutation: a restarted Processor forgets the checkpoint.                 *)
RestartFromScratch ==
  /\ phase = "down"
  /\ phase' = "starting"
  /\ lastProcessedId' = 0
  /\ UNCHANGED <<redisVars, conn, wire, unpublished, queue, pc, catchUpVars,
                 historyVars>>

(* main(): the checkpoint is read before the subscriber starts.            *)
Restart ==
  /\ phase = "down"
  /\ phase' = "starting"
  /\ lastProcessedId' = checkpoint
  /\ UNCHANGED <<redisVars, conn, wire, unpublished, queue, pc, catchUpVars,
                 historyVars>>

Publisher ==
  \/ \E kind \in {"SENSOR", "FOREIGN"} : XaddSensor(kind)
  \/ XaddSystem
  \/ Publish
  \/ PublishFails

Subscriber ==
  \/ Ready
  \/ Subscribed
  \/ StartFinishes
  \/ OnMessage
  \/ Disconnect

Processor ==
  \/ StartLive
  \/ DropLive
  \/ SkipCatchUp
  \/ StartCatchUp
  \/ ReadPage
  \/ NextEntry
  \/ NextPage
  \/ EndCatchUp
  \/ SaveProcessed
  \/ FinishLive
  \/ FinishReplayed
  \/ TaskFails
  \/ Crash
  \/ Restart

Next == Publisher \/ Subscriber \/ Processor

Spec == Init /\ [][Next]_vars

(* The Processor's event loop runs, and a command to Redis is retried until *)
(* it is answered (maxRetriesPerRequest: null): every step that needs only *)
(* the process and Redis is taken. Nothing is assumed of the Publisher, of *)
(* reconnections or of restarts.                                           *)
Work ==
  \/ StartLive \/ DropLive \/ FinishLive \/ SaveProcessed
  \/ SkipCatchUp \/ StartCatchUp \/ ReadPage \/ NextEntry \/ NextPage
  \/ FinishReplayed \/ EndCatchUp

FairSpec ==
  /\ Spec
  /\ WF_vars(Work)
  /\ WF_vars(StartFinishes)
  /\ WF_vars(OnMessage)

------------------------------------------------------------------------------
(* Properties                                                              *)

TypeOK ==
  /\ stream \in Seq(Kinds)
  /\ trimmed \in Nat
  /\ checkpoint \in Nat
  /\ conn \in {"down", "ready", "subscribed"}
  /\ unpublished \in Nat
  /\ wire \in Seq(Nat)
  /\ phase \in {"down", "starting", "running"}
  /\ queue \in Seq(Tasks)
  /\ pc \in {"idle", "read", "page", "save", "finish"}
  /\ lastProcessedId \in Nat
  /\ cursor \in Nat /\ pageEnd \in Nat /\ from \in Nat
  /\ shortPage \in BOOLEAN /\ recovered \in BOOLEAN
  /\ log \in Seq(Nat)
  /\ announced \subseteq Nat
  /\ lost \subseteq Nat
  /\ faults \in [FaultKinds -> Nat]

SensorIds == {id \in 1..Len(stream) : stream[id] = "SENSOR"}

(* An event is counted at most once and in stream order, although it may   *)
(* arrive live and again in a catch-up, and although a crash may come      *)
(* between saving it and remembering it: total_entries, the statistics and *)
(* the derived events rest on this.                                        *)
ProcessedInOrder ==
  \A j, k \in 1..Len(log) : j < k => log[j] < log[k]

(* process() discards by position alone, so a sensor event that is passed  *)
(* over is never applied. That happens only to an event whose live message *)
(* was dropped, or that the stream had already trimmed: one that is still  *)
(* on its way through PUBLISH, socket or queue is never overtaken.         *)
OvertakenOnlyIfLost ==
  \A id \in SensorIds :
    id <= checkpoint => id \in Ids(log) \cup lost \cup 1..trimmed

(* What a catch-up has gone through is applied without holes, across page  *)
(* boundaries, entries of other kinds and events that arrive meanwhile.    *)
CatchUpLeavesNoHole ==
  pc # "idle" /\ Replaying =>
    \A id \in SensorIds :
      (from < id /\ id <= cursor /\ ~(pc = "save" /\ id = cursor))
        => id \in Ids(log) \cup 1..trimmed

(* Without crashes and rejected commands, a quiet Processor has told the   *)
(* dashboards about everything it saved: live events one by one, replayed  *)
(* ones with the RESYNC that ends the catch-up.                            *)
AnnouncedWhenQuiet ==
  faults["crash"] = 0 /\ faults["task"] = 0 /\ queue = <<>>
    => announced = Ids(log)

(* A catch-up recovers everything it goes through, and tells everybody.    *)
CatchUpIsComplete == CatchUpLeavesNoHole /\ AnnouncedWhenQuiet

(* A live message that reached the Processor's socket is eventually        *)
(* applied, unless an outage drops it or its zone is unknown.              *)
DeliveredIsSettled ==
  \A id \in 1..MaxStream :
    id \in QueuedIds \cup Ids(wire)
      ~> \/ id \in Ids(log) \cup lost \cup 1..trimmed
         \/ id \in 1..Len(stream) /\ stream[id] = "FOREIGN"

(* The catch-up "recupera lo que falte": after the first event ever        *)
(* applied, every sensor event still in the stream is applied before a     *)
(* later one.                                                              *)
NothingMissing ==
  \A id \in SensorIds :
    log # <<>> /\ log[1] < id /\ id < checkpoint
      => id \in Ids(log) \cup 1..trimmed

(* The pipeline keeps the promise of SensorLog under every interleaving    *)
(* and every fault.                                                        *)
Promise == INSTANCE SensorLog WITH stream <- stream, log <- log, checkpoint <- checkpoint
Refinement == Promise!Spec
==============================================================================
