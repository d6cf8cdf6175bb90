------------------------ MODULE EventDeliveryProofs ------------------------
(***************************************************************************)
(* Proofs about EventDelivery for every value of its constants: types,     *)
(* order of processing, what becomes of every event and of what a catch-up *)
(* goes through, and that the pipeline keeps the promise of SensorLog.     *)
(***************************************************************************)
EXTENDS EventDelivery, SequenceTheorems, TLAPS

(* Only a running Processor has tasks, and a step of a task has a task;    *)
(* only a catch-up reads pages.                                            *)
Scheduling ==
  /\ phase # "running" => queue = <<>> /\ pc = "idle"
  /\ pc # "idle" => queue # <<>>
  /\ pc \in {"read", "page"} => Replaying

TypeInv == TypeOK /\ Scheduling

(* The head of a queue survives an arrival at its end.                     *)
LEMMA AppendKeepsHead ==
  ASSUME NEW S, NEW q \in Seq(S), q # <<>>, NEW e \in S
  PROVE  /\ Append(q, e) \in Seq(S)
         /\ Append(q, e) # <<>>
         /\ Head(Append(q, e)) = Head(q)
  OBVIOUS

(* A task taken off a queue leaves a queue.                                *)
LEMMA TailOfTasks ==
  ASSUME NEW S, NEW q \in Seq(S), q # <<>>
  PROVE  Tail(q) \in Seq(S) /\ Head(q) \in S
  OBVIOUS

(* XADD keeps the types of what it writes.                                 *)
LEMMA AddedTypes ==
  ASSUME TypeOK, NEW entries \in Seq(Kinds), Added(entries)
  PROVE  stream' \in Seq(Kinds) /\ trimmed' \in Nat
  <1>1. stream' \in Seq(Kinds)
    BY DEF TypeOK, Added
  <1>2. trimmed' \in Nat
    BY DeliveryAssumption DEF TypeOK, Added
  <1> QED BY <1>1, <1>2

(* Counting a fault keeps the counters.                                    *)
LEMMA FaultTypes ==
  ASSUME TypeOK, NEW kind \in FaultKinds, Fault(kind)
  PROVE  faults' \in [FaultKinds -> Nat]
  BY DEF TypeOK, Fault

(* The IDs in a sequence of naturals, and those of queued tasks.           *)
LEMMA IdsAreNat == ASSUME NEW s \in Seq(Nat) PROVE Ids(s) \subseteq Nat
  BY DEF Ids

LEMMA QueuedIdsAreNat == TypeOK => QueuedIds \subseteq Nat
  <1> SUFFICES ASSUME TypeOK, NEW k \in DOMAIN queue, queue[k].kind = "live"
               PROVE  queue[k].id \in Nat
    BY DEF QueuedIds
  <1>1. queue[k] \in Tasks
    BY DEF TypeOK
  <1> QED BY <1>1 DEF Tasks

LEMMA TypeInvInit == Init => TypeInv
  <1> SUFFICES ASSUME Init PROVE TypeInv
    OBVIOUS
  <1>1. stream \in Seq(Kinds) /\ wire \in Seq(Nat) /\ queue \in Seq(Tasks) /\ log \in Seq(Nat)
    BY DEF Init
  <1>2. faults \in [FaultKinds -> Nat]
    BY DEF Init
  <1>3. TypeOK
    BY <1>1, <1>2 DEF Init, TypeOK
  <1>4. Scheduling
    BY DEF Init, Scheduling
  <1> QED BY <1>3, <1>4 DEF TypeInv

LEMMA TypeInvPublisher == TypeInv /\ Publisher => TypeInv'
  <1> SUFFICES ASSUME TypeInv, Publisher PROVE TypeInv'
    OBVIOUS
  <1> USE DEF TypeInv, Scheduling, Replaying, historyVars, redisVars, linkVars, catchUpVars
  <1>1. ASSUME NEW kind \in {"SENSOR", "FOREIGN"}, XaddSensor(kind)
        PROVE  TypeInv'
    <2>1. <<kind>> \in Seq(Kinds)
      BY DEF Kinds
    <2>2. stream' \in Seq(Kinds) /\ trimmed' \in Nat
      BY <1>1, <2>1, AddedTypes DEF XaddSensor
    <2> QED BY <1>1, <2>2 DEF XaddSensor, TypeOK
  <1>2. CASE XaddSystem
    <2>1. <<"OTHER">> \in Seq(Kinds)
      BY DEF Kinds
    <2>2. stream' \in Seq(Kinds) /\ trimmed' \in Nat
      BY <1>2, <2>1, AddedTypes DEF XaddSystem
    <2> QED BY <1>2, <2>2 DEF XaddSystem, TypeOK
  <1>3. CASE Publish
    <2>0. wire \in Seq(Nat) /\ unpublished \in Nat
      BY DEF TypeOK
    <2>1. wire' \in Seq(Nat)
      BY <1>3, <2>0 DEF Publish
    <2>2. lost' \subseteq Nat
      BY <1>3 DEF Publish, TypeOK
    <2> QED BY <1>3, <2>1, <2>2 DEF Publish, TypeOK
  <1>4. CASE PublishFails
    <2>1. faults' \in [FaultKinds -> Nat]
      BY <1>4, FaultTypes DEF PublishFails, FaultKinds
    <2>2. lost' \subseteq Nat
      BY <1>4 DEF PublishFails, TypeOK
    <2> QED BY <1>4, <2>1, <2>2 DEF PublishFails, TypeOK
  <1> QED BY <1>1, <1>2, <1>3, <1>4 DEF Publisher

(* A catch-up and a live event are tasks.                                  *)
LEMMA TasksAreTasks ==
  CatchUp \in Tasks /\ \A id \in Nat : Live(id) \in Tasks
  BY DEF CatchUp, Live, Tasks

LEMMA TypeInvSubscriber == TypeInv /\ Subscriber => TypeInv'
  <1> SUFFICES ASSUME TypeInv, Subscriber PROVE TypeInv'
    OBVIOUS
  <1> USE DEF TypeInv, Scheduling, Replaying, historyVars, redisVars, linkVars, catchUpVars
  <1>1. /\ wire \in Seq(Nat)
        /\ queue \in Seq(Tasks)
        /\ lost \subseteq Nat
        /\ phase \in {"down", "starting", "running"}
    BY DEF TypeOK
  <1>2. CASE Ready
    <2>1. queue' \in Seq(Tasks)
      BY <1>1, <1>2, TasksAreTasks DEF Ready
    <2>2. TypeOK'
      BY <1>2, <2>1 DEF Ready, TypeOK
    <2>3. Scheduling'
      <3>1. CASE phase = "running"
        <4>1. queue' = Append(queue, CatchUp) /\ phase' = phase /\ pc' = pc
          BY <1>2, <3>1 DEF Ready
        <4>2. queue' # <<>>
          BY <1>1, <4>1, TasksAreTasks
        <4>3. queue # <<>> => Head(queue') = Head(queue)
          BY <1>1, <4>1, TasksAreTasks, AppendKeepsHead
        <4> QED BY <3>1, <4>1, <4>2, <4>3
      <3>2. CASE phase # "running"
        BY <1>2, <3>2 DEF Ready
      <3> QED BY <3>1, <3>2
    <2> QED BY <2>2, <2>3
  <1>3. CASE Subscribed
    BY <1>3 DEF Subscribed, TypeOK
  <1>4. CASE StartFinishes
    <2>1. PICK k \in 0..Len(wire) :
            /\ queue' = Append([j \in 1..k |-> Live(wire[j])], CatchUp)
            /\ wire' = SubSeq(wire, k + 1, Len(wire))
      BY <1>4 DEF StartFinishes
    <2>2. wire' \in Seq(Nat)
      BY <1>1, <2>1
    <2>3. [j \in 1..k |-> Live(wire[j])] \in Seq(Tasks)
      BY <1>1, TasksAreTasks
    <2>4. queue' \in Seq(Tasks) /\ queue' # <<>>
      BY <2>1, <2>3, TasksAreTasks
    <2>5. TypeOK'
      BY <1>4, <2>2, <2>4 DEF StartFinishes, TypeOK
    <2>6. Scheduling'
      BY <1>4, <2>4 DEF StartFinishes
    <2> QED BY <2>5, <2>6
  <1>5. CASE OnMessage
    <2>1. wire # <<>> /\ queue' = Append(queue, Live(Head(wire))) /\ wire' = Tail(wire)
      BY <1>5 DEF OnMessage
    <2>2. wire' \in Seq(Nat) /\ Live(Head(wire)) \in Tasks
      BY <1>1, <2>1, TailOfTasks, TasksAreTasks
    <2>3. queue' \in Seq(Tasks) /\ queue' # <<>>
      BY <1>1, <2>1, <2>2
    <2>4. queue # <<>> => Head(queue') = Head(queue)
      BY <1>1, <2>1, <2>2, AppendKeepsHead
    <2>5. TypeOK'
      BY <1>5, <2>2, <2>3 DEF OnMessage, TypeOK
    <2>6. Scheduling'
      BY <1>5, <2>3, <2>4 DEF OnMessage
    <2> QED BY <2>5, <2>6
  <1>6. CASE Disconnect
    <2>1. faults' \in [FaultKinds -> Nat]
      BY <1>6, FaultTypes DEF Disconnect, FaultKinds
    <2>2. Ids(wire) \subseteq Nat
      BY <1>1, IdsAreNat
    <2>3. lost' \subseteq Nat
      BY <1>1, <1>6, <2>2 DEF Disconnect
    <2>4. wire' \in Seq(Nat)
      BY <1>6 DEF Disconnect
    <2> QED BY <1>6, <2>1, <2>3, <2>4 DEF Disconnect, TypeOK
  <1> QED BY <1>2, <1>3, <1>4, <1>5, <1>6 DEF Subscriber

(* The entry a running task is about has an ID.                            *)
LEMMA CurrentIsNat ==
  ASSUME TypeOK, queue # <<>>
  PROVE  Current \in Nat
  <1>1. Head(queue) \in Tasks
    BY TailOfTasks DEF TypeOK
  <1> QED BY <1>1 DEF Current, Tasks, TypeOK

(* Taking the head off the queue, and forgetting it all, keep the types.   *)
LEMMA QueueShrinks ==
  ASSUME TypeOK, queue # <<>>
  PROVE  Tail(queue) \in Seq(Tasks)
  BY TailOfTasks DEF TypeOK

LEMMA TypeInvProcessor == TypeInv /\ Processor => TypeInv'
  <1> SUFFICES ASSUME TypeInv, Processor PROVE TypeInv'
    OBVIOUS
  <1> USE DEF TypeInv, Scheduling, Replaying, historyVars, redisVars, linkVars, catchUpVars
  <1>1. TypeOK
    OBVIOUS
  <1>2. CASE StartLive
    BY <1>1, <1>2 DEF StartLive, Idle, TypeOK
  <1>3. CASE DropLive
    <2>1. queue' \in Seq(Tasks)
      BY <1>1, <1>3, QueueShrinks DEF DropLive, Idle
    <2>2. TypeOK'
      BY <1>1, <1>3, <2>1 DEF DropLive, TypeOK
    <2>3. Scheduling'
      BY <1>3 DEF DropLive, Idle
    <2> QED BY <2>2, <2>3
  <1>4. CASE SkipCatchUp
    <2>1. queue' \in Seq(Tasks)
      BY <1>1, <1>4, QueueShrinks DEF SkipCatchUp, Idle
    <2>2. TypeOK'
      BY <1>1, <1>4, <2>1 DEF SkipCatchUp, TypeOK
    <2>3. Scheduling'
      BY <1>4 DEF SkipCatchUp, Idle
    <2> QED BY <2>2, <2>3
  <1>5. CASE StartCatchUp
    BY <1>1, <1>5 DEF StartCatchUp, Idle, TypeOK
  <1>6. CASE ReadPage
    <2>1. PageStart \in Nat /\ Least(PageStart + PageSize, Len(stream)) \in Nat
      BY <1>1, DeliveryAssumption DEF TypeOK, PageStart, Greatest, Least
    <2>2. cursor' \in Nat /\ pageEnd' \in Nat /\ shortPage' \in BOOLEAN
      BY <1>6, <2>1 DEF ReadPage
    <2> QED BY <1>1, <1>6, <2>2 DEF ReadPage, TypeOK
  <1>7. CASE NextEntry
    <2>1. cursor' \in Nat /\ recovered' \in BOOLEAN /\ pc' \in {"page", "save"}
      BY <1>1, <1>7 DEF NextEntry, TypeOK
    <2> QED BY <1>1, <1>7, <2>1 DEF NextEntry, TypeOK
  <1>8. CASE NextPage
    BY <1>1, <1>8 DEF NextPage, TypeOK
  <1>9. CASE EndCatchUp
    <2>1. queue' \in Seq(Tasks)
      BY <1>1, <1>9, QueueShrinks DEF EndCatchUp
    <2>2. Ids(log) \subseteq Nat
      BY <1>1, IdsAreNat DEF TypeOK
    <2>3. announced' \subseteq Nat
      BY <1>1, <1>9, <2>2 DEF EndCatchUp, AnnouncedByResync, TypeOK
    <2>4. TypeOK'
      BY <1>1, <1>9, <2>1, <2>3 DEF EndCatchUp, TypeOK
    <2>5. Scheduling'
      BY <1>9 DEF EndCatchUp
    <2> QED BY <2>4, <2>5
  <1>10. CASE SaveProcessed
    <2>1. PICK n \in 0..MaxDerived : Added([k \in 1..n |-> "OTHER"])
      BY <1>10 DEF SaveProcessed
    <2>2. [k \in 1..n |-> "OTHER"] \in Seq(Kinds)
      <3>1. n \in Nat
        BY <2>1, DeliveryAssumption
      <3> QED BY <3>1 DEF Kinds
    <2>3. stream' \in Seq(Kinds) /\ trimmed' \in Nat
      BY <1>1, <2>1, <2>2, AddedTypes
    <2>4. Current \in Nat
      BY <1>1, <1>10, CurrentIsNat DEF SaveProcessed
    <2>5. checkpoint' \in Nat /\ log' \in Seq(Nat)
      BY <1>1, <1>10, <2>4 DEF SaveProcessed, TypeOK
    <2> QED BY <1>1, <1>10, <2>3, <2>5 DEF SaveProcessed, TypeOK
  <1>11. CASE FinishLive
    <2>1. queue' \in Seq(Tasks)
      BY <1>1, <1>11, QueueShrinks DEF FinishLive
    <2>2. Current \in Nat
      BY <1>1, <1>11, CurrentIsNat DEF FinishLive
    <2>3. announced' \subseteq Nat
      BY <1>1, <1>11, <2>2 DEF FinishLive, TypeOK
    <2>4. TypeOK'
      BY <1>1, <1>11, <2>1, <2>2, <2>3 DEF FinishLive, TypeOK
    <2>5. Scheduling'
      BY <1>11 DEF FinishLive
    <2> QED BY <2>4, <2>5
  <1>12. CASE FinishReplayed
    <2>1. Current \in Nat
      BY <1>1, <1>12, CurrentIsNat DEF FinishReplayed
    <2> QED BY <1>1, <1>12, <2>1 DEF FinishReplayed, TypeOK
  <1>13. CASE TaskFails
    <2>1. Current \in Nat /\ queue' \in Seq(Tasks)
      BY <1>1, <1>13, CurrentIsNat, QueueShrinks DEF TaskFails, FailureIsCaught
    <2>2. faults' \in [FaultKinds -> Nat]
      BY <1>1, <1>13, FaultTypes DEF TaskFails, FaultKinds
    <2>3. lost' \subseteq Nat /\ lastProcessedId' \in Nat
      BY <1>1, <1>13, <2>1 DEF TaskFails, PositionOnFailure, TypeOK
    <2>4. TypeOK'
      BY <1>1, <1>13, <2>1, <2>2, <2>3 DEF TaskFails, FailureIsCaught, TypeOK
    <2>5. Scheduling'
      BY <1>13 DEF TaskFails, FailureIsCaught
    <2> QED BY <2>4, <2>5
  <1>14. CASE Crash
    <2>1. faults' \in [FaultKinds -> Nat]
      BY <1>1, <1>14, FaultTypes DEF Crash, FaultKinds
    <2>2. Ids(wire) \subseteq Nat /\ QueuedIds \subseteq Nat
      BY <1>1, IdsAreNat, QueuedIdsAreNat DEF TypeOK
    <2>3. lost' \subseteq Nat
      BY <1>1, <1>14, <2>2 DEF Crash, TypeOK
    <2>4. wire' \in Seq(Nat) /\ queue' \in Seq(Tasks)
      BY <1>14 DEF Crash
    <2>5. TypeOK'
      BY <1>1, <1>14, <2>1, <2>3, <2>4 DEF Crash, TypeOK
    <2>6. Scheduling'
      BY <1>14 DEF Crash
    <2> QED BY <2>5, <2>6
  <1>15. CASE Restart
    BY <1>1, <1>15 DEF Restart, TypeOK
  <1> QED
    BY <1>2, <1>3, <1>4, <1>5, <1>6, <1>7, <1>8, <1>9, <1>10, <1>11, <1>12,
       <1>13, <1>14, <1>15 DEF Processor

(* The stuttering steps, and the specification as a whole.                 *)
LEMMA TypeInvNext == TypeInv /\ [Next]_vars => TypeInv'
  <1> SUFFICES ASSUME TypeInv, [Next]_vars PROVE TypeInv'
    OBVIOUS
  <1>1. CASE Publisher
    BY <1>1, TypeInvPublisher
  <1>2. CASE Subscriber
    BY <1>2, TypeInvSubscriber
  <1>3. CASE Processor
    BY <1>3, TypeInvProcessor
  <1>4. CASE UNCHANGED vars
    BY <1>4 DEF vars, TypeInv, TypeOK, Scheduling, Replaying
  <1> QED BY <1>1, <1>2, <1>3, <1>4 DEF Next

(* Every variable keeps its type, and the serial queue its schedule: only  *)
(* a running Processor has tasks, process() or catchUp() is never suspended *)
(* without its task at the head of the queue, and only a catch-up has a    *)
(* page under way.                                                         *)
THEOREM TypeCorrect == Spec => [](TypeOK /\ Scheduling)
  <1>1. Spec => []TypeInv
    BY TypeInvInit, TypeInvNext, PTL DEF Spec
  <1>2. TypeInv => TypeOK /\ Scheduling
    BY DEF TypeInv
  <1> QED BY <1>1, <1>2, PTL

------------------------------------------------------------------------------
(* What the pipeline carries is in the stream.                             *)

Sent(s, id) == id \in 1..Len(s) /\ s[id] # "OTHER"

KnownIds ==
  /\ unpublished # 0 => Sent(stream, unpublished)
  /\ \A k \in 1..Len(wire) : Sent(stream, wire[k])
  /\ \A k \in 1..Len(queue) :
       queue[k].kind = "live" => Sent(stream, queue[k].id)
  /\ pageEnd <= Len(stream)
  /\ pc = "save" => Current \in 1..Len(stream) /\ stream[Current] = "SENSOR"

(* The position of a running Processor is the checkpoint, except between   *)
(* the save and the line after it; what is about to be saved is newer than *)
(* the checkpoint, and nothing saved is.                                   *)
Position ==
  /\ phase # "down" /\ pc # "finish" => lastProcessedId = checkpoint
  /\ pc = "finish" => checkpoint = Current
  /\ pc = "save" => checkpoint < Current
  /\ \A k \in 1..Len(log) : log[k] <= checkpoint

IInv == TypeInv /\ KnownIds /\ Position /\ ProcessedInOrder

(* XADD leaves the entries it finds where they are.                        *)
LEMMA AddedKeeps ==
  ASSUME TypeOK, NEW entries \in Seq(Kinds), Added(entries)
  PROVE  /\ Len(stream') = Len(stream) + Len(entries)
         /\ \A id \in 1..Len(stream) : stream'[id] = stream[id]
         /\ \A id \in 1..Len(entries) : stream'[Len(stream) + id] = entries[id]
  BY DEF TypeOK, Added

LEMMA SentStays ==
  ASSUME TypeOK, NEW entries \in Seq(Kinds), Added(entries),
         NEW id, Sent(stream, id)
  PROVE  Sent(stream', id)
  <1>1. id \in 1..Len(stream) /\ stream[id] # "OTHER"
    BY DEF Sent
  <1>2. id \in 1..Len(stream') /\ stream'[id] = stream[id]
    BY <1>1, AddedKeeps DEF TypeOK
  <1> QED BY <1>1, <1>2 DEF Sent

(* Growth of the stream alone: what was sent, queued and read stays known. *)
LEMMA GrowthKeepsKnown ==
  ASSUME TypeInv, KnownIds, NEW entries \in Seq(Kinds), Added(entries),
         UNCHANGED <<wire, queue, pageEnd, cursor>>
  PROVE  /\ unpublished # 0 => Sent(stream', unpublished)
         /\ \A k \in 1..Len(wire') : Sent(stream', wire'[k])
         /\ \A k \in 1..Len(queue') :
              queue'[k].kind = "live" => Sent(stream', queue'[k].id)
         /\ pageEnd' <= Len(stream')
         /\ pc = "save" => /\ Current' \in 1..Len(stream')
                           /\ stream'[Current'] = "SENSOR"
  <1>1. TypeOK
    BY DEF TypeInv
  <1>2. \A id : Sent(stream, id) => Sent(stream', id)
    BY <1>1, SentStays
  <1>3. /\ Len(stream') = Len(stream) + Len(entries)
        /\ \A id \in 1..Len(stream) : stream'[id] = stream[id]
    BY <1>1, AddedKeeps
  <1>4. Len(stream) \in Nat /\ Len(entries) \in Nat /\ pageEnd \in Nat
    BY <1>1 DEF TypeOK
  <1>5. Current' = Current
    BY DEF Current, Replaying
  <1>6. unpublished # 0 => Sent(stream', unpublished)
    BY <1>2 DEF KnownIds
  <1>7. \A k \in 1..Len(wire') : Sent(stream', wire'[k])
    BY <1>2 DEF KnownIds
  <1>8. \A k \in 1..Len(queue') :
          queue'[k].kind = "live" => Sent(stream', queue'[k].id)
    BY <1>2 DEF KnownIds
  <1>9. pageEnd' <= Len(stream')
    BY <1>3, <1>4 DEF KnownIds
  <1>10. pc = "save" => Current' \in 1..Len(stream') /\ stream'[Current'] = "SENSOR"
    BY <1>3, <1>4, <1>5 DEF KnownIds
  <1> QED BY <1>6, <1>7, <1>8, <1>9, <1>10

(* An arrival at the end of the queue does not change the running task.    *)
LEMMA ArrivalKeepsCurrent ==
  ASSUME TypeInv, NEW e \in Tasks, queue' = Append(queue, e), cursor' = cursor,
         pc # "idle"
  PROVE  Current' = Current /\ Replaying' = Replaying
  <1>1. queue \in Seq(Tasks) /\ queue # <<>>
    BY DEF TypeInv, TypeOK, Scheduling
  <1>2. Head(queue') = Head(queue)
    BY <1>1, AppendKeepsHead
  <1> QED BY <1>2 DEF Current, Replaying

(* Nor does it bring a task with an unknown ID.                            *)
LEMMA ArrivalKeepsKnown ==
  ASSUME TypeInv, KnownIds, NEW e \in Tasks, e.kind = "live" => Sent(stream, e.id)
  PROVE  \A k \in 1..Len(Append(queue, e)) :
           Append(queue, e)[k].kind = "live" => Sent(stream, Append(queue, e)[k].id)
  <1>1. queue \in Seq(Tasks)
    BY DEF TypeInv, TypeOK
  <1> SUFFICES ASSUME NEW k \in 1..Len(Append(queue, e)),
                      Append(queue, e)[k].kind = "live"
               PROVE  Sent(stream, Append(queue, e)[k].id)
    OBVIOUS
  <1>2. CASE k \in 1..Len(queue)
    <2>1. Append(queue, e)[k] = queue[k]
      BY <1>1, <1>2
    <2> QED BY <1>2, <2>1 DEF KnownIds
  <1>3. CASE k = Len(queue) + 1
    <2>1. Append(queue, e)[k] = e
      BY <1>1, <1>3
    <2> QED BY <2>1
  <1> QED BY <1>1, <1>2, <1>3

LEMMA DepartureKeepsKnown ==
  ASSUME TypeInv, KnownIds, queue # <<>>
  PROVE  \A k \in 1..Len(Tail(queue)) :
           Tail(queue)[k].kind = "live" => Sent(stream, Tail(queue)[k].id)
  <1>1. queue \in Seq(Tasks)
    BY DEF TypeInv, TypeOK
  <1> SUFFICES ASSUME NEW k \in 1..Len(Tail(queue)), Tail(queue)[k].kind = "live"
               PROVE  Sent(stream, Tail(queue)[k].id)
    OBVIOUS
  <1>2. Tail(queue)[k] = queue[k + 1] /\ k + 1 \in 1..Len(queue)
    BY <1>1
  <1> QED BY <1>2 DEF KnownIds

LEMMA KnownIdsLink ==
  TypeInv /\ KnownIds /\ (Publisher \/ Subscriber) => KnownIds'
  <1> SUFFICES ASSUME TypeInv, KnownIds, Publisher \/ Subscriber PROVE KnownIds'
    OBVIOUS
  <1> USE DEF historyVars, redisVars, linkVars, catchUpVars
  <1>1. /\ stream \in Seq(Kinds) /\ wire \in Seq(Nat) /\ queue \in Seq(Tasks)
        /\ unpublished \in Nat
        /\ TypeOK
    BY DEF TypeInv, TypeOK
  <1>2. ASSUME NEW kind \in {"SENSOR", "FOREIGN"}, XaddSensor(kind)
        PROVE  KnownIds'
    <2>1. <<kind>> \in Seq(Kinds) /\ Added(<<kind>>)
      BY <1>2 DEF XaddSensor, Kinds
    <2>2. stream'[Len(stream) + 1] = kind /\ Len(stream') = Len(stream) + 1
      <3>1. Len(<<kind>>) = 1 /\ <<kind>>[1] = kind /\ 1 \in 1..Len(<<kind>>)
        OBVIOUS
      <3> QED BY <1>1, <2>1, <3>1, AddedKeeps
    <2>3. Sent(stream', unpublished')
      BY <1>1, <1>2, <2>2 DEF XaddSensor, Sent
    <2> QED BY <1>2, <2>1, <2>3, GrowthKeepsKnown DEF XaddSensor, KnownIds
  <1>3. CASE XaddSystem
    <2>1. <<"OTHER">> \in Seq(Kinds) /\ Added(<<"OTHER">>)
      BY <1>3 DEF XaddSystem, Kinds
    <2> QED BY <1>3, <2>1, GrowthKeepsKnown DEF XaddSystem, KnownIds
  <1>4. CASE Publish
    <2>1. Current' = Current
      BY <1>4 DEF Publish, Current, Replaying
    <2>2. \A k \in 1..Len(wire') : Sent(stream, wire'[k])
      <3>1. CASE wire' = Append(wire, unpublished)
        <4> SUFFICES ASSUME NEW k \in 1..Len(wire') PROVE Sent(stream, wire'[k])
          OBVIOUS
        <4>1. CASE k \in 1..Len(wire)
          BY <1>1, <3>1, <4>1 DEF KnownIds
        <4>2. CASE k = Len(wire) + 1
          BY <1>1, <1>4, <3>1, <4>2 DEF KnownIds, Publish
        <4> QED BY <1>1, <3>1, <4>1, <4>2
      <3>2. CASE wire' = wire
        BY <3>2 DEF KnownIds
      <3> QED BY <1>4, <3>1, <3>2 DEF Publish
    <2> QED BY <1>4, <2>1, <2>2 DEF Publish, KnownIds
  <1>5. CASE PublishFails
    BY <1>5 DEF PublishFails, KnownIds, Current, Replaying
  <1>6. CASE Ready
    <2>1. CatchUp \in Tasks /\ CatchUp.kind # "live"
      BY TasksAreTasks DEF CatchUp
    <2>2. \A k \in 1..Len(queue') :
            queue'[k].kind = "live" => Sent(stream, queue'[k].id)
      <3>1. CASE queue' = Append(queue, CatchUp)
        BY <2>1, <3>1, ArrivalKeepsKnown
      <3>2. CASE queue' = queue
        BY <3>2 DEF KnownIds
      <3> QED BY <1>6, <3>1, <3>2 DEF Ready
    <2>3. pc = "save" => Current' = Current
      <3>1. CASE queue' = Append(queue, CatchUp)
        BY <1>6, <2>1, <3>1, ArrivalKeepsCurrent DEF Ready
      <3>2. CASE queue' = queue
        BY <1>6, <3>2 DEF Ready, Current, Replaying
      <3> QED BY <1>6, <3>1, <3>2 DEF Ready
    <2> QED BY <1>6, <2>2, <2>3 DEF Ready, KnownIds
  <1>7. CASE Subscribed
    BY <1>7 DEF Subscribed, KnownIds, Current, Replaying
  <1>8. CASE StartFinishes
    <2>1. PICK n \in 0..Len(wire) :
            /\ queue' = Append([j \in 1..n |-> Live(wire[j])], CatchUp)
            /\ wire' = SubSeq(wire, n + 1, Len(wire))
      BY <1>8 DEF StartFinishes
    <2>2. \A k \in 1..Len(wire') : Sent(stream, wire'[k])
      <3> SUFFICES ASSUME NEW k \in 1..Len(wire') PROVE Sent(stream, wire'[k])
        OBVIOUS
      <3>1. wire'[k] = wire[n + k] /\ n + k \in 1..Len(wire)
        BY <1>1, <2>1
      <3> QED BY <3>1 DEF KnownIds
    <2>3. \A k \in 1..Len(queue') :
            queue'[k].kind = "live" => Sent(stream, queue'[k].id)
      <3> DEFINE first == [j \in 1..n |-> Live(wire[j])]
      <3>1. first \in Seq(Tasks) /\ Len(first) = n
        BY <1>1, TasksAreTasks
      <3> SUFFICES ASSUME NEW k \in 1..Len(queue'), queue'[k].kind = "live"
                   PROVE  Sent(stream, queue'[k].id)
        OBVIOUS
      <3>2. CASE k \in 1..n
        <4>1. queue'[k] = Live(wire[k]) /\ k \in 1..Len(wire)
          BY <1>1, <2>1, <3>1, <3>2
        <4> QED BY <4>1 DEF KnownIds, Live
      <3>3. CASE k = n + 1
        <4>1. queue'[k] = CatchUp
          BY <2>1, <3>1, <3>3
        <4> QED BY <4>1 DEF CatchUp
      <3>4. k \in 1..n \/ k = n + 1
        BY <2>1, <3>1
      <3> QED BY <3>2, <3>3, <3>4
    <2>4. pc = "idle"
      BY <1>8 DEF StartFinishes, TypeInv, Scheduling
    <2> QED BY <1>8, <2>2, <2>3, <2>4 DEF StartFinishes, KnownIds
  <1>9. CASE OnMessage
    <2>1. /\ wire # <<>>
          /\ queue' = Append(queue, Live(Head(wire)))
          /\ wire' = Tail(wire)
      BY <1>9 DEF OnMessage
    <2>2. Head(wire) = wire[1] /\ 1 \in 1..Len(wire) /\ Head(wire) \in Nat
      BY <1>1, <2>1
    <2>3. /\ Live(Head(wire)) \in Tasks
          /\ Live(Head(wire)).kind = "live" => Sent(stream, Live(Head(wire)).id)
      BY <2>2, TasksAreTasks DEF KnownIds, Live
    <2>4. \A k \in 1..Len(queue') :
            queue'[k].kind = "live" => Sent(stream, queue'[k].id)
      BY <2>1, <2>3, ArrivalKeepsKnown
    <2>5. \A k \in 1..Len(wire') : Sent(stream, wire'[k])
      <3> SUFFICES ASSUME NEW k \in 1..Len(wire') PROVE Sent(stream, wire'[k])
        OBVIOUS
      <3>1. wire'[k] = wire[k + 1] /\ k + 1 \in 1..Len(wire)
        BY <1>1, <2>1
      <3> QED BY <3>1 DEF KnownIds
    <2>6. pc = "save" => Current' = Current
      BY <1>9, <2>1, <2>3, ArrivalKeepsCurrent DEF OnMessage
    <2> QED BY <1>9, <2>4, <2>5, <2>6 DEF OnMessage, KnownIds
  <1>10. CASE Disconnect
    <2>1. Current' = Current
      BY <1>10 DEF Disconnect, Current, Replaying
    <2> QED BY <1>10, <2>1 DEF Disconnect, KnownIds
  <1> QED
    BY <1>2, <1>3, <1>4, <1>5, <1>6, <1>7, <1>8, <1>9, <1>10
    DEF Publisher, Subscriber

LEMMA KnownIdsProcessor ==
  TypeInv /\ KnownIds /\ Processor => KnownIds'
  <1> SUFFICES ASSUME TypeInv, KnownIds, Processor PROVE KnownIds'
    OBVIOUS
  <1> USE DEF historyVars, redisVars, linkVars, catchUpVars
  <1>1. /\ stream \in Seq(Kinds) /\ wire \in Seq(Nat) /\ queue \in Seq(Tasks)
        /\ cursor \in Nat /\ pageEnd \in Nat /\ trimmed \in Nat
        /\ TypeOK
    BY DEF TypeInv, TypeOK
  <1>2. queue # <<>> =>
          \A k \in 1..Len(Tail(queue)) :
            Tail(queue)[k].kind = "live" => Sent(stream, Tail(queue)[k].id)
    BY DepartureKeepsKnown
  <1>3. pc # "idle" => queue # <<>>
    BY DEF TypeInv, Scheduling
  <1>4. CASE StartLive
    <2>1. /\ Head(queue) = queue[1] /\ 1 \in 1..Len(queue)
          /\ queue[1].kind \in {"live", "catchUp"}
      <3>1. Head(queue) = queue[1] /\ 1 \in 1..Len(queue) /\ queue[1] \in Tasks
        BY <1>1, <1>4 DEF StartLive, Idle
      <3> QED BY <3>1 DEF Tasks
    <2>2. Sent(stream, Head(queue).id) /\ stream[Head(queue).id] # "FOREIGN"
      BY <1>4, <2>1 DEF StartLive, Replaying, Skipped, KnownIds
    <2>3. Current = Head(queue).id
      BY <1>4 DEF StartLive, Current
    <2>4. Current \in 1..Len(stream) /\ stream[Current] = "SENSOR"
      BY <1>1, <2>2, <2>3 DEF Sent, Kinds
    <2>5. Current' = Current
      BY <1>4 DEF StartLive, Current, Replaying
    <2> QED BY <1>4, <2>4, <2>5 DEF StartLive, KnownIds
  <1>5. CASE DropLive
    BY <1>2, <1>5 DEF DropLive, Idle, KnownIds
  <1>6. CASE SkipCatchUp
    BY <1>2, <1>6 DEF SkipCatchUp, Idle, KnownIds
  <1>7. CASE StartCatchUp
    BY <1>7 DEF StartCatchUp, KnownIds
  <1>8. CASE ReadPage
    <2>1. pageEnd' <= Len(stream)
      BY <1>1, <1>8, DeliveryAssumption DEF ReadPage, Least, PageStart, Greatest
    <2> QED BY <1>8, <2>1 DEF ReadPage, KnownIds
  <1>9. CASE NextEntry
    <2>1. Replaying /\ Replaying'
      BY <1>9 DEF NextEntry, TypeInv, Scheduling, Replaying
    <2>2. Current' = cursor + 1
      BY <1>9, <2>1 DEF NextEntry, Current
    <2>3. cursor + 1 \in 1..Len(stream)
      BY <1>1, <1>9 DEF NextEntry, KnownIds
    <2>4. pc' = "save" => stream[cursor + 1] = "SENSOR"
      BY <1>1, <1>9, <2>3 DEF NextEntry, Skipped, Kinds
    <2> QED BY <1>9, <2>2, <2>3, <2>4 DEF NextEntry, KnownIds
  <1>10. CASE NextPage
    BY <1>10 DEF NextPage, KnownIds
  <1>11. CASE EndCatchUp
    BY <1>1, <1>2, <1>3, <1>11 DEF EndCatchUp, KnownIds
  <1>12. CASE SaveProcessed
    <2>1. PICK n \in 0..MaxDerived : Added([k \in 1..n |-> "OTHER"])
      BY <1>12 DEF SaveProcessed
    <2>2. [k \in 1..n |-> "OTHER"] \in Seq(Kinds)
      <3>1. n \in Nat
        BY <2>1, DeliveryAssumption
      <3> QED BY <3>1 DEF Kinds
    <2> QED BY <1>12, <2>1, <2>2, GrowthKeepsKnown DEF SaveProcessed, KnownIds
  <1>13. CASE FinishLive
    BY <1>2, <1>3, <1>13 DEF FinishLive, KnownIds
  <1>14. CASE FinishReplayed
    BY <1>14 DEF FinishReplayed, KnownIds
  <1>15. CASE TaskFails
    BY <1>1, <1>2, <1>3, <1>15 DEF TaskFails, FailureIsCaught, KnownIds
  <1>16. CASE Crash
    BY <1>1, <1>16 DEF Crash, KnownIds
  <1>17. CASE Restart
    <2>1. Current' = Current
      BY <1>17 DEF Restart, Current, Replaying
    <2> QED BY <1>17, <2>1 DEF Restart, KnownIds
  <1> QED
    BY <1>4, <1>5, <1>6, <1>7, <1>8, <1>9, <1>10, <1>11, <1>12, <1>13, <1>14,
       <1>15, <1>16, <1>17 DEF Processor

------------------------------------------------------------------------------
(* The order of processing.                                                *)

LEMMA PositionLink ==
  TypeInv /\ Position /\ (Publisher \/ Subscriber) => Position'
  <1> SUFFICES ASSUME TypeInv, Position, Publisher \/ Subscriber PROVE Position'
    OBVIOUS
  <1> USE DEF historyVars, redisVars, linkVars, catchUpVars
  <1>1. UNCHANGED <<pc, lastProcessedId, checkpoint, log>>
    BY DEF Publisher, Subscriber, XaddSensor, XaddSystem, Publish, PublishFails,
           Ready, Subscribed, StartFinishes, OnMessage, Disconnect
  <1>2. phase = "down" => phase' = "down"
    BY DEF Publisher, Subscriber, XaddSensor, XaddSystem, Publish, PublishFails,
           Ready, Subscribed, StartFinishes, OnMessage, Disconnect
  <1>3. pc # "idle" => Current' = Current
    <2>1. CASE UNCHANGED <<queue, cursor>>
      BY <2>1 DEF Current, Replaying
    <2>2. CASE Ready
      <3>1. CatchUp \in Tasks /\ cursor' = cursor
        BY <2>2, TasksAreTasks DEF Ready
      <3> QED BY <2>1, <2>2, <3>1, ArrivalKeepsCurrent DEF Ready
    <2>3. CASE StartFinishes
      BY <2>3 DEF StartFinishes, TypeInv, Scheduling
    <2>4. CASE OnMessage
      <3>1. Head(wire) \in Nat
        BY <2>4, TailOfTasks DEF OnMessage, TypeInv, TypeOK
      <3>2. Live(Head(wire)) \in Tasks /\ cursor' = cursor
        BY <2>4, <3>1, TasksAreTasks DEF OnMessage
      <3> QED BY <2>4, <3>2, ArrivalKeepsCurrent DEF OnMessage
    <2> QED
      BY <2>1, <2>2, <2>3, <2>4
      DEF Publisher, Subscriber, XaddSensor, XaddSystem, Publish, PublishFails,
          Subscribed, Disconnect
  <1> QED BY <1>1, <1>2, <1>3 DEF Position

LEMMA PositionProcessor ==
  TypeInv /\ Position /\ ProcessedInOrder /\ Processor
    => Position' /\ ProcessedInOrder'
  <1> SUFFICES ASSUME TypeInv, Position, ProcessedInOrder, Processor
               PROVE  Position' /\ ProcessedInOrder'
    OBVIOUS
  <1> USE DEF historyVars, redisVars, linkVars, catchUpVars
  <1>1. /\ log \in Seq(Nat) /\ cursor \in Nat /\ lastProcessedId \in Nat
        /\ checkpoint \in Nat
        /\ TypeOK
    BY DEF TypeInv, TypeOK
  <1>2. pc # "idle" => phase = "running" /\ queue # <<>>
    BY DEF TypeInv, Scheduling
  <1>3. queue # <<>> => phase = "running"
    BY DEF TypeInv, Scheduling
  <1>4. pc # "idle" => Current \in Nat
    BY <1>1, <1>2, CurrentIsNat
  <1>5. CASE SaveProcessed
    <2>1. /\ checkpoint < Current /\ Current \in Nat
          /\ checkpoint' = Current /\ log' = Append(log, Current)
          /\ pc' = "finish" /\ Current' = Current
      BY <1>4, <1>5 DEF SaveProcessed, Position, Current, Replaying
    <2>2. /\ Len(log') = Len(log) + 1
          /\ \A k \in 1..Len(log) : log'[k] = log[k] /\ log[k] \in Nat
          /\ log'[Len(log) + 1] = Current
      BY <1>1, <2>1
    <2>3. \A k \in 1..Len(log) : log'[k] <= checkpoint
      BY <2>2 DEF Position
    <2>4. \A k \in 1..Len(log') : log'[k] <= checkpoint'
      BY <1>1, <2>1, <2>2, <2>3
    <2>5. ProcessedInOrder'
      <3> SUFFICES ASSUME NEW j \in 1..Len(log'), NEW k \in 1..Len(log'), j < k
                   PROVE  log'[j] < log'[k]
        BY DEF ProcessedInOrder
      <3>1. CASE k \in 1..Len(log)
        BY <1>1, <2>2, <3>1 DEF ProcessedInOrder
      <3>2. CASE k = Len(log) + 1
        BY <1>1, <2>1, <2>2, <2>3, <3>2
      <3> QED BY <1>1, <2>2, <3>1, <3>2
    <2> QED BY <2>1, <2>4, <2>5 DEF Position
  <1>6. ASSUME UNCHANGED <<log, checkpoint>>
        PROVE  /\ ProcessedInOrder'
               /\ \A k \in 1..Len(log') : log'[k] <= checkpoint'
    BY <1>6 DEF ProcessedInOrder, Position
  <1>7. CASE StartLive
    <2>1. Current' = Current /\ lastProcessedId = checkpoint /\ lastProcessedId < Current
      <3>1. Head(queue) \in Tasks
        BY <1>7, TailOfTasks DEF StartLive, Idle, TypeInv, TypeOK
      <3> QED BY <1>1, <1>3, <1>7, <3>1
              DEF StartLive, Idle, Current, Replaying, Skipped, Position, Tasks
    <2> QED BY <1>6, <1>7, <2>1 DEF StartLive, Position
  <1>8. CASE DropLive
    BY <1>6, <1>8 DEF DropLive, Idle, Position
  <1>9. CASE SkipCatchUp
    BY <1>6, <1>9 DEF SkipCatchUp, Idle, Position
  <1>10. CASE StartCatchUp
    BY <1>6, <1>10 DEF StartCatchUp, Idle, Position
  <1>11. CASE ReadPage
    BY <1>6, <1>11 DEF ReadPage, Position
  <1>12. CASE NextEntry
    <2>1. Current' = cursor + 1
      BY <1>12 DEF NextEntry, Current, Replaying, TypeInv, Scheduling
    <2>2. pc' \in {"page", "save"} /\ (pc' = "save" => lastProcessedId < cursor + 1)
      BY <1>1, <1>12 DEF NextEntry, Skipped
    <2> QED BY <1>2, <1>6, <1>12, <2>1, <2>2 DEF NextEntry, Position
  <1>13. CASE NextPage
    BY <1>6, <1>13 DEF NextPage, Position
  <1>14. CASE EndCatchUp
    BY <1>6, <1>14 DEF EndCatchUp, Position
  <1>15. CASE FinishLive
    BY <1>6, <1>15 DEF FinishLive, Position
  <1>16. CASE FinishReplayed
    BY <1>6, <1>16 DEF FinishReplayed, Position
  <1>17. CASE TaskFails
    BY <1>2, <1>6, <1>17 DEF TaskFails, FailureIsCaught, PositionOnFailure, Position
  <1>18. CASE Crash
    BY <1>6, <1>18 DEF Crash, Position
  <1>19. CASE Restart
    <2>1. pc = "idle"
      BY <1>19 DEF Restart, TypeInv, Scheduling
    <2> QED BY <1>6, <1>19, <2>1 DEF Restart, Position
  <1> QED
    BY <1>5, <1>7, <1>8, <1>9, <1>10, <1>11, <1>12, <1>13, <1>14, <1>15, <1>16,
       <1>17, <1>18, <1>19 DEF Processor

LEMMA IInvInit == Init => IInv
  <1> SUFFICES ASSUME Init PROVE IInv
    OBVIOUS
  <1>1. TypeInv
    BY TypeInvInit
  <1>2. KnownIds
    BY DEF Init, KnownIds
  <1>3. Position /\ ProcessedInOrder
    BY DEF Init, Position, ProcessedInOrder
  <1> QED BY <1>1, <1>2, <1>3 DEF IInv

LEMMA IInvNext == IInv /\ [Next]_vars => IInv'
  <1> SUFFICES ASSUME IInv, [Next]_vars PROVE IInv'
    OBVIOUS
  <1>1. TypeInv /\ KnownIds /\ Position /\ ProcessedInOrder
    BY DEF IInv
  <1>2. TypeInv'
    BY <1>1, TypeInvNext
  <1>3. CASE Publisher \/ Subscriber
    <2>1. KnownIds' /\ Position'
      BY <1>1, <1>3, KnownIdsLink, PositionLink
    <2>2. log' = log
      BY <1>3 DEF Publisher, Subscriber, XaddSensor, XaddSystem, Publish,
           PublishFails, Ready, Subscribed, StartFinishes, OnMessage, Disconnect,
           historyVars
    <2>3. ProcessedInOrder'
      BY <1>1, <2>2 DEF ProcessedInOrder
    <2> QED BY <1>2, <2>1, <2>3 DEF IInv
  <1>4. CASE Processor
    BY <1>1, <1>2, <1>4, KnownIdsProcessor, PositionProcessor DEF IInv
  <1>5. CASE UNCHANGED vars
    BY <1>1, <1>2, <1>5
    DEF vars, IInv, KnownIds, Position, ProcessedInOrder, Current, Replaying
  <1> QED BY <1>3, <1>4, <1>5 DEF Next

LEMMA IInvAlways == Spec => []IInv
  BY IInvInit, IInvNext, PTL DEF Spec

(* Whatever arrives twice, late or after a crash, no event is counted      *)
(* twice or out of order: for any stream, page size and number of faults.  *)
THEOREM ProcessedInOrderAlways == Spec => []ProcessedInOrder
  <1>1. IInv => ProcessedInOrder
    BY DEF IInv
  <1> QED BY <1>1, IInvAlways, PTL

------------------------------------------------------------------------------
(* What becomes of an event between the stream and the zone.               *)

(* Live messages come in the order of the stream: those queued before      *)
(* those on the wire, those before the one that is not published yet.      *)
InOrder ==
  /\ \A j, k \in 1..Len(queue) :
       j < k /\ queue[j].kind = "live" /\ queue[k].kind = "live"
         => queue[j].id < queue[k].id
  /\ \A j, k \in 1..Len(wire) : j < k => wire[j] < wire[k]
  /\ \A j \in 1..Len(queue), k \in 1..Len(wire) :
       queue[j].kind = "live" => queue[j].id < wire[k]
  /\ unpublished # 0 =>
       /\ \A k \in 1..Len(wire) : wire[k] < unpublished
       /\ \A k \in 1..Len(queue) : queue[k].kind = "live" => queue[k].id < unpublished

(* Positions are in the stream, the cursor on the page that was read.      *)
InStream ==
  /\ checkpoint <= Len(stream) /\ trimmed <= Len(stream) /\ cursor <= Len(stream)
  /\ pc \notin {"idle", "read"} /\ Replaying => cursor <= pageEnd

(* A sensor event after the checkpoint was lost or is still on its way.    *)
OnItsWay == {unpublished} \cup Ids(wire) \cup QueuedIds

Accounted == \A id \in SensorIds : checkpoint < id => id \in OnItsWay \cup lost

(* A catch-up saves nothing before its cursor.                             *)
Advancing ==
  pc # "idle" /\ Replaying => from <= lastProcessedId /\ lastProcessedId <= cursor

LEMMA QueuedIdIs ==
  ASSUME TypeOK, NEW id
  PROVE  id \in QueuedIds <=>
           \E k \in 1..Len(queue) : queue[k].kind = "live" /\ queue[k].id = id
  <1>1. DOMAIN queue = 1..Len(queue)
    BY DEF TypeOK
  <1> QED BY <1>1 DEF QueuedIds

(* What the steps leave alone of what InOrder is about.                    *)
LEMMA InOrderLink ==
  ASSUME TypeInv, KnownIds, InOrder, Publisher \/ Subscriber
  PROVE  InOrder'
  <1> USE DEF historyVars, redisVars, linkVars, catchUpVars
  <1>1. /\ stream \in Seq(Kinds) /\ wire \in Seq(Nat) /\ queue \in Seq(Tasks)
        /\ unpublished \in Nat
        /\ TypeOK
    BY DEF TypeInv, TypeOK
  <1>2. ASSUME NEW kind \in {"SENSOR", "FOREIGN"}, XaddSensor(kind)
        PROVE  InOrder'
    <2>1. /\ \A k \in 1..Len(wire) : wire[k] \in 1..Len(stream)
          /\ \A k \in 1..Len(queue) : queue[k].kind = "live" => queue[k].id \in 1..Len(stream)
      BY DEF KnownIds, Sent
    <2>2. unpublished' = Len(stream) + 1 /\ queue' = queue /\ wire' = wire
      BY <1>2 DEF XaddSensor
    <2>3. \A n \in 1..Len(stream) : n < unpublished'
      BY <1>1, <2>2
    <2>4. /\ \A k \in 1..Len(wire) : wire[k] < unpublished'
          /\ \A k \in 1..Len(queue) : queue[k].kind = "live" => queue[k].id < unpublished'
      BY <2>1, <2>3
    <2> QED BY <2>2, <2>4 DEF InOrder
  <1>3. CASE XaddSystem
    BY <1>3 DEF XaddSystem, InOrder
  <1>4. CASE Publish
    <2>1. unpublished' = 0 /\ queue' = queue
      BY <1>4 DEF Publish
    <2>2. CASE wire' = wire
      BY <2>1, <2>2 DEF InOrder
    <2>3. CASE wire' = Append(wire, unpublished)
      <3>1. /\ Len(wire') = Len(wire) + 1
            /\ \A k \in 1..Len(wire) : wire'[k] = wire[k]
            /\ wire'[Len(wire) + 1] = unpublished
        BY <1>1, <2>3
      <3>2. \A k \in 1..Len(wire') : k \in 1..Len(wire) \/ k = Len(wire) + 1
        BY <1>1, <3>1
      <3>3. \A k \in 1..Len(wire) : wire[k] < unpublished
        BY <1>4 DEF Publish, InOrder
      <3>4. \A j, k \in 1..Len(wire') : j < k => wire'[j] < wire'[k]
        <4> SUFFICES ASSUME NEW j \in 1..Len(wire'), NEW k \in 1..Len(wire'), j < k
                     PROVE  wire'[j] < wire'[k]
          OBVIOUS
        <4>1. j \in 1..Len(wire)
          BY <1>1, <3>1
        <4> QED BY <3>1, <3>2, <3>3, <4>1 DEF InOrder
      <3>5. \A j \in 1..Len(queue), k \in 1..Len(wire') :
              queue[j].kind = "live" => queue[j].id < wire'[k]
        BY <1>4, <3>1, <3>2 DEF InOrder, Publish
      <3> QED BY <2>1, <3>4, <3>5 DEF InOrder
    <2> QED BY <1>4, <2>2, <2>3 DEF Publish
  <1>5. CASE PublishFails
    BY <1>5 DEF PublishFails, InOrder
  <1>6. CASE Ready
    <2>1. wire' = wire /\ unpublished' = unpublished
      BY <1>6 DEF Ready
    <2>2. CASE queue' = queue
      BY <2>1, <2>2 DEF InOrder
    <2>3. CASE queue' = Append(queue, CatchUp)
      <3>1. \A k \in 1..Len(queue') :
              queue'[k].kind = "live" => k \in 1..Len(queue) /\ queue'[k] = queue[k]
        <4> SUFFICES ASSUME NEW k \in 1..Len(queue'), queue'[k].kind = "live"
                     PROVE  k \in 1..Len(queue) /\ queue'[k] = queue[k]
          OBVIOUS
        <4>1. k \in 1..Len(queue) \/ k = Len(queue) + 1
          BY <1>1, <2>3
        <4>2. k # Len(queue) + 1
          BY <1>1, <2>3 DEF CatchUp
        <4> QED BY <1>1, <2>3, <4>1, <4>2
      <3> QED BY <2>1, <3>1 DEF InOrder
    <2> QED BY <1>6, <2>2, <2>3 DEF Ready
  <1>7. CASE Subscribed
    BY <1>7 DEF Subscribed, InOrder
  <1>8. CASE StartFinishes
    <2>1. PICK n \in 0..Len(wire) :
            /\ queue' = Append([j \in 1..n |-> Live(wire[j])], CatchUp)
            /\ wire' = SubSeq(wire, n + 1, Len(wire))
      BY <1>8 DEF StartFinishes
    <2>2. /\ \A k \in 1..Len(wire') : wire'[k] = wire[n + k] /\ n + k \in 1..Len(wire)
          /\ Len(wire') = Len(wire) - n
      BY <1>1, <2>1
    <2>3. \A k \in 1..Len(queue') :
            queue'[k].kind = "live" =>
              k \in 1..n /\ k \in 1..Len(wire) /\ queue'[k].id = wire[k]
      <3> DEFINE first == [j \in 1..n |-> Live(wire[j])]
      <3>1. first \in Seq(Tasks) /\ Len(first) = n
        BY <1>1, TasksAreTasks
      <3> SUFFICES ASSUME NEW k \in 1..Len(queue'), queue'[k].kind = "live"
                   PROVE  k \in 1..n /\ k \in 1..Len(wire) /\ queue'[k].id = wire[k]
        OBVIOUS
      <3>2. k \in 1..n \/ k = n + 1
        BY <2>1, <3>1
      <3>3. k # n + 1
        BY <2>1, <3>1 DEF CatchUp
      <3>4. queue'[k] = Live(wire[k])
        BY <2>1, <3>1, <3>2, <3>3
      <3> QED BY <1>1, <3>2, <3>3, <3>4 DEF Live
    <2>4. \A j, k \in 1..Len(wire) : j < k => wire[j] < wire[k]
      BY DEF InOrder
    <2>5. n \in Nat /\ Len(wire) \in Nat /\ Len(queue') \in Nat
      BY <1>1, <2>1
    <2>6. \A j, k \in 1..Len(wire') : j < k => wire'[j] < wire'[k]
      <3> SUFFICES ASSUME NEW j \in 1..Len(wire'), NEW k \in 1..Len(wire'), j < k
                   PROVE  wire'[j] < wire'[k]
        OBVIOUS
      <3>1. n + j < n + k
        BY <2>5
      <3> QED BY <2>2, <2>4, <3>1
    <2>7. \A j \in 1..Len(queue'), k \in 1..Len(wire') :
            queue'[j].kind = "live" => queue'[j].id < wire'[k]
      <3> SUFFICES ASSUME NEW j \in 1..Len(queue'), NEW k \in 1..Len(wire'),
                          queue'[j].kind = "live"
                   PROVE  queue'[j].id < wire'[k]
        OBVIOUS
      <3>1. j \in 1..n /\ j \in 1..Len(wire) /\ queue'[j].id = wire[j]
        BY <2>3
      <3>2. j < n + k /\ n + k \in 1..Len(wire)
        BY <2>2, <2>5, <3>1
      <3> QED BY <2>2, <2>4, <3>1, <3>2
    <2> QED BY <1>8, <2>2, <2>3, <2>4, <2>6, <2>7 DEF StartFinishes, InOrder
  <1>9. CASE OnMessage
    <2>1. /\ wire # <<>> /\ unpublished' = unpublished
          /\ queue' = Append(queue, Live(Head(wire)))
          /\ wire' = Tail(wire)
      BY <1>9 DEF OnMessage
    <2>2. Head(wire) = wire[1] /\ 1 \in 1..Len(wire) /\ Live(Head(wire)) \in Tasks
      BY <1>1, <2>1, TasksAreTasks
    <2>3. \A k \in 1..Len(wire') :
            /\ wire'[k] = wire[k + 1] /\ k + 1 \in 1..Len(wire)
            /\ wire[1] < wire[k + 1]
      BY <1>1, <2>1, <2>2 DEF InOrder
    <2>4. /\ Len(queue') = Len(queue) + 1 /\ Len(queue) \in Nat
          /\ \A k \in 1..Len(queue) : queue'[k] = queue[k]
          /\ queue'[Len(queue) + 1].id = wire[1]
      BY <1>1, <2>1, <2>2 DEF Live
    <2>5. \A k \in 1..Len(queue') : k \in 1..Len(queue) \/ k = Len(queue) + 1
      BY <2>4
    <2>6. \A j, k \in 1..Len(queue') :
            j < k /\ queue'[j].kind = "live" /\ queue'[k].kind = "live"
              => queue'[j].id < queue'[k].id
      <3> SUFFICES ASSUME NEW j \in 1..Len(queue'), NEW k \in 1..Len(queue'), j < k,
                          queue'[j].kind = "live", queue'[k].kind = "live"
                   PROVE  queue'[j].id < queue'[k].id
        OBVIOUS
      <3>1. j \in 1..Len(queue)
        BY <1>1, <2>4
      <3> QED BY <2>2, <2>4, <2>5, <3>1 DEF InOrder
    <2>7. \A j, k \in 1..Len(wire') : j < k => wire'[j] < wire'[k]
      <3> SUFFICES ASSUME NEW j \in 1..Len(wire'), NEW k \in 1..Len(wire'), j < k
                   PROVE  wire'[j] < wire'[k]
        OBVIOUS
      <3>1. j + 1 < k + 1
        BY <1>1, <2>1
      <3> QED BY <2>3, <3>1 DEF InOrder
    <2>8. \A j \in 1..Len(queue'), k \in 1..Len(wire') :
            queue'[j].kind = "live" => queue'[j].id < wire'[k]
      BY <2>3, <2>4, <2>5 DEF InOrder
    <2>9. unpublished' # 0 =>
            /\ \A k \in 1..Len(wire') : wire'[k] < unpublished'
            /\ \A k \in 1..Len(queue') :
                 queue'[k].kind = "live" => queue'[k].id < unpublished'
      BY <2>1, <2>2, <2>3, <2>4, <2>5 DEF InOrder
    <2> QED BY <2>6, <2>7, <2>8, <2>9 DEF InOrder
  <1>10. CASE Disconnect
    BY <1>10 DEF Disconnect, InOrder
  <1> QED
    BY <1>2, <1>3, <1>4, <1>5, <1>6, <1>7, <1>8, <1>9, <1>10 DEF Publisher, Subscriber

(* What a task that ends takes off the queue, and leaves in it.            *)
LEMMA TailInOrder ==
  ASSUME TypeInv, InOrder, queue # <<>>, queue' = Tail(queue),
         wire' = wire, unpublished' = unpublished
  PROVE  InOrder'
  <1>1. queue \in Seq(Tasks)
    BY DEF TypeInv, TypeOK
  <1>2. /\ Len(queue') = Len(queue) - 1
        /\ \A k \in 1..Len(queue') : queue'[k] = queue[k + 1] /\ k + 1 \in 1..Len(queue)
    BY <1>1
  <1>3. \A j, k \in 1..Len(queue') : j < k => j + 1 < k + 1
    BY <1>1
  <1> QED BY <1>2, <1>3 DEF InOrder

LEMMA InOrderProcessor ==
  ASSUME TypeInv, InOrder, Processor
  PROVE  InOrder'
  <1> USE DEF historyVars, redisVars, linkVars, catchUpVars
  <1>1. pc # "idle" => queue # <<>>
    BY DEF TypeInv, Scheduling
  <1>2. CASE DropLive \/ SkipCatchUp \/ EndCatchUp \/ FinishLive \/ TaskFails
    <2>1. queue # <<>> /\ queue' = Tail(queue) /\ wire' = wire /\ unpublished' = unpublished
      BY <1>1, <1>2
      DEF DropLive, SkipCatchUp, EndCatchUp, FinishLive, TaskFails, FailureIsCaught, Idle
    <2> QED BY <2>1, TailInOrder
  <1>3. CASE Crash
    BY <1>3 DEF Crash, InOrder
  <1>4. CASE \/ StartLive \/ StartCatchUp \/ ReadPage \/ NextEntry \/ NextPage
             \/ SaveProcessed \/ FinishReplayed \/ Restart
    <2>1. UNCHANGED <<queue, wire, unpublished>>
      BY <1>4
      DEF StartLive, StartCatchUp, ReadPage, NextEntry, NextPage, SaveProcessed,
          FinishReplayed, Restart
    <2> QED BY <2>1 DEF InOrder
  <1> QED BY <1>2, <1>3, <1>4 DEF Processor

(* Nothing that happens outside moves the running task.                    *)
LEMMA LinkKeepsTask ==
  ASSUME TypeInv, Publisher \/ Subscriber
  PROVE  /\ UNCHANGED <<checkpoint, log, pc, lastProcessedId, catchUpVars, announced>>
         /\ pc # "idle" => Current' = Current /\ Replaying' = Replaying
  <1> USE DEF historyVars, redisVars, linkVars, catchUpVars
  <1>1. UNCHANGED <<checkpoint, log, pc, lastProcessedId, catchUpVars, announced>>
    BY DEF Publisher, Subscriber, XaddSensor, XaddSystem, Publish, PublishFails,
           Ready, Subscribed, StartFinishes, OnMessage, Disconnect
  <1>2. pc # "idle" => Current' = Current /\ Replaying' = Replaying
    <2>1. CASE UNCHANGED <<queue, cursor>>
      BY <2>1 DEF Current, Replaying
    <2>2. CASE Ready
      <3>1. CatchUp \in Tasks /\ cursor' = cursor
        BY <2>2, TasksAreTasks DEF Ready
      <3> QED BY <2>1, <2>2, <3>1, ArrivalKeepsCurrent DEF Ready
    <2>3. CASE StartFinishes
      BY <2>3 DEF StartFinishes, TypeInv, Scheduling
    <2>4. CASE OnMessage
      <3>1. Head(wire) \in Nat
        BY <2>4, TailOfTasks DEF OnMessage, TypeInv, TypeOK
      <3>2. Live(Head(wire)) \in Tasks /\ cursor' = cursor
        BY <2>4, <3>1, TasksAreTasks DEF OnMessage
      <3> QED BY <2>4, <3>2, ArrivalKeepsCurrent DEF OnMessage
    <2> QED
      BY <2>1, <2>2, <2>3, <2>4
      DEF Publisher, Subscriber, XaddSensor, XaddSystem, Publish, PublishFails,
          Subscribed, Disconnect
  <1> QED BY <1>1, <1>2

(* Positions only move to entries that are in the stream.                  *)
LEMMA InStreamStep ==
  ASSUME TypeInv, KnownIds, Position, InStream, Next
  PROVE  InStream'
  <1> USE DEF historyVars, redisVars, linkVars, catchUpVars
  <1>1. /\ stream \in Seq(Kinds) /\ Len(stream) \in Nat
        /\ checkpoint \in Nat /\ trimmed \in Nat /\ cursor \in Nat /\ pageEnd \in Nat
        /\ TypeOK
    BY DEF TypeInv, TypeOK
  <1>2. ASSUME NEW entries \in Seq(Kinds), Added(entries)
        PROVE  Len(stream) <= Len(stream') /\ Len(stream') \in Nat /\ trimmed' <= Len(stream')
    <2>1. Len(stream') = Len(stream) + Len(entries) /\ Len(entries) \in Nat
      BY <1>1, <1>2, AddedKeeps
    <2> QED BY <1>1, <1>2, <2>1, DeliveryAssumption DEF Added, InStream
  <1>3. ASSUME NEW kind \in {"SENSOR", "FOREIGN"}, XaddSensor(kind)
        PROVE  InStream'
    <2>1. <<kind>> \in Seq(Kinds) /\ Added(<<kind>>)
      BY <1>3 DEF XaddSensor, Kinds
    <2>2. Publisher
      BY <1>3 DEF Publisher
    <2>3. Len(stream) <= Len(stream') /\ Len(stream') \in Nat /\ trimmed' <= Len(stream')
      BY <1>2, <2>1
    <2> QED BY <1>1, <2>2, <2>3, LinkKeepsTask DEF InStream
  <1>4. CASE XaddSystem
    <2>1. <<"OTHER">> \in Seq(Kinds) /\ Added(<<"OTHER">>)
      BY <1>4 DEF XaddSystem, Kinds
    <2>2. Publisher
      BY <1>4 DEF Publisher
    <2>3. Len(stream) <= Len(stream') /\ Len(stream') \in Nat /\ trimmed' <= Len(stream')
      BY <1>2, <2>1
    <2> QED BY <1>1, <2>2, <2>3, LinkKeepsTask DEF InStream
  <1>5. CASE SaveProcessed
    <2>1. PICK n \in 0..MaxDerived : Added([k \in 1..n |-> "OTHER"])
      BY <1>5 DEF SaveProcessed
    <2>2. [k \in 1..n |-> "OTHER"] \in Seq(Kinds)
      <3>1. n \in Nat
        BY <2>1, DeliveryAssumption
      <3> QED BY <3>1 DEF Kinds
    <2>3. checkpoint' \in 1..Len(stream)
      BY <1>5 DEF SaveProcessed, KnownIds
    <2>4. Len(stream) <= Len(stream') /\ Len(stream') \in Nat /\ trimmed' <= Len(stream')
      BY <1>2, <2>1, <2>2
    <2>5. UNCHANGED <<cursor, pageEnd, Replaying>>
      BY <1>5 DEF SaveProcessed, Replaying
    <2> QED BY <1>1, <1>5, <2>3, <2>4, <2>5 DEF SaveProcessed, InStream
  <1>6. CASE StartCatchUp
    <2>1. lastProcessedId = checkpoint
      BY <1>6 DEF StartCatchUp, Idle, Position, TypeInv, Scheduling
    <2> QED BY <1>6, <2>1 DEF StartCatchUp, InStream
  <1>7. CASE ReadPage
    <2>1. PageStart \in Nat /\ PageStart <= Len(stream) /\ cursor' = PageStart
      BY <1>1, <1>7 DEF ReadPage, PageStart, Greatest, InStream
    <2>2. cursor' <= pageEnd'
      BY <1>1, <1>7, <2>1, DeliveryAssumption DEF ReadPage, Least
    <2> QED BY <1>7, <2>1, <2>2 DEF ReadPage, InStream
  <1>8. CASE NextEntry
    BY <1>1, <1>8 DEF NextEntry, InStream, KnownIds
  <1>9. CASE Publish \/ PublishFails \/ Subscriber
    <2>1. UNCHANGED <<stream, trimmed>>
      BY <1>9
      DEF Publish, PublishFails, Subscriber, Ready, Subscribed, StartFinishes,
          OnMessage, Disconnect
    <2> QED BY <1>9, <2>1, LinkKeepsTask DEF Publisher, InStream
  <1>10. CASE StartLive \/ DropLive \/ SkipCatchUp \/ NextPage \/ FinishLive \/ Restart
    BY <1>10
    DEF StartLive, DropLive, SkipCatchUp, NextPage, FinishLive, Restart, Idle, Replaying,
        TypeInv, Scheduling, InStream
  <1>11. CASE EndCatchUp \/ TaskFails \/ Crash
    BY <1>1, <1>11 DEF EndCatchUp, TaskFails, FailureIsCaught, Crash, InStream
  <1>12. CASE FinishReplayed
    <2>1. Replaying /\ pc' = "page"
      BY <1>12 DEF FinishReplayed
    <2>2. cursor <= pageEnd
      BY <1>12 DEF FinishReplayed, InStream
    <2> QED BY <1>12, <2>1, <2>2 DEF FinishReplayed, InStream, Replaying
  <1> QED
    BY <1>3, <1>4, <1>5, <1>6, <1>7, <1>8, <1>9, <1>10, <1>11, <1>12
    DEF Next, Publisher, Processor

(* Where the ids on the socket and in the queue go.                        *)
LEMMA IdIs ==
  ASSUME NEW s \in Seq(Nat), NEW id
  PROVE  id \in Ids(s) <=> \E k \in 1..Len(s) : s[k] = id
  BY DEF Ids

LEMMA IdsOfAppend ==
  ASSUME NEW s \in Seq(Nat), NEW id \in Nat
  PROVE  Ids(Append(s, id)) = Ids(s) \cup {id}
  <1>1. /\ DOMAIN Append(s, id) = 1..(Len(s) + 1) /\ DOMAIN s = 1..Len(s) /\ Len(s) \in Nat
        /\ \A k \in 1..Len(s) : Append(s, id)[k] = s[k]
        /\ Append(s, id)[Len(s) + 1] = id
    OBVIOUS
  <1>2. 1..(Len(s) + 1) = 1..Len(s) \cup {Len(s) + 1}
    BY <1>1
  <1> QED BY <1>1, <1>2 DEF Ids

LEMMA ArrivalIsQueued ==
  ASSUME TypeOK, NEW e \in Tasks, queue' = Append(queue, e)
  PROVE  QueuedIds \subseteq QueuedIds' /\ (e.kind = "live" => e.id \in QueuedIds')
  <1>1. /\ DOMAIN queue = 1..Len(queue) /\ DOMAIN queue' = 1..(Len(queue) + 1)
        /\ \A k \in 1..Len(queue) : queue'[k] = queue[k] /\ k \in 1..(Len(queue) + 1)
        /\ queue'[Len(queue) + 1] = e /\ Len(queue) + 1 \in 1..(Len(queue) + 1)
    BY DEF TypeOK
  <1> QED BY <1>1 DEF QueuedIds

LEMMA DepartureIsHead ==
  ASSUME TypeOK, queue # <<>>, queue' = Tail(queue), NEW id \in QueuedIds
  PROVE  id \in QueuedIds' \/ (~Replaying /\ id = Head(queue).id)
  <1>1. queue \in Seq(Tasks)
    BY DEF TypeOK
  <1>2. PICK k \in 1..Len(queue) : queue[k].kind = "live" /\ queue[k].id = id
    BY QueuedIdIs
  <1>3. CASE k = 1
    BY <1>1, <1>2, <1>3 DEF Replaying
  <1>4. CASE k # 1
    <2>1. k - 1 \in DOMAIN queue' /\ queue'[k - 1] = queue[k]
      BY <1>1, <1>2, <1>4
    <2> QED BY <1>2, <2>1 DEF QueuedIds
  <1> QED BY <1>3, <1>4

(* A message leaves the Publisher, the socket or the queue's end for the   *)
(* next place, or is lost.                                                 *)
LEMMA LinkLosesNothing ==
  ASSUME TypeInv, Publisher \/ Subscriber, NEW id \in OnItsWay \cup lost, id # 0
  PROVE  id \in OnItsWay' \cup lost'
  <1> USE DEF historyVars, redisVars, linkVars, catchUpVars
  <1>1. wire \in Seq(Nat) /\ queue \in Seq(Tasks) /\ TypeOK
    BY DEF TypeInv, TypeOK
  <1>2. ASSUME NEW kind \in {"SENSOR", "FOREIGN"}, XaddSensor(kind)
        PROVE  id \in OnItsWay' \cup lost'
    BY <1>2 DEF XaddSensor, OnItsWay, QueuedIds
  <1>3. CASE XaddSystem \/ Subscribed
    BY <1>3 DEF XaddSystem, Subscribed, OnItsWay, QueuedIds
  <1>4. CASE Publish
    <2>1. QueuedIds' = QueuedIds
      BY <1>4 DEF Publish, QueuedIds
    <2>2. CASE wire' = Append(wire, unpublished) /\ lost' = lost /\ unpublished \in Nat
      <3>1. /\ DOMAIN wire = 1..Len(wire) /\ DOMAIN wire' = 1..(Len(wire) + 1)
            /\ \A k \in 1..Len(wire) : wire'[k] = wire[k] /\ k \in 1..(Len(wire) + 1)
            /\ wire'[Len(wire) + 1] = unpublished
            /\ Len(wire) + 1 \in 1..(Len(wire) + 1)
        BY <1>1, <2>2
      <3>2. Ids(wire) \subseteq Ids(wire') /\ unpublished \in Ids(wire')
        BY <3>1 DEF Ids
      <3> QED BY <2>1, <2>2, <3>2 DEF OnItsWay
    <2>3. CASE wire' = wire /\ lost' = lost \cup {unpublished}
      BY <2>1, <2>3 DEF OnItsWay
    <2> QED BY <1>1, <1>4, <2>2, <2>3 DEF Publish, TypeOK
  <1>5. CASE PublishFails
    BY <1>5 DEF PublishFails, OnItsWay, QueuedIds
  <1>6. CASE Ready
    <2>1. QueuedIds \subseteq QueuedIds'
      <3>1. CASE queue' = queue
        BY <3>1 DEF QueuedIds
      <3>2. CASE queue' = Append(queue, CatchUp)
        BY <1>1, <3>2, TasksAreTasks, ArrivalIsQueued
      <3> QED BY <1>6, <3>1, <3>2 DEF Ready
    <2> QED BY <1>6, <2>1 DEF Ready, OnItsWay
  <1>7. CASE StartFinishes
    <2>1. PICK n \in 0..Len(wire) :
            /\ queue' = Append([j \in 1..n |-> Live(wire[j])], CatchUp)
            /\ wire' = SubSeq(wire, n + 1, Len(wire))
      BY <1>7 DEF StartFinishes
    <2>2. QueuedIds = {}
      BY <1>7 DEF StartFinishes, TypeInv, Scheduling, QueuedIds
    <2>3. CASE id \in Ids(wire)
      <3>1. PICK k \in 1..Len(wire) : wire[k] = id
        BY <1>1, <2>3, IdIs
      <3>2. CASE k \in 1..n
        <4> DEFINE first == [j \in 1..n |-> Live(wire[j])]
        <4>1. first \in Seq(Tasks) /\ Len(first) = n
          BY <1>1, TasksAreTasks
        <4>2. queue'[k] = Live(id) /\ k \in DOMAIN queue'
          BY <2>1, <3>1, <3>2, <4>1
        <4>3. id \in QueuedIds'
          BY <4>2 DEF QueuedIds, Live
        <4> QED BY <4>3 DEF OnItsWay
      <3>3. CASE k \notin 1..n
        <4>1. k - n \in DOMAIN wire' /\ wire'[k - n] = wire[k]
          BY <1>1, <2>1, <3>1, <3>3
        <4> QED BY <3>1, <4>1 DEF Ids, OnItsWay
      <3> QED BY <3>2, <3>3
    <2> QED BY <1>7, <2>2, <2>3 DEF StartFinishes, OnItsWay
  <1>8. CASE OnMessage
    <2>1. wire # <<>> /\ queue' = Append(queue, Live(Head(wire))) /\ wire' = Tail(wire)
      BY <1>8 DEF OnMessage
    <2>2. Head(wire) \in Nat /\ Live(Head(wire)) \in Tasks
      BY <1>1, <2>1, TasksAreTasks
    <2>3. QueuedIds \subseteq QueuedIds' /\ Head(wire) \in QueuedIds'
      BY <1>1, <2>1, <2>2, ArrivalIsQueued DEF Live
    <2>4. ASSUME id \in Ids(wire)
          PROVE  id = Head(wire) \/ id \in Ids(wire')
      <3>1. PICK k \in 1..Len(wire) : wire[k] = id
        BY <1>1, <2>4, IdIs
      <3>2. CASE k = 1
        BY <1>1, <3>1, <3>2
      <3>3. CASE k # 1
        <4>1. k - 1 \in DOMAIN wire' /\ wire'[k - 1] = wire[k]
          BY <1>1, <2>1, <3>1, <3>3
        <4> QED BY <3>1, <4>1 DEF Ids
      <3> QED BY <3>2, <3>3
    <2> QED BY <1>8, <2>3, <2>4 DEF OnMessage, OnItsWay
  <1>9. CASE Disconnect
    BY <1>9 DEF Disconnect, OnItsWay, QueuedIds
  <1> QED
    BY <1>2, <1>3, <1>4, <1>5, <1>6, <1>7, <1>8, <1>9 DEF Publisher, Subscriber

(* A task takes off the queue only what is applied, not of its zones or    *)
(* lost.                                                                   *)
LEMMA TaskLosesNothing ==
  ASSUME TypeInv, Position, Processor, NEW id \in OnItsWay \cup lost
  PROVE  id \in OnItsWay' \cup lost' \/ id <= checkpoint' \/ stream[id] = "FOREIGN"
  <1> USE DEF historyVars, redisVars, linkVars, catchUpVars
  <1>1. queue \in Seq(Tasks) /\ TypeOK
    BY DEF TypeInv, TypeOK
  <1>2. pc # "idle" => queue # <<>>
    BY DEF TypeInv, Scheduling
  <1>3. CASE DropLive
    <2>1. queue # <<>> /\ queue' = Tail(queue) /\ UNCHANGED <<wire, unpublished, lost, checkpoint>>
      BY <1>3 DEF DropLive, Idle
    <2>2. id \in QueuedIds => id \in QueuedIds' \/ id = Head(queue).id
      BY <1>1, <2>1, DepartureIsHead
    <2>3. Head(queue).id <= checkpoint \/ stream[Head(queue).id] = "FOREIGN"
      <3>1. lastProcessedId = checkpoint
        BY <1>3 DEF DropLive, Idle, Position, TypeInv, Scheduling
      <3> QED BY <1>3, <3>1 DEF DropLive, Skipped
    <2> QED BY <2>1, <2>2, <2>3 DEF OnItsWay
  <1>4. CASE SkipCatchUp \/ EndCatchUp
    <2>1. queue # <<>> /\ queue' = Tail(queue) /\ Replaying /\ UNCHANGED <<wire, unpublished, lost>>
      BY <1>2, <1>4 DEF SkipCatchUp, EndCatchUp, Idle, TypeInv, Scheduling
    <2>2. id \in QueuedIds => id \in QueuedIds'
      BY <1>1, <2>1, DepartureIsHead
    <2> QED BY <2>1, <2>2 DEF OnItsWay
  <1>5. CASE FinishLive
    <2>1. /\ queue # <<>> /\ queue' = Tail(queue) /\ ~Replaying
          /\ UNCHANGED <<wire, unpublished, lost, checkpoint>>
      BY <1>2, <1>5 DEF FinishLive
    <2>2. id \in QueuedIds => id \in QueuedIds' \/ id = Head(queue).id
      BY <1>1, <2>1, DepartureIsHead
    <2>3. Head(queue).id <= checkpoint'
      <3>1. Head(queue).id = checkpoint
        BY <1>5, <2>1 DEF FinishLive, Position, Current
      <3> QED BY <1>1, <2>1, <3>1 DEF TypeOK
    <2> QED BY <2>1, <2>2, <2>3 DEF OnItsWay
  <1>6. CASE TaskFails
    <2>1. queue # <<>> /\ queue' = Tail(queue) /\ UNCHANGED <<wire, unpublished, checkpoint>>
      BY <1>2, <1>6 DEF TaskFails, FailureIsCaught
    <2>2. id \in QueuedIds => id \in QueuedIds' \/ (~Replaying /\ id = Head(queue).id)
      BY <1>1, <2>1, DepartureIsHead
    <2>3. lost \subseteq lost'
      BY <1>6 DEF TaskFails
    <2>4. ~Replaying => Head(queue).id \in lost' \/ Head(queue).id <= checkpoint'
      <3>1. CASE pc = "save"
        BY <1>6, <3>1 DEF TaskFails, Current
      <3>2. CASE pc = "finish"
        BY <1>1, <2>1, <3>2 DEF Position, Current, TypeOK
      <3>3. CASE pc = "read"
        BY <3>3 DEF TypeInv, Scheduling
      <3> QED BY <1>6, <3>1, <3>2, <3>3 DEF TaskFails
    <2> QED BY <2>1, <2>2, <2>3, <2>4 DEF OnItsWay
  <1>7. CASE Crash
    BY <1>7 DEF Crash, OnItsWay
  <1>8. CASE \/ StartLive \/ StartCatchUp \/ ReadPage \/ NextEntry \/ NextPage
             \/ SaveProcessed \/ FinishReplayed \/ Restart
    <2>1. UNCHANGED <<queue, wire, unpublished, lost>>
      BY <1>8
      DEF StartLive, StartCatchUp, ReadPage, NextEntry, NextPage, SaveProcessed,
          FinishReplayed, Restart
    <2> QED BY <2>1 DEF OnItsWay, QueuedIds
  <1> QED BY <1>3, <1>4, <1>5, <1>6, <1>7, <1>8 DEF Processor

(* What is saved or lost remains so, and the stream loses only its oldest. *)
LEMMA AddedGrows ==
  ASSUME TypeOK, NEW entries \in Seq(Kinds), Added(entries),
         \A k \in 1..Len(entries) : entries[k] # "SENSOR"
  PROVE  SensorIds' = SensorIds /\ trimmed <= trimmed'
  <1>1. /\ Len(stream') = Len(stream) + Len(entries)
        /\ \A id \in 1..Len(stream) : stream'[id] = stream[id]
        /\ \A id \in 1..Len(entries) : stream'[Len(stream) + id] = entries[id]
    BY AddedKeeps
  <1>2. Len(stream) \in Nat /\ Len(entries) \in Nat /\ trimmed \in Nat
    BY DEF TypeOK
  <1>3. \A id \in 1..Len(stream') : id \in 1..Len(stream) \/ stream'[id] # "SENSOR"
    <2> SUFFICES ASSUME NEW id \in 1..Len(stream'), id \notin 1..Len(stream)
                 PROVE  stream'[id] # "SENSOR"
      OBVIOUS
    <2>1. id - Len(stream) \in 1..Len(entries) /\ Len(stream) + (id - Len(stream)) = id
      BY <1>1, <1>2
    <2>2. stream'[Len(stream) + (id - Len(stream))] = entries[id - Len(stream)]
      BY <1>1, <2>1
    <2> QED BY <2>1, <2>2
  <1>4. 1..Len(stream) \subseteq 1..Len(stream')
    BY <1>1, <1>2
  <1>5. trimmed <= trimmed'
    BY <1>2, DeliveryAssumption DEF Added
  <1> QED BY <1>1, <1>3, <1>4, <1>5 DEF SensorIds

LEMMA HistoryGrows ==
  ASSUME TypeInv, Position, Next
  PROVE  /\ Ids(log) \subseteq Ids(log') /\ lost \subseteq lost'
         /\ trimmed <= trimmed' /\ checkpoint <= checkpoint'
         /\ SensorIds \subseteq SensorIds'
         /\ \A id \in SensorIds' \ SensorIds : id = unpublished' /\ id = Len(stream) + 1
         /\ ~SaveProcessed => UNCHANGED <<log, checkpoint>>
         /\ SaveProcessed => SensorIds' = SensorIds
  <1> USE DEF historyVars, redisVars, linkVars, catchUpVars
  <1>1. /\ stream \in Seq(Kinds) /\ Len(stream) \in Nat /\ log \in Seq(Nat)
        /\ checkpoint \in Nat /\ trimmed \in Nat /\ TypeOK
    BY DEF TypeInv, TypeOK
  <1>2. ASSUME NEW kind \in {"SENSOR", "FOREIGN"}, XaddSensor(kind)
        PROVE  /\ Ids(log) \subseteq Ids(log') /\ lost \subseteq lost'
               /\ trimmed <= trimmed' /\ checkpoint <= checkpoint'
               /\ UNCHANGED <<log, checkpoint>> /\ ~SaveProcessed
               /\ SensorIds \subseteq SensorIds'
               /\ \A id \in SensorIds' \ SensorIds : id = unpublished' /\ id = Len(stream) + 1
    <2>1. <<kind>> \in Seq(Kinds) /\ Added(<<kind>>) /\ Len(<<kind>>) = 1
      BY <1>2 DEF XaddSensor, Kinds
    <2>2. /\ Len(stream') = Len(stream) + 1
          /\ \A id \in 1..Len(stream) : stream'[id] = stream[id]
      BY <1>1, <2>1, AddedKeeps
    <2>3. trimmed <= trimmed'
      BY <1>1, <2>1, DeliveryAssumption DEF Added
    <2>4. UNCHANGED <<log, checkpoint, lost>> /\ unpublished' = Len(stream) + 1
      BY <1>2 DEF XaddSensor
    <2>5. \A id \in 1..Len(stream') : id \in 1..Len(stream) \/ id = Len(stream) + 1
      BY <1>1, <2>2
    <2>6. 1..Len(stream) \subseteq 1..Len(stream')
      BY <1>1, <2>2
    <2>7. ~SaveProcessed
      <3>1. checkpoint' = checkpoint /\ pc' = pc
        BY <1>2 DEF XaddSensor
      <3> QED BY <3>1 DEF SaveProcessed
    <2>8. checkpoint <= checkpoint' /\ Ids(log) \subseteq Ids(log') /\ lost \subseteq lost'
      BY <1>1, <2>4
    <2> QED BY <2>2, <2>3, <2>4, <2>5, <2>6, <2>7, <2>8 DEF SensorIds
  <1>3. CASE XaddSystem
    <2>1. <<"OTHER">> \in Seq(Kinds) /\ Added(<<"OTHER">>)
      BY <1>3 DEF XaddSystem, Kinds
    <2>2. \A k \in 1..Len(<<"OTHER">>) : <<"OTHER">>[k] # "SENSOR"
      OBVIOUS
    <2>3. UNCHANGED <<log, checkpoint, lost, pc>>
      BY <1>3 DEF XaddSystem
    <2>4. ~SaveProcessed
      BY <2>3 DEF SaveProcessed
    <2>5. SensorIds' = SensorIds /\ trimmed <= trimmed'
      BY <1>1, <2>1, <2>2, AddedGrows
    <2> QED BY <1>1, <2>3, <2>4, <2>5
  <1>4. CASE SaveProcessed
    <2>1. PICK n \in 0..MaxDerived : Added([k \in 1..n |-> "OTHER"])
      BY <1>4 DEF SaveProcessed
    <2>2. [k \in 1..n |-> "OTHER"] \in Seq(Kinds)
      <3>1. n \in Nat
        BY <2>1, DeliveryAssumption
      <3> QED BY <3>1 DEF Kinds
    <2>3. \A k \in 1..Len([k \in 1..n |-> "OTHER"]) : [k1 \in 1..n |-> "OTHER"][k] # "SENSOR"
      BY <2>1, DeliveryAssumption
    <2>4. SensorIds' = SensorIds /\ trimmed <= trimmed'
      BY <1>1, <2>1, <2>2, <2>3, AddedGrows
    <2>5. /\ log' = Append(log, Current) /\ lost' = lost
          /\ checkpoint' = Current /\ checkpoint < Current /\ Current \in Nat
      BY <1>1, <1>4, CurrentIsNat DEF SaveProcessed, Position, TypeInv, Scheduling
    <2>6. Ids(log) \subseteq Ids(log')
      BY <1>1, <2>5 DEF Ids
    <2> QED BY <1>1, <1>4, <2>4, <2>5, <2>6
  <1>5. CASE Publish \/ PublishFails \/ Subscriber
    <2>1. UNCHANGED <<stream, trimmed, log, checkpoint, pc>> /\ lost \subseteq lost'
      BY <1>5
      DEF Publish, PublishFails, Subscriber, Ready, Subscribed, StartFinishes,
          OnMessage, Disconnect
    <2>2. ~SaveProcessed
      BY <2>1 DEF SaveProcessed
    <2> QED BY <1>1, <2>1, <2>2 DEF SensorIds
  <1>6. CASE Processor /\ ~SaveProcessed
    <2>1. UNCHANGED <<stream, trimmed, log, checkpoint>> /\ lost \subseteq lost'
      BY <1>6
      DEF Processor, StartLive, DropLive, SkipCatchUp, StartCatchUp, ReadPage, NextEntry,
          NextPage, EndCatchUp, FinishLive, FinishReplayed, TaskFails, Crash, Restart
    <2> QED BY <1>1, <1>6, <2>1 DEF SensorIds
  <1> QED BY <1>2, <1>3, <1>4, <1>5, <1>6 DEF Next, Publisher

LEMMA AccountedStep ==
  ASSUME TypeInv, Position, Accounted, Next
  PROVE  Accounted'
  <1> SUFFICES ASSUME NEW id \in SensorIds', checkpoint' < id
               PROVE  id \in OnItsWay' \cup lost'
    BY DEF Accounted
  <1>1. CASE id \in SensorIds
    <2>1. checkpoint <= checkpoint' /\ checkpoint \in Nat
      BY HistoryGrows DEF TypeInv, TypeOK
    <2>2. checkpoint' \in Nat /\ id \in Nat /\ id # 0 /\ stream[id] = "SENSOR"
      BY <1>1, TypeInvNext DEF SensorIds, TypeInv, TypeOK
    <2>3. id \in OnItsWay \cup lost
      BY <1>1, <2>1, <2>2 DEF Accounted
    <2>4. ~(id <= checkpoint')
      BY <2>2
    <2> QED BY <2>2, <2>3, <2>4, LinkLosesNothing, TaskLosesNothing DEF Next
  <1>2. CASE id \notin SensorIds
    BY <1>2, HistoryGrows DEF OnItsWay
  <1> QED BY <1>1, <1>2

------------------------------------------------------------------------------
(* The catch-up.                                                           *)

(* A catch-up goes through the stream in order, page by page, and saves    *)
(* what it comes to; what it skips are other kinds of entries, and what    *)
(* was trimmed before it could be read.                                    *)
LEMMA CatchUpStep ==
  ASSUME IInv, InStream, Advancing, CatchUpLeavesNoHole, Next
  PROVE  Advancing' /\ CatchUpLeavesNoHole'
  <1> USE DEF historyVars, redisVars, linkVars, catchUpVars
  <1>1. /\ TypeInv /\ KnownIds /\ Position /\ TypeOK
        /\ stream \in Seq(Kinds) /\ queue \in Seq(Tasks) /\ log \in Seq(Nat)
        /\ cursor \in Nat /\ from \in Nat /\ lastProcessedId \in Nat
        /\ checkpoint \in Nat /\ trimmed \in Nat /\ trimmed' \in Nat
    BY TypeInvNext DEF IInv, TypeInv, TypeOK
  <1> DEFINE Applied == Ids(log) \cup 1..trimmed
  <1>2. Applied \subseteq Applied'
    BY <1>1, HistoryGrows
  <1>3. \A id \in SensorIds' : id <= Len(stream) => id \in SensorIds
    BY <1>1, HistoryGrows
  <1>4. ASSUME pc' # "idle" => pc # "idle",
               pc # "idle" => /\ UNCHANGED <<cursor, from, lastProcessedId>>
                              /\ Replaying' = Replaying
                              /\ pc' = "save" <=> pc = "save"
        PROVE  Advancing' /\ CatchUpLeavesNoHole'
    <2>1. Advancing'
      BY <1>4 DEF Advancing
    <2>2. CatchUpLeavesNoHole'
      <3> SUFFICES ASSUME pc' # "idle", Replaying', NEW id \in SensorIds',
                          from' < id, id <= cursor', ~(pc' = "save" /\ id = cursor')
                   PROVE  id \in Applied'
        BY DEF CatchUpLeavesNoHole
      <3>1. id \in SensorIds
        BY <1>1, <1>3, <1>4 DEF InStream, SensorIds
      <3> QED BY <1>2, <1>4, <3>1 DEF CatchUpLeavesNoHole
    <2> QED BY <2>1, <2>2
  <1>5. ASSUME pc' = "idle"
        PROVE  Advancing' /\ CatchUpLeavesNoHole'
    BY <1>5 DEF Advancing, CatchUpLeavesNoHole
  <1>6. ASSUME ~Replaying'
        PROVE  Advancing' /\ CatchUpLeavesNoHole'
    BY <1>6 DEF Advancing, CatchUpLeavesNoHole
  <1>7. CASE Publisher \/ Subscriber
    BY <1>1, <1>4, <1>7, LinkKeepsTask
  <1>8. CASE DropLive \/ SkipCatchUp \/ EndCatchUp \/ FinishLive \/ TaskFails \/ Crash
    BY <1>5, <1>8
    DEF DropLive, SkipCatchUp, EndCatchUp, FinishLive, TaskFails, FailureIsCaught, Crash, Idle
  <1>9. CASE StartLive
    BY <1>6, <1>9 DEF StartLive, Replaying
  <1>10. CASE Restart
    BY <1>1, <1>5, <1>10 DEF Restart, TypeInv, Scheduling
  <1>11. CASE NextPage
    BY <1>4, <1>11 DEF NextPage, Replaying
  <1>12. CASE StartCatchUp
    <2>1. cursor' = lastProcessedId /\ from' = lastProcessedId /\ lastProcessedId' = lastProcessedId
      BY <1>12 DEF StartCatchUp
    <2>2. \A id \in SensorIds' : ~(from' < id /\ id <= cursor')
      BY <1>1, <2>1 DEF SensorIds
    <2> QED BY <1>1, <2>1, <2>2 DEF Advancing, CatchUpLeavesNoHole
  <1>13. CASE ReadPage
    <2>1. /\ cursor' \in {cursor, trimmed} /\ cursor <= cursor' /\ Replaying
          /\ UNCHANGED <<from, lastProcessedId, stream, log, trimmed>>
      BY <1>1, <1>13 DEF ReadPage, PageStart, Greatest, TypeInv, Scheduling
    <2>2. from <= lastProcessedId /\ lastProcessedId <= cursor
      BY <1>13, <2>1 DEF ReadPage, Advancing
    <2>3. \A id \in SensorIds : from < id /\ id <= cursor => id \in Applied
      BY <1>13, <2>1 DEF ReadPage, CatchUpLeavesNoHole
    <2>4. \A id \in SensorIds : from < id /\ id <= cursor' => id \in Applied
      BY <1>1, <2>1, <2>3 DEF SensorIds
    <2>5. CatchUpLeavesNoHole'
      BY <2>1, <2>4 DEF CatchUpLeavesNoHole, SensorIds
    <2>6. Advancing'
      BY <1>1, <2>1, <2>2 DEF Advancing
    <2> QED BY <2>5, <2>6
  <1>14. CASE NextEntry
    <2>1. /\ cursor' = cursor + 1 /\ Replaying /\ pc = "page"
          /\ UNCHANGED <<from, lastProcessedId, stream, log, trimmed>>
      BY <1>1, <1>14 DEF NextEntry, TypeInv, Scheduling
    <2>2. from <= lastProcessedId /\ lastProcessedId <= cursor
      BY <2>1 DEF Advancing
    <2>3. \A id \in SensorIds : from < id /\ id <= cursor => id \in Applied
      BY <2>1 DEF CatchUpLeavesNoHole
    <2>4. cursor + 1 \in SensorIds => pc' = "save"
      <3>1. ~(cursor + 1 <= lastProcessedId)
        BY <1>1, <2>2
      <3> QED BY <1>14, <3>1 DEF NextEntry, Skipped, SensorIds
    <2>5. \A id \in SensorIds : id <= cursor + 1 => id <= cursor \/ id = cursor + 1
      BY <1>1 DEF SensorIds
    <2>6. CatchUpLeavesNoHole'
      BY <2>1, <2>3, <2>4, <2>5 DEF CatchUpLeavesNoHole, SensorIds
    <2>7. Advancing'
      BY <1>1, <2>1, <2>2 DEF Advancing
    <2> QED BY <2>6, <2>7
  <1>15. CASE SaveProcessed
    <2>1. /\ log' = Append(log, Current) /\ pc = "save" /\ pc' = "finish"
          /\ UNCHANGED <<cursor, from, lastProcessedId>> /\ Replaying' = Replaying
      BY <1>15 DEF SaveProcessed, Replaying
    <2>2. CASE Replaying
      <3>1. Current = cursor /\ cursor \in Ids(log')
        <4>1. Current = cursor
          BY <2>2 DEF Current
        <4> QED BY <1>1, <2>1, <4>1, IdsOfAppend
      <3>2. SensorIds' = SensorIds
        BY <1>1, <1>15, HistoryGrows
      <3>3. CatchUpLeavesNoHole'
        BY <1>2, <2>1, <2>2, <3>1, <3>2 DEF CatchUpLeavesNoHole
      <3> QED BY <2>1, <2>2, <3>3 DEF Advancing
    <2> QED BY <1>6, <2>1, <2>2
  <1>16. CASE FinishReplayed
    <2>1. /\ Replaying /\ lastProcessedId' = cursor /\ pc = "finish" /\ pc' = "page"
          /\ UNCHANGED <<cursor, from, stream, log, trimmed>> /\ Replaying' = Replaying
      BY <1>16 DEF FinishReplayed, Current, Replaying
    <2>2. Advancing'
      BY <1>1, <2>1 DEF Advancing
    <2>3. CatchUpLeavesNoHole'
      BY <2>1 DEF CatchUpLeavesNoHole, SensorIds
    <2> QED BY <2>2, <2>3
  <1> QED
    BY <1>7, <1>8, <1>9, <1>10, <1>11, <1>12, <1>13, <1>14, <1>15, <1>16
    DEF Next, Processor

(* Whatever is saved next, all that comes before it in the stream is       *)
(* applied, lost or trimmed: of the messages that are on their way the     *)
(* saved one is the first, and a catch-up leaves no hole behind it.        *)
LEMMA OvertakenStep ==
  ASSUME IInv, InOrder, InStream, Accounted, Advancing, CatchUpLeavesNoHole,
         OvertakenOnlyIfLost, Next
  PROVE  OvertakenOnlyIfLost'
  <1>1. /\ TypeInv /\ KnownIds /\ Position /\ TypeOK
        /\ wire \in Seq(Nat) /\ queue \in Seq(Tasks) /\ log \in Seq(Nat)
        /\ cursor \in Nat /\ checkpoint \in Nat /\ trimmed \in Nat
        /\ Len(stream) \in Nat
    BY DEF IInv, TypeInv, TypeOK
  <1>0. trimmed' \in Nat
    BY <1>1, TypeInvNext DEF TypeInv, TypeOK
  <1> SUFFICES ASSUME NEW id \in SensorIds', id <= checkpoint'
               PROVE  id \in Ids(log') \cup lost' \cup 1..trimmed'
    BY DEF OvertakenOnlyIfLost
  <1>2. Ids(log) \cup lost \cup 1..trimmed \subseteq Ids(log') \cup lost' \cup 1..trimmed'
    BY <1>0, <1>1, HistoryGrows
  <1>3. CASE ~SaveProcessed
    <2>1. checkpoint' = checkpoint
      BY <1>1, <1>3, HistoryGrows
    <2>2. id \in SensorIds
      BY <1>1, <2>1, HistoryGrows DEF InStream
    <2> QED BY <1>2, <2>1, <2>2 DEF OvertakenOnlyIfLost
  <1>4. CASE SaveProcessed
    <2>1. /\ pc = "save" /\ checkpoint < Current /\ checkpoint' = Current
          /\ log' = Append(log, Current) /\ queue # <<>> /\ Current \in Nat
      BY <1>1, <1>4, CurrentIsNat DEF SaveProcessed, Position, TypeInv, Scheduling
    <2>2. id \in SensorIds /\ id \in Nat /\ id # 0
      BY <1>1, <1>4, HistoryGrows DEF SensorIds
    <2>3. CASE id <= checkpoint
      BY <1>2, <2>2, <2>3 DEF OvertakenOnlyIfLost
    <2>4. CASE id = Current
      BY <1>1, <2>1, <2>4, IdsOfAppend
    <2>5. CASE checkpoint < id /\ id < Current
      <3>1. CASE Replaying
        <4>1. from <= lastProcessedId /\ lastProcessedId = checkpoint /\ Current = cursor
          BY <1>1, <2>1, <3>1 DEF Advancing, Position, Current, TypeInv, Scheduling
        <4>2. from < id /\ id <= cursor /\ id # cursor
          BY <1>1, <2>2, <2>5, <4>1 DEF TypeOK
        <4> QED BY <1>2, <2>1, <2>2, <3>1, <4>2 DEF CatchUpLeavesNoHole
      <3>2. CASE ~Replaying
        <4>1. Current = queue[1].id /\ queue[1].kind = "live" /\ 1 \in 1..Len(queue)
          <5>1. Head(queue) = queue[1] /\ queue[1] \in Tasks /\ 1 \in 1..Len(queue)
            BY <1>1, <2>1
          <5> QED BY <3>2, <5>1 DEF Current, Replaying, Tasks
        <4>2. id \notin QueuedIds
          <5> SUFFICES ASSUME NEW k \in 1..Len(queue), queue[k].kind = "live", queue[k].id = id
                       PROVE  FALSE
            BY <1>1, QueuedIdIs
          <5>1. k = 1 \/ 1 < k
            BY <1>1
          <5>2. Current <= id
            BY <2>1, <2>2, <4>1, <5>1 DEF InOrder
          <5> QED BY <2>1, <2>2, <2>5, <5>2
        <4>3. id \notin Ids(wire)
          <5> SUFFICES ASSUME NEW k \in 1..Len(wire), wire[k] = id PROVE FALSE
            BY <1>1, IdIs
          <5>1. Current < id
            BY <4>1 DEF InOrder
          <5> QED BY <2>1, <2>2, <2>5, <5>1
        <4>4. id # unpublished
          <5> SUFFICES ASSUME id = unpublished PROVE FALSE
            OBVIOUS
          <5>1. Current < id
            BY <2>2, <4>1 DEF InOrder
          <5> QED BY <2>1, <2>2, <2>5, <5>1
        <4> QED BY <1>2, <2>2, <2>5, <4>2, <4>3, <4>4 DEF Accounted, OnItsWay
      <3> QED BY <3>1, <3>2
    <2> QED BY <1>1, <2>1, <2>2, <2>3, <2>4, <2>5
  <1> QED BY <1>3, <1>4

------------------------------------------------------------------------------
(* What the dashboards have been told.                                     *)

NoFailure == faults["crash"] = 0 /\ faults["task"] = 0

(* What is saved and not announced is the live event whose task has not    *)
(* ended, or is covered by the RESYNC the running catch-up owes.           *)
Telling ==
  NoFailure =>
    /\ (pc = "idle" \/ (pc = "save" /\ ~Replaying) \/ (pc # "idle" /\ Replaying /\ ~recovered))
         => announced = Ids(log)
    /\ pc = "finish" /\ ~Replaying => announced \cup {Current} = Ids(log)
    /\ pc \in {"save", "finish"} /\ Replaying => recovered

LEMMA TellingStep ==
  ASSUME TypeInv, Telling, Next
  PROVE  Telling'
  <1> USE DEF historyVars, redisVars, linkVars, catchUpVars
  <1>1. /\ log \in Seq(Nat) /\ queue \in Seq(Tasks) /\ recovered \in BOOLEAN
        /\ faults \in [FaultKinds -> Nat] /\ Scheduling
    BY DEF TypeInv, TypeOK
  <1>2. ASSUME NEW kind \in FaultKinds, Fault(kind)
        PROVE  /\ kind \in {"crash", "task"} => ~NoFailure'
               /\ kind \notin {"crash", "task"} => NoFailure' = NoFailure
    <2>1. /\ faults' = [faults EXCEPT ![kind] = @ + 1]
          /\ "crash" \in FaultKinds /\ "task" \in FaultKinds
      BY <1>2 DEF Fault, FaultKinds
    <2>2. CASE kind \in {"crash", "task"}
      <3>1. faults[kind] \in Nat /\ faults'[kind] = faults[kind] + 1
        BY <1>1, <2>1
      <3>2. faults'[kind] # 0
        BY <3>1
      <3> QED BY <2>2, <3>2 DEF NoFailure
    <2>3. CASE kind \notin {"crash", "task"}
      <3>1. faults'["crash"] = faults["crash"] /\ faults'["task"] = faults["task"]
        BY <1>1, <2>1, <2>3
      <3> QED BY <2>3, <3>1 DEF NoFailure
    <2> QED BY <2>2, <2>3
  <1>3. CASE Publisher \/ Subscriber
    <2>1. NoFailure' = NoFailure
      <3>1. CASE PublishFails \/ Disconnect
        BY <1>2, <3>1 DEF PublishFails, Disconnect, FaultKinds
      <3>2. CASE faults' = faults
        BY <3>2 DEF NoFailure
      <3> QED
        BY <1>3, <3>1, <3>2
        DEF Publisher, Subscriber, XaddSensor, XaddSystem, Publish, Ready, Subscribed,
            StartFinishes, OnMessage
    <2>2. UNCHANGED <<pc, log, recovered, announced>>
      BY <1>3, LinkKeepsTask
    <2>3. pc # "idle" => Current' = Current /\ Replaying' = Replaying
      BY <1>3, LinkKeepsTask
    <2>4. CASE pc = "idle"
      BY <2>1, <2>2, <2>4 DEF Telling
    <2>5. CASE pc # "idle"
      BY <2>1, <2>2, <2>3, <2>5 DEF Telling
    <2> QED BY <2>4, <2>5
  <1>4. CASE TaskFails \/ Crash
    BY <1>2, <1>4 DEF TaskFails, Crash, FaultKinds, Telling
  <1>5. ASSUME faults' = faults PROVE NoFailure' = NoFailure
    BY <1>5 DEF NoFailure
  <1>6. CASE DropLive \/ SkipCatchUp \/ Restart
    <2>1. faults' = faults /\ announced' = announced /\ log' = log /\ pc = "idle" /\ pc' = "idle"
      BY <1>1, <1>6 DEF DropLive, SkipCatchUp, Restart, Idle, Scheduling
    <2> QED BY <1>5, <2>1 DEF Telling
  <1>7. CASE StartLive
    <2>1. /\ faults' = faults /\ announced' = announced /\ log' = log
          /\ pc = "idle" /\ pc' = "save" /\ ~Replaying'
      BY <1>7 DEF StartLive, Idle, Replaying
    <2> QED BY <1>5, <2>1 DEF Telling
  <1>8. CASE StartCatchUp
    <2>1. /\ faults' = faults /\ announced' = announced /\ log' = log
          /\ pc = "idle" /\ pc' = "read"
      BY <1>8 DEF StartCatchUp, Idle
    <2> QED BY <1>5, <2>1 DEF Telling
  <1>9. CASE ReadPage \/ NextPage
    <2>1. /\ faults' = faults /\ announced' = announced /\ log' = log /\ recovered' = recovered
          /\ pc \in {"read", "page"} /\ pc' \in {"read", "page"}
      BY <1>9 DEF ReadPage, NextPage
    <2>2. Replaying /\ Replaying'
      BY <1>1, <1>9, <2>1 DEF Scheduling, Replaying, ReadPage, NextPage
    <2> QED BY <1>5, <2>1, <2>2 DEF Telling
  <1>10. CASE NextEntry
    <2>1. /\ faults' = faults /\ announced' = announced /\ log' = log
          /\ pc = "page" /\ pc' \in {"page", "save"}
          /\ ~recovered' => ~recovered
          /\ pc' = "save" => recovered'
      BY <1>1, <1>10 DEF NextEntry
    <2>2. Replaying /\ Replaying'
      BY <1>1, <1>10, <2>1 DEF Scheduling, Replaying, NextEntry
    <2> QED BY <1>5, <2>1, <2>2 DEF Telling
  <1>11. CASE EndCatchUp
    <2>1. /\ faults' = faults /\ announced' = AnnouncedByResync /\ log' = log
          /\ pc = "page" /\ pc' = "idle" /\ Replaying
      BY <1>1, <1>11 DEF EndCatchUp, Scheduling
    <2> QED BY <1>5, <2>1 DEF Telling, AnnouncedByResync
  <1>12. CASE SaveProcessed
    <2>1. /\ faults' = faults /\ announced' = announced /\ log' = Append(log, Current)
          /\ pc = "save" /\ pc' = "finish" /\ recovered' = recovered
          /\ queue' = queue /\ cursor' = cursor
      BY <1>12 DEF SaveProcessed
    <2>2. Replaying' = Replaying /\ Current' = Current /\ Current \in Nat
      <3>1. Replaying' = Replaying
        BY <2>1 DEF Replaying
      <3>2. Current' = Current
        BY <2>1 DEF Current, Replaying
      <3>3. Current \in Nat
        BY <1>1, <2>1, CurrentIsNat DEF TypeInv, Scheduling
      <3> QED BY <3>1, <3>2, <3>3
    <2>3. Ids(log') = Ids(log) \cup {Current}
      BY <1>1, <2>1, <2>2, IdsOfAppend
    <2> QED BY <1>5, <2>1, <2>2, <2>3 DEF Telling
  <1>13. CASE FinishLive
    <2>1. /\ faults' = faults /\ announced' = announced \cup {Current} /\ log' = log
          /\ pc = "finish" /\ pc' = "idle" /\ ~Replaying
      BY <1>13 DEF FinishLive
    <2> QED BY <1>5, <2>1 DEF Telling
  <1>14. CASE FinishReplayed
    <2>1. /\ faults' = faults /\ announced' = announced /\ log' = log
          /\ pc = "finish" /\ pc' = "page" /\ Replaying /\ Replaying'
          /\ recovered' = recovered
      BY <1>14 DEF FinishReplayed, Replaying
    <2> QED BY <1>5, <2>1 DEF Telling
  <1> QED
    BY <1>3, <1>4, <1>6, <1>7, <1>8, <1>9, <1>10, <1>11, <1>12, <1>13, <1>14
    DEF Next, Processor

(* The inductive invariant of the two theorems below.                      *)
DeliveryInv ==
  /\ IInv
  /\ InOrder
  /\ InStream
  /\ Accounted
  /\ Advancing
  /\ Telling
  /\ CatchUpLeavesNoHole
  /\ OvertakenOnlyIfLost

LEMMA DeliveryInvInit == Init => DeliveryInv
  <1> SUFFICES ASSUME Init PROVE DeliveryInv
    OBVIOUS
  <1>1. SensorIds = {}
    BY DEF Init, SensorIds
  <1>2. InOrder /\ InStream
    BY DEF Init, InOrder, InStream
  <1>3. Accounted /\ OvertakenOnlyIfLost
    BY <1>1 DEF Accounted, OvertakenOnlyIfLost
  <1>4. Advancing /\ CatchUpLeavesNoHole
    BY DEF Init, Advancing, CatchUpLeavesNoHole
  <1>5. Telling
    BY DEF Init, Telling, Ids
  <1> QED BY <1>2, <1>3, <1>4, <1>5, IInvInit DEF DeliveryInv

LEMMA DeliveryInvNext == DeliveryInv /\ [Next]_vars => DeliveryInv'
  <1> SUFFICES ASSUME DeliveryInv, [Next]_vars PROVE DeliveryInv'
    OBVIOUS
  <1>1. IInv'
    BY IInvNext DEF DeliveryInv
  <1>2. CASE Next
    <2>1. TypeInv /\ KnownIds /\ Position
      BY DEF DeliveryInv, IInv
    <2>2. InOrder'
      BY <1>2, <2>1, InOrderLink, InOrderProcessor DEF DeliveryInv, Next
    <2>3. InStream' /\ Accounted'
      BY <1>2, <2>1, InStreamStep, AccountedStep DEF DeliveryInv
    <2>4. Advancing' /\ CatchUpLeavesNoHole'
      BY <1>2, CatchUpStep DEF DeliveryInv
    <2>5. Telling'
      BY <1>2, <2>1, TellingStep DEF DeliveryInv
    <2>6. OvertakenOnlyIfLost'
      BY <1>2, OvertakenStep DEF DeliveryInv
    <2> QED BY <1>1, <2>2, <2>3, <2>4, <2>5, <2>6 DEF DeliveryInv
  <1>3. CASE UNCHANGED vars
    <2>1. InOrder' /\ InStream'
      BY <1>3 DEF vars, DeliveryInv, InOrder, InStream, Replaying
    <2>2. Accounted'
      BY <1>3 DEF vars, DeliveryInv, Accounted, OnItsWay, QueuedIds, SensorIds, Ids
    <2>3. Advancing' /\ CatchUpLeavesNoHole' /\ OvertakenOnlyIfLost'
      BY <1>3
      DEF vars, DeliveryInv, Advancing, CatchUpLeavesNoHole, OvertakenOnlyIfLost,
          SensorIds, Replaying, Ids
    <2>4. Telling'
      BY <1>3 DEF vars, DeliveryInv, Telling, NoFailure, Replaying, Current, Ids
    <2> QED BY <1>1, <2>1, <2>2, <2>3, <2>4 DEF DeliveryInv
  <1> QED BY <1>2, <1>3

LEMMA DeliveryInvAlways == Spec => []DeliveryInv
  BY DeliveryInvInit, DeliveryInvNext, PTL DEF Spec

(* A sensor event the position has passed without applying it was dropped  *)
(* on its way or trimmed from the stream before it was read: process(),    *)
(* which discards by position alone, never discards one that is still on   *)
(* its way, however live messages and catch-ups mix.                       *)
THEOREM OvertakenOnlyIfLostAlways == Spec => []OvertakenOnlyIfLost
  <1>1. DeliveryInv => OvertakenOnlyIfLost
    BY DEF DeliveryInv
  <1> QED BY <1>1, DeliveryInvAlways, PTL

(* Whatever a catch-up has gone through is applied, for any page size and  *)
(* any trimming, and the dashboards hear of it: without crashes and failed *)
(* tasks, a Processor with nothing to do has announced all it has saved.   *)
THEOREM CatchUpIsCompleteAlways == Spec => []CatchUpIsComplete
  <1>1. DeliveryInv => CatchUpLeavesNoHole
    BY DEF DeliveryInv
  <1>2. DeliveryInv => AnnouncedWhenQuiet
    BY DEF DeliveryInv, IInv, TypeInv, Scheduling, Telling, NoFailure, AnnouncedWhenQuiet
  <1>3. DeliveryInv => CatchUpIsComplete
    BY <1>1, <1>2 DEF CatchUpIsComplete
  <1> QED BY <1>3, DeliveryInvAlways, PTL

------------------------------------------------------------------------------
(* The promise of SensorLog.                                               *)

LEMMA RefinementInit == Init => Promise!Init
  BY DEF Init, Promise!Init

(* An XADD of one entry is a Record.                                       *)
LEMMA AddedIsRecord ==
  ASSUME TypeOK, NEW kind \in Kinds, Added(<<kind>>), UNCHANGED <<log, checkpoint>>
  PROVE  Promise!Record(kind)
  <1>1. stream' = stream \o <<kind>>
    BY DEF Added
  <1>2. stream' = Append(stream, kind)
    BY <1>1 DEF TypeOK
  <1> QED BY <1>2 DEF Promise!Record

(* saveProcessed is an Apply: everything it depends on is in IInv.         *)
LEMMA SaveIsApply ==
  ASSUME IInv, SaveProcessed
  PROVE  Promise!Apply(Current) /\ Current \in 1..Len(stream)
  <1>1. TypeOK /\ KnownIds /\ Position
    BY DEF IInv, TypeInv
  <1>2. /\ Current \in 1..Len(stream) /\ stream[Current] = "SENSOR"
        /\ checkpoint < Current
        /\ log' = Append(log, Current) /\ checkpoint' = Current
    BY <1>1 DEF SaveProcessed, KnownIds, Position
  <1>3. Promise!Newer(Current)
    <2>1. log \in Seq(Nat) /\ checkpoint \in Nat /\ Len(stream) \in Nat
      BY <1>1 DEF TypeOK
    <2>2. \A k \in 1..Len(log) : log[k] \in Nat /\ log[k] <= checkpoint
      BY <1>1, <2>1 DEF Position
    <2>3. \A k \in 1..Len(log) : log[k] < Current
      BY <1>2, <2>1, <2>2
    <2> QED BY <2>3 DEF Promise!Newer
  <1>4. PICK n \in 0..MaxDerived : Added([k \in 1..n |-> "OTHER"])
    BY DEF SaveProcessed
  <1>5. Promise!Extends(stream, stream', "OTHER")
    <2> DEFINE entries == [k \in 1..n |-> "OTHER"]
    <2>1. n \in Nat
      BY <1>4, DeliveryAssumption
    <2>2. entries \in Seq(Kinds) /\ Len(entries) = n
      BY <2>1 DEF Kinds
    <2>3. /\ Len(stream') = Len(stream) + n
          /\ \A id \in 1..Len(stream) : stream'[id] = stream[id]
          /\ \A id \in 1..n : stream'[Len(stream) + id] = entries[id]
      BY <1>1, <1>4, <2>2, AddedKeeps
    <2>4. Len(stream) \in Nat
      BY <1>1 DEF TypeOK
    <2>5. \A k \in Len(stream) + 1 .. Len(stream') : stream'[k] = "OTHER"
      <3> SUFFICES ASSUME NEW k \in Len(stream) + 1 .. Len(stream')
                   PROVE  stream'[k] = "OTHER"
        OBVIOUS
      <3>1. k - Len(stream) \in 1..n
        BY <2>1, <2>3, <2>4
      <3>2. stream'[Len(stream) + (k - Len(stream))] = entries[k - Len(stream)]
        BY <2>3, <3>1
      <3>3. Len(stream) + (k - Len(stream)) = k
        BY <2>1, <2>3, <2>4
      <3> QED BY <3>1, <3>2, <3>3
    <2> QED BY <2>1, <2>3, <2>4, <2>5 DEF Promise!Extends
  <1> QED BY <1>2, <1>3, <1>5 DEF Promise!Apply

(* Every other step leaves stream, log and checkpoint alone.               *)
LEMMA OtherStepsStutter ==
  ASSUME Next, ~SaveProcessed, ~XaddSystem,
         \A kind \in {"SENSOR", "FOREIGN"} : ~XaddSensor(kind)
  PROVE  UNCHANGED <<stream, log, checkpoint>>
  <1> USE DEF historyVars, redisVars, linkVars, catchUpVars
  <1>1. CASE Publisher
    BY <1>1 DEF Publisher, Publish, PublishFails
  <1>2. CASE Subscriber
    BY <1>2 DEF Subscriber, Ready, Subscribed, StartFinishes, OnMessage, Disconnect
  <1>3. CASE Processor
    BY <1>3 DEF Processor, StartLive, DropLive, SkipCatchUp, StartCatchUp,
         ReadPage, NextEntry, NextPage, EndCatchUp, FinishLive, FinishReplayed,
         TaskFails, Crash, Restart
  <1> QED BY <1>1, <1>2, <1>3 DEF Next

LEMMA RefinementNext ==
  IInv /\ [Next]_vars => [Promise!Next]_(Promise!vars)
  <1> SUFFICES ASSUME IInv, [Next]_vars PROVE [Promise!Next]_(Promise!vars)
    OBVIOUS
  <1>1. TypeOK
    BY DEF IInv, TypeInv
  <1>2. CASE UNCHANGED vars
    BY <1>2 DEF vars, Promise!vars
  <1>3. ASSUME NEW kind \in {"SENSOR", "FOREIGN"}, XaddSensor(kind)
        PROVE  Promise!Next
    <2>1. kind \in Kinds
      BY DEF Kinds
    <2>2. Promise!Record(kind)
      BY <1>1, <1>3, <2>1, AddedIsRecord DEF XaddSensor, historyVars
    <2> QED BY <2>1, <2>2 DEF Promise!Next
  <1>4. CASE XaddSystem
    <2>1. "OTHER" \in Kinds
      BY DEF Kinds
    <2>2. Promise!Record("OTHER")
      BY <1>1, <1>4, <2>1, AddedIsRecord DEF XaddSystem, historyVars
    <2> QED BY <2>1, <2>2 DEF Promise!Next
  <1>5. CASE SaveProcessed
    <2>1. Promise!Apply(Current) /\ Current \in 1..Len(stream)
      BY <1>5, SaveIsApply
    <2> QED BY <2>1 DEF Promise!Next
  <1>6. CASE /\ Next /\ ~SaveProcessed /\ ~XaddSystem
             /\ \A kind \in {"SENSOR", "FOREIGN"} : ~XaddSensor(kind)
    <2>1. UNCHANGED <<stream, log, checkpoint>>
      BY <1>6, OtherStepsStutter
    <2> QED BY <2>1 DEF Promise!vars
  <1> QED BY <1>2, <1>3, <1>4, <1>5, <1>6

(* Under every interleaving, loss, crash and retry the pipeline is a       *)
(* SensorLog: the stream grows, events are applied once and in order.      *)
THEOREM DeliveryKeepsPromise == Spec => Refinement
  <1> QED
    BY RefinementInit, RefinementNext, IInvAlways, PTL
    DEF Spec, Refinement, Promise!Spec
=============================================================================
