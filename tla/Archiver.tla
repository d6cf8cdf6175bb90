------------------------------ MODULE Archiver ------------------------------
(***************************************************************************)
(* apps/archiver: Redis Streams to PostgreSQL through a consumer group.    *)
(*                                                                         *)
(*   index.ts               groups, pending entries first, then new ones;  *)
(*                          write, then XACK, one stream after the other   *)
(*   archive-repository.ts  INSERT ... ON CONFLICT, the retention purge    *)
(*                                                                         *)
(* parking:stream and parking:alerts:stream are read together. An entry ID *)
(* is the position in the history of all entries: IDs are times, they grow *)
(* also when Redis loses its data, while the numbers of alerts start over. *)
(***************************************************************************)
EXTENDS Integers, Sequences, FiniteSets

CONSTANTS
  Batch,             \* BATCH: COUNT of one XREADGROUP, per stream
  MaxEntries,        \* bound: entries ever added to the two streams
  MaxAlerts,         \* bound: alert numbers of parking:seq:alert
  MaxFaults          \* bound: how often each kind of fault may happen

(* "write": a query is rejected, its effect done or not. "reply": the      *)
(* reader's connection drops with the reply to an XREADGROUP. "reset":     *)
(* Redis comes back empty. "trim": MAXLEN removes the oldest entry.        *)
FaultKinds == {"crash", "write", "reply", "reset", "trim", "purge"}

ASSUME ArchiverAssumption ==
  /\ Batch \in Nat \ {0}
  /\ MaxEntries \in Nat
  /\ MaxAlerts \in Nat
  /\ MaxFaults \in [FaultKinds -> Nat]

Streams == {"events", "alerts"}

(* An alert is known by its number and by the instant that raised it.      *)
AlertKeys == (0..MaxAlerts) \X (0..MaxEntries)
NoAlert == <<0, 0>>

(* What an entry says. "UNREADABLE": its payload does not parse.           *)
Statuses == {"EVENT", "RAISED", "RESOLVED", "UNREADABLE"}
Entries == [stream : Streams, alert : AlertKeys, status : Statuses]

VARIABLES
  \* Redis
  entries,           \* every entry ever added, in order; its ID is its index
  present,           \* IDs that are still in their stream
  groups,            \* streams whose consumer group exists
  delivered,         \* last-delivered-id of each group
  pending,           \* PEL of both groups: delivered and not confirmed
  lastAlert,         \* parking:seq:alert
  open,              \* parking:alerts:active
  \* PostgreSQL
  eventRows,         \* parking_events, by stream ID
  activeRows,        \* alerts with status ACTIVE, by key
  resolvedRows,      \* alerts with status RESOLVED, by key
  \* Archiver: lost in a crash
  pc,                \* what the consume loop does next
  drained,           \* pendingDrained
  ids,               \* entries of the reply in hand, per stream
  todo,              \* those among them that are still to be written
  \* history
  acked,             \* IDs confirmed with XACK
  written,           \* IDs whose write was done
  purged,            \* alert keys that the retention removed
  faults             \* faults so far

redisVars == <<entries, present, groups, delivered, pending, lastAlert, open>>
rowVars == <<eventRows, activeRows, resolvedRows>>
loopVars == <<pc, drained, ids, todo>>
vars == <<entries, present, groups, delivered, pending, lastAlert, open,
          eventRows, activeRows, resolvedRows, pc, drained, ids, todo,
          acked, written, purged, faults>>

Ids == 1..Len(entries)
StreamOf(id) == entries[id].stream
OfStream(S, s) == {id \in S : StreamOf(id) = s}
NoIds == [s \in Streams |-> {}]

(* parseStreamEntry and parseAlert do not return null.                     *)
Readable(id) == entries[id].status # "UNREADABLE"

(* The first COUNT entries of S, in a set.                                 *)
FirstOf(S) ==
  {T \in SUBSET S :
     /\ \A i \in T, j \in S \ T : i < j
     /\ IF Cardinality(S) < Batch THEN T = S ELSE Cardinality(T) = Batch}

Undelivered(s) == {id \in OfStream(present, s) : id > delivered[s]}

Fault(kind) ==
  /\ faults[kind] < MaxFaults[kind]
  /\ faults' = [faults EXCEPT ![kind] = @ + 1]

Init ==
  /\ entries = <<>> /\ present = {} /\ groups = {} /\ pending = {}
  /\ delivered = [s \in Streams |-> 0] /\ lastAlert = 0 /\ open = {}
  /\ eventRows = {} /\ activeRows = {} /\ resolvedRows = {}
  /\ pc = "start" /\ drained = FALSE /\ ids = NoIds /\ todo = {}
  /\ acked = {} /\ written = {} /\ purged = {}
  /\ faults = [kind \in FaultKinds |-> 0]

------------------------------------------------------------------------------
(* What the other services add, and what Redis may do to its streams.      *)

Xadd(stream, alert, status) ==
  /\ Len(entries) < MaxEntries
  /\ entries' = Append(entries, [stream |-> stream, alert |-> alert,
                                 status |-> status])
  /\ present' = present \cup {Len(entries) + 1}

AddEvent ==
  /\ Xadd("events", NoAlert, "EVENT")
  /\ UNCHANGED <<groups, delivered, pending, lastAlert, open, rowVars, loopVars,
                 acked, written, purged, faults>>

(* An entry that does not parse, in either stream: one written by another  *)
(* version of the services, or by hand.                                    *)
AddUnreadable ==
  /\ \E s \in Streams : Xadd(s, NoAlert, "UNREADABLE")
  /\ UNCHANGED <<groups, delivered, pending, lastAlert, open, rowVars, loopVars,
                 acked, written, purged, faults>>

RaiseAlert ==
  LET alert == <<lastAlert + 1, Len(entries) + 1>>
  IN  /\ lastAlert < MaxAlerts
      /\ Xadd("alerts", alert, "RAISED")
      /\ lastAlert' = lastAlert + 1
      /\ open' = open \cup {alert}
      /\ UNCHANGED <<groups, delivered, pending, rowVars, loopVars, acked,
                     written, purged, faults>>

ResolveAlert ==
  /\ \E alert \in open :
       /\ Xadd("alerts", alert, "RESOLVED")
       /\ open' = open \ {alert}
  /\ UNCHANGED <<groups, delivered, pending, lastAlert, rowVars, loopVars,
                 acked, written, purged, faults>>

(* MAXLEN removes the oldest entry of a stream, pending or not.            *)
Trim(s) ==
  /\ Fault("trim")
  /\ \E id \in OfStream(present, s) :
       /\ \A j \in OfStream(present, s) : id <= j
       /\ present' = present \ {id}
  /\ UNCHANGED <<entries, groups, delivered, pending, lastAlert, open, rowVars,
                 loopVars, acked, written, purged>>

(* Redis comes back without its data: streams, groups, counter and alerts. *)
Reset ==
  /\ Fault("reset")
  /\ present' = {} /\ groups' = {} /\ pending' = {}
  /\ delivered' = [s \in Streams |-> 0] /\ lastAlert' = 0 /\ open' = {}
  /\ UNCHANGED <<entries, rowVars, loopVars, acked, written, purged>>

------------------------------------------------------------------------------
(* The archiver.                                                           *)

(* main(): XGROUP CREATE ... 0 MKSTREAM, where there is no group yet.      *)
EnsureGroups ==
  /\ pc = "start"
  /\ groups' = Streams
  /\ pc' = "connect"
  /\ UNCHANGED <<entries, present, delivered, pending, lastAlert, open, rowVars,
                 drained, ids, todo, acked, written, purged, faults>>

(* A ping that PostgreSQL answers. Pending entries go first, if the loop   *)
(* has not drained them since it last failed.                              *)
ConnectPostgres ==
  /\ pc = "connect"
  /\ pc' = IF drained THEN "read" ELSE "drain"
  /\ UNCHANGED <<redisVars, rowVars, drained, ids, todo, acked, written, purged,
                 faults>>

(* NOGROUP from either stream: the groups are created again and the loop   *)
(* starts over.                                                            *)
NoGroup ==
  /\ pc \in {"drain", "read"}
  /\ groups # Streams
  /\ groups' = Streams
  /\ UNCHANGED <<entries, present, delivered, pending, lastAlert, open, rowVars,
                 loopVars, acked, written, purged, faults>>

(* The reply in hand. An entry trimmed since it was delivered comes without *)
(* fields, and another may not parse: both are confirmed, not written.     *)
Take(reply) ==
  /\ ids' = reply
  /\ todo' = {id \in (reply["events"] \cup reply["alerts"]) \cap present : Readable(id)}
  /\ pc' = "events"

(* drainPending: XREADGROUP ... 0 0, page after page.                      *)
ReadPending ==
  /\ pc = "drain"
  /\ groups = Streams
  /\ pending # {}
  /\ \E e \in FirstOf(OfStream(pending, "events")),
        a \in FirstOf(OfStream(pending, "alerts")) :
       Take([events |-> e, alerts |-> a])
  /\ UNCHANGED <<redisVars, rowVars, drained, acked, written, purged, faults>>

EndDrain ==
  /\ pc = "drain"
  /\ groups = Streams
  /\ pending = {}
  /\ drained' = TRUE
  /\ pc' = "read"
  /\ UNCHANGED <<redisVars, rowVars, ids, todo, acked, written, purged, faults>>

(* last-delivered-id, in a set.                                            *)
LastOf(new, before) ==
  IF new = {} THEN {before} ELSE {last \in new : \A id \in new : id <= last}

(* What XREADGROUP ... > > does to the groups.                             *)
Deliver(e, a) ==
  /\ e \cup a # {}
  /\ pending' = pending \cup e \cup a
  /\ \E i \in LastOf(e, delivered["events"]), j \in LastOf(a, delivered["alerts"]) :
       delivered' = [s \in Streams |-> IF s = "events" THEN i ELSE j]

ReadNew ==
  /\ pc = "read"
  /\ groups = Streams
  /\ \E e \in FirstOf(Undelivered("events")), a \in FirstOf(Undelivered("alerts")) :
       Deliver(e, a) /\ Take([events |-> e, alerts |-> a])
  /\ UNCHANGED <<entries, present, groups, lastAlert, open, rowVars, drained,
                 acked, written, purged, faults>>

(* The same with the reply lost: ioredis connects again and sends the same *)
(* command once more.                                                      *)
ReadNewLost ==
  /\ pc = "read"
  /\ groups = Streams
  /\ Fault("reply")
  /\ \E e \in FirstOf(Undelivered("events")), a \in FirstOf(Undelivered("alerts")) :
       Deliver(e, a)
  /\ UNCHANGED <<entries, present, groups, lastAlert, open, rowVars, loopVars,
                 acked, written, purged>>

(* INSERT ... ON CONFLICT (stream_id) DO NOTHING, all rows in one query.   *)
InsertEvents ==
  /\ eventRows' = eventRows \cup OfStream(todo, "events")
  /\ written' = written \cup OfStream(todo, "events")
  /\ UNCHANGED <<activeRows, resolvedRows>>

WriteEvents ==
  /\ pc = "events"
  /\ OfStream(todo, "events") # {}
  /\ InsertEvents
  /\ todo' = OfStream(todo, "alerts")
  /\ UNCHANGED <<redisVars, pc, drained, ids, acked, purged, faults>>

(* Mutation: the row is found by the number of the alert alone.            *)
RowsOfByNumber(key) == {row \in activeRows \cup resolvedRows : row[1] = key[1]}

(* ON CONFLICT (id, raised_at).                                            *)
RowsOf(key) == {row \in activeRows \cup resolvedRows : row = key}

(* Mutation: the update has no WHERE.                                      *)
UpdatableAlways(key) == RowsOf(key)

(* WHERE alerts.status <> 'RESOLVED'.                                      *)
Updatable(key) == RowsOf(key) \ resolvedRows

(* An alert inserts its row, or updates the one in conflict.               *)
UpsertAlert(entry) ==
  LET rows == IF RowsOf(entry.alert) = {} THEN {entry.alert}
              ELSE Updatable(entry.alert)
  IN  IF entry.status = "RAISED"
      THEN /\ activeRows' = activeRows \cup rows
           /\ resolvedRows' = resolvedRows \ rows
      ELSE /\ activeRows' = activeRows \ rows
           /\ resolvedRows' = resolvedRows \cup rows

(* One query per alert, in the order of the stream.                        *)
NextAlert(id) == id \in todo /\ \A j \in todo : id <= j

InsertAlert(id) ==
  /\ UpsertAlert(entries[id])
  /\ written' = written \cup {id}
  /\ UNCHANGED eventRows

WriteAlert ==
  /\ pc = "alerts"
  /\ \E id \in todo : NextAlert(id) /\ InsertAlert(id) /\ todo' = todo \ {id}
  /\ UNCHANGED <<redisVars, pc, drained, ids, acked, purged, faults>>

(* Mutation: XACK does not wait for the rows.                              *)
WriteDoneTooEarly(s) == TRUE

WriteDone(s) == OfStream(todo, s) = {}

(* XACK of every ID of the stream, those without fields too.               *)
Ack(s, next) ==
  /\ pc = s
  /\ WriteDone(s)
  /\ pending' = pending \ ids[s]
  /\ acked' = acked \cup ids[s]
  /\ ids' = [ids EXCEPT ![s] = {}]
  /\ pc' = next
  /\ UNCHANGED <<entries, present, groups, delivered, lastAlert, open, rowVars,
                 drained, written, purged, faults>>

AckEvents == Ack("events", "alerts") /\ UNCHANGED todo

(* The batch is over: another page of pending entries, or new ones.        *)
AckAlerts == Ack("alerts", IF drained THEN "read" ELSE "drain") /\ todo' = {}

(* Mutation: a failure leaves pendingDrained as it was.                    *)
DrainForgotten == drained

(* pendingDrained = false.                                                 *)
DrainAgain == FALSE

(* A query is rejected, and PostgreSQL may have done it all the same. The  *)
(* rest of the reply is left pending and the loop connects again.          *)
WriteFails ==
  /\ pc \in {"events", "alerts"} /\ ~WriteDone(pc)
  /\ Fault("write")
  /\ \/ UNCHANGED <<rowVars, written>>
     \/ pc = "events" /\ InsertEvents
     \/ pc = "alerts" /\ \E id \in todo : NextAlert(id) /\ InsertAlert(id)
  /\ pc' = "connect"
  /\ drained' = DrainAgain
  /\ ids' = NoIds /\ todo' = {}
  /\ UNCHANGED <<redisVars, acked, purged>>

(* purgeOlderThan, on its own timer: rows before some instant. An alert    *)
(* that was never resolved stays.                                          *)
Purge ==
  /\ pc \notin {"start", "connect"}
  /\ Fault("purge")
  /\ \E cut \in Ids :
       LET old == {key \in resolvedRows : key[2] <= cut}
       IN  /\ eventRows' = {id \in eventRows : id > cut}
           /\ resolvedRows' = resolvedRows \ old
           /\ purged' = purged \cup old
  /\ UNCHANGED <<redisVars, activeRows, loopVars, acked, written>>

(* The process stops anywhere and Docker starts it again.                  *)
Crash ==
  /\ pc # "start"
  /\ Fault("crash")
  /\ pc' = "start" /\ drained' = FALSE /\ ids' = NoIds /\ todo' = {}
  /\ UNCHANGED <<redisVars, rowVars, acked, written, purged>>

Environment ==
  \/ AddEvent
  \/ AddUnreadable
  \/ RaiseAlert
  \/ ResolveAlert
  \/ \E s \in Streams : Trim(s)
  \/ Reset

Work ==
  \/ EnsureGroups
  \/ ConnectPostgres
  \/ NoGroup
  \/ ReadPending
  \/ EndDrain
  \/ ReadNew
  \/ WriteEvents
  \/ WriteAlert
  \/ AckEvents
  \/ AckAlerts

Next ==
  \/ Environment
  \/ Work
  \/ ReadNewLost
  \/ WriteFails
  \/ Purge
  \/ Crash

Spec == Init /\ [][Next]_vars

(* The loop never stops by itself: it waits for Redis and for PostgreSQL,  *)
(* both of which answer in the end, and restart: unless-stopped brings the *)
(* process back.                                                           *)
FairSpec == Spec /\ WF_vars(Work)

------------------------------------------------------------------------------
(* Properties                                                              *)

TypeOK ==
  /\ entries \in Seq(Entries)
  /\ present \subseteq Ids
  /\ groups \subseteq Streams
  /\ delivered \in [Streams -> 0..Len(entries)]
  /\ pending \subseteq Ids
  /\ lastAlert \in 0..MaxAlerts
  /\ open \subseteq AlertKeys
  /\ eventRows \subseteq Ids
  /\ activeRows \subseteq AlertKeys
  /\ resolvedRows \subseteq AlertKeys
  /\ pc \in {"start", "connect", "drain", "read", "events", "alerts"}
  /\ drained \in BOOLEAN
  /\ ids \in [Streams -> SUBSET Ids]
  /\ todo \subseteq Ids
  /\ acked \subseteq Ids
  /\ written \subseteq Ids
  /\ purged \subseteq AlertKeys
  /\ faults \in [FaultKinds -> Nat]

(* "Confirmacion solo despues de escribir": nothing is confirmed that was  *)
(* not written, unless the stream had dropped it or it does not parse. A   *)
(* redelivery, a failed query or a crash between the two streams of a      *)
(* batch changes nothing.                                                  *)
AckedIsArchived ==
  \A id \in acked \cap present : Readable(id) => id \in written

ResolutionWritten(key) ==
  \E id \in written : entries[id].alert = key /\ entries[id].status = "RESOLVED"

(* The alerts table says of every alert what the last of its entries that  *)
(* was archived says, although RAISED may be delivered again after         *)
(* RESOLVED: an alert that was closed does not reopen.                     *)
AlertRowsCurrent ==
  /\ activeRows \cap resolvedRows = {}
  /\ \A key \in (activeRows \cup resolvedRows) \ purged :
       key \in resolvedRows <=> ResolutionWritten(key)

(* An alert that is active in Redis and whose RAISED was archived is       *)
(* active in PostgreSQL, also when Redis lost its data and the numbers of  *)
(* the alerts started over.                                                *)
OpenAlertsAreActive ==
  \A id \in written :
    entries[id].status = "RAISED" /\ entries[id].alert \in open
      => entries[id].alert \in activeRows

(* The loop asks for new entries only when it left none behind.            *)
NothingForgotten ==
  pc = "read" /\ faults["reply"] = 0 => pending = {}

(* architecture.md: what was read without XACK is retried. No entry that   *)
(* the group delivered stays pending for ever. It does not hold once a     *)
(* reply of XREADGROUP is lost: only an error makes the loop look back.    *)
PendingIsRetried ==
  \A id \in 1..MaxEntries : id \in pending ~> id \notin pending

LostReply == faults["reply"] > 0

(* Every entry is archived in the end, unless the stream drops it first or *)
(* a reply is lost; one that does not parse is confirmed in the end, so    *)
(* that it does not keep the loop from going on.                           *)
EveryEntryIsArchived ==
  \A id \in 1..MaxEntries :
    id \in present ~> \/ id \notin present \/ LostReply
                     \/ IF Readable(id) THEN id \in written ELSE id \in acked
==============================================================================
