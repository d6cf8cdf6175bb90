---------------------------- MODULE ArchiveProofs -----------------------------
(***************************************************************************)
(* Proofs about Archiver for every batch size, every number of entries and *)
(* alerts and any number of faults.                                        *)
(*                                                                         *)
(* Proofs about ArchiveReports, in the second part, for any zones,         *)
(* retention and bounds: when the archiver calls PostgreSQL ready, the     *)
(* tables and the zones that its snapshots refer to are there; the Backend *)
(* shows PostgreSQL as it is; reports within the retention are complete.   *)
(***************************************************************************)
EXTENDS Archiver, ArchiveReports, FiniteSetTheorems, TLAPS

IsResolution(id) == entries[id].status = "RESOLVED"

(* What the entries of the two streams say.                                *)
History ==
  /\ \A key \in open : key[2] <= Len(entries)
  /\ \A id \in Ids : /\ Readable(id) =>
                          (StreamOf(id) = "events" <=> entries[id].status = "EVENT")
                     /\ entries[id].alert[2] <= Len(entries)
                     /\ IsResolution(id) => entries[id].alert \notin open

(* The reply in hand: what it still holds is to be written or written.     *)
Reply ==
  /\ \A s \in Streams : \A id \in ids[s] : StreamOf(id) = s
  /\ \A id \in (ids["events"] \cup ids["alerts"]) \cap present :
       Readable(id) => id \in todo \cup written
  /\ \A id \in todo : Readable(id)
  /\ pc = "alerts" => ids["events"] = {} /\ OfStream(todo, "events") = {}
  /\ pc \notin {"events", "alerts"} => ids["events"] = {} /\ ids["alerts"] = {}

(* The tables and what was written: also for alerts that were purged.      *)
Rows ==
  /\ activeRows \cap resolvedRows = {}
  /\ \A key \in resolvedRows \cup purged : ResolutionWritten(key)
  /\ \A id \in written :
       /\ IsResolution(id) => entries[id].alert \in resolvedRows \cup purged
       /\ entries[id].status = "RAISED" =>
            entries[id].alert \in activeRows \cup resolvedRows \cup purged

(* Entries left behind: only by a failure, and then the loop knows.        *)
Drained ==
  /\ pc = "read" => drained
  /\ pc = "drain" => ~drained
  /\ drained /\ faults["reply"] = 0 =>
       pending \subseteq ids["events"] \cup ids["alerts"]

IInv == TypeOK /\ History /\ Reply /\ Rows /\ Drained /\ AckedIsArchived

LEMMA FirstOfIsPart ==
  ASSUME NEW S, NEW T \in FirstOf(S)
  PROVE  T \subseteq S
  BY DEF FirstOf

(* The position kept for a stream is that of an entry, or the one before.  *)
LEMMA LastOfType ==
  ASSUME NEW new, NEW before, NEW last \in LastOf(new, before)
  PROVE  last \in new \/ last = before
  BY DEF LastOf

LEMMA FaultType ==
  ASSUME faults \in [FaultKinds -> Nat], NEW kind \in FaultKinds, Fault(kind)
  PROVE  /\ faults' \in [FaultKinds -> Nat]
         /\ faults'[kind] > 0
         /\ faults'["reply"] = 0 => faults["reply"] = 0
  BY DEF Fault, FaultKinds

LEMMA EntryType ==
  ASSUME entries \in Seq(Entries), NEW id \in Ids
  PROVE  /\ entries[id].stream \in Streams
         /\ entries[id].alert \in AlertKeys
         /\ entries[id].status \in Statuses
  <1>1. entries[id] \in Entries
    BY DEF Ids
  <1> QED BY <1>1 DEF Entries

(* What appending an entry leaves as it was.                               *)
LEMMA XaddKeeps ==
  ASSUME TypeOK, NEW stream \in Streams, NEW alert \in AlertKeys,
         NEW status \in Statuses, Xadd(stream, alert, status)
  PROVE  /\ entries' \in Seq(Entries)
         /\ Len(entries') = Len(entries) + 1
         /\ Len(entries) \in Nat /\ Len(entries) < MaxEntries
         /\ \A id \in Ids : entries'[id] = entries[id]
         /\ entries'[Len(entries) + 1] =
              [stream |-> stream, alert |-> alert, status |-> status]
         /\ Ids \subseteq Ids' /\ Ids' = Ids \cup {Len(entries) + 1}
         /\ Len(entries) + 1 \notin Ids
         /\ present' = present \cup {Len(entries) + 1}
  <1>1. [stream |-> stream, alert |-> alert, status |-> status] \in Entries
    BY DEF Entries, Streams
  <1>2. entries \in Seq(Entries) /\ Len(entries) \in Nat
    BY DEF TypeOK
  <1> QED BY <1>1, <1>2, ArchiverAssumption DEF Xadd, Ids

LEMMA InitHolds == Init => IInv
  <1> SUFFICES ASSUME Init PROVE IInv
    OBVIOUS
  <1>1. Len(entries) = 0 /\ Ids = {}
    BY DEF Init, Ids
  <1>2. TypeOK
    <2>1. entries \in Seq(Entries) /\ delivered \in [Streams -> 0..Len(entries)]
      BY <1>1 DEF Init
    <2>2. lastAlert \in 0..MaxAlerts /\ faults \in [FaultKinds -> Nat]
      BY ArchiverAssumption DEF Init
    <2>3. ids \in [Streams -> SUBSET Ids]
      BY <1>1 DEF Init, NoIds
    <2> QED BY <2>1, <2>2, <2>3 DEF Init, TypeOK
  <1>3. History /\ Rows /\ AckedIsArchived
    BY <1>1 DEF Init, History, Rows, AckedIsArchived
  <1>4. Reply /\ Drained
    BY <1>1 DEF Init, Reply, Drained, NoIds, Streams
  <1> QED BY <1>2, <1>3, <1>4 DEF IInv

------------------------------------------------------------------------------
(* Every step keeps the types.                                             *)
LEMMA TypeStep ==
  ASSUME TypeOK, [Next]_vars
  PROVE  TypeOK'
  <1> USE DEF redisVars, rowVars, loopVars
  <1>1. ASSUME NEW stream \in Streams, NEW alert \in AlertKeys,
               NEW status \in Statuses,
               Xadd(stream, alert, status), lastAlert' \in 0..MaxAlerts,
               open' \subseteq AlertKeys,
               UNCHANGED <<groups, delivered, pending, rowVars, loopVars, acked,
                           written, purged, faults>>
        PROVE  TypeOK'
    <2>1. /\ entries' \in Seq(Entries) /\ Len(entries') = Len(entries) + 1
          /\ Len(entries) \in Nat /\ Ids' = Ids \cup {Len(entries) + 1}
          /\ present' = present \cup {Len(entries) + 1}
      BY <1>1, XaddKeeps
    <2>2. delivered' \in [Streams -> 0..Len(entries')]
      BY <1>1, <2>1 DEF TypeOK
    <2>3. ids' \in [Streams -> SUBSET Ids']
      BY <1>1, <2>1 DEF TypeOK
    <2> QED BY <1>1, <2>1, <2>2, <2>3 DEF TypeOK
  <1>2. CASE AddEvent
    <2>1. NoAlert \in AlertKeys
      BY ArchiverAssumption DEF NoAlert, AlertKeys
    <2> QED BY <1>1, <1>2, <2>1 DEF AddEvent, Streams, Statuses, TypeOK
  <1>21. CASE AddUnreadable
    <2>1. NoAlert \in AlertKeys
      BY ArchiverAssumption DEF NoAlert, AlertKeys
    <2> QED BY <1>1, <1>21, <2>1 DEF AddUnreadable, Statuses, TypeOK
  <1>3. CASE RaiseAlert
    <2>1. <<lastAlert + 1, Len(entries) + 1>> \in AlertKeys
      BY <1>3, ArchiverAssumption DEF RaiseAlert, Xadd, TypeOK, AlertKeys
    <2>2. lastAlert' \in 0..MaxAlerts
      BY <1>3, ArchiverAssumption DEF RaiseAlert, TypeOK
    <2> QED BY <1>1, <1>3, <2>1, <2>2 DEF RaiseAlert, Streams, Statuses, TypeOK
  <1>4. CASE ResolveAlert
    BY <1>1, <1>4 DEF ResolveAlert, Streams, Statuses, TypeOK
  <1>5. ASSUME NEW s \in Streams, Trim(s) PROVE TypeOK'
    BY <1>5, FaultType DEF Trim, TypeOK, Ids, FaultKinds
  <1>6. CASE Reset
    <2>1. faults' \in [FaultKinds -> Nat]
      BY <1>6, FaultType DEF Reset, TypeOK, FaultKinds
    <2>2. Len(entries) \in Nat /\ Ids' = Ids /\ 0 \in 0..MaxAlerts
      BY <1>6, ArchiverAssumption DEF Reset, TypeOK, Ids
    <2> QED BY <1>6, <2>1, <2>2 DEF Reset, TypeOK
  <1>7. CASE EnsureGroups \/ ConnectPostgres \/ NoGroup \/ EndDrain
    BY <1>7 DEF EnsureGroups, ConnectPostgres, NoGroup, EndDrain, TypeOK, Ids
  <1>8. ASSUME NEW e \in SUBSET Ids, NEW a \in SUBSET Ids, UNCHANGED <<entries, present>>,
               Take([events |-> e, alerts |-> a])
        PROVE  /\ ids' \in [Streams -> SUBSET Ids'] /\ todo' \subseteq Ids'
               /\ pc' = "events"
    <2>1. Ids' = Ids
      BY <1>8 DEF Ids
    <2>2. ids' = [events |-> e, alerts |-> a] /\ todo' \subseteq e \cup a /\ pc' = "events"
      BY <1>8 DEF Take
    <2> QED BY <2>1, <2>2 DEF Streams
  <1>9. CASE ReadPending
    <2>1. PICK e \in FirstOf(OfStream(pending, "events")),
               a \in FirstOf(OfStream(pending, "alerts")) :
                 Take([events |-> e, alerts |-> a])
      BY <1>9 DEF ReadPending
    <2>2. e \in SUBSET Ids /\ a \in SUBSET Ids
      BY FirstOfIsPart DEF OfStream, TypeOK
    <2> QED BY <1>8, <1>9, <2>1, <2>2 DEF ReadPending, TypeOK, Ids
  <1>10. ASSUME NEW e \in FirstOf(Undelivered("events")),
                NEW a \in FirstOf(Undelivered("alerts")), Deliver(e, a)
         PROVE  /\ e \in SUBSET Ids /\ a \in SUBSET Ids
                /\ pending' \subseteq Ids /\ delivered' \in [Streams -> 0..Len(entries)]
    <2>1. e \in SUBSET Ids /\ a \in SUBSET Ids
      BY FirstOfIsPart DEF Undelivered, OfStream, TypeOK
    <2>2. PICK i \in LastOf(e, delivered["events"]), j \in LastOf(a, delivered["alerts"]) :
            delivered' = [s \in Streams |-> IF s = "events" THEN i ELSE j]
      BY <1>10 DEF Deliver
    <2>3. (i \in Ids \/ i \in 0..Len(entries)) /\ (j \in Ids \/ j \in 0..Len(entries))
      BY <2>1, LastOfType DEF TypeOK, Streams
    <2>4. Len(entries) \in Nat
      BY DEF TypeOK
    <2> QED BY <1>10, <2>1, <2>2, <2>3, <2>4 DEF Deliver, TypeOK, Ids
  <1>11. CASE ReadNew
    BY <1>8, <1>10, <1>11 DEF ReadNew, TypeOK, Ids
  <1>12. CASE ReadNewLost
    BY <1>10, <1>12, FaultType DEF ReadNewLost, TypeOK, Ids, FaultKinds
  <1>13. CASE WriteEvents
    BY <1>13 DEF WriteEvents, InsertEvents, OfStream, TypeOK, Ids
  <1>14. ASSUME NEW id \in todo, InsertAlert(id), UNCHANGED entries
         PROVE  /\ eventRows' \subseteq Ids' /\ written' \subseteq Ids'
                /\ activeRows' \subseteq AlertKeys /\ resolvedRows' \subseteq AlertKeys
    <2>1. id \in Ids /\ entries[id].alert \in AlertKeys
      BY EntryType DEF TypeOK
    <2> QED BY <1>14, <2>1 DEF InsertAlert, UpsertAlert, RowsOf, Updatable, TypeOK, Ids
  <1>15. CASE WriteAlert
    BY <1>14, <1>15 DEF WriteAlert, TypeOK, Ids
  <1>16. CASE AckEvents \/ AckAlerts
    BY <1>16 DEF AckEvents, AckAlerts, Ack, TypeOK, Ids, Streams
  <1>17. CASE WriteFails
    <2>1. faults' \in [FaultKinds -> Nat]
      BY <1>17, FaultType DEF WriteFails, TypeOK, FaultKinds
    <2>2. /\ eventRows' \subseteq Ids' /\ written' \subseteq Ids'
          /\ activeRows' \subseteq AlertKeys /\ resolvedRows' \subseteq AlertKeys
      BY <1>14, <1>17 DEF WriteFails, InsertEvents, OfStream, TypeOK, Ids
    <2>3. ids' \in [Streams -> SUBSET Ids']
      BY <1>17 DEF WriteFails, NoIds
    <2> QED BY <1>17, <2>1, <2>2, <2>3 DEF WriteFails, DrainAgain, TypeOK, Ids
  <1>18. CASE Purge
    BY <1>18, FaultType DEF Purge, TypeOK, Ids, FaultKinds
  <1>19. CASE Crash
    BY <1>19, FaultType DEF Crash, TypeOK, Ids, FaultKinds, NoIds
  <1>20. CASE UNCHANGED vars
    BY <1>20 DEF vars, TypeOK, Ids
  <1> QED
    BY <1>2, <1>3, <1>4, <1>5, <1>6, <1>7, <1>9, <1>11, <1>12, <1>13, <1>15, <1>16,
       <1>17, <1>18, <1>19, <1>20, <1>21
    DEF Next, Environment, Work

------------------------------------------------------------------------------
(* Entries do not change; an alert whose RESOLVED was added is not open,   *)
(* and the key of a new alert is that of no other entry.                   *)
LEMMA HistoryStep ==
  ASSUME TypeOK, History, [Next]_vars
  PROVE  History'
  <1> USE DEF redisVars, rowVars, loopVars
  <1>1. ASSUME NEW stream \in Streams, NEW alert \in AlertKeys,
               NEW status \in Statuses,
               Xadd(stream, alert, status),
               status # "UNREADABLE" => (stream = "events" <=> status = "EVENT"),
               alert[2] <= Len(entries) + 1,
               \A id \in Ids : IsResolution(id) => entries[id].alert \notin open',
               status = "RESOLVED" => alert \notin open',
               \A key \in open' : key \in open \cup {alert}
        PROVE  History'
    <2>1. /\ Len(entries') = Len(entries) + 1 /\ Len(entries) \in Nat
          /\ \A id \in Ids : entries'[id] = entries[id]
          /\ entries'[Len(entries) + 1] =
               [stream |-> stream, alert |-> alert, status |-> status]
          /\ Ids' = Ids \cup {Len(entries) + 1}
      BY <1>1, XaddKeeps
    <2>4. \A key \in open' : key[2] <= Len(entries')
      <3>1. \A key \in open : key[2] \in Int
        BY ArchiverAssumption DEF TypeOK, AlertKeys
      <3> QED BY <1>1, <2>1, <3>1 DEF History
    <2> SUFFICES ASSUME NEW id \in Ids'
                 PROVE  /\ entries'[id].status # "UNREADABLE" =>
                             (entries'[id].stream = "events" <=>
                                entries'[id].status = "EVENT")
                        /\ entries'[id].alert[2] <= Len(entries')
                        /\ entries'[id].status = "RESOLVED" => entries'[id].alert \notin open'
      BY <2>4 DEF History, StreamOf, IsResolution, Readable
    <2>2. CASE id \in Ids
      <3>1. entries[id].alert[2] \in Int
        BY <2>2, EntryType, ArchiverAssumption DEF TypeOK, AlertKeys
      <3> QED BY <1>1, <2>1, <2>2, <3>1 DEF History, StreamOf, IsResolution, Readable
    <2>3. CASE id = Len(entries) + 1
      BY <1>1, <2>1, <2>3
    <2> QED BY <2>1, <2>2, <2>3
  <1>2. CASE AddEvent
    <2>1. NoAlert \in AlertKeys /\ NoAlert[2] <= Len(entries) + 1
      BY ArchiverAssumption DEF NoAlert, AlertKeys, TypeOK
    <2> QED BY <1>1, <1>2, <2>1 DEF AddEvent, Streams, Statuses, History
  <1>7. CASE AddUnreadable
    <2>1. NoAlert \in AlertKeys /\ NoAlert[2] <= Len(entries) + 1
      BY ArchiverAssumption DEF NoAlert, AlertKeys, TypeOK
    <2>2. PICK stream \in Streams : Xadd(stream, NoAlert, "UNREADABLE")
      BY <1>7 DEF AddUnreadable
    <2> QED BY <1>1, <1>7, <2>1, <2>2 DEF AddUnreadable, Statuses, History
  <1>3. CASE RaiseAlert
    <2> DEFINE alert == <<lastAlert + 1, Len(entries) + 1>>
    <2>1. alert \in AlertKeys /\ alert[2] = Len(entries) + 1 /\ Len(entries) \in Nat
      BY <1>3, ArchiverAssumption DEF RaiseAlert, Xadd, TypeOK, AlertKeys
    <2>2. \A id \in Ids : entries[id].alert # alert
      <3> SUFFICES ASSUME NEW id \in Ids, entries[id].alert = alert
                   PROVE  FALSE
        OBVIOUS
      <3> QED BY <2>1 DEF History
    <2>3. Xadd("alerts", alert, "RAISED") /\ open' = open \cup {alert}
      BY <1>3 DEF RaiseAlert
    <2> HIDE DEF alert
    <2> QED BY <1>1, <2>1, <2>2, <2>3 DEF Streams, Statuses, History
  <1>4. CASE ResolveAlert
    <2>1. PICK alert \in open : /\ Xadd("alerts", alert, "RESOLVED")
                                /\ open' = open \ {alert}
      BY <1>4 DEF ResolveAlert
    <2>2. alert[2] \in Int /\ alert \in AlertKeys /\ Len(entries) \in Nat
      BY ArchiverAssumption DEF TypeOK, AlertKeys
    <2>3. alert[2] <= Len(entries) + 1
      BY <2>2 DEF History
    <2> QED BY <1>1, <2>1, <2>2, <2>3 DEF Streams, Statuses, History
  <1>5. ASSUME UNCHANGED entries, open' \subseteq open PROVE History'
    BY <1>5 DEF History, StreamOf, IsResolution, Readable, Ids
  <1>6. CASE UNCHANGED vars
    BY <1>5, <1>6 DEF vars
  <1> QED
    BY <1>2, <1>3, <1>4, <1>5, <1>6, <1>7
    DEF Next, Environment, Work, Trim, Reset, EnsureGroups, ConnectPostgres, NoGroup,
        ReadPending, EndDrain, ReadNew, ReadNewLost, WriteEvents, WriteAlert,
        AckEvents, AckAlerts, Ack, WriteFails, Purge, Crash, TypeOK

------------------------------------------------------------------------------
(* The reply in hand is part of what is to be written or was written.      *)
LEMMA ReplyStep ==
  ASSUME TypeOK, Reply, [Next]_vars
  PROVE  Reply'
  <1> USE DEF redisVars, rowVars, loopVars
  <1>1. ASSUME NEW stream \in Streams, NEW alert \in AlertKeys,
               NEW status \in Statuses, Xadd(stream, alert, status),
               UNCHANGED <<loopVars, written>>
        PROVE  Reply'
    <2>1. /\ \A id \in Ids : entries'[id] = entries[id]
          /\ Len(entries) + 1 \notin Ids
          /\ present' = present \cup {Len(entries) + 1}
      BY <1>1, XaddKeeps
    <2>2. todo \subseteq Ids /\ \A s \in Streams : ids[s] \subseteq Ids
      BY DEF TypeOK
    <2>3. "events" \in Streams /\ "alerts" \in Streams
      BY DEF Streams
    <2> QED BY <1>1, <2>1, <2>2, <2>3 DEF Reply, StreamOf, OfStream, Readable
  <1>2. ASSUME NEW e \in SUBSET Ids, NEW a \in SUBSET Ids,
               \A id \in e : StreamOf(id) = "events", \A id \in a : StreamOf(id) = "alerts",
               Take([events |-> e, alerts |-> a]), UNCHANGED <<entries, present>>
        PROVE  Reply'
    BY <1>2 DEF Take, Reply, StreamOf, Readable, Streams
  <1>3. CASE AddEvent \/ AddUnreadable \/ RaiseAlert \/ ResolveAlert
    <2>4. NoAlert \in AlertKeys
      BY ArchiverAssumption DEF NoAlert, AlertKeys
    <2>1. CASE AddEvent
      BY <1>1, <2>1, <2>4 DEF AddEvent, Statuses, Streams
    <2>5. CASE AddUnreadable
      BY <1>1, <2>4, <2>5 DEF AddUnreadable, Statuses
    <2>2. CASE RaiseAlert
      <3>1. <<lastAlert + 1, Len(entries) + 1>> \in AlertKeys
        BY <2>2, ArchiverAssumption DEF RaiseAlert, Xadd, TypeOK, AlertKeys
      <3> QED BY <1>1, <2>2, <3>1 DEF RaiseAlert, Statuses, Streams
    <2>3. CASE ResolveAlert
      BY <1>1, <2>3 DEF ResolveAlert, TypeOK, Statuses, Streams
    <2> QED BY <1>3, <2>1, <2>2, <2>3, <2>5
  <1>4. ASSUME NEW s \in Streams, Trim(s) PROVE Reply'
    BY <1>4 DEF Trim, Reply, StreamOf, OfStream, Readable
  <1>5. CASE Reset
    BY <1>5 DEF Reset, Reply, StreamOf, OfStream, Readable
  <1>6. CASE EnsureGroups \/ ConnectPostgres \/ NoGroup \/ EndDrain
    BY <1>6
    DEF EnsureGroups, ConnectPostgres, NoGroup, EndDrain, Reply, StreamOf, OfStream, Readable
  <1>7. CASE ReadPending
    <2>1. PICK e \in FirstOf(OfStream(pending, "events")),
               a \in FirstOf(OfStream(pending, "alerts")) :
                 Take([events |-> e, alerts |-> a])
      BY <1>7 DEF ReadPending
    <2>2. /\ e \in SUBSET Ids /\ \A id \in e : StreamOf(id) = "events"
          /\ a \in SUBSET Ids /\ \A id \in a : StreamOf(id) = "alerts"
      BY FirstOfIsPart DEF OfStream, TypeOK
    <2> QED BY <1>2, <1>7, <2>1, <2>2 DEF ReadPending
  <1>8. CASE ReadNew
    <2>1. PICK e \in FirstOf(Undelivered("events")), a \in FirstOf(Undelivered("alerts")) :
                 Take([events |-> e, alerts |-> a])
      BY <1>8 DEF ReadNew
    <2>2. /\ e \in SUBSET Ids /\ \A id \in e : StreamOf(id) = "events"
          /\ a \in SUBSET Ids /\ \A id \in a : StreamOf(id) = "alerts"
      BY FirstOfIsPart DEF Undelivered, OfStream, TypeOK
    <2> QED BY <1>2, <1>8, <2>1, <2>2 DEF ReadNew
  <1>9. CASE ReadNewLost
    BY <1>9 DEF ReadNewLost, Reply, StreamOf, OfStream, Readable
  <1>10. CASE WriteEvents
    BY <1>10 DEF WriteEvents, InsertEvents, Reply, StreamOf, OfStream, Readable, Streams
  <1>11. CASE WriteAlert
    BY <1>11 DEF WriteAlert, InsertAlert, Reply, StreamOf, OfStream, Readable
  <1>12. CASE AckEvents
    BY <1>12
    DEF AckEvents, Ack, WriteDone, Reply, StreamOf, OfStream, Readable, TypeOK, Streams
  <1>13. CASE AckAlerts
    <2>1. \A id \in ids["alerts"] \cap present : Readable(id) => id \in written
      BY <1>13 DEF AckAlerts, Ack, WriteDone, Reply, StreamOf, OfStream, Streams
    <2> QED
      BY <1>13, <2>1 DEF AckAlerts, Ack, Reply, StreamOf, OfStream, Readable, TypeOK, Streams
  <1>14. CASE WriteFails \/ Crash
    BY <1>14 DEF WriteFails, Crash, NoIds, Reply, StreamOf, OfStream, Readable, Streams
  <1>15. CASE Purge \/ UNCHANGED vars
    BY <1>15 DEF Purge, vars, Reply, StreamOf, OfStream, Readable
  <1> QED
    BY <1>3, <1>4, <1>5, <1>6, <1>7, <1>8, <1>9, <1>10, <1>11, <1>12, <1>13, <1>14, <1>15
    DEF Next, Environment, Work

(* Nothing is confirmed before it is written.                              *)
LEMMA AckedStep ==
  ASSUME TypeOK, Reply, AckedIsArchived, [Next]_vars
  PROVE  AckedIsArchived'
  <1> USE DEF redisVars, rowVars, loopVars
  <1>1. ASSUME NEW stream \in Streams, NEW alert \in AlertKeys,
               NEW status \in Statuses,
               Xadd(stream, alert, status), UNCHANGED <<acked, written>>
        PROVE  AckedIsArchived'
    <2>1. /\ present' = present \cup {Len(entries) + 1} /\ Len(entries) + 1 \notin Ids
          /\ \A id \in Ids : entries'[id] = entries[id]
      BY <1>1, XaddKeeps
    <2> QED BY <1>1, <2>1 DEF AckedIsArchived, Readable, TypeOK
  <1>2. CASE AddEvent \/ AddUnreadable \/ RaiseAlert \/ ResolveAlert
    <2>1. NoAlert \in AlertKeys
      BY ArchiverAssumption DEF NoAlert, AlertKeys
    <2>2. RaiseAlert => <<lastAlert + 1, Len(entries) + 1>> \in AlertKeys
      BY ArchiverAssumption DEF RaiseAlert, Xadd, TypeOK, AlertKeys
    <2>3. CASE AddEvent
      BY <1>1, <2>1, <2>3 DEF AddEvent, Streams, Statuses
    <2>6. CASE AddUnreadable
      BY <1>1, <2>1, <2>6 DEF AddUnreadable, Statuses
    <2>4. CASE RaiseAlert
      BY <1>1, <2>2, <2>4 DEF RaiseAlert, Streams, Statuses
    <2>5. CASE ResolveAlert
      BY <1>1, <2>5 DEF ResolveAlert, TypeOK, Streams, Statuses
    <2> QED BY <1>2, <2>3, <2>4, <2>5, <2>6
  <1>3. CASE AckEvents \/ AckAlerts
    <2>1. ASSUME NEW s \in Streams, WriteDone(s), NEW id \in ids[s] \cap present, Readable(id)
          PROVE  id \in written
      BY <2>1 DEF WriteDone, Reply, OfStream, Streams
    <2> QED BY <1>3, <2>1 DEF AckEvents, AckAlerts, Ack, AckedIsArchived, Readable, Streams
  <1>4. ASSUME present' \subseteq present, acked' = acked, written \subseteq written',
               entries' = entries
        PROVE  AckedIsArchived'
    BY <1>4 DEF AckedIsArchived, Readable
  <1>5. written' = written \/ (\E S : written' = written \cup S) => written \subseteq written'
    OBVIOUS
  <1> QED
    BY <1>2, <1>3, <1>4, <1>5
    DEF Next, Environment, Work, Trim, Reset, EnsureGroups, ConnectPostgres, NoGroup,
        ReadPending, EndDrain, ReadNew, ReadNewLost, WriteEvents, InsertEvents,
        WriteAlert, InsertAlert, WriteFails, Purge, Crash, vars

------------------------------------------------------------------------------
(* One alert written: the row is active until a RESOLVED was written.      *)
LEMMA InsertAlertKeepsRows ==
  ASSUME TypeOK, History, Rows, NEW id \in Ids, StreamOf(id) = "alerts", Readable(id),
         InsertAlert(id), UNCHANGED <<entries, purged>>
  PROVE  Rows'
  <1> DEFINE key == entries[id].alert
             found == IF RowsOf(key) = {} THEN {key} ELSE Updatable(key)
  <1>1. written' = written \cup {id} /\ entries' = entries /\ purged' = purged
    BY DEF InsertAlert
  <1>2. /\ found \subseteq {key}
        /\ key \in resolvedRows => found = {}
        /\ key \notin resolvedRows => found = {key}
    BY DEF RowsOf, Updatable
  <1>3. CASE entries[id].status = "RAISED"
    <2>1. activeRows' = activeRows \cup found /\ resolvedRows' = resolvedRows
      BY <1>2, <1>3 DEF InsertAlert, UpsertAlert, Rows
    <2>2. ~IsResolution(id) /\ \A k : ResolutionWritten(k)' <=> ResolutionWritten(k)
      BY <1>1, <1>3 DEF ResolutionWritten, IsResolution
    <2>3. key \in activeRows' \cup resolvedRows'
      BY <1>2, <2>1
    <2>4. activeRows' \cap resolvedRows' = {}
      BY <1>2, <2>1 DEF Rows
    <2>5. \A k \in resolvedRows' \cup purged' : ResolutionWritten(k)'
      BY <1>1, <2>1, <2>2 DEF Rows
    <2>6. \A i \in written' :
            /\ IsResolution(i)' => entries'[i].alert \in resolvedRows' \cup purged'
            /\ entries'[i].status = "RAISED" =>
                 entries'[i].alert \in activeRows' \cup resolvedRows' \cup purged'
      BY <1>1, <1>3, <2>1, <2>3 DEF Rows, IsResolution
    <2> QED BY <2>4, <2>5, <2>6 DEF Rows
  <1>4. CASE entries[id].status = "RESOLVED"
    <2>1. activeRows' = activeRows \ found /\ resolvedRows' = resolvedRows \cup found
      BY <1>4 DEF InsertAlert, UpsertAlert
    <2>2. key \in resolvedRows' /\ activeRows' \cap resolvedRows' = {}
      BY <1>2, <2>1 DEF Rows
    <2>3. ResolutionWritten(key)' /\ \A k : ResolutionWritten(k) => ResolutionWritten(k)'
      BY <1>1, <1>4 DEF ResolutionWritten
    <2>4. \A k \in resolvedRows' \cup purged' : ResolutionWritten(k)'
      BY <1>1, <1>2, <2>1, <2>3 DEF Rows
    <2>5. /\ activeRows \subseteq activeRows' \cup resolvedRows'
          /\ resolvedRows \subseteq resolvedRows'
      BY <2>1
    <2>6. \A i \in written' :
            /\ IsResolution(i)' => entries'[i].alert \in resolvedRows' \cup purged'
            /\ entries'[i].status = "RAISED" =>
                 entries'[i].alert \in activeRows' \cup resolvedRows' \cup purged'
      BY <1>1, <1>4, <2>2, <2>5 DEF Rows, IsResolution
    <2> QED BY <2>2, <2>4, <2>6 DEF Rows
  <1>5. entries[id].status \in {"RAISED", "RESOLVED"}
    BY EntryType DEF History, Readable, Statuses, TypeOK
  <1> QED BY <1>3, <1>4, <1>5

LEMMA InsertEventsKeepsRows ==
  ASSUME TypeOK, History, Reply, Rows, InsertEvents, UNCHANGED <<entries, purged>>
  PROVE  Rows'
  <1>1. \A id \in OfStream(todo, "events") : entries[id].status = "EVENT"
    BY DEF History, Reply, OfStream, TypeOK
  <1>2. \A k : ResolutionWritten(k)' <=> ResolutionWritten(k)
    BY <1>1 DEF InsertEvents, ResolutionWritten
  <1> QED BY <1>1, <1>2 DEF InsertEvents, Rows, IsResolution

LEMMA RowsStep ==
  ASSUME TypeOK, History, Reply, Rows, [Next]_vars
  PROVE  Rows'
  <1> USE DEF redisVars, rowVars, loopVars
  <1>1. ASSUME UNCHANGED <<activeRows, resolvedRows, written, purged>>,
               \A id \in Ids : entries'[id] = entries[id]
        PROVE  Rows'
    <2>1. \A id \in written : entries'[id] = entries[id]
      BY <1>1 DEF TypeOK
    <2>2. \A k : ResolutionWritten(k)' <=> ResolutionWritten(k)
      BY <1>1, <2>1 DEF ResolutionWritten
    <2> QED BY <1>1, <2>1, <2>2 DEF Rows, IsResolution
  <1>2. CASE AddEvent \/ AddUnreadable \/ RaiseAlert \/ ResolveAlert
    <2>1. NoAlert \in AlertKeys
      BY ArchiverAssumption DEF NoAlert, AlertKeys
    <2>2. RaiseAlert => <<lastAlert + 1, Len(entries) + 1>> \in AlertKeys
      BY ArchiverAssumption DEF RaiseAlert, Xadd, TypeOK, AlertKeys
    <2>3. CASE AddEvent
      BY <1>1, <2>1, <2>3, XaddKeeps DEF AddEvent, Streams, Statuses
    <2>6. CASE AddUnreadable
      BY <1>1, <2>1, <2>6, XaddKeeps DEF AddUnreadable, Statuses
    <2>4. CASE RaiseAlert
      BY <1>1, <2>2, <2>4, XaddKeeps DEF RaiseAlert, Streams, Statuses
    <2>5. CASE ResolveAlert
      BY <1>1, <2>5, XaddKeeps DEF ResolveAlert, TypeOK, Streams, Statuses
    <2> QED BY <1>2, <2>3, <2>4, <2>5, <2>6
  <1>3. CASE WriteEvents
    BY <1>3, InsertEventsKeepsRows DEF WriteEvents
  <1>4. CASE WriteAlert
    <2>1. PICK id \in todo : InsertAlert(id)
      BY <1>4 DEF WriteAlert
    <2>2. id \in Ids /\ StreamOf(id) = "alerts" /\ Readable(id)
      BY <1>4, EntryType DEF WriteAlert, Reply, OfStream, StreamOf, TypeOK, Streams
    <2> QED BY <1>4, <2>1, <2>2, InsertAlertKeepsRows DEF WriteAlert
  <1>5. CASE WriteFails
    <2>1. CASE UNCHANGED <<rowVars, written>>
      BY <1>1, <1>5, <2>1 DEF WriteFails
    <2>2. CASE InsertEvents
      BY <1>5, <2>2, InsertEventsKeepsRows DEF WriteFails
    <2>3. ASSUME pc = "alerts", NEW id \in todo, InsertAlert(id) PROVE Rows'
      <3>1. id \in Ids /\ StreamOf(id) = "alerts" /\ Readable(id)
        BY <2>3, EntryType DEF Reply, OfStream, StreamOf, TypeOK, Streams
      <3> QED BY <1>5, <2>3, <3>1, InsertAlertKeepsRows DEF WriteFails
    <2> QED BY <1>5, <2>1, <2>2, <2>3 DEF WriteFails
  <1>6. CASE Purge
    <2>1. PICK old \in SUBSET resolvedRows :
            /\ resolvedRows' = resolvedRows \ old /\ purged' = purged \cup old
            /\ UNCHANGED <<entries, activeRows, written>>
      BY <1>6 DEF Purge
    <2>2. \A k : ResolutionWritten(k)' <=> ResolutionWritten(k)
      BY <2>1 DEF ResolutionWritten
    <2> QED BY <2>1, <2>2 DEF Rows, IsResolution
  <1> QED
    BY <1>1, <1>2, <1>3, <1>4, <1>5, <1>6
    DEF Next, Environment, Work, Trim, Reset, EnsureGroups, ConnectPostgres, NoGroup,
        ReadPending, EndDrain, ReadNew, ReadNewLost, AckEvents, AckAlerts, Ack,
        Crash, vars

------------------------------------------------------------------------------
(* A loop that reads new entries holds all that is pending, as long as no  *)
(* reply was lost.                                                         *)
LEMMA DrainedStep ==
  ASSUME TypeOK, Reply, Drained, [Next]_vars
  PROVE  Drained'
  <1> USE DEF redisVars, rowVars, loopVars
  <1>1. CASE ReadNew
    <2>1. PICK e \in FirstOf(Undelivered("events")), a \in FirstOf(Undelivered("alerts")) :
            Deliver(e, a) /\ Take([events |-> e, alerts |-> a])
      BY <1>1 DEF ReadNew
    <2>2. ids["events"] = {} /\ ids["alerts"] = {}
      BY <1>1 DEF ReadNew, Reply
    <2> QED BY <1>1, <2>1, <2>2 DEF ReadNew, Deliver, Take, Drained
  <1>2. CASE ReadNewLost
    <2>1. faults'["reply"] # 0
      BY <1>2, FaultType DEF ReadNewLost, TypeOK, FaultKinds
    <2> QED BY <1>2, <2>1 DEF ReadNewLost, Drained
  <1>3. CASE ReadPending
    BY <1>3 DEF ReadPending, Take, Drained
  <1>4. CASE EndDrain
    BY <1>4 DEF EndDrain, Drained
  <1>5. CASE AckEvents
    BY <1>5 DEF AckEvents, Ack, Reply, Drained, TypeOK, Streams
  <1>6. CASE AckAlerts
    <2>1. ids["events"] = {}
      BY <1>6 DEF AckAlerts, Ack, Reply
    <2>2. pending' = pending \ ids["alerts"]
      BY <1>6 DEF AckAlerts, Ack
    <2> QED BY <1>6, <2>1, <2>2 DEF AckAlerts, Ack, Drained
  <1>7. CASE \E s \in Streams : Trim(s)
    BY <1>7, FaultType DEF Trim, Drained, TypeOK, FaultKinds
  <1>8. CASE Reset \/ WriteFails \/ Purge \/ Crash
    BY <1>8, FaultType
    DEF Reset, WriteFails, Purge, Crash, DrainAgain, Drained, TypeOK, FaultKinds
  <1>9. CASE AddEvent \/ AddUnreadable \/ RaiseAlert \/ ResolveAlert \/ UNCHANGED vars
    BY <1>9 DEF AddEvent, AddUnreadable, RaiseAlert, ResolveAlert, vars, Drained
  <1>10. CASE EnsureGroups \/ ConnectPostgres \/ NoGroup \/ WriteEvents \/ WriteAlert
    BY <1>10
    DEF EnsureGroups, ConnectPostgres, NoGroup, WriteEvents, WriteAlert, Drained
  <1> QED
    BY <1>1, <1>2, <1>3, <1>4, <1>5, <1>6, <1>7, <1>8, <1>9, <1>10
    DEF Next, Environment, Work

LEMMA Invariance == Spec => []IInv
  <1>1. IInv /\ [Next]_vars => IInv'
    BY TypeStep, HistoryStep, ReplyStep, AckedStep, RowsStep, DrainedStep DEF IInv
  <1> QED BY <1>1, InitHolds, PTL DEF Spec

------------------------------------------------------------------------------
(* The state stays well typed.                                             *)
THEOREM TypeCorrect == Spec => []TypeOK
  <1>1. IInv => TypeOK
    BY DEF IInv
  <1> QED BY <1>1, Invariance, PTL

(* XACK follows the write: under every fault, also when the process stops  *)
(* or a query fails between the two streams of a batch.                    *)
THEOREM AckedIsArchivedAlways == Spec => []AckedIsArchived
  <1>1. IInv => AckedIsArchived
    BY DEF IInv
  <1> QED BY <1>1, Invariance, PTL

(* Redeliveries do not reopen an alert: its row says what the last of its  *)
(* archived entries says.                                                  *)
THEOREM AlertRowsCurrentAlways == Spec => []AlertRowsCurrent
  <1>1. IInv => AlertRowsCurrent
    BY DEF IInv, Rows, AlertRowsCurrent, ResolutionWritten, IsResolution
  <1> QED BY <1>1, Invariance, PTL

(* An open alert whose RAISED was archived is active in the table, also    *)
(* when Redis starts over and the numbers of the alerts repeat.            *)
THEOREM OpenAlertsAreActiveAlways == Spec => []OpenAlertsAreActive
  <1>1. IInv => OpenAlertsAreActive
    <2> SUFFICES ASSUME IInv, NEW id \in written, entries[id].status = "RAISED",
                        entries[id].alert \in open
                 PROVE  entries[id].alert \in activeRows
      BY DEF OpenAlertsAreActive
    <2>1. ~ResolutionWritten(entries[id].alert)
      BY DEF IInv, History, ResolutionWritten, IsResolution, TypeOK
    <2> QED BY <2>1 DEF IInv, Rows
  <1> QED BY <1>1, Invariance, PTL

(* Without a lost reply, the loop asks for new entries only when it left   *)
(* none behind.                                                            *)
THEOREM NothingForgottenAlways == Spec => []NothingForgotten
  <1>1. IInv => NothingForgotten
    BY DEF IInv, Reply, Drained, NothingForgotten
  <1> QED BY <1>1, Invariance, PTL

------------------------------------------------------------------------------
(* The second part: ArchiveReports.                                        *)

Steps == {"stopped", "ping", "schema", "zones", "done"}

(* What the step of connectPostgres says about the database, as long as it *)
(* is the one that the archiver set up: with the schema applied, what is   *)
(* not in zones is still to be written; and postgresUp comes at the end.   *)
SetUp ==
  /\ step \in {"zones", "done"} /\ ~replaced => tables /\ Zones \ missing \subseteq zoneRows
  /\ step = "done" => missing = {}
  /\ postgresUp => step = "done"

SetUpInv ==
  /\ step \in Steps
  /\ missing \subseteq Zones /\ zoneRows \subseteq Zones
  /\ SetUp

(* The actions that leave archiver, tables and zones alone.                *)
setUpVars == <<step, missing, postgresUp, tables, zoneRows, replaced>>

LEMMA OthersKeepSetUp == SetUpInv /\ UNCHANGED setUpVars => SetUpInv'
  BY DEF SetUpInv, SetUp, setUpVars

(* connectPostgres applies the schema and writes every zone before it sets *)
(* postgresUp; a failure, a stop or another database take it back to the   *)
(* ping or are remembered.                                                 *)
LEMMA SetUpInductive == SetUpInv /\ [ReportsNext]_reportsVars => SetUpInv'
  <1> SUFFICES ASSUME SetUpInv, [ReportsNext]_reportsVars PROVE SetUpInv'
    OBVIOUS
  <1>1. CASE UNCHANGED reportsVars
    BY <1>1, OthersKeepSetUp DEF reportsVars, setUpVars
  <1>2. CASE Tick \/ Happen \/ Toggle \/ WriteResolved \/ TakeSnapshot \/ PurgeOlderThan
    BY <1>2, OthersKeepSetUp DEF Tick, Happen, Toggle, WriteResolved, TakeSnapshot, PurgeOlderThan,
       happened, tableVars, archiverVars, setUpVars
  <1>3. CASE StartRefresh \/ StartReport \/ PingAnswered \/ CountsAnswered \/ ReportAnswered
    BY <1>3, OthersKeepSetUp DEF StartRefresh, StartReport, PingAnswered, CountsAnswered,
       ReportAnswered, tableVars, archiverVars, setUpVars
  <1>4. CASE Replace
    BY <1>4 DEF Replace, SetUpInv, SetUp
  <1>5. CASE Ping
    BY <1>5 DEF Ping, UpDuringConnect, tableVars, SetUpInv, SetUp, Steps
  <1>6. CASE ApplySchema
    BY <1>6 DEF ApplySchema, SetUpInv, SetUp, Steps
  <1>7. CASE UpsertZone
    BY <1>7 DEF UpsertZone, SetUpInv, SetUp
  <1>8. CASE Connected
    BY <1>8 DEF Connected, tableVars, SetUpInv, SetUp, Steps
  <1>9. CASE ConnectFails \/ ArchiverStops \/ Restart
    BY <1>9 DEF ConnectFails, ArchiverStops, Restart, tableVars, SetUpInv, SetUp, Steps
  <1>10. CASE WriteBatch
    BY <1>10 DEF WriteBatch, SetUpInv, SetUp, Steps
  <1> QED
    BY <1>1, <1>2, <1>3, <1>4, <1>5, <1>6, <1>7, <1>8, <1>9, <1>10 DEF ReportsNext

(* Whatever query of connectPostgres fails, whenever the archiver stops    *)
(* and however the database comes and goes, postgresUp means that schema   *)
(* and zones are there, unless the database was replaced since.            *)
THEOREM ReadyMeansSchemaAlways == ReportsSpec => []ReadyMeansSchema
  <1>1. ReportsInit => SetUpInv
    BY DEF ReportsInit, SetUpInv, SetUp, Steps
  <1>2. SetUpInv => ReadyMeansSchema
    BY DEF SetUpInv, SetUp, ReadyMeansSchema
  <1> QED BY <1>1, <1>2, SetUpInductive, PTL DEF ReportsSpec

------------------------------------------------------------------------------
(* What the Backend knows.                                                 *)

Outcomes == {"rows", "refused", "cut", "no table"}
Requests == [kind : {"ping", "report", "counts"}, outcome : Outcomes, since : BOOLEAN]

(* A request that was asked since PostgreSQL changed last has an answer    *)
(* that still holds. Counts are asked for after a ping that was answered.  *)
Fresh(r) ==
  r.since => /\ r.kind = "ping" => r.outcome \in PingOutcomes
             /\ r.kind # "ping" => r.outcome \in QueryOutcomes
             /\ r.kind = "counts" => up

BackendInv ==
  /\ up \in BOOLEAN /\ tables \in BOOLEAN
  /\ connected \in BOOLEAN /\ informed \in BOOLEAN
  /\ counts \in {"null", "given"}
  /\ requests \subseteq Requests
  /\ \A r \in requests : Fresh(r) /\ (r.kind = "ping" => r.outcome \in {"rows", "refused"})
  /\ informed => connected = up /\ (counts = "given" <=> (up /\ tables))

LEMMA OutdatedIs ==
  ASSUME requests \subseteq Requests
  PROVE  /\ Outdated \subseteq Requests
         /\ \A r \in Outdated : ~r.since /\ \E q \in requests : r.kind = q.kind
              /\ r.outcome = q.outcome
  BY DEF Outdated, Requests

LEMMA AskedIs ==
  ASSUME NEW kind, NEW outcomes, NEW since, NEW r \in Asked(kind, outcomes, since)
  PROVE  r.kind = kind /\ r.outcome \in outcomes /\ r.since = since
         /\ (kind \in {"ping", "report", "counts"} /\ outcomes \subseteq Outcomes
              /\ since \in BOOLEAN
               => r \in Requests)
  BY DEF Asked, Requests

LEMMA OutcomesAre ==
  /\ PingOutcomes \subseteq Outcomes /\ PingOutcomes \subseteq {"rows", "refused"}
  /\ QueryOutcomes \subseteq Outcomes
  /\ \A o \in PingOutcomes : up <=> o = "rows"
  /\ \A o \in QueryOutcomes : /\ up => o \in {"rows", "no table"} /\ (o = "rows" <=> tables)
                              /\ ~up => o \in {"refused", "cut"}
  BY DEF PingOutcomes, QueryOutcomes, Outcomes

(* A change of PostgreSQL makes every request old and nobody informed.     *)
LEMMA ChangeKeepsBackend ==
  ASSUME BackendInv, Change, up' \in BOOLEAN, tables' \in BOOLEAN
  PROVE  BackendInv'
  <1>1. requests' = Outdated /\ informed' = FALSE /\ connected' = connected /\ counts' = counts
    BY DEF Change
  <1>2. /\ requests' \subseteq Requests
        /\ \A r \in requests' : ~r.since /\ \E q \in requests : r.kind = q.kind
             /\ r.outcome = q.outcome
    BY <1>1, OutdatedIs DEF BackendInv
  <1>3. \A r \in requests' : Fresh(r)' /\ (r.kind = "ping" => r.outcome \in {"rows", "refused"})
    BY <1>2 DEF BackendInv, Fresh
  <1> QED BY <1>1, <1>2, <1>3 DEF BackendInv

LEMMA OthersKeepBackend ==
  ASSUME BackendInv, UNCHANGED backendVars, up' = up, tables' = tables
  PROVE  BackendInv'
  <1>1. \A r \in requests : Fresh(r)' <=> Fresh(r)
    BY DEF Fresh, PingOutcomes, QueryOutcomes
  <1>2. UNCHANGED <<connected, counts, requests, informed>>
    BY DEF backendVars
  <1> QED BY <1>1, <1>2 DEF BackendInv

(* Requests come and go while PostgreSQL stays as it is.                   *)
LEMMA RequestsKeepFresh ==
  ASSUME BackendInv, up' = up, tables' = tables, requests' \subseteq Requests,
         \A r \in requests' : \/ r \in requests
                              \/ Fresh(r) /\ (r.kind = "ping" => r.outcome \in {"rows", "refused"}),
         connected' \in BOOLEAN, informed' \in BOOLEAN, counts' \in {"null", "given"},
         informed' => connected' = up /\ (counts' = "given" <=> (up /\ tables))
  PROVE  BackendInv'
  <1>1. \A r : Fresh(r)' <=> Fresh(r)
    BY DEF Fresh, PingOutcomes, QueryOutcomes
  <1> QED BY <1>1 DEF BackendInv

LEMMA AskStep ==
  ASSUME BackendInv, StartRefresh \/ StartReport
  PROVE  BackendInv'
  <1> USE DEF tableVars
  <1>1. /\ UNCHANGED <<connected, counts, informed>> /\ up' = up /\ tables' = tables
        /\ \E kind \in {"ping", "report"} : \E r :
             /\ r \in Asked(kind, IF kind = "ping" THEN PingOutcomes ELSE QueryOutcomes, TRUE)
             /\ requests' = requests \cup {r}
    <2>1. CASE StartRefresh
      BY <2>1 DEF StartRefresh
    <2>2. CASE StartReport
      BY <2>2 DEF StartReport
    <2> QED BY <2>1, <2>2
  <1> PICK kind \in {"ping", "report"} : \E r :
          /\ r \in Asked(kind, IF kind = "ping" THEN PingOutcomes ELSE QueryOutcomes, TRUE)
          /\ requests' = requests \cup {r}
    BY <1>1
  <1>2. PICK r : /\ r \in Asked(kind, IF kind = "ping" THEN PingOutcomes ELSE QueryOutcomes, TRUE)
                 /\ requests' = requests \cup {r}
    OBVIOUS
  <1>3. /\ r \in Requests /\ r.kind = kind /\ Fresh(r)
        /\ r.kind = "ping" => r.outcome \in {"rows", "refused"}
    BY <1>2, AskedIs, OutcomesAre DEF Fresh
  <1> QED BY <1>1, <1>2, <1>3, RequestsKeepFresh DEF BackendInv

LEMMA PingStep ==
  ASSUME BackendInv, PingAnswered
  PROVE  BackendInv'
  <1> USE DEF tableVars
  <1>1. up' = up /\ tables' = tables
    BY DEF PingAnswered
  <1>2. PICK r \in requests :
          /\ r.kind = "ping"
          /\ connected' = (r.outcome = "rows")
          /\ IF r.outcome = "rows"
             THEN /\ \E q \in Asked("counts", QueryOutcomes, r.since) :
                       requests' = (requests \ {r}) \cup {q}
                  /\ UNCHANGED counts /\ informed' = (informed /\ r.since)
             ELSE /\ requests' = requests \ {r}
                  /\ counts' = "null" /\ informed' = r.since
    BY DEF PingAnswered
  <1>3. /\ r \in Requests /\ r.outcome \in {"rows", "refused"} /\ r.since \in BOOLEAN
        /\ r.since => (up <=> r.outcome = "rows")
    BY <1>2, OutcomesAre DEF BackendInv, Fresh, Requests
  <1>4. CASE r.outcome = "rows"
    <2>1. PICK q \in Asked("counts", QueryOutcomes, r.since) : requests' = (requests \ {r}) \cup {q}
      BY <1>2, <1>4
    <2>2. q \in Requests /\ q.kind = "counts" /\ Fresh(q)
      <3>1. q.kind = "counts" /\ q.outcome \in QueryOutcomes /\ q.since = r.since
        BY <2>1, AskedIs
      <3>2. q \in Requests
        BY <1>3, <2>1, AskedIs, OutcomesAre
      <3> QED BY <1>3, <1>4, <3>1, <3>2 DEF Fresh
    <2>3. counts' = counts /\ connected' = TRUE /\ informed' = (informed /\ r.since)
      BY <1>2, <1>4
    <2>4. /\ requests' \subseteq Requests
          /\ \A x \in requests' : x \in requests
               \/ (Fresh(x) /\ (x.kind = "ping" => x.outcome \in {"rows", "refused"}))
      BY <2>1, <2>2 DEF BackendInv
    <2>5. informed' => connected' = up /\ (counts' = "given" <=> (up /\ tables))
      BY <1>3, <1>4, <2>3 DEF BackendInv
    <2> QED BY <1>1, <1>3, <2>3, <2>4, <2>5, RequestsKeepFresh DEF BackendInv
  <1>5. CASE r.outcome # "rows"
    <2>1. requests' = requests \ {r} /\ counts' = "null" /\ connected' = FALSE
            /\ informed' = r.since
      BY <1>2, <1>5
    <2>2. requests' \subseteq Requests /\ \A x \in requests' : x \in requests
      BY <2>1 DEF BackendInv
    <2>3. informed' => connected' = up /\ (counts' = "given" <=> (up /\ tables))
      BY <1>3, <1>5, <2>1 DEF BackendInv
    <2> QED BY <1>1, <1>3, <2>1, <2>2, <2>3, RequestsKeepFresh DEF BackendInv
  <1> QED BY <1>4, <1>5

LEMMA QueryStep ==
  ASSUME BackendInv, CountsAnswered \/ ReportAnswered
  PROVE  BackendInv'
  <1> USE DEF tableVars
  <1>1. up' = up /\ tables' = tables
    BY DEF CountsAnswered, ReportAnswered
  <1>2. PICK r \in requests :
          /\ connected' = ConnectedAfter(r.outcome) /\ requests' = requests \ {r}
          /\ \/ /\ r.kind = "counts"
                /\ counts' = CountsAfter(r.outcome) /\ informed' = r.since
             \/ /\ r.kind = "report"
                /\ counts' = counts /\ informed' = (informed /\ r.since)
    BY DEF CountsAnswered, ReportAnswered
  <1>3. /\ r \in Requests /\ r.outcome \in Outcomes /\ r.since \in BOOLEAN
        /\ r.since => r.outcome \in QueryOutcomes /\ (r.kind = "counts" => up)
    BY <1>2 DEF BackendInv, Fresh, Requests
  <1>4. r.since => \/ up /\ r.outcome \in {"rows", "no table"} /\ (r.outcome = "rows" <=> tables)
                   \/ ~up /\ r.kind = "report" /\ r.outcome \in {"refused", "cut"}
    BY <1>2, <1>3, OutcomesAre
  <1>5. connected' \in BOOLEAN /\ informed' \in BOOLEAN /\ counts' \in {"null", "given"}
    BY <1>2, <1>3 DEF ConnectedAfter, CountsAfter, BackendInv
  <1>6. informed' => connected' = up /\ (counts' = "given" <=> (up /\ tables))
    <2>1. CASE r.kind = "counts"
      BY <1>2, <1>3, <1>4, <2>1 DEF ConnectedAfter, CountsAfter, BackendInv
    <2>2. CASE r.kind = "report"
      BY <1>2, <1>3, <1>4, <2>2 DEF ConnectedAfter, BackendInv
    <2> QED BY <1>2, <2>1, <2>2
  <1>7. requests' \subseteq Requests /\ \A x \in requests' : x \in requests
    BY <1>2 DEF BackendInv
  <1> QED BY <1>1, <1>5, <1>6, <1>7, RequestsKeepFresh

LEMMA BackendInductive == BackendInv /\ [ReportsNext]_reportsVars => BackendInv'
  <1> USE DEF tableVars, archiverVars, happened
  <1> SUFFICES ASSUME BackendInv, [ReportsNext]_reportsVars PROVE BackendInv'
    OBVIOUS
  <1>1. CASE UNCHANGED reportsVars
    BY <1>1, OthersKeepBackend DEF reportsVars, backendVars
  <1>2. CASE \/ Tick \/ Happen \/ Ping \/ UpsertZone \/ Connected \/ ConnectFails
             \/ WriteBatch \/ WriteResolved \/ TakeSnapshot \/ PurgeOlderThan \/ ArchiverStops
                  \/ Restart
    <2>1. UNCHANGED backendVars /\ up' = up /\ tables' = tables
      BY <1>2 DEF Tick, Happen, Ping, UpsertZone, Connected, ConnectFails, WriteBatch,
         WriteResolved, TakeSnapshot, PurgeOlderThan, ArchiverStops, Restart
    <2> QED BY <2>1, OthersKeepBackend
  <1>3. CASE Toggle \/ Replace
    <2>1. Change /\ up' \in BOOLEAN /\ tables' \in BOOLEAN
      BY <1>3 DEF Toggle, Replace, BackendInv
    <2> QED BY <2>1, ChangeKeepsBackend
  <1>4. CASE ApplySchema
    <2>1. up' = up /\ tables' = TRUE
      BY <1>4 DEF ApplySchema
    <2>2. CASE tables
      BY <1>4, <2>1, <2>2, OthersKeepBackend DEF ApplySchema, BackendInv
    <2>3. CASE ~tables
      BY <1>4, <2>1, <2>3, ChangeKeepsBackend DEF ApplySchema, BackendInv
    <2> QED BY <2>2, <2>3
  <1>5. CASE StartRefresh \/ StartReport
    BY <1>5, AskStep
  <1>6. CASE PingAnswered
    BY <1>6, PingStep
  <1>7. CASE CountsAnswered \/ ReportAnswered
    BY <1>7, QueryStep
  <1> QED BY <1>1, <1>2, <1>3, <1>4, <1>5, <1>6, <1>7 DEF ReportsNext

(* Once a refresh has run since PostgreSQL changed last, connected and the *)
(* counts are what they should be, whatever overlaps with whatever.        *)
THEOREM ShownAsItIsAlways == ReportsSpec => []ShownAsItIs
  <1>1. ReportsInit => BackendInv
    BY DEF ReportsInit, BackendInv
  <1>2. BackendInv => ShownAsItIs
    BY DEF BackendInv, ShownAsItIs, PostgresStatus
  <1> QED BY <1>1, <1>2, BackendInductive, PTL DEF ReportsSpec

------------------------------------------------------------------------------
(* What the purge takes away.                                              *)

RecordKinds == {"EVENT", "ALERT", "SNAPSHOT"}
Records == [kind : RecordKinds, zone : Zones \cup {"every"}, at : Nat]

(* Only what is older than the retention was archived and is no row now.   *)
Retained ==
  /\ now \in Nat
  /\ records \in Seq(Records)
  /\ rows \subseteq archived /\ archived \subseteq 1..Len(records)
  /\ \A i \in archived \ rows : records[i].at < Cut

LEMMA DifferenceGrows ==
  ASSUME NEW a \in Nat, NEW b \in Nat, NEW n \in Nat, a <= b
  PROVE  a - n \in Int /\ b - n \in Int /\ a - n <= b - n
  OBVIOUS

(* Records stay what they are, the clock goes on, and what was older than  *)
(* the retention remains so.                                               *)
LEMMA GrowthKeepsRetained ==
  ASSUME Retained, now' \in Nat, now <= now', records' \in Seq(Records),
         Len(records) <= Len(records'), \A i \in 1..Len(records) : records'[i] = records[i],
         archived' \subseteq 1..Len(records'), rows' \subseteq archived',
         archived' \ rows' \subseteq 1..Len(records),
         \A i \in archived' \ rows' : i \in archived \ rows \/ records[i].at < Cut
  PROVE  Retained'
  <1>1. RetentionDays * DayTicks \in Nat
    BY ArchiveReportsAssumption
  <1>2. Cut \in Int /\ Cut' \in Int /\ Cut <= Cut'
    <2> DEFINE k == RetentionDays * DayTicks
    <2>1. k \in Nat /\ Cut = now - k /\ Cut' = now' - k
      BY <1>1 DEF Cut
    <2>2. now \in Nat
      BY DEF Retained
    <2> HIDE DEF k
    <2> QED BY <2>1, <2>2, DifferenceGrows, Zenon
  <1>3. ASSUME NEW i \in archived' \ rows' PROVE records'[i].at < Cut'
    <2>1. i \in 1..Len(records) /\ records'[i] = records[i] /\ records[i].at < Cut
      BY <1>3 DEF Retained
    <2>2. records[i] \in Records
      BY <2>1 DEF Retained
    <2>3. records[i].at \in Nat
      BY <2>2 DEF Records
    <2> QED BY <1>2, <2>1, <2>3
  <1> QED BY <1>3 DEF Retained

LEMMA AppendIs ==
  ASSUME NEW S, NEW q \in Seq(S), NEW e \in S
  PROVE  /\ Append(q, e) \in Seq(S) /\ Len(q) \in Nat /\ Len(Append(q, e)) = Len(q) + 1
         /\ \A i \in 1..Len(q) : Append(q, e)[i] = q[i]
         /\ 1..Len(q) \subseteq 1..Len(Append(q, e)) /\ Len(Append(q, e)) \in 1..Len(Append(q, e))
  OBVIOUS

LEMMA RetainedInductive == Retained /\ [ReportsNext]_reportsVars => Retained'
  <1> USE DEF tableVars, happened
  <1> SUFFICES ASSUME Retained, [ReportsNext]_reportsVars PROVE Retained'
    OBVIOUS
  <1>0. /\ now \in Nat /\ records \in Seq(Records) /\ Len(records) \in Nat
        /\ rows \subseteq archived /\ archived \subseteq 1..Len(records)
        /\ now <= now /\ Len(records) <= Len(records)
    BY DEF Retained
  <1>1. CASE UNCHANGED <<now, records, rows, archived>>
    BY <1>0, <1>1, GrowthKeepsRetained
  <1>2. CASE Tick
    <2>1. now' = now + 1 /\ UNCHANGED <<records, rows, archived>>
      BY <1>2 DEF Tick
    <2>2. now' \in Nat /\ now <= now'
      BY <1>0, <2>1
    <2> QED BY <1>0, <2>1, <2>2, GrowthKeepsRetained
  <1>3. CASE Happen
    <2>1. PICK kind \in {"EVENT", "ALERT"}, z \in Zones :
            records' = Append(records, [kind |-> kind, zone |-> z, at |-> now])
      BY <1>3 DEF Happen
    <2>2. [kind |-> kind, zone |-> z, at |-> now] \in Records
      BY <1>0 DEF Records, RecordKinds
    <2>3. UNCHANGED <<now, rows, archived>>
      BY <1>3 DEF Happen
    <2>4. /\ records' \in Seq(Records) /\ Len(records) <= Len(records')
          /\ \A i \in 1..Len(records) : records'[i] = records[i]
          /\ 1..Len(records) \subseteq 1..Len(records')
      BY <1>0, <2>1, <2>2, AppendIs
    <2> QED BY <1>0, <2>3, <2>4, GrowthKeepsRetained
  <1>4. CASE TakeSnapshot
    <2>1. /\ records' = Append(records, Captured) /\ now' = now
          /\ rows' = rows \cup {Len(records')} /\ archived' = archived \cup {Len(records')}
      BY <1>4 DEF TakeSnapshot
    <2>2. Captured \in Records
      BY <1>0 DEF Captured, Records, RecordKinds
    <2>3. /\ records' \in Seq(Records) /\ Len(records) <= Len(records')
          /\ \A i \in 1..Len(records) : records'[i] = records[i]
          /\ 1..Len(records) \subseteq 1..Len(records') /\ Len(records') \in 1..Len(records')
      BY <1>0, <2>1, <2>2, AppendIs
    <2>4. /\ rows' \subseteq archived' /\ archived' \subseteq 1..Len(records')
          /\ archived' \ rows' \subseteq archived \ rows
      BY <1>0, <2>1, <2>3
    <2> QED BY <1>0, <2>1, <2>3, <2>4, GrowthKeepsRetained
  <1>5. CASE Replace
    BY <1>0, <1>5 DEF Replace, Retained
  <1>6. CASE WriteBatch
    <2>1. now' = now /\ records' = records
      BY <1>6 DEF WriteBatch
    <2>2. /\ rows' \subseteq archived' /\ archived' \subseteq 1..Len(records)
          /\ archived' \ rows' \subseteq archived \ rows
      <3>1. Waiting \subseteq 1..Len(records)
        BY DEF Waiting
      <3>2. \/ rows' = rows \cup Waiting /\ archived' = archived \cup Waiting
            \/ rows' = rows /\ archived' = archived
        BY <1>6 DEF WriteBatch
      <3> QED BY <1>0, <3>1, <3>2
    <2> QED BY <1>0, <2>1, <2>2, GrowthKeepsRetained
  <1>7. CASE PurgeOlderThan
    <2>1. UNCHANGED <<now, records, archived>>
      BY <1>7 DEF PurgeOlderThan
    <2>2. rows' \subseteq rows /\ \A i \in rows \ rows' : ~(records[i].at >= Cut)
      BY <1>7 DEF PurgeOlderThan
    <2>3. ASSUME NEW i \in archived' \ rows' PROVE i \in archived \ rows \/ records[i].at < Cut
      <3>1. CASE i \in rows
        <4>1. ~(records[i].at >= Cut) /\ records[i] \in Records
          BY <1>0, <2>1, <2>2, <2>3, <3>1
        <4>2. records[i].at \in Nat
          BY <4>1 DEF Records
        <4>3. Cut \in Int
          BY <1>0, ArchiveReportsAssumption DEF Cut
        <4> QED BY <4>1, <4>2, <4>3
      <3> QED BY <2>1, <2>3, <3>1
    <2> QED BY <1>0, <2>1, <2>2, <2>3, GrowthKeepsRetained
  <1>8. CASE \/ Toggle \/ Ping \/ ApplySchema \/ UpsertZone \/ Connected \/ ConnectFails
             \/ WriteResolved \/ ArchiverStops \/ Restart
             \/ StartRefresh \/ StartReport \/ PingAnswered \/ CountsAnswered \/ ReportAnswered
    <2>1. UNCHANGED <<now, records, rows, archived>>
      BY <1>8 DEF Toggle, Ping, ApplySchema, UpsertZone, Connected, ConnectFails, WriteResolved,
         ArchiverStops, Restart, StartRefresh, StartReport, PingAnswered, CountsAnswered,
           ReportAnswered
    <2> QED BY <1>1, <2>1
  <1>9. CASE UNCHANGED reportsVars
    BY <1>1, <1>9 DEF reportsVars
  <1> QED BY <1>2, <1>3, <1>4, <1>5, <1>6, <1>7, <1>8, <1>9 DEF ReportsNext

(* A day that the summary may go back to begins after the cut.             *)
LEMMA DayIsAfterCut ==
  ASSUME now \in Nat, NEW at \in Nat, Day(at) >= Day(now) - (RetentionDays - 1)
  PROVE  at >= Cut
  <1> DEFINE p == Day(at)
             q == Day(now)
             k == RetentionDays
             d == DayTicks
  <1>1. k \in Nat \ {0} /\ d \in Nat \ {0}
    BY ArchiveReportsAssumption
  <1>2. /\ p \in Nat /\ d * p <= at
        /\ q \in Nat /\ now < d * q + d
    BY <1>1 DEF Day
  <1>3. q + 1 <= p + k
    BY <1>1, <1>2
  <1>4. d * (q + 1) <= d * (p + k)
    <2> HIDE DEF p, q, k, d
    <2> QED BY <1>1, <1>2, <1>3, SMT
  <1>5. d * (q + 1) = d * q + d /\ d * (p + k) = d * p + k * d
    <2> HIDE DEF p, q, k, d
    <2> QED BY <1>1, <1>2, SMT
  <1>6. Cut = now - k * d
    BY DEF Cut
  <1>7. d * q \in Nat /\ d * p \in Nat /\ k * d \in Nat
    <2> HIDE DEF p, q, k, d
    <2> QED BY <1>1, <1>2, SMT
  <1> HIDE DEF p, q, k, d
  <1> QED BY <1>1, <1>2, <1>4, <1>5, <1>6, <1>7

LEMMA RecentIsThere ==
  ASSUME Retained
  PROVE  /\ \A i \in archived : /\ records[i].at \in Nat
                                /\ records[i].at >= Cut => i \in rows
                                /\ Day(records[i].at) >= Day(now) - (RetentionDays - 1)
                                     => i \in rows
         /\ rows \subseteq archived /\ Cut \in Int
  <1>1. Cut \in Int
    BY ArchiveReportsAssumption DEF Cut, Retained
  <1>2. ASSUME NEW i \in archived
        PROVE  /\ records[i].at \in Nat
               /\ records[i].at >= Cut => i \in rows
               /\ Day(records[i].at) >= Day(now) - (RetentionDays - 1) => i \in rows
    <2>1. records[i] \in Records /\ (i \notin rows => records[i].at < Cut)
      BY <1>2 DEF Retained
    <2>2. records[i].at \in Nat
      BY <2>1 DEF Records
    <2>3. records[i].at >= Cut => i \in rows
      BY <1>1, <2>1, <2>2
    <2> QED BY <2>2, <2>3, DayIsAfterCut DEF Retained
  <1> QED BY <1>1, <1>2 DEF Retained

(* A row of the view daily_zone_summary.                                   *)
SameDay(given, d, z, kind) ==
  {i \in given : records[i].kind = kind /\ records[i].zone = z /\ Day(records[i].at) = d}

Row(given, d, z) ==
  [day |-> d, zone |-> z, events |-> Cardinality(SameDay(given, d, z, "EVENT")),
   alerts |-> Cardinality(SameDay(given, d, z, "ALERT"))]

LEMMA SummaryIs ==
  ASSUME NEW given, NEW days
  PROVE  DailySummary(given, days) =
           {s \in {Row(given, d, z) : d \in 0..Day(now), z \in zoneRows} :
              s.events > 0 /\ s.day >= Day(now) - days}
  BY DEF DailySummary, DailyZoneSummary, Row, SameDay

LEMMA DailyIsComplete ==
  ASSUME Retained
  PROVE  DailySummary(rows, RetentionDays - 1) = DailySummary(archived, RetentionDays - 1)
  <1>1. ASSUME NEW d \in 0..Day(now), NEW z \in zoneRows, d >= Day(now) - (RetentionDays - 1)
        PROVE  Row(rows, d, z) = Row(archived, d, z)
    <2>1. \A kind : SameDay(rows, d, z, kind) = SameDay(archived, d, z, kind)
      BY <1>1, RecentIsThere DEF SameDay
    <2> QED BY <2>1 DEF Row
  <1>2. \A given, d, z : Row(given, d, z).day = d
    BY DEF Row
  <1>3. ASSUME NEW s
        PROVE  s \in DailySummary(rows, RetentionDays - 1)
                 <=> s \in DailySummary(archived, RetentionDays - 1)
    <2>1. \A given : s \in DailySummary(given, RetentionDays - 1) <=>
            /\ s.events > 0 /\ s.day >= Day(now) - (RetentionDays - 1)
            /\ \E d \in 0..Day(now), z \in zoneRows : s = Row(given, d, z)
      BY SummaryIs
    <2> QED BY <1>1, <1>2, <2>1
  <1> QED BY <1>3

LEMMA LatestIsComplete ==
  ASSUME Retained, NEW kind
  PROVE  {i \in Latest(rows, kind, 1) : records[i].at >= Cut}
           = {i \in Latest(archived, kind, 1) : records[i].at >= Cut}
  <1> DEFINE newer(given, i) == {j \in {x \in given : records[x].kind = kind} :
                                   records[j].at > records[i].at}
  <1>1. \A i \in archived : records[i].at >= Cut => newer(rows, i) = newer(archived, i)
    BY RecentIsThere
  <1>2. \A given : Latest(given, kind, 1) =
          {i \in {x \in given : records[x].kind = kind} : Cardinality(newer(given, i)) < 1}
    BY DEF Latest
  <1> HIDE DEF newer
  <1> QED BY <1>1, <1>2, RecentIsThere

(* Reports that stay within the retention miss nothing that was archived,  *)
(* for any retention, length of the day and size of the tables, at every   *)
(* query of a purge and whenever it comes.                                 *)
THEOREM ReportsAreCompleteAlways == ReportsSpec => []ReportsAreComplete
  <1>1. ReportsInit => Retained
    BY DEF ReportsInit, Retained
  <1>2. ASSUME Retained PROVE ReportsAreComplete
    <2>1. HourlyOccupancy(rows, RetentionDays * DayTicks)
            = HourlyOccupancy(archived, RetentionDays * DayTicks)
      BY <1>2, RecentIsThere DEF HourlyOccupancy, Cut
    <2> QED BY <1>2, <2>1, DailyIsComplete, LatestIsComplete DEF ReportsAreComplete
  <1> QED BY <1>1, <1>2, RetainedInductive, PTL DEF ReportsSpec
===============================================================================
