------------------------------ MODULE EventFeed ------------------------------
(***************************************************************************)
(* The events a browser shows, which reach it on two ways: live over       *)
(* Socket.IO, and by REST out of parking:stream.                           *)
(*                                                                         *)
(*   publisher.service.ts system events                                    *)
(*   derived-events.ts    up to three events for one reading               *)
(*   parking.service.ts   getEvents, in batches from the newest back       *)
(*   socket-gateway.ts    the sensor event, then those derived from it     *)
(*   useRealtime.ts       the key of a live event, the buffer, the reload  *)
(*   parking-store.ts     the feed: hydrate and applyBatch                 *)
(*   ZoneDrawer.tsx       the history of a zone with the feed before it    *)
(*                                                                         *)
(* An entry of the stream is known by its place in it. An event on the     *)
(* screen is [key, id]: id names the event, key says under which of its    *)
(* two ids the feed keeps it. What Dashboard says of zones, alerts and the *)
(* simulator is left out, and so is the rest of the messages.              *)
(***************************************************************************)
EXTENDS Integers, Sequences, FiniteSets, SequencesExt

CONSTANTS
  Zones,
  MaxFeed,           \* events that the feed keeps
  SnapshotLimit,     \* events that a reload asks for
  HistoryLimit,      \* events of a zone that the drawer asks for
  DrawerLimit,       \* events that the drawer shows
  BatchSize,         \* entries that a filtered query reads at a time
  ScanLimit,         \* entries that it reads in all
  StreamMaxLength,   \* MAXLEN ~ of parking:stream
  MaxDerived,        \* events derived from one reading, at most
  MaxEntries,        \* bound: entries of the stream, with the drawer in use or not
  MaxSystem,         \* bound: system events among them
  MaxReloads,        \* bound: snapshots being loaded at a time
  MaxFaults          \* bound: faults

Positive == Nat \ {0}

ASSUME EventFeedAssumption ==
  /\ {MaxFeed, SnapshotLimit, HistoryLimit, DrawerLimit, BatchSize} \subseteq Positive
  /\ ScanLimit \in {n * BatchSize : n \in 1..ScanLimit}
  /\ HistoryLimit <= DrawerLimit
  /\ {MaxEntries, MaxSystem} \subseteq [BOOLEAN -> Nat]
  /\ {StreamMaxLength, MaxDerived, MaxReloads, MaxFaults} \subseteq Nat

VARIABLES
  \* Redis, Publisher and Processor
  stream,            \* kind and zone of every entry ever added
  trimmed,           \* how many of them MAXLEN has taken away
  told,              \* the last system event that was published
  processed,         \* the last sensor event that was processed
  owed,              \* what has been saved and not yet published
  \* on the way to the browser
  connected,
  wire,              \* events and RESYNC
  \* Browser: store and hook
  buffer, feed,
  reloads,           \* snapshots being loaded: Idle, Asked or the answer
  \* Browser: the drawer
  selected,          \* selectedZone, or NoZone
  rendered,          \* the effect of the last selection has run
  history,           \* ids of the events
  requests,          \* zone histories being loaded
  \* history
  top, cut,          \* newest and oldest event of the last snapshot
  added,             \* events that came in live since
  behind,            \* one of them was as old as the snapshot and not in the feed
  faults

redisVars == <<stream, trimmed, told, processed, owed>>
pastVars == <<top, cut, added, behind>>
storeVars == <<buffer, feed, reloads, pastVars>>
drawerVars == <<selected, rendered, history, requests>>
vars == <<stream, trimmed, told, processed, owed, connected, wire, buffer, feed, reloads,
          selected, rendered, history, requests, top, cut, added, behind, faults>>

NoZone == "none"
Resync == [key |-> "resync", id |-> 0]
Idle == [step |-> "idle"]
Asked == [step |-> "asked"]
Answered(events) == [step |-> "answered", events |-> events]

Fault == faults < MaxFaults /\ faults' = faults + 1

Init ==
  /\ stream = <<>> /\ trimmed = 0 /\ told = 0 /\ processed = 0 /\ owed = <<>>
  /\ connected = FALSE /\ wire = <<>>
  /\ buffer = <<>> /\ feed = <<>> /\ reloads = [r \in 1..MaxReloads |-> Idle]
  /\ selected = NoZone /\ rendered = TRUE /\ history = <<>> /\ requests = {}
  /\ top = 0 /\ cut = 0 /\ added = 0 /\ behind = FALSE /\ faults = 0

------------------------------------------------------------------------------
(* Publisher and Processor.                                                *)

InUse == ~(selected = NoZone /\ rendered /\ history = <<>> /\ requests = {})
Room(n) == Len(stream) + n <= MaxEntries[InUse]

Sensor(i) == stream[i].kind = "sensor"
System(i) == stream[i].kind = "system"
SystemEvents == {i \in 1..Len(stream) : System(i)}

(* Mutation: the live event goes by its event_id, as a derived one does.   *)
LiveKeyByEvent(i) == [key |-> "event_id", id |-> i]

(* metadata.stream_id ?? event_id: the Publisher adds stream_id to what it *)
(* publishes, the Processor does not add it to a derived event.            *)
LiveKey(i) ==
  [key |-> IF stream[i].kind = "derived" THEN "event_id" ELSE "stream_id", id |-> i]

Sense ==
  /\ Room(1)
  /\ \E z \in Zones : stream' = Append(stream, [kind |-> "sensor", zone |-> z])
  /\ UNCHANGED <<trimmed, told, processed, owed, connected, wire, storeVars, drawerVars,
                 faults>>

(* A system event is of no zone. It is added first and published then.     *)
AddSystem ==
  /\ Room(1) /\ Cardinality(SystemEvents) < MaxSystem[InUse]
  /\ stream' = Append(stream, [kind |-> "system", zone |-> NoZone])
  /\ UNCHANGED <<trimmed, told, processed, owed, connected, wire, storeVars, drawerVars,
                 faults>>

(* The gateway passes it on as it is; or the Publisher stops before that.  *)
TellSystem ==
  /\ \E i \in told + 1..Len(stream) :
       /\ System(i) /\ \A j \in told + 1..i - 1 : ~System(j)
       /\ told' = i
       /\ \/ /\ wire' = IF connected THEN Append(wire, LiveKey(i)) ELSE wire
             /\ UNCHANGED faults
          \/ Fault /\ UNCHANGED wire
  /\ UNCHANGED <<stream, trimmed, processed, owed, connected, storeVars, drawerVars>>

(* saveProcessed of the next sensor event, and of what is derived from it: *)
(* changes of its zone's status and of its alerts.                         *)
Process ==
  /\ owed = <<>>
  /\ \E i \in processed + 1..Len(stream), n \in 0..MaxDerived :
       /\ Sensor(i) /\ \A j \in processed + 1..i - 1 : ~Sensor(j)
       /\ Room(n)
       /\ processed' = i
       /\ stream' = stream \o [k \in 1..n |-> [kind |-> "derived", zone |-> stream[i].zone]]
       /\ owed' = <<LiveKey(i)>>
                  \o [k \in 1..n |-> [key |-> "event_id", id |-> Len(stream) + k]]
  /\ UNCHANGED <<trimmed, told, connected, wire, storeVars, drawerVars, faults>>

(* A catch-up adds what it derives, and publishes nothing but RESYNC.      *)
CatchUp ==
  LET missed == {i \in processed + 1..Len(stream) : Sensor(i)}
  IN  /\ Fault
      /\ owed = <<>> /\ missed # {}
      /\ processed' = Len(stream)
      /\ \E n \in 0..MaxDerived * Cardinality(missed) :
           /\ Room(n)
           /\ \E sources \in [1..n -> missed] :
                stream' = stream \o
                  [k \in 1..n |-> [kind |-> "derived", zone |-> stream[sources[k]].zone]]
      /\ owed' = <<Resync>>
      /\ UNCHANGED <<trimmed, told, connected, wire, storeVars, drawerVars>>

(* PUBLISH, and what the gateway makes of it; or the Processor stops       *)
(* before it.                                                              *)
Announce ==
  /\ owed # <<>>
  /\ owed' = <<>>
  /\ \/ /\ wire' = IF connected THEN wire \o owed ELSE wire
        /\ UNCHANGED faults
     \/ Fault /\ UNCHANGED wire
  /\ UNCHANGED <<stream, trimmed, told, processed, connected, storeVars, drawerVars>>

(* XADD MAXLEN ~: Redis takes the oldest ones away when it suits it.       *)
Trim ==
  /\ Len(stream) - trimmed > StreamMaxLength
  /\ trimmed' = trimmed + 1
  /\ UNCHANGED <<stream, told, processed, owed, connected, wire, storeVars, drawerVars,
                 faults>>

------------------------------------------------------------------------------
(* The feed.                                                               *)

StartReload ==
  \E r \in 1..MaxReloads :
    reloads[r] = Idle /\ reloads' = [reloads EXCEPT ![r] = Asked]

OnConnect ==
  /\ ~connected
  /\ connected' = TRUE
  /\ StartReload
  /\ UNCHANGED <<redisVars, wire, buffer, feed, pastVars, drawerVars, faults>>

(* What was on its way is lost.                                            *)
OnDisconnect ==
  /\ connected /\ Fault
  /\ connected' = FALSE /\ wire' = <<>>
  /\ UNCHANGED <<redisVars, storeVars, drawerVars>>

OnEvent ==
  /\ wire # <<>> /\ Head(wire) # Resync
  /\ buffer' = Append(buffer, Head(wire))
  /\ wire' = Tail(wire)
  /\ UNCHANGED <<redisVars, connected, feed, reloads, pastVars, drawerVars, faults>>

OnResync ==
  /\ wire # <<>> /\ Head(wire) = Resync
  /\ StartReload
  /\ wire' = Tail(wire)
  /\ UNCHANGED <<redisVars, connected, buffer, feed, pastVars, drawerVars, faults>>

(* filter: what a sequence has of a set, in the order of the sequence. It  *)
(* is SelectSeq without its recursion, which a proof cannot use.           *)
Places(s, S) == {k \in 1..Len(s) : s[k] \in S}
Place(s, S, n) ==
  CHOOSE k \in Places(s, S) : Cardinality({j \in Places(s, S) : j <= k}) = n
Kept(s, S) == [n \in 1..Cardinality(Places(s, S)) |-> s[Place(s, S, n)]]

Taken(events, n) == SubSeq(events, 1, IF n < Len(events) THEN n ELSE Len(events))

(* What the last snapshot does not have in the feed of what it reached:    *)
(* events older than it, and those of it that newer ones have pushed out.  *)
Outside(i) == i <= top /\ (i < cut \/ added + top - i >= MaxFeed)

(* applyBatch: what the feed has under the same key is left out.           *)
Flush ==
  /\ buffer # <<>>
  /\ LET fresh == Kept(buffer, ToSet(buffer) \ ToSet(feed))
     IN  /\ feed' = Taken(Reverse(fresh) \o feed, MaxFeed)
         /\ added' = added + Len(fresh)
         /\ behind' = (behind \/ \E item \in ToSet(fresh) : Sensor(item.id) /\ Outside(item.id))
  /\ buffer' = <<>>
  /\ UNCHANGED <<redisVars, connected, wire, reloads, top, cut, drawerVars, faults>>

(* XREVRANGE: the newest n entries up to one of them, newest first.        *)
Newest(upto, n) ==
  LET size == IF upto - trimmed < n THEN upto - trimmed ELSE n
  IN  IF size <= 0 THEN <<>> ELSE [k \in 1..size |-> upto - k + 1]

(* getEvents without a filter reads once. A request that fails gives an    *)
(* empty answer.                                                           *)
Answer ==
  /\ \E r \in 1..MaxReloads :
       /\ reloads[r] = Asked
       /\ \/ /\ reloads' = [reloads EXCEPT ![r] = Answered(Newest(Len(stream), SnapshotLimit))]
             /\ UNCHANGED faults
          \/ Fault /\ reloads' = [reloads EXCEPT ![r] = Answered(<<>>)]
  /\ UNCHANGED <<redisVars, connected, wire, buffer, feed, pastVars, drawerVars>>

(* hydrate: every event of the answer has its stream_id. They are not cut  *)
(* to MaxFeed.                                                             *)
Hydrate ==
  /\ \E r \in 1..MaxReloads :
       /\ reloads[r].step = "answered"
       /\ LET events == reloads[r].events
          IN  /\ feed' = [k \in 1..Len(events) |-> [key |-> "stream_id", id |-> events[k]]]
              /\ top' = IF events = <<>> THEN 0 ELSE Head(events)
              /\ cut' = IF events = <<>> THEN 0 ELSE Last(events)
       /\ reloads' = [reloads EXCEPT ![r] = Idle]
  /\ added' = 0 /\ behind' = FALSE
  /\ UNCHANGED <<redisVars, connected, wire, buffer, drawerVars, faults>>

------------------------------------------------------------------------------
(* The drawer.                                                             *)

(* selectZone: what was there is drawn first, the effect runs afterwards.  *)
Select ==
  /\ rendered
  /\ Len(stream) <= MaxEntries[TRUE] /\ Cardinality(SystemEvents) <= MaxSystem[TRUE]
  /\ selected' \in (Zones \cup {NoZone}) \ {selected}
  /\ rendered' = FALSE
  /\ UNCHANGED <<redisVars, connected, wire, storeVars, history, requests, faults>>

(* Mutation: a request is not given up when the zone changes.              *)
NothingGivenUp(asked) == asked

(* cancelled = true: the answer of a request so marked changes nothing, so *)
(* nothing of it is left to model.                                         *)
GivenUp(asked) == {}

(* getZoneHistory: getEvents of a zone, from the newest entry back.        *)
ZoneHistory(zone) ==
  [zone |-> zone, scanned |-> 0, from |-> 0, end |-> 0, out |-> <<>>, done |-> FALSE]

(* The effect of zoneId: the last request is given up, a new one is made.  *)
RunEffect ==
  /\ ~rendered
  /\ rendered' = TRUE
  /\ IF selected = NoZone
     THEN requests' = GivenUp(requests) /\ UNCHANGED history
     ELSE /\ requests' = GivenUp(requests) \cup {ZoneHistory(selected)}
          /\ history' = <<>>
  /\ UNCHANGED <<redisVars, connected, wire, storeVars, selected, faults>>

(* Mutation: a batch begins where the one before it ended.                 *)
EndInclusive(entries) == Last(entries)

(* "(" before the id: up to the entry before the last one read.            *)
EndAfter(entries) == Last(entries) - 1

OfZone(zone) == {i \in 1..Len(stream) : stream[i].zone = zone}

(* One XREVRANGE of getEvents with a zone. From the newest entry there is  *)
(* when it is the first.                                                   *)
ReadBatch ==
  /\ \E r \in requests :
       LET from == IF r.scanned = 0 THEN Len(stream) ELSE r.from
           end == IF r.scanned = 0 THEN Len(stream) ELSE r.end
           entries == Newest(end, BatchSize)
           found == Kept(entries, OfZone(r.zone))
           out == Taken(r.out \o found, HistoryLimit)
           scanned == r.scanned + BatchSize
       IN  /\ ~r.done
           /\ requests' = (requests \ {r}) \cup
                {[r EXCEPT !.from = from, !.out = out, !.scanned = scanned,
                           !.end = IF entries = <<>> THEN end ELSE EndAfter(entries),
                           !.done = \/ Len(out) = HistoryLimit \/ scanned >= ScanLimit
                                    \/ Len(entries) < BatchSize]}
  /\ UNCHANGED <<redisVars, connected, wire, storeVars, selected, rendered, history,
                 faults>>

(* An answer that fails changes nothing.                                   *)
HistoryArrives ==
  /\ \E r \in requests :
       /\ \/ r.done /\ history' = r.out /\ UNCHANGED faults
          \/ Fault /\ UNCHANGED history
       /\ requests' = requests \ {r}
  /\ UNCHANGED <<redisVars, connected, wire, storeVars, selected, rendered>>

FeedIds == [k \in 1..Len(feed) |-> feed[k].id]

(* What the drawer lists: the feed of the zone, then the rest of its       *)
(* history.                                                                *)
Drawer ==
  LET live == Kept(FeedIds, OfZone(selected))
  IN  IF selected = NoZone THEN <<>>
      ELSE Taken(live \o Kept(history, ToSet(history) \ ToSet(live)), DrawerLimit)

(* eventVisual: readings are movements of vehicles, what is derived from   *)
(* them tells the state of a zone, and the rest is of the simulator.       *)
Category(i) ==
  CASE Sensor(i) -> "vehicle"
    [] System(i) -> "system"
    [] OTHER -> "state"

(* The activity panel, with or without a filter.                           *)
Items(ids, filter) == Kept(ids, {i \in 1..Len(stream) : filter \in {"all", Category(i)}})

Next ==
  \/ Sense
  \/ AddSystem
  \/ TellSystem
  \/ Process
  \/ CatchUp
  \/ Announce
  \/ Trim
  \/ OnConnect
  \/ OnDisconnect
  \/ OnEvent
  \/ OnResync
  \/ Flush
  \/ Answer
  \/ Hydrate
  \/ Select
  \/ RunEffect
  \/ ReadBatch
  \/ HistoryArrives

Spec == Init /\ [][Next]_vars

------------------------------------------------------------------------------
(* Properties                                                              *)

NewestFirst(ids) == \A k \in 1..Len(ids) - 1 : ids[k] > ids[k + 1]
NoneTwice(ids) == \A j, k \in 1..Len(ids) : ids[j] = ids[k] => j = k

(* The feed shows sensor events newest first and none of them twice,       *)
(* though REST answers with events that the Processor has not come to, and *)
(* these arrive live later, and though a snapshot may be old or empty.     *)
(* The order is lost when the Processor is so far behind that an event     *)
(* comes in that is older than the snapshot, or that the snapshot had and  *)
(* newer ones have pushed out of the feed.                                 *)
FeedInOrder ==
  LET ids == Items(FeedIds, "vehicle")
  IN  NoneTwice(ids) /\ (behind \/ NewestFirst(ids))

(* Once the effect of a selection has run, the drawer lists events of the  *)
(* selected zone and no sensor event twice: an answer for another zone     *)
(* that comes late does not get in.                                        *)
DrawerIsOfZone ==
  rendered =>
    /\ \A i \in ToSet(Drawer) : stream[i].zone = selected
    /\ NoneTwice(Items(Drawer, "vehicle"))

(* A zone's history is its newest events as of the first batch, without a  *)
(* hole and without a repetition, although the stream grows and is trimmed *)
(* between two batches; of what is still there, only entries beyond the    *)
(* ScanLimit may be missing.                                               *)
HistoryIsNewest ==
  \A r \in {q \in requests : q.done} :
    LET oldest == IF trimmed > r.from - ScanLimit THEN trimmed + 1 ELSE r.from - ScanLimit + 1
        there == {i \in oldest..r.from : stream[i].zone = r.zone}
    IN  /\ NewestFirst(r.out)
        /\ \A i \in there \ ToSet(r.out) :
             Len(r.out) = HistoryLimit /\ \A j \in ToSet(r.out) : j > i
=============================================================================
