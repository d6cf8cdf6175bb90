---------------------------- MODULE ArchiveReports ----------------------------
(***************************************************************************)
(* What PostgreSQL keeps for the reports, and how the services that use it *)
(* know that it is there.                                                  *)
(*                                                                         *)
(*   archiver/index.ts        connectPostgres, the timers of takeSnapshot  *)
(*                            and purge                                    *)
(*   archive-repository.ts    upsertZones, insertSnapshots, purgeOlderThan *)
(*   schema.sql               the view daily_zone_summary                  *)
(*   archive.service.ts       the reports, the counts every 5 s            *)
(*   postgres.ts              connected, as pings and queries find it      *)
(*                                                                         *)
(* Consumer groups and what is written twice are the matter of Archiver:   *)
(* an entry here is written once. A row is known by its entry; of what it  *)
(* tells there are zone, kind and time. The view counts the types of       *)
(* events one by one, here they are one; peak and average are left out.    *)
(***************************************************************************)
EXTENDS Integers, Sequences, FiniteSets

CONSTANTS
  Zones,             \* loadZones()
  DayTicks,          \* ticks of the clock in a day
  RetentionDays,     \* ARCHIVE_RETENTION_DAYS
  MaxNow,            \* bound: the clock
  MaxRecords,        \* bound: entries of the streams, and snapshots
  MaxRequests,       \* bound: requests of the Backend under way at a time
  MaxFailures        \* bound: stops and starts of PostgreSQL, crashes of the archiver

ASSUME ArchiveReportsAssumption ==
  /\ IsFiniteSet(Zones) /\ Zones # {}
  /\ {DayTicks, RetentionDays} \subseteq Nat \ {0}
  /\ {MaxNow, MaxRecords, MaxRequests, MaxFailures} \subseteq Nat

VARIABLES
  now,
  records,           \* [kind, zone, at] of what happened and of the snapshots
  \* PostgreSQL
  up,
  tables,            \* schema.sql was applied
  zoneRows,          \* zones
  rows,              \* parking_events, alerts and zone_snapshots
  resolved,          \* alerts with status RESOLVED
  \* Archiver
  step,              \* of connectPostgres: "stopped", "ping", "schema", "zones", "done"
  missing,           \* zones that upsertZones has still to write
  postgresUp,
  \* Backend
  connected,         \* Postgres.connected
  counts,            \* ArchiveService.counts: "null" or "given"
  requests,          \* what it asks of PostgreSQL
  \* history
  archived,          \* entries that this database was given
  replaced,          \* it is another one than the archiver set up
  informed,          \* a refresh has ended that began after the last change,
                     \* and nothing older has been answered after it
  failures

happened == <<now, records>>
tableVars == <<tables, zoneRows, rows, resolved, archived>>
archiverVars == <<step, missing, postgresUp, replaced>>
backendVars == <<connected, counts, requests, informed>>
reportsVars == <<now, records, up, tables, zoneRows, rows, resolved, step, missing,
                 postgresUp, connected, counts, requests, archived, replaced, informed,
                 failures>>

Failure == failures < MaxFailures /\ failures' = failures + 1

ReportsInit ==
  /\ now = 0 /\ records = <<>>
  /\ up = TRUE /\ tables = FALSE /\ zoneRows = {} /\ rows = {} /\ resolved = {}
  /\ step = "ping" /\ missing = {} /\ postgresUp = FALSE
  /\ connected = FALSE /\ counts = "null" /\ requests = {}
  /\ archived = {} /\ replaced = FALSE /\ informed = FALSE
  /\ failures = 0

------------------------------------------------------------------------------
(* What happens around the services.                                       *)

Tick ==
  /\ now < MaxNow
  /\ now' = now + 1
  /\ UNCHANGED <<records, up, tableVars, archiverVars, backendVars, failures>>

(* An event of a zone, or an alert that is raised.                         *)
Happen ==
  /\ Len(records) < MaxRecords
  /\ \E kind \in {"EVENT", "ALERT"}, z \in Zones :
       records' = Append(records, [kind |-> kind, zone |-> z, at |-> now])
  /\ UNCHANGED <<now, up, tableVars, archiverVars, backendVars, failures>>

(* What was asked before this tells how it was.                            *)
Outdated == {[r EXCEPT !.since = FALSE] : r \in requests}

Change ==
  /\ requests' = Outdated /\ informed' = FALSE
  /\ UNCHANGED <<connected, counts>>

Toggle ==
  /\ Failure
  /\ up' = ~up
  /\ Change
  /\ UNCHANGED <<happened, tableVars, archiverVars>>

(* The volume is lost with the container: the next one starts empty.       *)
Replace ==
  /\ Failure
  /\ ~up /\ tables
  /\ up' = TRUE
  /\ tables' = FALSE /\ zoneRows' = {} /\ rows' = {} /\ resolved' = {} /\ archived' = {}
  /\ replaced' = TRUE
  /\ Change
  /\ UNCHANGED <<happened, step, missing, postgresUp>>

------------------------------------------------------------------------------
(* The archiver.                                                           *)

(* Mutation: postgresUp is set when the ping has been answered.            *)
UpAfterPing == TRUE

(* postgresUp = true comes last, after upsertZones.                        *)
UpDuringConnect == FALSE

Ping ==
  /\ step = "ping" /\ up
  /\ step' = "schema"
  /\ postgresUp' = UpDuringConnect
  /\ UNCHANGED <<happened, up, tableVars, missing, replaced, backendVars, failures>>

(* CREATE TABLE IF NOT EXISTS.                                             *)
ApplySchema ==
  /\ step = "schema" /\ up
  /\ tables' = TRUE
  /\ step' = "zones" /\ missing' = Zones /\ replaced' = FALSE
  /\ IF tables THEN UNCHANGED backendVars ELSE Change
  /\ UNCHANGED <<happened, up, zoneRows, rows, resolved, archived, postgresUp, failures>>

(* One INSERT ... ON CONFLICT per zone.                                    *)
UpsertZone ==
  /\ step = "zones" /\ up /\ tables
  /\ \E z \in missing : zoneRows' = zoneRows \cup {z} /\ missing' = missing \ {z}
  /\ UNCHANGED <<happened, up, tables, rows, resolved, archived, step, postgresUp, replaced,
                 backendVars, failures>>

Connected ==
  /\ step = "zones" /\ missing = {}
  /\ step' = "done" /\ postgresUp' = TRUE
  /\ UNCHANGED <<happened, up, tableVars, missing, replaced, backendVars, failures>>

(* Any query of connectPostgres fails: it starts anew in 5 s.              *)
ConnectFails ==
  /\ step \in {"schema", "zones"}
  /\ ~up \/ (step = "zones" /\ ~tables)
  /\ step' = "ping" /\ missing' = {} /\ postgresUp' = FALSE
  /\ UNCHANGED <<happened, up, tableVars, replaced, backendVars, failures>>

Served == up /\ tables

(* A batch of the consume loop: what is in the streams and not in a row.   *)
Waiting == {i \in 1..Len(records) : records[i].kind # "SNAPSHOT"} \ archived

WriteBatch ==
  /\ step = "done" /\ Waiting # {}
  /\ IF Served
     THEN /\ rows' = rows \cup Waiting /\ archived' = archived \cup Waiting
          /\ UNCHANGED <<step, postgresUp>>
     ELSE /\ step' = "ping" /\ postgresUp' = FALSE
          /\ UNCHANGED <<rows, archived>>
  /\ UNCHANGED <<happened, up, tables, zoneRows, resolved, missing, replaced,
                 backendVars, failures>>

(* A batch with the RESOLVED of an alert.                                  *)
WriteResolved ==
  /\ step = "done" /\ Served
  /\ \E i \in rows \ resolved : records[i].kind = "ALERT" /\ resolved' = resolved \cup {i}
  /\ UNCHANGED <<happened, up, tables, zoneRows, rows, archived, archiverVars, backendVars,
                 failures>>

(* insertSnapshots: a row for every zone in one INSERT, at its own time.   *)
(* zone_id must be in zones, or none is written.                           *)
Captured == [kind |-> "SNAPSHOT", zone |-> "every", at |-> now]

(* takeSnapshot: when the INSERT fails that is all.                        *)
TakeSnapshot ==
  /\ step # "stopped" /\ postgresUp
  /\ Len(records) < MaxRecords
  /\ Served /\ zoneRows = Zones
  /\ records' = Append(records, Captured)
  /\ rows' = rows \cup {Len(records')}
  /\ archived' = archived \cup {Len(records')}
  /\ UNCHANGED <<now, up, tables, zoneRows, resolved, archiverVars, backendVars, failures>>

(* Mutation: the retention counts the present day as a whole one.          *)
CutAtMidnight == ((now \div DayTicks) - RetentionDays + 1) * DayTicks

(* now() - make_interval(days)                                             *)
Cut == now - RetentionDays * DayTicks

(* purgeOlderThan: events, then snapshots, then alerts that are resolved.  *)
PurgeSteps == <<"EVENT", "SNAPSHOT", "ALERT">>

PurgeOlderThan ==
  /\ step # "stopped" /\ postgresUp /\ Served
  /\ \E n \in 1..Len(PurgeSteps) :
       rows' = {i \in rows : \/ records[i].at >= Cut
                             \/ \A k \in 1..n : records[i].kind # PurgeSteps[k]
                             \/ records[i].kind = "ALERT" /\ i \notin resolved}
  /\ UNCHANGED <<happened, up, tables, zoneRows, resolved, archived, archiverVars,
                 backendVars, failures>>

ArchiverStops ==
  /\ Failure
  /\ step # "stopped"
  /\ step' = "stopped" /\ missing' = {} /\ postgresUp' = FALSE
  /\ UNCHANGED <<happened, up, tableVars, replaced, backendVars>>

Restart ==
  /\ step = "stopped"
  /\ step' = "ping"
  /\ UNCHANGED <<happened, up, tableVars, missing, postgresUp, replaced, backendVars,
                 failures>>

------------------------------------------------------------------------------
(* The Backend.                                                            *)

(* What PostgreSQL answers to SELECT 1 and to a query of the tables. A     *)
(* connection that is cut has no code that postgres.ts knows.              *)
PingOutcomes == {IF up THEN "rows" ELSE "refused"}
QueryOutcomes == IF ~up THEN {"refused", "cut"} ELSE {IF tables THEN "rows" ELSE "no table"}

(* PostgreSQL comes to it, and the answer takes its time.                  *)
Asked(kind, outcomes, since) ==
  {[kind |-> kind, outcome |-> outcome, since |-> since] : outcome \in outcomes}

(* refreshCounts, every 5 s whether or not the last one is back.           *)
StartRefresh ==
  /\ Cardinality(requests) < MaxRequests
  /\ \E r \in Asked("ping", PingOutcomes, TRUE) : requests' = requests \cup {r}
  /\ UNCHANGED <<happened, up, tableVars, archiverVars, connected, counts, informed, failures>>

(* A report is asked for: GET /api/archive/...                             *)
StartReport ==
  /\ Cardinality(requests) < MaxRequests
  /\ \E r \in Asked("report", QueryOutcomes, TRUE) : requests' = requests \cup {r}
  /\ UNCHANGED <<happened, up, tableVars, archiverVars, connected, counts, informed, failures>>

(* ping(): counts are null without an answer; else they are asked for.     *)
PingAnswered ==
  /\ \E r \in requests :
       /\ r.kind = "ping"
       /\ connected' = (r.outcome = "rows")
       /\ IF r.outcome = "rows"
          THEN /\ \E q \in Asked("counts", QueryOutcomes, r.since) :
                    requests' = (requests \ {r}) \cup {q}
               /\ UNCHANGED counts /\ informed' = (informed /\ r.since)
          ELSE /\ requests' = requests \ {r}
               /\ counts' = "null" /\ informed' = r.since
  /\ UNCHANGED <<happened, up, tableVars, archiverVars, failures>>

(* Mutation: the counts stay as they are when their query fails.           *)
CountsKept(outcome) == IF outcome = "rows" THEN "given" ELSE counts

CountsAfter(outcome) == IF outcome = "rows" THEN "given" ELSE "null"

(* query(): a table that is missing says that PostgreSQL is there.         *)
ConnectedAfter(outcome) ==
  IF outcome = "cut" THEN connected ELSE outcome # "refused"

(* postgresStatus(): what the page is told of PostgreSQL.                  *)
PostgresStatus == IF connected THEN "ONLINE" ELSE "OFFLINE"

CountsAnswered ==
  /\ \E r \in requests :
       /\ r.kind = "counts"
       /\ connected' = ConnectedAfter(r.outcome)
       /\ counts' = CountsAfter(r.outcome)
       /\ requests' = requests \ {r}
       /\ informed' = r.since
  /\ UNCHANGED <<happened, up, tableVars, archiverVars, failures>>

ReportAnswered ==
  /\ \E r \in requests :
       /\ r.kind = "report"
       /\ connected' = ConnectedAfter(r.outcome)
       /\ requests' = requests \ {r}
       /\ informed' = (informed /\ r.since)
  /\ UNCHANGED <<happened, up, tableVars, archiverVars, counts, failures>>

Day(at) == at \div DayTicks

(* The view daily_zone_summary over given rows: a row for every zone and   *)
(* day with events, and zone_id must be in zones.                          *)
DailyZoneSummary(given) ==
  LET of(d, z, kind) ==
        Cardinality({i \in given : /\ records[i].kind = kind /\ records[i].zone = z
                                   /\ Day(records[i].at) = d})
      summary(d, z) == [day |-> d, zone |-> z, events |-> of(d, z, "EVENT"),
                        alerts |-> of(d, z, "ALERT")]
  IN  {s \in {summary(d, z) : d \in 0..Day(now), z \in zoneRows} : s.events > 0}

(* dailySummary: the view, from a day on.                                  *)
DailySummary(given, days) == {s \in DailyZoneSummary(given) : s.day >= Day(now) - days}

(* hourlyOccupancy: the snapshots of the last hours.                       *)
HourlyOccupancy(given, ticks) ==
  {i \in given : records[i].kind = "SNAPSHOT" /\ records[i].at >= now - ticks}

(* events, alerts: the newest of a kind. Of those at the same time         *)
(* PostgreSQL picks some.                                                  *)
Latest(given, kind, limit) ==
  LET of == {i \in given : records[i].kind = kind}
  IN  {i \in of : Cardinality({j \in of : records[j].at > records[i].at}) < limit}

ReportsNext ==
  \/ Tick
  \/ Happen
  \/ Toggle
  \/ Replace
  \/ Ping
  \/ ApplySchema
  \/ UpsertZone
  \/ Connected
  \/ ConnectFails
  \/ WriteBatch
  \/ WriteResolved
  \/ TakeSnapshot
  \/ PurgeOlderThan
  \/ ArchiverStops
  \/ Restart
  \/ StartRefresh
  \/ StartReport
  \/ PingAnswered
  \/ CountsAnswered
  \/ ReportAnswered

ReportsSpec == ReportsInit /\ [][ReportsNext]_reportsVars

------------------------------------------------------------------------------
(* Properties                                                              *)

(* Whenever the archiver takes PostgreSQL for ready, snapshots find their  *)
(* tables and zones, at whatever query a connect was cut and the archiver  *)
(* stopped before; but a database that was replaced goes unnoticed until a *)
(* batch fails.                                                            *)
ReadyMeansSchema ==
  postgresUp /\ ~replaced => tables /\ zoneRows = Zones

(* A report that goes back fewer days than the retention, the occupancy of *)
(* as many hours as the retention has and the lists of the newest events   *)
(* and alerts within it miss nothing that was archived, however late the   *)
(* purge runs and however far it gets.                                     *)
ReportsAreComplete ==
  /\ DailySummary(rows, RetentionDays - 1) = DailySummary(archived, RetentionDays - 1)
  /\ HourlyOccupancy(rows, RetentionDays * DayTicks)
       = HourlyOccupancy(archived, RetentionDays * DayTicks)
  /\ \A kind \in {"EVENT", "ALERT"} :
       LET recent(given) == {i \in Latest(given, kind, 1) : records[i].at >= Cut}
       IN  recent(rows) = recent(archived)

(* Once a refresh has run from start to end since PostgreSQL changed last, *)
(* the Backend shows it as it is, and counts if and only if there is       *)
(* something to count, whatever refreshes and reports run beside it. An    *)
(* older answer that comes after it undoes that until the next refresh.    *)
ShownAsItIs ==
  informed => /\ PostgresStatus = (IF up THEN "ONLINE" ELSE "OFFLINE")
              /\ counts = "given" <=> up /\ tables
===============================================================================
