------------------------- MODULE SensorReadingsProofs -------------------------
(***************************************************************************)
(* Proofs about SensorReadings, for any capacities, schedules, clocks and  *)
(* lengths of a plan: no reading is turned away, its window is what the    *)
(* movements say, readings are in the order of the simulated time, and a   *)
(* plan is made for the entry of the schedule that began last.             *)
(***************************************************************************)
EXTENDS SensorReadings, FiniteSetTheorems, WellFoundedInduction, TLAPS

Minutes == 0..DayMinutes - 1
Running == DayStart..DayEnd - 1        \* minutes of the accelerated clock
Times == [day : Nat \ {0}, minute : Running]
Snapshots == [mode : Modes, minute : Running, day : Nat \ {0}]
Movements == [at : Nat, kind : Kinds]

Tasks ==
  {NoTask}
    \cup [by : {"loop", "command"}, step : {"emit"}, kind : Kinds, count : Nat, in : Nat,
          out : Nat, clock : Minutes, at : Times]
    \cup [by : {"command"}, step : {"announce", "emitted"}]
    \cup [by : {"loop", "command"}, step : {"write"}, state : Snapshots]

(* The Publisher: what it is set to, and what it works on.                 *)
TypeInv ==
  /\ now \in Nat
  /\ capacity \in Nat \ {0} /\ occupied \in 0..capacity
  /\ mode \in Modes /\ minute \in Running /\ day \in Nat \ {0}
  /\ saved \subseteq Snapshots
  /\ task \in Tasks
  /\ loop = "boot" => task = NoTask
  /\ plan \in Seq(Kinds)
  /\ recent \in Seq(Movements) /\ moves \in Seq(Movements)
  /\ shown \in Times

Events == [kind : Kinds, capacity : Nat, occupied : Nat, available : Nat,
           occupancy : Nat, previous : Nat, entries : Nat, exits : Nat, clock : Minutes]
Readings == {event \in Events : ValidEvent(event)}

(* What has been published is valid, and so is what is made of it.         *)
Accepted ==
  /\ processor \in Nat \ {0}
  /\ zone = NoZone \/ (zone.capacity \in Nat \ {0} /\ zone.occupied \in 0..zone.capacity)
  /\ stream \in Seq(Readings)
  /\ rejected = 0
  /\ \A event \in derived : ValidEvent(event)

(* Movements from d on, of one kind.                                       *)
From(s, d, kind) == {i \in d + 1..Len(s) : s[i].kind = kind}
Moved(s, d, kind) == Cardinality(From(s, d, kind))

(* The sensor has forgotten a number of movements, and all of them are     *)
(* older than a minute.                                                    *)
Old(move) == now - move.at > Minute
AllOld(s, d) == \A i \in 1..d : Old(s[i])
Rest(s, t, d) == Len(t) = Len(s) - d /\ \A i \in 1..Len(t) : t[i] = s[d + i]
Forgot(s, t, d) == Rest(s, t, d) /\ AllOld(s, d)

Remembers == \E d \in 0..Len(moves) : Forgot(moves, recent, d)

InTime ==
  /\ \A i \in 1..Len(moves) : moves[i].at <= now
  /\ \A i, j \in 1..Len(moves) : i <= j => moves[i].at <= moves[j].at

(* Going back by the movements since any of them: what the zone held then. *)
Held(s, count, d) == count - Moved(s, d, "ENTRY") + Moved(s, d, "EXIT")

Balanced == \A d \in 0..Len(moves) : Held(moves, occupied, d) \in 0..capacity

Windows == Remembers /\ InTime /\ Balanced /\ WindowBalances

(* Moments of the simulated time.                                          *)
NotAfter(s, t) == s.day < t.day \/ (s.day = t.day /\ s.minute <= t.minute)

Clock == [day |-> day, minute |-> minute]
FirstMoment == [day |-> 1, minute |-> StartTime]

(* Unless the clock was set, it is not behind the last reading; what has   *)
(* been captured lies between them.                                        *)
MovesOn ==
  /\ ~jumped => NotAfter(shown, Clock)
  /\ task.step = "emit" => /\ NotAfter(task.at, Clock)
                           /\ ~jumped => NotAfter(shown, task.at)
  /\ loop = "boot" /\ ~jumped =>
       saved = {Snapshot} \/ (saved = {} /\ shown = FirstMoment)

Planned ==
  /\ profile.minute \in Minutes
  /\ profile.name = ResolveProfile(profile.minute)

(* A schedule like the one of simulation.json: there is an entry for every *)
(* minute of the day, and none begins inside another one.                  *)
Tiled ==
  /\ \A m \in Minutes : \E i \in 1..Len(Schedule) :
       InRange(m, Schedule[i].from, Schedule[i].to)
  /\ \A i, j \in 1..Len(Schedule) :
       InRange(Schedule[j].from, Schedule[i].from, Schedule[i].to)
         => Schedule[j].from = Schedule[i].from

------------------------------------------------------------------------------
(* Arithmetic of domain/occupancy.ts.                                      *)

LEMMA DivisionBounds ==
  ASSUME NEW x \in Nat, NEW d \in Nat \ {0}
  PROVE  /\ x \div d \in Nat
         /\ d * (x \div d) <= x /\ x < d * (x \div d) + d
  OBVIOUS

LEMMA ProductOrder ==
  ASSUME NEW a \in Nat, NEW b \in Nat, NEW c \in Nat, a <= b
  PROVE  a * c \in Nat /\ b * c \in Nat /\ a * c <= b * c
  BY SMT

(* Rounding does not lead beyond a whole number that bounds the quotient.  *)
LEMMA RoundIs ==
  ASSUME NEW n \in Nat, NEW d \in Nat \ {0}, NEW k \in Nat, n <= k * d
  PROVE  Round(n, d) \in 0..k
  <1>1. PICK x \in Nat : x = 2 * n + d
    OBVIOUS
  <1>2. PICK e \in Nat \ {0} : e = 2 * d
    OBVIOUS
  <1>3. PICK q \in Nat : q = x \div e
    BY <1>1, <1>2, DivisionBounds
  <1>4. e * q <= x
    BY <1>1, <1>2, <1>3, DivisionBounds
  <1>5. ASSUME q >= k + 1 PROVE FALSE
    <2>1. (k + 1) * e <= q * e /\ q * e \in Nat
      BY <1>5, ProductOrder
    <2>2. PICK p \in Nat : p = k * d
      BY ProductOrder
    <2>3. (k + 1) * e = 2 * p + 2 * d
      BY <1>2, <2>2
    <2>4. x <= 2 * p + d
      BY <1>1, <2>2
    <2>5. q * e = e * q
      OBVIOUS
    <2> QED BY <1>4, <2>1, <2>3, <2>4, <2>5
  <1>6. Round(n, d) = q
    BY <1>1, <1>2, <1>3 DEF Round
  <1> QED BY <1>5, <1>6

LEMMA ClampIs ==
  ASSUME NEW o \in Int, NEW c \in Nat
  PROVE  /\ ClampOccupied(o, c) \in 0..c
         /\ o \in 0..c => ClampOccupied(o, c) = o
  BY DEF ClampOccupied

LEMMA InitialIs ==
  ASSUME NEW c \in Nat \ {0}, NEW value \in InitialOccupancies(c)
  PROVE  value \in 0..c
  <1>1. PICK percent \in Percents : value = Round(c * percent, 100)
    BY DEF InitialOccupancies
  <1>2. percent \in Nat /\ percent <= 100
    BY SensorAssumption
  <1>3. percent * c \in Nat /\ percent * c <= 100 * c
    BY <1>2, ProductOrder
  <1>4. c * percent = percent * c /\ 100 * c = c * 100
    BY <1>2
  <1> QED BY <1>1, <1>3, <1>4, RoundIs

LEMMA OccupancyIs ==
  ASSUME NEW o \in Int, NEW c \in Nat \ {0}
  PROVE  CalculateOccupancy(o, c) \in Nat /\ CalculateOccupancy(o, c) <= 10000
  <1>1. PICK held \in 0..c : held = ClampOccupied(o, c)
    BY ClampIs
  <1>2. PICK k \in Nat : k = 10000
    OBVIOUS
  <1>3. PICK n \in Nat : n = k * held
    BY ProductOrder
  <1>4. n <= k * c
    <2>1. held * k <= c * k
      BY ProductOrder
    <2>2. held * k = k * held /\ c * k = k * c
      OBVIOUS
    <2> QED BY <1>3, <2>1, <2>2
  <1>5. Round(n, c) \in Nat /\ Round(n, c) <= k
    BY <1>4, RoundIs
  <1>6. CalculateOccupancy(o, c) = Round(n, c)
    BY <1>1, <1>2, <1>3 DEF CalculateOccupancy
  <1> QED BY <1>2, <1>5, <1>6

(* Whatever is counted like this is valid.                                 *)
Counted(e, c, o) ==
  /\ e.capacity = c /\ e.occupied = o /\ e.available = c - o
  /\ e.occupancy = CalculateOccupancy(o, c)
  /\ e.previous \in Nat /\ e.previous <= 10000
  /\ e.entries \in Nat /\ e.exits \in Nat /\ e.clock \in Minutes

LEMMA CountedIsValid ==
  ASSUME NEW e, NEW c \in Nat \ {0}, NEW o \in 0..c, Counted(e, c, o)
  PROVE  ValidEvent(e)
  <1>1. PICK x \in Nat : x = CalculateOccupancy(o, c) /\ x <= 10000
    BY OccupancyIs
  <1>2. ValidData(e)
    <2>1. PICK p \in Nat : p = e.previous /\ p <= 10000
      BY DEF Counted
    <2>2. \A percentage \in {x, p} : percentage >= 0 /\ percentage <= 10000
      BY <1>1, <2>1
    <2>3. x - x \in -1..1
      BY <1>1
    <2> QED BY <1>1, <2>1, <2>2, <2>3 DEF ValidData, Counted
  <1> QED BY <1>2 DEF Counted, ValidEvent, ValidMetadata, Minutes

LEMMA ConstantsAre ==
  /\ StartTime \in Running /\ DayStart \in Running /\ Running \subseteq Minutes
  /\ PerTick \in Nat \ {0} /\ DayMinutes \in Nat \ {0}
  BY SensorAssumption DEF Running, Minutes, DayMinutes

LEMMA LabelIs ==
  ASSUME NEW m \in Int PROVE m % DayMinutes \in Minutes
  BY DEF DayMinutes, Minutes

------------------------------------------------------------------------------
(* The window of the sensor.                                               *)

LEMMA SmallestExists ==
  ASSUME NEW S \in SUBSET Nat, S # {}
  PROVE  \E n \in S : \A m \in S : n <= m
  <1>1. PICK n \in S : \A m \in S : ~(<<m, n>> \in OpToRel(<, Nat))
    BY NatLessThanWellFounded, WFMin
  <1>2. \A m \in S : ~(m < n)
    BY <1>1 DEF OpToRel
  <1> QED BY <1>2

LEMMA MinuteIs == Minute \in Nat \ {0}
  BY SensorAssumption

(* prune(): the movements before the first that is recent enough.          *)
LEMMA PrunedIs ==
  ASSUME NEW s \in Seq(Movements), now \in Nat, Len(s) \in Nat \ {0}, s[Len(s)].at = now
  PROVE  \E k \in 0..Len(s) - 1 :
           /\ Pruned(s) = SubSeq(s, k + 1, Len(s))
           /\ ~Old(s[k + 1]) /\ AllOld(s, k)
  <1> DEFINE old == {i \in 1..Len(s) : \A j \in 1..i : now - s[j].at > Minute}
             new == {i \in 1..Len(s) : ~Old(s[i])}
  <1>1. PICK n \in Nat \ {0} : n = Len(s)
    OBVIOUS
  <1>2. n \in new
    BY <1>1, MinuteIs DEF Old
  <1>3. PICK f \in new : \A m \in new : f <= m
    <2>1. new \in SUBSET Nat /\ new # {}
      BY <1>2
    <2> HIDE DEF new
    <2> QED BY <2>1, SmallestExists
  <1>4. PICK k \in 0..n - 1 : f = k + 1
    <2>1. f - 1 \in 0..n - 1 /\ f = (f - 1) + 1
      BY <1>1
    <2> QED BY <2>1
  <1>5. \A i \in 1..k : Old(s[i])
    BY <1>1, <1>3, <1>4
  <1>6. ~Old(s[k + 1])
    BY <1>4
  <1>7. old = 1..k
    <2>1. \A i \in 1..k : i \in old
      BY <1>1, <1>5 DEF Old
    <2>2. ASSUME NEW i \in old PROVE i \in 1..k
      <3>1. CASE i > k
        <4>1. k + 1 \in 1..i
          BY <3>1
        <4> QED BY <1>6, <4>1 DEF Old
      <3> QED BY <3>1
    <2> QED BY <2>1, <2>2
  <1>8. Cardinality(old) = k
    <2>1. Cardinality(1..k) = k
      BY FS_Interval
    <2> QED BY <1>7, <2>1
  <1>9. Pruned(s) = SubSeq(s, k + 1, Len(s))
    <2>1. Pruned(s) = SubSeq(s, Cardinality(old) + 1, Len(s))
      BY DEF Pruned
    <2> HIDE DEF old
    <2> QED BY <1>8, <2>1
  <1> QED BY <1>1, <1>5, <1>6, <1>9 DEF AllOld

LEMMA RestOf ==
  ASSUME NEW S, NEW s \in Seq(S), NEW k \in 0..Len(s)
  PROVE  SubSeq(s, k + 1, Len(s)) \in Seq(S) /\ Rest(s, SubSeq(s, k + 1, Len(s)), k)
  BY Z3 DEF Rest

Extends(t, s, e) ==
  /\ Len(t) = Len(s) + 1 /\ t[Len(s) + 1] = e
  /\ \A i \in 1..Len(s) : t[i] = s[i]

LEMMA AppendIs ==
  ASSUME NEW S, NEW s \in Seq(S), NEW e \in S
  PROVE  Append(s, e) \in Seq(S) /\ Extends(Append(s, e), s, e)
  BY DEF Extends

(* Movements of a kind are counted one by one.                             *)
LEMMA FromIsFinite ==
  ASSUME NEW s, Len(s) \in Nat, NEW d \in Nat, NEW kind
  PROVE  IsFiniteSet(From(s, d, kind)) /\ Moved(s, d, kind) \in Nat
  <1>1. IsFiniteSet(d + 1..Len(s)) /\ From(s, d, kind) \subseteq d + 1..Len(s)
    BY FS_Interval DEF From
  <1>2. IsFiniteSet(From(s, d, kind))
    BY <1>1, FS_Subset
  <1> QED BY <1>2, FS_CardinalityType DEF Moved

LEMMA OneMore ==
  ASSUME NEW s \in Seq(Movements), NEW e \in Movements, NEW t, Extends(t, s, e),
         NEW d \in 0..Len(s), NEW kind
  PROVE  /\ e.kind = kind => Moved(t, d, kind) = Moved(s, d, kind) + 1
         /\ e.kind # kind => Moved(t, d, kind) = Moved(s, d, kind)
  <1>1. PICK n \in Nat : n = Len(s)
    OBVIOUS
  <1>2. Len(t) = n + 1 /\ t[n + 1] = e /\ \A i \in 1..n : t[i] = s[i]
    BY <1>1 DEF Extends
  <1>3. IsFiniteSet(From(s, d, kind)) /\ Moved(s, d, kind) \in Nat
    BY <1>1, FromIsFinite
  <1>4. n + 1 \notin From(s, d, kind)
    BY <1>1 DEF From
  <1>5. d \in Nat /\ d <= n
    BY <1>1
  <1>6. CASE e.kind = kind
    <2>1. From(t, d, kind) = From(s, d, kind) \cup {n + 1}
      BY <1>1, <1>2, <1>5, <1>6 DEF From
    <2>2. Cardinality(From(s, d, kind) \cup {n + 1}) = Cardinality(From(s, d, kind)) + 1
      BY <1>3, <1>4, FS_AddElement
    <2> QED BY <1>6, <2>1, <2>2 DEF Moved
  <1>7. CASE e.kind # kind
    <2>1. From(t, d, kind) = From(s, d, kind)
      BY <1>1, <1>2, <1>5, <1>7 DEF From
    <2> QED BY <1>3, <1>7, <2>1 DEF Moved
  <1> QED BY <1>6, <1>7

LEMMA NoneBeyond ==
  ASSUME NEW s, NEW d \in Nat, Len(s) = d, NEW kind
  PROVE  Moved(s, d, kind) = 0
  <1>1. From(s, d, kind) = {}
    BY DEF From
  <1> QED BY <1>1, FS_EmptySet DEF Moved

(* What the sensor counts are the movements that it has not forgotten.     *)
LEMMA CountIs ==
  ASSUME NEW s \in Seq(Movements), NEW t \in Seq(Movements), NEW d \in 0..Len(s),
         Rest(s, t, d), NEW kind
  PROVE  Count(t, kind) = Moved(s, d, kind)
  <1> DEFINE T == {i \in 1..Len(t) : t[i].kind = kind}
             S == From(s, d, kind)
             f == [i \in T |-> d + i]
  <1>1. PICK n \in Nat : n = Len(s)
    OBVIOUS
  <1>2. PICK m \in Nat : m = Len(t) /\ m = n - d
    <2>1. Len(t) \in Nat /\ Len(t) = n - d
      BY <1>1 DEF Rest
    <2> QED BY <2>1
  <1>3. \A i \in T : d + i \in S
    BY <1>1, <1>2 DEF From, Rest
  <1>4. \A j \in S : j - d \in T /\ d + (j - d) = j
    BY <1>1, <1>2 DEF From, Rest
  <1>5. \A i, j \in T : d + i = d + j => i = j
    BY <1>2
  <1>6. IsFiniteSet(T)
    <2>1. IsFiniteSet(1..m)
      BY FS_Interval
    <2>2. T \subseteq 1..m
      BY <1>2
    <2> HIDE DEF T
    <2> QED BY <2>1, <2>2, FS_Subset
  <1>7. f \in Bijection(T, S)
    <2> HIDE DEF T, S
    <2>1. f \in [T -> S]
      BY <1>3
    <2>2. \A i, j \in T : f[i] = f[j] => i = j
      BY <1>5
    <2>3. \A j \in S : \E i \in T : f[i] = j
      BY <1>4
    <2> QED BY <2>1, <2>2, <2>3 DEF Bijection, Injection, Surjection, IsInjective
  <1>8. Cardinality(T) = Cardinality(S)
    <2> HIDE DEF T, S, f
    <2>1. ExistsBijection(T, S)
      BY <1>7 DEF ExistsBijection
    <2> QED BY <1>6, <2>1, FS_Bijection
  <1> QED BY <1>8 DEF Count, Moved

------------------------------------------------------------------------------
(* Types.                                                                  *)

NewMove(kind) == [at |-> now, kind |-> kind]

LEMMA CaptureIs ==
  ASSUME TypeInv, NEW kind \in Kinds, NEW by \in {"loop", "command"}, Capture(kind, by)
  PROVE  /\ capacity' = capacity
         /\ occupied' = IF kind = "ENTRY" THEN occupied + 1 ELSE occupied - 1
         /\ occupied' \in 0..capacity
         /\ moves' = Append(moves, NewMove(kind)) /\ moves' \in Seq(Movements)
         /\ NewMove(kind) \in Movements
         /\ recent' \in Seq(Movements)
         /\ \E all \in Seq(Movements), k \in 0..Len(recent) :
              /\ Extends(all, recent, NewMove(kind))
              /\ Rest(all, recent', k) /\ AllOld(all, k) /\ ~Old(all[k + 1])
         /\ task' = [by |-> by, step |-> "emit", kind |-> kind, count |-> occupied',
                     in |-> Count(recent', "ENTRY"), out |-> Count(recent', "EXIT"),
                     clock |-> Label, at |-> Clock]
  <1> DEFINE count == IF kind = "ENTRY" THEN occupied + 1 ELSE occupied - 1
             all == Append(recent, NewMove(kind))
  <1>1. /\ Possible(kind) /\ capacity' = capacity
        /\ occupied' = count
        /\ recent' = Pruned(all)
        /\ moves' = Append(moves, NewMove(kind))
        /\ task' = [by |-> by, step |-> "emit", kind |-> kind, count |-> count,
                    in |-> Count(recent', "ENTRY"), out |-> Count(recent', "EXIT"),
                    clock |-> Label, at |-> Clock]
    BY DEF Capture, NewMove, Clock
  <1>2. count \in 0..capacity
    BY <1>1 DEF TypeInv, Possible, Kinds
  <1>3. NewMove(kind) \in Movements /\ now \in Nat
    BY DEF TypeInv, Movements, NewMove
  <1>4. moves' \in Seq(Movements)
    BY <1>1, <1>3 DEF TypeInv
  <1>5. PICK n \in Nat : n = Len(recent)
    BY DEF TypeInv
  <1>6. all \in Seq(Movements) /\ Extends(all, recent, NewMove(kind))
    <2>1. recent \in Seq(Movements)
      BY DEF TypeInv
    <2> QED BY <1>3, <2>1, AppendIs
  <1>7. NewMove(kind).at = now
    BY DEF NewMove
  <1> HIDE DEF all, count
  <1>8. Len(all) = n + 1 /\ all[n + 1] = NewMove(kind)
    BY <1>5, <1>6 DEF Extends
  <1>9. PICK k \in 0..n : /\ Pruned(all) = SubSeq(all, k + 1, Len(all))
                          /\ ~Old(all[k + 1]) /\ AllOld(all, k)
    <2>1. Len(all) \in Nat \ {0} /\ all[Len(all)].at = now
      BY <1>7, <1>8
    <2>2. PICK k \in 0..Len(all) - 1 : /\ Pruned(all) = SubSeq(all, k + 1, Len(all))
                                       /\ ~Old(all[k + 1]) /\ AllOld(all, k)
      BY <1>3, <1>6, <2>1, PrunedIs
    <2>3. k \in 0..n
      BY <1>8
    <2> QED BY <2>2, <2>3
  <1>10. recent' \in Seq(Movements) /\ Rest(all, recent', k)
    <2>1. k \in 0..Len(all)
      BY <1>8
    <2>2. /\ SubSeq(all, k + 1, Len(all)) \in Seq(Movements)
          /\ Rest(all, SubSeq(all, k + 1, Len(all)), k)
      BY <1>6, <2>1, RestOf
    <2> QED BY <1>1, <1>9, <2>2
  <1>11. \E e \in Seq(Movements), i \in 0..Len(recent) :
           /\ Extends(e, recent, NewMove(kind))
           /\ Rest(e, recent', i) /\ AllOld(e, i) /\ ~Old(e[i + 1])
    BY <1>5, <1>6, <1>9, <1>10
  <1> QED BY <1>1, <1>2, <1>3, <1>4, <1>10, <1>11 DEF count

LEMMA MinuteOfDayIs ==
  ASSUME TypeInv, NEW m \in Running PROVE MinuteOfDay(m) \in Minutes
  <1>1. now \div Minute \in Int
    BY MinuteIs DEF TypeInv
  <1>2. WallStart \in Int
    BY SensorAssumption
  <1>3. Wall \in Minutes
    BY <1>1, <1>2, LabelIs DEF Wall
  <1> QED BY <1>3, ConstantsAre DEF MinuteOfDay

LEMMA CaptureTask ==
  ASSUME TypeInv, NEW kind \in Kinds, NEW by \in {"loop", "command"}, Capture(kind, by)
  PROVE  task' \in Tasks /\ task'.step = "emit" /\ task'.by = by
  <1>1. /\ occupied' \in 0..capacity /\ recent' \in Seq(Movements)
        /\ task' = [by |-> by, step |-> "emit", kind |-> kind, count |-> occupied',
                    in |-> Count(recent', "ENTRY"), out |-> Count(recent', "EXIT"),
                    clock |-> Label, at |-> Clock]
    BY CaptureIs
  <1>2. \A k : Count(recent', k) \in Nat
    <2> TAKE k
    <2>1. Len(recent') \in Nat
      BY <1>1
    <2>2. 0 \in 0..Len(recent') /\ Rest(recent', recent', 0)
      BY <2>1 DEF Rest
    <2>3. Count(recent', k) = Moved(recent', 0, k)
      BY <1>1, <2>2, CountIs
    <2> QED BY <2>1, <2>3, FromIsFinite
  <1>3. Label \in Minutes
    <2>1. MinuteOfDay(minute) \in Int
      BY MinuteOfDayIs DEF TypeInv, Minutes
    <2> QED BY <2>1, LabelIs DEF Label
  <1>4. Clock \in Times
    BY DEF Clock, Times, TypeInv
  <1>5. occupied' \in Nat
    BY <1>1 DEF TypeInv
  <1> QED BY <1>1, <1>2, <1>3, <1>4, <1>5 DEF Tasks

LEMMA AdvanceIs ==
  ASSUME TypeInv, Advance
  PROVE  /\ minute' \in Running /\ day' \in Nat \ {0} /\ mode' = mode
         /\ NotAfter(Clock, Clock')
  <1>1. minute \in Nat /\ day \in Nat \ {0} /\ minute \in Running
    BY ConstantsAre DEF TypeInv, Minutes
  <1>2. CASE mode # "ACCELERATED_DEMO"
    BY <1>1, <1>2 DEF Advance, NewDay, NotAfter, Clock
  <1>3. CASE mode = "ACCELERATED_DEMO" /\ NewDay
    <2>1. minute' = DayStart /\ day' = day + 1 /\ mode' = mode
      BY <1>3 DEF Advance
    <2> QED BY <1>1, <2>1, ConstantsAre DEF NotAfter, Clock
  <1>4. CASE mode = "ACCELERATED_DEMO" /\ ~NewDay
    <2>1. minute' = minute + PerTick /\ day' = day /\ mode' = mode
      BY <1>4 DEF Advance
    <2>2. minute + PerTick < DayEnd
      BY <1>1, <1>4, ConstantsAre, SensorAssumption DEF NewDay
    <2>3. minute + PerTick \in Running /\ minute <= minute + PerTick
      BY <1>1, <2>2, ConstantsAre, SensorAssumption DEF Running
    <2> QED BY <1>1, <2>1, <2>3 DEF NotAfter, Clock
  <1> QED BY <1>2, <1>3, <1>4

LEMMA SetIs ==
  ASSUME NEW value \in Int, NEW c \in Nat \ {0}, Set(value, c)
  PROVE  /\ capacity' = c /\ occupied' \in 0..c
         /\ recent' = <<>> /\ moves' = <<>>
  BY ClampIs DEF Set, Forgotten

LEMMA TypeInvInductive == TypeInv /\ Accepted /\ [Next]_vars => TypeInv'
  <1> SUFFICES ASSUME TypeInv, Accepted, [Next]_vars PROVE TypeInv'
    OBVIOUS
  <1> DEFINE SensorOK == /\ capacity \in Nat \ {0} /\ occupied \in 0..capacity
                         /\ recent \in Seq(Movements) /\ moves \in Seq(Movements)
             ClockOK == mode \in Modes /\ minute \in Running /\ day \in Nat \ {0}
             TaskOK == task \in Tasks /\ (loop = "boot" => task = NoTask)
             RestOK == now \in Nat /\ saved \subseteq Snapshots /\ plan \in Seq(Kinds)
                       /\ shown \in Times
  <1>a. TypeInv' <=> SensorOK' /\ ClockOK' /\ TaskOK' /\ RestOK'
    BY DEF TypeInv
  <1>b. SensorOK /\ ClockOK /\ TaskOK /\ RestOK
    BY DEF TypeInv
  <1>c. Snapshot \in Snapshots
    BY DEF TypeInv, Snapshot, Snapshots
  <1>d. UNCHANGED sensorVars => SensorOK'
    BY <1>b DEF sensorVars
  <1>e. UNCHANGED clockVars => ClockOK'
    BY <1>b DEF clockVars
  <1>f. UNCHANGED <<now, saved, plan, shown>> => RestOK'
    BY <1>b
  <1>1. CASE Boot
    <2>0. PICK c \in Capacities : \E initial \in InitialOccupancies(c) :
            \/ /\ saved = {}
               /\ Set(initial, c)
               /\ mode' = "ACCELERATED_DEMO" /\ minute' = StartTime /\ day' = 1
            \/ \E state \in saved :
                 /\ Set(IF zone = NoZone THEN initial ELSE zone.occupied, c)
                 /\ mode' = state.mode /\ minute' = state.minute
                 /\ day' = RestoredDay(state)
      BY <1>1 DEF Boot
    <2>1. PICK initial \in InitialOccupancies(c) :
            \/ /\ saved = {}
               /\ Set(initial, c)
               /\ mode' = "ACCELERATED_DEMO" /\ minute' = StartTime /\ day' = 1
            \/ \E state \in saved :
                 /\ Set(IF zone = NoZone THEN initial ELSE zone.occupied, c)
                 /\ mode' = state.mode /\ minute' = state.minute
                 /\ day' = RestoredDay(state)
      BY <2>0
    <2>2. c \in Nat \ {0}
      BY SensorAssumption
    <2>3. initial \in Int /\ (zone # NoZone => zone.occupied \in Int)
      BY <2>2, InitialIs DEF Accepted
    <2>4. SensorOK'
      <3>1. PICK value \in Int : Set(value, c)
        BY <2>1, <2>3
      <3>2. /\ capacity' = c /\ occupied' \in 0..c
            /\ recent' = <<>> /\ moves' = <<>>
        BY <2>2, <3>1, SetIs
      <3> QED BY <2>2, <3>2
    <2>5. ClockOK'
      <3>1. CASE /\ mode' = "ACCELERATED_DEMO" /\ minute' = StartTime /\ day' = 1
        BY <3>1, ConstantsAre DEF Modes
      <3>2. CASE \E state \in saved : /\ mode' = state.mode /\ minute' = state.minute
                                      /\ day' = RestoredDay(state)
        BY <3>2 DEF TypeInv, Snapshots, RestoredDay
      <3> QED BY <2>1, <3>1, <3>2
    <2>6. TaskOK' /\ RestOK'
      BY <1>1, <1>b DEF Boot, historyVars
    <2> QED BY <1>a, <2>4, <2>5, <2>6
  <1>2. CASE Tick
    <2>1. ClockOK'
      BY <1>2, AdvanceIs DEF Tick, TypeInv
    <2>2. plan' \in Seq(Kinds)
      BY <1>2 DEF Tick
    <2>3. RestOK' /\ TaskOK'
      BY <1>2, <1>b, <2>2 DEF Tick, historyVars
    <2>4. SensorOK'
      BY <1>2, <1>d DEF Tick
    <2> QED BY <1>a, <2>1, <2>3, <2>4
  <1>3. CASE Move
    <2>1. plan \in Seq(Kinds) /\ plan # <<>> /\ loop \in {"plan", "stopping"}
      BY <1>3 DEF Move, TypeInv
    <2>2. Head(plan) \in Kinds /\ Tail(plan) \in Seq(Kinds)
      BY <2>1
    <2>3. ClockOK' /\ RestOK'
      BY <1>3, <1>b, <1>e, <2>2 DEF Move
    <2>4. loop' = loop
      BY <1>3 DEF Move
    <2>5. CASE Capture(Head(plan), "loop")
      BY <1>a, <1>b, <2>1, <2>2, <2>3, <2>4, <2>5, CaptureIs, CaptureTask
    <2>6. CASE UNCHANGED <<sensorVars, task, exact>>
      BY <1>a, <1>b, <1>d, <2>3, <2>4, <2>6
    <2> QED BY <1>3, <2>5, <2>6 DEF Move
  <1>4. CASE EndTick
    <2>1. task' \in Tasks
      BY <1>4, <1>c DEF EndTick, Tasks
    <2> QED BY <1>4, <1>a, <1>d, <1>e, <1>f, <2>1 DEF EndTick, historyVars
  <1>5. CASE ForceMove
    <2>1. loop # "boot" /\ loop' = loop /\ UNCHANGED <<clockVars, now, saved, plan, shown>>
      BY <1>5 DEF ForceMove, loopVars
    <2>2. CASE \E kind \in Kinds : Capture(kind, "command")
      BY <1>a, <1>b, <1>e, <1>f, <2>1, <2>2, CaptureIs, CaptureTask
    <2>3. CASE task' = [by |-> "command", step |-> "emitted"] /\ UNCHANGED <<sensorVars, exact>>
      <3>1. task' \in Tasks
        BY <2>3 DEF Tasks
      <3> QED BY <1>a, <1>d, <1>e, <1>f, <2>1, <2>3, <3>1
    <2> QED BY <1>5, <2>2, <2>3 DEF ForceMove
  <1>6. CASE SetMode
    <2>1. mode' \in Modes /\ loop # "boot" /\ loop' = loop
          /\ UNCHANGED <<sensorVars, minute, day, plan, saved, shown, now>>
      BY <1>6 DEF SetMode, loopVars, historyVars
    <2>2. [Snapshot EXCEPT !.mode = mode'] \in Snapshots
      BY <1>c, <2>1 DEF Snapshots
    <2>3. task' \in Tasks
      BY <1>6, <2>2 DEF SetMode, Tasks
    <2> QED BY <1>a, <1>b, <1>d, <1>f, <2>1, <2>3
  <1>7. CASE Reset
    <2>1. PICK initial \in InitialOccupancies(capacity) : Set(initial, capacity)
      BY <1>7 DEF Reset
    <2>2. SensorOK'
      <3>1. PICK c \in Nat \ {0} : c = capacity
        BY <1>b
      <3>2. initial \in Int
        BY <2>1, <3>1, InitialIs
      <3>3. /\ capacity' = c /\ occupied' \in 0..c
            /\ recent' = <<>> /\ moves' = <<>>
        BY <2>1, <3>1, <3>2, SetIs
      <3> QED BY <3>1, <3>3
    <2>3. minute' = StartTime /\ day' = 1 /\ mode' = mode /\ loop # "boot" /\ loop' = loop
          /\ UNCHANGED <<now, saved, plan, shown>>
      BY <1>7 DEF Reset, loopVars, historyVars
    <2>4. task' \in Tasks
      BY <1>7 DEF Reset, Tasks
    <2> QED BY <1>a, <1>b, <1>f, <2>2, <2>3, <2>4, ConstantsAre
  <1>8. CASE TakeSnapshot
    <2>1. task' \in Tasks /\ task # NoTask
      BY <1>8, <1>c DEF TakeSnapshot, Tasks, NoTask
    <2>2. UNCHANGED <<sensorVars, clockVars, loop, now, saved, plan, shown>>
      BY <1>8 DEF TakeSnapshot, loopVars, historyVars
    <2> QED BY <1>a, <1>b, <1>d, <1>e, <1>f, <2>1, <2>2
  <1>9. CASE Emit
    <2>1. task.step = "emit" /\ task # NoTask
      BY <1>9 DEF Emit, NoTask
    <2>2. task.at \in Times
      BY <1>b, <2>1 DEF Tasks, NoTask
    <2>3. task' \in Tasks
      BY <1>9 DEF Emit, Tasks
    <2>4. shown' \in Times /\ UNCHANGED <<sensorVars, clockVars, loop, now, saved, plan>>
      BY <1>9, <1>b, <2>2 DEF Emit, loopVars
    <2> QED BY <1>a, <1>b, <1>d, <1>e, <2>1, <2>3, <2>4
  <1>10. CASE WriteState
    <2>1. task.step = "write"
      BY <1>10 DEF WriteState
    <2>2. task.state \in Snapshots
      BY <1>b, <2>1 DEF Tasks, NoTask
    <2>3. saved' = {task.state} /\ task' = NoTask
          /\ UNCHANGED <<sensorVars, clockVars, now, plan, shown>>
      BY <1>10 DEF WriteState, loopVars, historyVars
    <2>4. NoTask \in Tasks
      BY DEF Tasks
    <2> QED BY <1>a, <1>b, <1>d, <1>e, <2>2, <2>3, <2>4
  <1>11. CASE Shutdown
    <2>1. plan' \in Seq(Kinds)
      <3>1. plan \in Seq(Kinds)
        BY <1>b
      <3>2. plan' = <<>> \/ \E i \in DOMAIN plan : plan' = <<plan[i]>>
        BY <1>11 DEF Shutdown
      <3>3. CASE plan' = <<>>
        BY <3>3
      <3>4. ASSUME NEW i \in DOMAIN plan, plan' = <<plan[i]>> PROVE plan' \in Seq(Kinds)
        <4>1. plan[i] \in Kinds
          BY <3>1
        <4> QED BY <3>4, <4>1
      <3> QED BY <3>2, <3>3, <3>4
    <2>2. saved' = {Snapshot} /\ task = NoTask /\ loop' # "boot"
          /\ UNCHANGED <<sensorVars, clockVars, task, now, shown>>
      BY <1>11 DEF Shutdown, historyVars
    <2> QED BY <1>a, <1>b, <1>c, <1>d, <1>e, <2>1, <2>2
  <1>12. CASE Crash \/ Exit
    <2>1. plan' = <<>> /\ task' = NoTask
          /\ UNCHANGED <<sensorVars, clockVars, now, saved, shown>>
      BY <1>12 DEF Crash, Exit, End, historyVars
    <2>2. NoTask \in Tasks /\ <<>> \in Seq(Kinds)
      BY DEF Tasks
    <2> QED BY <1>a, <1>b, <1>d, <1>e, <2>1, <2>2
  <1>13. CASE ProcessorStarts \/ Process
    <2>1. UNCHANGED <<sensorVars, clockVars, loop, task, now, saved, plan, shown>>
      BY <1>13 DEF ProcessorStarts, Process, loopVars, historyVars
    <2> QED BY <1>a, <1>b, <1>d, <1>e, <1>f, <2>1
  <1>14. CASE TimePasses
    <2>1. now' = now + 1 /\ UNCHANGED <<sensorVars, clockVars, loop, task, saved, plan, shown>>
      BY <1>14 DEF TimePasses, loopVars, historyVars
    <2> QED BY <1>a, <1>b, <1>d, <1>e, <2>1
  <1>15. CASE UNCHANGED vars
    BY <1>15, <1>a, <1>b, <1>d, <1>e, <1>f DEF vars, sensorVars, clockVars
  <1> QED BY <1>1, <1>2, <1>3, <1>4, <1>5, <1>6, <1>7, <1>8, <1>9, <1>10, <1>11, <1>12,
             <1>13, <1>14, <1>15 DEF Next

------------------------------------------------------------------------------
(* Readings.                                                               *)

(* What a sensor of any count sends off is valid.                          *)
LEMMA NormalizedIsValid ==
  ASSUME TypeInv, task.step = "emit"
  PROVE  Normalize(task) \in Readings
  <1>1. task.kind \in Kinds /\ task.count \in Nat /\ task.in \in Nat /\ task.out \in Nat
        /\ task.clock \in Minutes
    BY DEF TypeInv, Tasks, NoTask
  <1>2. PICK c \in Nat \ {0} : c = capacity
    BY DEF TypeInv
  <1>3. PICK o \in 0..c : o = ClampOccupied(task.count, c)
    <2>1. PICK count \in Nat : count = task.count
      BY <1>1
    <2>2. ClampOccupied(count, c) \in 0..c
      BY ClampIs
    <2> QED BY <2>1, <2>2
  <1>4. ClampOccupied(o, c) = o
    BY ClampIs
  <1>5. PICK x \in Nat : x = CalculateOccupancy(o, c) /\ x <= 10000
    BY OccupancyIs
  <1>6. Normalize(task) =
          [kind |-> task.kind, capacity |-> c, occupied |-> o, available |-> c - o,
           occupancy |-> x, previous |-> 0, entries |-> task.in, exits |-> task.out,
           clock |-> task.clock]
    BY <1>2, <1>3, <1>4, <1>5 DEF Normalize, CalculateAvailable
  <1>7. PICK e : e = Normalize(task)
    OBVIOUS
  <1>8. ValidEvent(e)
    <2>1. Counted(e, c, o)
      BY <1>1, <1>5, <1>6, <1>7 DEF Counted
    <2> QED BY <2>1, CountedIsValid
  <1>9. e \in Events
    BY <1>1, <1>6, <1>7 DEF Events
  <1> QED BY <1>7, <1>8, <1>9 DEF Readings

(* And what the Processor makes of it, with a capacity of its own.         *)
LEMMA DerivedIsValid ==
  ASSUME Accepted, NEW event \in Readings
  PROVE  ValidEvent(DerivedFrom(event)) /\ Reported(event) \in 0..processor
  <1>1. event.occupied \in Nat /\ event.clock \in Minutes
    BY DEF Readings, Events
  <1>2. PICK c \in Nat \ {0} : c = processor
    BY DEF Accepted
  <1>3. PICK o \in 0..c : o = Reported(event)
    BY <1>1, <1>2, ClampIs DEF Reported
  <1>4. PICK p \in Nat : p <= 10000 /\ p = DerivedFrom(event).previous
    <2>1. CASE zone = NoZone
      BY <1>2, <1>3, <2>1, OccupancyIs DEF DerivedFrom
    <2>2. CASE zone # NoZone
      <3>1. zone.capacity \in Nat \ {0} /\ zone.occupied \in Int
        BY <2>2 DEF Accepted
      <3>2. DerivedFrom(event).previous = CalculateOccupancy(zone.occupied, zone.capacity)
        BY <2>2 DEF DerivedFrom
      <3> QED BY <3>1, <3>2, OccupancyIs
    <2> QED BY <2>1, <2>2
  <1>5. PICK e : e = DerivedFrom(event)
    OBVIOUS
  <1>6. /\ e.capacity = c /\ e.occupied = o /\ e.available = c - o
        /\ e.occupancy = CalculateOccupancy(o, c)
        /\ e.entries = 0 /\ e.exits = 0 /\ e.clock = event.clock
    BY <1>2, <1>3, <1>5 DEF DerivedFrom
  <1>7. ValidEvent(e)
    <2>1. e.entries \in Nat /\ e.exits \in Nat /\ e.clock \in Minutes /\ e.previous = p
      BY <1>1, <1>4, <1>5, <1>6
    <2>2. Counted(e, c, o)
      BY <1>4, <1>6, <2>1 DEF Counted
    <2> QED BY <2>2, CountedIsValid
  <1> QED BY <1>2, <1>3, <1>5, <1>7

LEMMA AcceptedInductive == TypeInv /\ Accepted /\ [Next]_vars => Accepted'
  <1> SUFFICES ASSUME TypeInv, Accepted, [Next]_vars PROVE Accepted'
    OBVIOUS
  <1>1. CASE Emit
    <2>1. task.step = "emit" /\ UNCHANGED <<processor, zone, derived>>
      BY <1>1 DEF Emit, processorVars
    <2>2. PICK event \in Readings : event = Normalize(task)
      BY <2>1, NormalizedIsValid
    <2>3. Validated(Normalize(task)) = {event}
      BY <2>2 DEF Validated, Readings
    <2>4. stream' = Append(stream, event) /\ rejected' = rejected
      BY <1>1, <2>3 DEF Emit
    <2>5. stream' \in Seq(Readings)
      BY <2>4 DEF Accepted
    <2> QED BY <2>1, <2>4, <2>5 DEF Accepted
  <1>2. CASE ProcessorStarts
    <2>1. /\ processor' \in IF zone = NoZone THEN {processor} ELSE Capacities
          /\ zone' = [capacity |-> processor',
                      occupied |-> ClampOccupied(zone.occupied, processor')]
          /\ derived' = {} /\ UNCHANGED <<stream, rejected>>
      BY <1>2 DEF ProcessorStarts, historyVars
    <2>2. processor' \in Nat \ {0}
      BY <2>1, SensorAssumption DEF Accepted
    <2>3. zone.occupied \in Int
      BY DEF Accepted, NoZone
    <2>4. PICK c \in Nat \ {0} : c = processor'
      BY <2>2
    <2>5. PICK o \in 0..c : o = ClampOccupied(zone.occupied, c)
      BY <2>3, ClampIs
    <2>6. zone' = [capacity |-> c, occupied |-> o]
      BY <2>1, <2>4, <2>5
    <2> QED BY <2>1, <2>2, <2>6 DEF Accepted
  <1>3. CASE Process
    <2>1. stream \in Seq(Readings) /\ stream # <<>>
      BY <1>3 DEF Process, Accepted
    <2>2. PICK event \in Readings : event = Head(stream)
      BY <2>1
    <2>3. ValidEvent(event)
      BY DEF Readings
    <2>4. /\ zone' = [capacity |-> processor, occupied |-> Reported(event)]
          /\ derived' = {DerivedFrom(event)}
          /\ rejected' = rejected /\ stream' = Tail(stream) /\ processor' = processor
      BY <1>3, <2>2, <2>3 DEF Process
    <2>5. ValidEvent(DerivedFrom(event)) /\ Reported(event) \in 0..processor
      BY DerivedIsValid
    <2>6. stream' \in Seq(Readings)
      BY <2>1, <2>4
    <2> QED BY <2>4, <2>5, <2>6 DEF Accepted
  <1>4. CASE ~(Emit \/ ProcessorStarts \/ Process)
    <2>1. UNCHANGED <<processor, zone, stream, rejected, derived>>
      BY <1>4 DEF Next, Boot, Tick, Move, EndTick, ForceMove, SetMode, Reset, TakeSnapshot,
                  WriteState, Shutdown, Crash, Exit, End, TimePasses, processorVars,
                  historyVars, vars
    <2> QED BY <2>1 DEF Accepted
  <1> QED BY <1>1, <1>2, <1>3, <1>4

------------------------------------------------------------------------------
(* Windows.                                                                *)

(* A movement more, and what is then forgotten.                            *)
LEMMA ForgotMore ==
  ASSUME NEW s \in Seq(Movements), NEW t \in Seq(Movements), NEW d \in 0..Len(s),
         Forgot(s, t, d), NEW e \in Movements, NEW k \in 0..Len(t),
         NEW u \in Seq(Movements), Extends(u, s, e),
         NEW v \in Seq(Movements), Extends(v, t, e), AllOld(v, k),
         NEW r \in Seq(Movements), Rest(v, r, k)
  PROVE  d + k \in 0..Len(s) /\ Forgot(u, r, d + k) /\ v[k + 1] = u[d + k + 1]
  <1>1. PICK n \in Nat : n = Len(s)
    OBVIOUS
  <1>2. PICK m \in Nat : m = Len(t) /\ m = n - d
    <2>1. Len(t) \in Nat /\ Len(t) = n - d
      BY <1>1 DEF Forgot, Rest
    <2> QED BY <2>1
  <1>3. d \in Nat /\ d <= n /\ k \in Nat /\ k <= m
    BY <1>1, <1>2
  <1>4. Len(u) = n + 1 /\ u[n + 1] = e /\ \A i \in 1..n : u[i] = s[i]
    BY <1>1 DEF Extends
  <1>5. Len(v) = m + 1 /\ v[m + 1] = e /\ \A i \in 1..m : v[i] = t[i]
    BY <1>2 DEF Extends
  <1>6. \A i \in 1..m + 1 : v[i] = u[d + i]
    <2> TAKE i \in 1..m + 1
    <2>1. CASE i = m + 1
      BY <1>2, <1>3, <1>4, <1>5, <2>1
    <2>2. CASE i \in 1..m
      <3>1. t[i] = s[d + i]
        BY <1>2, <2>2 DEF Forgot, Rest
      <3>2. d + i \in 1..n
        BY <1>2, <1>3, <2>2
      <3>3. u[d + i] = s[d + i]
        BY <1>4, <3>2
      <3> QED BY <1>5, <2>2, <3>1, <3>3
    <2>3. i = m + 1 \/ i \in 1..m
      OBVIOUS
    <2> QED BY <2>1, <2>2, <2>3
  <1>7. Len(r) = m + 1 - k /\ \A i \in 1..Len(r) : r[i] = v[k + i]
    BY <1>5 DEF Rest
  <1>8. Len(r) = Len(u) - (d + k)
    BY <1>2, <1>3, <1>4, <1>7
  <1>9. \A i \in 1..Len(r) : r[i] = u[d + k + i]
    <2> TAKE i \in 1..Len(r)
    <2>1. i \in Nat /\ k + i \in 1..m + 1
      BY <1>3, <1>7
    <2>2. v[k + i] = u[d + (k + i)]
      BY <1>6, <2>1
    <2>3. d + (k + i) = d + k + i
      BY <1>3, <2>1
    <2> QED BY <1>7, <2>2, <2>3
  <1>10. \A i \in 1..d + k : Old(u[i])
    <2> TAKE i \in 1..d + k
    <2>1. CASE i \in 1..d
      <3>1. i \in 1..n
        BY <1>3, <2>1
      <3>2. Old(s[i]) /\ u[i] = s[i]
        BY <1>4, <2>1, <3>1 DEF Forgot, AllOld
      <3> QED BY <3>2
    <2>2. CASE i \in d + 1..d + k
      <3>1. i - d \in 1..k /\ i - d \in 1..m + 1 /\ d + (i - d) = i
        BY <1>3, <2>2
      <3>2. Old(v[i - d]) /\ v[i - d] = u[i]
        BY <1>6, <3>1 DEF AllOld
      <3> QED BY <3>2
    <2>3. i \in 1..d \/ i \in d + 1..d + k
      BY <1>3
    <2> QED BY <2>1, <2>2, <2>3
  <1>11. v[k + 1] = u[d + k + 1] /\ d + k \in 0..Len(s)
    <2>1. k + 1 \in 1..m + 1 /\ d + (k + 1) = d + k + 1
      BY <1>3
    <2>2. v[k + 1] = u[d + (k + 1)]
      BY <1>6, <2>1
    <2> QED BY <1>1, <1>2, <1>3, <2>1, <2>2
  <1> QED BY <1>8, <1>9, <1>10, <1>11 DEF Forgot, Rest, AllOld

(* In time, what is not forgotten is what happened in the last minute.     *)
LEMMA RecentAre ==
  ASSUME now \in Nat, NEW u \in Seq(Movements), NEW d \in 0..Len(u) - 1,
         AllOld(u, d), ~Old(u[d + 1]),
         \A i, j \in 1..Len(u) : i <= j => u[i].at <= u[j].at, NEW kind
  PROVE  {i \in 1..Len(u) : u[i].kind = kind /\ now - u[i].at <= Minute} = From(u, d, kind)
  <1>1. PICK n \in Nat : n = Len(u) /\ n \in Nat \ {0}
    OBVIOUS
  <1>3. d \in Nat /\ d < n
    BY <1>1
  <1>2. ASSUME NEW i \in 1..n PROVE now - u[i].at <= Minute <=> i \in d + 1..n
    <2>1. u[i].at \in Nat /\ u[d + 1].at \in Nat
      <3>1. u[i] \in Movements
        BY <1>1
      <3>2. d + 1 \in 1..Len(u)
        BY <1>1, <1>3
      <3>3. u[d + 1] \in Movements
        BY <3>2
      <3> QED BY <3>1, <3>3 DEF Movements
    <2>2. CASE i \in 1..d
      <3>1. now - u[i].at > Minute
        BY <2>2 DEF AllOld, Old
      <3> QED BY <1>3, <2>1, <2>2, <3>1, MinuteIs
    <2>3. CASE i \in d + 1..n
      <3>1. u[d + 1].at <= u[i].at
        BY <1>1, <2>3
      <3>2. now - u[d + 1].at <= Minute
        BY <2>1, MinuteIs DEF Old
      <3> QED BY <2>1, <2>3, <3>1, <3>2, MinuteIs
    <2>4. i \in 1..d \/ i \in d + 1..n
      BY <1>3
    <2> QED BY <1>3, <2>2, <2>3, <2>4
  <1> QED BY <1>1, <1>2, <1>3 DEF From

(* Going back before a movement or before those it follows is the same.    *)
LEMMA HeldIs ==
  ASSUME NEW s \in Seq(Movements), NEW c \in Nat, NEW held \in Int,
         \A d \in 0..Len(s) : Held(s, held, d) \in 0..c,
         NEW e \in Movements, NEW u, Extends(u, s, e), NEW count \in 0..c,
         count = IF e.kind = "ENTRY" THEN held + 1 ELSE held - 1
  PROVE  \A d \in 0..Len(u) : Held(u, count, d) \in 0..c
  <1>1. PICK n \in Nat : n = Len(s)
    OBVIOUS
  <1>2. Len(u) = n + 1
    BY <1>1 DEF Extends
  <1> TAKE d \in 0..Len(u)
  <1>3. CASE d = n + 1
    <2>0. d \in Nat /\ Len(u) = d
      BY <1>2, <1>3
    <2>1. Moved(u, d, "ENTRY") = 0 /\ Moved(u, d, "EXIT") = 0
      BY <2>0, NoneBeyond
    <2> QED BY <2>1 DEF Held
  <1>4. CASE d \in 0..n
    <2>1. PICK in \in Nat : in = Moved(s, d, "ENTRY")
      BY <1>1, <1>4, FromIsFinite
    <2>2. PICK out \in Nat : out = Moved(s, d, "EXIT")
      BY <1>1, <1>4, FromIsFinite
    <2>0. d \in 0..Len(s)
      BY <1>1, <1>4
    <2>3. \A kind : /\ e.kind = kind => Moved(u, d, kind) = Moved(s, d, kind) + 1
                    /\ e.kind # kind => Moved(u, d, kind) = Moved(s, d, kind)
      BY <2>0, OneMore
    <2>5. held - in + out \in 0..c
      BY <1>1, <1>4, <2>1, <2>2 DEF Held
    <2>6. e.kind = "ENTRY" \/ e.kind = "EXIT"
      BY DEF Movements, Kinds
    <2>7. Held(u, count, d) = held - in + out
      <3>1. CASE e.kind = "ENTRY"
        <4>1. Moved(u, d, "ENTRY") = in + 1 /\ Moved(u, d, "EXIT") = out
          BY <2>1, <2>2, <2>3, <3>1
        <4> QED BY <3>1, <4>1 DEF Held
      <3>2. CASE e.kind = "EXIT"
        <4>1. Moved(u, d, "ENTRY") = in /\ Moved(u, d, "EXIT") = out + 1
          BY <2>1, <2>2, <2>3, <3>2
        <4> QED BY <3>2, <4>1 DEF Held
      <3> QED BY <2>6, <3>1, <3>2
    <2> QED BY <2>5, <2>7
  <1> QED BY <1>2, <1>3, <1>4

LEMMA CaptureWindows ==
  ASSUME TypeInv, Windows, NEW kind \in Kinds, NEW by \in {"loop", "command"},
         Capture(kind, by), now' = now
  PROVE  Windows'
  <1>1. PICK e \in Movements : e = NewMove(kind) /\ e.at = now /\ e.kind = kind
    BY CaptureIs DEF NewMove
  <1>2. PICK s \in Seq(Movements) : s = moves
    BY DEF TypeInv
  <1>3. PICK t \in Seq(Movements) : t = recent
    BY DEF TypeInv
  <1>4. PICK u \in Seq(Movements) : u = moves' /\ Extends(u, s, e)
    BY <1>1, <1>2, CaptureIs, AppendIs
  <1>5. PICK r \in Seq(Movements) : r = recent'
    BY CaptureIs
  <1>6. PICK v \in Seq(Movements), k \in 0..Len(t) :
          Extends(v, t, e) /\ Rest(v, r, k) /\ AllOld(v, k) /\ ~Old(v[k + 1])
    BY <1>1, <1>3, <1>5, CaptureIs
  <1>7. PICK c \in Nat \ {0} : c = capacity /\ capacity' = c
    BY CaptureIs DEF TypeInv
  <1>8. PICK count \in 0..c : count = occupied'
                              /\ count = IF e.kind = "ENTRY" THEN occupied + 1 ELSE occupied - 1
    BY <1>1, <1>7, CaptureIs
  <1>9. PICK n \in Nat : n = Len(s)
    OBVIOUS
  <1>10. Len(u) = n + 1 /\ u[n + 1] = e /\ \A i \in 1..n : u[i] = s[i]
    BY <1>4, <1>9 DEF Extends
  <1>11. PICK d \in 0..Len(s) : Forgot(s, t, d)
    BY <1>2, <1>3 DEF Windows, Remembers
  <1>13. PICK D \in 0..n : Forgot(u, r, D) /\ ~Old(u[D + 1])
    <2>1. d + k \in 0..Len(s) /\ Forgot(u, r, d + k) /\ v[k + 1] = u[d + k + 1]
      BY <1>4, <1>6, <1>11, ForgotMore
    <2> QED BY <1>6, <1>9, <2>1
  <1>14. Remembers'
    <2>1. D \in 0..Len(u)
      BY <1>10
    <2>2. Forgot(moves, recent, D)'
      BY <1>4, <1>5, <1>13 DEF Forgot, Rest, AllOld, Old
    <2> QED BY <1>4, <2>1, <2>2 DEF Remembers
  <1>15. /\ \A i \in 1..n + 1 : u[i].at <= now
         /\ \A i, j \in 1..n + 1 : i <= j => u[i].at <= u[j].at
    <2>1. /\ \A i \in 1..n : s[i].at <= now
          /\ \A i, j \in 1..n : i <= j => s[i].at <= s[j].at
      BY <1>2, <1>9 DEF Windows, InTime
    <2>2. now \in Nat
      BY DEF TypeInv
    <2>3. \A i \in 1..n + 1 : i \in 1..n \/ i = n + 1
      OBVIOUS
    <2>4. \A i \in 1..n + 1 : u[i].at <= now
      BY <1>1, <1>10, <2>1, <2>2, <2>3
    <2>5. ASSUME NEW i \in 1..n + 1, NEW j \in 1..n + 1, i <= j PROVE u[i].at <= u[j].at
      <3>1. CASE j = n + 1
        BY <1>1, <1>10, <2>4, <3>1
      <3>2. CASE j \in 1..n
        <4>1. i \in 1..n
          BY <2>5, <3>2
        <4> QED BY <1>10, <2>1, <2>5, <3>2, <4>1
      <3> QED BY <2>3, <3>1, <3>2
    <2> QED BY <2>4, <2>5
  <1>16. InTime'
    BY <1>4, <1>10, <1>15 DEF InTime
  <1>17. \A x \in 0..Len(u) : Held(u, count, x) \in 0..c
    <2>1. PICK held \in Int : held = occupied
      BY DEF TypeInv
    <2>2. \A x \in 0..Len(s) : Held(s, held, x) \in 0..c
      BY <1>2, <1>7, <2>1 DEF Windows, Balanced
    <2> QED BY <1>4, <1>8, <2>1, <2>2, HeldIs
  <1>18. Balanced'
    BY <1>4, <1>7, <1>8, <1>17 DEF Balanced, Held
  <1>19. \A K : Count(r, K) = Moved(u, D, K)
    <2> TAKE K
    <2>1. D \in 0..Len(u) /\ Rest(u, r, D)
      BY <1>10, <1>13 DEF Forgot
    <2> QED BY <2>1, CountIs
  <1>20. \A K : Count(r, K) = WithinMinute(K)
    <2> TAKE K
    <2>1. D \in 0..Len(u) - 1 /\ now \in Nat /\ AllOld(u, D)
      BY <1>10, <1>13 DEF Forgot, TypeInv
    <2>2. {i \in 1..Len(u) : u[i].kind = K /\ now - u[i].at <= Minute} = From(u, D, K)
      BY <1>10, <1>13, <1>15, <2>1, RecentAre
    <2>3. WithinMinute(K) = Moved(u, D, K)
      BY <1>4, <2>2 DEF WithinMinute, Moved
    <2> QED BY <1>19, <2>3
  <1>21. exact' = TRUE
    <2>1. exact' = (exact /\ \A K \in Kinds : Count(r, K) = WithinMinute(K))
      BY <1>5 DEF Capture
    <2>2. exact
      BY DEF Windows, WindowBalances
    <2> QED BY <1>20, <2>1, <2>2
  <1>22. task'.in = Moved(u, D, "ENTRY") /\ task'.out = Moved(u, D, "EXIT")
         /\ task'.count = count
    <2>1. task' = [by |-> by, step |-> "emit", kind |-> kind, count |-> occupied',
                   in |-> Count(recent', "ENTRY"), out |-> Count(recent', "EXIT"),
                   clock |-> Label, at |-> Clock]
      BY CaptureIs
    <2>2. task'.in = Count(r, "ENTRY") /\ task'.out = Count(r, "EXIT") /\ task'.count = count
      BY <1>5, <1>8, <2>1
    <2> QED BY <1>19, <2>2
  <1>23. Moved(u, D, "ENTRY") + Moved(u, D, "EXIT") >= 1
    <2>1. PICK in \in Nat : in = Moved(s, D, "ENTRY")
      BY <1>9, FromIsFinite
    <2>2. PICK out \in Nat : out = Moved(s, D, "EXIT")
      BY <1>9, FromIsFinite
    <2>0. D \in 0..Len(s) /\ Extends(u, s, e)
      BY <1>4, <1>9
    <2>3. \A K : /\ e.kind = K => Moved(u, D, K) = Moved(s, D, K) + 1
                 /\ e.kind # K => Moved(u, D, K) = Moved(s, D, K)
      BY <2>0, OneMore
    <2>4. CASE e.kind = "ENTRY"
      <3>1. Moved(u, D, "ENTRY") = in + 1 /\ Moved(u, D, "EXIT") = out
        BY <2>1, <2>2, <2>3, <2>4
      <3> QED BY <3>1
    <2>5. CASE e.kind = "EXIT"
      <3>1. Moved(u, D, "ENTRY") = in /\ Moved(u, D, "EXIT") = out + 1
        BY <2>1, <2>2, <2>3, <2>5
      <3> QED BY <3>1
    <2> QED BY <2>4, <2>5 DEF Movements, Kinds
  <1>24. count - Moved(u, D, "ENTRY") + Moved(u, D, "EXIT") \in 0..c
    BY <1>10, <1>17 DEF Held
  <1>25. WindowBalances'
    BY <1>7, <1>21, <1>22, <1>23, <1>24 DEF WindowBalances
  <1> QED BY <1>14, <1>16, <1>18, <1>25 DEF Windows

(* A sensor that is set starts with an empty window.                       *)
LEMMA SetWindows ==
  ASSUME TypeInv', moves' = <<>>, recent' = <<>>, exact' = TRUE, task'.step # "emit"
  PROVE  Windows'
  <1>1. PICK s : s = moves' /\ s = recent' /\ s = <<>>
    OBVIOUS
  <1>2. Len(s) = 0
    BY <1>1
  <1>3. Remembers'
    <2>1. Forgot(moves, recent, 0)'
      BY <1>1, <1>2 DEF Forgot, Rest, AllOld
    <2> QED BY <1>1, <1>2, <2>1 DEF Remembers
  <1>4. InTime'
    BY <1>1, <1>2 DEF InTime
  <1>5. Balanced'
    <2>1. Moved(s, 0, "ENTRY") = 0 /\ Moved(s, 0, "EXIT") = 0
      BY <1>2, NoneBeyond
    <2>2. PICK held \in Int : held = occupied' /\ held \in 0..capacity'
      BY DEF TypeInv
    <2>3. Held(s, held, 0) \in 0..capacity'
      BY <2>1, <2>2 DEF Held
    <2> QED BY <1>1, <1>2, <2>2, <2>3 DEF Balanced, Held
  <1>6. WindowBalances'
    BY DEF WindowBalances
  <1> QED BY <1>3, <1>4, <1>5, <1>6 DEF Windows

(* What leaves the sensor alone leaves its window as it is.                *)
LEMMA WindowsKept ==
  ASSUME Windows, UNCHANGED <<moves, recent, occupied, capacity, exact, now>>,
         task' = task \/ task'.step # "emit"
  PROVE  Windows'
  <1>1. Remembers' /\ InTime' /\ Balanced'
    BY DEF Windows, Remembers, Forgot, Rest, AllOld, Old, InTime, Balanced, Held
  <1>2. WindowBalances'
    BY DEF Windows, WindowBalances
  <1> QED BY <1>1, <1>2 DEF Windows

LEMMA WindowsInductive == TypeInv /\ TypeInv' /\ Windows /\ [Next]_vars => Windows'
  <1> SUFFICES ASSUME TypeInv, TypeInv', Windows, [Next]_vars PROVE Windows'
    OBVIOUS
  <1>0. exact = TRUE
    BY DEF Windows, WindowBalances
  <1>1. CASE Boot
    <2>1. task' = task /\ task = NoTask /\ exact' = exact
      BY <1>1 DEF Boot, TypeInv, historyVars
    <2>2. moves' = <<>> /\ recent' = <<>>
      BY <1>1 DEF Boot, Set, Forgotten
    <2> QED BY <1>0, <2>1, <2>2, SetWindows DEF NoTask
  <1>2. CASE Reset
    <2>1. moves' = <<>> /\ recent' = <<>> /\ exact' = exact /\ task'.step = "announce"
      BY <1>2 DEF Reset, Set, Forgotten, historyVars
    <2> QED BY <1>0, <2>1, SetWindows
  <1>3. CASE Move
    <2>1. now' = now
      BY <1>3 DEF Move
    <2>2. Head(plan) \in Kinds
      BY <1>3 DEF Move, TypeInv
    <2>3. CASE Capture(Head(plan), "loop")
      BY <2>1, <2>2, <2>3, CaptureWindows
    <2>4. CASE UNCHANGED <<sensorVars, task, exact>>
      BY <2>1, <2>4, WindowsKept DEF sensorVars
    <2> QED BY <1>3, <2>3, <2>4 DEF Move
  <1>4. CASE ForceMove
    <2>1. now' = now
      BY <1>4 DEF ForceMove
    <2>2. CASE \E kind \in Kinds : Capture(kind, "command")
      BY <2>1, <2>2, CaptureWindows
    <2>3. CASE /\ task' = [by |-> "command", step |-> "emitted"]
               /\ UNCHANGED <<sensorVars, exact>>
      BY <2>1, <2>3, WindowsKept DEF sensorVars
    <2> QED BY <1>4, <2>2, <2>3 DEF ForceMove
  <1>5. CASE TimePasses
    <2>1. now' = now + 1 /\ UNCHANGED <<moves, recent, occupied, capacity, exact, task>>
      BY <1>5 DEF TimePasses, sensorVars, historyVars
    <2>2. PICK d \in 0..Len(moves) : Forgot(moves, recent, d)
      BY DEF Windows, Remembers
    <2>3. \A i \in 1..Len(moves) : moves[i].at \in Nat
      <3>1. moves \in Seq(Movements)
        BY DEF TypeInv
      <3>2. \A i \in 1..Len(moves) : moves[i] \in Movements
        BY <3>1
      <3> QED BY <3>2 DEF Movements
    <2>4. now \in Nat
      BY DEF TypeInv
    <2>5. Remembers'
      <3>1. PICK s \in Seq(Movements) : s = moves /\ s = moves'
        BY <2>1 DEF TypeInv
      <3>2. PICK t \in Nat : t = now + 1 /\ t = now'
        BY <2>1, <2>4
      <3>3. AllOld(moves, d)'
        <4>1. ASSUME NEW i \in 1..d PROVE t - s[i].at > Minute
          <5>1. now - s[i].at > Minute
            BY <2>2, <3>1 DEF Forgot, AllOld, Old
          <5>2. i \in 1..Len(moves)
            BY DEF TypeInv
          <5>3. PICK at \in Nat : at = s[i].at
            BY <2>3, <3>1, <5>2
          <5>4. t - at > Minute
            BY <2>4, <3>2, <5>1, <5>3, MinuteIs
          <5> QED BY <5>3, <5>4
        <4> QED BY <3>1, <3>2, <4>1 DEF AllOld, Old
      <3>4. Rest(moves, recent, d)'
        BY <2>1, <2>2 DEF Forgot, Rest
      <3> QED BY <2>1, <3>3, <3>4 DEF Remembers, Forgot
    <2>6. InTime'
      <3>1. \A i \in 1..Len(moves) : moves[i].at <= now + 1
        BY <2>3, <2>4 DEF Windows, InTime
      <3> QED BY <2>1, <3>1 DEF Windows, InTime
    <2>7. Balanced' /\ WindowBalances'
      BY <2>1 DEF Windows, Balanced, Held, WindowBalances
    <2> QED BY <2>5, <2>6, <2>7 DEF Windows
  <1>6. CASE ~(Boot \/ Reset \/ Move \/ ForceMove \/ TimePasses)
    <2>1. UNCHANGED <<moves, recent, occupied, capacity, exact, now>>
      BY <1>6 DEF Next, Tick, EndTick, SetMode, TakeSnapshot, Emit, WriteState, Shutdown,
                  Crash, Exit, End, ProcessorStarts, Process, sensorVars, historyVars, vars
    <2>2. task' = task \/ task'.step # "emit"
      BY <1>6 DEF Next, Tick, EndTick, SetMode, TakeSnapshot, Emit, WriteState, Shutdown,
                  Crash, Exit, End, ProcessorStarts, Process, NoTask, vars
    <2> QED BY <2>1, <2>2, WindowsKept
  <1> QED BY <1>1, <1>2, <1>3, <1>4, <1>5, <1>6

------------------------------------------------------------------------------
(* Simulated time.                                                         *)

LEMMA NotAfterIsOrder ==
  ASSUME NEW r \in Times, NEW s \in Times, NEW t \in Times
  PROVE  /\ NotAfter(r, r)
         /\ NotAfter(r, s) /\ NotAfter(s, t) => NotAfter(r, t)
  <1>1. r.day \in Int /\ s.day \in Int /\ t.day \in Int
    BY DEF Times
  <1>2. r.minute \in Int /\ s.minute \in Int /\ t.minute \in Int
    <2>1. r.minute \in Running /\ s.minute \in Running /\ t.minute \in Running
      BY DEF Times
    <2> QED BY <2>1 DEF Running
  <1> QED BY <1>1, <1>2 DEF NotAfter

LEMMA TimesAre ==
  ASSUME TypeInv
  PROVE  /\ Clock \in Times /\ shown \in Times
         /\ task.step = "emit" => task.at \in Times
  BY DEF TypeInv, Clock, Times, Tasks, NoTask

(* A reading carries the moment of its capture, whichever it is.           *)
LEMMA EmitIs ==
  ASSUME TypeInv, Emit
  PROVE  /\ task.step = "emit" /\ task'.step # "emit" /\ loop' = loop /\ loop # "boot"
         /\ (shown' = task.at \/ (shown' = shown /\ jumped' = jumped))
         /\ Clock' = Clock
  <1>1. task.step = "emit" /\ loop' = loop /\ UNCHANGED clockVars
    BY DEF Emit, loopVars
  <1>2. task # NoTask /\ loop # "boot"
    BY <1>1 DEF TypeInv, NoTask
  <1>3. task'.step # "emit"
    BY DEF Emit, NoTask
  <1>4. shown' = task.at \/ (shown' = shown /\ jumped' = jumped)
    BY DEF Emit
  <1>5. Clock' = Clock
    BY <1>1 DEF Clock, clockVars
  <1> QED BY <1>1, <1>2, <1>3, <1>4, <1>5

LEMMA MovesOnInductive == TypeInv /\ TypeInv' /\ MovesOn /\ [Next]_vars => MovesOn'
  <1> SUFFICES ASSUME TypeInv, TypeInv', MovesOn, [Next]_vars PROVE MovesOn'
    OBVIOUS
  <1>0. /\ Clock \in Times /\ shown \in Times
        /\ task.step = "emit" => task.at \in Times
    BY TimesAre
  <1>1. CASE Boot
    <2>1. task' = NoTask /\ loop' = "poll" /\ loop = "boot" /\ shown' = shown
          /\ jumped' = jumped
      BY <1>1 DEF Boot, TypeInv, historyVars
    <2>2. ASSUME ~jumped PROVE NotAfter(shown, Clock')
      <3>1. CASE saved = {Snapshot}
        <4>1. minute' = Snapshot.minute /\ day' = RestoredDay(Snapshot)
          BY <1>1, <3>1 DEF Boot
        <4>2. minute' = minute /\ day' = day
          BY <4>1 DEF Snapshot, RestoredDay, TypeInv
        <4>3. Clock' = Clock
          BY <4>2 DEF Clock
        <4> QED BY <2>2, <4>3 DEF MovesOn
      <3>2. CASE saved = {} /\ shown = FirstMoment
        <4>1. minute' = StartTime /\ day' = 1
          BY <1>1, <3>2 DEF Boot
        <4>2. Clock' = shown
          BY <3>2, <4>1 DEF Clock, FirstMoment
        <4> QED BY <1>0, <4>2, NotAfterIsOrder
      <3> QED BY <2>1, <2>2, <3>1, <3>2 DEF MovesOn
    <2> QED BY <2>1, <2>2 DEF MovesOn, NoTask
  <1>2. CASE Tick
    <2>1. NotAfter(Clock, Clock')
      BY <1>2, AdvanceIs DEF Tick
    <2>2. Clock' \in Times
      BY DEF TypeInv, Clock, Times
    <2>3. task' = task /\ loop' = "plan" /\ shown' = shown /\ jumped' = jumped
      BY <1>2 DEF Tick, historyVars
    <2>4. \A t \in Times : NotAfter(t, Clock) => NotAfter(t, Clock')
      BY <1>0, <2>1, <2>2, NotAfterIsOrder
    <2> QED BY <1>0, <2>3, <2>4 DEF MovesOn
  <1>3. ASSUME NEW kind \in Kinds, NEW by \in {"loop", "command"}, Capture(kind, by),
               loop # "boot", UNCHANGED <<loop, clockVars, shown, jumped>>
        PROVE  MovesOn'
    <2>1. task'.at = Clock /\ task'.step = "emit"
      <3>1. task' = [by |-> by, step |-> "emit", kind |-> kind, count |-> occupied',
                     in |-> Count(recent', "ENTRY"), out |-> Count(recent', "EXIT"),
                     clock |-> Label, at |-> Clock]
        BY <1>3, CaptureIs
      <3> QED BY <3>1
    <2>2. Clock' = Clock
      BY <1>3 DEF Clock, clockVars
    <2>3. NotAfter(Clock, Clock)
      BY <1>0, NotAfterIsOrder
    <2> QED BY <1>3, <2>1, <2>2, <2>3 DEF MovesOn
  <1>4. ASSUME UNCHANGED <<clockVars, shown, jumped>>, loop' # "boot",
               task' = task \/ task'.step # "emit"
        PROVE  MovesOn'
    <2>1. Clock' = Clock
      BY <1>4 DEF Clock, clockVars
    <2> QED BY <1>4, <2>1 DEF MovesOn
  <1>5. CASE Move
    <2>1. loop # "boot" /\ UNCHANGED <<loop, clockVars, shown, jumped>>
      BY <1>5 DEF Move
    <2>2. Head(plan) \in Kinds
      BY <1>5 DEF Move, TypeInv
    <2>3. CASE Capture(Head(plan), "loop")
      BY <1>3, <2>1, <2>2, <2>3
    <2>4. CASE task' = task
      BY <1>4, <2>1, <2>4
    <2> QED BY <1>5, <2>3, <2>4 DEF Move
  <1>6. CASE ForceMove
    <2>1. loop # "boot" /\ UNCHANGED <<loop, clockVars, shown, jumped>>
      BY <1>6 DEF ForceMove, loopVars
    <2>2. CASE \E kind \in Kinds : Capture(kind, "command")
      BY <1>3, <2>1, <2>2
    <2>3. CASE task' = [by |-> "command", step |-> "emitted"]
      BY <1>4, <2>1, <2>3
    <2> QED BY <1>6, <2>2, <2>3 DEF ForceMove
  <1>7. CASE EndTick
    BY <1>4, <1>7 DEF EndTick, historyVars
  <1>8. CASE SetMode \/ Reset
    <2>1. jumped' = TRUE /\ task'.step # "emit"
      BY <1>8 DEF SetMode, Reset
    <2> QED BY <2>1 DEF MovesOn
  <1>9. CASE TakeSnapshot
    <2>1. loop # "boot"
      BY <1>9 DEF TakeSnapshot, TypeInv, NoTask
    <2> QED BY <1>4, <1>9, <2>1 DEF TakeSnapshot, loopVars, historyVars
  <1>10. CASE Emit
    <2>1. /\ task.step = "emit" /\ task'.step # "emit" /\ loop' = loop /\ loop # "boot"
          /\ (shown' = task.at \/ (shown' = shown /\ jumped' = jumped))
          /\ Clock' = Clock
      BY <1>10, EmitIs
    <2>2. ~jumped' => NotAfter(shown', Clock')
      BY <2>1 DEF MovesOn
    <2> QED BY <2>1, <2>2 DEF MovesOn
  <1>11. CASE WriteState
    <2>1. loop # "boot"
      BY <1>11 DEF WriteState, TypeInv, NoTask
    <2> QED BY <1>4, <1>11, <2>1 DEF WriteState, NoTask, loopVars, historyVars
  <1>12. CASE Shutdown
    BY <1>4, <1>12 DEF Shutdown, historyVars
  <1>13. CASE Crash \/ Exit
    <2>1. task' = NoTask /\ jumped' = (jumped \/ saved # {Snapshot})
          /\ UNCHANGED <<clockVars, saved, shown>>
      BY <1>13 DEF Crash, Exit, End, historyVars
    <2>2. Clock' = Clock /\ Snapshot' = Snapshot
      BY <2>1 DEF Clock, Snapshot, clockVars
    <2>3. ~jumped' => ~jumped /\ saved = {Snapshot}
      BY <2>1
    <2> QED BY <2>1, <2>2, <2>3 DEF MovesOn, NoTask
  <1>14. CASE ProcessorStarts \/ Process \/ TimePasses \/ UNCHANGED vars
    <2>1. UNCHANGED <<clockVars, loop, task, saved, shown, jumped>>
      BY <1>14 DEF ProcessorStarts, Process, TimePasses, vars, clockVars, loopVars, historyVars
    <2>2. Clock' = Clock /\ Snapshot' = Snapshot
      BY <2>1 DEF Clock, Snapshot, clockVars
    <2> QED BY <2>1, <2>2 DEF MovesOn
  <1> QED BY <1>1, <1>2, <1>5, <1>6, <1>7, <1>8, <1>9, <1>10, <1>11, <1>12, <1>13, <1>14
          DEF Next

------------------------------------------------------------------------------
(* Plans.                                                                  *)

LEMMA PlannedInductive == TypeInv /\ Planned /\ [Next]_vars => Planned'
  <1> SUFFICES ASSUME TypeInv, Planned, [Next]_vars PROVE Planned'
    OBVIOUS
  <1>1. CASE Tick
    <2>1. minute' \in Running
      BY <1>1, AdvanceIs DEF Tick
    <2>2. PICK m \in Running : m = minute'
      BY <2>1
    <2>3. profile' = [name |-> ResolveProfile(MinuteOfDay(m)), minute |-> MinuteOfDay(m)]
      BY <1>1, <2>2 DEF Tick
    <2>4. MinuteOfDay(m) \in Minutes
      BY MinuteOfDayIs
    <2> QED BY <2>3, <2>4 DEF Planned
  <1>2. CASE ~Tick
    <2>1. profile' = profile
      BY <1>2 DEF Next, Boot, Move, EndTick, ForceMove, SetMode, Reset, TakeSnapshot, Emit,
                  WriteState, Shutdown, Crash, Exit, End, ProcessorStarts, Process,
                  TimePasses, loopVars, vars
    <2> QED BY <2>1 DEF Planned
  <1> QED BY <1>1, <1>2

Since(m, from) == (m - from) % DayMinutes

LEMMA SinceIs ==
  ASSUME NEW m \in Minutes, NEW from \in Minutes
  PROVE  /\ Since(m, from) = IF from <= m THEN m - from ELSE m - from + DayMinutes
         /\ Since(m, from) \in Int
  BY DEF Since, Minutes, DayMinutes

(* What began later than an entry that covers the minute began in it.      *)
LEMMA BeganInside ==
  ASSUME NEW m \in Minutes, NEW from \in Minutes, NEW to \in Minutes, NEW later \in Minutes,
         InRange(m, from, to), Since(m, later) < Since(m, from)
  PROVE  InRange(later, from, to)
  <1>1. Since(m, from) = IF from <= m THEN m - from ELSE m - from + DayMinutes
    BY SinceIs
  <1>2. Since(m, later) = IF later <= m THEN m - later ELSE m - later + DayMinutes
    BY SinceIs
  <1>3. m \in Int /\ from \in Int /\ to \in Int /\ later \in Int
        /\ 0 <= from /\ 0 <= later /\ from < DayMinutes /\ later < DayMinutes
        /\ DayMinutes \in Int
    BY DEF Minutes, DayMinutes
  <1> HIDE DEF DayMinutes
  <1> QED BY <1>1, <1>2, <1>3 DEF InRange

LEMMA ScheduleIs ==
  ASSUME NEW i \in 1..Len(Schedule)
  PROVE  Schedule[i].from \in Minutes /\ Schedule[i].to \in Minutes
  BY SensorAssumption DEF ValidSchedule, Minutes

LEMMA FollowsTiled == Tiled /\ Planned => PlanFollowsSchedule
  <1> SUFFICES ASSUME Tiled, Planned PROVE PlanFollowsSchedule
    OBVIOUS
  <1> DEFINE covering(m) == {i \in 1..Len(Schedule) :
                               InRange(m, Schedule[i].from, Schedule[i].to)}
  <1>1. PICK m \in Minutes : m = profile.minute
    BY DEF Planned
  <1>2. covering(m) \in SUBSET Nat /\ covering(m) # {}
    BY DEF Tiled
  <1>3. \E i \in covering(m) : \A j \in covering(m) : i <= j
    <2> HIDE DEF covering
    <2> QED BY <1>2, SmallestExists
  <1>4. PICK i \in covering(m) :
          i = CHOOSE first \in covering(m) : \A j \in covering(m) : first <= j
    <2> HIDE DEF covering
    <2> QED BY <1>3
  <1>5. profile.name = Schedule[i].profile
    <2>1. profile.name = ResolveProfile(m)
      BY <1>1 DEF Planned
    <2>2. ResolveProfile(m) = Schedule[i].profile
      BY <1>2, <1>4 DEF ResolveProfile
    <2> QED BY <2>1, <2>2
  <1>6. i \in 1..Len(Schedule) /\ InRange(m, Schedule[i].from, Schedule[i].to)
    BY DEF covering
  <1>7. PICK from \in Minutes : from = Schedule[i].from
    BY <1>6, ScheduleIs
  <1>8. PICK to \in Minutes : to = Schedule[i].to
    BY <1>6, ScheduleIs
  <1>9. \A j \in 1..Len(Schedule) : Since(m, from) <= Since(m, Schedule[j].from)
    <2> TAKE j \in 1..Len(Schedule)
    <2>1. PICK later \in Minutes : later = Schedule[j].from
      BY ScheduleIs
    <2>2. Since(m, from) \in Int /\ Since(m, later) \in Int
      BY SinceIs
    <2>3. ASSUME Since(m, later) < Since(m, from) PROVE FALSE
      <3>1. InRange(later, from, to)
        BY <1>6, <1>7, <1>8, <2>3, BeganInside
      <3>2. later = from
        BY <1>6, <1>7, <1>8, <2>1, <3>1 DEF Tiled
      <3> QED BY <2>2, <2>3, <3>2
    <2> QED BY <2>1, <2>2, <2>3
  <1> QED BY <1>1, <1>5, <1>6, <1>7, <1>9 DEF PlanFollowsSchedule, Since

------------------------------------------------------------------------------
(* The theorems.                                                           *)

LEMMA InitHolds ==
  ASSUME Init PROVE TypeInv /\ Accepted /\ Windows /\ MovesOn /\ Planned
  <1>1. capacity \in Nat \ {0} /\ occupied \in 0..capacity /\ processor \in Nat \ {0}
    <2>1. PICK c \in Nat \ {0} : c = capacity
      BY SensorAssumption DEF Init
    <2>2. occupied \in InitialOccupancies(c)
      BY <2>1 DEF Init
    <2>3. occupied \in 0..c
      BY <2>2, InitialIs
    <2> QED BY <2>1, <2>3, SensorAssumption DEF Init
  <1>2. FirstMoment \in Times /\ shown = FirstMoment /\ Clock = FirstMoment
    BY ConstantsAre DEF Init, FirstMoment, Clock, Times
  <1>3. TypeInv
    BY <1>1, <1>2, ConstantsAre DEF Init, TypeInv, Modes, Tasks
  <1>4. Accepted
    BY <1>1 DEF Init, Accepted
  <1>5. Windows
    <2>1. moves = <<>> /\ recent = <<>> /\ exact = TRUE /\ task.step # "emit"
      BY DEF Init, NoTask
    <2>2. Remembers
      <3>1. Forgot(moves, recent, 0)
        BY <2>1 DEF Forgot, Rest, AllOld
      <3> QED BY <2>1, <3>1 DEF Remembers
    <2>3. InTime /\ WindowBalances
      BY <2>1 DEF InTime, WindowBalances
    <2>4. Balanced
      <3>1. Len(moves) = 0
        BY <2>1
      <3>2. Moved(moves, 0, "ENTRY") = 0 /\ Moved(moves, 0, "EXIT") = 0
        BY <3>1, NoneBeyond
      <3> QED BY <1>1, <3>1, <3>2 DEF Balanced, Held
    <2> QED BY <2>2, <2>3, <2>4 DEF Windows
  <1>6. MovesOn
    BY <1>2, NotAfterIsOrder DEF Init, MovesOn, NoTask
  <1>7. Planned
    BY ConstantsAre DEF Init, Planned
  <1> QED BY <1>3, <1>4, <1>5, <1>6, <1>7

LEMMA InvariantsHold == Spec => [](TypeInv /\ Accepted /\ Windows /\ MovesOn /\ Planned)
  <1> DEFINE IInv == TypeInv /\ Accepted /\ Windows /\ MovesOn /\ Planned
  <1>1. Init => IInv
    BY InitHolds
  <1>2. IInv /\ [Next]_vars => IInv'
    BY TypeInvInductive, AcceptedInductive, WindowsInductive, MovesOnInductive,
       PlannedInductive
  <1> QED BY <1>1, <1>2, PTL DEF Spec

(* No reading is turned away by a schema, of the Publisher or of the       *)
(* Processor, and the derived events keep the same rules: for any          *)
(* capacities that the two are configured with, any drawn occupancies and  *)
(* any order of commands, crashes and restarts.                            *)
THEOREM EveryReadingCountsAlways == Spec => []EveryReadingCounts
  <1>1. Accepted => EveryReadingCounts
    BY DEF Accepted, EveryReadingCounts
  <1> QED BY <1>1, InvariantsHold, PTL

(* The counts per minute of a reading are the movements of the last minute *)
(* since the sensor was set, the movement itself among them, and going     *)
(* back by them stays within the capacity: for a minute of any length.     *)
THEOREM WindowBalancesAlways == Spec => []WindowBalances
  <1>1. Windows => WindowBalances
    BY DEF Windows
  <1> QED BY <1>1, InvariantsHold, PTL

(* Readings are published in the order of the simulated time, across       *)
(* restarts too, until a command or a crash sets the clock: for a day of   *)
(* any length and any minutes per tick.                                    *)
THEOREM SimulatedTimeMovesOnAlways == Spec => SimulatedTimeMovesOn
  <1> DEFINE Ordered == shown' # shown /\ ~jumped =>
                          \/ shown'.day > shown.day
                          \/ shown'.day = shown.day /\ shown'.minute >= shown.minute
  <1>1. TypeInv /\ MovesOn /\ [Next]_vars => Ordered
    <2> SUFFICES ASSUME TypeInv, MovesOn, [Next]_vars, shown' # shown, ~jumped
                 PROVE  \/ shown'.day > shown.day
                        \/ shown'.day = shown.day /\ shown'.minute >= shown.minute
      OBVIOUS
    <2>1. CASE Emit
      <3>1. shown' = task.at /\ task.step = "emit"
        BY <2>1, EmitIs
      <3>2. NotAfter(shown, shown') /\ shown \in Times /\ shown' \in Times
        BY <3>1, TimesAre DEF MovesOn
      <3>3. shown.day \in Int /\ shown'.day \in Int
        BY <3>2 DEF Times
      <3>4. shown.minute \in Int /\ shown'.minute \in Int
        <4>1. shown.minute \in Running /\ shown'.minute \in Running
          BY <3>2 DEF Times
        <4> QED BY <4>1 DEF Running
      <3> QED BY <3>2, <3>3, <3>4 DEF NotAfter
    <2>2. CASE ~Emit
      <3>1. shown' = shown
        BY <2>2 DEF Next, Boot, Tick, Move, EndTick, ForceMove, SetMode, Reset,
                    TakeSnapshot, WriteState, Shutdown, Crash, Exit, End, ProcessorStarts,
                    Process, TimePasses, historyVars, vars
      <3> QED BY <3>1
    <2> QED BY <2>1, <2>2
  <1> QED BY <1>1, InvariantsHold, PTL DEF Spec, SimulatedTimeMovesOn

(* A plan is made for the entry of the schedule that began last, with any  *)
(* schedule that leaves no minute of the day out and of which no entry     *)
(* begins inside another one, like the one of config/simulation.json.      *)
THEOREM PlanFollowsScheduleAlways ==
  ASSUME Tiled PROVE Spec => []PlanFollowsSchedule
  <1>1. Planned => PlanFollowsSchedule
    BY FollowsTiled
  <1> QED BY <1>1, InvariantsHold, PTL

===============================================================================
