---------------------------- MODULE FiguresProofs -----------------------------
(***************************************************************************)
(* Proofs about Dashboard for any zones and alerts and every bound: a view *)
(* that is behind Redis has a reason to be, and every step of the pipeline *)
(* from Redis to the browser is one that LiveView allows.                  *)
(*                                                                         *)
(* Proofs about Sampling, in the second part, for any lengths of the       *)
(* windows, any TTL that is not shorter than the longest of them and any   *)
(* number of events, samples and restarts: the sliding windows count what  *)
(* they are to count, the history in memory answers as the stream would,   *)
(* and what is read off it (trend and unusual growth) is about the zone as *)
(* it was.                                                                 *)
(***************************************************************************)
EXTENDS Dashboard, Sampling, WellFoundedInduction, FiniteSetTheorems, TLAPS

Changed == Zones \cup Alerts
Updates == [type : {"update"}, item : Items, version : Versions]
Changes == [type : {"update"}, item : Changed, version : Versions]
OnChannel == Changes \cup {Resync, SystemEvent}
OnWire == Updates \cup {Resync}
Messages == Updates \cup {Resync, SystemEvent}

TypeInv ==
  /\ saved \in [Items -> 1..MaxVersion]
  /\ owed \in Seq(Changes)
  /\ resyncOwed \in BOOLEAN /\ subscribed \in BOOLEAN
  /\ channel \in Seq(OnChannel)
  /\ lastSimulator \in Versions
  /\ connection \in {"CONNECTING", "LIVE", "RECONNECTING"}
  /\ wire \in Seq(OnWire)
  /\ buffer \in [Items -> Versions]
  /\ view \in [Items -> Versions]
  /\ reloads \in [1..MaxReloads -> [Items -> Versions \cup {Waiting}] \cup {NoReload}]
  /\ gone \in [Items -> Versions]
  /\ takenBack \in [Items -> Versions]

(* Nothing knows a version that Redis has not had.                         *)
Reached ==
  /\ \A i \in Items : /\ view[i] <= saved[i] /\ buffer[i] <= saved[i]
                      /\ gone[i] <= saved[i] /\ takenBack[i] <= saved[i]
  /\ lastSimulator <= saved[Simulator]
  /\ \A r \in 1..MaxReloads : reloads[r] # NoReload => \A i \in Items : reloads[r][i] <= saved[i]
  /\ \A i \in Items, v \in Versions :
       Update(i, v) \in ToSet(owed) \cup ToSet(channel) \cup ToSet(wire) => v <= saved[i]

(* The messages of an item come in the order of its versions.              *)
Ascending(q) ==
  \A j, k \in 1..Len(q) : \A i \in Items, v, w \in Versions :
    j < k /\ q[j] = Update(i, v) /\ q[k] = Update(i, w) => v <= w

InOrder ==
  /\ owed = <<>> \/ \E i \in Changed : owed = <<Update(i, saved[i])>>
  /\ Ascending(channel) /\ Ascending(wire)
  /\ \A i \in Items, v, w \in Versions :
       Update(i, v) \in ToSet(wire) /\ Update(i, w) \in ToSet(channel) => v <= w
  /\ \A i \in Items, v \in Versions :
       Update(i, v) \in ToSet(wire) \cup ToSet(channel) => buffer[i] <= v

(* The last state of the simulator on the wire is the one sent last, and   *)
(* it is not batched. Nothing is sent to a browser that is not connected.  *)
SimulatorInOrder ==
  /\ buffer[Simulator] = 0
  /\ connection # "LIVE" => wire = <<>>
  /\ \A v \in Versions : Update(Simulator, v) \in ToSet(wire) =>
       /\ v <= lastSimulator
       /\ Update(Simulator, lastSimulator) \in ToSet(wire)

(* BehindOnlyIfLost, with the messages in transit as a set.                *)
Way == ToSet(owed) \cup ToSet(channel) \cup ToSet(wire)

Reason(i) ==
  \/ view[i] = saved[i] \/ buffer[i] = saved[i]
  \/ saved[i] <= gone[i] \/ saved[i] <= takenBack[i]
  \/ connection # "LIVE"
  \/ Update(i, saved[i]) \in Way
  \/ \E r \in 1..MaxReloads : reloads[r] # NoReload /\ reloads[r][i] \in {Waiting, saved[i]}
  \/ i # Simulator /\ (resyncOwed \/ Resync \in Way)
  \/ i = Simulator /\ saved[Simulator] # lastSimulator

Justified == \A i \in Items : Reason(i)

Inv == TypeInv /\ Reached /\ InOrder /\ SimulatorInOrder /\ Justified

------------------------------------------------------------------------------
(* Messages and the sequences that carry them.                             *)

LEMMA UpdateIs ==
  /\ \A i, j, v, w : Update(i, v) = Update(j, w) <=> i = j /\ v = w
  /\ \A i, v : Update(i, v) # Resync /\ Update(i, v) # SystemEvent
  /\ \A i, v : /\ Update(i, v).type = "update"
               /\ Update(i, v).item = i /\ Update(i, v).version = v
  /\ Resync # SystemEvent /\ Resync.type # "update" /\ SystemEvent.type # "update"
  BY DEF Update, Resync, SystemEvent

LEMMA UpdatesAre ==
  /\ \A m \in Updates : /\ m.item \in Items /\ m.version \in Versions
                        /\ m = Update(m.item, m.version)
  /\ \A i \in Items, v \in Versions : Update(i, v) \in Updates
  BY DEF Updates, Update

LEMMA ChangesAre ==
  /\ \A i \in Changed, v \in Versions : Update(i, v) \in Changes
  /\ \A m \in Changes : m \in Updates /\ m.item # Simulator
  /\ Changed \subseteq Items /\ Simulator \in Items /\ Simulator \notin Changed
  BY DashboardAssumption DEF Changes, Changed, Items, Updates, Update

LEMMA ToSetIs ==
  ASSUME NEW S, NEW q \in Seq(S)
  PROVE  /\ \A m : m \in ToSet(q) <=> \E k \in 1..Len(q) : q[k] = m
         /\ ToSet(q) \subseteq S /\ Len(q) \in Nat
  BY DEF ToSet

LEMMA ToSetAppend ==
  ASSUME NEW S, NEW q \in Seq(S), NEW e \in S
  PROVE  /\ Append(q, e) \in Seq(S)
         /\ ToSet(Append(q, e)) = ToSet(q) \cup {e}
         /\ q \o <<e>> = Append(q, e)
  <1>1. /\ Append(q, e) \in Seq(S) /\ Len(Append(q, e)) = Len(q) + 1 /\ Len(q) \in Nat
        /\ \A k \in 1..Len(q) : Append(q, e)[k] = q[k]
        /\ Append(q, e)[Len(q) + 1] = e
    OBVIOUS
  <1>2. \A k : k \in 1..(Len(q) + 1) <=> k \in 1..Len(q) \/ k = Len(q) + 1
    BY <1>1
  <1>3. ToSet(Append(q, e)) = ToSet(q) \cup {e}
    <2>1. DOMAIN Append(q, e) = 1..(Len(q) + 1) /\ DOMAIN q = 1..Len(q)
      OBVIOUS
    <2> QED BY <1>1, <1>2, <2>1 DEF ToSet
  <1>4. q \o <<e>> = Append(q, e)
    OBVIOUS
  <1> QED BY <1>1, <1>3, <1>4

LEMMA ToSetTail ==
  ASSUME NEW S, NEW q \in Seq(S), q # <<>>
  PROVE  /\ Tail(q) \in Seq(S) /\ Head(q) \in S
         /\ ToSet(q) = {Head(q)} \cup ToSet(Tail(q))
  <1>1. /\ Tail(q) \in Seq(S) /\ Len(Tail(q)) = Len(q) - 1 /\ Len(q) \in Nat \ {0}
        /\ \A k \in 1..(Len(q) - 1) : Tail(q)[k] = q[k + 1]
        /\ Head(q) = q[1] /\ q[1] \in S
    OBVIOUS
  <1>0. /\ DOMAIN Tail(q) = 1..(Len(q) - 1) /\ DOMAIN q = 1..Len(q)
        /\ \A m : m \in ToSet(Tail(q)) <=> \E k \in 1..(Len(q) - 1) : Tail(q)[k] = m
        /\ \A m : m \in ToSet(q) <=> \E k \in 1..Len(q) : q[k] = m
    <2>1. DOMAIN Tail(q) = 1..(Len(q) - 1) /\ DOMAIN q = 1..Len(q)
      BY <1>1
    <2> QED BY <2>1 DEF ToSet
  <1>2. \A k \in 1..Len(q) : k = 1 \/ (k - 1 \in 1..(Len(q) - 1) /\ (k - 1) + 1 = k)
    BY <1>1
  <1>3. \A k \in 1..(Len(q) - 1) : k + 1 \in 1..Len(q)
    BY <1>1
  <1>4. ASSUME NEW m \in ToSet(q) PROVE m = Head(q) \/ m \in ToSet(Tail(q))
    <2>1. PICK k \in 1..Len(q) : q[k] = m
      BY <1>0
    <2>2. CASE k = 1
      BY <1>1, <2>1, <2>2
    <2>3. CASE k - 1 \in 1..(Len(q) - 1) /\ (k - 1) + 1 = k
      <3>1. Tail(q)[k - 1] = m
        BY <1>1, <2>1, <2>3
      <3> QED BY <1>1, <2>3, <3>1, <1>0
    <2> QED BY <1>2, <2>2, <2>3
  <1>5. ASSUME NEW m \in ToSet(Tail(q)) PROVE m \in ToSet(q)
    <2>1. PICK k \in 1..(Len(q) - 1) : Tail(q)[k] = m
      BY <1>0
    <2>2. q[k + 1] = m /\ k + 1 \in 1..Len(q)
      BY <1>1, <1>3, <2>1
    <2> QED BY <2>2, <1>0
  <1>6. Head(q) \in ToSet(q)
    <2>1. 1 \in 1..Len(q)
      BY <1>1
    <2> QED BY <1>1, <2>1, <1>0
  <1> QED BY <1>1, <1>4, <1>5, <1>6

LEMMA ToSetEmpty == ToSet(<<>>) = {}
  BY DEF ToSet

LEMMA InTransitIs ==
  ASSUME NEW o \in Seq(Changes), NEW c \in Seq(OnChannel), NEW w \in Seq(OnWire)
  PROVE  ToSet(o \o c \o w) = ToSet(o) \cup ToSet(c) \cup ToSet(w)
  <1>1. \A S : \A p \in Seq(S), q \in Seq(S) : ToSet(p \o q) = ToSet(p) \cup ToSet(q)
    <2> SUFFICES ASSUME NEW S, NEW p \in Seq(S), NEW q \in Seq(S)
                 PROVE  ToSet(p \o q) = ToSet(p) \cup ToSet(q)
      OBVIOUS
    <2>1. /\ p \o q \in Seq(S) /\ Len(p \o q) = Len(p) + Len(q)
          /\ Len(p) \in Nat /\ Len(q) \in Nat
          /\ \A k \in 1..Len(p) : (p \o q)[k] = p[k]
          /\ \A k \in 1..Len(q) : (p \o q)[Len(p) + k] = q[k]
      OBVIOUS
    <2>2. ASSUME NEW m \in ToSet(p \o q) PROVE m \in ToSet(p) \cup ToSet(q)
      <3>1. PICK k \in 1..Len(p \o q) : (p \o q)[k] = m
        BY <2>1, ToSetIs
      <3>2. CASE k \in 1..Len(p)
        BY <2>1, <3>1, <3>2, ToSetIs
      <3>3. CASE k - Len(p) \in 1..Len(q) /\ Len(p) + (k - Len(p)) = k
        <4>1. q[k - Len(p)] = m
          BY <2>1, <3>1, <3>3
        <4> QED BY <3>3, <4>1, ToSetIs
      <3> QED BY <2>1, <3>2, <3>3
    <2>3. ASSUME NEW m \in ToSet(p) PROVE m \in ToSet(p \o q)
      <3>1. PICK k \in 1..Len(p) : p[k] = m
        BY ToSetIs
      <3>2. k \in 1..Len(p \o q)
        BY <2>1
      <3> QED BY <2>1, <3>1, <3>2, ToSetIs
    <2>4. ASSUME NEW m \in ToSet(q) PROVE m \in ToSet(p \o q)
      <3>1. PICK k \in 1..Len(q) : q[k] = m
        BY ToSetIs
      <3>2. Len(p) + k \in 1..Len(p \o q)
        BY <2>1
      <3> QED BY <2>1, <3>1, <3>2, ToSetIs
    <2> QED BY <2>2, <2>3, <2>4
  <1>2. o \in Seq(Messages) /\ c \in Seq(Messages) /\ w \in Seq(Messages)
    <2>1. /\ Changes \subseteq Messages /\ OnChannel \subseteq Messages
          /\ OnWire \subseteq Messages
      BY ChangesAre DEF Messages, OnChannel, OnWire
    <2> QED BY <2>1
  <1>3. ToSet(o \o c) = ToSet(o) \cup ToSet(c) /\ o \o c \in Seq(Messages)
    BY <1>1, <1>2
  <1>4. \A p \in Seq(Messages) : ToSet(p \o w) = ToSet(p) \cup ToSet(w)
    BY <1>1, <1>2
  <1>5. ToSet((o \o c) \o w) = ToSet(o \o c) \cup ToSet(w)
    BY <1>3, <1>4, Zenon
  <1> QED BY <1>3, <1>5

LEMMA AscendingTail ==
  ASSUME NEW S, NEW q \in Seq(S), q # <<>>, Ascending(q)
  PROVE  /\ Ascending(Tail(q))
         /\ \A i \in Items, v, w \in Versions :
              Head(q) = Update(i, v) /\ Update(i, w) \in ToSet(Tail(q)) => v <= w
  <1>1. /\ Tail(q) \in Seq(S) /\ Len(Tail(q)) = Len(q) - 1 /\ Len(q) \in Nat \ {0}
        /\ \A k \in 1..(Len(q) - 1) : Tail(q)[k] = q[k + 1]
        /\ Head(q) = q[1] /\ 1 \in 1..Len(q)
    OBVIOUS
  <1>2. \A k \in 1..(Len(q) - 1) : k + 1 \in 1..Len(q) /\ 1 < k + 1
    BY <1>1
  <1>3. \A j, k \in 1..(Len(q) - 1) : j < k => j + 1 < k + 1
    BY <1>1
  <1>4. Ascending(Tail(q))
    BY <1>1, <1>2, <1>3 DEF Ascending
  <1>5. ASSUME NEW i \in Items, NEW v \in Versions, NEW w \in Versions,
               Head(q) = Update(i, v), Update(i, w) \in ToSet(Tail(q))
        PROVE  v <= w
    <2>0. DOMAIN Tail(q) = 1..(Len(q) - 1)
      BY <1>1
    <2>1. PICK k \in 1..(Len(q) - 1) : Tail(q)[k] = Update(i, w)
      BY <1>5, <2>0 DEF ToSet
    <2> QED BY <1>1, <1>2, <1>5, <2>1 DEF Ascending
  <1> QED BY <1>4, <1>5

LEMMA AscendingAppend ==
  ASSUME NEW S, NEW q \in Seq(S), NEW e \in S, Ascending(q),
         \A i \in Items, v, w \in Versions :
           Update(i, v) \in ToSet(q) /\ e = Update(i, w) => v <= w
  PROVE  Ascending(Append(q, e))
  <1>1. /\ Len(Append(q, e)) = Len(q) + 1 /\ Len(q) \in Nat
        /\ \A k \in 1..Len(q) : Append(q, e)[k] = q[k]
        /\ Append(q, e)[Len(q) + 1] = e
    OBVIOUS
  <1>2. \A k \in 1..(Len(q) + 1) : k \in 1..Len(q) \/ k = Len(q) + 1
    BY <1>1
  <1> SUFFICES ASSUME NEW j \in 1..(Len(q) + 1), NEW k \in 1..(Len(q) + 1), j < k,
                      NEW i \in Items, NEW v \in Versions, NEW w \in Versions,
                      Append(q, e)[j] = Update(i, v), Append(q, e)[k] = Update(i, w)
               PROVE  v <= w
    BY <1>1 DEF Ascending
  <1>3. j \in 1..Len(q) /\ q[j] = Update(i, v)
    BY <1>1, <1>2
  <1>4. CASE k \in 1..Len(q)
    BY <1>1, <1>3, <1>4 DEF Ascending
  <1>5. CASE k = Len(q) + 1
    BY <1>1, <1>3, <1>5, ToSetIs
  <1> QED BY <1>2, <1>4, <1>5
LEMMA LargestExists ==
  ASSUME NEW n \in Nat, NEW S \in SUBSET (0..n), S # {}
  PROVE  \E x \in S : \A y \in S : x >= y
  <1> DEFINE T == {n - x : x \in S}
  <1>0. \A x \in S : x \in Int /\ 0 <= x /\ x <= n
    OBVIOUS
  <1>1. T \subseteq Nat /\ T # {}
    <2>1. \A x \in S : n - x \in Nat
      BY <1>0
    <2> QED BY <2>1
  <1>2. PICK t \in T : \A u \in T : ~(<<u, t>> \in OpToRel(<, Nat))
    <2> HIDE DEF T
    <2> QED BY <1>1, NatLessThanWellFounded, WFMin
  <1>3. \A u \in T : ~(u < t)
    BY <1>1, <1>2 DEF OpToRel
  <1>4. PICK x \in S : t = n - x
    OBVIOUS
  <1>5. ASSUME NEW y \in S PROVE x >= y
    <2>1. n - y \in T /\ ~(n - y < t)
      BY <1>3
    <2> QED BY <2>1, <1>4
  <1> QED BY <1>5

LEMMA LargestIs ==
  ASSUME NEW n \in Nat, NEW S \in SUBSET (0..n), S # {}
  PROVE  Max(S) \in S /\ \A y \in S : y <= Max(S)
  <1>1. \E x \in S : \A y \in S : x >= y
    BY LargestExists
  <1>2. Max(S) \in S /\ \A y \in S : Max(S) >= y
    BY <1>1 DEF Max
  <1> QED BY <1>2

(* What dropping messages gives up is something Redis has had, and covers  *)
(* every message dropped.                                                  *)
LEMMA GivenUpIs ==
  ASSUME TypeInv, Reached, NEW q,
         \A i \in Items, v \in Versions : Update(i, v) \in ToSet(q) => v <= saved[i]
  PROVE  /\ GivenUp(q) \in [Items -> Versions]
         /\ \A i \in Items : /\ gone[i] <= GivenUp(q)[i] /\ GivenUp(q)[i] <= saved[i]
                             /\ Resync \in ToSet(q) /\ i # Simulator => GivenUp(q)[i] = saved[i]
         /\ \A i \in Items, v \in Versions : Update(i, v) \in ToSet(q) => v <= GivenUp(q)[i]
  <1>1. MaxVersion \in Nat
    BY DashboardAssumption
  <1>2. ASSUME NEW i \in Items
        PROVE  /\ GivenUp(q)[i] \in Versions
               /\ gone[i] <= GivenUp(q)[i] /\ GivenUp(q)[i] <= saved[i]
               /\ Resync \in ToSet(q) /\ i # Simulator => GivenUp(q)[i] = saved[i]
               /\ \A v \in Versions : Update(i, v) \in ToSet(q) => v <= GivenUp(q)[i]
    <2>1. saved[i] \in Versions /\ gone[i] \in Versions /\ gone[i] <= saved[i]
      BY <1>1 DEF TypeInv, Reached, Versions
    <2>2. CASE Resync \in ToSet(q) /\ i # Simulator
      <3>1. GivenUp(q)[i] = saved[i]
        BY <2>2 DEF GivenUp
      <3>2. saved[i] <= saved[i]
        BY <2>1 DEF Versions
      <3> QED BY <2>1, <3>1, <3>2
    <2>3. CASE ~(Resync \in ToSet(q) /\ i # Simulator)
      <3> DEFINE S == {gone[i]} \cup Carried(q, i)
      <3>1. GivenUp(q)[i] = Max(S)
        BY <2>3 DEF GivenUp
      <3>2. S \subseteq 0..MaxVersion /\ S # {} /\ gone[i] \in S
        BY <2>1 DEF Carried, Versions
      <3>3. Max(S) \in S /\ \A v \in S : v <= Max(S)
        <4> HIDE DEF S
        <4> QED BY <1>1, <3>2, LargestIs
      <3>4. \A v \in S : v <= saved[i]
        BY <2>1 DEF Carried
      <3>5. \A v \in Versions : Update(i, v) \in ToSet(q) => v \in S
        BY DEF Carried
      <3> HIDE DEF S
      <3> QED BY <2>3, <3>1, <3>2, <3>3, <3>4, <3>5 DEF Versions
    <2> QED BY <2>2, <2>3
  <1>3. GivenUp(q) \in [Items -> Versions]
    <2>1. GivenUp(q) = [i \in Items |-> GivenUp(q)[i]]
      BY DEF GivenUp
    <2> QED BY <1>2, <2>1
  <1> QED BY <1>2, <1>3

LEMMA ReloadIs ==
  /\ AllWaiting # NoReload
  /\ AllWaiting \in [Items -> Versions \cup {Waiting}]
  /\ \A i \in Items : AllWaiting[i] = Waiting
  /\ \A f \in [Items -> Versions \cup {Waiting}] : f # NoReload
  <1>1. DOMAIN NoReload = {} /\ Simulator \in Items
    BY ChangesAre DEF NoReload
  <1>2. AllWaiting \in [Items -> Versions \cup {Waiting}] /\ \A i \in Items :
          AllWaiting[i] = Waiting
    BY DEF AllWaiting
  <1>3. \A f \in [Items -> Versions \cup {Waiting}] : f # NoReload
    BY <1>1
  <1> QED BY <1>2, <1>3

------------------------------------------------------------------------------
(* What the building blocks of the actions do.                             *)

LEMMA WriteIs ==
  ASSUME TypeInv, NEW i \in Items, Write(i)
  PROVE  /\ saved' \in [Items -> 1..MaxVersion]
         /\ saved'[i] = saved[i] + 1 /\ saved[i] + 1 \in Versions
         /\ \A j \in Items : j # i => saved'[j] = saved[j]
         /\ \A j \in Items : saved[j] <= saved'[j]
  BY DashboardAssumption DEF TypeInv, Write, Versions

LEMMA PublishIs ==
  ASSUME TypeInv, Reached, NEW m \in OnChannel, Publish(m),
         \A i \in Items, v \in Versions : m = Update(i, v) => v <= saved[i]
  PROVE  /\ channel' \in Seq(OnChannel)
         /\ gone' \in [Items -> Versions]
         /\ \A i \in Items : gone[i] <= gone'[i] /\ gone'[i] <= saved[i]
         /\ subscribed => channel' = Append(channel, m) /\ ToSet(channel') = ToSet(channel) \cup {m}
         /\ ~subscribed =>
              /\ channel' = channel
              /\ \A i \in Items : m = Resync /\ i # Simulator => gone'[i] = saved[i]
              /\ \A i \in Items, v \in Versions : m = Update(i, v) => v <= gone'[i]
  <1>1. CASE subscribed
    <2>1. channel' = Append(channel, m) /\ gone' = gone
      BY <1>1 DEF Publish
    <2>2. \A i \in Items : gone[i] <= gone[i]
      BY DEF TypeInv, Versions
    <2>3. channel \in Seq(OnChannel)
      BY DEF TypeInv
    <2>4. Append(channel, m) \in Seq(OnChannel)
            /\ ToSet(Append(channel, m)) = ToSet(channel) \cup {m}
      BY <2>3, ToSetAppend
    <2> QED BY <1>1, <2>1, <2>2, <2>4 DEF TypeInv, Reached
  <1>2. CASE ~subscribed
    <2>1. channel' = channel /\ gone' = GivenUp(<<m>>)
      BY <1>2 DEF Publish
    <2>2. ToSet(<<m>>) = {m}
      BY DEF ToSet
    <2> QED BY <1>2, <2>1, <2>2, GivenUpIs DEF TypeInv
  <1> QED BY <1>1, <1>2

LEMMA EmitIs ==
  ASSUME TypeInv, NEW m \in OnWire, Emit(<<m>>)
  PROVE  /\ wire' \in Seq(OnWire)
         /\ connection = "LIVE" => wire' = Append(wire, m) /\ ToSet(wire') = ToSet(wire) \cup {m}
         /\ connection # "LIVE" => wire' = wire
  <1>1. wire \in Seq(OnWire)
    BY DEF TypeInv
  <1>2. /\ Append(wire, m) \in Seq(OnWire) /\ ToSet(Append(wire, m)) = ToSet(wire) \cup {m}
        /\ wire \o <<m>> = Append(wire, m)
    BY <1>1, ToSetAppend
  <1> QED BY <1>1, <1>2 DEF Emit

(* A reload that starts waits for everything; the others go on.            *)
LEMMA StartReloadIs ==
  ASSUME TypeInv, Reached, UNCHANGED saved, StartReload
  PROVE  /\ reloads' \in [1..MaxReloads -> [Items -> Versions \cup {Waiting}] \cup {NoReload}]
         /\ \A r \in 1..MaxReloads :
              reloads'[r] # NoReload => \A i \in Items : reloads'[r][i] <= saved'[i]
         /\ \A i \in Items : \E r \in 1..MaxReloads :
              reloads'[r] # NoReload /\ reloads'[r][i] = Waiting
  <1>1. PICK r \in Free : reloads' = [reloads EXCEPT ![r] = AllWaiting]
    BY DEF StartReload
  <1>2. r \in 1..MaxReloads
    BY DEF Free, TypeInv
  <1>3. /\ reloads' \in [1..MaxReloads -> [Items -> Versions \cup {Waiting}] \cup {NoReload}]
        /\ reloads'[r] = AllWaiting
        /\ \A s \in 1..MaxReloads : s # r => reloads'[s] = reloads[s]
    BY <1>1, <1>2, ReloadIs DEF TypeInv
  <1>4. \A i \in Items : AllWaiting[i] <= saved'[i]
    BY ReloadIs DEF TypeInv, Waiting
  <1>5. \A s \in 1..MaxReloads :
          reloads'[s] # NoReload => \A i \in Items : reloads'[s][i] <= saved'[i]
    BY <1>3, <1>4 DEF Reached
  <1> QED BY <1>2, <1>3, <1>5, ReloadIs

(* What goes back is remembered, and nothing else is.                      *)
LEMMA TakenBackIs ==
  ASSUME TypeInv, Reached, NEW new \in [Items -> Versions]
  PROVE  /\ TakenBackBy(new) \in [Items -> Versions]
         /\ \A i \in Items : /\ takenBack[i] <= TakenBackBy(new)[i]
                             /\ TakenBackBy(new)[i] <= saved[i]
                             /\ new[i] < view[i] => view[i] <= TakenBackBy(new)[i]
  BY DEF TypeInv, Reached, TakenBackBy, Larger, Versions

LEMMA LostIs ==
  ASSUME TypeInv, NEW i \in Items
  PROVE  \A v \in Versions : v <= Lost(i) <=> v <= gone[i] \/ v <= takenBack[i]
  BY DEF TypeInv, Lost, Larger, Versions

LEMMA OwedIs ==
  ASSUME NEW i \in Changed, NEW v \in Versions
  PROVE  <<Update(i, v)>> \in Seq(Changes) /\ ToSet(<<Update(i, v)>>) = {Update(i, v)}
  <1>1. Update(i, v) \in Changes
    BY ChangesAre
  <1> QED BY <1>1 DEF ToSet

(* A write makes what is known older, and nothing else.                    *)
LEMMA WriteKeepsReached ==
  ASSUME TypeInv, Reached, NEW i \in Items, Write(i),
         UNCHANGED <<view, buffer, gone, takenBack, lastSimulator, reloads, channel, wire>>,
         ToSet(owed') \subseteq ToSet(owed) \cup {Update(i, saved'[i])}
  PROVE  Reached'
  <1>1. /\ \A j \in Items : saved[j] \in Int /\ saved'[j] \in Int /\ saved[j] <= saved'[j]
        /\ Simulator \in Items
    BY WriteIs, ChangesAre, DashboardAssumption DEF TypeInv
  <1>2. /\ \A j \in Items : /\ view[j] \in Int /\ buffer[j] \in Int
                            /\ gone[j] \in Int /\ takenBack[j] \in Int
        /\ lastSimulator \in Int
    BY DEF TypeInv, Versions
  <1>3. /\ \A j \in Items : /\ view'[j] <= saved'[j] /\ buffer'[j] <= saved'[j]
                            /\ gone'[j] <= saved'[j] /\ takenBack'[j] <= saved'[j]
        /\ lastSimulator' <= saved'[Simulator]
    BY <1>1, <1>2 DEF Reached
  <1>4. \A r \in 1..MaxReloads :
          reloads'[r] # NoReload => \A j \in Items : reloads'[r][j] <= saved'[j]
    <2> SUFFICES ASSUME NEW r \in 1..MaxReloads, reloads[r] # NoReload, NEW j \in Items
                 PROVE  reloads[r][j] <= saved'[j]
      OBVIOUS
    <2>1. reloads[r] \in [Items -> Versions \cup {Waiting}]
      BY DEF TypeInv
    <2>2. reloads[r][j] \in Int
      BY <2>1 DEF Versions, Waiting
    <2>3. reloads[r][j] <= saved[j]
      BY DEF Reached
    <2> QED BY <1>1, <2>2, <2>3
  <1>5. \A j \in Items, v \in Versions :
          Update(j, v) \in ToSet(owed') \cup ToSet(channel') \cup ToSet(wire') => v <= saved'[j]
    <2> SUFFICES ASSUME NEW j \in Items, NEW v \in Versions,
                        Update(j, v) \in ToSet(owed') \cup ToSet(channel') \cup ToSet(wire')
                 PROVE  v <= saved'[j]
      OBVIOUS
    <2>1. CASE Update(j, v) = Update(i, saved'[i])
      BY <1>1, <2>1, UpdateIs
    <2>2. CASE Update(j, v) \in ToSet(owed) \cup ToSet(channel) \cup ToSet(wire)
      <3>1. v <= saved[j] /\ v \in Int
        BY <2>2 DEF Reached, Versions
      <3> QED BY <1>1, <3>1
    <2> QED BY <2>1, <2>2
  <1> QED BY <1>3, <1>4, <1>5 DEF Reached

------------------------------------------------------------------------------
(* One lemma for each kind of step: it keeps the invariant.                *)

LEMMA SaveStep ==
  ASSUME Inv, NEW i \in Changed, Save(i)
  PROVE  Inv'
  <1> USE DEF gatewayVars, batchVars, screenVars
  <1>1. /\ TypeInv /\ Reached /\ InOrder /\ SimulatorInOrder /\ Justified
        /\ i \in Items /\ i # Simulator
    BY ChangesAre DEF Inv
  <1>2. /\ saved' \in [Items -> 1..MaxVersion]
        /\ saved'[i] = saved[i] + 1 /\ saved[i] + 1 \in Versions
        /\ \A j \in Items : j # i => saved'[j] = saved[j]
        /\ \A j \in Items : saved[j] <= saved'[j]
    BY <1>1, WriteIs DEF Save
  <1>3. /\ UNCHANGED <<subscribed, channel, lastSimulator, connection, wire, buffer, view,
                       reloads, gone, takenBack>>
        /\ resyncOwed' = resyncOwed
        /\ owed = <<>> /\ owed' = <<Update(i, saved'[i])>>
    BY <1>2 DEF Save
  <1>4. /\ owed' \in Seq(Changes) /\ ToSet(owed') = {Update(i, saved'[i])} /\ ToSet(owed) = {}
    BY <1>2, <1>3, OwedIs, ToSetEmpty
  <1>5. TypeInv'
    BY <1>1, <1>2, <1>3, <1>4 DEF TypeInv
  <1>6. Reached'
    BY <1>1, <1>3, <1>4, WriteKeepsReached DEF Save
  <1>7. InOrder'
    BY <1>1, <1>3 DEF InOrder
  <1>8. SimulatorInOrder'
    BY <1>1, <1>3 DEF SimulatorInOrder
  <1>9. Justified'
    <2> SUFFICES ASSUME NEW j \in Items PROVE Reason(j)'
      BY DEF Justified
    <2>1. CASE j = i
      BY <1>4, <2>1 DEF Reason, Way
    <2>2. CASE j # i
      <3>1. Way \subseteq Way' /\ saved'[j] = saved[j] /\ saved'[Simulator] = saved[Simulator]
        BY <1>1, <1>2, <1>3, <1>4, <2>2, ChangesAre DEF Way
      <3> QED BY <1>1, <1>3, <3>1 DEF Justified, Reason
    <2> QED BY <2>1, <2>2
  <1> QED BY <1>5, <1>6, <1>7, <1>8, <1>9 DEF Inv

(* Writes that no message announces: a replayed event, whose RESYNC is     *)
(* owed, and a state of the simulator, which the gateway polls.            *)
LEMMA ReplayStep ==
  ASSUME Inv, NEW i \in Items, (i \in Zones /\ Replay(i)) \/ (i = Simulator /\ ChangeSimulator)
  PROVE  Inv'
  <1> USE DEF gatewayVars, batchVars, screenVars
  <1>1. /\ TypeInv /\ Reached /\ InOrder /\ SimulatorInOrder /\ Justified
        /\ Write(i)
    BY DEF Inv, Replay, ChangeSimulator
  <1>2. /\ saved' \in [Items -> 1..MaxVersion]
        /\ saved'[i] = saved[i] + 1
        /\ \A j \in Items : j # i => saved'[j] = saved[j]
    BY <1>1, WriteIs
  <1>3. /\ UNCHANGED <<owed, subscribed, channel, lastSimulator, connection, wire, buffer, view,
                       reloads, gone, takenBack>>
        /\ resyncOwed' = (resyncOwed \/ i # Simulator)
        /\ i # Simulator => owed = <<>>
    <2>1. CASE i \in Zones /\ Replay(i)
      <3>1. i # Simulator
        BY <2>1, DashboardAssumption
      <3> QED BY <2>1, <3>1 DEF Replay
    <2>2. CASE i = Simulator /\ ChangeSimulator
      BY <1>1, <2>2 DEF ChangeSimulator, TypeInv
    <2> QED BY <2>1, <2>2
  <1>4. TypeInv'
    BY <1>1, <1>2, <1>3 DEF TypeInv
  <1>5. Reached'
    BY <1>1, <1>3, WriteKeepsReached
  <1>6. InOrder'
    <2>1. owed = <<>> \/ \E j \in Changed : owed = <<Update(j, saved'[j])>>
      BY <1>1, <1>2, <1>3, ChangesAre DEF InOrder
    <2> QED BY <1>1, <1>3, <2>1 DEF InOrder
  <1>7. SimulatorInOrder'
    BY <1>1, <1>3 DEF SimulatorInOrder
  <1>8. Justified'
    <2> SUFFICES ASSUME NEW j \in Items PROVE Reason(j)'
      BY DEF Justified
    <2>1. CASE j = i /\ i # Simulator
      BY <1>3, <2>1 DEF Reason
    <2>2. CASE j = i /\ i = Simulator
      <3>1. lastSimulator <= saved[i] /\ lastSimulator \in Int /\ saved[i] \in Int
        BY <1>1, <2>2 DEF Reached, TypeInv, Versions
      <3> QED BY <1>2, <1>3, <2>2, <3>1 DEF Reason
    <2>3. CASE j # i
      BY <1>1, <1>2, <1>3, <2>3 DEF Justified, Reason, Way
    <2> QED BY <2>1, <2>2, <2>3
  <1> QED BY <1>4, <1>5, <1>6, <1>7, <1>8 DEF Inv

(* A message leaves the Processor: it is on the channel, or lost.          *)
LEMMA AnnounceStep ==
  ASSUME Inv, Announce \/ AnnounceResync \/ AnnounceScenario
  PROVE  Inv'
  <1> USE DEF gatewayVars, batchVars, screenVars, processorVars
  <1>1. /\ TypeInv /\ Reached /\ InOrder /\ SimulatorInOrder /\ Justified
        /\ UNCHANGED <<saved, subscribed, lastSimulator, connection, wire, buffer, view,
                       reloads, takenBack>>
    BY DEF Inv, Announce, AnnounceResync, AnnounceScenario
  <1>2. PICK m \in OnChannel :
          /\ Publish(m)
          /\ owed' \in Seq(Changes) /\ ToSet(owed) \subseteq {m} \cup ToSet(owed')
          /\ ToSet(owed') \subseteq ToSet(owed)
          /\ owed' = <<>> \/ owed' = owed
          /\ \A i \in Items, v \in Versions : m = Update(i, v) => m \in ToSet(owed) /\ v = saved[i]
          /\ resyncOwed' \in BOOLEAN /\ (resyncOwed => resyncOwed' \/ m = Resync)
    <2>1. owed \in Seq(Changes) /\ resyncOwed \in BOOLEAN
      BY <1>1 DEF TypeInv
    <2>2. CASE Announce
      <3>1. PICK i \in Changed : owed = <<Update(i, saved[i])>>
        BY <1>1, <2>2 DEF InOrder, Announce
      <3>2. saved[i] \in Versions
        BY <1>1, ChangesAre, DashboardAssumption DEF TypeInv, Versions
      <3>3. /\ Update(i, saved[i]) \in OnChannel
            /\ Head(owed) = Update(i, saved[i]) /\ Tail(owed) = <<>>
            /\ ToSet(owed) = {Update(i, saved[i])}
        BY <3>1, <3>2, OwedIs, ChangesAre DEF OnChannel
      <3>4. /\ Publish(Update(i, saved[i])) /\ owed' = <<>> /\ resyncOwed' = resyncOwed
        BY <2>2, <3>3 DEF Announce
      <3>5. \A j \in Items, v \in Versions : Update(i, saved[i]) = Update(j, v) =>
              Update(i, saved[i]) \in ToSet(owed) /\ v = saved[j]
        BY <3>3, UpdateIs
      <3>6. <<>> \in Seq(Changes)
        OBVIOUS
      <3> QED BY <2>1, <3>3, <3>4, <3>5, <3>6, ToSetEmpty
    <2>3. CASE AnnounceResync
      <3>1. Resync \in OnChannel /\ Publish(Resync) /\ owed' = owed /\ resyncOwed' = FALSE
        BY <2>3 DEF AnnounceResync, OnChannel
      <3> QED BY <2>1, <3>1, UpdateIs
    <2>4. CASE AnnounceScenario
      <3>1. /\ SystemEvent \in OnChannel /\ Publish(SystemEvent)
            /\ owed' = owed /\ resyncOwed' = resyncOwed
        BY <2>4 DEF AnnounceScenario, OnChannel
      <3> QED BY <2>1, <3>1, UpdateIs
    <2> QED BY <2>2, <2>3, <2>4
  <1>3. \A i \in Items, v \in Versions : m = Update(i, v) => v <= saved[i]
    BY <1>1, <1>2 DEF Reached
  <1>4. /\ channel' \in Seq(OnChannel)
        /\ gone' \in [Items -> Versions]
        /\ \A i \in Items : gone[i] <= gone'[i] /\ gone'[i] <= saved[i]
        /\ subscribed => channel' = Append(channel, m) /\ ToSet(channel') = ToSet(channel) \cup {m}
        /\ ~subscribed =>
             /\ channel' = channel
             /\ \A i \in Items : m = Resync /\ i # Simulator => gone'[i] = saved[i]
             /\ \A i \in Items, v \in Versions : m = Update(i, v) => v <= gone'[i]
    BY <1>1, <1>2, <1>3, PublishIs
  <1>5. ToSet(channel') \subseteq ToSet(channel) \cup {m}
          /\ ToSet(channel) \subseteq ToSet(channel')
    BY <1>4
  <1>6. TypeInv'
    BY <1>1, <1>2, <1>4 DEF TypeInv
  <1>7. Reached'
    BY <1>1, <1>2, <1>3, <1>4, <1>5 DEF Reached
  <1>8. InOrder'
    <2>1. owed' = <<>> \/ \E i \in Changed : owed' = <<Update(i, saved[i])>>
      BY <1>1, <1>2 DEF InOrder
    <2>2. Ascending(channel')
      <3>1. \A i \in Items, v, w \in Versions :
              Update(i, v) \in ToSet(channel) /\ m = Update(i, w) => v <= w
        BY <1>1, <1>2 DEF Reached
      <3>2. channel \in Seq(OnChannel) /\ Ascending(channel)
        BY <1>1 DEF TypeInv, InOrder
      <3>3. Ascending(Append(channel, m))
        BY <3>1, <3>2, AscendingAppend
      <3> QED BY <1>4, <3>2, <3>3
    <2>3. \A i \in Items, v, w \in Versions :
            Update(i, v) \in ToSet(wire) /\ Update(i, w) \in ToSet(channel') => v <= w
      BY <1>1, <1>2, <1>5 DEF InOrder, Reached
    <2>4. \A i \in Items, v \in Versions :
            Update(i, v) \in ToSet(wire) \cup ToSet(channel') => buffer[i] <= v
      BY <1>1, <1>2, <1>5 DEF InOrder, Reached
    <2> QED BY <1>1, <2>1, <2>2, <2>3, <2>4 DEF InOrder
  <1>9. SimulatorInOrder'
    BY <1>1 DEF SimulatorInOrder
  <1>10. Justified'
    <2> SUFFICES ASSUME NEW i \in Items PROVE Reason(i)'
      BY DEF Justified
    <2>1. Reason(i)
      BY <1>1 DEF Justified
    <2>2. saved[i] <= gone[i] => saved[i] <= gone'[i]
      BY <1>1, <1>4 DEF TypeInv, Versions
    <2>3. CASE subscribed
      <3>1. Way \subseteq Way' /\ (m = Resync => Resync \in Way')
        BY <1>1, <1>2, <1>4, <2>3 DEF Way
      <3> QED BY <1>1, <1>2, <2>1, <2>2, <3>1 DEF Reason
    <2>4. CASE ~subscribed
      <3>1. \A n \in Way : n \in Way' \/ n = m
        BY <1>1, <1>2, <1>5 DEF Way
      <3>2. m = Update(i, saved[i]) => saved[i] <= gone'[i]
        BY <1>1, <1>4, <2>4, DashboardAssumption DEF TypeInv, Versions
      <3>3. m = Resync /\ i # Simulator => saved[i] <= gone'[i]
        BY <1>1, <1>4, <2>4, DashboardAssumption DEF TypeInv
      <3> QED BY <1>1, <1>2, <2>1, <2>2, <3>1, <3>2, <3>3 DEF Reason
    <2> QED BY <2>3, <2>4
  <1> QED BY <1>6, <1>7, <1>8, <1>9, <1>10 DEF Inv

(* The gateway sends the simulator's state, every second when it changed   *)
(* or at a system event; the message of the event is used up.              *)
LEMMA SimulatorSent ==
  ASSUME Inv, Emit(<<Update(Simulator, saved[Simulator])>>), lastSimulator' = saved[Simulator],
         channel' \in Seq(OnChannel), ToSet(channel') \subseteq ToSet(channel),
         ToSet(channel) \subseteq ToSet(channel') \cup {SystemEvent}, Ascending(channel'),
         UNCHANGED <<saved, owed, subscribed, connection, buffer, view, reloads, gone, takenBack>>,
         resyncOwed' = resyncOwed
  PROVE  Inv'
  <1> DEFINE m == Update(Simulator, saved[Simulator])
  <1>1. /\ TypeInv /\ Reached /\ InOrder /\ SimulatorInOrder /\ Justified
        /\ Simulator \in Items /\ saved[Simulator] \in Versions
        /\ \A i \in Items : saved[i] \in Nat /\ saved[i] \in Versions
    BY ChangesAre, DashboardAssumption DEF Inv, TypeInv, Versions
  <1>2. m \in OnWire
    BY <1>1, UpdatesAre DEF OnWire
  <1>3. /\ wire' \in Seq(OnWire)
        /\ connection = "LIVE" => wire' = Append(wire, m) /\ ToSet(wire') = ToSet(wire) \cup {m}
        /\ connection # "LIVE" => wire' = wire
    BY <1>1, <1>2, EmitIs
  <1> HIDE DEF m
  <1>4. ToSet(wire') \subseteq ToSet(wire) \cup {m} /\ ToSet(wire) \subseteq ToSet(wire')
    BY <1>3
  <1>5. \A i \in Items, v \in Versions : m = Update(i, v) => i = Simulator /\ v = saved[i]
    BY UpdateIs DEF m
  <1>6. TypeInv'
    BY <1>1, <1>3 DEF TypeInv
  <1>7. Reached'
    <2>1. \A i \in Items, v \in Versions :
            Update(i, v) \in ToSet(owed') \cup ToSet(channel') \cup ToSet(wire') => v <= saved[i]
      BY <1>1, <1>4, <1>5 DEF Reached
    <2> QED BY <1>1, <2>1 DEF Reached
  <1>8. \A i \in Items, v \in Versions :
          i = Simulator => Update(i, v) \notin ToSet(channel)
    <2>1. ToSet(channel) \subseteq OnChannel
      BY <1>1, ToSetIs DEF TypeInv
    <2> QED BY <2>1, ChangesAre, UpdateIs DEF OnChannel
  <1>9. InOrder'
    <2>1. Ascending(wire')
      <3>1. wire \in Seq(OnWire) /\ Ascending(wire)
        BY <1>1 DEF TypeInv, InOrder
      <3>2. \A i \in Items, v, w \in Versions :
              Update(i, v) \in ToSet(wire) /\ m = Update(i, w) => v <= w
        BY <1>1, <1>5 DEF Reached
      <3>3. Ascending(Append(wire, m))
        BY <1>2, <3>1, <3>2, AscendingAppend
      <3> QED BY <1>3, <3>1, <3>3
    <2>2. \A i \in Items, v, w \in Versions :
            Update(i, v) \in ToSet(wire') /\ Update(i, w) \in ToSet(channel') => v <= w
      BY <1>1, <1>4, <1>5, <1>8 DEF InOrder
    <2>3. \A i \in Items, v \in Versions :
            Update(i, v) \in ToSet(wire') \cup ToSet(channel') => buffer[i] <= v
      BY <1>1, <1>4, <1>5 DEF InOrder, Reached
    <2> QED BY <1>1, <2>1, <2>2, <2>3 DEF InOrder
  <1>10. SimulatorInOrder'
    <2>1. CASE connection = "LIVE"
      <3>1. m \in ToSet(wire')
        BY <1>3, <2>1
      <3>2. \A v \in Versions : Update(Simulator, v) \in ToSet(wire') => v <= saved[Simulator]
        BY <1>1, <1>4, <1>5 DEF Reached
      <3> QED BY <1>1, <2>1, <3>1, <3>2 DEF SimulatorInOrder, m
    <2>2. CASE connection # "LIVE"
      <3>1. wire' = <<>>
        BY <1>1, <1>3, <2>2 DEF SimulatorInOrder
      <3> QED BY <1>1, <3>1, ToSetEmpty DEF SimulatorInOrder
    <2> QED BY <2>1, <2>2
  <1>11. Justified'
    <2> SUFFICES ASSUME NEW i \in Items PROVE Reason(i)'
      BY DEF Justified
    <2>1. Reason(i)
      BY <1>1 DEF Justified
    <2>2. CASE connection # "LIVE"
      BY <2>2 DEF Reason
    <2>3. CASE connection = "LIVE" /\ i = Simulator
      BY <1>3, <2>3 DEF Reason, Way, m
    <2>4. CASE i # Simulator
      <3>1. \A n \in Way : n \in Way' \/ n = SystemEvent
        BY <1>4 DEF Way
      <3>2. Update(i, saved[i]) # SystemEvent /\ Resync # SystemEvent
        BY UpdateIs
      <3> QED BY <2>1, <2>4, <3>1, <3>2 DEF Reason
    <2> QED BY <2>2, <2>3, <2>4
  <1> QED BY <1>6, <1>7, <1>9, <1>10, <1>11 DEF Inv

LEMMA GatewayStep ==
  ASSUME Inv, Route \/ PushSimulatorState
  PROVE  Inv'
  <1> USE DEF gatewayVars, batchVars, screenVars, processorVars
  <1>1. /\ TypeInv /\ Reached /\ InOrder /\ SimulatorInOrder /\ Justified
        /\ channel \in Seq(OnChannel) /\ Ascending(channel)
        /\ UNCHANGED <<saved, owed, subscribed, connection, buffer, view, reloads, gone, takenBack>>
        /\ resyncOwed' = resyncOwed
    BY DEF Inv, TypeInv, InOrder, Route, PushSimulatorState
  <1>2. CASE PushSimulatorState
    BY <1>1, <1>2, SimulatorSent DEF PushSimulatorState
  <1>3. CASE Route
    <2> DEFINE m == Head(channel)
    <2>1. /\ channel' = Tail(channel) /\ channel' \in Seq(OnChannel) /\ m \in OnChannel
          /\ ToSet(channel) = {m} \cup ToSet(channel') /\ Ascending(channel')
          /\ \A i \in Items, v, w \in Versions :
               m = Update(i, v) /\ Update(i, w) \in ToSet(channel') => v <= w
      BY <1>1, <1>3, ToSetTail, AscendingTail DEF Route
    <2>2. CASE m = SystemEvent
      <3>1. Emit(<<Update(Simulator, saved[Simulator])>>) /\ lastSimulator' = saved[Simulator]
        BY <1>3, <2>2 DEF Route
      <3> QED BY <1>1, <2>1, <2>2, <3>1, SimulatorSent
    <2>3. CASE m # SystemEvent
      <3>1. Emit(<<m>>) /\ lastSimulator' = lastSimulator
        BY <1>3, <2>3 DEF Route
      <3>2. m \in OnWire /\ (\A v : m # Update(Simulator, v))
        <4>1. m \in Changes \/ m = Resync
          BY <2>1, <2>3 DEF OnChannel
        <4>2. \A c \in Changes : c \in Updates /\ \A v : c # Update(Simulator, v)
          BY ChangesAre, UpdateIs
        <4> QED BY <4>1, <4>2, UpdateIs DEF OnWire
      <3> HIDE DEF m
      <3>3. /\ wire' \in Seq(OnWire)
            /\ connection = "LIVE" => wire' = Append(wire, m) /\ ToSet(wire') = ToSet(wire) \cup {m}
            /\ connection # "LIVE" => wire' = wire
        BY <1>1, <3>1, <3>2, EmitIs
      <3>4. ToSet(wire') \subseteq ToSet(wire) \cup {m} /\ ToSet(wire) \subseteq ToSet(wire')
        BY <3>3
      <3>5. TypeInv'
        BY <1>1, <2>1, <3>1, <3>3 DEF TypeInv
      <3>6. Reached'
        <4>1. \A i \in Items, v \in Versions :
                Update(i, v) \in ToSet(owed') \cup ToSet(channel') \cup ToSet(wire')
                  => v <= saved[i]
          BY <1>1, <2>1, <3>4 DEF Reached
        <4> QED BY <1>1, <3>1, <4>1 DEF Reached
      <3>7. InOrder'
        <4>1. Ascending(wire')
          <5>1. wire \in Seq(OnWire) /\ Ascending(wire)
            BY <1>1 DEF TypeInv, InOrder
          <5>2. \A i \in Items, v, w \in Versions :
                  Update(i, v) \in ToSet(wire) /\ m = Update(i, w) => v <= w
            BY <1>1, <2>1 DEF InOrder
          <5>3. Ascending(Append(wire, m))
            BY <3>2, <5>1, <5>2, AscendingAppend
          <5> QED BY <3>3, <5>1, <5>3
        <4>2. \A i \in Items, v, w \in Versions :
                Update(i, v) \in ToSet(wire') /\ Update(i, w) \in ToSet(channel') => v <= w
          BY <1>1, <2>1, <3>4 DEF InOrder
        <4>3. \A i \in Items, v \in Versions :
                Update(i, v) \in ToSet(wire') \cup ToSet(channel') => buffer[i] <= v
          BY <1>1, <2>1, <3>4 DEF InOrder
        <4> QED BY <1>1, <2>1, <4>1, <4>2, <4>3 DEF InOrder
      <3>8. SimulatorInOrder'
        BY <1>1, <3>1, <3>2, <3>3, <3>4 DEF SimulatorInOrder
      <3>9. Justified'
        <4> SUFFICES ASSUME NEW i \in Items PROVE Reason(i)'
          BY DEF Justified
        <4>1. Reason(i)
          BY <1>1 DEF Justified
        <4>2. CASE connection # "LIVE"
          BY <1>1, <4>2 DEF Reason
        <4>3. CASE connection = "LIVE"
          <5>1. Way \subseteq Way'
            BY <1>1, <2>1, <3>3, <4>3 DEF Way
          <5> QED BY <1>1, <3>1, <4>1, <5>1 DEF Reason
        <4> QED BY <4>2, <4>3
      <3> QED BY <3>5, <3>6, <3>7, <3>8, <3>9 DEF Inv
    <2> QED BY <2>2, <2>3
  <1> QED BY <1>2, <1>3

(* Messages are dropped: by a Processor that stops, with the connection of *)
(* the gateway, or of the browser, which will reload.                      *)
LEMMA DropStep ==
  ASSUME Inv, Crash \/ SubscriberDrops \/ OnDisconnect \/ Resubscribe
  PROVE  Inv'
  <1> USE DEF gatewayVars, batchVars, screenVars, processorVars
  <1>1. /\ TypeInv /\ Reached /\ InOrder /\ SimulatorInOrder /\ Justified
        /\ UNCHANGED <<saved, lastSimulator, buffer, view, reloads, takenBack>>
        /\ owed \in Seq(Changes) /\ channel \in Seq(OnChannel) /\ wire \in Seq(OnWire)
        /\ gone \in [Items -> Versions]
        /\ \A i \in Items : saved[i] \in Versions
    BY DashboardAssumption
    DEF Inv, TypeInv, Crash, SubscriberDrops, OnDisconnect, Resubscribe, Versions
  <1>2. <<>> \in Seq(Changes) /\ <<>> \in Seq(OnChannel) /\ <<>> \in Seq(OnWire)
    OBVIOUS
  <1>3. Ascending(<<>>)
    BY DEF Ascending
  <1>4. CASE Resubscribe
    <2>1. /\ UNCHANGED <<owed, channel, connection, wire, gone>>
          /\ resyncOwed' = resyncOwed /\ subscribed' \in BOOLEAN
      BY <1>4 DEF Resubscribe
    <2>2. TypeInv'
      BY <1>1, <2>1 DEF TypeInv
    <2>3. Reached' /\ InOrder' /\ SimulatorInOrder'
      BY <1>1, <2>1 DEF Reached, InOrder, SimulatorInOrder
    <2>4. Justified'
      BY <1>1, <2>1 DEF Justified, Reason, Way
    <2> QED BY <2>2, <2>3, <2>4 DEF Inv
  <1>5. CASE OnDisconnect
    <2>1. /\ UNCHANGED <<owed, channel, subscribed, gone>> /\ wire' = <<>>
          /\ resyncOwed' = resyncOwed /\ connection' = "RECONNECTING"
      BY <1>5 DEF OnDisconnect
    <2>2. TypeInv'
      BY <1>1, <1>2, <2>1 DEF TypeInv
    <2>3. Reached' /\ InOrder' /\ SimulatorInOrder'
      BY <1>1, <1>3, <2>1, ToSetEmpty DEF Reached, InOrder, SimulatorInOrder
    <2>4. Justified'
      BY <2>1 DEF Justified, Reason
    <2> QED BY <2>2, <2>3, <2>4 DEF Inv
  <1>6. ASSUME NEW q, gone' = GivenUp(q), UNCHANGED <<connection, wire>>,
               owed' = owed \/ owed' = <<>>, channel' = channel \/ channel' = <<>>,
               resyncOwed' \in BOOLEAN, subscribed' \in BOOLEAN,
               ToSet(q) \subseteq ToSet(owed) \cup ToSet(channel) \cup {Resync},
               \A m \in ToSet(owed) : m \in ToSet(owed') \/ m \in ToSet(q),
               \A m \in ToSet(channel) : m \in ToSet(channel') \/ m \in ToSet(q),
               resyncOwed => resyncOwed' \/ Resync \in ToSet(q)
        PROVE  Inv'
    <2>1. \A i \in Items, v \in Versions : Update(i, v) \in ToSet(q) => v <= saved[i]
      BY <1>1, <1>6, UpdateIs DEF Reached
    <2>2. /\ gone' \in [Items -> Versions]
          /\ \A i \in Items : /\ gone[i] <= gone'[i] /\ gone'[i] <= saved[i]
                              /\ Resync \in ToSet(q) /\ i # Simulator => gone'[i] = saved[i]
          /\ \A i \in Items, v \in Versions : Update(i, v) \in ToSet(q) => v <= gone'[i]
      BY <1>1, <1>6, <2>1, GivenUpIs
    <2>3. TypeInv'
      BY <1>1, <1>2, <1>6, <2>2 DEF TypeInv
    <2>4. ToSet(owed') \subseteq ToSet(owed) /\ ToSet(channel') \subseteq ToSet(channel)
      BY <1>6, ToSetEmpty
    <2>5. Reached'
      BY <1>1, <1>6, <2>2, <2>4 DEF Reached
    <2>6. InOrder'
      BY <1>1, <1>3, <1>6, <2>4 DEF InOrder
    <2>7. SimulatorInOrder'
      BY <1>1, <1>6 DEF SimulatorInOrder
    <2>8. Justified'
      <3> SUFFICES ASSUME NEW i \in Items PROVE Reason(i)'
        BY DEF Justified
      <3>1. Reason(i)
        BY <1>1 DEF Justified
      <3>2. saved[i] <= gone[i] => saved[i] <= gone'[i]
        BY <1>1, <2>2 DEF Versions
      <3>3. \A m \in Way : m \in Way' \/ m \in ToSet(q)
        BY <1>6 DEF Way
      <3>4. Update(i, saved[i]) \in ToSet(q) => saved[i] <= gone'[i]
        BY <1>1, <2>2
      <3>5. Resync \in ToSet(q) /\ i # Simulator => saved[i] <= gone'[i]
        BY <1>1, <2>2 DEF Versions
      <3> QED BY <1>1, <1>6, <3>1, <3>2, <3>3, <3>4, <3>5 DEF Reason
    <2> QED BY <2>3, <2>5, <2>6, <2>7, <2>8 DEF Inv
  <1>7. CASE Crash
    <2> DEFINE q == owed \o (IF resyncOwed THEN <<Resync>> ELSE <<>>)
    <2>1. ToSet(q) = ToSet(owed) \cup (IF resyncOwed THEN {Resync} ELSE {})
      <3>1. CASE resyncOwed
        <4>1. owed \in Seq(Messages) /\ Resync \in Messages
          <5>1. Changes \subseteq Messages
            BY ChangesAre DEF Messages
          <5> QED BY <1>1, <5>1 DEF Messages
        <4>2. /\ owed \o <<Resync>> = Append(owed, Resync)
              /\ ToSet(Append(owed, Resync)) = ToSet(owed) \cup {Resync}
          BY <4>1, ToSetAppend
        <4>3. q = Append(owed, Resync)
          BY <3>1, <4>2
        <4> QED BY <3>1, <4>2, <4>3
      <3>2. CASE ~resyncOwed
        <4>1. q = owed
          BY <1>1, <3>2
        <4> QED BY <3>2, <4>1
      <3> QED BY <3>1, <3>2
    <2>2. /\ gone' = GivenUp(q) /\ UNCHANGED <<connection, wire, channel, subscribed>>
          /\ owed' = <<>> /\ resyncOwed' = FALSE /\ subscribed' \in BOOLEAN
      BY <1>1, <1>7 DEF Crash, TypeInv
    <2> HIDE DEF q
    <2> QED BY <1>6, <2>1, <2>2
  <1>8. CASE SubscriberDrops
    <2>1. /\ gone' = GivenUp(channel) /\ UNCHANGED <<connection, wire, owed>>
          /\ channel' = <<>> /\ subscribed' = FALSE
          /\ resyncOwed' = resyncOwed /\ resyncOwed' \in BOOLEAN
      BY <1>1, <1>8 DEF SubscriberDrops, TypeInv
    <2> QED BY <1>6, <2>1
  <1> QED BY <1>4, <1>5, <1>7, <1>8

(* A browser that connects, or is told of a catch-up, reloads everything.  *)
LEMMA ReloadStep ==
  ASSUME Inv, OnConnect \/ OnResync
  PROVE  Inv'
  <1> USE DEF gatewayVars, batchVars, screenVars, processorVars
  <1>1. /\ TypeInv /\ Reached /\ InOrder /\ SimulatorInOrder /\ Justified
        /\ UNCHANGED <<saved, owed, subscribed, channel, lastSimulator, buffer, view, gone,
             takenBack>>
        /\ resyncOwed' = resyncOwed /\ StartReload
        /\ wire \in Seq(OnWire)
    BY DEF Inv, TypeInv, OnConnect, OnResync
  <1>2. /\ reloads' \in [1..MaxReloads -> [Items -> Versions \cup {Waiting}] \cup {NoReload}]
        /\ \A r \in 1..MaxReloads :
             reloads'[r] # NoReload => \A i \in Items : reloads'[r][i] <= saved'[i]
        /\ \A i \in Items : \E r \in 1..MaxReloads :
             reloads'[r] # NoReload /\ reloads'[r][i] = Waiting
    BY <1>1, StartReloadIs
  <1>3. /\ wire' \in Seq(OnWire) /\ ToSet(wire') \subseteq ToSet(wire) /\ Ascending(wire')
        /\ connection' \in {"CONNECTING", "LIVE", "RECONNECTING"}
        /\ connection' # "LIVE" => wire' = <<>>
        /\ \A v \in Versions : Update(Simulator, v) \in ToSet(wire) =>
                              Update(Simulator, v) \in ToSet(wire')
    <2>1. CASE OnConnect
      BY <1>1, <2>1 DEF OnConnect, TypeInv, InOrder
    <2>2. CASE OnResync
      <3>1. /\ wire # <<>> /\ Head(wire) = Resync /\ wire' = Tail(wire) /\ connection' = connection
        BY <2>2 DEF OnResync
      <3>2. /\ Tail(wire) \in Seq(OnWire) /\ ToSet(wire) = {Resync} \cup ToSet(Tail(wire))
            /\ Ascending(Tail(wire))
        BY <1>1, <3>1, ToSetTail, AscendingTail DEF InOrder
      <3>3. connection = "LIVE"
        BY <1>1, <3>1 DEF SimulatorInOrder
      <3> QED BY <3>1, <3>2, <3>3, UpdateIs
    <2> QED BY <2>1, <2>2
  <1>4. TypeInv'
    BY <1>1, <1>2, <1>3 DEF TypeInv
  <1>5. Reached'
    BY <1>1, <1>2, <1>3 DEF Reached
  <1>6. InOrder'
    BY <1>1, <1>3 DEF InOrder
  <1>7. SimulatorInOrder'
    <2>1. lastSimulator \in Versions
      BY <1>1 DEF TypeInv
    <2> QED BY <1>1, <1>3, <2>1 DEF SimulatorInOrder
  <1>8. Justified'
    BY <1>2 DEF Justified, Reason
  <1> QED BY <1>4, <1>5, <1>6, <1>7, <1>8 DEF Inv

(* A message is taken from the wire: of all that carry its item, it is the *)
(* oldest.                                                                 *)
LEMMA ReceiveStep ==
  ASSUME Inv, OnUpdate \/ OnSimulator
  PROVE  Inv'
  <1> USE DEF gatewayVars, batchVars, screenVars, processorVars
  <1> DEFINE i == Head(wire).item
             v == Head(wire).version
  <1>1. /\ TypeInv /\ Reached /\ InOrder /\ SimulatorInOrder /\ Justified
        /\ UNCHANGED <<saved, owed, subscribed, channel, lastSimulator, connection, reloads,
                       gone, takenBack>>
        /\ resyncOwed' = resyncOwed
        /\ wire \in Seq(OnWire) /\ wire # <<>> /\ wire' = Tail(wire) /\ connection = "LIVE"
        /\ Head(wire).type = "update"
    BY DEF Inv, TypeInv, OnUpdate, OnSimulator, SimulatorInOrder
  <1>2. /\ wire' \in Seq(OnWire) /\ Head(wire) \in OnWire
        /\ ToSet(wire) = {Head(wire)} \cup ToSet(wire')
        /\ Ascending(wire')
        /\ \A j \in Items, x, w \in Versions :
             Head(wire) = Update(j, x) /\ Update(j, w) \in ToSet(wire') => x <= w
    BY <1>1, ToSetTail, AscendingTail DEF InOrder
  <1>3. i \in Items /\ v \in Versions /\ Head(wire) = Update(i, v)
    <2>1. Head(wire) \in Updates
      BY <1>1, <1>2, UpdateIs DEF OnWire
    <2> QED BY <2>1, UpdatesAre
  <1> HIDE DEF i, v
  <1>4. /\ v <= saved[i]
        /\ \A w \in Versions :
             Update(i, w) \in ToSet(wire') \cup ToSet(channel) => v <= w
        /\ \A j \in Items : saved[j] \in Versions /\ buffer[j] \in Versions /\ view[j] \in Versions
        /\ \A j \in Items : saved[j] # 0
    <2>1. v <= saved[i]
      BY <1>1, <1>2, <1>3 DEF Reached
    <2>2. \A w \in Versions : Update(i, w) \in ToSet(wire') \cup ToSet(channel) => v <= w
      BY <1>1, <1>2, <1>3 DEF InOrder
    <2>3. /\ \A j \in Items : saved[j] \in Versions /\ buffer[j] \in Versions
               /\ view[j] \in Versions
          /\ \A j \in Items : saved[j] # 0
      BY <1>1, DashboardAssumption DEF TypeInv, Versions
    <2> QED BY <2>1, <2>2, <2>3
  <1>5. CASE OnUpdate
    <2>1. /\ i # Simulator /\ view' = view
          /\ buffer' \in [Items -> Versions] /\ buffer'[i] = v
          /\ \A j \in Items : j # i => buffer'[j] = buffer[j]
      BY <1>1, <1>3, <1>5 DEF OnUpdate, Buffered, TypeInv, i, v
    <2>2. TypeInv'
      BY <1>1, <1>2, <2>1 DEF TypeInv
    <2>3. Reached'
      <3>1. \A j \in Items : buffer'[j] <= saved[j]
        BY <1>1, <1>4, <2>1 DEF Reached
      <3> QED BY <1>1, <1>2, <2>1, <3>1 DEF Reached
    <2>4. InOrder'
      <3>1. \A j \in Items, w \in Versions :
              Update(j, w) \in ToSet(wire') \cup ToSet(channel) => buffer'[j] <= w
        BY <1>1, <1>2, <1>4, <2>1 DEF InOrder
      <3> QED BY <1>1, <1>2, <3>1 DEF InOrder
    <2>5. SimulatorInOrder'
      <3>1. \A w \in Versions : Update(Simulator, w) \in ToSet(wire) <=>
                                Update(Simulator, w) \in ToSet(wire')
        BY <1>2, <1>3, <2>1, UpdateIs
      <3>2. lastSimulator \in Versions /\ Simulator \in Items
        BY <1>1, ChangesAre DEF TypeInv
      <3> QED BY <1>1, <2>1, <3>1, <3>2 DEF SimulatorInOrder
    <2>6. Justified'
      <3> SUFFICES ASSUME NEW j \in Items PROVE Reason(j)'
        BY DEF Justified
      <3>1. Reason(j)
        BY <1>1 DEF Justified
      <3>2. /\ Way \subseteq Way' \cup {Head(wire)}
            /\ Update(j, saved[j]) = Head(wire) => j = i /\ saved[j] = v
            /\ Resync # Head(wire)
        BY <1>1, <1>2, <1>3, UpdateIs DEF Way
      <3>3. CASE j # i
        BY <1>1, <2>1, <3>1, <3>2, <3>3 DEF Reason
      <3>4. CASE j = i /\ buffer[i] = saved[i]
        <4>1. saved[i] <= v
          BY <1>1, <1>2, <1>3, <3>4 DEF InOrder
        <4>2. v = saved[i]
          BY <1>3, <1>4, <4>1 DEF Versions
        <4> QED BY <1>1, <2>1, <3>4, <4>2 DEF Reason
      <3>5. CASE j = i /\ buffer[i] # saved[i]
        BY <1>1, <2>1, <3>1, <3>2, <3>5 DEF Reason
      <3> QED BY <3>3, <3>4, <3>5
    <2> QED BY <2>2, <2>3, <2>4, <2>5, <2>6 DEF Inv
  <1>6. CASE OnSimulator
    <2>1. /\ i = Simulator /\ UNCHANGED buffer
          /\ view' \in [Items -> Versions] /\ view'[i] = v
          /\ \A j \in Items : j # i => view'[j] = view[j]
      BY <1>1, <1>3, <1>6 DEF OnSimulator, TypeInv, i, v
    <2>2. TypeInv'
      BY <1>1, <1>2, <2>1 DEF TypeInv
    <2>3. Reached'
      <3>1. \A j \in Items : view'[j] <= saved[j]
        BY <1>1, <1>4, <2>1 DEF Reached
      <3> QED BY <1>1, <1>2, <2>1, <3>1 DEF Reached
    <2>4. InOrder'
      BY <1>1, <1>2, <2>1 DEF InOrder
    <2>5. v <= lastSimulator /\ lastSimulator \in Versions /\ Simulator \in Items
      BY <1>1, <1>2, <1>3, <2>1, ChangesAre DEF SimulatorInOrder, TypeInv
    <2>6. SimulatorInOrder'
      <3> SUFFICES ASSUME NEW w \in Versions, Update(Simulator, w) \in ToSet(wire')
                   PROVE  w <= lastSimulator /\ Update(Simulator, lastSimulator) \in ToSet(wire')
        BY <1>1, <2>1 DEF SimulatorInOrder
      <3>1. w <= lastSimulator /\ Update(Simulator, lastSimulator) \in ToSet(wire)
        BY <1>1, <1>2 DEF SimulatorInOrder
      <3>2. CASE Head(wire) = Update(Simulator, lastSimulator)
        <4>1. v = lastSimulator /\ v <= w
          BY <1>3, <1>4, <2>1, <3>2, UpdateIs
        <4>2. w = lastSimulator
          BY <1>3, <3>1, <4>1 DEF Versions
        <4> QED BY <3>1, <4>2
      <3> QED BY <1>2, <3>1, <3>2
    <2>7. Justified'
      <3> SUFFICES ASSUME NEW j \in Items PROVE Reason(j)'
        BY DEF Justified
      <3>1. Reason(j)
        BY <1>1 DEF Justified
      <3>2. /\ Way \subseteq Way' \cup {Head(wire)}
            /\ Update(j, saved[j]) = Head(wire) => j = i /\ saved[j] = v
            /\ Resync # Head(wire)
        BY <1>1, <1>2, <1>3, UpdateIs DEF Way
      <3>3. CASE j # i
        BY <1>1, <2>1, <3>1, <3>2, <3>3 DEF Reason
      <3>4. CASE j = i /\ v = saved[i]
        BY <1>1, <2>1, <3>4 DEF Reason
      <3>5. CASE j = i /\ v # saved[i] /\ lastSimulator # saved[i]
        BY <1>1, <2>1, <3>5 DEF Reason
      <3>6. CASE j = i /\ v # saved[i] /\ lastSimulator = saved[i]
        <4>1. Update(Simulator, lastSimulator) \in ToSet(wire)
          BY <1>1, <1>2, <1>3, <2>1 DEF SimulatorInOrder
        <4>2. Update(i, saved[i]) \in ToSet(wire')
          BY <1>2, <1>3, <2>1, <3>6, <4>1, UpdateIs
        <4> QED BY <1>1, <3>6, <4>2 DEF Reason, Way
      <3> QED BY <3>3, <3>4, <3>5, <3>6
    <2> QED BY <2>2, <2>3, <2>4, <2>6, <2>7 DEF Inv
  <1> QED BY <1>5, <1>6

(* What the browser puts on the screen.                                    *)
LEMMA FlushStep ==
  ASSUME Inv, Flush
  PROVE  Inv'
  <1> USE DEF gatewayVars, batchVars, screenVars, processorVars
  <1>1. /\ TypeInv /\ Reached /\ InOrder /\ SimulatorInOrder /\ Justified
        /\ UNCHANGED <<saved, owed, subscribed, channel, lastSimulator, connection, wire, reloads,
                       gone>>
        /\ resyncOwed' = resyncOwed
        /\ view' = Merged /\ takenBack' = TakenBackBy(Merged) /\ buffer' = Nothing
    BY DEF Inv, Flush
  <1>2. /\ \A i \in Items : saved[i] \in Int /\ 1 <= saved[i]
        /\ \A i \in Items : buffer[i] \in Int /\ view[i] \in Int /\ takenBack[i] \in Int
        /\ 0 \in Versions
    BY <1>1, DashboardAssumption DEF TypeInv, Versions
  <1>3. /\ Merged \in [Items -> Versions] /\ Nothing \in [Items -> Versions]
        /\ \A i \in Items : Nothing[i] = 0
        /\ \A i \in Items : Merged[i] = IF buffer[i] = 0 THEN view[i] ELSE buffer[i]
    BY <1>1, <1>2 DEF Merged, Nothing, TypeInv
  <1>4. /\ TakenBackBy(Merged) \in [Items -> Versions]
        /\ \A i \in Items : /\ takenBack[i] <= takenBack'[i] /\ takenBack'[i] <= saved[i]
                            /\ view'[i] < view[i] => view[i] <= takenBack'[i]
    BY <1>1, <1>3, TakenBackIs
  <1>5. TypeInv'
    BY <1>1, <1>3, <1>4 DEF TypeInv
  <1>6. Reached'
    <2>1. \A i \in Items : view'[i] <= saved[i] /\ buffer'[i] <= saved[i]
      BY <1>1, <1>2, <1>3 DEF Reached
    <2> QED BY <1>1, <1>4, <2>1 DEF Reached
  <1>7. InOrder' /\ SimulatorInOrder'
    <2>1. \A i \in Items, v \in Versions : buffer'[i] <= v
      BY <1>1, <1>3 DEF Versions
    <2>2. buffer'[Simulator] = 0
      BY <1>1, <1>3, ChangesAre
    <2> QED BY <1>1, <2>1, <2>2 DEF InOrder, SimulatorInOrder
  <1>8. Justified'
    <2> SUFFICES ASSUME NEW i \in Items PROVE Reason(i)'
      BY DEF Justified
    <2>1. Reason(i)
      BY <1>1 DEF Justified
    <2>2. CASE buffer[i] = saved[i]
      BY <1>1, <1>2, <1>3, <2>2 DEF Reason
    <2>3. CASE view[i] = saved[i] /\ buffer[i] # saved[i]
      <3>1. view'[i] = view[i] \/ view'[i] < view[i]
        BY <1>1, <1>2, <1>3, <2>3 DEF Reached
      <3> QED BY <1>1, <1>4, <2>3, <3>1 DEF Reason
    <2>4. CASE view[i] # saved[i] /\ buffer[i] # saved[i]
      <3>1. saved[i] <= takenBack[i] => saved[i] <= takenBack'[i]
        BY <1>1, <1>2, <1>4 DEF TypeInv, Versions
      <3> QED BY <1>1, <2>1, <2>4, <3>1 DEF Reason, Way
    <2> QED BY <2>2, <2>3, <2>4
  <1> QED BY <1>5, <1>6, <1>7, <1>8 DEF Inv

(* A request of a snapshot is answered with what Redis has, or fails.      *)
LEMMA AnswerStep ==
  ASSUME Inv, NEW r \in 1..MaxReloads, NEW R \in Requests, Answer(r, R) \/ RequestFails(r, R)
  PROVE  Inv'
  <1> USE DEF gatewayVars, batchVars, screenVars, processorVars
  <1> DEFINE given == [i \in Items |-> IF i \in R THEN (IF Answer(r, R) THEN saved[i] ELSE 0)
                                      ELSE reloads[r][i]]
  <1>1. /\ TypeInv /\ Reached /\ InOrder /\ SimulatorInOrder /\ Justified
        /\ UNCHANGED <<saved, owed, subscribed, channel, lastSimulator, connection, wire, buffer,
                       view, takenBack>>
        /\ resyncOwed' = resyncOwed
        /\ reloads[r] # NoReload /\ (\A i \in R : reloads[r][i] = Waiting)
    BY DEF Inv, Answer, RequestFails, Unanswered
  <1>2. /\ \A i \in Items : saved[i] \in Versions /\ saved[i] \in Int /\ 0 <= saved[i]
        /\ 0 \in Versions
        /\ \A i \in Items : gone[i] \in Versions /\ gone[i] \in Int
    BY <1>1, DashboardAssumption DEF TypeInv, Versions
  <1>3. /\ reloads[r] \in [Items -> Versions \cup {Waiting}]
        /\ \A i \in Items : reloads[r][i] <= saved[i]
    BY <1>1 DEF TypeInv, Reached
  <1>4. reloads' = [reloads EXCEPT ![r] = given]
    <2>1. CASE Answer(r, R)
      BY <2>1 DEF Answer
    <2>2. CASE ~Answer(r, R)
      BY <2>2 DEF RequestFails
    <2> QED BY <2>1, <2>2
  <1>5. /\ given \in [Items -> Versions \cup {Waiting}]
        /\ \A i \in Items : given[i] <= saved[i]
        /\ \A i \in Items : i \notin R => given[i] = reloads[r][i]
        /\ Answer(r, R) => \A i \in Items : i \in R => given[i] = saved[i]
    BY <1>2, <1>3
  <1> HIDE DEF given
  <1>6. /\ reloads' \in [1..MaxReloads -> [Items -> Versions \cup {Waiting}] \cup {NoReload}]
        /\ reloads'[r] = given /\ given # NoReload
        /\ \A q \in 1..MaxReloads : q # r => reloads'[q] = reloads[q]
    BY <1>1, <1>4, <1>5, ReloadIs DEF TypeInv
  <1>7. /\ gone' \in [Items -> Versions]
        /\ \A i \in Items : gone[i] <= gone'[i] /\ gone'[i] <= saved[i]
        /\ ~Answer(r, R) => \A i \in Items : i \in R => gone'[i] = saved[i]
    <2>1. CASE Answer(r, R)
      BY <1>1, <1>2, <2>1 DEF Answer, Reached, TypeInv
    <2>2. CASE ~Answer(r, R)
      <3>1. gone' = [i \in Items |-> IF i \in R THEN saved[i] ELSE gone[i]]
        BY <2>2 DEF RequestFails
      <3>2. \A i \in Items : gone[i] <= saved[i]
        BY <1>1 DEF Reached
      <3> QED BY <1>2, <2>2, <3>1, <3>2
    <2> QED BY <2>1, <2>2
  <1>8. TypeInv'
    BY <1>1, <1>6, <1>7 DEF TypeInv
  <1>9. Reached'
    <2>1. \A q \in 1..MaxReloads :
            reloads'[q] # NoReload => \A i \in Items : reloads'[q][i] <= saved[i]
      BY <1>1, <1>5, <1>6 DEF Reached
    <2> QED BY <1>1, <1>7, <2>1 DEF Reached
  <1>10. InOrder' /\ SimulatorInOrder'
    BY <1>1 DEF InOrder, SimulatorInOrder
  <1>11. Justified'
    <2> SUFFICES ASSUME NEW i \in Items PROVE Reason(i)'
      BY DEF Justified
    <2>1. Reason(i)
      BY <1>1 DEF Justified
    <2>2. saved[i] <= gone[i] => saved[i] <= gone'[i]
      <3>1. gone'[i] \in Int /\ gone[i] <= gone'[i]
        BY <1>7 DEF Versions
      <3> QED BY <1>2, <3>1
    <2>3. CASE i \in R /\ Answer(r, R)
      BY <1>1, <1>5, <1>6, <2>3 DEF Reason
    <2>4. CASE i \in R /\ ~Answer(r, R)
      <3>1. saved[i] <= gone'[i]
        BY <1>2, <1>7, <2>4
      <3> QED BY <1>1, <3>1 DEF Reason
    <2>5. CASE i \notin R
      <3>1. \A q \in 1..MaxReloads : reloads[q] # NoReload =>
              reloads'[q] # NoReload /\ reloads'[q][i] = reloads[q][i]
        BY <1>5, <1>6, <2>5
      <3> QED BY <1>1, <2>1, <2>2, <3>1 DEF Reason, Way
    <2> QED BY <2>3, <2>4, <2>5
  <1> QED BY <1>8, <1>9, <1>10, <1>11 DEF Inv

LEMMA HydrateStep ==
  ASSUME Inv, NEW r \in 1..MaxReloads, Hydrate(r)
  PROVE  Inv'
  <1> USE DEF gatewayVars, batchVars, screenVars, processorVars
  <1> DEFINE new == Hydrated(reloads[r])
  <1>1. /\ TypeInv /\ Reached /\ InOrder /\ SimulatorInOrder /\ Justified
        /\ UNCHANGED <<saved, owed, subscribed, channel, lastSimulator, connection, wire, buffer,
                       gone>>
        /\ resyncOwed' = resyncOwed
        /\ reloads[r] # NoReload /\ (\A i \in Items : reloads[r][i] # Waiting)
        /\ view' = new /\ takenBack' = TakenBackBy(new)
        /\ reloads' = [reloads EXCEPT ![r] = NoReload]
    BY DEF Inv, Hydrate
  <1>2. /\ \A i \in Items : saved[i] \in Int /\ 1 <= saved[i]
        /\ \A i \in Items : view[i] \in Versions /\ view[i] \in Int /\ takenBack[i] \in Int
    BY <1>1, DashboardAssumption DEF TypeInv, Versions
  <1>3. \A i \in Items : reloads[r][i] \in Versions /\ reloads[r][i] <= saved[i]
    BY <1>1 DEF TypeInv, Reached
  <1>4. /\ new \in [Items -> Versions]
        /\ \A i \in Items : new[i] <= saved[i]
        /\ \A i \in Items : reloads[r][i] = saved[i] => new[i] = saved[i]
    <2>1. \A i \in Items : new[i] = IF i = Simulator
            /\ reloads[r][i] = 0 THEN view[i] ELSE reloads[r][i]
      BY DEF Hydrated
    <2>2. new \in [Items -> Versions]
      BY <1>2, <1>3 DEF Hydrated
    <2>3. \A i \in Items : view[i] <= saved[i]
      BY <1>1 DEF Reached
    <2>4. \A i \in Items : saved[i] # 0
      BY <1>2
    <2> HIDE DEF new
    <2> QED BY <1>3, <2>1, <2>2, <2>3, <2>4
  <1> HIDE DEF new
  <1>5. /\ TakenBackBy(new) \in [Items -> Versions]
        /\ \A i \in Items : /\ takenBack[i] <= takenBack'[i] /\ takenBack'[i] <= saved[i]
                            /\ view'[i] < view[i] => view[i] <= takenBack'[i]
    BY <1>1, <1>4, TakenBackIs
  <1>6. /\ reloads' \in [1..MaxReloads -> [Items -> Versions \cup {Waiting}] \cup {NoReload}]
        /\ reloads'[r] = NoReload
        /\ \A q \in 1..MaxReloads : q # r => reloads'[q] = reloads[q]
    BY <1>1 DEF TypeInv
  <1>7. TypeInv'
    BY <1>1, <1>4, <1>5, <1>6 DEF TypeInv
  <1>8. Reached'
    BY <1>1, <1>4, <1>5, <1>6 DEF Reached
  <1>9. InOrder' /\ SimulatorInOrder'
    BY <1>1 DEF InOrder, SimulatorInOrder
  <1>10. Justified'
    <2> SUFFICES ASSUME NEW i \in Items PROVE Reason(i)'
      BY DEF Justified
    <2>1. Reason(i)
      BY <1>1 DEF Justified
    <2>2. CASE reloads[r][i] = saved[i]
      BY <1>1, <1>4, <2>2 DEF Reason
    <2>3. CASE view[i] = saved[i] /\ new[i] # saved[i]
      <3>1. new[i] \in Int /\ new[i] <= saved[i] /\ takenBack'[i] \in Int
        BY <1>1, <1>4, <1>5 DEF Versions
      <3>2. new[i] < view[i]
        BY <1>2, <2>3, <3>1
      <3>3. saved[i] <= takenBack'[i]
        BY <1>1, <1>5, <2>3, <3>2
      <3> QED BY <1>1, <3>3 DEF Reason
    <2>4. CASE new[i] = saved[i]
      BY <1>1, <2>4 DEF Reason
    <2>5. CASE view[i] # saved[i] /\ reloads[r][i] # saved[i]
      <3>1. takenBack'[i] \in Int
        BY <1>1, <1>5 DEF Versions
      <3>2. saved[i] <= takenBack[i] => saved[i] <= takenBack'[i]
        BY <1>2, <1>5, <3>1
      <3>3. \A q \in 1..MaxReloads : reloads[q] # NoReload
              /\ reloads[q][i] \in {Waiting, saved[i]} =>
              reloads'[q] # NoReload /\ reloads'[q][i] = reloads[q][i]
        BY <1>1, <1>6, <2>5
      <3> QED BY <1>1, <2>1, <2>5, <3>2, <3>3 DEF Reason, Way
    <2> QED BY <2>2, <2>3, <2>4, <2>5
  <1> QED BY <1>7, <1>8, <1>9, <1>10 DEF Inv

------------------------------------------------------------------------------

LEMMA InvInit == Init => Inv
  <1> SUFFICES ASSUME Init PROVE Inv
    OBVIOUS
  <1>1. /\ 1 \in 1..MaxVersion /\ 0 \in Versions /\ Simulator \in Items
        /\ Nothing \in [Items -> Versions] /\ \A i \in Items : Nothing[i] = 0
    BY DashboardAssumption, ChangesAre DEF Versions, Nothing
  <1>2. /\ saved \in [Items -> 1..MaxVersion] /\ \A i \in Items : saved[i] = 1
        /\ reloads \in [1..MaxReloads -> [Items -> Versions \cup {Waiting}] \cup {NoReload}]
        /\ \A r \in 1..MaxReloads : reloads[r] = NoReload
    BY <1>1 DEF Init
  <1>3. TypeInv
    <2>1. /\ owed = <<>> /\ channel = <<>> /\ wire = <<>>
          /\ buffer = Nothing /\ view = Nothing /\ gone = Nothing /\ takenBack = Nothing
          /\ resyncOwed = FALSE /\ subscribed = TRUE /\ lastSimulator = 0
          /\ connection = "CONNECTING"
      BY DEF Init
    <2>2. <<>> \in Seq(Changes) /\ <<>> \in Seq(OnChannel) /\ <<>> \in Seq(OnWire)
      OBVIOUS
    <2> QED BY <1>1, <1>2, <2>1, <2>2 DEF TypeInv
  <1>4. Reached
    BY <1>1, <1>2, ToSetEmpty DEF Init, Reached
  <1>5. InOrder /\ SimulatorInOrder
    BY <1>1, ToSetEmpty DEF Init, InOrder, SimulatorInOrder, Ascending
  <1>6. Justified
    BY DEF Init, Justified, Reason
  <1> QED BY <1>3, <1>4, <1>5, <1>6 DEF Inv

LEMMA InvNext == Inv /\ [Next]_vars => Inv'
  <1> SUFFICES ASSUME Inv, [Next]_vars PROVE Inv'
    OBVIOUS
  <1>1. CASE \E i \in Changed : Save(i)
    BY <1>1, SaveStep
  <1>2. CASE (\E z \in Zones : Replay(z)) \/ ChangeSimulator
    <2>1. Zones \subseteq Items /\ Simulator \in Items
      BY ChangesAre DEF Changed
    <2>2. CASE \E z \in Zones : Replay(z)
      <3>1. PICK z \in Zones : Replay(z)
        BY <2>2
      <3>2. z \in Items
        BY <2>1
      <3>3. (z \in Zones /\ Replay(z)) \/ (z = Simulator /\ ChangeSimulator)
        BY <3>1
      <3> QED BY <3>2, <3>3, ReplayStep, Zenon
    <2>3. CASE ChangeSimulator
      BY <2>1, <2>3, ReplayStep
    <2> QED BY <1>2, <2>2, <2>3
  <1>3. CASE Announce \/ AnnounceResync \/ AnnounceScenario
    BY <1>3, AnnounceStep
  <1>4. CASE Crash \/ SubscriberDrops \/ OnDisconnect \/ Resubscribe
    BY <1>4, DropStep
  <1>5. CASE Route \/ PushSimulatorState
    BY <1>5, GatewayStep
  <1>6. CASE OnConnect \/ OnResync
    BY <1>6, ReloadStep
  <1>7. CASE OnUpdate \/ OnSimulator
    BY <1>7, ReceiveStep
  <1>8. CASE Flush
    BY <1>8, FlushStep
  <1>9. CASE \E r \in 1..MaxReloads :
               (\E R \in Requests : Answer(r, R) \/ RequestFails(r, R)) \/ Hydrate(r)
    BY <1>9, AnswerStep, HydrateStep
  <1>10. CASE UNCHANGED vars
    <2>1. TypeInv' /\ Reached' /\ InOrder' /\ SimulatorInOrder'
      BY <1>10 DEF vars, Inv, TypeInv, Reached, InOrder, SimulatorInOrder
    <2>2. Justified'
      BY <1>10 DEF vars, Inv, Justified, Reason, Way
    <2> QED BY <2>1, <2>2 DEF Inv
  <1> QED
    BY <1>1, <1>2, <1>3, <1>4, <1>5, <1>6, <1>7, <1>8, <1>9, <1>10 DEF Next, Changed

LEMMA InvAlways == Spec => []Inv
  BY InvInit, InvNext, PTL DEF Spec

(* A dashboard is behind Redis only with a reason, for any number of zones *)
(* and alerts, reloads at a time and disturbances: live messages, batches, *)
(* snapshots and resyncs may meet in any order.                            *)
THEOREM BehindOnlyIfLostAlways == Spec => []BehindOnlyIfLost
  <1>1. Inv => BehindOnlyIfLost
    <2> SUFFICES ASSUME Inv, NEW i \in Items
                 PROVE  view[i] = saved[i] \/ OnItsWay(i) \/ saved[i] <= Lost(i)
      BY DEF BehindOnlyIfLost
    <2>1. Reason(i) /\ TypeInv
      BY DEF Inv, Justified
    <2>2. InTransit = Way
      BY <2>1, InTransitIs DEF TypeInv, InTransit, Way
    <2>3. saved[i] \in Versions
      BY <2>1, DashboardAssumption DEF TypeInv, Versions
    <2>4. saved[i] <= Lost(i) <=> saved[i] <= gone[i] \/ saved[i] <= takenBack[i]
      BY <2>1, <2>3, LostIs
    <2> QED BY <2>1, <2>2, <2>4 DEF Reason, OnItsWay, SimulatorChanged
  <1> QED BY <1>1, InvAlways, PTL

------------------------------------------------------------------------------
(* LiveView.                                                               *)

(* What was given up stays given up, whatever the messages dropped.        *)
LEMMA GivenUpGrows ==
  ASSUME TypeInv, Reached, NEW q, NEW i \in Items
  PROVE  gone[i] <= GivenUp(q)[i]
  <1>1. /\ MaxVersion \in Nat /\ gone[i] \in Versions /\ gone[i] <= saved[i]
        /\ \A v \in Versions : v <= v
    BY DashboardAssumption DEF TypeInv, Reached, Versions
  <1>2. CASE Resync \in ToSet(q) /\ i # Simulator
    BY <1>1, <1>2 DEF GivenUp
  <1>3. CASE ~(Resync \in ToSet(q) /\ i # Simulator)
    <2> DEFINE S == {gone[i]} \cup Carried(q, i)
    <2>1. GivenUp(q)[i] = Max(S) /\ gone[i] \in S /\ S \subseteq 0..MaxVersion
      BY <1>1, <1>3 DEF GivenUp, Carried, Versions
    <2> HIDE DEF S
    <2> QED BY <1>1, <2>1, LargestIs
  <1> QED BY <1>2, <1>3

LEMMA LossesStay ==
  ASSUME TypeInv, Reached, Next, NEW i \in Items
  PROVE  gone[i] <= gone'[i] /\ takenBack[i] <= takenBack'[i]
  <1> USE DEF gatewayVars, batchVars, screenVars, processorVars
  <1>1. gone[i] <= gone[i] /\ takenBack[i] <= takenBack[i] /\ gone[i] <= saved[i]
    BY DEF TypeInv, Reached, Versions
  <1>2. CASE (\E j \in Changed : Save(j)) \/ (\E z \in Zones : Replay(z)) \/ ChangeSimulator
    BY <1>1, <1>2 DEF Save, Replay, ChangeSimulator
  <1>3. CASE Announce \/ AnnounceResync \/ AnnounceScenario
    <2>1. takenBack' = takenBack /\ \E m : gone' = gone \/ gone' = GivenUp(<<m>>)
      BY <1>3 DEF Announce, AnnounceResync, AnnounceScenario, Publish
    <2> QED BY <1>1, <2>1, GivenUpGrows
  <1>4. CASE Crash \/ SubscriberDrops
    <2>1. takenBack' = takenBack /\ \E q : gone' = GivenUp(q)
      BY <1>4 DEF Crash, SubscriberDrops
    <2> QED BY <1>1, <2>1, GivenUpGrows
  <1>5. CASE Route \/ PushSimulatorState \/ Resubscribe \/ OnConnect \/ OnDisconnect
             \/ OnUpdate \/ OnSimulator \/ OnResync
    BY <1>1, <1>5
    DEF Route, PushSimulatorState, Resubscribe, OnConnect, OnDisconnect, OnUpdate, OnSimulator,
        OnResync
  <1>6. CASE Flush
    <2>1. Merged \in [Items -> Versions]
      BY DEF Merged, TypeInv
    <2>2. gone' = gone /\ takenBack' = TakenBackBy(Merged)
      BY <1>6 DEF Flush
    <2> QED BY <1>1, <2>1, <2>2, TakenBackIs
  <1>7. ASSUME NEW r \in 1..MaxReloads, NEW R \in Requests, Answer(r, R) \/ RequestFails(r, R)
        PROVE  gone[i] <= gone'[i] /\ takenBack[i] <= takenBack'[i]
    <2>1. CASE Answer(r, R)
      BY <1>1, <2>1 DEF Answer
    <2>2. CASE RequestFails(r, R)
      BY <1>1, <2>2 DEF RequestFails
    <2> QED BY <1>7, <2>1, <2>2
  <1>8. ASSUME NEW r \in 1..MaxReloads, Hydrate(r)
        PROVE  gone[i] <= gone'[i] /\ takenBack[i] <= takenBack'[i]
    <2>1. reloads[r] \in [Items -> Versions]
      BY <1>8, DashboardAssumption DEF Hydrate, TypeInv, Waiting
    <2>2. Hydrated(reloads[r]) \in [Items -> Versions]
      BY <2>1 DEF Hydrated, TypeInv
    <2>3. gone' = gone /\ takenBack' = TakenBackBy(Hydrated(reloads[r]))
      BY <1>8 DEF Hydrate
    <2> QED BY <1>1, <2>2, <2>3, TakenBackIs
  <1> QED BY <1>2, <1>3, <1>4, <1>5, <1>6, <1>7, <1>8 DEF Next, Changed

LEMMA LostGrows ==
  ASSUME TypeInv, Reached, Next, TypeInv', Reached', UNCHANGED saved, NEW i \in Items
  PROVE  Lost(i) <= Lost(i)' /\ Lost(i)' <= saved[i]
  <1>1. gone[i] <= gone'[i] /\ takenBack[i] <= takenBack'[i]
    BY LossesStay
  <1>2. /\ gone[i] \in Int /\ takenBack[i] \in Int /\ gone'[i] \in Int /\ takenBack'[i] \in Int
        /\ gone'[i] <= saved[i] /\ takenBack'[i] <= saved[i] /\ saved[i] \in Int
    BY DashboardAssumption DEF TypeInv, Reached, Versions
  <1> QED BY <1>1, <1>2 DEF Lost, Larger

LEMMA RefinementInit == Init => View!Init
  <1> SUFFICES ASSUME Init PROVE View!Init
    OBVIOUS
  <1>1. \A i \in Items : Lost(i) = 0
    BY DEF Init, Nothing, Lost, Larger
  <1> QED BY <1>1 DEF Init, Nothing, View!Init

(* A write is a change that nobody has seen yet.                           *)
LEMMA WriteIsChange ==
  ASSUME NEW i \in Items, Write(i), UNCHANGED <<view, gone, takenBack>>
  PROVE  View!Next
  <1>1. saved' = [saved EXCEPT ![i] = @ + 1]
    BY DEF Write
  <1>2. [j \in Items |-> Lost(j)]' = [j \in Items |-> Lost(j)]
    BY DEF Lost, Larger
  <1>3. View!Change(i)
    BY <1>1, <1>2 DEF View!Change
  <1> QED BY <1>3 DEF View!Next

(* Every other step only shows something, or gives something up.           *)
LEMMA OtherStepIsShow ==
  ASSUME Inv, Next, Inv', UNCHANGED saved
  PROVE  View!Next
  <1>1. TypeInv /\ Reached /\ TypeInv' /\ Reached'
    BY DEF Inv
  <1>2. \A i \in Items : view'[i] <= saved[i]
    BY <1>1 DEF Reached
  <1>3. \A i \in Items : Lost(i) <= Lost(i)' /\ Lost(i)' <= saved[i]
    BY <1>1, LostGrows
  <1>4. View!Show
    BY <1>2, <1>3 DEF View!Show
  <1> QED BY <1>4 DEF View!Next

LEMMA RefinementNext == Inv /\ Inv' /\ [Next]_vars => [View!Next]_View!vars
  <1> USE DEF gatewayVars, batchVars, screenVars, processorVars
  <1> SUFFICES ASSUME Inv, Inv', [Next]_vars PROVE [View!Next]_View!vars
    OBVIOUS
  <1>1. CASE UNCHANGED vars
    BY <1>1 DEF vars, View!vars, Lost, Larger
  <1>2. CASE \E i \in Items : Write(i) /\ UNCHANGED <<view, gone, takenBack>>
    BY <1>2, WriteIsChange
  <1>3. CASE Next /\ UNCHANGED saved
    BY <1>3, OtherStepIsShow
  <1>4. ASSUME Next
        PROVE  (\E i \in Items : Write(i) /\ UNCHANGED <<view, gone, takenBack>>) \/ UNCHANGED saved
    <2>1. CASE (\E i \in Changed : Save(i)) \/ (\E z \in Zones : Replay(z)) \/ ChangeSimulator
      <3>1. Changed \subseteq Items /\ Zones \subseteq Items /\ Simulator \in Items
        BY ChangesAre DEF Changed
      <3> QED BY <2>1, <3>1 DEF Save, Replay, ChangeSimulator
    <2>2. CASE \/ Announce \/ AnnounceResync \/ AnnounceScenario \/ Crash \/ Route
               \/ PushSimulatorState \/ SubscriberDrops \/ Resubscribe
               \/ OnConnect \/ OnDisconnect \/ OnUpdate \/ OnSimulator \/ OnResync \/ Flush
      BY <2>2
      DEF Announce, AnnounceResync, AnnounceScenario, Crash, Route, PushSimulatorState,
          SubscriberDrops, Resubscribe, OnConnect, OnDisconnect, OnUpdate, OnSimulator, OnResync,
          Flush
    <2>3. CASE \E r \in 1..MaxReloads :
                 (\E R \in Requests : Answer(r, R) \/ RequestFails(r, R)) \/ Hydrate(r)
      BY <2>3 DEF Answer, RequestFails, Hydrate
    <2> QED BY <1>4, <2>1, <2>2, <2>3 DEF Next, Changed
  <1> QED BY <1>1, <1>2, <1>3, <1>4

(* Every step of the pipeline, of whatever order and with whatever losses, *)
(* is one that LiveView allows: the screen shows only what Redis has had,  *)
(* and what was lost stays accounted for.                                  *)
THEOREM DashboardIsLiveView == Spec => View!Safety
  <1> QED
    BY RefinementInit, RefinementNext, InvAlways, PTL DEF Spec, View!Safety

------------------------------------------------------------------------------
(* The second part: Sampling.                                              *)

(* WINDOW_RETENTION_MS is the longest window.                              *)
LEMMA RetentionIsLongest ==
  /\ Retention \in Nat
  /\ \A length \in Lengths : length \in Nat /\ length <= Retention
  <1>1. PICK longest \in Lengths : \A length \in Lengths : longest >= length
    BY SamplingAssumption
  <1>2. Retention \in Lengths /\ \A length \in Lengths : Retention >= length
    BY <1>1 DEF Retention, Max
  <1> QED BY <1>2, SamplingAssumption

(* Nothing is recorded before it happened.                                 *)
Times ==
  /\ now \in Nat /\ expires \in Nat
  /\ transit # NoEvent => transit.at \in Nat /\ transit.at <= now
  /\ \A m \in movements : m.at \in Nat /\ m.at <= now

(* The sorted set holds every movement that a window may still count, no   *)
(* other, and none of them outlives the key.                               *)
Kept ==
  /\ window \subseteq movements
  /\ \A m \in movements : m.at > now - Retention => m \in window
  /\ \A m \in movements : m.at + WindowTTL <= expires

WindowsInv == Times /\ Kept

(* The TTL takes away nothing that is inside a window.                     *)
LEMMA MembersKept ==
  ASSUME WindowsInv, NEW m \in movements, m.at > now - Retention
  PROVE  m \in Members
  <1>1. m \in window /\ m.at \in Nat /\ now \in Nat /\ expires \in Nat
    BY DEF WindowsInv, Times, Kept
  <1>2. m.at + WindowTTL <= expires
    BY DEF WindowsInv, Kept
  <1>3. WindowTTL \in Nat /\ WindowTTL >= Retention /\ Retention \in Nat
    BY SamplingAssumption, RetentionIsLongest
  <1>4. now < expires
    BY <1>1, <1>2, <1>3
  <1> QED BY <1>1, <1>4 DEF Members

LEMMA MembersAreMovements ==
  ASSUME WindowsInv PROVE Members \subseteq movements
  BY DEF WindowsInv, Kept, Members

(* ZREMRANGEBYSCORE neither.                                               *)
LEMMA PrunedKeeps ==
  ASSUME NEW S, NEW m \in S, m.at \in Nat, now \in Nat, m.at > now - Retention
  PROVE  m \in Pruned(S)
  BY RetentionIsLongest DEF Pruned

LEMMA ProcessKeeps == WindowsInv /\ Process => WindowsInv'
  <1> SUFFICES ASSUME WindowsInv, Process PROVE WindowsInv'
    OBVIOUS
  <1> DEFINE movement == [id |-> Cardinality(movements), at |-> transit.at]
  <1>1. /\ window' = Pruned(Members \cup {movement})
        /\ movements' = movements \cup {movement}
        /\ expires' = now + WindowTTL
        /\ now' = now /\ transit' = NoEvent
    BY DEF Process, ExpiresAfter
  <1>2. movement.at \in Nat /\ movement.at <= now
    BY DEF Process, WindowsInv, Times
  <1>3. now \in Nat /\ WindowTTL \in Nat
    BY SamplingAssumption DEF WindowsInv, Times
  <1> HIDE DEF movement
  <1>4. \A m \in movements' : m.at \in Nat /\ m.at <= now
    BY <1>1, <1>2 DEF WindowsInv, Times
  <1>5. Times'
    BY <1>1, <1>3, <1>4 DEF Times
  <1>6. window' \subseteq movements'
    BY <1>1, MembersAreMovements DEF Pruned
  <1>7. ASSUME NEW m \in movements', m.at > now - Retention
        PROVE  m \in window'
    <2>1. m \in Members \cup {movement}
      BY <1>1, <1>7, MembersKept
    <2> QED BY <1>1, <1>3, <1>4, <1>7, <2>1, PrunedKeeps
  <1>8. \A m \in movements' : m.at + WindowTTL <= expires'
    BY <1>1, <1>3, <1>4
  <1> QED BY <1>1, <1>5, <1>6, <1>7, <1>8 DEF WindowsInv, Kept

LEMMA SampleKeeps == WindowsInv /\ Sample => WindowsInv'
  <1> SUFFICES ASSUME WindowsInv, Sample PROVE WindowsInv'
    OBVIOUS
  <1>1. UNCHANGED <<now, expires, transit, movements>>
    BY DEF Sample
  <1>2. window' = window \/ window' = Pruned(Members)
    BY DEF Sample
  <1>3. Times'
    BY <1>1 DEF WindowsInv, Times
  <1>4. window' \subseteq movements
    BY <1>2, MembersAreMovements DEF WindowsInv, Kept, Pruned
  <1>5. ASSUME NEW m \in movements, m.at > now - Retention
        PROVE  m \in window'
    BY <1>2, <1>5, MembersKept, PrunedKeeps DEF WindowsInv, Kept, Times
  <1> QED BY <1>1, <1>3, <1>4, <1>5 DEF WindowsInv, Kept

LEMMA WindowInductive == WindowsInv /\ [SamplingNext]_samplingVars => WindowsInv'
  <1> SUFFICES ASSUME WindowsInv, [SamplingNext]_samplingVars PROVE WindowsInv'
    OBVIOUS
  <1>1. CASE Tick
    <2>1. now' = now + 1 /\ UNCHANGED <<window, expires, transit, movements>>
      BY <1>1 DEF Tick, redisVars, historyVars
    <2>2. Times'
      BY <2>1 DEF WindowsInv, Times
    <2>3. \A m \in movements : m.at > now' - Retention => m.at > now - Retention
      BY <2>1, RetentionIsLongest DEF WindowsInv, Times
    <2> QED BY <2>1, <2>2, <2>3 DEF WindowsInv, Kept
  <1>2. CASE Sense
    <2>1. /\ \E count \in Counts : transit' = [count |-> count, at |-> now]
          /\ UNCHANGED <<now, window, expires, movements>>
      BY <1>2 DEF Sense, redisVars, historyVars
    <2> QED BY <2>1 DEF WindowsInv, Times, Kept
  <1>3. CASE Ignore
    BY <1>3 DEF Ignore, redisVars, historyVars, WindowsInv, Times, Kept
  <1>4. CASE Stop
    BY <1>4 DEF Stop, redisVars, WindowsInv, Times, Kept
  <1>5. CASE Start
    <2>1. CASE Configure
      BY <1>5, <2>1 DEF Start, Configure, WindowsInv, Times, Kept
    <2>2. CASE UNCHANGED <<window, expires, movements>>
      BY <1>5, <2>2 DEF Start, WindowsInv, Times, Kept
    <2> QED BY <1>5, <2>1, <2>2 DEF Start
  <1>6. CASE UNCHANGED samplingVars
    BY <1>6 DEF samplingVars, WindowsInv, Times, Kept
  <1> QED BY <1>1, <1>2, <1>3, <1>4, <1>5, <1>6, ProcessKeeps, SampleKeeps DEF SamplingNext

(* The windows of 1, 5 and 15 minutes count every movement of their time   *)
(* and no other, however late events are processed, however long the       *)
(* Processor stands still and whatever the sampler prunes.                 *)
THEOREM WindowCountsExactAlways == SamplingSpec => []WindowCountsExact
  <1>1. SamplingInit => WindowsInv
    BY DEF SamplingInit, WindowsInv, Times, Kept
  <1>2. WindowsInv => WindowCountsExact
    <2> SUFFICES ASSUME WindowsInv, NEW length \in Lengths
                 PROVE  CountWithin(length)
                          = Cardinality({m \in movements : m.at > now - length})
      BY DEF WindowCountsExact, WindowCounts
    <2>1. \A m \in movements : m.at > now - length => m.at > now - Retention
      BY RetentionIsLongest DEF WindowsInv, Times
    <2>2. {m \in Members : m.at > now - length} = {m \in movements : m.at > now - length}
      BY <2>1, MembersKept, MembersAreMovements
    <2> QED BY <2>2 DEF CountWithin
  <1> QED BY <1>1, <1>2, WindowInductive, PTL DEF SamplingSpec

------------------------------------------------------------------------------
(* The samples in memory and those of parking:timeseries.                  *)

Entries == [ts : Nat, zones : {{}} \cup {{v} : v \in Nat}]   \* of the stream
Measures == [ts : Nat, value : Nat \cup {None}]             \* of the history
Archive == MetricsHistory(0)

LEMMA SmallestExists ==
  ASSUME NEW S \in SUBSET Nat, S # {}
  PROVE  \E n \in S : \A m \in S : n <= m
  <1>1. PICK n \in S : \A m \in S : ~(<<m, n>> \in OpToRel(<, Nat))
    BY NatLessThanWellFounded, WFMin
  <1>2. \A m \in S : ~(m < n)
    BY <1>1 DEF OpToRel
  <1> QED BY <1>2

(* The oldest and the newest of some samples, of which no two have the     *)
(* same time.                                                              *)
LEMMA OldestExists ==
  ASSUME NEW A, A # {}, \A s \in A : s.ts \in Nat
  PROVE  Oldest(A) \in A /\ \A s \in A : Oldest(A).ts <= s.ts
  <1> DEFINE S == {s.ts : s \in A}
  <1>1. S \in SUBSET Nat /\ S # {}
    OBVIOUS
  <1>2. PICK n \in S : \A m \in S : n <= m
    <2> HIDE DEF S
    <2> QED BY <1>1, SmallestExists
  <1>3. PICK s \in A : n = s.ts
    OBVIOUS
  <1>4. \A r \in A : s.ts <= r.ts
    BY <1>2, <1>3
  <1> QED BY <1>4 DEF Oldest

LEMMA NewestExists ==
  ASSUME NEW A, A # {}, NEW top \in Nat, \A s \in A : s.ts \in Nat /\ s.ts <= top
  PROVE  \E n \in A : \A s \in A : n.ts >= s.ts
  <1> DEFINE S == {top - s.ts : s \in A}
  <1>1. S \in SUBSET Nat /\ S # {}
    OBVIOUS
  <1>2. PICK n \in S : \A m \in S : n <= m
    <2> HIDE DEF S
    <2> QED BY <1>1, SmallestExists
  <1>3. PICK s \in A : n = top - s.ts
    OBVIOUS
  <1>4. ASSUME NEW r \in A PROVE s.ts >= r.ts
    <2>1. n <= top - r.ts
      BY <1>2
    <2> QED BY <1>3, <2>1
  <1> QED BY <1>4

LEMMA NewestIs ==
  ASSUME NEW A, NEW n \in A, n.ts \in Nat,
         \A s \in A : s.ts \in Nat /\ (s = n \/ s.ts < n.ts)
  PROVE  Newest(A) = n
  <1>1. \A s \in A : n.ts >= s.ts
    OBVIOUS
  <1>2. ASSUME NEW m \in A, \A s \in A : m.ts >= s.ts
        PROVE  m = n
    <2>1. m.ts >= n.ts
      BY <1>2
    <2> QED BY <2>1
  <1> QED BY <1>1, <1>2 DEF Newest

(* A sample survives its way through the stream: a zone without a figure   *)
(* has no field, and has no figure when the sample is read again.          *)
LEMMA RoundTrip ==
  ASSUME NEW s \in Measures
  PROVE  /\ SampleToFields(s) \in Entries /\ SampleToFields(s).ts = s.ts
         /\ FieldsToSample(SampleToFields(s)) = s
  <1>1. CASE s.value = None
    BY <1>1 DEF Measures, Entries, SampleToFields, FieldsToSample
  <1>2. CASE s.value # None
    <2>1. s.value \in Nat
      BY <1>2 DEF Measures
    <2>2. SampleToFields(s) = [ts |-> s.ts, zones |-> {s.value}]
      BY <1>2 DEF SampleToFields
    <2>3. (CHOOSE v \in {s.value} : TRUE) = s.value
      OBVIOUS
    <2> QED BY <2>1, <2>2, <2>3 DEF Measures, Entries, FieldsToSample
  <1> QED BY <1>1, <1>2

LEMMA FieldsAre ==
  ASSUME NEW e \in Entries
  PROVE  FieldsToSample(e) \in Measures /\ FieldsToSample(e).ts = e.ts
  <1>1. CASE e.zones = {}
    BY <1>1 DEF Measures, Entries, FieldsToSample
  <1>2. CASE e.zones # {}
    <2>1. PICK v \in Nat : e.zones = {v}
      BY <1>2 DEF Entries
    <2>2. (CHOOSE u \in e.zones : TRUE) = v
      BY <2>1
    <2> QED BY <1>2, <2>1, <2>2 DEF Measures, Entries, FieldsToSample
  <1> QED BY <1>1, <1>2

(* What the stream has, and what has been measured: the sampler takes one  *)
(* sample at a time.                                                       *)
Stored ==
  /\ now \in Nat /\ occupied \in Nat
  /\ transit # NoEvent => transit.count \in Nat /\ transit.at \in Nat
  /\ timeseries \subseteq Entries /\ IsFiniteSet(timeseries)
  /\ \A e \in timeseries : e.ts <= now
  /\ \A e, f \in timeseries : e.ts = f.ts => e = f

(* As far as it reaches back, the memory is what the stream has.           *)
Remembered ==
  running => /\ samples \subseteq Measures
             /\ Since(samples, now - HistoryAge) = Since(Archive, now - HistoryAge)

(* MAXLEN takes nothing that the history may still ask for: a stream that  *)
(* is too long reaches back further.                                       *)
LEMMA StreamKeeps ==
  ASSUME NEW A, IsFiniteSet(A), NEW top \in Nat,
         \A e \in A : e.ts \in Nat /\ e.ts <= top,
         \A e, f \in A : e.ts = f.ts => e = f,
         Cardinality(A) > TimeseriesMaxLength
  PROVE  \E e \in A : e.ts < top - HistoryAge
  <1> SUFFICES ASSUME \A e \in A : e.ts >= top - HistoryAge PROVE FALSE
    <2>1. HistoryAge \in Nat
      BY SamplingAssumption
    <2> QED BY <2>1
  <1> DEFINE T == (top - HistoryAge)..top
             f == [e \in A |-> e.ts]
  <1>1. HistoryAge \in Nat /\ TimeseriesMaxLength \in Nat /\ TimeseriesMaxLength > HistoryAge
    BY SamplingAssumption
  <1>2. IsFiniteSet(T) /\ Cardinality(T) = HistoryAge + 1
    <2>1. top - HistoryAge \in Int /\ top \in Int /\ top - HistoryAge <= top
      BY <1>1
    <2>2. top - (top - HistoryAge) + 1 = HistoryAge + 1
      BY <1>1
    <2> QED BY <2>1, <2>2, FS_Interval
  <1>3. Cardinality(A) \in Nat
    BY FS_CardinalityType
  <1>4. Cardinality(T) < Cardinality(A)
    BY <1>1, <1>2, <1>3
  <1>5. f \in [A -> T]
    BY <1>1
  <1>6. \A d, e \in A : d # e => f[d] # f[e]
    OBVIOUS
  <1> HIDE DEF T, f
  <1> QED BY <1>2, <1>4, <1>5, <1>6, FS_PigeonHole

(* The sample that sample() takes.                                         *)
Taken == [ts |-> now, value |-> IF present THEN occupied ELSE None]

(* appendSample: the sample is in, and what goes was too old.              *)
LEMMA AppendedIs ==
  ASSUME Stored, NEW s \in Measures, s.ts = now, \A e \in timeseries : e.ts < now
  PROVE  /\ Appended(s) \subseteq timeseries \cup {SampleToFields(s)}
         /\ \A e \in timeseries \cup {SampleToFields(s)} :
              e.ts >= now - HistoryAge => e \in Appended(s)
         /\ IsFiniteSet(Appended(s))
  <1> DEFINE new == SampleToFields(s)
             all == timeseries \cup {new}
  <1>1. new \in Entries /\ new.ts = now
    BY RoundTrip
  <1> HIDE DEF new
  <1>2. now \in Nat /\ HistoryAge \in Nat
    BY SamplingAssumption DEF Stored
  <1>3. IsFiniteSet(all)
    BY FS_AddElement DEF Stored
  <1>4. \A e \in all : e.ts \in Nat /\ e.ts <= now
    BY <1>1, <1>2 DEF Stored, Entries
  <1>5. \A e, f \in all : e.ts = f.ts => e = f
    BY <1>1, <1>2, <1>4 DEF Stored
  <1>6. Appended(s) = IF Cardinality(all) > TimeseriesMaxLength THEN all \ {Oldest(all)}
                      ELSE all
    BY DEF Appended, new
  <1>7. CASE Cardinality(all) > TimeseriesMaxLength
    <2>1. PICK old \in all : old.ts < now - HistoryAge
      <3> HIDE DEF all
      <3> QED BY <1>2, <1>3, <1>4, <1>5, <1>7, StreamKeeps
    <2>2. Oldest(all) \in all /\ \A e \in all : Oldest(all).ts <= e.ts
      <3>1. all # {} /\ \A e \in all : e.ts \in Nat
        BY <1>4
      <3> HIDE DEF all
      <3> QED BY <3>1, OldestExists
    <2>3. PICK o \in all : o = Oldest(all)
      BY <2>2
    <2>4. o.ts < now - HistoryAge
      <3> HIDE DEF all
      <3>1. o.ts <= old.ts
        BY <2>1, <2>2, <2>3
      <3>2. o.ts \in Nat /\ old.ts \in Nat
        BY <1>4, <2>1, <2>2, <2>3
      <3> QED BY <1>2, <2>1, <3>1, <3>2
    <2>5. Appended(s) = all \ {o}
      BY <1>6, <1>7, <2>3
    <2>6. IsFiniteSet(all \ {o})
      BY <1>3, FS_RemoveElement
    <2> QED BY <1>2, <1>4, <2>4, <2>5, <2>6 DEF new
  <1>8. CASE ~(Cardinality(all) > TimeseriesMaxLength)
    BY <1>3, <1>6, <1>8 DEF new
  <1> QED BY <1>7, <1>8

LEMMA TakenIs ==
  ASSUME Stored PROVE Taken \in Measures /\ Taken.ts = now
  BY DEF Stored, Taken, Measures

LEMMA ArchiveIs ==
  ASSUME Stored
  PROVE  /\ Archive = {FieldsToSample(e) : e \in timeseries}
         /\ Archive \subseteq Measures
         /\ \A s \in Archive : s.ts \in Nat /\ s.ts <= now
         /\ \A r, s \in Archive : r.ts = s.ts => r = s
  <1>1. timeseries \subseteq Entries /\ \A e \in timeseries : e.ts \in Nat /\ e.ts <= now
    BY DEF Stored, Entries
  <1>2. Archive = {FieldsToSample(e) : e \in timeseries}
    BY <1>1 DEF Archive, MetricsHistory, Since
  <1>3. \A e \in timeseries : FieldsToSample(e) \in Measures /\ FieldsToSample(e).ts = e.ts
    BY <1>1, FieldsAre
  <1>4. \A s \in Archive : s \in Measures /\ s.ts \in Nat /\ s.ts <= now
    BY <1>1, <1>2, <1>3
  <1>5. ASSUME NEW r \in Archive, NEW s \in Archive, r.ts = s.ts PROVE r = s
    <2>1. PICK e \in timeseries : r = FieldsToSample(e)
      BY <1>2
    <2>2. PICK f \in timeseries : s = FieldsToSample(f)
      BY <1>2
    <2>3. e.ts = f.ts
      BY <1>3, <1>5, <2>1, <2>2
    <2>4. e = f
      BY <2>3 DEF Stored
    <2> QED BY <2>1, <2>2, <2>4
  <1> QED BY <1>2, <1>4, <1>5

(* Samples that agree from a moment on agree from any later one.           *)
LEMMA SinceLater ==
  ASSUME NEW A \in SUBSET Measures, NEW B \in SUBSET Measures,
         NEW c \in Int, NEW d \in Int, d >= c, Since(A, c) = Since(B, c)
  PROVE  /\ Since(A, d) = Since(B, d)
         /\ Since(Selected(A), d) = Since(Selected(B), d)
  <1>1. \A s \in A \cup B : s.ts \in Nat
    BY DEF Measures
  <1>2. \A s \in A \cup B : s.ts >= d => s.ts >= c
    BY <1>1
  <1>3. \A s : s.ts >= c => (s \in A <=> s \in B)
    BY DEF Since
  <1>4. \A s : s.ts >= d => (s \in A <=> s \in B)
    BY <1>2, <1>3
  <1> QED BY <1>4 DEF Since, Selected

LEMMA StoredInductive == Stored /\ [SamplingNext]_samplingVars => Stored'
  <1> SUFFICES ASSUME Stored, [SamplingNext]_samplingVars PROVE Stored'
    OBVIOUS
  <1>1. CASE Tick
    <2>1. now' = now + 1 /\ UNCHANGED <<occupied, transit, timeseries>>
      BY <1>1 DEF Tick, redisVars
    <2>2. \A e \in timeseries : e.ts <= now + 1
      BY DEF Stored, Entries
    <2> QED BY <2>1, <2>2 DEF Stored
  <1>2. CASE Sense
    <2>1. PICK count \in Counts : transit' = [count |-> count, at |-> now]
      BY <1>2 DEF Sense
    <2>2. UNCHANGED <<now, occupied, timeseries>> /\ count \in Nat
      BY <1>2, SamplingAssumption DEF Sense, redisVars
    <2> QED BY <2>1, <2>2 DEF Stored
  <1>3. CASE Ignore
    BY <1>3 DEF Ignore, redisVars, Stored
  <1>4. CASE Process
    <2>1. occupied' = transit.count /\ transit' = NoEvent /\ transit # NoEvent
          /\ UNCHANGED <<now, timeseries>>
      BY <1>4 DEF Process
    <2> QED BY <2>1 DEF Stored
  <1>5. CASE Sample
    <2>1. /\ timeseries' = Appended(Taken)
          /\ \A e \in timeseries : e.ts < now
          /\ UNCHANGED <<now, occupied, transit>>
      BY <1>5 DEF Sample, Taken
    <2>2. Taken \in Measures /\ Taken.ts = now
      BY TakenIs
    <2>3. /\ timeseries' \subseteq timeseries \cup {SampleToFields(Taken)}
          /\ IsFiniteSet(timeseries')
      BY <2>1, <2>2, AppendedIs
    <2>4. SampleToFields(Taken) \in Entries /\ SampleToFields(Taken).ts = now
      BY <2>2, RoundTrip
    <2>5. timeseries' \subseteq Entries /\ \A e \in timeseries' : e.ts <= now
      BY <2>3, <2>4 DEF Stored
    <2>6. \A e, f \in timeseries' : e.ts = f.ts => e = f
      <3>1. \A e \in timeseries : e.ts \in Nat
        BY DEF Stored, Entries
      <3> QED BY <2>1, <2>3, <2>4, <3>1 DEF Stored
    <2> QED BY <2>1, <2>3, <2>5, <2>6 DEF Stored
  <1>6. CASE Stop
    BY <1>6 DEF Stop, redisVars, Stored
  <1>7. CASE Start
    <2>1. UNCHANGED <<now, timeseries, transit>> /\ occupied' \in Nat
      BY <1>7 DEF Start, Configure, Stored
    <2> QED BY <2>1 DEF Stored
  <1>8. CASE UNCHANGED samplingVars
    BY <1>8 DEF samplingVars, Stored
  <1> QED BY <1>1, <1>2, <1>3, <1>4, <1>5, <1>6, <1>7, <1>8 DEF SamplingNext

(* The stream after sample().                                              *)
LEMMA SampleArchives ==
  ASSUME Stored, Sample
  PROVE  /\ Archive' \subseteq Archive \cup {Taken}
         /\ \A s \in Archive \cup {Taken} : s.ts >= now - HistoryAge => s \in Archive'
  <1> DEFINE new == SampleToFields(Taken)
  <1>1. /\ timeseries' = Appended(Taken)
        /\ \A e \in timeseries : e.ts < now
    BY DEF Sample, Taken
  <1>2. Taken \in Measures /\ Taken.ts = now
    BY TakenIs
  <1>3. /\ timeseries' \subseteq timeseries \cup {new}
        /\ \A e \in timeseries \cup {new} : e.ts >= now - HistoryAge => e \in timeseries'
    BY <1>1, <1>2, AppendedIs
  <1>4. new \in Entries /\ FieldsToSample(new) = Taken
    BY <1>2, RoundTrip
  <1>5. Archive = {FieldsToSample(e) : e \in timeseries}
    BY ArchiveIs
  <1>6. Stored'
    BY StoredInductive DEF SamplingNext
  <1>7. Archive' = {FieldsToSample(e) : e \in timeseries'}
    BY <1>6 DEF Stored, Entries, Archive, MetricsHistory, Since
  <1>8. \A e \in timeseries \cup {new} : FieldsToSample(e).ts = e.ts
    <2>1. timeseries \cup {new} \subseteq Entries
      BY <1>4 DEF Stored
    <2> QED BY <2>1, FieldsAre
  <1> HIDE DEF new
  <1>9. Archive' \subseteq Archive \cup {Taken}
    BY <1>3, <1>4, <1>5, <1>7
  <1>10. ASSUME NEW s \in Archive \cup {Taken}, s.ts >= now - HistoryAge
         PROVE  s \in Archive'
    <2>1. PICK e \in timeseries \cup {new} : s = FieldsToSample(e)
      BY <1>4, <1>5
    <2>2. e \in timeseries'
      BY <1>3, <1>8, <1>10, <2>1
    <2> QED BY <1>7, <2>1, <2>2
  <1> QED BY <1>9, <1>10

LEMMA RememberedInductive == Stored /\ Remembered /\ [SamplingNext]_samplingVars => Remembered'
  <1> SUFFICES ASSUME Stored, Remembered, [SamplingNext]_samplingVars PROVE Remembered'
    OBVIOUS
  <1>0. /\ now \in Nat /\ HistoryAge \in Nat
        /\ Archive \subseteq Measures
    BY ArchiveIs, SamplingAssumption DEF Stored
  <1>1. CASE Tick
    <2>1. now' = now + 1 /\ running' = running /\ samples' = samples
          /\ timeseries' = timeseries
      BY <1>1 DEF Tick, redisVars, memoryVars
    <2>2. Archive' = Archive
      BY <2>1 DEF Archive, MetricsHistory, Since
    <2>3. PICK d \in Int : d = now + 1 - HistoryAge
      BY <1>0
    <2>4. ASSUME running PROVE Since(samples, d) = Since(Archive, d)
      <3>1. samples \in SUBSET Measures /\ Archive \in SUBSET Measures
            /\ Since(samples, now - HistoryAge) = Since(Archive, now - HistoryAge)
        BY <1>0, <2>4 DEF Remembered
      <3>2. now - HistoryAge \in Int /\ d >= now - HistoryAge
        BY <1>0, <2>3
      <3> QED BY <3>1, <3>2, SinceLater
    <2>5. now' - HistoryAge = d
      BY <1>0, <2>1, <2>3
    <2>6. ASSUME running'
          PROVE  Since(samples, d)' = Since(Archive, d)'
      <3>1. Since(samples, d)' = Since(samples, d) /\ Since(Archive, d)' = Since(Archive, d)
        BY <2>1, <2>2 DEF Since
      <3> QED BY <2>1, <2>4, <2>6, <3>1
    <2> QED BY <2>1, <2>5, <2>6 DEF Remembered
  <1>2. CASE Sample
    <2>1. now' = now /\ running' = running
          /\ samples' = Since(samples \cup {Taken}, now - HistoryAge)
      <3>1. Taken.ts = now
        BY TakenIs
      <3> QED BY <1>2, <3>1 DEF Sample, Taken, Added
    <2>2. Taken \in Measures
      BY TakenIs
    <2>3. /\ Archive' \subseteq Archive \cup {Taken}
          /\ \A s \in Archive \cup {Taken} : s.ts >= now - HistoryAge => s \in Archive'
      BY <1>2, SampleArchives
    <2>4. ASSUME running
          PROVE  /\ samples' \subseteq Measures
                 /\ Since(samples', now - HistoryAge) = Since(Archive', now - HistoryAge)
      <3>1. samples \subseteq Measures
            /\ \A s : s.ts >= now - HistoryAge => (s \in samples <=> s \in Archive)
        BY <2>4 DEF Remembered, Since
      <3> QED BY <2>1, <2>2, <2>3, <3>1 DEF Since
    <2> QED BY <2>1, <2>4 DEF Remembered
  <1>3. CASE Stop
    BY <1>3 DEF Stop, Remembered
  <1>4. CASE Start
    <2>1. now' = now /\ samples' = MetricsHistory(now - HistoryAge)
          /\ timeseries' = timeseries
      BY <1>4 DEF Start, Loaded
    <2>2. Archive' = Archive
      BY <2>1 DEF Archive, MetricsHistory, Since
    <2>3. Archive = {FieldsToSample(e) : e \in timeseries}
          /\ \A e \in timeseries : FieldsToSample(e).ts = e.ts
      BY ArchiveIs, FieldsAre DEF Stored
    <2>4. MetricsHistory(now - HistoryAge) = Since(Archive, now - HistoryAge)
      BY <2>3 DEF MetricsHistory, Since
    <2> QED BY <1>0, <2>1, <2>2, <2>4 DEF Remembered, Since
  <1>5. CASE Sense \/ Ignore \/ Process \/ UNCHANGED samplingVars
    <2>1. UNCHANGED <<now, timeseries, running, samples>>
      BY <1>5 DEF Sense, Ignore, Process, samplingVars, redisVars, memoryVars
    <2>2. Archive' = Archive
      BY <2>1 DEF Archive, MetricsHistory, Since
    <2> QED BY <2>1, <2>2 DEF Remembered
  <1> QED BY <1>1, <1>2, <1>3, <1>4, <1>5 DEF SamplingNext

(* The value at a moment, when a sample before it is still remembered.     *)
LEMMA ValueAtIs ==
  ASSUME NEW A \in SUBSET Measures, NEW n \in A, NEW at \in Int,
         n.value # None, n.ts <= at,
         \A s \in A : s.value # None /\ s.ts <= at => s = n \/ s.ts < n.ts
  PROVE  ValueAt(A, at) = n.value
  <1> DEFINE before == {s \in Selected(A) : s.ts <= at}
  <1>1. n \in before /\ \A s \in before : s.ts \in Nat /\ (s = n \/ s.ts < n.ts)
    BY DEF Selected, Measures
  <1>2. Newest(before) = n
    <2>1. n.ts \in Nat
      BY DEF Measures
    <2> HIDE DEF before
    <2> QED BY <1>1, <2>1, NewestIs
  <1>3. Selected(A) # {} /\ before # {}
    BY <1>1
  <1> QED BY <1>2, <1>3 DEF ValueAt

(* The last of the remembered samples before a moment is the last in the   *)
(* stream.                                                                 *)
LEMMA LastBefore ==
  ASSUME Stored, Remembered, running, NEW at \in Int,
         NEW s \in Selected(Archive), now - HistoryAge <= s.ts, s.ts <= at
  PROVE  \E n \in Selected(Archive) :
           /\ s.ts <= n.ts /\ n.ts <= at
           /\ ValueAt(Archive, at) = n.value
           /\ ValueAt(samples, at) = n.value
  <1> DEFINE before == {r \in Selected(Archive) : r.ts <= at}
  <1>1. /\ now \in Nat /\ HistoryAge \in Nat
        /\ samples \in SUBSET Measures /\ Archive \in SUBSET Measures
        /\ \A r : r.ts >= now - HistoryAge => (r \in samples <=> r \in Archive)
    BY ArchiveIs, SamplingAssumption DEF Stored, Remembered, Since
  <1>2. s \in before /\ \A r \in before : r.ts \in Nat /\ r.ts <= now
    BY ArchiveIs DEF Selected
  <1>3. PICK n \in before : \A r \in before : n.ts >= r.ts
    <2> HIDE DEF before
    <2> QED BY <1>1, <1>2, NewestExists
  <1>4. /\ n \in Archive /\ n.value # None /\ n.ts \in Nat /\ n.ts <= at
        /\ s.ts <= n.ts /\ s.ts \in Nat /\ n.ts >= now - HistoryAge
    BY <1>1, <1>2, <1>3 DEF Selected
  <1>5. \A r \in Archive : r.value # None /\ r.ts <= at => r = n \/ r.ts < n.ts
    <2> SUFFICES ASSUME NEW r \in Archive, r.value # None, r.ts <= at, r.ts >= n.ts
                 PROVE  r = n
      BY <1>1, <1>4 DEF Measures
    <2>1. r \in before
      BY DEF Selected
    <2>2. r.ts <= n.ts
      BY <1>3, <2>1
    <2>3. r.ts = n.ts
      BY <1>2, <1>4, <2>1, <2>2
    <2> QED BY <1>4, <2>3, ArchiveIs
  <1>6. \A r \in samples : r.value # None /\ r.ts <= at => r = n \/ r.ts < n.ts
    <2> SUFFICES ASSUME NEW r \in samples, r.value # None, r.ts <= at, ~(r.ts < n.ts)
                 PROVE  r = n
      OBVIOUS
    <2>1. r.ts >= now - HistoryAge
      <3>1. r.ts \in Nat
        BY <1>1 DEF Measures
      <3> QED BY <1>1, <1>4, <3>1
    <2> QED BY <1>1, <1>5, <2>1
  <1>7. n \in samples
    BY <1>1, <1>4
  <1>8. ValueAt(Archive, at) = n.value
    BY <1>1, <1>4, <1>5, ValueAtIs
  <1>9. ValueAt(samples, at) = n.value
    BY <1>1, <1>4, <1>6, <1>7, ValueAtIs
  <1> QED BY <1>3, <1>4, <1>8, <1>9

LEMMA AnswersAgree == Stored /\ Remembered => HistoryAnswersAsTimeseries
  <1> SUFFICES ASSUME Stored, Remembered, running, NEW back \in 0..HistoryAge
               PROVE  /\ Average(samples, now - back) = Average(Archive, now - back)
                      /\ Least(samples, now - back) = Least(Archive, now - back)
                      /\ (\E s \in Selected(Archive) :
                            now - HistoryAge <= s.ts /\ s.ts <= now - back)
                           => ValueAt(samples, now - back) = ValueAt(Archive, now - back)
    BY DEF HistoryAnswersAsTimeseries, Archive
  <1>1. HistoryAge \in Nat /\ now \in Nat
    BY SamplingAssumption DEF Stored
  <1>2. PICK at \in Int : at = now - back
    BY <1>1
  <1>3. PICK c \in Int : c = now - HistoryAge
    BY <1>1
  <1>4. at >= c
    BY <1>1, <1>2, <1>3
  <1>5. /\ samples \in SUBSET Measures /\ Archive \in SUBSET Measures
        /\ Since(samples, c) = Since(Archive, c)
    BY <1>3, ArchiveIs DEF Remembered
  <1>6. Since(Selected(samples), at) = Since(Selected(Archive), at)
    BY <1>4, <1>5, SinceLater
  <1>7. Average(samples, at) = Average(Archive, at) /\ Least(samples, at) = Least(Archive, at)
    BY <1>6 DEF Average, Least
  <1>8. ASSUME NEW s \in Selected(Archive), now - HistoryAge <= s.ts, s.ts <= at
        PROVE  ValueAt(samples, at) = ValueAt(Archive, at)
    BY <1>8, LastBefore
  <1> QED BY <1>2, <1>7, <1>8

(* Since the occupation last changed, every sample says what it is; and a  *)
(* zone with such a sample from before the window of the trend has been    *)
(* found to be stable.                                                     *)
StoodStill ==
  \E s \in Figures :
    /\ changed <= s.ts /\ patched - HistoryAge <= s.ts
    /\ s.ts <= patched - TrendWindow /\ s.value = occupied

Still ==
  /\ changed \in Nat /\ changed <= now
  /\ patched # Never => patched \in Nat /\ patched <= now
  /\ \A s \in Figures : s.ts > changed => s.value = occupied
  /\ patched # Never /\ StoodStill => trend = "STABLE"

(* Nothing is different from a sample that says the same.                  *)
LEMMA NoDifferenceIsStable ==
  ASSUME NEW value \in Nat PROVE DetermineTrend(value - value, TrendThreshold) = "STABLE"
  <1>1. value - value = 0 /\ TrendThreshold \in Nat /\ ~(0 >= TrendThreshold)
        /\ ~(0 <= -TrendThreshold)
    BY SamplingAssumption
  <1> QED BY <1>1 DEF DetermineTrend

(* The trend that sample() writes for a zone that stands still.            *)
LEMMA LooksStable ==
  ASSUME Stored, Remembered, Still, running, NEW s \in Figures,
         changed <= s.ts, now - HistoryAge <= s.ts, s.ts <= now - TrendWindow,
         s.value = occupied
  PROVE  TrendAt(occupied, occupied, now) = "STABLE"
  <1>1. /\ now \in Nat /\ occupied \in Nat /\ TrendWindow \in Nat /\ changed \in Nat
        /\ Archive \subseteq Measures
    BY ArchiveIs, SamplingAssumption DEF Stored, Still
  <1>2. Figures = Selected(Archive)
    BY DEF Figures, Archive
  <1>3. PICK at \in Int : at = now - TrendWindow
    BY <1>1
  <1>4. PICK n \in Selected(Archive) :
          s.ts <= n.ts /\ n.ts <= at /\ ValueAt(samples, at) = n.value
    BY <1>2, <1>3, LastBefore
  <1>5. n.value = occupied
    <2>1. s \in Archive /\ n \in Archive /\ s.ts \in Nat /\ n.ts \in Nat
      BY <1>1, <1>2, <1>4 DEF Selected, Measures
    <2>2. CASE n.ts = s.ts
      BY <2>1, <2>2, ArchiveIs
    <2>3. CASE n.ts # s.ts
      <3>1. n.ts > changed
        BY <1>1, <1>4, <2>1, <2>3
      <3> QED BY <1>2, <3>1 DEF Still
    <2> QED BY <2>2, <2>3
  <1>6. ValueAt(samples, now - TrendWindow) = occupied /\ occupied # None
    BY <1>1, <1>3, <1>4, <1>5 DEF None
  <1>7. TrendAt(occupied, occupied, now) = DetermineTrend(occupied - occupied, TrendThreshold)
    BY <1>6 DEF TrendAt
  <1> QED BY <1>1, <1>7, NoDifferenceIsStable

LEMMA SampleStaysStill == Stored /\ Remembered /\ Still /\ Sample => Still'
  <1> SUFFICES ASSUME Stored, Remembered, Still, Sample PROVE Still'
    OBVIOUS
  <1>1. running /\ UNCHANGED <<now, present, occupied, changed>>
    BY DEF Sample
  <1>2. Archive' \subseteq Archive \cup {Taken}
    BY SampleArchives
  <1>3. Figures = Selected(Archive) /\ Figures' = Selected(Archive')
    BY DEF Figures, Archive
  <1>4. now \in Nat /\ occupied \in Nat /\ changed \in Nat /\ changed <= now
    BY DEF Stored, Still
  <1>5. CASE present
    <2>1. trend' = TrendAt(occupied, occupied, now) /\ patched' = now
      BY <1>5 DEF Sample
    <2>2. Taken.ts = now /\ Taken.value = occupied
      BY <1>5 DEF Taken
    <2>3. \A s \in Figures' : s.ts > changed' => s.value = occupied'
      BY <1>1, <1>2, <1>3, <2>2 DEF Still, Selected
    <2>4. ASSUME StoodStill' PROVE trend' = "STABLE"
      <3>1. PICK s \in Figures' :
              /\ changed <= s.ts /\ now - HistoryAge <= s.ts
              /\ s.ts <= now - TrendWindow /\ s.value = occupied
        BY <1>1, <2>1, <2>4 DEF StoodStill
      <3>2. TrendWindow \in Nat \ {0}
        BY SamplingAssumption
      <3>3. s # Taken
        BY <1>4, <2>2, <3>1, <3>2
      <3>4. s \in Figures
        BY <1>2, <1>3, <3>3 DEF Selected
      <3>5. TrendAt(occupied, occupied, now) = "STABLE"
        BY <1>1, <3>1, <3>4, LooksStable
      <3> QED BY <2>1, <3>5
    <2> QED BY <1>1, <1>4, <2>1, <2>3, <2>4 DEF Still
  <1>6. CASE ~present
    <2>1. trend' = trend /\ patched' = patched
      BY <1>6 DEF Sample
    <2>2. Taken.value = None
      BY <1>6 DEF Taken
    <2>3. Figures' \subseteq Figures
      BY <1>2, <1>3, <2>2 DEF Selected
    <2>4. ASSUME StoodStill' PROVE StoodStill
      BY <1>1, <2>1, <2>3, <2>4 DEF StoodStill
    <2> QED BY <1>1, <2>1, <2>3, <2>4 DEF Still
  <1> QED BY <1>5, <1>6

LEMMA StillInductive == Stored /\ Remembered /\ Still /\ [SamplingNext]_samplingVars => Still'
  <1> SUFFICES ASSUME Stored, Remembered, Still, [SamplingNext]_samplingVars PROVE Still'
    OBVIOUS
  <1>0. /\ now \in Nat
        /\ \A s \in Figures : s.ts \in Nat /\ s.ts <= now
    BY ArchiveIs DEF Stored, Figures, Archive, Selected
  <1>1. CASE Sample
    BY <1>1, SampleStaysStill
  <1>2. timeseries' = timeseries => Figures' = Figures
    BY DEF Figures, MetricsHistory, Since, Selected
  <1>3. CASE Tick \/ Sense \/ Ignore \/ Stop \/ UNCHANGED samplingVars
    <2>1. UNCHANGED <<timeseries, changed, patched, occupied, trend>>
      BY <1>3 DEF Tick, Sense, Ignore, Stop, samplingVars, redisVars, historyVars
    <2>2. now' = now \/ now' = now + 1
      BY <1>3 DEF Tick, Sense, Ignore, Stop, samplingVars
    <2>3. StoodStill' = StoodStill
      BY <1>2, <2>1 DEF StoodStill
    <2> QED BY <1>0, <1>2, <2>1, <2>2, <2>3 DEF Still
  <1>4. CASE Process
    <2>1. /\ UNCHANGED <<now, timeseries>> /\ patched' = Never
          /\ occupied' = transit.count
          /\ changed' = IF transit.count = occupied THEN changed ELSE now
      BY <1>4 DEF Process
    <2>2. \A s \in Figures' : s.ts > changed' => s.value = occupied'
      BY <1>0, <1>2, <2>1 DEF Still
    <2> QED BY <1>0, <2>1, <2>2 DEF Still
  <1>5. CASE Start
    <2>1. UNCHANGED <<now, timeseries>>
      BY <1>5 DEF Start
    <2>2. CASE Configure
      <3>1. changed' = now /\ patched' = Never
        BY <2>2 DEF Configure
      <3>2. \A s \in Figures' : s.ts > changed' => s.value = occupied'
        BY <1>0, <1>2, <2>1, <3>1
      <3> QED BY <1>0, <2>1, <3>1, <3>2 DEF Still
    <2>3. CASE UNCHANGED <<occupied, trend, changed, patched>>
      <3>1. StoodStill' = StoodStill
        BY <1>2, <2>1, <2>3 DEF StoodStill
      <3> QED BY <1>2, <2>1, <2>3, <3>1 DEF Still
    <2> QED BY <1>5, <2>2, <2>3 DEF Start
  <1> QED BY <1>1, <1>3, <1>4, <1>5 DEF SamplingNext

(* The Processor knows when the first reading was generated, unless it has *)
(* been stopped since it processed it.                                     *)
Known ==
  /\ calibratedAt \in Nat \cup {Never}
  /\ calibration \in Nat \cup {Never} /\ calibration <= now
  /\ stops \subseteq Nat
  /\ ~initial /\ calibratedAt = Never => \E t \in stops : t >= calibration

LEMMA KnownInductive == Stored /\ Known /\ [SamplingNext]_samplingVars => Known'
  <1> SUFFICES ASSUME Stored, Known, [SamplingNext]_samplingVars PROVE Known'
    OBVIOUS
  <1>0. now \in Nat /\ Never \notin Nat /\ Never <= now
    BY DEF Stored, Never
  <1>1. CASE Tick
    BY <1>0, <1>1 DEF Tick, redisVars, memoryVars, historyVars, Known, Never
  <1>2. CASE Sense \/ Ignore \/ Sample \/ UNCHANGED samplingVars
    <2>1. UNCHANGED <<now, initial, calibratedAt, calibration, stops>>
      BY <1>2 DEF Sense, Ignore, Sample, samplingVars, redisVars, memoryVars, historyVars
    <2> QED BY <2>1 DEF Known
  <1>3. CASE Process
    <2>1. /\ calibratedAt' = IF initial THEN transit.at ELSE calibratedAt
          /\ calibration' = IF initial THEN now ELSE calibration
          /\ transit # NoEvent /\ UNCHANGED <<now, stops>>
      BY <1>3 DEF Process
    <2>2. transit.at \in Nat
      BY <2>1 DEF Stored
    <2>3. CASE initial
      BY <1>0, <2>1, <2>2, <2>3 DEF Known
    <2>4. CASE ~initial
      BY <2>1, <2>4 DEF Known
    <2> QED BY <2>3, <2>4
  <1>4. CASE Stop
    <2>1. /\ calibratedAt' = Never /\ stops' = stops \cup {now}
          /\ UNCHANGED <<now, calibration>>
      BY <1>4 DEF Stop
    <2>2. now >= calibration
      BY <1>0 DEF Known, Never
    <2> QED BY <1>0, <2>1, <2>2 DEF Known
  <1>5. CASE Start
    <2>1. UNCHANGED <<now, calibratedAt, stops>>
      BY <1>5 DEF Start
    <2>2. CASE Configure
      BY <1>0, <2>1, <2>2 DEF Configure, Known
    <2>3. CASE UNCHANGED <<initial, calibration>>
      BY <2>1, <2>3 DEF Known
    <2> QED BY <1>5, <2>2, <2>3 DEF Start
  <1> QED BY <1>1, <1>2, <1>3, <1>4, <1>5 DEF SamplingNext

(* What is reported as growth is growth over a sample inside the window,   *)
(* and that window begins after the calibration.                           *)
LEMMA IncreaseIs ==
  ASSUME Stored, Remembered, Known, running, Increase(occupied, now) > 0
  PROVE  /\ ~(calibratedAt > now - IncreaseWindow)
         /\ \E r \in Figures : /\ r.ts >= now - IncreaseWindow
                               /\ Increase(occupied, now) = occupied - r.value
  <1>1. /\ now \in Nat /\ occupied \in Nat /\ HistoryAge \in Nat
        /\ IncreaseWindow \in Nat /\ IncreaseWindow <= HistoryAge
        /\ samples \in SUBSET Measures /\ Archive \in SUBSET Measures
        /\ Since(samples, now - HistoryAge) = Since(Archive, now - HistoryAge)
    BY ArchiveIs, SamplingAssumption DEF Stored, Remembered
  <1>2. PICK since \in Int : since = now - IncreaseWindow
    BY <1>1
  <1>3. ~(None > 0)
    BY DEF None
  <1>4. /\ ~(calibratedAt > since) /\ Least(samples, since) # None
        /\ Increase(occupied, now) = occupied - Least(samples, since)
    BY <1>2, <1>3 DEF Increase
  <1> DEFINE picked == Since(Selected(samples), since)
             values == {s.value : s \in picked}
  <1>5. picked # {} /\ Least(samples, since) = Min(values)
    BY <1>4 DEF Least
  <1>6. values \in SUBSET Nat /\ values # {}
    BY <1>1, <1>5 DEF Since, Selected, Measures
  <1>7. Min(values) \in values
    <2> HIDE DEF values
    <2>1. PICK n \in values : \A m \in values : n <= m
      BY <1>6, SmallestExists
    <2> QED BY <2>1 DEF Min
  <1>8. PICK r \in picked : Min(values) = r.value
    BY <1>7
  <1>9. r \in Figures /\ r.ts >= since
    <2>1. since >= now - HistoryAge /\ now - HistoryAge \in Int
      BY <1>1, <1>2
    <2>2. picked = Since(Selected(Archive), since)
      BY <1>1, <2>1, SinceLater
    <2> QED BY <2>2 DEF Since, Figures, Archive
  <1> QED BY <1>2, <1>4, <1>5, <1>8, <1>9

LEMMA GrowthFollows == Stored /\ Remembered /\ Known => GrowthIsOverReadings
  <1> SUFFICES ASSUME Stored, Remembered, Known, running, ~initial,
                      Increase(occupied, now) > 0,
                      ~ \E t \in stops : t >= calibration,
                      ~(calibratedAt # Never /\ \E s \in Uncalibrated : s.ts >= calibratedAt)
               PROVE  \E r \in Figures \ Uncalibrated :
                        /\ r.ts >= now - IncreaseWindow
                        /\ Increase(occupied, now) = occupied - r.value
    BY DEF GrowthIsOverReadings
  <1>1. PICK r \in Figures : /\ r.ts >= now - IncreaseWindow
                             /\ Increase(occupied, now) = occupied - r.value
    BY IncreaseIs
  <1>2. ~(calibratedAt > now - IncreaseWindow)
    BY IncreaseIs
  <1>3. calibratedAt # Never /\ calibratedAt \in Nat
    BY DEF Known
  <1>4. now \in Nat /\ IncreaseWindow \in Nat /\ r.ts \in Nat
    BY ArchiveIs, SamplingAssumption DEF Stored, Figures, Archive, Selected
  <1>5. r.ts >= calibratedAt
    BY <1>1, <1>2, <1>3, <1>4
  <1>6. r \notin Uncalibrated
    BY <1>3, <1>5
  <1> QED BY <1>1, <1>6

PastInv == Stored /\ Remembered /\ Still /\ Known

LEMMA PastInductive == PastInv /\ [SamplingNext]_samplingVars => PastInv'
  BY StoredInductive, RememberedInductive, StillInductive, KnownInductive DEF PastInv

LEMMA InitPast == SamplingInit => PastInv
  <1> SUFFICES ASSUME SamplingInit PROVE PastInv
    OBVIOUS
  <1>1. now = 0 /\ occupied = 0 /\ initial /\ timeseries = {} /\ samples = {}
        /\ transit = NoEvent /\ changed = 0 /\ patched = Never /\ stops = {}
        /\ calibratedAt = Never /\ calibration = Never
    BY DEF SamplingInit
  <1>2. IsFiniteSet({})
    BY FS_EmptySet
  <1>3. Stored
    BY <1>1, <1>2 DEF Stored
  <1>4. Archive = {} /\ Figures = {}
    BY <1>1 DEF Archive, Figures, MetricsHistory, Since, Selected
  <1>5. Remembered
    BY <1>1, <1>4 DEF Remembered
  <1>6. Still
    BY <1>1, <1>4 DEF Still
  <1>7. Known
    BY <1>1 DEF Known, Never
  <1> QED BY <1>3, <1>5, <1>6, <1>7 DEF PastInv

(* What SampleHistory has in memory answers as parking:timeseries would,   *)
(* after any restarts and for a zone that comes and goes: MAXLEN, the      *)
(* cutoff of add() and loadSamples fit together.                           *)
THEOREM HistoryAnswersAsTimeseriesAlways == SamplingSpec => []HistoryAnswersAsTimeseries
  <1>1. PastInv => HistoryAnswersAsTimeseries
    BY AnswersAgree DEF PastInv
  <1> QED BY <1>1, InitPast, PastInductive, PTL DEF SamplingSpec

(* The sampler finds a zone STABLE that has stood still for the length of  *)
(* the trend, whatever its trend was when the last event was processed.    *)
THEOREM QuietZoneIsStableAlways == SamplingSpec => []QuietZoneIsStable
  <1>1. PastInv => QuietZoneIsStable
    BY DEF PastInv, Still, StoodStill, QuietZoneIsStable
  <1> QED BY <1>1, InitPast, PastInductive, PTL DEF SamplingSpec

(* unusualIncrease reports no growth over the zone as it was before its    *)
(* first reading, but for the two cases that calibratedAt misses.          *)
THEOREM GrowthIsOverReadingsAlways == SamplingSpec => []GrowthIsOverReadings
  <1>1. PastInv => GrowthIsOverReadings
    BY GrowthFollows DEF PastInv
  <1> QED BY <1>1, InitPast, PastInductive, PTL DEF SamplingSpec
===============================================================================
