----------------------------- MODULE PageProofs -------------------------------
(***************************************************************************)
(* Proofs about EventFeed, for any zones, limits and lengths: the feed is  *)
(* in order, the drawer is of the selected zone, and a zone's history is   *)
(* its newest events.                                                      *)
(*                                                                         *)
(* Proofs about ServiceStatus, in the second part, for any TTL of a        *)
(* heartbeat, any interval of pushStatus and any number of failures: the   *)
(* page and /api/health say in time what each service has been, and every  *)
(* step is one that FailureDetector allows.                                *)
(***************************************************************************)
EXTENDS EventFeed, ServiceStatus, FiniteSetTheorems, SequenceTheorems, TLAPS

StreamEntries == [kind : {"sensor", "derived", "system"}, zone : Zones \cup {NoZone}]
Events == [key : {"stream_id", "event_id"}, id : Nat]
Messages == Events \cup {Resync}
Requests ==
  [zone : Zones, scanned : Nat, from : Nat, end : Nat, out : Seq(Nat), done : BOOLEAN]

TypeInv ==
  /\ stream \in Seq(StreamEntries)
  /\ trimmed \in Nat /\ told \in Nat /\ processed \in Nat
  /\ owed \in Seq(Messages) /\ wire \in Seq(Messages)
  /\ connected \in BOOLEAN
  /\ buffer \in Seq(Events) /\ feed \in Seq(Events)
  /\ reloads \in [1..MaxReloads ->
                    {Idle, Asked} \cup [step : {"answered"}, events : Seq(Nat)]]
  /\ selected \in Zones \cup {NoZone} /\ rendered \in BOOLEAN
  /\ history \in Seq(Nat) /\ requests \subseteq Requests
  /\ top \in Nat /\ cut \in Nat /\ added \in Nat /\ behind \in BOOLEAN

Known(i) == 1 <= i /\ i <= Len(stream)

(* Redis trims no more than there is.                                      *)
StreamKept == trimmed <= Len(stream) /\ processed <= Len(stream)

Reading(i) == [key |-> "stream_id", id |-> i]
Derived(i) == [key |-> "event_id", id |-> i]

Has(s, i) == \E q \in 1..Len(s) : s[q] = Reading(i)

(* Messages of the events of a stream; sensor events in its order.         *)
Live(st, e) ==
  \/ e = Resync
  \/ /\ e.id \in 1..Len(st)
     /\ e.key = IF st[e.id].kind = "derived" THEN "event_id" ELSE "stream_id"
AllLive(st, s) == \A q \in 1..Len(s) : Live(st, s[q])
Ascending(S, s) ==
  \A i, j \in S, p, q \in 1..Len(s) :
    p < q /\ s[p] = Reading(i) /\ s[q] = Reading(j) => i < j
Before(S, s, t) == \A i, j \in S : Has(s, i) /\ Has(t, j) => i < j

Sensors == {i \in 1..Len(stream) : Sensor(i)}

(* What is on its way: in the buffer b, on the wire w, or owed (o), of the *)
(* events up to the last one processed (p).                                *)
Arrives(st, S, b, w, o, p) ==
  /\ AllLive(st, b) /\ AllLive(st, w) /\ AllLive(st, o)
  /\ Ascending(S, b) /\ Ascending(S, w) /\ Ascending(S, o)
  /\ Before(S, b, w) /\ Before(S, b, o) /\ Before(S, w, o)
  /\ \A i \in S : Has(b, i) \/ Has(w, i) \/ Has(o, i) => i <= p
Arrivals == Arrives(stream, Sensors, buffer, wire, owed, processed)

(* Sensor events that may still come in live.                              *)
Arriving(i) == i > processed \/ Has(owed, i) \/ Has(wire, i) \/ Has(buffer, i)
Pending == {i \in Sensors : Arriving(i)}

(* An answer: the stream from some entry back.                             *)
Snapshot(length, events) ==
  \A k \in 1..Len(events) :
    1 <= events[k] /\ events[k] <= length /\ events[k] = events[1] - k + 1

Snapshots ==
  \A r \in 1..MaxReloads :
    reloads[r].step = "answered" => Snapshot(Len(stream), reloads[r].events)

FeedKept ==
  /\ \A p \in 1..Len(feed) :
       Known(feed[p].id) /\ (feed[p].key = "event_id" => ~Sensor(feed[p].id))
  /\ \A p, q \in 1..Len(feed) :
       Sensor(feed[p].id) /\ feed[p].id = feed[q].id => p = q

(* Below what has come in since, the feed is the last snapshot, as far as  *)
(* it has room for it.                                                     *)
FeedShape ==
  \A i \in Nat :
    0 < i /\ cut <= i /\ i <= top /\ added + top - i < MaxFeed =>
      added + top - i + 1 \in 1..Len(feed) /\ feed[added + top - i + 1] = Reading(i)

(* Until an event of the snapshot comes in again: the feed is in order,    *)
(* and what it has is of the snapshot or older than what is to come.       *)
FeedOrdered ==
  ~behind =>
    /\ \A p, q \in 1..Len(feed) :
         p < q /\ Sensor(feed[p].id) /\ Sensor(feed[q].id) => feed[p].id > feed[q].id
    /\ \A p \in 1..Len(feed) :
         Sensor(feed[p].id) => feed[p].id <= top \/ \A j \in Pending : feed[p].id < j

(* A sequence of places of the stream: of a zone, newest first.            *)
Descending(s) == \A p, q \in 1..Len(s) : p < q => s[p] > s[q]
In(s, i) == \E p \in 1..Len(s) : s[p] = i
Of(s, zone) == \A p \in 1..Len(s) : Known(s[p]) /\ stream[s[p]].zone = zone

(* Nothing of the zone is missing from n up, unless newer ones fill it.    *)
Complete(r, n) ==
  \A i \in n..r.from :
    stream[i].zone = r.zone =>
      \/ In(r.out, i)
      \/ Len(r.out) = HistoryLimit /\ \A p \in 1..Len(r.out) : r.out[p] > i

Reads(r) ==
  /\ Descending(r.out) /\ Of(r.out, r.zone)
  /\ r.from <= Len(stream)
  /\ r.scanned = 0 => r.out = <<>> /\ ~r.done
  /\ r.scanned > 0 /\ ~r.done =>
       /\ r.end = r.from - r.scanned
       /\ Len(r.out) < HistoryLimit
       /\ \A p \in 1..Len(r.out) : r.out[p] > r.end
       /\ Complete(r, r.end + 1)
  /\ r.done => \A n \in Nat : n > trimmed /\ n > r.from - ScanLimit => Complete(r, n)

DrawerKept ==
  /\ \A r \in requests : Reads(r) /\ (rendered => r.zone = selected)
  /\ Descending(history)
  /\ \A p \in 1..Len(history) : Known(history[p])
  /\ rendered /\ selected # NoZone => Of(history, selected)

-------------------------------------------------------------------------------
(* Operators of the model.                                                 *)

LEMMA LimitsAre ==
  /\ MaxFeed \in Nat /\ SnapshotLimit \in Nat /\ HistoryLimit \in Nat
  /\ DrawerLimit \in Nat /\ BatchSize \in Nat /\ ScanLimit \in Nat
  /\ MaxFeed > 0 /\ SnapshotLimit > 0 /\ HistoryLimit > 0 /\ DrawerLimit > 0 /\ BatchSize > 0
  /\ HistoryLimit <= DrawerLimit /\ StreamMaxLength \in Nat /\ MaxDerived \in Nat
  <1>1. ScanLimit \in Nat
    <2>1. PICK n \in 1..ScanLimit : ScanLimit = n * BatchSize
      BY EventFeedAssumption DEF EventFeedAssumption
    <2>2. BatchSize \in Nat /\ n \in Int
      BY EventFeedAssumption DEF EventFeedAssumption, Positive
    <2>3. n * BatchSize \in Int
      BY <2>2
    <2>4. 1 <= n /\ n <= ScanLimit /\ ScanLimit \in Int
      BY <2>1, <2>3
    <2> QED BY <2>2, <2>4
  <1> QED BY <1>1, EventFeedAssumption DEF EventFeedAssumption, Positive

LEMMA PlacesAre ==
  ASSUME NEW T, NEW s \in Seq(T), NEW S
  PROVE  /\ IsFiniteSet(Places(s, S)) /\ Cardinality(Places(s, S)) \in Nat
         /\ \A k \in Places(s, S) : k \in 1..Len(s) /\ k \in Nat /\ s[k] \in S /\ s[k] \in T
  <1>1. Len(s) \in Nat /\ \A k \in 1..Len(s) : s[k] \in T
    OBVIOUS
  <1>2. IsFiniteSet(1..Len(s)) /\ Places(s, S) \in SUBSET (1..Len(s))
    BY <1>1, FS_Interval DEF Places
  <1>3. IsFiniteSet(Places(s, S))
    BY <1>2, FS_Subset, Zenon
  <1> QED BY <1>1, <1>3, FS_CardinalityType DEF Places

(* The rank of a place.                                                    *)
Rank(P, k) == Cardinality({j \in P : j <= k})

LEMMA RankIs ==
  ASSUME NEW P, IsFiniteSet(P), P \subseteq Nat
  PROVE  /\ \A k \in P : Rank(P, k) \in 1..Cardinality(P)
         /\ \A j, k \in P : j < k => Rank(P, j) < Rank(P, k)
         /\ \A j, k \in P : j <= k => Rank(P, j) <= Rank(P, k)
  <1>1. \A Q \in SUBSET P : IsFiniteSet(Q) /\ Cardinality(Q) \in Nat
          /\ Cardinality(Q) <= Cardinality(P)
    BY FS_Subset, FS_CardinalityType
  <1>2. ASSUME NEW k \in P PROVE Rank(P, k) \in 1..Cardinality(P)
    <2> DEFINE Q == {j \in P : j <= k}
    <2>1. Q \in SUBSET P /\ k \in Q
      OBVIOUS
    <2>2. Cardinality(Q) \in Nat /\ Cardinality(Q) <= Cardinality(P) /\ IsFiniteSet(Q)
      BY <1>1, <2>1
    <2>3. Cardinality(Q) # 0
      BY <2>1, <2>2, FS_EmptySet, Zenon
    <2>4. Cardinality(P) \in Nat
      BY FS_CardinalityType
    <2>5. Rank(P, k) = Cardinality(Q)
      BY DEF Rank
    <2> HIDE DEF Q
    <2> QED BY <2>2, <2>3, <2>4, <2>5
  <1>3. ASSUME NEW j \in P, NEW k \in P, j <= k PROVE Rank(P, j) <= Rank(P, k)
    <2> DEFINE Q == {i \in P : i <= j}
    <2> DEFINE R == {i \in P : i <= k}
    <2>1. Q \in SUBSET R /\ R \in SUBSET P
      <3>1. \A i \in P : i \in Nat
        OBVIOUS
      <3>2. \A i \in P : i <= j => i <= k
        BY <3>1, <1>3
      <3> QED BY <3>2
    <2>2. IsFiniteSet(R)
      BY <1>1, <2>1
    <2>3. Cardinality(Q) <= Cardinality(R)
      <3> HIDE DEF Q, R
      <3> QED BY <2>1, <2>2, FS_Subset
    <2> QED BY <2>3 DEF Rank
  <1>4. ASSUME NEW j \in P, NEW k \in P, j < k PROVE Rank(P, j) < Rank(P, k)
    <2> DEFINE Q == {i \in P : i <= j}
    <2> DEFINE R == {i \in P : i <= k}
    <2>0. \A i \in P : i \in Nat
      OBVIOUS
    <2>1. Q \in SUBSET R /\ R \in SUBSET P /\ Q # R
      <3>1. k \in R /\ k \notin Q
        BY <2>0, <1>4
      <3>2. \A i \in P : i <= j => i <= k
        BY <2>0, <1>4
      <3>3. Q \in SUBSET R
        BY <3>2
      <3> QED BY <3>1, <3>3
    <2>2. IsFiniteSet(R)
      BY <1>1, <2>1
    <2>3. /\ Cardinality(Q) <= Cardinality(R) /\ Cardinality(Q) # Cardinality(R)
          /\ Cardinality(Q) \in Nat /\ Cardinality(R) \in Nat
      <3> HIDE DEF Q, R
      <3>1. IsFiniteSet(Q) /\ Cardinality(Q) <= Cardinality(R)
              /\ (Cardinality(R) = Cardinality(Q) => R = Q)
        BY <2>1, <2>2, FS_Subset, Zenon
      <3> QED BY <2>1, <2>2, <3>1, FS_CardinalityType
    <2>4. Cardinality(Q) < Cardinality(R)
      <3> HIDE DEF Q, R
      <3> QED BY <2>3
    <2> QED BY <2>4 DEF Rank
  <1> QED BY <1>2, <1>3, <1>4

LEMMA RankOnto ==
  ASSUME NEW P, IsFiniteSet(P), P \subseteq Nat, NEW n \in 1..Cardinality(P)
  PROVE  \E k \in P : Rank(P, k) = n
  <1> DEFINE R == 1..Cardinality(P)
  <1> DEFINE f == [k \in P |-> Rank(P, k)]
  <1>0. Cardinality(P) \in Nat
    BY FS_CardinalityType
  <1>1. IsFiniteSet(R) /\ Cardinality(R) = Cardinality(P)
    BY <1>0, FS_Interval
  <1>2. f \in Injection(P, R)
    <2>1. f \in [P -> R]
      BY RankIs
    <2>2. ASSUME NEW j \in P, NEW k \in P, f[j] = f[k] PROVE j = k
      <3>1. /\ Rank(P, j) = Rank(P, k) /\ Rank(P, j) \in 1..Cardinality(P)
            /\ (j < k => Rank(P, j) < Rank(P, k)) /\ (k < j => Rank(P, k) < Rank(P, j))
            /\ j \in Nat /\ k \in Nat
        BY <2>2, RankIs
      <3> QED BY <3>1, <1>0
    <2> QED BY <2>1, <2>2, Zenon DEF Injection, IsInjective
  <1>3. f \in Surjection(P, R)
    <2> HIDE DEF f, R
    <2> QED BY <1>1, <1>2, FS_Injection, Zenon
  <1>4. \A m \in R : \E k \in P : f[k] = m
    <2> HIDE DEF f
    <2> QED BY <1>3, Zenon DEF Surjection
  <1> QED BY <1>4

(* The places at which a filter finds what it keeps, one after the other.  *)
Steps(g, s, S, t) ==
  /\ \A n \in 1..Len(t) : g[n] \in Places(s, S) /\ t[n] = s[g[n]]
  /\ \A m, n \in 1..Len(t) : m < n => g[m] < g[n]
  /\ \A k \in Places(s, S) : \E n \in 1..Len(t) : g[n] = k

LEMMA KeptIs ==
  ASSUME NEW T, NEW s \in Seq(T), NEW S
  PROVE  /\ Kept(s, S) \in Seq(T) /\ Len(Kept(s, S)) = Cardinality(Places(s, S))
         /\ \E g : Steps(g, s, S, Kept(s, S))
  <1> DEFINE P == Places(s, S)
  <1> DEFINE m == Cardinality(P)
  <1> DEFINE g == [n \in 1..m |-> Place(s, S, n)]
  <1>1. IsFiniteSet(P) /\ m \in Nat /\ P \subseteq Nat
    BY PlacesAre
  <1>2. \A n \in 1..m : g[n] \in P /\ Rank(P, g[n]) = n
    <2> SUFFICES ASSUME NEW n \in 1..m
                 PROVE  Place(s, S, n) \in P /\ Rank(P, Place(s, S, n)) = n
      OBVIOUS
    <2>1. \E k \in P : Rank(P, k) = n
      BY <1>1, RankOnto
    <2>2. Place(s, S, n) = CHOOSE k \in P : Rank(P, k) = n
      BY DEF Place, Rank
    <2> HIDE DEF P
    <2> QED BY <2>1, <2>2
  <1>3. Kept(s, S) = [n \in 1..m |-> s[g[n]]]
    BY DEF Kept
  <1>4. \A n \in 1..m : s[g[n]] \in T
    BY <1>2, PlacesAre
  <1>5. Kept(s, S) \in Seq(T) /\ Len(Kept(s, S)) = m /\ \A n \in 1..m : Kept(s, S)[n] = s[g[n]]
    <2> HIDE DEF g, P
    <2> QED BY <1>1, <1>3, <1>4
  <1>6. ASSUME NEW i \in 1..m, NEW n \in 1..m, i < n PROVE g[i] < g[n]
    <2>1. /\ g[i] \in P /\ g[n] \in P /\ Rank(P, g[i]) = i /\ Rank(P, g[n]) = n
          /\ g[i] \in Nat /\ g[n] \in Nat
      BY <1>1, <1>2
    <2>2. g[n] <= g[i] => n <= i
      <3> HIDE DEF g, P
      <3>1. \A j, k \in P : j <= k => Rank(P, j) <= Rank(P, k)
        BY <1>1, RankIs
      <3>2. g[n] <= g[i] => Rank(P, g[n]) <= Rank(P, g[i])
        BY <2>1, <3>1
      <3> QED BY <2>1, <3>2
    <2> HIDE DEF g, P, m
    <2> QED BY <1>1, <1>6, <2>1, <2>2
  <1>7. ASSUME NEW k \in P PROVE \E n \in 1..m : g[n] = k
    <2>1. Rank(P, k) \in 1..m
      BY <1>1, RankIs
    <2> DEFINE n == Rank(P, k)
    <2>2. g[n] \in P /\ Rank(P, g[n]) = n
      BY <1>2, <2>1
    <2>3. g[n] \in Nat /\ k \in Nat /\ n \in Nat
      BY <1>1, <2>1, <2>2
    <2>4. (g[n] < k => Rank(P, g[n]) < Rank(P, k)) /\ (k < g[n] => Rank(P, k) < Rank(P, g[n]))
      BY <1>1, <2>2, RankIs
    <2>5. g[n] = k
      <3> HIDE DEF g, P
      <3> QED BY <2>2, <2>3, <2>4
    <2> QED BY <2>1, <2>5
  <1>8. Steps(g, s, S, Kept(s, S))
    <2> HIDE DEF g, m
    <2> QED BY <1>2, <1>5, <1>6, <1>7 DEF Steps
  <1> HIDE DEF g
  <1> QED BY <1>5, <1>8

(* What a filter returns, without its places.                              *)
Filtered(s, S, t) ==
  /\ \A n \in 1..Len(t) : \E k \in 1..Len(s) : s[k] \in S /\ t[n] = s[k]
  /\ \A k \in 1..Len(s) : s[k] \in S => \E n \in 1..Len(t) : t[n] = s[k]
  /\ \A m, n \in 1..Len(t) :
       m < n => \E j, k \in 1..Len(s) : /\ j < k /\ s[j] \in S /\ s[k] \in S
                                        /\ t[m] = s[j] /\ t[n] = s[k]

LEMMA KeptFiltered ==
  ASSUME NEW T, NEW s \in Seq(T), NEW S
  PROVE  Filtered(s, S, Kept(s, S)) /\ Kept(s, S) \in Seq(T)
  <1>1. PICK g : Steps(g, s, S, Kept(s, S))
    BY KeptIs
  <1> DEFINE t == Kept(s, S)
  <1>2. /\ \A n \in 1..Len(t) : g[n] \in Places(s, S) /\ t[n] = s[g[n]]
        /\ \A m, n \in 1..Len(t) : m < n => g[m] < g[n]
        /\ \A k \in Places(s, S) : \E n \in 1..Len(t) : g[n] = k
    BY <1>1 DEF Steps
  <1>3. \A k : k \in Places(s, S) <=> k \in 1..Len(s) /\ s[k] \in S
    BY DEF Places
  <1>4. t \in Seq(T)
    BY KeptIs
  <1> HIDE DEF t
  <1>5. /\ \A n \in 1..Len(t) : \E k \in 1..Len(s) : s[k] \in S /\ t[n] = s[k]
        /\ \A k \in 1..Len(s) : s[k] \in S => \E n \in 1..Len(t) : t[n] = s[k]
    BY <1>2, <1>3
  <1>6. \A m, n \in 1..Len(t) :
           m < n => \E j, k \in 1..Len(s) : /\ j < k /\ s[j] \in S /\ s[k] \in S
                                            /\ t[m] = s[j] /\ t[n] = s[k]
    BY <1>2, <1>3
  <1>7. Filtered(s, S, t)
    BY <1>5, <1>6 DEF Filtered
  <1> QED BY <1>4, <1>7 DEF t

LEMMA TakenIs ==
  ASSUME NEW T, NEW s \in Seq(T), NEW n \in Nat
  PROVE  /\ Taken(s, n) \in Seq(T)
         /\ Len(Taken(s, n)) = IF n < Len(s) THEN n ELSE Len(s)
         /\ \A k \in 1..Len(Taken(s, n)) : Taken(s, n)[k] = s[k]
  BY DEF Taken

LEMMA ReverseIs ==
  ASSUME NEW T, NEW s \in Seq(T)
  PROVE  /\ Reverse(s) \in Seq(T) /\ Len(Reverse(s)) = Len(s)
         /\ \A k \in 1..Len(s) : Reverse(s)[k] = s[Len(s) - k + 1]
  <1>1. Len(s) \in Nat /\ \A k \in 1..Len(s) : s[k] \in T
    OBVIOUS
  <1>2. \A k \in 1..Len(s) : Len(s) - k + 1 \in 1..Len(s)
    BY <1>1
  <1> QED BY <1>1, <1>2 DEF Reverse

LEMMA ConcatIs ==
  ASSUME NEW T, NEW s \in Seq(T), NEW t \in Seq(T)
  PROVE  /\ s \o t \in Seq(T) /\ Len(s \o t) = Len(s) + Len(t)
         /\ \A k \in 1..Len(s) : (s \o t)[k] = s[k]
         /\ \A k \in Len(s) + 1..Len(s) + Len(t) : (s \o t)[k] = t[k - Len(s)]
  OBVIOUS

LEMMA ToSetIs ==
  ASSUME NEW T, NEW s \in Seq(T)
  PROVE  \A m : m \in ToSet(s) <=> \E k \in 1..Len(s) : s[k] = m
  BY DEF ToSet

LEMMA NewestIs ==
  ASSUME NEW upto \in Nat, NEW n \in Nat, trimmed \in Nat
  PROVE  LET s == Newest(upto, n)
         IN  /\ s \in Seq(Nat) /\ Len(s) <= n
             /\ \A k \in 1..Len(s) : /\ s[k] = upto - k + 1
                                     /\ s[k] > trimmed /\ s[k] <= upto
             /\ Len(s) = n \/ Len(s) = upto - trimmed \/ (Len(s) = 0 /\ upto <= trimmed)
             /\ Len(s) = 0 => n = 0 \/ upto <= trimmed
  <1> DEFINE size == IF upto - trimmed < n THEN upto - trimmed ELSE n
  <1>1. CASE size <= 0
    <2>1. Newest(upto, n) = <<>>
      BY <1>1 DEF Newest
    <2> QED BY <1>1, <2>1
  <1>2. CASE size > 0
    <2>1. Newest(upto, n) = [k \in 1..size |-> upto - k + 1]
      BY <1>2 DEF Newest
    <2>2. size \in Nat /\ size <= n /\ size <= upto - trimmed
      BY <1>2
    <2>3. \A k \in 1..size : upto - k + 1 \in Nat /\ upto - k + 1 > trimmed /\ upto - k + 1 <= upto
      BY <2>2
    <2>4. Newest(upto, n) \in Seq(Nat) /\ Len(Newest(upto, n)) = size
      BY <2>1, <2>2, <2>3
    <2> QED BY <1>2, <2>1, <2>2, <2>3, <2>4
  <1> QED BY <1>1, <1>2

-------------------------------------------------------------------------------
(* Types.                                                                  *)

LEMMA EventsAre ==
  /\ \A i \in Nat : LiveKey(i) \in Events /\ Derived(i) \in Events /\ Reading(i) \in Events
  /\ \A i \in Nat : stream[i].kind # "derived" => LiveKey(i) = Reading(i)
  /\ Resync \in Messages /\ Events \subseteq Messages
  /\ Resync.key # "stream_id" /\ Resync.key # "event_id"
  /\ \A e \in Messages : e # Resync => e \in Events
  /\ \A e \in Events : e.key \in {"stream_id", "event_id"} /\ e.id \in Nat /\ e # Resync
  /\ \A i, j \in Nat : Reading(i) # Derived(j) /\ (Reading(i) = Reading(j) => i = j)
  /\ \A i \in Nat : /\ Reading(i).key = "stream_id" /\ Reading(i).id = i
                    /\ Derived(i).key = "event_id" /\ Derived(i).id = i
  /\ \A e \in Events : /\ e.key = "stream_id" => e = Reading(e.id)
                       /\ e.key = "event_id" => e = Derived(e.id)
  BY DEF Events, Messages, LiveKey, Derived, Reading, Resync

(* What Process adds to the stream and has to publish.                     *)
LEMMA ProcessIs ==
  ASSUME TypeInv, Process
  PROVE  \E i \in Nat, more \in Seq(StreamEntries), rest \in Seq(Messages) :
           /\ i \in 1..Len(stream) /\ i > processed /\ Sensor(i) /\ processed' = i
           /\ owed = <<>> /\ stream' = stream \o more /\ owed' = <<Reading(i)>> \o rest
           /\ Len(rest) = Len(more)
           /\ \A k \in 1..Len(more) : /\ more[k].kind = "derived"
                                      /\ rest[k] = Derived(Len(stream) + k)
  <1>1. /\ Len(stream) \in Nat /\ processed \in Nat /\ MaxDerived \in Nat
        /\ \A i \in 1..Len(stream) : stream[i] \in StreamEntries
    BY LimitsAre DEF TypeInv
  <1>2. PICK i \in processed + 1..Len(stream), n \in 0..MaxDerived :
          /\ Sensor(i) /\ processed' = i
          /\ stream' = stream \o [k \in 1..n |-> [kind |-> "derived", zone |-> stream[i].zone]]
          /\ owed' = <<LiveKey(i)>>
                     \o [k \in 1..n |-> [key |-> "event_id", id |-> Len(stream) + k]]
    BY DEF Process
  <1>3. i \in Nat /\ i \in 1..Len(stream) /\ i > processed /\ n \in Nat
    BY <1>1, <1>2
  <1>4. LiveKey(i) = Reading(i)
    <2>1. stream[i].kind # "derived"
      BY <1>2 DEF Sensor
    <2> QED BY <1>3, <2>1, EventsAre
  <1>5. PICK e \in StreamEntries : e = [kind |-> "derived", zone |-> stream[i].zone]
    BY <1>1, <1>3 DEF StreamEntries
  <1>6. PICK more \in Seq(StreamEntries) : more = [k \in 1..n |-> e]
    <2>1. PICK more : more = [k \in 1..n |-> e]
      OBVIOUS
    <2>2. e \in StreamEntries /\ more \in [1..n -> StreamEntries]
      BY <2>1
    <2> QED BY <1>3, <2>1, <2>2
  <1>7. Len(more) = n /\ \A k \in 1..n : more[k].kind = "derived"
    BY <1>3, <1>5, <1>6
  <1>8. PICK rest : rest = [k \in 1..n |-> Derived(Len(stream) + k)]
    OBVIOUS
  <1>9. rest \in Seq(Messages) /\ Len(rest) = n /\ \A k \in 1..n : rest[k] = Derived(Len(stream) + k)
    <2>1. \A k \in 1..n : Len(stream) + k \in Nat
      BY <1>1, <1>3
    <2>2. \A k \in 1..n : Derived(Len(stream) + k) \in Messages
      BY <2>1, EventsAre
    <2> QED BY <1>3, <1>8, <2>2
  <1>10. stream' = stream \o more
    BY <1>2, <1>5, <1>6
  <1>11. owed' = <<Reading(i)>> \o rest
    BY <1>2, <1>4, <1>8 DEF Derived
  <1>12. owed = <<>> /\ Sensor(i) /\ processed' = i
    BY <1>2 DEF Process
  <1> QED BY <1>3, <1>7, <1>9, <1>10, <1>11, <1>12

(* What CatchUp adds to the stream.                                        *)
LEMMA CatchUpIs ==
  ASSUME TypeInv, CatchUp
  PROVE  /\ \E more \in Seq(StreamEntries) : stream' = stream \o more
         /\ owed = <<>> /\ processed' = Len(stream) /\ owed' = <<Resync>>
         /\ UNCHANGED <<trimmed, told, connected, wire, storeVars, drawerVars>>
  <1> DEFINE missed == {i \in processed + 1..Len(stream) : Sensor(i)}
  <1>1. /\ owed = <<>> /\ processed' = Len(stream) /\ owed' = <<Resync>>
        /\ UNCHANGED <<trimmed, told, connected, wire, storeVars, drawerVars>>
    BY DEF CatchUp
  <1>2. PICK n \in 0..MaxDerived * Cardinality(missed) :
          \E sources \in [1..n -> missed] :
            stream' = stream \o
              [k \in 1..n |-> [kind |-> "derived", zone |-> stream[sources[k]].zone]]
    BY DEF CatchUp
  <1>3. PICK sources \in [1..n -> missed] :
          stream' = stream \o
            [k \in 1..n |-> [kind |-> "derived", zone |-> stream[sources[k]].zone]]
    BY <1>2
  <1> DEFINE more == [k \in 1..n |-> [kind |-> "derived", zone |-> stream[sources[k]].zone]]
  <1>4. more \in [1..n -> StreamEntries]
    <2>1. /\ Len(stream) \in Nat /\ processed \in Nat
          /\ \A i \in 1..Len(stream) : stream[i] \in StreamEntries
      BY DEF TypeInv
    <2>2. \A k \in 1..n : sources[k] \in 1..Len(stream)
      BY <2>1
    <2>3. \A e \in StreamEntries : [kind |-> "derived", zone |-> e.zone] \in StreamEntries
      BY DEF StreamEntries
    <2> QED BY <2>1, <2>2, <2>3
  <1>5. n \in Nat
    OBVIOUS
  <1>6. more \in Seq(StreamEntries)
    BY <1>4, <1>5
  <1> QED BY <1>1, <1>3, <1>6

(* What TellSystem puts on the wire, if anything.                          *)
LEMMA TellSystemIs ==
  ASSUME TypeInv, TellSystem
  PROVE  /\ stream' = stream /\ owed' = owed /\ processed' = processed /\ buffer' = buffer
         /\ \E i \in Nat : /\ i \in 1..Len(stream) /\ ~Sensor(i) /\ told' = i
                           /\ stream[i].kind # "derived" /\ Reading(i) \in Messages
                           /\ wire' = wire \/ wire' = wire \o <<Reading(i)>>
  <1>1. PICK i \in told + 1..Len(stream) :
          /\ System(i) /\ told' = i
          /\ wire' = wire \/ wire' = Append(wire, LiveKey(i))
    BY DEF TellSystem
  <1>2. Len(stream) \in Nat /\ told \in Nat /\ wire \in Seq(Messages)
    BY DEF TypeInv
  <1>3. i \in Nat /\ i \in 1..Len(stream)
    BY <1>1, <1>2
  <1>4. stream[i].kind # "derived" /\ ~Sensor(i)
    BY <1>1 DEF System, Sensor
  <1>5. LiveKey(i) = Reading(i) /\ Reading(i) \in Messages
    BY <1>3, <1>4, EventsAre
  <1>6. Append(wire, Reading(i)) = wire \o <<Reading(i)>>
    BY <1>2, <1>5
  <1>7. stream' = stream /\ owed' = owed /\ processed' = processed /\ buffer' = buffer
    BY DEF TellSystem, storeVars
  <1> QED BY <1>1, <1>3, <1>4, <1>5, <1>6, <1>7

LEMMA StreamTypes ==
  TypeInv /\ (Sense \/ AddSystem \/ TellSystem \/ Process \/ CatchUp \/ Announce \/ Trim)
    => TypeInv'
  <1> SUFFICES ASSUME TypeInv,
                      Sense \/ AddSystem \/ TellSystem \/ Process \/ CatchUp \/ Announce \/ Trim
               PROVE  TypeInv'
    OBVIOUS
  <1>0. /\ Len(stream) \in Nat /\ stream \in Seq(StreamEntries) /\ wire \in Seq(Messages)
        /\ owed \in Seq(Messages)
    BY DEF TypeInv
  <1>1. CASE Sense
    <2>1. PICK z \in Zones : stream' = Append(stream, [kind |-> "sensor", zone |-> z])
      BY <1>1 DEF Sense
    <2>2. [kind |-> "sensor", zone |-> z] \in StreamEntries
      BY DEF StreamEntries
    <2>3. stream' \in Seq(StreamEntries)
      BY <1>0, <2>1, <2>2
    <2> QED BY <1>1, <2>3 DEF Sense, storeVars, pastVars, drawerVars, TypeInv
  <1>2. CASE AddSystem
    <2>1. stream' = Append(stream, [kind |-> "system", zone |-> NoZone])
      BY <1>2 DEF AddSystem
    <2>2. [kind |-> "system", zone |-> NoZone] \in StreamEntries
      BY DEF StreamEntries
    <2>3. stream' \in Seq(StreamEntries)
      BY <1>0, <2>1, <2>2
    <2> QED BY <1>2, <2>3 DEF AddSystem, storeVars, pastVars, drawerVars, TypeInv
  <1>3. CASE TellSystem
    <2>1. told' \in Nat /\ wire' \in Seq(Messages)
      <3>1. PICK i \in Nat : /\ told' = i /\ Reading(i) \in Messages
                             /\ wire' = wire \/ wire' = wire \o <<Reading(i)>>
        BY <1>3, TellSystemIs
      <3>2. \A e \in Messages : wire \o <<e>> \in Seq(Messages)
        BY <1>0
      <3> QED BY <1>0, <3>1, <3>2
    <2> QED BY <1>3, <2>1 DEF TellSystem, storeVars, pastVars, drawerVars, TypeInv
  <1>4. CASE Process
    <2>1. PICK i \in Nat, more \in Seq(StreamEntries), rest \in Seq(Messages) :
            /\ processed' = i /\ stream' = stream \o more /\ owed' = <<Reading(i)>> \o rest
      BY <1>4, ProcessIs
    <2>2. stream' \in Seq(StreamEntries)
      BY <1>0, <2>1, ConcatIs
    <2>3. owed' \in Seq(Messages)
      <3>1. Reading(i) \in Messages
        BY EventsAre
      <3>2. <<Reading(i)>> \in Seq(Messages)
        BY <3>1
      <3> QED BY <2>1, <3>2, ConcatIs
    <2> QED BY <1>4, <2>1, <2>2, <2>3 DEF Process, storeVars, pastVars, drawerVars, TypeInv
  <1>5. CASE CatchUp
    <2>1. Resync \in Messages
      BY EventsAre
    <2>2. owed' \in Seq(Messages) /\ processed' \in Nat
      <3>1. owed' = <<Resync>> /\ processed' = Len(stream)
        BY <1>5, CatchUpIs
      <3>2. PICK m \in Messages : m = Resync
        BY <2>1
      <3>3. <<m>> \in Seq(Messages)
        OBVIOUS
      <3> QED BY <1>0, <3>1, <3>2, <3>3
    <2>3. stream' \in Seq(StreamEntries)
      <3>1. PICK more \in Seq(StreamEntries) : stream' = stream \o more
        BY <1>5, CatchUpIs
      <3> QED BY <1>0, <3>1, ConcatIs
    <2>4. UNCHANGED <<trimmed, told, connected, wire, storeVars, drawerVars>>
      BY <1>5, CatchUpIs
    <2> QED BY <2>2, <2>3, <2>4 DEF storeVars, pastVars, drawerVars, TypeInv
  <1>6. CASE Announce
    <2>1. wire' \in Seq(Messages) /\ owed' \in Seq(Messages)
      <3>1. wire \o owed \in Seq(Messages) /\ <<>> \in Seq(Messages)
        BY <1>0, ConcatIs
      <3>2. owed' = <<>> /\ (wire' = wire \/ wire' = wire \o owed)
        BY <1>6 DEF Announce
      <3> QED BY <1>0, <3>1, <3>2
    <2> QED BY <1>6, <2>1 DEF Announce, storeVars, pastVars, drawerVars, TypeInv
  <1>7. CASE Trim
    BY <1>7 DEF Trim, storeVars, pastVars, drawerVars, TypeInv
  <1> QED BY <1>1, <1>2, <1>3, <1>4, <1>5, <1>6, <1>7

LEMMA FlushIs ==
  ASSUME TypeInv, Flush
  PROVE  LET fresh == Kept(buffer, ToSet(buffer) \ ToSet(feed))
             all == Reverse(fresh) \o feed
         IN  /\ fresh \in Seq(Events) /\ Reverse(fresh) \in Seq(Events)
             /\ all \in Seq(Events) /\ feed' = Taken(all, MaxFeed)
             /\ feed' \in Seq(Events)
             /\ behind' \in BOOLEAN
             /\ behind' = (behind \/ \E e \in ToSet(fresh) : Sensor(e.id) /\ Outside(e.id))
             /\ added' = added + Len(fresh) /\ added' \in Nat
  <1> DEFINE fresh == Kept(buffer, ToSet(buffer) \ ToSet(feed))
  <1> DEFINE all == Reverse(fresh) \o feed
  <1>1. fresh \in Seq(Events)
    BY KeptIs DEF TypeInv
  <1>2. Reverse(fresh) \in Seq(Events)
    <2> HIDE DEF fresh
    <2> QED BY <1>1, ReverseIs
  <1>3. all \in Seq(Events)
    <2> HIDE DEF fresh
    <2> QED BY <1>2, ConcatIs DEF TypeInv
  <1>4. /\ feed' = Taken(all, MaxFeed) /\ added' = added + Len(fresh)
        /\ behind' = (behind \/ \E e \in ToSet(fresh) : Sensor(e.id) /\ Outside(e.id))
    BY DEF Flush
  <1>5. feed' \in Seq(Events)
    <2> HIDE DEF all
    <2> QED BY <1>3, <1>4, TakenIs, LimitsAre
  <1>6. behind' \in BOOLEAN
    <2>1. behind \in BOOLEAN
      BY DEF TypeInv
    <2> HIDE DEF fresh
    <2> QED BY <2>1, <1>4, Zenon
  <1>7. added' \in Nat
    <2>1. added \in Nat
      BY DEF TypeInv
    <2> HIDE DEF fresh
    <2>2. Len(fresh) \in Nat
      BY <1>1
    <2> QED BY <2>1, <2>2, <1>4
  <1> QED BY <1>1, <1>2, <1>3, <1>4, <1>5, <1>6, <1>7

LEMMA StoreTypes ==
  TypeInv /\ (OnConnect \/ OnDisconnect \/ OnEvent \/ OnResync \/ Flush \/ Answer \/ Hydrate)
    => TypeInv'
  <1> SUFFICES ASSUME TypeInv,
                      OnConnect \/ OnDisconnect \/ OnEvent \/ OnResync \/ Flush \/ Answer \/ Hydrate
               PROVE  TypeInv'
    OBVIOUS
  <1> DEFINE States == {Idle, Asked} \cup [step : {"answered"}, events : Seq(Nat)]
  <1>0. /\ Len(stream) \in Nat /\ trimmed \in Nat /\ processed \in Nat
        /\ reloads \in [1..MaxReloads -> States]
    BY DEF TypeInv
  <1>1. StartReload => reloads' \in [1..MaxReloads -> States]
    <2> SUFFICES ASSUME StartReload PROVE reloads' \in [1..MaxReloads -> States]
      OBVIOUS
    <2>1. PICK r \in 1..MaxReloads : reloads' = [reloads EXCEPT ![r] = Asked]
      BY DEF StartReload
    <2>2. Asked \in States
      OBVIOUS
    <2> HIDE DEF States
    <2> QED BY <1>0, <2>1, <2>2
  <1>2. CASE OnConnect
    <2>1. connected' = TRUE
      BY <1>2 DEF OnConnect
    <2> QED BY <1>1, <1>2, <2>1 DEF OnConnect, TypeInv, drawerVars, redisVars, pastVars
  <1>3. CASE OnDisconnect
    <2>1. connected' \in BOOLEAN /\ wire' \in Seq(Messages)
      <3>1. connected' = FALSE /\ wire' = <<>>
        BY <1>3 DEF OnDisconnect
      <3>2. <<>> \in Seq(Messages)
        OBVIOUS
      <3>3. FALSE \in BOOLEAN
        OBVIOUS
      <3> QED BY <3>1, <3>2, <3>3, Zenon
    <2>2. UNCHANGED <<redisVars, storeVars, drawerVars>>
      BY <1>3 DEF OnDisconnect
    <2> QED BY <2>1, <2>2 DEF TypeInv, storeVars, drawerVars, redisVars, pastVars
  <1>4. CASE OnEvent
    <2>1. wire # <<>> /\ wire \in Seq(Messages) /\ buffer \in Seq(Events)
          /\ Head(wire) # Resync /\ buffer' = Append(buffer, Head(wire)) /\ wire' = Tail(wire)
      BY <1>4 DEF OnEvent, TypeInv
    <2>2. Head(wire) \in Events
      <3>1. Head(wire) \in Messages
        BY <2>1
      <3> QED BY <2>1, <3>1, EventsAre
    <2>3. buffer' \in Seq(Events) /\ wire' \in Seq(Messages)
      BY <2>1, <2>2
    <2> QED BY <1>4, <2>3 DEF OnEvent, TypeInv, drawerVars, redisVars, pastVars
  <1>5. CASE OnResync
    <2>1. wire # <<>> /\ wire \in Seq(Messages) /\ wire' = Tail(wire)
      BY <1>5 DEF OnResync, TypeInv
    <2>2. wire' \in Seq(Messages)
      BY <2>1
    <2> QED BY <1>1, <1>5, <2>2 DEF OnResync, TypeInv, drawerVars, redisVars, pastVars
  <1>6. CASE Flush
    <2>1. feed' \in Seq(Events) /\ behind' \in BOOLEAN /\ added' \in Nat
      BY <1>6, FlushIs
    <2>2. buffer' = <<>>
      BY <1>6 DEF Flush
    <2>3. buffer' \in Seq(Events)
      BY <2>2
    <2> QED BY <1>6, <2>1, <2>3 DEF Flush, TypeInv, drawerVars, redisVars, pastVars
  <1>7. CASE Answer
    <2>1. PICK r \in 1..MaxReloads :
            \/ reloads' = [reloads EXCEPT ![r] = Answered(Newest(Len(stream), SnapshotLimit))]
            \/ reloads' = [reloads EXCEPT ![r] = Answered(<<>>)]
      BY <1>7 DEF Answer
    <2>2. Newest(Len(stream), SnapshotLimit) \in Seq(Nat)
      BY <1>0, LimitsAre, NewestIs
    <2>3. \A events \in Seq(Nat) : Answered(events) \in States
      BY DEF Answered
    <2>4. PICK events \in Seq(Nat) : reloads' = [reloads EXCEPT ![r] = Answered(events)]
      <3>1. <<>> \in Seq(Nat)
        OBVIOUS
      <3> QED BY <2>1, <2>2, <3>1, Zenon
    <2>5. reloads' \in [1..MaxReloads -> States]
      <3>1. Answered(events) \in States
        BY <2>3
      <3> HIDE DEF States
      <3> QED BY <1>0, <2>4, <3>1
    <2> QED BY <1>7, <2>5 DEF Answer, TypeInv, drawerVars, redisVars, pastVars
  <1>8. CASE Hydrate
    <2>1. PICK r \in 1..MaxReloads :
            /\ reloads[r].step = "answered"
            /\ LET events == reloads[r].events
               IN  /\ feed' = [k \in 1..Len(events) |-> [key |-> "stream_id", id |-> events[k]]]
                   /\ top' = IF events = <<>> THEN 0 ELSE Head(events)
                   /\ cut' = IF events = <<>> THEN 0 ELSE Last(events)
            /\ reloads' = [reloads EXCEPT ![r] = Idle]
      BY <1>8 DEF Hydrate
    <2>2. reloads[r].events \in Seq(Nat)
      <3>1. reloads[r] \in States
        BY <1>0
      <3>2. reloads[r] # Idle /\ reloads[r] # Asked
        BY <2>1 DEF Idle, Asked
      <3> QED BY <3>1, <3>2
    <2>3. PICK events \in Seq(Nat) :
            /\ feed' = [k \in 1..Len(events) |-> [key |-> "stream_id", id |-> events[k]]]
            /\ top' = IF events = <<>> THEN 0 ELSE Head(events)
            /\ cut' = IF events = <<>> THEN 0 ELSE Last(events)
      BY <2>1, <2>2
    <2>4. feed' \in Seq(Events)
      <3>1. \A k \in 1..Len(events) : [key |-> "stream_id", id |-> events[k]] \in Events
        BY DEF Events
      <3> QED BY <2>3, <3>1
    <2>5. top' \in Nat /\ cut' \in Nat
      <3>1. events # <<>> => Head(events) \in Nat /\ Last(events) \in Nat
        BY DEF Last
      <3> QED BY <2>3, <3>1
    <2>6. reloads' \in [1..MaxReloads -> States]
      <3>1. Idle \in States
        OBVIOUS
      <3> HIDE DEF States
      <3> QED BY <1>0, <2>1, <3>1
    <2>7. added' = 0 /\ behind' = FALSE
      BY <1>8 DEF Hydrate
    <2>8. /\ UNCHANGED <<stream, trimmed, told, processed, owed, connected, wire, buffer>>
          /\ UNCHANGED <<selected, rendered, history, requests>>
      BY <1>8 DEF Hydrate, drawerVars, redisVars
    <2> QED BY <2>4, <2>5, <2>6, <2>7, <2>8 DEF TypeInv
  <1> QED BY <1>2, <1>3, <1>4, <1>5, <1>6, <1>7, <1>8

(* A batch: from the newest entry there is when it is the first.           *)
From(r) == IF r.scanned = 0 THEN Len(stream) ELSE r.from
End(r) == IF r.scanned = 0 THEN Len(stream) ELSE r.end
Batch(r) == Newest(End(r), BatchSize)
Found(r) == Kept(Batch(r), OfZone(r.zone))
Out(r) == Taken(r.out \o Found(r), HistoryLimit)
After(r) ==
  [r EXCEPT !.from = From(r), !.out = Out(r), !.scanned = r.scanned + BatchSize,
            !.end = IF Batch(r) = <<>> THEN End(r) ELSE EndAfter(Batch(r)),
            !.done = \/ Len(Out(r)) = HistoryLimit \/ r.scanned + BatchSize >= ScanLimit
                     \/ Len(Batch(r)) < BatchSize]

LEMMA ReadBatchIs ==
  ReadBatch => \E r \in requests : ~r.done /\ requests' = (requests \ {r}) \cup {After(r)}
  BY DEF ReadBatch, From, End, Batch, Found, Out, After

LEMMA BatchIs ==
  ASSUME TypeInv, NEW r \in Requests
  PROVE  /\ From(r) \in Nat /\ End(r) \in Nat
         /\ Batch(r) \in Seq(Nat) /\ Found(r) \in Seq(Nat) /\ r.out \o Found(r) \in Seq(Nat)
         /\ Out(r) \in Seq(Nat)
         /\ Batch(r) # <<>> => /\ EndAfter(Batch(r)) = End(r) - Len(Batch(r))
                               /\ EndAfter(Batch(r)) \in Nat
  <1>1. From(r) \in Nat /\ End(r) \in Nat
    BY DEF TypeInv, From, End, Requests
  <1>2. trimmed \in Nat /\ BatchSize \in Nat /\ HistoryLimit \in Nat
    BY LimitsAre DEF TypeInv
  <1>3. /\ Batch(r) \in Seq(Nat)
        /\ \A k \in 1..Len(Batch(r)) : /\ Batch(r)[k] = End(r) - k + 1
                                       /\ Batch(r)[k] > trimmed /\ Batch(r)[k] <= End(r)
    BY <1>1, <1>2, NewestIs DEF Batch
  <1>4. Found(r) \in Seq(Nat)
    BY <1>3, KeptIs DEF Found
  <1>5. r.out \o Found(r) \in Seq(Nat)
    BY <1>4, ConcatIs DEF Requests
  <1>6. Out(r) \in Seq(Nat)
    BY <1>2, <1>5, TakenIs DEF Out
  <1>7. ASSUME Batch(r) # <<>>
        PROVE  EndAfter(Batch(r)) = End(r) - Len(Batch(r)) /\ EndAfter(Batch(r)) \in Nat
    <2>1. Len(Batch(r)) \in Nat /\ Len(Batch(r)) \in 1..Len(Batch(r))
      BY <1>3, <1>7
    <2>2. /\ Last(Batch(r)) = End(r) - Len(Batch(r)) + 1
          /\ Last(Batch(r)) > trimmed
      BY <1>3, <2>1 DEF Last
    <2> QED BY <1>1, <1>2, <2>1, <2>2 DEF EndAfter
  <1> QED BY <1>1, <1>3, <1>4, <1>5, <1>6, <1>7

LEMMA AfterIs ==
  ASSUME TypeInv, NEW r \in Requests
  PROVE  /\ After(r) \in Requests
         /\ After(r).zone = r.zone /\ After(r).from = From(r) /\ After(r).out = Out(r)
         /\ After(r).scanned = r.scanned + BatchSize
         /\ After(r).end = IF Batch(r) = <<>> THEN End(r) ELSE EndAfter(Batch(r))
         /\ After(r).done <=> \/ Len(Out(r)) = HistoryLimit \/ r.scanned + BatchSize >= ScanLimit
                              \/ Len(Batch(r)) < BatchSize
  <1> DEFINE end == IF Batch(r) = <<>> THEN End(r) ELSE EndAfter(Batch(r))
  <1> DEFINE done == \/ Len(Out(r)) = HistoryLimit \/ r.scanned + BatchSize >= ScanLimit
                     \/ Len(Batch(r)) < BatchSize
  <1>1. From(r) \in Nat /\ end \in Nat /\ Out(r) \in Seq(Nat)
    BY BatchIs
  <1>2. done \in BOOLEAN
    OBVIOUS
  <1>3. r.scanned + BatchSize \in Nat
    BY LimitsAre DEF Requests
  <1> DEFINE s == [zone |-> r.zone, scanned |-> r.scanned + BatchSize, from |-> From(r),
                   end |-> end, out |-> Out(r), done |-> done]
  <1>4. After(r) = s
    <2> HIDE DEF end, done
    <2>1. After(r) = [r EXCEPT !.from = From(r), !.out = Out(r), !.scanned = r.scanned + BatchSize,
                               !.end = end, !.done = done]
      BY DEF After, end, done
    <2> QED BY <2>1 DEF Requests
  <1>5. s \in Requests
    <2> HIDE DEF end, done
    <2> QED BY <1>1, <1>2, <1>3 DEF Requests
  <1> QED BY <1>4, <1>5

LEMMA DrawerTypes == TypeInv /\ (Select \/ RunEffect \/ ReadBatch \/ HistoryArrives) => TypeInv'
  <1> SUFFICES ASSUME TypeInv, Select \/ RunEffect \/ ReadBatch \/ HistoryArrives PROVE TypeInv'
    OBVIOUS
  <1>0. requests \subseteq Requests /\ history \in Seq(Nat)
    BY DEF TypeInv
  <1>1. CASE Select
    <2>1. selected' \in Zones \cup {NoZone} /\ rendered' = FALSE
      BY <1>1 DEF Select
    <2> QED BY <1>1, <2>1 DEF Select, TypeInv, storeVars, redisVars, pastVars
  <1>2. CASE RunEffect
    <2>1. requests' \subseteq Requests
      <3>1. selected # NoZone => ZoneHistory(selected) \in Requests
        BY DEF ZoneHistory, Requests, TypeInv
      <3> QED BY <1>2, <3>1 DEF RunEffect, GivenUp
    <2>2. history' \in Seq(Nat)
      <3>1. <<>> \in Seq(Nat)
        OBVIOUS
      <3> QED BY <1>0, <1>2, <3>1 DEF RunEffect
    <2>3. rendered' = TRUE
      BY <1>2 DEF RunEffect
    <2> QED BY <1>2, <2>1, <2>2, <2>3 DEF RunEffect, TypeInv, storeVars, redisVars, pastVars
  <1>3. CASE ReadBatch
    <2>1. requests' \subseteq Requests
      <3>1. PICK r \in requests : requests' = (requests \ {r}) \cup {After(r)}
        BY <1>3, ReadBatchIs
      <3>2. After(r) \in Requests
        BY <1>0, AfterIs
      <3> QED BY <1>0, <3>1, <3>2
    <2> QED BY <1>3, <2>1 DEF ReadBatch, TypeInv, storeVars, redisVars, pastVars
  <1>4. CASE HistoryArrives
    <2>1. PICK r \in requests : (history' = r.out \/ history' = history)
                 /\ requests' = requests \ {r}
      BY <1>4 DEF HistoryArrives
    <2>2. requests' \subseteq Requests /\ history' \in Seq(Nat)
      BY <1>0, <2>1 DEF Requests
    <2> QED BY <1>4, <2>2 DEF HistoryArrives, TypeInv, storeVars, redisVars, pastVars
  <1> QED BY <1>1, <1>2, <1>3, <1>4

LEMMA TypesKept == TypeInv /\ [Next]_vars => TypeInv'
  <1>1. TypeInv /\ UNCHANGED vars => TypeInv'
    BY DEF TypeInv, vars
  <1> QED BY <1>1, StreamTypes, StoreTypes, DrawerTypes DEF Next

-------------------------------------------------------------------------------
(* The stream grows at its end, and is trimmed at its beginning.           *)

(* Which steps change what.                                                *)
LEMMA Changes ==
  ASSUME [Next]_vars
  PROVE  /\ Sense \/ AddSystem \/ Process \/ CatchUp \/ UNCHANGED stream
         /\ Trim \/ UNCHANGED trimmed
         /\ Process \/ CatchUp \/ UNCHANGED processed
         /\ \/ TellSystem \/ Process \/ CatchUp \/ Announce
            \/ OnDisconnect \/ OnEvent \/ OnResync \/ Flush
            \/ UNCHANGED <<buffer, wire, owed, processed>>
         /\ StartReload \/ Answer \/ Hydrate \/ UNCHANGED reloads
         /\ Flush \/ Hydrate \/ UNCHANGED <<feed, top, cut, added, behind>>
         /\ Select \/ RunEffect \/ ReadBatch \/ HistoryArrives \/ UNCHANGED drawerVars
  <1> USE DEF redisVars, storeVars, pastVars
  <1>1. CASE Sense \/ AddSystem \/ Process \/ TellSystem \/ CatchUp \/ Announce \/ Trim
    BY <1>1 DEF Sense, AddSystem, Process, TellSystem, CatchUp, Announce, Trim
  <1>2. CASE OnConnect \/ OnDisconnect \/ OnEvent \/ OnResync \/ Flush \/ Answer \/ Hydrate
    BY <1>2 DEF OnConnect, OnDisconnect, OnEvent, OnResync, Flush, Answer, Hydrate
  <1>3. CASE Select \/ RunEffect \/ ReadBatch \/ HistoryArrives
    BY <1>3 DEF Select, RunEffect, ReadBatch, HistoryArrives
  <1>4. CASE UNCHANGED vars
    BY <1>4 DEF vars, drawerVars
  <1> QED BY <1>1, <1>2, <1>3, <1>4 DEF Next

LEMMA StreamGrows ==
  ASSUME TypeInv, [Next]_vars
  PROVE  /\ Len(stream) \in Nat /\ Len(stream') \in Nat /\ Len(stream) <= Len(stream')
         /\ \A i \in 1..Len(stream) : stream'[i] = stream[i]
         /\ trimmed <= trimmed' /\ trimmed \in Nat /\ trimmed' \in Nat
  <1>1. stream \in Seq(StreamEntries)
    BY DEF TypeInv
  <1>2. stream' = stream \/ \E more \in Seq(StreamEntries) : stream' = stream \o more
    <2>1. \A e \in StreamEntries : <<e>> \in Seq(StreamEntries) /\ Append(stream, e) = stream \o <<e>>
      BY <1>1
    <2>2. CASE Sense
      <3>1. PICK z \in Zones : stream' = Append(stream, [kind |-> "sensor", zone |-> z])
        BY <2>2 DEF Sense
      <3>2. [kind |-> "sensor", zone |-> z] \in StreamEntries
        BY DEF StreamEntries
      <3> QED BY <2>1, <3>1, <3>2
    <2>3. CASE AddSystem
      <3>1. stream' = Append(stream, [kind |-> "system", zone |-> NoZone])
        BY <2>3 DEF AddSystem
      <3>2. [kind |-> "system", zone |-> NoZone] \in StreamEntries
        BY DEF StreamEntries
      <3> QED BY <2>1, <3>1, <3>2
    <2>4. CASE Process
      BY <2>4, ProcessIs
    <2>5. CASE CatchUp
      BY <2>5, CatchUpIs
    <2> QED BY <2>2, <2>3, <2>4, <2>5, Changes
  <1>3. /\ Len(stream) \in Nat /\ Len(stream') \in Nat /\ Len(stream) <= Len(stream')
        /\ \A i \in 1..Len(stream) : stream'[i] = stream[i]
    <2>1. CASE stream' = stream
      BY <1>1, <2>1
    <2>2. CASE stream' # stream
      <3>1. PICK more \in Seq(StreamEntries) : stream' = stream \o more
        BY <1>2, <2>2
      <3>2. /\ Len(stream \o more) = Len(stream) + Len(more) /\ Len(stream) \in Nat /\ Len(more) \in Nat
            /\ \A i \in 1..Len(stream) : (stream \o more)[i] = stream[i]
        BY <1>1, ConcatIs
      <3> QED BY <3>1, <3>2
    <2> QED BY <2>1, <2>2
  <1>4. trimmed' = trimmed \/ trimmed' = trimmed + 1
    BY Changes DEF Trim
  <1> QED BY <1>3, <1>4 DEF TypeInv

LEMMA StreamKeptInductive == TypeInv /\ StreamKept /\ [Next]_vars => StreamKept'
  <1> SUFFICES ASSUME TypeInv, StreamKept, [Next]_vars PROVE StreamKept'
    OBVIOUS
  <1>1. /\ Len(stream) \in Nat /\ Len(stream') \in Nat /\ Len(stream) <= Len(stream')
        /\ trimmed \in Nat /\ trimmed' \in Nat
    BY StreamGrows
  <1>2. processed \in Nat /\ StreamMaxLength \in Nat
    BY LimitsAre DEF TypeInv
  <1>3. trimmed' = trimmed \/ (trimmed' = trimmed + 1 /\ Len(stream) - trimmed > StreamMaxLength)
    BY Changes DEF Trim
  <1>4. processed' = processed \/ processed' \in 1..Len(stream) \/ processed' = Len(stream)
    BY Changes, ProcessIs DEF CatchUp
  <1>5. trimmed <= Len(stream) /\ processed <= Len(stream)
    BY DEF StreamKept
  <1>6. trimmed' <= Len(stream')
    BY <1>1, <1>2, <1>3, <1>5
  <1>7. processed' <= Len(stream')
    BY <1>1, <1>2, <1>4, <1>5
  <1> QED BY <1>6, <1>7 DEF StreamKept

-------------------------------------------------------------------------------
(* The drawer.                                                             *)

LEMMA ReadsStay ==
  ASSUME TypeInv, [Next]_vars, NEW r \in Requests, Reads(r)
  PROVE  Reads(r)'
  <1>1. /\ Len(stream) \in Nat /\ Len(stream') \in Nat /\ Len(stream) <= Len(stream')
        /\ \A i \in 1..Len(stream) : stream'[i] = stream[i]
        /\ trimmed <= trimmed' /\ trimmed \in Nat /\ trimmed' \in Nat
    BY StreamGrows
  <1>2. r.from \in Nat /\ r.out \in Seq(Nat) /\ r.scanned \in Nat /\ r.end \in Nat
    BY DEF Requests
  <1>3. r.from <= Len(stream) /\ Of(r.out, r.zone)
    BY DEF Reads
  <1>4. Of(r.out, r.zone)'
    <2>1. \A p \in 1..Len(r.out) : r.out[p] \in 1..Len(stream)
      BY <1>1, <1>2, <1>3 DEF Of, Known
    <2>2. \A p \in 1..Len(r.out) : stream[r.out[p]].zone = r.zone
      BY <1>3 DEF Of
    <2>3. ASSUME NEW p \in 1..Len(r.out)
          PROVE  Known(r.out[p])' /\ stream'[r.out[p]].zone = r.zone
      <3>1. r.out[p] \in 1..Len(stream)
        BY <2>1
      <3> QED BY <1>1, <2>2, <3>1 DEF Known
    <2> QED BY <2>3 DEF Of
  <1>5. \A n \in Nat : n > 0 /\ Complete(r, n) => Complete(r, n)'
    BY <1>1, <1>2, <1>3 DEF Complete
  <1>6. r.scanned > 0 /\ ~r.done => Complete(r, r.end + 1)'
    <2>1. r.end + 1 \in Nat /\ r.end + 1 > 0
      BY <1>2
    <2>2. Complete(r, r.end + 1) => Complete(r, r.end + 1)'
      BY <1>5, <2>1
    <2> QED BY <2>2 DEF Reads
  <1>7. ASSUME r.done, NEW n \in Nat, n > trimmed', n > r.from - ScanLimit
        PROVE  Complete(r, n)'
    <2>1. n > trimmed /\ n > 0
      BY <1>1, <1>7
    <2>2. Complete(r, n)
      BY <1>7, <2>1 DEF Reads
    <2> QED BY <1>5, <2>1, <2>2
  <1>8. r.from <= Len(stream')
    BY <1>1, <1>2, <1>3
  <1> QED BY <1>4, <1>6, <1>7, <1>8 DEF Reads

LEMMA FoundIs ==
  ASSUME TypeInv, NEW r \in Requests, End(r) <= Len(stream)
  PROVE  /\ Descending(Found(r)) /\ Of(Found(r), r.zone)
         /\ \A p \in 1..Len(Found(r)) : Found(r)[p] <= End(r)
              /\ Found(r)[p] > End(r) - Len(Batch(r))
         /\ \A i \in Nat :
              i > End(r) - Len(Batch(r)) /\ i <= End(r) /\ i > 0 /\ stream[i].zone = r.zone
                => In(Found(r), i)
  <1> DEFINE b == Batch(r)
  <1> DEFINE f == Found(r)
  <1> DEFINE e == End(r)
  <1> DEFINE S == OfZone(r.zone)
  <1>1. b \in Seq(Nat) /\ f \in Seq(Nat) /\ e \in Nat
    BY BatchIs
  <1>2. trimmed \in Nat /\ BatchSize \in Nat /\ Len(stream) \in Nat
    BY LimitsAre DEF TypeInv
  <1>3. \A k \in 1..Len(b) : b[k] = e - k + 1 /\ b[k] > trimmed /\ b[k] <= e
    BY <1>1, <1>2, NewestIs DEF Batch
  <1>4. /\ \A n \in 1..Len(f) : \E k \in 1..Len(b) : b[k] \in S /\ f[n] = b[k]
        /\ \A k \in 1..Len(b) : b[k] \in S => \E n \in 1..Len(f) : f[n] = b[k]
        /\ \A m, n \in 1..Len(f) :
             m < n => \E j, k \in 1..Len(b) : /\ j < k /\ b[j] \in S /\ b[k] \in S
                                              /\ f[m] = b[j] /\ f[n] = b[k]
    <2>1. f = Kept(b, S)
      BY DEF Found
    <2>2. b \in Seq(Nat)
      BY <1>1
    <2> HIDE DEF b, f, S
    <2>3. Filtered(b, S, Kept(b, S))
      BY <2>2, KeptFiltered
    <2>4. Filtered(b, S, f)
      BY <2>1, <2>3
    <2> QED BY <2>4 DEF Filtered
  <1>5. \A i : i \in S <=> i \in 1..Len(stream) /\ stream[i].zone = r.zone
    BY DEF OfZone
  <1> HIDE DEF b, f, e, S
  <1>6. Len(b) \in Nat /\ Len(f) \in Nat
    BY <1>1
  <1>7. Descending(f)
    <2> SUFFICES ASSUME NEW m \in 1..Len(f), NEW n \in 1..Len(f), m < n PROVE f[m] > f[n]
      BY DEF Descending
    <2>1. PICK j \in 1..Len(b), k \in 1..Len(b) : j < k /\ f[m] = b[j] /\ f[n] = b[k]
      BY <1>4
    <2>2. b[j] = e - j + 1 /\ b[k] = e - k + 1
      BY <1>3
    <2> QED BY <1>1, <1>6, <2>1, <2>2
  <1>8. ASSUME NEW p \in 1..Len(f)
        PROVE  /\ f[p] <= e /\ f[p] > e - Len(b)
               /\ Known(f[p]) /\ stream[f[p]].zone = r.zone
    <2>1. PICK k \in 1..Len(b) : b[k] \in S /\ f[p] = b[k]
      BY <1>4
    <2>2. b[k] = e - k + 1 /\ b[k] <= e
      BY <1>3
    <2>3. f[p] \in 1..Len(stream) /\ stream[f[p]].zone = r.zone
      BY <1>5, <2>1
    <2>4. f[p] <= e /\ f[p] > e - Len(b)
      BY <1>1, <1>6, <2>1, <2>2
    <2> QED BY <1>2, <2>3, <2>4 DEF Known
  <1>9. ASSUME NEW i \in Nat, i > e - Len(b), i <= e, i > 0, stream[i].zone = r.zone
        PROVE  In(f, i)
    <2>1. e - i + 1 \in 1..Len(b)
      BY <1>1, <1>6, <1>9
    <2>2. PICK k \in 1..Len(b) : k = e - i + 1
      BY <2>1
    <2>3. b[k] = e - k + 1
      BY <1>3
    <2>4. b[k] = i
      BY <1>1, <1>9, <2>2, <2>3
    <2>5. i \in 1..Len(stream)
      BY <1>1, <1>2, <1>9 DEF e
    <2>6. b[k] \in S
      BY <1>5, <1>9, <2>4, <2>5
    <2> QED BY <1>4, <2>4, <2>6 DEF In
  <1>10. Of(f, r.zone)
    BY <1>8 DEF Of
  <1>11. /\ \A p \in 1..Len(f) : f[p] <= e /\ f[p] > e - Len(b)
         /\ \A i \in Nat : i > e - Len(b) /\ i <= e /\ i > 0 /\ stream[i].zone = r.zone => In(f, i)
    BY <1>8, <1>9
  <1> QED
    <2> USE DEF b, f, e
    <2>1. Descending(Found(r)) /\ Of(Found(r), r.zone)
      BY <1>7, <1>10
    <2>2. \A p \in 1..Len(Found(r)) :
            Found(r)[p] <= End(r) /\ Found(r)[p] > End(r) - Len(Batch(r))
      BY <1>11
    <2>3. \A i \in Nat :
            i > End(r) - Len(Batch(r)) /\ i <= End(r) /\ i > 0 /\ stream[i].zone = r.zone
              => In(Found(r), i)
      BY <1>11
    <2> QED BY <2>1, <2>2, <2>3

(* Where a batch leaves a request that was not done.                       *)
Begun(r) ==
  /\ From(r) <= Len(stream) /\ End(r) = From(r) - r.scanned /\ Len(r.out) < HistoryLimit
  /\ Descending(r.out) /\ Of(r.out, r.zone)
  /\ \A p \in 1..Len(r.out) : r.out[p] > End(r)
  /\ \A i \in Nat : i > End(r) /\ i <= From(r) /\ stream[i].zone = r.zone => In(r.out, i)

LEMMA ReadsBegun ==
  ASSUME TypeInv, NEW r \in Requests, Reads(r), ~r.done
  PROVE  Begun(r)
  <1>0. /\ r.scanned \in Nat /\ r.out \in Seq(Nat) /\ Len(stream) \in Nat /\ HistoryLimit \in Nat
        /\ HistoryLimit > 0 /\ r.from \in Nat /\ r.end \in Nat
    BY LimitsAre DEF TypeInv, Requests
  <1>1. Descending(r.out) /\ Of(r.out, r.zone) /\ r.from <= Len(stream)
    BY DEF Reads
  <1>2. CASE r.scanned = 0
    <2>1. r.out = <<>> /\ From(r) = Len(stream) /\ End(r) = Len(stream)
      BY <1>2 DEF Reads, From, End
    <2>2. Len(r.out) = 0
      BY <2>1
    <2> QED BY <1>0, <1>1, <1>2, <2>1, <2>2 DEF Begun
  <1>3. CASE r.scanned # 0
    <2>1. From(r) = r.from /\ End(r) = r.end /\ r.scanned > 0
      BY <1>0, <1>3 DEF From, End
    <2>2. /\ r.end = r.from - r.scanned /\ Len(r.out) < HistoryLimit
          /\ \A p \in 1..Len(r.out) : r.out[p] > r.end
          /\ Complete(r, r.end + 1)
      BY <2>1 DEF Reads
    <2>3. \A i \in Nat : i > r.end /\ i <= r.from /\ stream[i].zone = r.zone => In(r.out, i)
      <3>1. Len(r.out) # HistoryLimit
        BY <1>0, <2>2
      <3>2. \A i \in r.end + 1..r.from : stream[i].zone = r.zone => In(r.out, i)
        BY <2>2, <3>1 DEF Complete
      <3>3. \A i \in Nat : i > r.end /\ i <= r.from => i \in r.end + 1..r.from
        BY <1>0
      <3> QED BY <3>2, <3>3
    <2> QED BY <1>1, <2>1, <2>2, <2>3 DEF Begun
  <1> QED BY <1>2, <1>3

(* All that was found, before the limit cuts it.                           *)
LEMMA AllIs ==
  ASSUME TypeInv, NEW r \in Requests, Begun(r)
  PROVE  LET all == r.out \o Found(r)
             low == End(r) - Len(Batch(r))
         IN  /\ all \in Seq(Nat) /\ low \in Nat
             /\ Descending(all) /\ Of(all, r.zone)
             /\ \A p \in 1..Len(all) : all[p] > low
             /\ \A i \in Nat : i > low /\ i <= From(r) /\ stream[i].zone = r.zone => In(all, i)
  <1> DEFINE o == r.out
  <1> DEFINE f == Found(r)
  <1> DEFINE all == o \o f
  <1> DEFINE low == End(r) - Len(Batch(r))
  <1>1. /\ o \in Seq(Nat) /\ f \in Seq(Nat) /\ Len(o) \in Nat /\ Len(f) \in Nat
        /\ End(r) \in Nat /\ From(r) \in Nat /\ Batch(r) \in Seq(Nat) /\ Len(Batch(r)) \in Nat
    BY BatchIs DEF Requests
  <1>2. low \in Nat
    <2>1. CASE Batch(r) = <<>>
      <3>1. Len(Batch(r)) = 0
        BY <2>1
      <3> QED BY <1>1, <3>1
    <2>2. CASE Batch(r) # <<>>
      BY <2>2, BatchIs
    <2> QED BY <2>1, <2>2
  <1>3. /\ all \in Seq(Nat) /\ Len(all) = Len(o) + Len(f)
        /\ \A p \in 1..Len(o) : all[p] = o[p]
        /\ \A p \in Len(o) + 1..Len(o) + Len(f) : all[p] = f[p - Len(o)]
    BY <1>1, ConcatIs
  <1>4. /\ Descending(o) /\ Of(o, r.zone)
        /\ \A p \in 1..Len(o) : o[p] > End(r)
        /\ \A i \in Nat : i > End(r) /\ i <= From(r) /\ stream[i].zone = r.zone => In(o, i)
    BY DEF Begun
  <1>5. /\ Descending(f) /\ Of(f, r.zone)
        /\ \A p \in 1..Len(f) : f[p] <= End(r) /\ f[p] > low
        /\ \A i \in Nat : i > low /\ i <= End(r) /\ i > 0 /\ stream[i].zone = r.zone => In(f, i)
    <2>1. End(r) <= Len(stream)
      <3>1. r.scanned \in Nat /\ Len(stream) \in Nat
        BY DEF Requests, TypeInv
      <3> QED BY <1>1, <3>1 DEF Begun
    <2> QED BY <2>1, FoundIs
  <1>6a. low <= End(r)
    BY <1>1
  <1> HIDE DEF o, f, all, low
  <1>6. \A p \in 1..Len(o) : o[p] \in Nat /\ o[p] > low
    <2>1. SUFFICES ASSUME NEW p \in 1..Len(o) PROVE o[p] \in Nat /\ o[p] > low
      OBVIOUS
    <2>2. o[p] \in Nat
      BY <1>1
    <2>3. o[p] > End(r)
      BY <1>4
    <2> QED BY <1>1, <1>2, <1>6a, <2>2, <2>3
  <1>7. \A p \in 1..Len(all) :
          \/ p \in 1..Len(o) /\ all[p] = o[p]
          \/ p - Len(o) \in 1..Len(f) /\ all[p] = f[p - Len(o)]
    <2> SUFFICES ASSUME NEW p \in 1..Len(all)
                 PROVE  \/ p \in 1..Len(o) /\ all[p] = o[p]
                        \/ p - Len(o) \in 1..Len(f) /\ all[p] = f[p - Len(o)]
      OBVIOUS
    <2>1. p \in Int /\ 1 <= p /\ p <= Len(o) + Len(f)
      BY <1>1, <1>3
    <2>2. CASE p <= Len(o)
      <3>1. p \in 1..Len(o)
        BY <1>1, <2>1, <2>2
      <3> QED BY <1>3, <3>1
    <2>3. CASE p > Len(o)
      <3>1. p \in Len(o) + 1..Len(o) + Len(f) /\ p - Len(o) \in 1..Len(f)
        BY <1>1, <2>1, <2>3
      <3> QED BY <1>3, <3>1
    <2> QED BY <1>1, <2>1, <2>2, <2>3
  <1>8. Descending(all)
    <2> SUFFICES ASSUME NEW p \in 1..Len(all), NEW q \in 1..Len(all), p < q
                 PROVE  all[p] > all[q]
      BY DEF Descending
    <2>1. CASE q \in 1..Len(o)
      <3>1. p \in 1..Len(o)
        BY <1>1, <2>1
      <3> QED BY <1>3, <1>4, <2>1, <3>1 DEF Descending
    <2>2. CASE q - Len(o) \in 1..Len(f) /\ all[q] = f[q - Len(o)]
      <3>1. CASE p \in 1..Len(o)
        <4>1. all[p] = o[p] /\ o[p] > End(r) /\ o[p] \in Nat
          BY <1>1, <1>3, <1>4, <3>1
        <4>2. PICK k \in 1..Len(f) : k = q - Len(o)
          BY <2>2
        <4>3. f[k] <= End(r) /\ f[k] \in Nat /\ all[q] = f[k]
          BY <1>1, <1>5, <2>2, <4>2
        <4> QED BY <1>1, <4>1, <4>3
      <3>2. CASE p - Len(o) \in 1..Len(f) /\ all[p] = f[p - Len(o)]
        <4>1. p - Len(o) < q - Len(o)
          BY <1>1
        <4> QED BY <1>5, <2>2, <3>2, <4>1 DEF Descending
      <3> QED BY <1>7, <3>1, <3>2
    <2> QED BY <1>7, <2>1, <2>2
  <1>9. Of(all, r.zone) /\ \A p \in 1..Len(all) : all[p] > low
    <2>1. ASSUME NEW p \in 1..Len(all)
          PROVE  Known(all[p]) /\ stream[all[p]].zone = r.zone /\ all[p] > low
      BY <1>4, <1>5, <1>6, <1>7 DEF Of
    <2> QED BY <2>1 DEF Of
  <1>10. ASSUME NEW i \in Nat, i > low, i <= From(r), stream[i].zone = r.zone
         PROVE  In(all, i)
    <2>1. CASE i > End(r)
      <3>1. PICK p \in 1..Len(o) : o[p] = i
        BY <1>4, <1>10, <2>1 DEF In
      <3>2. p \in 1..Len(all) /\ all[p] = i
        BY <1>1, <1>3, <3>1
      <3> QED BY <3>2 DEF In
    <2>2. CASE i <= End(r)
      <3>0. i > 0
        BY <1>2, <1>10
      <3>1. PICK p \in 1..Len(f) : f[p] = i
        BY <1>5, <1>10, <2>2, <3>0 DEF In
      <3>2. Len(o) + p \in Len(o) + 1..Len(o) + Len(f) /\ Len(o) + p \in 1..Len(all)
            /\ (Len(o) + p) - Len(o) = p
        BY <1>1, <1>3
      <3>3. all[Len(o) + p] = i
        BY <1>3, <3>1, <3>2
      <3> QED BY <3>2, <3>3 DEF In
    <2> QED BY <1>1, <2>1, <2>2
  <1> QED
    <2>1. \A i \in Nat : i > low /\ i <= From(r) /\ stream[i].zone = r.zone => In(all, i)
      BY <1>10
    <2>2. all \in Seq(Nat) /\ low \in Nat
      BY <1>2, <1>3
    <2> USE DEF o, f, all, low
    <2>3. Descending(r.out \o Found(r)) /\ Of(r.out \o Found(r), r.zone)
      BY <1>8, <1>9
    <2>4. \A p \in 1..Len(r.out \o Found(r)) : (r.out \o Found(r))[p] > End(r) - Len(Batch(r))
      BY <1>9
    <2>5. \A i \in Nat : i > End(r) - Len(Batch(r)) /\ i <= From(r) /\ stream[i].zone = r.zone
                          => In(r.out \o Found(r), i)
      BY <2>1
    <2> QED BY <2>2, <2>3, <2>4, <2>5

LEMMA AfterReads ==
  ASSUME TypeInv, NEW r \in Requests, Begun(r)
  PROVE  Reads(After(r))
  <1> DEFINE b == Batch(r)
  <1> DEFINE all == r.out \o Found(r)
  <1> DEFINE low == End(r) - Len(b)
  <1> DEFINE s == After(r)
  <1>1. /\ all \in Seq(Nat) /\ low \in Nat
        /\ Descending(all) /\ Of(all, r.zone)
        /\ \A p \in 1..Len(all) : all[p] > low
        /\ \A i \in Nat : i > low /\ i <= From(r) /\ stream[i].zone = r.zone => In(all, i)
    BY AllIs
  <1>2. /\ s \in Requests /\ s.zone = r.zone /\ s.from = From(r) /\ s.out = Out(r)
        /\ s.scanned = r.scanned + BatchSize
        /\ s.end = IF b = <<>> THEN End(r) ELSE EndAfter(b)
        /\ s.done <=> \/ Len(Out(r)) = HistoryLimit \/ r.scanned + BatchSize >= ScanLimit
                      \/ Len(b) < BatchSize
    BY AfterIs
  <1>3. /\ From(r) \in Nat /\ End(r) \in Nat /\ b \in Seq(Nat) /\ Len(b) \in Nat
        /\ r.scanned \in Nat /\ trimmed \in Nat
        /\ b # <<>> => EndAfter(b) = low
    <2>1. b # <<>> => EndAfter(b) = low
      BY BatchIs
    <2>2. From(r) \in Nat /\ End(r) \in Nat /\ b \in Seq(Nat) /\ Len(b) \in Nat
      BY BatchIs
    <2> QED BY <2>1, <2>2 DEF Requests, TypeInv
  <1>4. /\ Len(b) <= BatchSize
        /\ Len(b) = BatchSize \/ Len(b) = End(r) - trimmed \/ (Len(b) = 0 /\ End(r) <= trimmed)
    BY <1>3, LimitsAre, NewestIs DEF Batch
  <1>5. /\ From(r) <= Len(stream) /\ End(r) = From(r) - r.scanned /\ Len(r.out) < HistoryLimit
    BY DEF Begun
  <1>6. Out(r) = Taken(all, HistoryLimit)
    BY DEF Out
  <1>7. HistoryLimit \in Nat /\ BatchSize \in Nat /\ ScanLimit \in Nat /\ BatchSize > 0
    BY LimitsAre
  <1>8. low = End(r) - Len(b)
    OBVIOUS
  <1> HIDE DEF b, all, low, s
  <1>9. PICK out : out = Out(r)
    OBVIOUS
  <1>10. /\ out \in Seq(Nat)
              /\ Len(out) = IF HistoryLimit < Len(all) THEN HistoryLimit ELSE Len(all)
         /\ \A k \in 1..Len(out) : out[k] = all[k]
         /\ Len(out) \in Nat /\ Len(all) \in Nat /\ Len(out) <= Len(all) /\ Len(out) <= HistoryLimit
    BY <1>1, <1>6, <1>7, <1>9, TakenIs
  <1>11. Descending(out)
    BY <1>1, <1>10 DEF Descending
  <1>12. Of(out, r.zone) /\ \A p \in 1..Len(out) : out[p] > low
    <2>1. \A p \in 1..Len(out) : p \in 1..Len(all) /\ out[p] = all[p]
      BY <1>10
    <2> QED BY <1>1, <2>1 DEF Of
  <1>13. ASSUME NEW i \in Nat, i > low, i <= From(r), stream[i].zone = r.zone
         PROVE  In(out, i) \/ (Len(out) = HistoryLimit /\ \A p \in 1..Len(out) : out[p] > i)
    <2>1. PICK q \in 1..Len(all) : all[q] = i
      BY <1>1, <1>13 DEF In
    <2>2. CASE q <= Len(out)
      <3>1. q \in 1..Len(out) /\ out[q] = i
        BY <1>10, <2>1, <2>2
      <3> QED BY <3>1 DEF In
    <2>3. CASE q > Len(out)
      <3>1. Len(out) = HistoryLimit
        BY <1>7, <1>10, <2>3
      <3>2. ASSUME NEW p \in 1..Len(out) PROVE out[p] > i
        <4>1. p \in 1..Len(all) /\ p < q /\ out[p] = all[p]
          BY <1>10, <2>3
        <4> QED BY <1>1, <2>1, <4>1 DEF Descending
      <3> QED BY <3>1, <3>2
    <2> QED BY <1>10, <2>2, <2>3
  <1>14. ASSUME NEW n \in Nat, n > low \/ Len(out) = HistoryLimit
         PROVE  Complete(s, n)
    <2> SUFFICES ASSUME NEW i \in n..From(r), stream[i].zone = r.zone
                 PROVE  In(out, i) \/ (Len(out) = HistoryLimit /\ \A p \in 1..Len(out) : out[p] > i)
      BY <1>2, <1>9 DEF Complete
    <2>1. i \in Nat /\ i >= n /\ i <= From(r)
      BY <1>3, <1>14
    <2>2. CASE i > low
      BY <1>13, <2>1, <2>2
    <2>3. CASE i <= low
      <3>1. Len(out) = HistoryLimit
        BY <1>1, <1>14, <2>1, <2>3
      <3>2. ASSUME NEW p \in 1..Len(out) PROVE out[p] > i
        <4>1. out[p] > low /\ out[p] \in Nat
          BY <1>10, <1>12
        <4> QED BY <1>1, <2>1, <2>3, <4>1
      <3> QED BY <3>1, <3>2
    <2> QED BY <1>1, <2>1, <2>2, <2>3
  <1>15. ASSUME ~s.done
         PROVE  /\ s.end = s.from - s.scanned /\ Len(s.out) < HistoryLimit
                /\ \A p \in 1..Len(s.out) : s.out[p] > s.end
                /\ Complete(s, s.end + 1)
    <2>1. Len(out) # HistoryLimit /\ ~(Len(b) < BatchSize)
      BY <1>2, <1>9, <1>15
    <2>2. Len(b) = BatchSize
      BY <1>3, <1>4, <1>7, <2>1
    <2>3. b # <<>>
      <3>1. b = <<>> => Len(b) = 0
        OBVIOUS
      <3> QED BY <1>7, <2>2, <3>1
    <2>4. s.end = low
      BY <1>2, <1>3, <2>3
    <2>5. s.end = s.from - s.scanned
      BY <1>2, <1>3, <1>5, <1>7, <1>8, <2>2, <2>4
    <2>6. Complete(s, low + 1)
      <3>1. low + 1 \in Nat /\ low + 1 > low
        BY <1>1
      <3> QED BY <1>14, <3>1
    <2>7. Len(out) < HistoryLimit
      BY <1>7, <1>10, <2>1
    <2>8. s.out = out
      BY <1>2, <1>9
    <2> QED BY <1>12, <2>4, <2>5, <2>6, <2>7, <2>8
  <1>16. ASSUME s.done, NEW n \in Nat, n > trimmed, n > s.from - ScanLimit
         PROVE  Complete(s, n)
    <2>1. CASE Len(out) = HistoryLimit
      BY <1>14, <2>1
    <2>2. CASE Len(b) = BatchSize /\ Len(out) # HistoryLimit
      <3>1. r.scanned + BatchSize >= ScanLimit
        BY <1>2, <1>3, <1>7, <1>9, <1>16, <2>2
      <3>2. low = From(r) - (r.scanned + BatchSize)
        BY <1>3, <1>5, <1>7, <1>8, <2>2
      <3>3. n > low
        <4>1. s.from = From(r)
          BY <1>2
        <4> QED BY <1>3, <1>7, <1>16, <3>1, <3>2, <4>1
      <3> QED BY <1>14, <3>3
    <2>3. CASE Len(b) # BatchSize
      <3>1. low <= trimmed
        BY <1>3, <1>4, <1>8, <2>3
      <3>2. n > low
        BY <1>1, <1>3, <1>16, <3>1
      <3> QED BY <1>14, <3>2
    <2> QED BY <2>1, <2>2, <2>3
  <1>17. s.scanned > 0
    BY <1>2, <1>3, <1>7
  <1>18. /\ Descending(s.out) /\ Of(s.out, s.zone) /\ s.from <= Len(stream)
         /\ ~(s.scanned = 0)
    <2>1. s.scanned \in Nat
      BY <1>2, <1>3, <1>7
    <2> QED BY <1>2, <1>5, <1>9, <1>11, <1>12, <1>17, <2>1
  <1>19. Reads(s)
    BY <1>15, <1>16, <1>18 DEF Reads
  <1> QED BY <1>19 DEF s

InStream(s, i) == 1 <= i /\ i <= Len(s)
AllOf(s, t, zone) == \A p \in 1..Len(t) : InStream(s, t[p]) /\ s[t[p]].zone = zone

LEMMA DrawerInductive == TypeInv /\ TypeInv' /\ DrawerKept /\ [Next]_vars => DrawerKept'
  <1> SUFFICES ASSUME TypeInv, TypeInv', DrawerKept, [Next]_vars PROVE DrawerKept'
    OBVIOUS
  <1>1. /\ Len(stream) \in Nat /\ Len(stream') \in Nat /\ Len(stream) <= Len(stream')
        /\ \A i \in 1..Len(stream) : stream'[i] = stream[i]
    BY StreamGrows
  <1>2. /\ requests \subseteq Requests /\ history \in Seq(Nat) /\ Len(history) \in Nat
        /\ \A r \in requests : Reads(r) /\ (rendered => r.zone = selected)
        /\ Descending(history)
        /\ \A p \in 1..Len(history) : Known(history[p])
        /\ rendered /\ selected # NoZone => Of(history, selected)
    BY DEF TypeInv, DrawerKept
  <1>3. \A r \in requests : r \in Requests /\ Reads(r)'
    BY <1>2, ReadsStay
  <1>4. \A s \in Seq(Nat) : (\A p \in 1..Len(s) : Known(s[p]))
          => \A p \in 1..Len(s) : InStream(stream', s[p])
    BY <1>1 DEF Known, InStream
  <1>5. \A zone : \A s \in Seq(Nat) : Of(s, zone) => AllOf(stream', s, zone)
    <2> SUFFICES ASSUME NEW s \in Seq(Nat), NEW zone, Of(s, zone)
                 PROVE  AllOf(stream', s, zone)
      OBVIOUS
    <2>1. \A p \in 1..Len(s) : Known(s[p]) /\ s[p] \in 1..Len(stream) /\ stream[s[p]].zone = zone
      BY <1>1 DEF Of, Known
    <2>2. \A p \in 1..Len(s) : InStream(stream', s[p]) /\ stream'[s[p]].zone = zone
      BY <1>1, <2>1 DEF Known, InStream
    <2> QED BY <2>2 DEF AllOf
  <1>6. CASE UNCHANGED drawerVars
    <2>1. /\ selected' = selected /\ history' = history /\ requests' = requests
          /\ (rendered' <=> rendered)
      BY <1>6 DEF drawerVars
    <2>2. \A r \in requests' : Reads(r)' /\ (rendered' => r.zone = selected')
      BY <1>2, <1>3, <2>1
    <2>3. Descending(history')
      BY <1>2, <2>1
    <2>4. \A p \in 1..Len(history') : InStream(stream', history'[p])
      BY <1>2, <1>4, <2>1
    <2>5. rendered' /\ selected' # NoZone => AllOf(stream', history', selected')
      BY <1>2, <1>5, <2>1
    <2> QED BY <2>2, <2>3, <2>4, <2>5 DEF DrawerKept, Of, Known, AllOf, InStream
  <1>7. CASE Select
    <2>1. rendered' = FALSE /\ history' = history /\ requests' = requests
      BY <1>7 DEF Select
    <2>2. \A r \in requests' : Reads(r)'
      BY <1>3, <2>1
    <2>3. \A p \in 1..Len(history') : InStream(stream', history'[p])
      BY <1>2, <1>4, <2>1
    <2> QED BY <1>2, <2>1, <2>2, <2>3 DEF DrawerKept, Of, Known, AllOf, InStream
  <1>8. CASE RunEffect
    <2>1. rendered' = TRUE /\ selected' = selected
      BY <1>8 DEF RunEffect
    <2>2. CASE selected = NoZone
      <3>1. requests' = {} /\ history' = history
        BY <1>8, <2>2 DEF RunEffect, GivenUp
      <3>2. \A p \in 1..Len(history') : InStream(stream', history'[p])
        BY <1>2, <1>4, <3>1
      <3> QED BY <1>2, <2>1, <2>2, <3>1, <3>2 DEF DrawerKept, Of, Known, AllOf, InStream
    <2>3. CASE selected # NoZone
      <3>1. requests' = {ZoneHistory(selected)} /\ history' = <<>>
        BY <1>8, <2>3 DEF RunEffect, GivenUp
      <3>2. Len(history') = 0
        BY <3>1
      <3>3. PICK r : r = ZoneHistory(selected)
        OBVIOUS
      <3>4. /\ r.zone = selected /\ r.scanned = 0 /\ r.from = 0 /\ r.out = <<>> /\ r.done = FALSE
        BY <3>3 DEF ZoneHistory
      <3>5. Reads(r)'
        <4>1. Len(r.out) = 0
          BY <3>4
        <4> QED BY <1>1, <3>4, <4>1 DEF Reads, Descending, Of
      <3>6. \A q \in requests' : Reads(q)' /\ q.zone = selected'
        BY <2>1, <3>1, <3>3, <3>4, <3>5
      <3>7. Descending(history') /\ (\A p \in 1..Len(history') : InStream(stream', history'[p]))
            /\ AllOf(stream', history', selected')
        BY <3>2 DEF Descending, AllOf
      <3> QED BY <3>6, <3>7 DEF DrawerKept, Of, Known, AllOf, InStream
    <2> QED BY <2>2, <2>3
  <1>9. CASE ReadBatch
    <2>1. PICK r \in requests : ~r.done /\ requests' = (requests \ {r}) \cup {After(r)}
      BY <1>9, ReadBatchIs
    <2>2. /\ selected' = selected /\ history' = history /\ (rendered' <=> rendered)
          /\ stream' = stream /\ trimmed' = trimmed
      BY <1>9 DEF ReadBatch, redisVars
    <2>3. PICK s : s = After(r)
      OBVIOUS
    <2>4. Reads(s) /\ s.zone = r.zone
      <3>1. r \in Requests /\ Reads(r)
        BY <1>2
      <3>2. Begun(r)
        BY <2>1, <3>1, ReadsBegun
      <3>3. Reads(After(r)) /\ After(r).zone = r.zone
        BY <3>1, <3>2, AfterReads, AfterIs
      <3> QED BY <2>3, <3>3
    <2>5. Reads(s)'
      BY <2>2, <2>4 DEF Reads, Of, Known, Complete
    <2>6. \A q \in requests' : Reads(q)' /\ (rendered' => q.zone = selected')
      BY <1>2, <1>3, <2>1, <2>2, <2>3, <2>4, <2>5
    <2>7. \A p \in 1..Len(history') : InStream(stream', history'[p])
      BY <1>2, <1>4, <2>2
    <2>8. rendered' /\ selected' # NoZone => AllOf(stream', history', selected')
      BY <1>2, <1>5, <2>2
    <2>9. Descending(history')
      BY <1>2, <2>2
    <2> QED BY <2>6, <2>7, <2>8, <2>9 DEF DrawerKept, Of, Known, AllOf, InStream
  <1>10. CASE HistoryArrives
    <2>1. PICK r \in requests : (history' = r.out \/ history' = history)
                 /\ requests' = requests \ {r}
      BY <1>10 DEF HistoryArrives
    <2>2. selected' = selected /\ (rendered' <=> rendered)
      BY <1>10 DEF HistoryArrives
    <2>3. \A q \in requests' : Reads(q)' /\ (rendered' => q.zone = selected')
      BY <1>2, <1>3, <2>1, <2>2
    <2>4. CASE history' = history
      <3>1. \A p \in 1..Len(history') : InStream(stream', history'[p])
        BY <1>2, <1>4, <2>4
      <3>2. rendered' /\ selected' # NoZone => AllOf(stream', history', selected')
        BY <1>2, <1>5, <2>2, <2>4
      <3> QED BY <1>2, <2>3, <2>4, <3>1, <3>2 DEF DrawerKept, Of, Known, AllOf, InStream
    <2>5. CASE history' = r.out
      <3>1. Descending(r.out) /\ Of(r.out, r.zone) /\ (rendered => r.zone = selected)
            /\ r.out \in Seq(Nat)
        BY <1>2 DEF Reads, Requests
      <3>2. AllOf(stream', r.out, r.zone)
        BY <1>5, <3>1
      <3>3. \A p \in 1..Len(r.out) : InStream(stream', r.out[p])
        BY <3>2 DEF AllOf
      <3>4. rendered' /\ selected' # NoZone => AllOf(stream', history', selected')
        BY <2>2, <2>5, <3>1, <3>2
      <3>5. Descending(history') /\ \A p \in 1..Len(history') : InStream(stream', history'[p])
        BY <2>5, <3>1, <3>3
      <3> QED BY <2>3, <3>4, <3>5 DEF DrawerKept, Of, Known, AllOf, InStream
    <2> QED BY <2>1, <2>4, <2>5
  <1>11. Select \/ RunEffect \/ ReadBatch \/ HistoryArrives \/ UNCHANGED drawerVars
    BY Changes
  <1> QED BY <1>6, <1>7, <1>8, <1>9, <1>10, <1>11

-------------------------------------------------------------------------------
(* What is on its way.                                                     *)

LEMMA HasEmpty == \A i : ~Has(<<>>, i)
  BY DEF Has

LEMMA JoinOrder ==
  ASSUME NEW S, NEW s \in Seq(Messages), NEW t \in Seq(Messages),
         Ascending(S, s), Ascending(S, t), Before(S, s, t)
  PROVE  Ascending(S, s \o t)
  <1> DEFINE u == s \o t
  <1>1. /\ u \in Seq(Messages) /\ Len(u) = Len(s) + Len(t)
        /\ Len(s) \in Nat /\ Len(t) \in Nat
        /\ \A k \in 1..Len(s) : u[k] = s[k]
        /\ \A k \in Len(s) + 1..Len(s) + Len(t) : u[k] = t[k - Len(s)]
    BY ConcatIs
  <1> HIDE DEF u
  <1>2. \A p \in 1..Len(u) :
          \/ p \in 1..Len(s) /\ u[p] = s[p]
          \/ p > Len(s) /\ p - Len(s) \in 1..Len(t) /\ u[p] = t[p - Len(s)]
    <2> SUFFICES ASSUME NEW p \in 1..Len(u)
                 PROVE  \/ p \in 1..Len(s) /\ u[p] = s[p]
                        \/ p > Len(s) /\ p - Len(s) \in 1..Len(t) /\ u[p] = t[p - Len(s)]
      OBVIOUS
    <2>1. p \in Int /\ 1 <= p /\ p <= Len(s) + Len(t)
      BY <1>1
    <2>2. CASE p <= Len(s)
      <3>1. p \in 1..Len(s)
        BY <1>1, <2>1, <2>2
      <3> QED BY <1>1, <3>1
    <2>3. CASE p > Len(s)
      <3>1. p \in Len(s) + 1..Len(s) + Len(t) /\ p - Len(s) \in 1..Len(t)
        BY <1>1, <2>1, <2>3
      <3> QED BY <1>1, <2>3, <3>1
    <2> QED BY <1>1, <2>1, <2>2, <2>3
  <1>4. Ascending(S, u)
    <2> SUFFICES ASSUME NEW i \in S, NEW j \in S, NEW p \in 1..Len(u), NEW q \in 1..Len(u),
                        p < q, u[p] = Reading(i), u[q] = Reading(j)
                 PROVE  i < j
      BY DEF Ascending
    <2>1. CASE q \in 1..Len(s)
      <3>1. Len(s) \in Nat /\ p \in Int /\ 1 <= p
        BY <1>1
      <3>2. p \in 1..Len(s)
        BY <2>1, <3>1
      <3>3. u[p] = s[p] /\ u[q] = s[q]
        BY <1>1, <2>1, <3>2
      <3> QED BY <2>1, <3>2, <3>3 DEF Ascending
    <2>2. CASE q > Len(s) /\ q - Len(s) \in 1..Len(t) /\ u[q] = t[q - Len(s)]
      <3>1. CASE p \in 1..Len(s) /\ u[p] = s[p]
        <4>1. Has(s, i) /\ Has(t, j)
          BY <2>2, <3>1 DEF Has
        <4> QED BY <4>1 DEF Before
      <3>2. CASE p > Len(s) /\ p - Len(s) \in 1..Len(t) /\ u[p] = t[p - Len(s)]
        <4>1. p - Len(s) < q - Len(s)
          BY <1>1
        <4> QED BY <2>2, <3>2, <4>1 DEF Ascending
      <3> QED BY <1>2, <3>1, <3>2
    <2> QED BY <1>2, <2>1, <2>2
  <1> QED BY <1>4 DEF u

LEMMA JoinHas ==
  ASSUME NEW s \in Seq(Messages), NEW t \in Seq(Messages)
  PROVE  \A i : Has(s \o t, i) <=> Has(s, i) \/ Has(t, i)
  <1> DEFINE u == s \o t
  <1>1. /\ u \in Seq(Messages) /\ Len(u) = Len(s) + Len(t)
        /\ Len(s) \in Nat /\ Len(t) \in Nat
        /\ \A k \in 1..Len(s) : u[k] = s[k]
        /\ \A k \in Len(s) + 1..Len(s) + Len(t) : u[k] = t[k - Len(s)]
    BY ConcatIs
  <1> SUFFICES ASSUME NEW i PROVE Has(u, i) <=> Has(s, i) \/ Has(t, i)
    OBVIOUS
  <1> HIDE DEF u
  <1>2. ASSUME Has(u, i) PROVE Has(s, i) \/ Has(t, i)
    <2>1. PICK p \in 1..Len(u) : u[p] = Reading(i)
      BY <1>2 DEF Has
    <2>2. CASE p \in 1..Len(s)
      BY <1>1, <2>1, <2>2 DEF Has
    <2>3. CASE p \in Len(s) + 1..Len(s) + Len(t)
      <3>1. p - Len(s) \in 1..Len(t) /\ u[p] = t[p - Len(s)]
        BY <1>1, <2>3
      <3> QED BY <2>1, <3>1 DEF Has
    <2> QED BY <1>1, <2>1, <2>2, <2>3
  <1>3. ASSUME Has(s, i) PROVE Has(u, i)
    <2>1. PICK p \in 1..Len(s) : s[p] = Reading(i)
      BY <1>3 DEF Has
    <2>2. p \in 1..Len(u) /\ u[p] = s[p]
      BY <1>1
    <2> QED BY <2>1, <2>2 DEF Has
  <1>4. ASSUME Has(t, i) PROVE Has(u, i)
    <2>1. PICK p \in 1..Len(t) : t[p] = Reading(i)
      BY <1>4 DEF Has
    <2>2. Len(s) + p \in 1..Len(u) /\ Len(s) + p \in Len(s) + 1..Len(s) + Len(t)
          /\ (Len(s) + p) - Len(s) = p
      BY <1>1
    <2>3. u[Len(s) + p] = t[p]
      BY <1>1, <2>2
    <2> QED BY <2>1, <2>2, <2>3 DEF Has
  <1> QED BY <1>2, <1>3, <1>4

LEMMA JoinLive ==
  ASSUME NEW s \in Seq(Messages), NEW t \in Seq(Messages), NEW st, AllLive(st, s), AllLive(st, t)
  PROVE  AllLive(st, s \o t)
  <1>1. /\ Len(s \o t) = Len(s) + Len(t) /\ Len(s) \in Nat /\ Len(t) \in Nat
        /\ \A k \in 1..Len(s) : (s \o t)[k] = s[k]
        /\ \A k \in Len(s) + 1..Len(s) + Len(t) : (s \o t)[k] = t[k - Len(s)]
    BY ConcatIs
  <1>2. PICK u : u = s \o t
    OBVIOUS
  <1>3. ASSUME NEW k \in 1..Len(u) PROVE Live(st, u[k])
    <2>1. CASE k \in 1..Len(s)
      BY <1>1, <1>2, <2>1 DEF AllLive
    <2>2. CASE k \in Len(s) + 1..Len(s) + Len(t)
      <3>1. k - Len(s) \in 1..Len(t)
        BY <1>1, <2>2
      <3> QED BY <1>1, <1>2, <2>2, <3>1 DEF AllLive
    <2> QED BY <1>1, <1>2, <2>1, <2>2
  <1> QED BY <1>2, <1>3 DEF AllLive

LEMMA OneIs ==
  ASSUME NEW e \in Messages
  PROVE  /\ <<e>> \in Seq(Messages) /\ (\A i : Has(<<e>>, i) <=> e = Reading(i))
         /\ \A S : Ascending(S, <<e>>)
         /\ \A st : Live(st, e) => AllLive(st, <<e>>)
  <1>1. <<e>> \in Seq(Messages) /\ Len(<<e>>) = 1 /\ <<e>>[1] = e
    OBVIOUS
  <1>2. PICK s : s = <<e>>
    OBVIOUS
  <1>3. Len(s) = 1 /\ s[1] = e
    BY <1>1, <1>2
  <1>4. \A p : p \in 1..Len(s) <=> p = 1
    BY <1>3
  <1>5. \A i : Has(s, i) <=> e = Reading(i)
    BY <1>3, <1>4 DEF Has
  <1>6. \A S : Ascending(S, s)
    <2>1. \A p, q \in 1..Len(s) : ~(p < q)
      BY <1>4
    <2> QED BY <2>1 DEF Ascending
  <1>7. \A st : Live(st, e) => AllLive(st, s)
    BY <1>3, <1>4 DEF AllLive
  <1> QED BY <1>1, <1>2, <1>5, <1>6, <1>7

LEMMA TailOrder ==
  ASSUME NEW S, NEW s \in Seq(Messages), s # <<>>, Ascending(S, s)
  PROVE  /\ Head(s) = s[1] /\ Head(s) \in Messages /\ Tail(s) \in Seq(Messages)
         /\ Ascending(S, Tail(s))
         /\ \A st : AllLive(st, s) => Live(st, Head(s)) /\ AllLive(st, Tail(s))
         /\ \A i : Has(s, i) <=> Head(s) = Reading(i) \/ Has(Tail(s), i)
         /\ \A i, j \in S : Head(s) = Reading(i) /\ Has(Tail(s), j) => i < j
  <1> DEFINE t == Tail(s)
  <1>1. /\ t \in Seq(Messages) /\ Len(s) \in Nat /\ Len(s) >= 1 /\ Len(t) = Len(s) - 1
        /\ \A k \in 1..Len(s) - 1 : t[k] = s[k + 1]
        /\ Head(s) = s[1] /\ s[1] \in Messages
    OBVIOUS
  <1> HIDE DEF t
  <1>3. \A p \in 1..Len(t) : /\ p + 1 \in 2..Len(s) /\ p + 1 \in 1..Len(s) /\ t[p] = s[p + 1]
                             /\ p \in Int
    BY <1>1
  <1>4. 1 \in 1..Len(s)
    BY <1>1
  <1>5. \A st : AllLive(st, s) => Live(st, Head(s)) /\ AllLive(st, t)
    BY <1>1, <1>3, <1>4 DEF AllLive
  <1>6. Ascending(S, t)
    <2> SUFFICES ASSUME NEW i \in S, NEW j \in S, NEW p \in 1..Len(t), NEW q \in 1..Len(t),
                        p < q, t[p] = Reading(i), t[q] = Reading(j)
                 PROVE  i < j
      BY DEF Ascending
    <2>1. p + 1 < q + 1
      BY <1>3
    <2> QED BY <1>3, <2>1 DEF Ascending
  <1>9. ASSUME NEW i PROVE Has(s, i) <=> Head(s) = Reading(i) \/ Has(t, i)
    <2>1. ASSUME Has(s, i) PROVE Head(s) = Reading(i) \/ Has(t, i)
      <3>1. PICK p \in 1..Len(s) : s[p] = Reading(i)
        BY <2>1 DEF Has
      <3>2. CASE p = 1
        BY <1>1, <3>1, <3>2
      <3>3. CASE p # 1
        <4>1. p - 1 \in 1..Len(t) /\ (p - 1) + 1 = p
          BY <1>1, <3>3
        <4>2. t[p - 1] = s[p]
          BY <1>3, <4>1
        <4> QED BY <3>1, <4>1, <4>2 DEF Has
      <3> QED BY <3>2, <3>3
    <2>2. ASSUME Head(s) = Reading(i) PROVE Has(s, i)
      BY <1>1, <1>4, <2>2 DEF Has
    <2>3. ASSUME Has(t, i) PROVE Has(s, i)
      BY <1>3, <2>3 DEF Has
    <2> QED BY <2>1, <2>2, <2>3
  <1>10. ASSUME NEW i \in S, NEW j \in S, Head(s) = Reading(i), Has(t, j) PROVE i < j
    <2>1. PICK p \in 1..Len(t) : t[p] = Reading(j)
      BY <1>10 DEF Has
    <2>2. 1 < p + 1 /\ s[p + 1] = Reading(j) /\ s[1] = Reading(i) /\ p + 1 \in 1..Len(s)
      BY <1>1, <1>3, <1>10, <2>1
    <2> QED BY <1>4, <2>2 DEF Ascending
  <1> QED BY <1>1, <1>5, <1>6, <1>9, <1>10 DEF t

(* As the stream grows, what is on its way stays as it is.                 *)
LEMMA SensorsGrow ==
  ASSUME TypeInv, [Next]_vars
  PROVE  /\ Sensors \subseteq Nat /\ Sensors' \subseteq Nat /\ Sensors \subseteq Sensors'
         /\ \A i \in Sensors' : i \in Sensors \/ i > Len(stream)
         /\ \A s : AllLive(stream, s) => AllLive(stream', s)
         /\ \A s : AllLive(stream, s) => \A i \in Sensors' : Has(s, i) => i \in Sensors
  <1>1. /\ Len(stream) \in Nat /\ Len(stream') \in Nat /\ Len(stream) <= Len(stream')
        /\ \A i \in 1..Len(stream) : stream'[i] = stream[i]
    BY StreamGrows
  <1>2. \A i \in 1..Len(stream) : i \in 1..Len(stream') /\ stream'[i] = stream[i]
    BY <1>1
  <1>3. \A i : i \in Sensors <=> i \in 1..Len(stream) /\ stream[i].kind = "sensor"
    BY DEF Sensors, Sensor
  <1>4. \A i : i \in Sensors' <=> i \in 1..Len(stream') /\ stream'[i].kind = "sensor"
    BY DEF Sensors, Sensor
  <1>5. ASSUME NEW i \in Sensors' PROVE i \in Sensors \/ i > Len(stream)
    <2>1. i \in 1..Len(stream) \/ i > Len(stream)
      BY <1>1, <1>4
    <2> QED BY <1>2, <1>3, <1>4, <2>1
  <1>6. \A s : AllLive(stream, s) => AllLive(stream', s)
    BY <1>2 DEF AllLive, Live
  <1>7. ASSUME NEW s, AllLive(stream, s), NEW i \in Sensors', Has(s, i) PROVE i \in Sensors
    <2>1. PICK q \in 1..Len(s) : s[q] = Reading(i)
      BY <1>7 DEF Has
    <2>2. Live(stream, Reading(i))
      BY <1>7, <2>1 DEF AllLive
    <2>3. i \in 1..Len(stream)
      BY <2>2 DEF Live, Reading, Resync
    <2> QED BY <1>2, <1>3, <1>4, <2>3
  <1>8. Sensors \subseteq Nat /\ Sensors' \subseteq Nat /\ Sensors \subseteq Sensors'
    BY <1>2, <1>3, <1>4
  <1> QED BY <1>5, <1>6, <1>7, <1>8

LEMMA ArrivesStays ==
  ASSUME TypeInv, [Next]_vars, NEW b, NEW w, NEW o, NEW p,
         Arrives(stream, Sensors, b, w, o, p)
  PROVE  Arrives(stream', Sensors', b, w, o, p)
  <1>1. PICK S : S = Sensors'
    OBVIOUS
  <1>2. /\ AllLive(stream, b) /\ AllLive(stream, w) /\ AllLive(stream, o)
        /\ Ascending(Sensors, b) /\ Ascending(Sensors, w) /\ Ascending(Sensors, o)
        /\ Before(Sensors, b, w) /\ Before(Sensors, b, o) /\ Before(Sensors, w, o)
        /\ \A i \in Sensors : Has(b, i) \/ Has(w, i) \/ Has(o, i) => i <= p
    BY DEF Arrives
  <1>3. \A s : AllLive(stream, s) => \A i \in S : Has(s, i) => i \in Sensors
    BY <1>1, SensorsGrow
  <1>4. \A s : AllLive(stream, s) /\ Ascending(Sensors, s) => Ascending(S, s)
    <2> SUFFICES ASSUME NEW s, AllLive(stream, s), Ascending(Sensors, s),
                        NEW i \in S, NEW j \in S, NEW k \in 1..Len(s), NEW m \in 1..Len(s),
                        k < m, s[k] = Reading(i), s[m] = Reading(j)
                 PROVE  i < j
      BY DEF Ascending
    <2>1. i \in Sensors /\ j \in Sensors
      BY <1>3 DEF Has
    <2> QED BY <2>1 DEF Ascending
  <1>5. \A s, t : AllLive(stream, s) /\ AllLive(stream, t) /\ Before(Sensors, s, t) => Before(S, s, t)
    BY <1>3 DEF Before
  <1>6. \A i \in S : Has(b, i) \/ Has(w, i) \/ Has(o, i) => i <= p
    BY <1>2, <1>3
  <1>7. AllLive(stream', b) /\ AllLive(stream', w) /\ AllLive(stream', o)
    BY <1>2, SensorsGrow
  <1>8. Ascending(S, b) /\ Ascending(S, w) /\ Ascending(S, o)
    BY <1>2, <1>4
  <1>9. Before(S, b, w) /\ Before(S, b, o) /\ Before(S, w, o)
    BY <1>2, <1>5
  <1>10. Arrives(stream', S, b, w, o, p)
    BY <1>6, <1>7, <1>8, <1>9 DEF Arrives
  <1> QED BY <1>1, <1>10

LEMMA EmptyIs ==
  /\ \A S : Ascending(S, <<>>) /\ \A s : Before(S, <<>>, s) /\ Before(S, s, <<>>)
  /\ \A st : AllLive(st, <<>>)
  <1>1. PICK e : e = <<>>
    OBVIOUS
  <1>2. Len(e) = 0
    BY <1>1
  <1>3. \A S : Ascending(S, e)
    BY <1>2 DEF Ascending
  <1>4. \A st : AllLive(st, e)
    BY <1>2 DEF AllLive
  <1>5. \A S, s : Before(S, <<>>, s) /\ Before(S, s, <<>>)
    BY HasEmpty DEF Before
  <1> QED BY <1>1, <1>3, <1>4, <1>5

(* What a reading and what is derived from it are on their way.            *)
LEMMA OwedIs ==
  ASSUME TypeInv, TypeInv', Process, [Next]_vars
  PROVE  /\ owed = <<>> /\ buffer' = buffer /\ wire' = wire
         /\ AllLive(stream', owed') /\ Ascending(Sensors', owed')
         /\ processed \in Nat /\ processed' \in Nat /\ processed' > processed
         /\ \A j \in Sensors' : Has(owed', j) => j = processed'
  <1>1. PICK i \in Nat, more \in Seq(StreamEntries), rest \in Seq(Messages) :
           /\ i \in 1..Len(stream) /\ i > processed /\ Sensor(i) /\ processed' = i
           /\ owed = <<>> /\ stream' = stream \o more /\ owed' = <<Reading(i)>> \o rest
           /\ Len(rest) = Len(more)
           /\ \A k \in 1..Len(more) : /\ more[k].kind = "derived"
                                      /\ rest[k] = Derived(Len(stream) + k)
    BY ProcessIs
  <1>2. buffer' = buffer /\ wire' = wire
    BY DEF Process, storeVars
  <1>3. stream \in Seq(StreamEntries) /\ Len(stream) \in Nat /\ processed \in Nat /\ Len(more) \in Nat
    BY DEF TypeInv
  <1>4. /\ Len(stream') = Len(stream) + Len(more)
        /\ \A k \in 1..Len(stream) : stream'[k] = stream[k]
        /\ \A k \in Len(stream) + 1..Len(stream) + Len(more) : stream'[k] = more[k - Len(stream)]
    BY <1>1, <1>3, ConcatIs
  <1>5. PICK one : one = <<Reading(i)>>
    OBVIOUS
  <1>6. /\ one \in Seq(Messages) /\ (\A j : Has(one, j) <=> Reading(i) = Reading(j))
        /\ (\A S : Ascending(S, one)) /\ AllLive(stream', one)
    <2>1. Reading(i) \in Messages
      BY EventsAre
    <2>2. Live(stream', Reading(i))
      <3>1. i \in 1..Len(stream') /\ stream'[i].kind = "sensor"
        BY <1>1, <1>3, <1>4 DEF Sensor
      <3> QED BY <3>1, EventsAre DEF Live
    <2> QED BY <1>5, <2>1, <2>2, OneIs
  <1>7. \A k \in 1..Len(rest) :
          /\ Len(stream) + k \in Nat /\ Len(stream) + k \in 1..Len(stream')
          /\ stream'[Len(stream) + k].kind = "derived" /\ rest[k] = Derived(Len(stream) + k)
    <2> SUFFICES ASSUME NEW k \in 1..Len(rest)
                 PROVE  /\ Len(stream) + k \in Nat /\ Len(stream) + k \in 1..Len(stream')
                        /\ stream'[Len(stream) + k].kind = "derived"
                        /\ rest[k] = Derived(Len(stream) + k)
      OBVIOUS
    <2>1. /\ k \in 1..Len(more) /\ Len(stream) + k \in Nat
          /\ Len(stream) + k \in Len(stream) + 1..Len(stream) + Len(more)
          /\ (Len(stream) + k) - Len(stream) = k
      BY <1>1, <1>3
    <2>2. stream'[Len(stream) + k] = more[k]
      BY <1>4, <2>1
    <2>3. Len(stream) + k \in 1..Len(stream')
      BY <1>3, <1>4, <2>1
    <2> QED BY <1>1, <2>1, <2>2, <2>3
  <1>8. AllLive(stream', rest)
    <2> SUFFICES ASSUME NEW k \in 1..Len(rest) PROVE Live(stream', rest[k])
      BY DEF AllLive
    <2>1. PICK d \in Nat : d = Len(stream) + k
      BY <1>7
    <2>2. d \in 1..Len(stream') /\ stream'[d].kind = "derived" /\ rest[k] = Derived(d)
      BY <1>7, <2>1
    <2>3. Derived(d).key = "event_id" /\ Derived(d).id = d
      BY EventsAre
    <2> QED BY <2>2, <2>3 DEF Live
  <1>9. \A j \in Nat : ~Has(rest, j)
    <2> SUFFICES ASSUME NEW j \in Nat, NEW k \in 1..Len(rest) PROVE rest[k] # Reading(j)
      BY DEF Has
    <2> QED BY <1>7, EventsAre
  <1>10. Sensors' \subseteq Nat
    BY SensorsGrow
  <1>11. Ascending(Sensors', rest) /\ Before(Sensors', one, rest)
    <2>1. \A j \in Sensors' : ~Has(rest, j)
      BY <1>9, <1>10
    <2> QED BY <2>1 DEF Ascending, Before, Has
  <1>12. Ascending(Sensors', one \o rest) /\ AllLive(stream', one \o rest)
    BY <1>6, <1>8, <1>11, JoinOrder, JoinLive
  <1>13. \A j : Has(one \o rest, j) <=> Has(one, j) \/ Has(rest, j)
    BY <1>6, JoinHas
  <1>14. \A j \in Sensors' : Has(owed', j) => j = processed'
    <2> SUFFICES ASSUME NEW j \in Sensors', Has(owed', j) PROVE j = i
      BY <1>1
    <2>1. j \in Nat /\ ~Has(rest, j)
      BY <1>9, <1>10
    <2>2. Reading(i) = Reading(j)
      BY <1>1, <1>5, <1>6, <1>13, <2>1
    <2> QED BY <2>1, <2>2, EventsAre
  <1> QED BY <1>1, <1>2, <1>3, <1>5, <1>12, <1>14

LEMMA ArrivalsInductive ==
  TypeInv /\ TypeInv' /\ StreamKept /\ Arrivals /\ [Next]_vars => Arrivals'
  <1> SUFFICES ASSUME TypeInv, TypeInv', StreamKept, Arrivals, [Next]_vars PROVE Arrivals'
    OBVIOUS
  <1>1. PICK S : S = Sensors'
    OBVIOUS
  <1>2. /\ buffer \in Seq(Messages) /\ wire \in Seq(Messages) /\ owed \in Seq(Messages)
        /\ processed \in Nat /\ processed <= Len(stream) /\ Len(stream) \in Nat
    <2>1. Events \subseteq Messages
      BY EventsAre
    <2>2. buffer \in Seq(Events) /\ wire \in Seq(Messages) /\ owed \in Seq(Messages)
          /\ processed \in Nat /\ Len(stream) \in Nat
      BY DEF TypeInv
    <2> QED BY <2>1, <2>2 DEF StreamKept
  <1>3. Arrives(stream', S, buffer, wire, owed, processed)
    BY <1>1, ArrivesStays DEF Arrivals
  <1>4. /\ AllLive(stream', buffer) /\ AllLive(stream', wire) /\ AllLive(stream', owed)
        /\ Ascending(S, buffer) /\ Ascending(S, wire) /\ Ascending(S, owed)
        /\ Before(S, buffer, wire) /\ Before(S, buffer, owed) /\ Before(S, wire, owed)
        /\ \A i \in S : Has(buffer, i) \/ Has(wire, i) \/ Has(owed, i) => i <= processed
    BY <1>3 DEF Arrives
  <1>5. S \subseteq Nat /\ \A i \in S : i \in Nat
    BY <1>1, SensorsGrow
  <1>6. SUFFICES Arrives(stream', S, buffer', wire', owed', processed')
    BY <1>1 DEF Arrivals
  <1>7. CASE UNCHANGED <<buffer, wire, owed, processed>>
    BY <1>3, <1>7
  <1>8. CASE Process
    <2>1. /\ owed = <<>> /\ buffer' = buffer /\ wire' = wire
          /\ AllLive(stream', owed') /\ Ascending(S, owed')
          /\ processed' \in Nat /\ processed' > processed
          /\ \A j \in S : Has(owed', j) => j = processed'
      BY <1>1, <1>8, OwedIs
    <2>2. Before(S, buffer, owed') /\ Before(S, wire, owed')
      BY <1>2, <1>4, <1>5, <2>1 DEF Before
    <2>3. \A i \in S : Has(buffer, i) \/ Has(wire, i) \/ Has(owed', i) => i <= processed'
      BY <1>2, <1>4, <1>5, <2>1
    <2> QED BY <1>4, <2>1, <2>2, <2>3 DEF Arrives
  <1>9. CASE CatchUp
    <2>1. /\ buffer' = buffer /\ wire' = wire /\ owed' = <<Resync>> /\ processed' = Len(stream)
      BY <1>9 DEF CatchUp, storeVars
    <2>2. /\ \A i : ~Has(owed', i)
          /\ AllLive(stream', owed') /\ Ascending(S, owed')
      <3>1. Resync \in Messages /\ (\A i : Resync # Reading(i)) /\ Live(stream', Resync)
        BY EventsAre DEF Resync, Reading, Live
      <3> QED BY <2>1, <3>1, OneIs
    <2>3. Before(S, buffer, owed') /\ Before(S, wire, owed')
      BY <2>2 DEF Before
    <2>4. \A i \in S : Has(buffer, i) \/ Has(wire, i) \/ Has(owed', i) => i <= processed'
      BY <1>2, <1>4, <1>5, <2>1, <2>2
    <2> QED BY <1>4, <2>1, <2>2, <2>3, <2>4 DEF Arrives
  <1>10. CASE Announce
    <2>1. /\ owed' = <<>> /\ (wire' = wire \/ wire' = wire \o owed)
          /\ buffer' = buffer /\ processed' = processed
      BY <1>10 DEF Announce, storeVars
    <2>2. /\ AllLive(stream', owed') /\ Ascending(S, owed') /\ (\A i : ~Has(owed', i))
          /\ Before(S, buffer, owed') /\ Before(S, wire', owed')
      BY <2>1, EmptyIs, HasEmpty
    <2>3. CASE wire' = wire
      BY <1>4, <2>1, <2>2, <2>3 DEF Arrives
    <2>4. CASE wire' = wire \o owed
      <3>1. AllLive(stream', wire') /\ Ascending(S, wire')
        BY <1>2, <1>4, <2>4, JoinOrder, JoinLive
      <3>2. \A i : Has(wire', i) <=> Has(wire, i) \/ Has(owed, i)
        BY <1>2, <2>4, JoinHas
      <3>3. Before(S, buffer, wire')
        BY <1>4, <3>2 DEF Before
      <3>4. \A i \in S : Has(buffer, i) \/ Has(wire', i) \/ Has(owed', i) => i <= processed
        BY <1>4, <2>2, <3>2
      <3> QED BY <1>4, <2>1, <2>2, <3>1, <3>3, <3>4 DEF Arrives
    <2> QED BY <2>1, <2>3, <2>4
  <1>11. CASE TellSystem
    <2>1. PICK i \in Nat :
            /\ i \in 1..Len(stream) /\ ~Sensor(i) /\ stream[i].kind # "derived"
            /\ Reading(i) \in Messages
            /\ wire' = wire \/ wire' = wire \o <<Reading(i)>>
      BY <1>11, TellSystemIs
    <2>2. stream' = stream /\ owed' = owed /\ processed' = processed /\ buffer' = buffer
      BY <1>11, TellSystemIs
    <2>3. CASE wire' = wire
      BY <1>3, <2>2, <2>3
    <2>4. CASE wire' = wire \o <<Reading(i)>>
      <3>1. PICK one : one = <<Reading(i)>>
        OBVIOUS
      <3>2. /\ one \in Seq(Messages) /\ (\A j : Has(one, j) <=> Reading(i) = Reading(j))
            /\ Ascending(S, one) /\ AllLive(stream', one)
        <4>1. Live(stream', Reading(i))
          BY <2>1, <2>2, EventsAre DEF Live
        <4> QED BY <2>1, <3>1, <4>1, OneIs
      <3>3. \A j \in S : ~Has(one, j)
        <4>1. i \notin S
          BY <1>1, <2>1, <2>2 DEF Sensors, Sensor
        <4>2. \A j \in S : Reading(i) = Reading(j) => i = j
          BY <1>5, EventsAre
        <4> QED BY <3>2, <4>1, <4>2
      <3>4. Before(S, wire, one)
        BY <3>3 DEF Before
      <3>5. AllLive(stream', wire') /\ Ascending(S, wire')
        BY <1>2, <1>4, <2>4, <3>1, <3>2, <3>4, JoinOrder, JoinLive
      <3>6. \A j \in S : Has(wire', j) <=> Has(wire, j)
        <4>1. \A j : Has(wire \o one, j) <=> Has(wire, j) \/ Has(one, j)
          BY <1>2, <3>2, JoinHas
        <4> QED BY <2>4, <3>1, <3>3, <4>1
      <3>7. Before(S, buffer, wire') /\ Before(S, wire', owed)
        BY <1>4, <3>6 DEF Before
      <3>8. \A j \in S : Has(buffer, j) \/ Has(wire', j) \/ Has(owed, j) => j <= processed
        BY <1>4, <3>6
      <3> QED BY <1>4, <2>2, <3>5, <3>7, <3>8 DEF Arrives
    <2> QED BY <2>1, <2>3, <2>4
  <1>12. CASE OnDisconnect
    <2>1. /\ wire' = <<>> /\ buffer' = buffer /\ owed' = owed /\ processed' = processed
      BY <1>12 DEF OnDisconnect, redisVars, storeVars
    <2>2. /\ AllLive(stream', wire') /\ Ascending(S, wire') /\ (\A i : ~Has(wire', i))
          /\ Before(S, buffer, wire') /\ Before(S, wire', owed)
      BY <2>1, EmptyIs, HasEmpty
    <2>3. \A i \in S : Has(buffer, i) \/ Has(wire', i) \/ Has(owed, i) => i <= processed
      BY <1>4, <2>2
    <2> QED BY <1>4, <2>1, <2>2, <2>3 DEF Arrives
  <1>13. CASE OnEvent \/ OnResync
    <2>1. /\ wire # <<>> /\ wire' = Tail(wire) /\ owed' = owed /\ processed' = processed
          /\ buffer' = buffer \/ buffer' = Append(buffer, Head(wire))
      BY <1>13 DEF OnEvent, OnResync, redisVars
    <2>2. PICK h, t : h = Head(wire) /\ t = Tail(wire)
      OBVIOUS
    <2>3. /\ h \in Messages /\ t \in Seq(Messages) /\ Ascending(S, t)
          /\ Live(stream', h) /\ AllLive(stream', t)
          /\ \A i : Has(wire, i) <=> h = Reading(i) \/ Has(t, i)
          /\ \A i, j \in S : h = Reading(i) /\ Has(t, j) => i < j
      BY <1>2, <1>4, <2>1, <2>2, TailOrder
    <2>4. Before(S, buffer, t) /\ Before(S, t, owed)
      BY <1>4, <2>3 DEF Before
    <2>5. CASE buffer' = buffer
      <3>1. \A i \in S : Has(buffer, i) \/ Has(t, i) \/ Has(owed, i) => i <= processed
        BY <1>4, <2>3
      <3> QED BY <1>4, <2>1, <2>2, <2>3, <2>4, <2>5, <3>1 DEF Arrives
    <2>6. CASE buffer' = Append(buffer, h)
      <3>1. PICK one : one = <<h>>
        OBVIOUS
      <3>2. buffer' = buffer \o one
        BY <1>2, <2>3, <2>6, <3>1
      <3>3. /\ one \in Seq(Messages) /\ (\A i : Has(one, i) <=> h = Reading(i))
            /\ Ascending(S, one) /\ AllLive(stream', one)
        BY <2>3, <3>1, OneIs
      <3>4. Before(S, buffer, one)
        BY <1>4, <2>3, <3>3 DEF Before
      <3>5. Ascending(S, buffer') /\ AllLive(stream', buffer')
        BY <1>2, <1>4, <3>2, <3>3, <3>4, JoinOrder, JoinLive
      <3>6. \A i : Has(buffer', i) <=> Has(buffer, i) \/ h = Reading(i)
        <4>1. \A i : Has(buffer \o one, i) <=> Has(buffer, i) \/ Has(one, i)
          BY <1>2, <3>3, JoinHas
        <4> QED BY <3>2, <3>3, <4>1
      <3>7. Before(S, buffer', t) /\ Before(S, buffer', owed)
        BY <1>4, <2>3, <2>4, <3>6 DEF Before
      <3>8. \A i \in S : Has(buffer', i) \/ Has(t, i) \/ Has(owed, i) => i <= processed
        BY <1>4, <2>3, <3>6
      <3> QED BY <1>4, <2>1, <2>2, <2>3, <2>4, <3>5, <3>7, <3>8 DEF Arrives
    <2> QED BY <2>1, <2>2, <2>5, <2>6
  <1>14. CASE Flush
    <2>1. /\ buffer' = <<>> /\ wire' = wire /\ owed' = owed /\ processed' = processed
      BY <1>14 DEF Flush, redisVars
    <2>2. /\ AllLive(stream', buffer') /\ Ascending(S, buffer') /\ (\A i : ~Has(buffer', i))
          /\ Before(S, buffer', wire) /\ Before(S, buffer', owed)
      BY <2>1, EmptyIs, HasEmpty
    <2>3. \A i \in S : Has(buffer', i) \/ Has(wire, i) \/ Has(owed, i) => i <= processed
      BY <1>4, <2>2
    <2> QED BY <1>4, <2>1, <2>2, <2>3 DEF Arrives
  <1> QED BY <1>7, <1>8, <1>9, <1>10, <1>11, <1>12, <1>13, <1>14, Changes

-------------------------------------------------------------------------------
(* What may still come in.                                                 *)

LEMMA ArrivingSteps ==
  ASSUME TypeInv, TypeInv', StreamKept, Arrivals, [Next]_vars, NEW i \in Sensors, Arriving(i)'
  PROVE  Arriving(i)
  <1>1. /\ buffer \in Seq(Messages) /\ wire \in Seq(Messages) /\ owed \in Seq(Messages)
        /\ processed \in Nat /\ processed <= Len(stream) /\ Len(stream) \in Nat
    <2>1. Events \subseteq Messages
      BY EventsAre
    <2>2. buffer \in Seq(Events) /\ wire \in Seq(Messages) /\ owed \in Seq(Messages)
          /\ processed \in Nat /\ Len(stream) \in Nat
      BY DEF TypeInv
    <2> QED BY <2>1, <2>2 DEF StreamKept
  <1>2. i > processed' \/ Has(owed', i) \/ Has(wire', i) \/ Has(buffer', i)
    BY DEF Arriving, Has
  <1>3. i \in Nat /\ i \in Sensors'
    BY SensorsGrow
  <1>4. CASE UNCHANGED <<buffer, wire, owed, processed>>
    BY <1>2, <1>4 DEF Arriving
  <1>5. CASE Process
    <2>1. /\ buffer' = buffer /\ wire' = wire
          /\ processed' \in Nat /\ processed' > processed
          /\ Has(owed', i) => i = processed'
      BY <1>3, <1>5, OwedIs
    <2> QED BY <1>1, <1>2, <1>3, <2>1 DEF Arriving
  <1>6. CASE CatchUp
    <2>1. /\ buffer' = buffer /\ wire' = wire /\ owed' = <<Resync>> /\ processed' = Len(stream)
      BY <1>6 DEF CatchUp, storeVars
    <2>2. ~Has(owed', i)
      <3>1. Resync \in Messages /\ Resync # Reading(i)
        BY EventsAre DEF Resync, Reading
      <3> QED BY <2>1, <3>1, OneIs
    <2>3. i > processed' => i > processed
      BY <1>1, <1>3, <2>1
    <2> QED BY <1>2, <2>1, <2>2, <2>3 DEF Arriving
  <1>7. CASE Announce
    <2>1. /\ owed' = <<>> /\ (wire' = wire \/ wire' = wire \o owed)
          /\ buffer' = buffer /\ processed' = processed
      BY <1>7 DEF Announce, storeVars
    <2>2. Has(wire', i) => Has(wire, i) \/ Has(owed, i)
      <3>1. Has(wire \o owed, i) <=> Has(wire, i) \/ Has(owed, i)
        BY <1>1, JoinHas
      <3> QED BY <2>1, <3>1
    <2> QED BY <1>2, <2>1, <2>2, HasEmpty DEF Arriving
  <1>8. CASE TellSystem
    <2>1. PICK n \in Nat : ~Sensor(n) /\ Reading(n) \in Messages
                           /\ (wire' = wire \/ wire' = wire \o <<Reading(n)>>)
      BY <1>8, TellSystemIs
    <2>2. owed' = owed /\ processed' = processed /\ buffer' = buffer
      BY <1>8, TellSystemIs
    <2>3. Has(wire', i) => Has(wire, i)
      <3>1. <<Reading(n)>> \in Seq(Messages) /\ (Has(<<Reading(n)>>, i) <=> Reading(n) = Reading(i))
        BY <2>1, OneIs
      <3>2. Reading(n) # Reading(i)
        <4>1. Sensor(i)
          BY DEF Sensors
        <4> QED BY <1>3, <2>1, <4>1, EventsAre
      <3>3. Has(wire \o <<Reading(n)>>, i) <=> Has(wire, i) \/ Has(<<Reading(n)>>, i)
        BY <1>1, <3>1, JoinHas
      <3> QED BY <2>1, <3>1, <3>2, <3>3
    <2> QED BY <1>2, <2>2, <2>3 DEF Arriving
  <1>9. CASE OnDisconnect
    <2>1. /\ wire' = <<>> /\ buffer' = buffer /\ owed' = owed /\ processed' = processed
      BY <1>9 DEF OnDisconnect, redisVars, storeVars
    <2> QED BY <1>2, <2>1, HasEmpty DEF Arriving
  <1>10. CASE OnEvent \/ OnResync
    <2>1. /\ wire # <<>> /\ wire' = Tail(wire) /\ owed' = owed /\ processed' = processed
          /\ buffer' = buffer \/ buffer' = Append(buffer, Head(wire))
      BY <1>10 DEF OnEvent, OnResync, redisVars
    <2>2. /\ Head(wire) \in Messages
          /\ \A k : Has(wire, k) <=> Head(wire) = Reading(k) \/ Has(Tail(wire), k)
      <3>1. Ascending(Sensors, wire)
        BY DEF Arrivals, Arrives
      <3> QED BY <1>1, <2>1, <3>1, TailOrder
    <2>3. PICK h \in Messages : h = Head(wire)
      BY <2>2
    <2>4. Has(buffer', i) => Has(buffer, i) \/ h = Reading(i)
      <3>1. CASE buffer' = buffer
        BY <3>1
      <3>2. CASE buffer' = Append(buffer, h)
        <4>1. Append(buffer, h) = buffer \o <<h>>
          BY <1>1
        <4>2. <<h>> \in Seq(Messages) /\ (Has(<<h>>, i) <=> h = Reading(i))
          BY OneIs
        <4>3. Has(buffer \o <<h>>, i) <=> Has(buffer, i) \/ Has(<<h>>, i)
          BY <1>1, <4>2, JoinHas
        <4> QED BY <3>2, <4>1, <4>2, <4>3
      <3> QED BY <2>1, <2>3, <3>1, <3>2
    <2> QED BY <1>2, <2>1, <2>2, <2>3, <2>4 DEF Arriving
  <1>11. CASE Flush
    <2>1. /\ buffer' = <<>> /\ wire' = wire /\ owed' = owed /\ processed' = processed
      BY <1>11 DEF Flush, redisVars
    <2> QED BY <1>2, <2>1, HasEmpty DEF Arriving
  <1> QED BY <1>4, <1>5, <1>6, <1>7, <1>8, <1>9, <1>10, <1>11, Changes

LEMMA PendingSteps ==
  ASSUME TypeInv, TypeInv', StreamKept, Arrivals, [Next]_vars
  PROVE  \A j \in Pending' : j \in Pending \/ (j \in Nat /\ j > Len(stream))
  <1>1. SUFFICES ASSUME NEW j \in Pending' PROVE j \in Pending \/ (j \in Nat /\ j > Len(stream))
    OBVIOUS
  <1>2. j \in Sensors' /\ (j > processed' \/ Has(owed', j) \/ Has(wire', j) \/ Has(buffer', j))
    BY DEF Pending, Arriving, Has
  <1>3. j \in Nat /\ (j \in Sensors \/ j > Len(stream))
    BY <1>2, SensorsGrow
  <1>4. CASE j \in Sensors
    <2>1. PICK i \in Sensors : i = j
      BY <1>4
    <2>2. Arriving(i)'
      BY <1>2, <2>1 DEF Arriving, Has
    <2>3. Arriving(i)
      BY <2>2, ArrivingSteps
    <2> QED BY <2>1, <2>3 DEF Pending
  <1> QED BY <1>3, <1>4

(* After a flush nothing that was in the buffer is still to come.          *)
LEMMA FlushedIsGone ==
  ASSUME TypeInv, Arrivals, Flush
  PROVE  \A j \in Pending' : j \in Pending /\ \A i \in Sensors : Has(buffer, i) => i < j
  <1>1. /\ buffer' = <<>> /\ wire' = wire /\ owed' = owed /\ processed' = processed
        /\ stream' = stream
    BY DEF Flush, redisVars
  <1>2. SUFFICES ASSUME NEW j \in Pending'
                 PROVE  j \in Pending /\ \A i \in Sensors : Has(buffer, i) => i < j
    OBVIOUS
  <1>3. j \in Sensors /\ (j > processed \/ Has(owed, j) \/ Has(wire, j) \/ Has(buffer', j))
    BY <1>1 DEF Pending, Sensors, Sensor, Arriving, Has
  <1>4. j > processed \/ Has(owed, j) \/ Has(wire, j)
    BY <1>1, <1>3, HasEmpty
  <1>5. j \in Pending
    BY <1>3, <1>4 DEF Pending, Arriving
  <1>6. processed \in Nat /\ \A i \in Sensors : i \in Nat
    BY DEF TypeInv, Sensors
  <1>7. \A i \in Sensors : Has(buffer, i) => i < j
    <2>1. /\ Before(Sensors, buffer, wire) /\ Before(Sensors, buffer, owed)
          /\ \A i \in Sensors : Has(buffer, i) => i <= processed
      BY DEF Arrivals, Arrives
    <2> QED BY <1>3, <1>4, <1>6, <2>1 DEF Before
  <1> QED BY <1>5, <1>7

-------------------------------------------------------------------------------
(* The feed.                                                               *)

Fresh == Kept(buffer, ToSet(buffer) \ ToSet(feed))
InFeed(e) == \E p \in 1..Len(feed) : feed[p] = e

LEMMA FreshIs ==
  ASSUME TypeInv
  PROVE  /\ Fresh \in Seq(Events) /\ Len(Fresh) \in Nat
         /\ \A n \in 1..Len(Fresh) :
              \E k \in 1..Len(buffer) : Fresh[n] = buffer[k] /\ ~InFeed(buffer[k])
         /\ \A k \in 1..Len(buffer) :
              ~InFeed(buffer[k]) => \E n \in 1..Len(Fresh) : Fresh[n] = buffer[k]
         /\ \A m, n \in 1..Len(Fresh) :
              m < n => \E j, k \in 1..Len(buffer) :
                         j < k /\ Fresh[m] = buffer[j] /\ Fresh[n] = buffer[k]
  <1> DEFINE S == ToSet(buffer) \ ToSet(feed)
  <1>1. buffer \in Seq(Events) /\ feed \in Seq(Events)
    BY DEF TypeInv
  <1>2. Filtered(buffer, S, Fresh) /\ Fresh \in Seq(Events)
    BY <1>1, KeptFiltered DEF Fresh
  <1>3. \A k \in 1..Len(buffer) : buffer[k] \in S <=> ~InFeed(buffer[k])
    <2>1. \A e : e \in ToSet(buffer) <=> \E k \in 1..Len(buffer) : buffer[k] = e
      BY <1>1, ToSetIs
    <2>2. \A e : e \in ToSet(feed) <=> \E p \in 1..Len(feed) : feed[p] = e
      BY <1>1, ToSetIs
    <2> QED BY <2>1, <2>2 DEF InFeed
  <1> HIDE DEF S
  <1>4. Len(Fresh) \in Nat
    BY <1>2
  <1>5. \A n \in 1..Len(Fresh) :
          \E k \in 1..Len(buffer) : Fresh[n] = buffer[k] /\ ~InFeed(buffer[k])
    BY <1>2, <1>3 DEF Filtered
  <1>6. \A k \in 1..Len(buffer) :
          ~InFeed(buffer[k]) => \E n \in 1..Len(Fresh) : Fresh[n] = buffer[k]
    BY <1>2, <1>3 DEF Filtered
  <1>7. \A m, n \in 1..Len(Fresh) :
          m < n => \E j, k \in 1..Len(buffer) :
                     j < k /\ Fresh[m] = buffer[j] /\ Fresh[n] = buffer[k]
    BY <1>2 DEF Filtered
  <1> QED BY <1>2, <1>4, <1>5, <1>6, <1>7

LEMMA FlushedIs ==
  ASSUME TypeInv, Flush
  PROVE  /\ Len(feed') \in Nat /\ Len(feed) \in Nat
         /\ Len(feed') = IF MaxFeed < Len(Fresh) + Len(feed) THEN MaxFeed
                                                             ELSE Len(Fresh) + Len(feed)
         /\ \A p \in 1..Len(feed') :
              \/ /\ p <= Len(Fresh) /\ Len(Fresh) - p + 1 \in 1..Len(Fresh)
                 /\ feed'[p] = Fresh[Len(Fresh) - p + 1]
              \/ p > Len(Fresh) /\ p - Len(Fresh) \in 1..Len(feed)
                   /\ feed'[p] = feed[p - Len(Fresh)]
         /\ \A q \in 1..Len(feed) :
              Len(Fresh) + q <= MaxFeed =>
                Len(Fresh) + q \in 1..Len(feed') /\ feed'[Len(Fresh) + q] = feed[q]
         /\ added' = added + Len(Fresh)
         /\ behind' <=> \/ behind
                        \/ \E n \in 1..Len(Fresh) : Sensor(Fresh[n].id) /\ Outside(Fresh[n].id)
  <1>1. PICK f : f = Fresh
    OBVIOUS
  <1>2. f \in Seq(Events) /\ Len(f) \in Nat /\ feed \in Seq(Events) /\ Len(feed) \in Nat
    BY <1>1, FreshIs DEF TypeInv
  <1>3. PICK g : g = Reverse(f)
    OBVIOUS
  <1>4. /\ g \in Seq(Events) /\ Len(g) = Len(f)
        /\ \A k \in 1..Len(f) : g[k] = f[Len(f) - k + 1]
    BY <1>2, <1>3, ReverseIs
  <1>5. PICK all : all = g \o feed
    OBVIOUS
  <1>6. /\ all \in Seq(Events) /\ Len(all) = Len(f) + Len(feed)
        /\ \A k \in 1..Len(f) : all[k] = g[k]
        /\ \A k \in Len(f) + 1..Len(f) + Len(feed) : all[k] = feed[k - Len(f)]
    <2>1. PICK d : d = feed
      OBVIOUS
    <2>2. d \in Seq(Events) /\ all = g \o d
      BY <1>2, <1>5, <2>1
    <2>3. /\ g \o d \in Seq(Events) /\ Len(g \o d) = Len(g) + Len(d)
          /\ \A k \in 1..Len(g) : (g \o d)[k] = g[k]
          /\ \A k \in Len(g) + 1..Len(g) + Len(d) : (g \o d)[k] = d[k - Len(g)]
      BY <1>4, <2>2, ConcatIs
    <2>4. Len(g) = Len(f) /\ d = feed /\ all = g \o d
      BY <1>4, <2>1, <2>2
    <2> QED BY <2>3, <2>4
  <1>7. /\ feed' = Taken(all, MaxFeed) /\ added' = added + Len(f)
        /\ behind' = (behind \/ \E e \in ToSet(f) : Sensor(e.id) /\ Outside(e.id))
    BY <1>1, <1>3, <1>5, FlushIs DEF Fresh
  <1>8. MaxFeed \in Nat
    BY LimitsAre
  <1>9. /\ Len(feed') = IF MaxFeed < Len(all) THEN MaxFeed ELSE Len(all)
        /\ \A k \in 1..Len(feed') : feed'[k] = all[k]
    BY <1>6, <1>7, <1>8, TakenIs
  <1>10. Len(feed') \in Nat /\ Len(feed') <= Len(all)
    BY <1>2, <1>6, <1>8, <1>9
  <1>11. ASSUME NEW p \in 1..Len(feed')
         PROVE  \/ p <= Len(f) /\ Len(f) - p + 1 \in 1..Len(f) /\ feed'[p] = f[Len(f) - p + 1]
                \/ p > Len(f) /\ p - Len(f) \in 1..Len(feed) /\ feed'[p] = feed[p - Len(f)]
    <2>1. feed'[p] = all[p] /\ p \in Int /\ 1 <= p /\ p <= Len(f) + Len(feed)
      BY <1>6, <1>9, <1>10
    <2>2. CASE p <= Len(f)
      <3>1. p \in 1..Len(f) /\ Len(f) - p + 1 \in 1..Len(f)
        BY <1>2, <2>1, <2>2
      <3> QED BY <1>4, <1>6, <2>1, <2>2, <3>1
    <2>3. CASE p > Len(f)
      <3>1. p \in Len(f) + 1..Len(f) + Len(feed) /\ p - Len(f) \in 1..Len(feed)
        BY <1>2, <2>1, <2>3
      <3> QED BY <1>6, <2>1, <2>3, <3>1
    <2> QED BY <1>2, <2>1, <2>2, <2>3
  <1>12. ASSUME NEW q \in 1..Len(feed), Len(f) + q <= MaxFeed
         PROVE  Len(f) + q \in 1..Len(feed') /\ feed'[Len(f) + q] = feed[q]
    <2>1. /\ Len(f) + q \in Len(f) + 1..Len(f) + Len(feed) /\ (Len(f) + q) - Len(f) = q
          /\ Len(f) + q \in 1..Len(feed')
      BY <1>2, <1>6, <1>8, <1>9, <1>12
    <2>2. all[Len(f) + q] = feed[q]
      BY <1>6, <2>1
    <2> QED BY <1>9, <2>1, <2>2
  <1>13. behind' <=> behind \/ \E n \in 1..Len(f) : Sensor(f[n].id) /\ Outside(f[n].id)
    <2>1. \A e : e \in ToSet(f) <=> \E n \in 1..Len(f) : f[n] = e
      BY <1>2, ToSetIs
    <2> QED BY <1>7, <2>1, Zenon
  <1>14. /\ Len(feed') = IF MaxFeed < Len(f) + Len(feed) THEN MaxFeed ELSE Len(f) + Len(feed)
    BY <1>6, <1>9
  <1> QED BY <1>1, <1>2, <1>7, <1>10, <1>11, <1>12, <1>13, <1>14

(* In the feed a sensor event goes by its stream_id.                       *)
LEMMA FeedReading ==
  ASSUME TypeInv, FeedKept, NEW p \in 1..Len(feed), Sensor(feed[p].id)
  PROVE  feed[p] = Reading(feed[p].id) /\ feed[p].id \in Nat
  <1>1. feed[p] \in Events /\ feed[p].key # "event_id"
    BY DEF TypeInv, FeedKept
  <1> QED BY <1>1, EventsAre

LEMMA NewestIsSnapshot ==
  ASSUME TypeInv
  PROVE  Snapshot(Len(stream), Newest(Len(stream), SnapshotLimit)) /\ Snapshot(Len(stream), <<>>)
  <1>1. PICK s : s = Newest(Len(stream), SnapshotLimit)
    OBVIOUS
  <1>2. /\ Len(stream) \in Nat /\ trimmed \in Nat /\ SnapshotLimit \in Nat /\ SnapshotLimit > 0
    BY LimitsAre DEF TypeInv
  <1>3. /\ s \in Seq(Nat) /\ Len(s) <= SnapshotLimit
        /\ \A k \in 1..Len(s) : /\ s[k] = Len(stream) - k + 1
                                /\ s[k] > trimmed /\ s[k] <= Len(stream)
    BY <1>1, <1>2, NewestIs
  <1>4. Len(s) \in Nat
    BY <1>3
  <1>5. \A k \in 1..Len(s) : 1 <= s[k] /\ s[k] <= Len(stream) /\ s[k] = s[1] - k + 1
    <2>1. SUFFICES ASSUME NEW k \in 1..Len(s)
                   PROVE  1 <= s[k] /\ s[k] <= Len(stream) /\ s[k] = s[1] - k + 1
      OBVIOUS
    <2>2. 1 \in 1..Len(s) /\ k \in Nat
      BY <1>4
    <2>3. s[1] = Len(stream) /\ s[k] = Len(stream) - k + 1 /\ s[k] > trimmed /\ s[k] <= Len(stream)
      BY <1>2, <1>3, <2>2
    <2> QED BY <1>2, <2>2, <2>3
  <1>7. Snapshot(Len(stream), s)
    BY <1>3, <1>5 DEF Snapshot
  <1>8. Snapshot(Len(stream), <<>>)
    <2>1. Len(<<>>) = 0
      OBVIOUS
    <2> QED BY <1>2, <2>1 DEF Snapshot
  <1> QED BY <1>1, <1>7, <1>8

LEMMA SnapshotsInductive == TypeInv /\ Snapshots /\ [Next]_vars => Snapshots'
  <1> SUFFICES ASSUME TypeInv, Snapshots, [Next]_vars PROVE Snapshots'
    OBVIOUS
  <1>1. /\ Len(stream) \in Nat /\ Len(stream') \in Nat /\ Len(stream) <= Len(stream')
    BY StreamGrows
  <1>2. \A events \in Seq(Nat) :
          Snapshot(Len(stream), events) => Snapshot(Len(stream'), events)
    <2>1. SUFFICES ASSUME NEW events \in Seq(Nat), Snapshot(Len(stream), events)
                   PROVE  Snapshot(Len(stream'), events)
      OBVIOUS
    <2>2. \A k \in 1..Len(events) : events[k] \in Nat
      OBVIOUS
    <2>3. \A k \in 1..Len(events) : events[k] <= Len(stream) => events[k] <= Len(stream')
      BY <1>1, <2>2
    <2> QED BY <2>1, <2>3 DEF Snapshot
  <1>3. /\ reloads \in [1..MaxReloads ->
                          {Idle, Asked} \cup [step : {"answered"}, events : Seq(Nat)]]
    BY DEF TypeInv
  <1>4. SUFFICES ASSUME NEW r \in 1..MaxReloads, reloads'[r].step = "answered"
                 PROVE  Snapshot(Len(stream'), reloads'[r].events)
    BY DEF Snapshots
  <1>5. Snapshot(Len(stream), Newest(Len(stream), SnapshotLimit)) /\ Snapshot(Len(stream), <<>>)
    BY NewestIsSnapshot
  <1>6. Idle.step # "answered" /\ Asked.step # "answered" /\ \A s : Answered(s).events = s
    BY DEF Idle, Asked, Answered
  <1>7. Snapshot(Len(stream), reloads'[r].events)
    <2>1. CASE reloads'[r] = reloads[r]
      BY <1>4, <2>1 DEF Snapshots
    <2>2. CASE StartReload
      <3>1. PICK q \in 1..MaxReloads : reloads' = [reloads EXCEPT ![q] = Asked]
        BY <2>2 DEF StartReload
      <3>2. reloads'[r] = Asked \/ reloads'[r] = reloads[r]
        BY <1>3, <3>1
      <3> QED BY <1>4, <1>6, <2>1, <3>2
    <2>3. CASE Answer
      <3>1. PICK q \in 1..MaxReloads :
              \/ reloads' = [reloads EXCEPT ![q] = Answered(Newest(Len(stream), SnapshotLimit))]
              \/ reloads' = [reloads EXCEPT ![q] = Answered(<<>>)]
        BY <2>3 DEF Answer
      <3>2. \/ reloads'[r] = Answered(Newest(Len(stream), SnapshotLimit))
            \/ reloads'[r] = Answered(<<>>) \/ reloads'[r] = reloads[r]
        BY <1>3, <3>1
      <3> QED BY <1>5, <1>6, <2>1, <3>2
    <2>4. CASE Hydrate
      <3>1. PICK q \in 1..MaxReloads : reloads' = [reloads EXCEPT ![q] = Idle]
        BY <2>4 DEF Hydrate
      <3>2. reloads'[r] = Idle \/ reloads'[r] = reloads[r]
        BY <1>3, <3>1
      <3> QED BY <1>4, <1>6, <2>1, <3>2
    <2>5. StartReload \/ Answer \/ Hydrate \/ UNCHANGED reloads
      BY Changes
    <2> QED BY <2>1, <2>2, <2>3, <2>4, <2>5
  <1>8. reloads'[r].events \in Seq(Nat)
    <2>1. reloads' \in [1..MaxReloads ->
                          {Idle, Asked} \cup [step : {"answered"}, events : Seq(Nat)]]
      BY TypesKept DEF TypeInv
    <2>2. reloads'[r] # Idle /\ reloads'[r] # Asked
      BY <1>4, <1>6
    <2> QED BY <2>1, <2>2
  <1> QED BY <1>2, <1>7, <1>8

(* A snapshot is a run of entries of the stream, from hi down.             *)
LEMMA HydrateIs ==
  ASSUME TypeInv, Snapshots, Hydrate
  PROVE  \E n, hi \in Nat :
           /\ n <= hi /\ hi <= Len(stream)
           /\ Len(feed') = n /\ \A k \in 1..n : feed'[k] = Reading(hi - k + 1)
           /\ top' = hi /\ cut' = (IF n = 0 THEN 0 ELSE hi - n + 1) /\ added' = 0
           /\ n = 0 => hi = 0
  <1>1. PICK r \in 1..MaxReloads :
          /\ reloads[r].step = "answered"
          /\ feed' = [k \in 1..Len(reloads[r].events) |->
                        [key |-> "stream_id", id |-> reloads[r].events[k]]]
          /\ top' = IF reloads[r].events = <<>> THEN 0 ELSE Head(reloads[r].events)
          /\ cut' = IF reloads[r].events = <<>> THEN 0 ELSE Last(reloads[r].events)
    BY DEF Hydrate
  <1>2. PICK s : s = reloads[r].events
    OBVIOUS
  <1>3. s \in Seq(Nat)
    <2>1. reloads \in [1..MaxReloads ->
                         {Idle, Asked} \cup [step : {"answered"}, events : Seq(Nat)]]
      BY DEF TypeInv
    <2>2. reloads[r] # Idle /\ reloads[r] # Asked
      BY <1>1 DEF Idle, Asked
    <2> QED BY <1>2, <2>1, <2>2
  <1>4. Snapshot(Len(stream), s)
    BY <1>1, <1>2 DEF Snapshots
  <1>5. PICK n \in Nat : n = Len(s)
    BY <1>3
  <1>6. Len(stream) \in Nat /\ (n = 0 <=> s = <<>>)
    BY <1>3, <1>5 DEF TypeInv
  <1>7. \A k \in 1..n : s[k] \in Nat /\ k \in Nat
    BY <1>3, <1>5
  <1>8. \A k \in 1..n : 1 <= s[k] /\ s[k] <= Len(stream) /\ s[k] = s[1] - k + 1
    BY <1>4, <1>5 DEF Snapshot
  <1>9. PICK hi \in Nat : hi = IF n = 0 THEN 0 ELSE s[1]
    <2>1. n # 0 => 1 \in 1..n
      OBVIOUS
    <2> QED BY <1>7, <2>1
  <1>10. n # 0 => /\ 1 \in 1..n /\ n \in 1..n /\ hi = s[1] /\ hi <= Len(stream)
                  /\ s[n] = hi - n + 1 /\ 1 <= s[n] /\ s[n] \in Nat
    BY <1>7, <1>8, <1>9
  <1>11. hi <= Len(stream) /\ n <= hi /\ (n = 0 => hi = 0)
    BY <1>6, <1>9, <1>10
  <1>12. \A k \in 1..n : s[k] = hi - k + 1
    BY <1>8, <1>9, <1>10
  <1>13. Len(feed') = n /\ \A k \in 1..n : feed'[k] = Reading(hi - k + 1)
    <2>1. feed' = [k \in 1..n |-> Reading(s[k])]
      BY <1>1, <1>2, <1>5 DEF Reading
    <2>2. DOMAIN feed' = 1..n /\ \A k \in 1..n : feed'[k] = Reading(s[k])
      BY <2>1
    <2>3. Len(feed') = n
      BY <2>1
    <2> QED BY <1>12, <2>2, <2>3
  <1>14. top' = hi /\ cut' = IF n = 0 THEN 0 ELSE hi - n + 1
    <2>1. n # 0 => Head(s) = hi /\ Last(s) = hi - n + 1
      BY <1>3, <1>5, <1>6, <1>10 DEF Last
    <2> QED BY <1>1, <1>2, <1>6, <1>9, <2>1
  <1>15. added' = 0
    BY DEF Hydrate
  <1> QED BY <1>11, <1>13, <1>14, <1>15

LEMMA FreshLive ==
  ASSUME TypeInv, Arrivals, NEW n \in 1..Len(Fresh)
  PROVE  /\ Fresh[n].id \in 1..Len(stream) /\ Fresh[n] \in Events /\ ~InFeed(Fresh[n])
         /\ Fresh[n].key = "event_id" => ~Sensor(Fresh[n].id)
         /\ Sensor(Fresh[n].id) => /\ Fresh[n] = Reading(Fresh[n].id) /\ Fresh[n].id \in Sensors
                                   /\ Has(buffer, Fresh[n].id) /\ Fresh[n].id \in Pending
  <1>1. PICK k \in 1..Len(buffer) : Fresh[n] = buffer[k] /\ ~InFeed(buffer[k])
    BY FreshIs
  <1>2. Fresh[n] \in Events
    BY FreshIs
  <1>3. Fresh[n] # Resync
    BY <1>2, EventsAre
  <1>4. Live(stream, Fresh[n])
    BY <1>1 DEF Arrivals, Arrives, AllLive
  <1>5. /\ Fresh[n].id \in 1..Len(stream)
        /\ Sensor(Fresh[n].id) => Fresh[n].key = "stream_id"
        /\ Fresh[n].key = "event_id" => ~Sensor(Fresh[n].id)
    BY <1>3, <1>4 DEF Live, Sensor
  <1>6. Fresh[n].key = "stream_id" => Fresh[n] = Reading(Fresh[n].id)
    BY <1>2, EventsAre
  <1>7. Fresh[n] = Reading(Fresh[n].id) => Has(buffer, Fresh[n].id)
    BY <1>1 DEF Has
  <1> QED BY <1>1, <1>2, <1>5, <1>6, <1>7 DEF Sensors, Pending, Arriving

LEMMA FeedKeptInductive ==
  TypeInv /\ Arrivals /\ Snapshots /\ FeedKept /\ [Next]_vars => FeedKept'
  <1> SUFFICES ASSUME TypeInv, Arrivals, Snapshots, FeedKept, [Next]_vars PROVE FeedKept'
    OBVIOUS
  <1>1. /\ Len(stream) \in Nat /\ Len(stream') \in Nat /\ Len(stream) <= Len(stream')
        /\ \A i \in 1..Len(stream) : stream'[i] = stream[i]
    BY StreamGrows
  <1>2. \A i \in 1..Len(stream) : i \in Nat /\ 1 <= i /\ i <= Len(stream) /\ i <= Len(stream')
    BY <1>1
  <1>3. \A i \in 1..Len(stream) : Sensor(i) <=> stream'[i].kind = "sensor"
    BY <1>1 DEF Sensor
  <1>4. \A p \in 1..Len(feed) : feed[p].id \in 1..Len(stream)
    <2>1. \A p \in 1..Len(feed) : feed[p].id \in Nat
      BY EventsAre DEF TypeInv
    <2> QED BY <1>1, <2>1 DEF FeedKept, Known
  <1>5. SUFFICES /\ \A p \in 1..Len(feed') :
                      /\ feed'[p].id \in 1..Len(stream)
                      /\ feed'[p].key = "event_id" => ~Sensor(feed'[p].id)
                 /\ \A p, q \in 1..Len(feed') :
                      Sensor(feed'[p].id) /\ feed'[p].id = feed'[q].id => p = q
    BY <1>2, <1>3 DEF FeedKept, Known, Sensor
  <1>6. CASE feed' = feed
    BY <1>4, <1>6 DEF FeedKept
  <1>7. CASE Flush
    <2>1. /\ Len(feed') \in Nat /\ Len(Fresh) \in Nat
          /\ \A p \in 1..Len(feed') :
               \/ /\ p <= Len(Fresh) /\ Len(Fresh) - p + 1 \in 1..Len(Fresh)
                  /\ feed'[p] = Fresh[Len(Fresh) - p + 1]
               \/ p > Len(Fresh) /\ p - Len(Fresh) \in 1..Len(feed)
                    /\ feed'[p] = feed[p - Len(Fresh)]
      BY <1>7, FlushedIs, FreshIs
    <2>2. ASSUME NEW p \in 1..Len(feed')
          PROVE  /\ feed'[p].id \in 1..Len(stream)
                 /\ feed'[p].key = "event_id" => ~Sensor(feed'[p].id)
      <3>1. CASE p <= Len(Fresh)
        <4>1. PICK m \in 1..Len(Fresh) : feed'[p] = Fresh[m]
          BY <2>1, <3>1
        <4> QED BY <4>1, FreshLive
      <3>2. CASE p > Len(Fresh)
        <4>1. PICK m \in 1..Len(feed) : feed'[p] = feed[m]
          BY <2>1, <3>2
        <4> QED BY <1>4, <4>1 DEF FeedKept
      <3> QED BY <2>1, <3>1, <3>2
    <2>3. ASSUME NEW m \in 1..Len(Fresh), NEW k \in 1..Len(feed), Sensor(feed[k].id),
                 Fresh[m].id = feed[k].id
          PROVE  FALSE
      <3>1. feed[k] = Reading(feed[k].id)
        BY <2>3, FeedReading
      <3>2. Fresh[m] = Reading(Fresh[m].id) /\ ~InFeed(Fresh[m])
        BY <2>3, FreshLive
      <3> QED BY <2>3, <3>1, <3>2 DEF InFeed
    <2>4. ASSUME NEW m \in 1..Len(Fresh), NEW n \in 1..Len(Fresh), m < n, Sensor(Fresh[m].id),
                 Fresh[m].id = Fresh[n].id
          PROVE  FALSE
      <3>1. PICK i \in Sensors : i = Fresh[m].id
        BY <2>4, FreshLive
      <3>2. Fresh[m] = Reading(i) /\ Fresh[n] = Reading(i) /\ i \in Nat
        BY <2>4, <3>1, FreshLive DEF Sensors
      <3>3. PICK j, k \in 1..Len(buffer) : j < k /\ Fresh[m] = buffer[j] /\ Fresh[n] = buffer[k]
        BY <2>4, FreshIs
      <3>4. i < i
        BY <3>2, <3>3 DEF Arrivals, Arrives, Ascending
      <3> QED BY <3>2, <3>4
    <2>5. ASSUME NEW p \in 1..Len(feed'), NEW q \in 1..Len(feed'), p < q,
                 Sensor(feed'[p].id), feed'[p].id = feed'[q].id
          PROVE  FALSE
      <3>1. CASE q <= Len(Fresh)
        <4>1. p <= Len(Fresh)
          BY <2>1, <2>5, <3>1
        <4>2. PICK m \in 1..Len(Fresh) : m = Len(Fresh) - p + 1 /\ feed'[p] = Fresh[m]
          <5>1. p \in Int
            BY <2>1
          <5>2. Len(Fresh) - p + 1 \in 1..Len(Fresh) /\ feed'[p] = Fresh[Len(Fresh) - p + 1]
            BY <2>1, <4>1, <5>1
          <5> QED BY <5>2
        <4>3. PICK n \in 1..Len(Fresh) : n = Len(Fresh) - q + 1 /\ feed'[q] = Fresh[n]
          <5>1. q \in Int
            BY <2>1
          <5>2. Len(Fresh) - q + 1 \in 1..Len(Fresh) /\ feed'[q] = Fresh[Len(Fresh) - q + 1]
            BY <2>1, <3>1, <5>1
          <5> QED BY <5>2
        <4>4. n < m
          BY <2>1, <2>5, <4>2, <4>3
        <4> QED BY <2>4, <2>5, <4>2, <4>3, <4>4
      <3>2. CASE p <= Len(Fresh) /\ q > Len(Fresh)
        <4>1. PICK m \in 1..Len(Fresh) : feed'[p] = Fresh[m]
          BY <2>1, <3>2
        <4>2. PICK k \in 1..Len(feed) : feed'[q] = feed[k]
          BY <2>1, <3>2
        <4> QED BY <2>3, <2>5, <4>1, <4>2
      <3>3. CASE p > Len(Fresh)
        <4>1. q > Len(Fresh)
          BY <2>1, <2>5, <3>3
        <4>2. PICK m \in 1..Len(feed) : m = p - Len(Fresh) /\ feed'[p] = feed[m]
          BY <2>1, <3>3
        <4>3. PICK n \in 1..Len(feed) : n = q - Len(Fresh) /\ feed'[q] = feed[n]
          BY <2>1, <4>1
        <4>4. m # n
          BY <2>1, <2>5, <4>2, <4>3
        <4> QED BY <2>5, <4>2, <4>3, <4>4 DEF FeedKept
      <3> QED BY <2>1, <3>1, <3>2, <3>3
    <2>6. ASSUME NEW p \in 1..Len(feed'), NEW q \in 1..Len(feed'),
                 Sensor(feed'[p].id), feed'[p].id = feed'[q].id
          PROVE  p = q
      <3>1. ~(p < q) /\ ~(q < p)
        BY <2>5, <2>6
      <3> QED BY <2>1, <3>1
    <2> QED BY <2>2, <2>6
  <1>8. CASE Hydrate
    <2>1. PICK n, hi \in Nat :
            /\ hi <= Len(stream) /\ n <= hi
            /\ Len(feed') = n /\ \A k \in 1..n : feed'[k] = Reading(hi - k + 1)
      BY <1>8, HydrateIs
    <2>2. \A k \in 1..n : hi - k + 1 \in Nat /\ hi - k + 1 \in 1..Len(stream) /\ k \in Nat
      BY <1>1, <2>1
    <2>3. \A k \in 1..n : feed'[k].id = hi - k + 1 /\ feed'[k].key = "stream_id"
      BY <2>1, <2>2, EventsAre
    <2>4. \A j, k \in 1..n : hi - j + 1 = hi - k + 1 => j = k
      BY <2>1
    <2> QED BY <2>1, <2>2, <2>3, <2>4
  <1>9. feed' = feed \/ Flush \/ Hydrate
    BY Changes
  <1> QED BY <1>6, <1>7, <1>8, <1>9

LEMMA FeedIdsAre ==
  ASSUME TypeInv, FeedKept
  PROVE  /\ \A p \in 1..Len(feed) : feed[p].id \in Nat /\ feed[p].id \in 1..Len(stream)
         /\ Len(feed) \in Nat /\ Len(stream) \in Nat
  <1>1. \A p \in 1..Len(feed) : feed[p].id \in Nat
    BY EventsAre DEF TypeInv
  <1>2. Len(feed) \in Nat /\ Len(stream) \in Nat
    BY DEF TypeInv
  <1>3. ASSUME NEW p \in 1..Len(feed) PROVE feed[p].id \in 1..Len(stream)
    <2>1. Known(feed[p].id)
      BY DEF FeedKept
    <2> QED BY <1>1, <1>2, <2>1 DEF Known
  <1> QED BY <1>1, <1>2, <1>3

(* A sensor event of the snapshot that is in the feed is not new, so one   *)
(* that is new without being outside the snapshot came after it.           *)
LEMMA FreshIsNewer ==
  ASSUME TypeInv, Arrivals, FeedShape, NEW n \in 1..Len(Fresh), Sensor(Fresh[n].id),
         ~Outside(Fresh[n].id)
  PROVE  Fresh[n].id > top
  <1>1. PICK i \in Nat : i = Fresh[n].id
    BY FreshLive, EventsAre
  <1>2. i \in 1..Len(stream) /\ Fresh[n] = Reading(i) /\ ~InFeed(Reading(i))
    BY <1>1, FreshLive
  <1>3. top \in Nat /\ cut \in Nat /\ added \in Nat /\ MaxFeed \in Nat /\ Len(stream) \in Nat
    BY LimitsAre DEF TypeInv
  <1>4. SUFFICES ASSUME i <= top PROVE FALSE
    BY <1>1, <1>3
  <1>5. 0 < i /\ cut <= i /\ added + top - i < MaxFeed
    BY <1>1, <1>2, <1>3, <1>4 DEF Outside
  <1>6. added + top - i + 1 \in 1..Len(feed) /\ feed[added + top - i + 1] = Reading(i)
    BY <1>4, <1>5 DEF FeedShape
  <1> QED BY <1>2, <1>6 DEF InFeed

LEMMA FeedShapeInductive ==
  ASSUME TypeInv, Snapshots, FeedShape, [Next]_vars
  PROVE  FeedShape'
  <1>1. top \in Nat /\ cut \in Nat /\ added \in Nat /\ MaxFeed \in Nat
    BY LimitsAre DEF TypeInv
  <1>2. SUFFICES ASSUME NEW i \in Nat, 0 < i, cut' <= i, i <= top', added' + top' - i < MaxFeed
                 PROVE  /\ added' + top' - i + 1 \in 1..Len(feed')
                        /\ feed'[added' + top' - i + 1] = Reading(i)
    BY DEF FeedShape
  <1>3. CASE UNCHANGED <<feed, top, cut, added, behind>>
    <2>1. added + top - i + 1 \in 1..Len(feed) /\ feed[added + top - i + 1] = Reading(i)
      BY <1>2, <1>3 DEF FeedShape
    <2> QED BY <1>3, <2>1
  <1>4. CASE Flush
    <2>1. /\ added' = added + Len(Fresh) /\ Len(Fresh) \in Nat
          /\ \A q \in 1..Len(feed) :
               Len(Fresh) + q <= MaxFeed =>
                 Len(Fresh) + q \in 1..Len(feed') /\ feed'[Len(Fresh) + q] = feed[q]
      BY <1>4, FlushedIs, FreshIs
    <2>2. top' = top /\ cut' = cut
      BY <1>4 DEF Flush
    <2>3. PICK q \in Int : q = added + top - i + 1
      BY <1>1
    <2>4. added + top - i < MaxFeed
      BY <1>1, <1>2, <2>1, <2>2
    <2>5. q \in 1..Len(feed) /\ feed[q] = Reading(i)
      BY <1>2, <2>2, <2>3, <2>4 DEF FeedShape
    <2>6. added' + top' - i + 1 = Len(Fresh) + q /\ Len(Fresh) + q <= MaxFeed
      BY <1>1, <1>2, <2>1, <2>2, <2>3
    <2> QED BY <2>1, <2>5, <2>6
  <1>5. CASE Hydrate
    <2>1. PICK n, hi \in Nat :
            /\ n <= hi
            /\ Len(feed') = n /\ \A k \in 1..n : feed'[k] = Reading(hi - k + 1)
            /\ top' = hi /\ cut' = (IF n = 0 THEN 0 ELSE hi - n + 1) /\ added' = 0
            /\ n = 0 => hi = 0
      BY <1>5, HydrateIs
    <2>2. PICK k \in Int : k = added' + top' - i + 1
      BY <2>1
    <2>3. k \in 1..n /\ hi - k + 1 = i
      BY <1>2, <2>1, <2>2
    <2> QED BY <2>1, <2>2, <2>3
  <1> QED BY <1>3, <1>4, <1>5, Changes

(* FeedOrdered of the next state, written out.                             *)
OrderedNext ==
  /\ \A p, q \in 1..Len(feed') :
       p < q /\ stream'[feed'[p].id].kind = "sensor" /\ stream'[feed'[q].id].kind = "sensor"
         => feed'[p].id > feed'[q].id
  /\ \A p \in 1..Len(feed') :
       stream'[feed'[p].id].kind = "sensor" =>
         feed'[p].id <= top' \/ \A j \in Pending' : feed'[p].id < j

LEMMA OrderedNextIs == (behind' \/ OrderedNext) => FeedOrdered'
  BY DEF OrderedNext, FeedOrdered, Sensor

(* As long as the feed stays, nothing older than it is to come.            *)
LEMMA OrderStays ==
  ASSUME TypeInv, TypeInv', StreamKept, Arrivals, FeedKept, FeedOrdered, [Next]_vars,
         UNCHANGED <<feed, top, behind>>, ~behind
  PROVE  OrderedNext
  <1>1. /\ Len(stream) \in Nat /\ Len(stream') \in Nat /\ Len(stream) <= Len(stream')
        /\ \A i \in 1..Len(stream) : stream'[i] = stream[i]
    BY StreamGrows
  <1>2. \A p \in 1..Len(feed) : feed[p].id \in Nat /\ feed[p].id \in 1..Len(stream)
    BY FeedIdsAre
  <1>3. \A p \in 1..Len(feed) : stream'[feed[p].id].kind = "sensor" <=> Sensor(feed[p].id)
    BY <1>1, <1>2 DEF Sensor
  <1>4. \A p, q \in 1..Len(feed) :
          p < q /\ Sensor(feed[p].id) /\ Sensor(feed[q].id) => feed[p].id > feed[q].id
    BY DEF FeedOrdered
  <1>5. ASSUME NEW p \in 1..Len(feed), Sensor(feed[p].id), ~(feed[p].id <= top),
               NEW j \in Pending'
        PROVE  feed[p].id < j
    <2>1. j \in Pending \/ (j \in Nat /\ j > Len(stream))
      BY PendingSteps
    <2>2. CASE j \in Pending
      BY <1>5, <2>2 DEF FeedOrdered
    <2>3. CASE j \in Nat /\ j > Len(stream)
      <3>1. feed[p].id \in Nat /\ feed[p].id <= Len(stream)
        BY <1>2
      <3> QED BY <1>1, <2>3, <3>1
    <2> QED BY <2>1, <2>2, <2>3
  <1> QED BY <1>3, <1>4, <1>5 DEF OrderedNext

(* What a flush puts before the feed is newer than all of it.              *)
LEMMA OrderAfterFlush ==
  ASSUME TypeInv, Arrivals, FeedKept, FeedShape, FeedOrdered, Flush, ~behind'
  PROVE  OrderedNext
  <1>1. /\ Len(feed') \in Nat /\ Len(feed) \in Nat /\ Len(Fresh) \in Nat
        /\ \A p \in 1..Len(feed') :
             \/ /\ p <= Len(Fresh) /\ Len(Fresh) - p + 1 \in 1..Len(Fresh)
                /\ feed'[p] = Fresh[Len(Fresh) - p + 1]
             \/ p > Len(Fresh) /\ p - Len(Fresh) \in 1..Len(feed) /\ feed'[p] = feed[p - Len(Fresh)]
        /\ ~behind
        /\ \A n \in 1..Len(Fresh) : ~(Sensor(Fresh[n].id) /\ Outside(Fresh[n].id))
    BY FlushedIs, FreshIs
  <1>2. stream' = stream /\ top' = top /\ top \in Nat /\ Len(stream) \in Nat
    BY DEF Flush, redisVars, TypeInv
  <1>3. \A p \in 1..Len(feed) : feed[p].id \in Nat
    BY FeedIdsAre
  <1>4. \A n \in 1..Len(Fresh) : Fresh[n].id \in Nat
    BY FreshLive, EventsAre
  <1>5. ASSUME NEW n \in 1..Len(Fresh), Sensor(Fresh[n].id)
        PROVE  /\ Fresh[n] = Reading(Fresh[n].id) /\ Fresh[n].id \in Sensors
               /\ Has(buffer, Fresh[n].id)
               /\ \A q \in 1..Len(feed) : Sensor(feed[q].id) => feed[q].id < Fresh[n].id
    <2>1. /\ Fresh[n] = Reading(Fresh[n].id) /\ Fresh[n].id \in Sensors
          /\ Has(buffer, Fresh[n].id) /\ Fresh[n].id \in Pending
      BY <1>5, FreshLive
    <2>2. Fresh[n].id > top
      BY <1>1, <1>5, FreshIsNewer
    <2>3. ASSUME NEW q \in 1..Len(feed), Sensor(feed[q].id) PROVE feed[q].id < Fresh[n].id
      <3>1. feed[q].id <= top \/ feed[q].id < Fresh[n].id
        BY <1>1, <2>1, <2>3 DEF FeedOrdered
      <3>2. feed[q].id \in Nat /\ Fresh[n].id \in Nat
        BY <1>3, <1>4
      <3> QED BY <1>2, <2>2, <3>1, <3>2
    <2> QED BY <2>1, <2>3
  <1>6. \A p \in 1..Len(feed') :
          \/ \E m \in 1..Len(Fresh) : m = Len(Fresh) - p + 1 /\ feed'[p] = Fresh[m]
               /\ p <= Len(Fresh)
          \/ \E k \in 1..Len(feed) : k = p - Len(Fresh) /\ feed'[p] = feed[k] /\ p > Len(Fresh)
    BY <1>1
  <1>7. ASSUME NEW p \in 1..Len(feed'), NEW q \in 1..Len(feed'), p < q,
               Sensor(feed'[p].id), Sensor(feed'[q].id)
        PROVE  feed'[p].id > feed'[q].id
    <2>1. CASE \E m \in 1..Len(Fresh) : m = Len(Fresh) - p + 1 /\ feed'[p] = Fresh[m]
      <3>1. PICK m \in 1..Len(Fresh) : m = Len(Fresh) - p + 1 /\ feed'[p] = Fresh[m]
        BY <2>1
      <3>2. CASE \E n \in 1..Len(Fresh) : n = Len(Fresh) - q + 1 /\ feed'[q] = Fresh[n]
        <4>1. PICK n \in 1..Len(Fresh) : n = Len(Fresh) - q + 1 /\ feed'[q] = Fresh[n]
          BY <3>2
        <4>2. n < m
          BY <1>1, <1>7, <3>1, <4>1
        <4>3. PICK i, j \in Sensors : i = Fresh[n].id /\ j = Fresh[m].id
          BY <1>5, <1>7, <3>1, <4>1
        <4>4. Fresh[n] = Reading(i) /\ Fresh[m] = Reading(j) /\ i \in Nat /\ j \in Nat
          BY <1>4, <1>5, <1>7, <3>1, <4>1, <4>3
        <4>5. PICK a, b \in 1..Len(buffer) : a < b /\ Fresh[n] = buffer[a] /\ Fresh[m] = buffer[b]
          BY <4>2, FreshIs
        <4>6. i < j
          BY <4>4, <4>5 DEF Arrivals, Arrives, Ascending
        <4> QED BY <3>1, <4>1, <4>3, <4>4, <4>6
      <3>3. CASE \E k \in 1..Len(feed) : feed'[q] = feed[k]
        <4>1. PICK k \in 1..Len(feed) : feed'[q] = feed[k]
          BY <3>3
        <4>2. feed[k].id < Fresh[m].id /\ feed[k].id \in Nat /\ Fresh[m].id \in Nat
          BY <1>3, <1>4, <1>5, <1>7, <3>1, <4>1
        <4> QED BY <3>1, <4>1, <4>2
      <3> QED BY <1>6, <3>2, <3>3
    <2>2. CASE \E k \in 1..Len(feed) : k = p - Len(Fresh) /\ feed'[p] = feed[k] /\ p > Len(Fresh)
      <3>1. PICK k \in 1..Len(feed) : k = p - Len(Fresh) /\ feed'[p] = feed[k] /\ p > Len(Fresh)
        BY <2>2
      <3>2. q > Len(Fresh)
        BY <1>1, <1>7, <3>1
      <3>3. PICK l \in 1..Len(feed) : l = q - Len(Fresh) /\ feed'[q] = feed[l]
        BY <1>1, <3>2
      <3>4. k < l
        BY <1>1, <1>7, <3>1, <3>3
      <3> QED BY <1>1, <1>7, <3>1, <3>3, <3>4 DEF FeedOrdered
    <2> QED BY <1>6, <2>1, <2>2
  <1>8. ASSUME NEW p \in 1..Len(feed'), Sensor(feed'[p].id), ~(feed'[p].id <= top),
               NEW j \in Pending'
        PROVE  feed'[p].id < j
    <2>1. j \in Pending /\ \A i \in Sensors : Has(buffer, i) => i < j
      BY FlushedIsGone
    <2>2. CASE \E m \in 1..Len(Fresh) : feed'[p] = Fresh[m]
      <3>1. PICK m \in 1..Len(Fresh) : feed'[p] = Fresh[m]
        BY <2>2
      <3> QED BY <1>5, <1>8, <2>1, <3>1
    <2>3. CASE \E k \in 1..Len(feed) : feed'[p] = feed[k]
      <3>1. PICK k \in 1..Len(feed) : feed'[p] = feed[k]
        BY <2>3
      <3> QED BY <1>1, <1>8, <2>1, <3>1 DEF FeedOrdered
    <2> QED BY <1>6, <2>2, <2>3
  <1> HIDE DEF Fresh
  <1> QED BY <1>2, <1>7, <1>8 DEF OrderedNext, Sensor

(* A snapshot is in order.                                                 *)
LEMMA OrderAfterHydrate ==
  ASSUME TypeInv, Snapshots, Hydrate
  PROVE  OrderedNext
  <1>1. PICK n, hi \in Nat :
          /\ n <= hi
          /\ Len(feed') = n /\ \A k \in 1..n : feed'[k] = Reading(hi - k + 1)
          /\ top' = hi
    BY HydrateIs
  <1>2. \A k \in 1..n : feed'[k].id = hi - k + 1 /\ hi - k + 1 \in Nat
    <2>1. \A k \in 1..n : hi - k + 1 \in Nat
      BY <1>1
    <2> QED BY <1>1, <2>1, EventsAre
  <1>3. \A p, q \in 1..n : p < q => hi - p + 1 > hi - q + 1
    BY <1>1
  <1>4. \A p, q \in 1..n : p < q => feed'[p].id > feed'[q].id
    BY <1>2, <1>3
  <1>5. \A p \in 1..n : feed'[p].id <= top'
    BY <1>1, <1>2
  <1> QED BY <1>1, <1>4, <1>5 DEF OrderedNext

LEMMA FeedOrderedInductive ==
  ASSUME TypeInv, TypeInv', StreamKept, Arrivals, Snapshots, FeedKept, FeedShape, FeedOrdered,
         [Next]_vars
  PROVE  FeedOrdered'
  <1>1. CASE Flush
    BY <1>1, OrderAfterFlush, OrderedNextIs
  <1>2. CASE Hydrate
    BY <1>2, OrderAfterHydrate, OrderedNextIs
  <1>3. CASE UNCHANGED <<feed, top, cut, added, behind>>
    <2>1. CASE behind
      BY <1>3, <2>1, OrderedNextIs
    <2>2. CASE ~behind
      BY <1>3, <2>2, OrderStays, OrderedNextIs
    <2> QED BY <2>1, <2>2
  <1> QED BY <1>1, <1>2, <1>3, Changes

-------------------------------------------------------------------------------
(* The theorems.                                                           *)

Inv == /\ TypeInv /\ StreamKept /\ Arrivals /\ Snapshots
       /\ FeedKept /\ FeedShape /\ FeedOrdered /\ DrawerKept

LEMMA InitInv == Init => Inv
  <1> SUFFICES ASSUME Init PROVE Inv
    OBVIOUS
  <1>1. /\ stream = <<>> /\ trimmed = 0 /\ told = 0 /\ processed = 0 /\ owed = <<>>
        /\ connected = FALSE /\ wire = <<>>
        /\ buffer = <<>> /\ feed = <<>> /\ reloads = [r \in 1..MaxReloads |-> Idle]
        /\ selected = NoZone /\ rendered = TRUE /\ history = <<>> /\ requests = {}
        /\ top = 0 /\ cut = 0 /\ added = 0 /\ behind = FALSE
    BY DEF Init
  <1>2. Len(<<>>) = 0 /\ \A T : <<>> \in Seq(T)
    OBVIOUS
  <1>3. TypeInv
    BY <1>1, <1>2 DEF TypeInv
  <1>4. StreamKept
    BY <1>1, <1>2 DEF StreamKept
  <1>5. Arrivals
    BY <1>1, EmptyIs, HasEmpty DEF Arrivals, Arrives
  <1>6. Snapshots
    BY <1>1 DEF Snapshots, Idle
  <1>7. FeedKept /\ FeedShape /\ FeedOrdered
    BY <1>1, <1>2 DEF FeedKept, FeedShape, FeedOrdered
  <1>8. DrawerKept
    BY <1>1, <1>2 DEF DrawerKept, Descending
  <1> QED BY <1>3, <1>4, <1>5, <1>6, <1>7, <1>8 DEF Inv

LEMMA NextInv == Inv /\ [Next]_vars => Inv'
  <1> SUFFICES ASSUME Inv, [Next]_vars PROVE Inv'
    OBVIOUS
  <1>1. /\ TypeInv /\ StreamKept /\ Arrivals /\ Snapshots
        /\ FeedKept /\ FeedShape /\ FeedOrdered /\ DrawerKept
    BY DEF Inv
  <1>2. TypeInv'
    BY <1>1, TypesKept
  <1>3. StreamKept' /\ Snapshots' /\ FeedShape'
    BY <1>1, StreamKeptInductive, SnapshotsInductive, FeedShapeInductive
  <1>4. Arrivals' /\ DrawerKept'
    BY <1>1, <1>2, ArrivalsInductive, DrawerInductive
  <1>5. FeedKept' /\ FeedOrdered'
    BY <1>1, <1>2, FeedKeptInductive, FeedOrderedInductive
  <1> QED BY <1>2, <1>3, <1>4, <1>5 DEF Inv

LEMMA InvAlways == Spec => []Inv
  BY InitInv, NextInv, PTL DEF Spec

(* What occurs once in a sequence does so in what a filter keeps of it.    *)
LEMMA KeptOnce ==
  ASSUME NEW s \in Seq(Nat), NEW S,
         \A p, q \in 1..Len(s) : s[p] \in S /\ s[p] = s[q] => p = q
  PROVE  NoneTwice(Kept(s, S))
  <1>1. PICK t \in Seq(Nat) : t = Kept(s, S)
    BY KeptIs
  <1>2. PICK g : Steps(g, s, S, t)
    BY <1>1, KeptIs
  <1>3. \A n \in 1..Len(t) : g[n] \in 1..Len(s) /\ s[g[n]] \in S /\ t[n] = s[g[n]]
    BY <1>2 DEF Steps, Places
  <1>4. \A m, n \in 1..Len(t) : m < n => g[m] < g[n]
    BY <1>2 DEF Steps
  <1>5. Len(t) \in Nat /\ Len(s) \in Nat
    OBVIOUS
  <1>6. ASSUME NEW j \in 1..Len(t), NEW k \in 1..Len(t), t[j] = t[k] PROVE j = k
    <2>1. g[j] = g[k]
      BY <1>3, <1>6
    <2>2. (j < k => g[j] < g[k]) /\ (k < j => g[k] < g[j]) /\ g[j] \in Int /\ g[k] \in Int
      BY <1>3, <1>4, <1>5
    <2> QED BY <1>5, <2>1, <2>2
  <1> QED BY <1>1, <1>6 DEF NoneTwice

LEMMA KeptNewestFirst ==
  ASSUME NEW s \in Seq(Nat), NEW S,
         \A p, q \in 1..Len(s) : p < q /\ s[p] \in S /\ s[q] \in S => s[p] > s[q]
  PROVE  NewestFirst(Kept(s, S))
  <1>1. PICK t \in Seq(Nat) : t = Kept(s, S)
    BY KeptIs
  <1>2. PICK g : Steps(g, s, S, t)
    BY <1>1, KeptIs
  <1>3. \A n \in 1..Len(t) : g[n] \in 1..Len(s) /\ s[g[n]] \in S /\ t[n] = s[g[n]]
    BY <1>2 DEF Steps, Places
  <1>4. \A m, n \in 1..Len(t) : m < n => g[m] < g[n]
    BY <1>2 DEF Steps
  <1>5. Len(t) \in Nat
    OBVIOUS
  <1>6. ASSUME NEW k \in 1..Len(t) - 1 PROVE t[k] > t[k + 1]
    <2>1. k \in 1..Len(t) /\ k + 1 \in 1..Len(t) /\ k < k + 1
      BY <1>5
    <2> QED BY <1>3, <1>4, <2>1
  <1> QED BY <1>1, <1>6 DEF NewestFirst

(* The events that the filter "vehicle" lets through.                      *)
Readings == {i \in 1..Len(stream) : "vehicle" \in {"all", Category(i)}}

LEMMA ReadingsAre == \A i : i \in Readings <=> i \in 1..Len(stream) /\ Sensor(i)
  <1>1. \A i : "vehicle" \in {"all", Category(i)} <=> Sensor(i)
    BY DEF Category, Sensor, System
  <1> QED BY <1>1 DEF Readings

LEMMA FeedIdsIs ==
  ASSUME TypeInv
  PROVE  /\ FeedIds \in Seq(Nat) /\ Len(FeedIds) = Len(feed)
         /\ \A k \in 1..Len(feed) : FeedIds[k] = feed[k].id
  <1>1. Len(feed) \in Nat /\ \A k \in 1..Len(feed) : feed[k].id \in Nat
    BY EventsAre DEF TypeInv
  <1> QED BY <1>1 DEF FeedIds

(* The feed never shows a sensor event twice, and shows them newest first  *)
(* until one comes in that the last snapshot reaches and the feed no       *)
(* longer has: applyBatch and hydrate in parking-store.ts, whatever the    *)
(* order in which REST and the socket bring the events, and however many   *)
(* events are derived from a reading.                                      *)
THEOREM FeedInOrderAlways == Spec => []FeedInOrder
  <1>1. Inv => FeedInOrder
    <2> SUFFICES ASSUME Inv PROVE FeedInOrder
      OBVIOUS
    <2>1. TypeInv /\ FeedKept /\ FeedOrdered
      BY DEF Inv
    <2>2. PICK ids \in Seq(Nat) : ids = FeedIds
      BY <2>1, FeedIdsIs
    <2>3. /\ Len(ids) = Len(feed) /\ \A k \in 1..Len(feed) : ids[k] = feed[k].id
      BY <2>1, <2>2, FeedIdsIs
    <2>4. NoneTwice(Kept(ids, Readings))
      <3>1. \A p, q \in 1..Len(ids) : ids[p] \in Readings /\ ids[p] = ids[q] => p = q
        BY <2>1, <2>3, ReadingsAre DEF FeedKept
      <3> QED BY <3>1, KeptOnce
    <2>5. behind \/ NewestFirst(Kept(ids, Readings))
      <3>1. SUFFICES ASSUME ~behind PROVE NewestFirst(Kept(ids, Readings))
        OBVIOUS
      <3>2. \A p, q \in 1..Len(ids) :
              p < q /\ ids[p] \in Readings /\ ids[q] \in Readings => ids[p] > ids[q]
        BY <2>1, <2>3, <3>1, ReadingsAre DEF FeedOrdered
      <3> QED BY <3>2, KeptNewestFirst
    <2>6. Items(FeedIds, "vehicle") = Kept(ids, Readings)
      BY <2>2 DEF Items, Readings
    <2> QED BY <2>4, <2>5, <2>6 DEF FeedInOrder
  <1> QED BY <1>1, InvAlways, PTL

(* What the drawer lists: of the feed, then of the history.                *)
Shelf == Kept(FeedIds, OfZone(selected))
Rest == Kept(history, ToSet(history) \ ToSet(Shelf))

LEMMA ShelfIs ==
  ASSUME TypeInv, FeedKept
  PROVE  /\ Shelf \in Seq(Nat)
         /\ \A p \in 1..Len(Shelf) : Shelf[p] \in OfZone(selected)
         /\ \A p, q \in 1..Len(Shelf) : Sensor(Shelf[p]) /\ Shelf[p] = Shelf[q] => p = q
  <1>1. PICK ids \in Seq(Nat) : ids = FeedIds
    BY FeedIdsIs
  <1>2. /\ Len(ids) = Len(feed) /\ \A k \in 1..Len(feed) : ids[k] = feed[k].id
    BY <1>1, FeedIdsIs
  <1>3. PICK t \in Seq(Nat) : t = Shelf
    BY <1>1, KeptIs DEF Shelf
  <1>4. PICK g : Steps(g, ids, OfZone(selected), t)
    BY <1>1, <1>3, KeptIs DEF Shelf
  <1>5. \A n \in 1..Len(t) :
          g[n] \in 1..Len(ids) /\ ids[g[n]] \in OfZone(selected) /\ t[n] = ids[g[n]]
    BY <1>4 DEF Steps, Places
  <1>6. \A m, n \in 1..Len(t) : m < n => g[m] < g[n]
    BY <1>4 DEF Steps
  <1>7. ASSUME NEW p \in 1..Len(t), NEW q \in 1..Len(t), Sensor(t[p]), t[p] = t[q] PROVE p = q
    <2>1. g[p] \in 1..Len(feed) /\ g[q] \in 1..Len(feed) /\ Len(feed) \in Nat
      BY <1>2, <1>5 DEF TypeInv
    <2>2. t[p] = feed[g[p]].id /\ t[q] = feed[g[q]].id
      BY <1>2, <1>5, <2>1
    <2>3. g[p] = g[q]
      BY <1>7, <2>1, <2>2 DEF FeedKept
    <2>4. (p < q => g[p] < g[q]) /\ (q < p => g[q] < g[p]) /\ g[p] \in Int /\ g[q] \in Int
      BY <1>6, <2>1
    <2>5. p \in Int /\ q \in Int
      OBVIOUS
    <2> QED BY <2>3, <2>4, <2>5
  <1> QED BY <1>3, <1>5, <1>7

LEMMA RestIs ==
  ASSUME TypeInv, FeedKept, Descending(history)
  PROVE  /\ Rest \in Seq(Nat)
         /\ \A p \in 1..Len(Rest) : /\ \E k \in 1..Len(history) : Rest[p] = history[k]
                                    /\ \A q \in 1..Len(Shelf) : Shelf[q] # Rest[p]
         /\ \A p, q \in 1..Len(Rest) : Rest[p] = Rest[q] => p = q
  <1>1. history \in Seq(Nat)
    BY DEF TypeInv
  <1>2. PICK S : S = ToSet(history) \ ToSet(Shelf)
    OBVIOUS
  <1>3. PICK t \in Seq(Nat) : t = Rest
    BY <1>1, KeptIs DEF Rest
  <1>4. PICK g : Steps(g, history, S, t)
    BY <1>1, <1>2, <1>3, KeptIs DEF Rest
  <1>5. \A n \in 1..Len(t) : g[n] \in 1..Len(history) /\ history[g[n]] \in S /\ t[n] = history[g[n]]
    BY <1>4 DEF Steps, Places
  <1>6. \A m, n \in 1..Len(t) : m < n => g[m] < g[n]
    BY <1>4 DEF Steps
  <1>7. \A e : e \in ToSet(Shelf) <=> \E q \in 1..Len(Shelf) : Shelf[q] = e
    BY ShelfIs, ToSetIs
  <1>8. \A p \in 1..Len(t) : \A q \in 1..Len(Shelf) : Shelf[q] # t[p]
    BY <1>2, <1>5, <1>7
  <1>9. ASSUME NEW p \in 1..Len(t), NEW q \in 1..Len(t), t[p] = t[q] PROVE p = q
    <2>1. \A m, n \in 1..Len(t) : m < n => t[m] # t[n]
      <3>1. SUFFICES ASSUME NEW m \in 1..Len(t), NEW n \in 1..Len(t), m < n PROVE t[m] # t[n]
        OBVIOUS
      <3>2. history[g[m]] > history[g[n]]
        BY <1>5, <1>6, <3>1 DEF Descending
      <3>3. history[g[m]] \in Nat /\ history[g[n]] \in Nat
        <4>1. \A k \in 1..Len(history) : history[k] \in Nat
          BY <1>1
        <4> QED BY <1>5, <4>1
      <3> QED BY <1>5, <3>2, <3>3
    <2>2. p \in Int /\ q \in Int
      OBVIOUS
    <2> QED BY <1>9, <2>1, <2>2
  <1> QED BY <1>3, <1>5, <1>8, <1>9

(* The drawer is of the selected zone once the effect has run, and lists   *)
(* no sensor event twice: the effect of zoneId in ZoneDrawer.tsx, with its *)
(* cancelled request, and the merge of the feed with the history.          *)
THEOREM DrawerIsOfZoneAlways == Spec => []DrawerIsOfZone
  <1>1. Inv => DrawerIsOfZone
    <2> SUFFICES ASSUME Inv, rendered
                 PROVE  /\ \A i \in ToSet(Drawer) : stream[i].zone = selected
                        /\ NoneTwice(Items(Drawer, "vehicle"))
      BY DEF DrawerIsOfZone
    <2>1. TypeInv /\ FeedKept /\ DrawerKept
      BY DEF Inv
    <2>2. PICK d : d = Drawer
      OBVIOUS
    <2>3. SUFFICES /\ d \in Seq(Nat)
                   /\ \A p \in 1..Len(d) : stream[d[p]].zone = selected
                   /\ \A p, q \in 1..Len(d) : Sensor(d[p]) /\ d[p] = d[q] => p = q
      <3> SUFFICES ASSUME d \in Seq(Nat),
                          \A p \in 1..Len(d) : stream[d[p]].zone = selected,
                          \A p, q \in 1..Len(d) : Sensor(d[p]) /\ d[p] = d[q] => p = q
                   PROVE  /\ \A i \in ToSet(d) : stream[i].zone = selected
                          /\ NoneTwice(Items(d, "vehicle"))
        BY <2>2
      <3>1. \A i \in ToSet(d) : stream[i].zone = selected
        BY ToSetIs
      <3>2. NoneTwice(Kept(d, Readings))
        <4>1. \A p, q \in 1..Len(d) : d[p] \in Readings /\ d[p] = d[q] => p = q
          BY ReadingsAre
        <4> QED BY <4>1, KeptOnce
      <3> QED BY <3>1, <3>2 DEF Items, Readings
    <2>4. CASE selected = NoZone
      <3>1. d = <<>>
        BY <2>2, <2>4 DEF Drawer
      <3> QED BY <3>1
    <2>5. CASE selected # NoZone
      <3>1. PICK live \in Seq(Nat) : live = Shelf
        BY <2>1, ShelfIs
      <3>2. /\ \A p \in 1..Len(live) : live[p] \in OfZone(selected)
            /\ \A p, q \in 1..Len(live) : Sensor(live[p]) /\ live[p] = live[q] => p = q
        BY <2>1, <3>1, ShelfIs
      <3>3. Descending(history) /\ Of(history, selected)
        BY <2>1, <2>5 DEF DrawerKept
      <3>4. PICK rest \in Seq(Nat) : rest = Rest
        BY <2>1, <3>3, RestIs
      <3>5. /\ \A p \in 1..Len(rest) : /\ \E k \in 1..Len(history) : rest[p] = history[k]
                                       /\ \A q \in 1..Len(live) : live[q] # rest[p]
            /\ \A p, q \in 1..Len(rest) : rest[p] = rest[q] => p = q
        BY <2>1, <3>1, <3>3, <3>4, RestIs
      <3>6. PICK all \in Seq(Nat) : all = live \o rest
        BY ConcatIs
      <3>7. /\ Len(all) = Len(live) + Len(rest) /\ Len(live) \in Nat /\ Len(rest) \in Nat
            /\ \A k \in 1..Len(live) : all[k] = live[k]
            /\ \A k \in Len(live) + 1..Len(live) + Len(rest) : all[k] = rest[k - Len(live)]
        BY <3>6, ConcatIs
      <3>8. d = Taken(all, DrawerLimit) /\ DrawerLimit \in Nat
        BY <2>2, <2>5, <3>1, <3>4, <3>6, LimitsAre DEF Drawer, Shelf, Rest
      <3>9. d \in Seq(Nat) /\ Len(d) \in Nat /\ Len(d) <= Len(all) /\ \A k \in 1..Len(d) :
              d[k] = all[k]
        <4>1. /\ d \in Seq(Nat) /\ Len(d) = IF DrawerLimit < Len(all) THEN DrawerLimit ELSE Len(all)
              /\ \A k \in 1..Len(d) : d[k] = all[k]
          BY <3>8, TakenIs
        <4> QED BY <3>8, <4>1
      <3>10. \A p \in 1..Len(d) :
               \/ p \in 1..Len(live) /\ d[p] = live[p]
               \/ p - Len(live) \in 1..Len(rest) /\ d[p] = rest[p - Len(live)] /\ p > Len(live)
        <4>1. SUFFICES ASSUME NEW p \in 1..Len(d)
                       PROVE  \/ p \in 1..Len(live) /\ d[p] = live[p]
                              \/ /\ p - Len(live) \in 1..Len(rest) /\ p > Len(live)
                                 /\ d[p] = rest[p - Len(live)]
          OBVIOUS
        <4>2. p \in 1..Len(live) \/ p \in Len(live) + 1..Len(live) + Len(rest)
          BY <3>7, <3>9
        <4>3. d[p] = all[p]
          BY <3>9
        <4>4. CASE p \in 1..Len(live)
          BY <3>7, <4>3, <4>4
        <4>5. CASE p \in Len(live) + 1..Len(live) + Len(rest)
          <5>1. p - Len(live) \in 1..Len(rest) /\ p > Len(live)
            BY <3>7, <4>5
          <5> QED BY <3>7, <4>3, <4>5, <5>1
        <4> QED BY <4>2, <4>4, <4>5
      <3>11. \A p \in 1..Len(d) : stream[d[p]].zone = selected
        <4>1. \A i \in OfZone(selected) : stream[i].zone = selected
          BY DEF OfZone
        <4>2. \A k \in 1..Len(history) : stream[history[k]].zone = selected
          BY <3>3 DEF Of
        <4>3. \A q \in 1..Len(live) : stream[live[q]].zone = selected
          BY <3>2, <4>1
        <4>4. \A q \in 1..Len(rest) : stream[rest[q]].zone = selected
          BY <3>5, <4>2
        <4> QED BY <3>10, <4>3, <4>4
      <3>12. ASSUME NEW p \in 1..Len(d), NEW q \in 1..Len(d), Sensor(d[p]), d[p] = d[q]
             PROVE  p = q
        <4>1. CASE p \in 1..Len(live) /\ d[p] = live[p]
          <5>1. q \in 1..Len(live) /\ d[q] = live[q]
            <6>1. SUFFICES ASSUME q - Len(live) \in 1..Len(rest), d[q] = rest[q - Len(live)]
                           PROVE  FALSE
              BY <3>10
            <6>2. live[p] # rest[q - Len(live)]
              BY <3>5, <4>1, <6>1
            <6> QED BY <3>12, <4>1, <6>1, <6>2
          <5> QED BY <3>2, <3>12, <4>1, <5>1
        <4>2. CASE p - Len(live) \in 1..Len(rest) /\ d[p] = rest[p - Len(live)] /\ p > Len(live)
          <5>1. q - Len(live) \in 1..Len(rest) /\ d[q] = rest[q - Len(live)] /\ q > Len(live)
            BY <3>5, <3>10, <3>12, <4>2
          <5>2. p - Len(live) = q - Len(live)
            BY <3>5, <3>12, <4>2, <5>1
          <5>3. p \in Int /\ q \in Int
            OBVIOUS
          <5> QED BY <3>7, <5>2, <5>3
        <4> QED BY <3>10, <4>1, <4>2
      <3> QED BY <3>9, <3>11, <3>12
    <2> QED BY <2>4, <2>5
  <1> QED BY <1>1, InvAlways, PTL

(* A zone's history is its newest events as of the first batch, without a  *)
(* hole, though the stream grows and is trimmed between two batches:       *)
(* getEvents in parking.service.ts, which reads back from the entry before *)
(* the last one it has.                                                    *)
THEOREM HistoryIsNewestAlways == Spec => []HistoryIsNewest
  <1>1. Inv => HistoryIsNewest
    <2> SUFFICES ASSUME Inv, NEW r \in requests, r.done,
                        NEW oldest,
                        oldest = IF trimmed > r.from - ScanLimit THEN trimmed + 1
                                                                 ELSE r.from - ScanLimit + 1
                 PROVE  /\ NewestFirst(r.out)
                        /\ \A i \in {i \in oldest..r.from :
                             stream[i].zone = r.zone} \ ToSet(r.out) :
                             Len(r.out) = HistoryLimit /\ \A j \in ToSet(r.out) : j > i
      BY DEF HistoryIsNewest
    <2>1. TypeInv /\ Reads(r)
      BY DEF Inv, DrawerKept
    <2>2. r.out \in Seq(Nat) /\ r.from \in Nat /\ trimmed \in Nat /\ ScanLimit \in Nat
      <3>1. r \in Requests
        BY <2>1 DEF TypeInv
      <3> QED BY <2>1, <3>1, LimitsAre DEF Requests, TypeInv
    <2>3. PICK out \in Seq(Nat) : out = r.out
      BY <2>2
    <2>4. NewestFirst(out)
      <3>1. Descending(out) /\ Len(out) \in Nat
        BY <2>1, <2>3 DEF Reads
      <3> QED BY <3>1 DEF NewestFirst, Descending
    <2>5. oldest \in Nat /\ oldest > trimmed /\ oldest > r.from - ScanLimit
      BY <2>2
    <2>6. Complete(r, oldest)
      BY <2>1, <2>5 DEF Reads
    <2>7. \A e : e \in ToSet(out) <=> \E p \in 1..Len(out) : out[p] = e
      BY ToSetIs
    <2>8. ASSUME NEW i \in oldest..r.from, stream[i].zone = r.zone, i \notin ToSet(out)
          PROVE  Len(out) = HistoryLimit /\ \A j \in ToSet(out) : j > i
      <3>1. ~In(out, i)
        BY <2>7, <2>8 DEF In
      <3>2. Len(out) = HistoryLimit /\ \A p \in 1..Len(out) : out[p] > i
        BY <2>3, <2>6, <2>8, <3>1 DEF Complete
      <3> QED BY <2>7, <3>2
    <2> QED BY <2>3, <2>4, <2>8
  <1> QED BY <1>1, InvAlways, PTL

------------------------------------------------------------------------------
(* The second part: ServiceStatus.                                         *)

Notes == {"", "RUNNING", "PAUSED", "connected", "disconnected"}
Answers ==
  {NoAnswer} \cup [read : {TRUE}, exists : [Services -> BOOLEAN], note : [Services -> Notes]]

StatusTypeInv ==
  /\ alive \in [Services -> BOOLEAN] /\ ready \in [Services -> BOOLEAN]
  /\ mode \in [Services -> Notes] /\ \A s \in Services : mode[s] \in Modes[s]
  /\ beat \in [Services -> -1..Period] /\ unsent \in [Services -> Notes]
  /\ left \in [Services -> 0..TTL] /\ note \in [Services -> Notes]
  /\ backend \in BOOLEAN /\ pushIn \in 0..Push
  /\ answer \in Answers
  /\ steady \in [Services -> 0..Long] /\ calm \in 0..Long

(* Only a process that runs has a connection, and it has begun to beat.    *)
Started == \A s \in Services : ready[s] => alive[s] /\ beat[s] # NotStarted

(* A service that works has beaten since it changed, if its period is over *)
(* since; the key of one that does not is running out.                     *)
Beaten(s) == left[s] >= TTL - Period + beat[s] /\ note[s] = mode[s]
RunningOut(s) == left[s] = 0 \/ left[s] + steady[s] <= TTL

KeysFollow ==
  \A s \in Services :
    IF Working(s) THEN steady[s] + beat[s] > Period => Beaten(s) ELSE RunningOut(s)

(* How long a key needs to follow its service.                             *)
Lag(s) == IF Working(s) THEN Period ELSE TTL

(* An answer on its way tells of this very tick, unless the backend was    *)
(* without a connection meanwhile.                                         *)
AnswerIsTrue ==
  answer # NoAnswer /\ backend /\ calm > 0 =>
    /\ pushIn = Push
    /\ \A s \in Services : steady[s] > Lag(s) =>
         /\ answer.exists[s] = Working(s)
         /\ Working(s) => answer.note[s] = mode[s]

(* Ticks since the answer that the page shows was read.                    *)
Age == IF answer = NoAnswer THEN Push - pushIn ELSE Push

PageIsTrue ==
  backend /\ calm > Age =>
    /\ \A e \in Entries : steady[Source(e)] > Age + Lag(Source(e)) => shown[e] = Expected(e)
    /\ health = HealthOf(shown, TRUE)

------------------------------------------------------------------------------
(* Constants and types.                                                    *)

LEMMA PeriodIs ==
  /\ Period \in Nat \ {0} /\ TTL \in Nat \ {0} /\ Push \in Nat \ {0} /\ Period < TTL
  /\ Long = TTL + Push + 1
  <1>1. TTL \in Nat \ {0, 1} /\ Push \in Nat \ {0}
    BY ServiceStatusAssumption
  <1>2. TTL \div 3 \in Nat /\ TTL \div 3 < TTL
    BY <1>1
  <1> QED BY <1>1, <1>2 DEF Period, Long

LEMMA LaterIs ==
  ASSUME NEW n \in 0..Long
  PROVE  Later(n) \in 0..Long /\ Later(n) = IF n < Long THEN n + 1 ELSE n
  BY PeriodIs DEF Later

LEMMA ModesAre ==
  ASSUME NEW s \in Services
  PROVE  /\ Modes[s] \subseteq Notes
         /\ ModeAtStart[s] \in Modes[s]
  <1>1. s \in {"publisher", "processor", "archiver"}
    BY ServiceStatusAssumption
  <1>2. Modes["publisher"] = {"RUNNING", "PAUSED"} /\ Modes["processor"] = {"RUNNING"}
        /\ Modes["archiver"] = {"connected", "disconnected"}
    BY DEF Modes
  <1>3. \E m \in Modes[s] : m \in {"RUNNING", "connected"}
    BY <1>1, <1>2
  <1>4. (CHOOSE m \in Modes[s] : m \in {"RUNNING", "connected"}) \in Modes[s]
    BY <1>3
  <1>5. ModeAtStart[s] = CHOOSE m \in Modes[s] : m \in {"RUNNING", "connected"}
    BY DEF ModeAtStart
  <1>6. ModeAtStart[s] \in Modes[s]
    BY <1>4, <1>5
  <1> QED BY <1>1, <1>2, <1>6 DEF Notes

LEMMA BoundsAre == 0 \in 0..Long /\ 0 \in 0..TTL /\ Push \in 0..Push /\ -1 \in -1..Period
  BY PeriodIs

(* A step of one service.                                                  *)
ServiceStep(s) ==
  Connect(s) \/ Disconnect(s) \/ Beat(s) \/ ChangeMode(s) \/ Stop(s) \/ Start(s) \/ Evict(s)

LEMMA ServiceStepTypes ==
  ASSUME StatusTypeInv, NEW x \in Services, ServiceStep(x)
  PROVE  StatusTypeInv'
  <1>1. UNCHANGED <<backend, pushIn, answer, calm>>
    BY DEF ServiceStep, Connect, Disconnect, Beat, ChangeMode, Stop, Start, Evict, pageVars
  <1>2. alive' \in [Services -> BOOLEAN] /\ ready' \in [Services -> BOOLEAN]
    BY DEF StatusTypeInv, ServiceStep, Connect, Disconnect, Beat, ChangeMode, Stop, Start, Evict,
           serviceVars
  <1>3. beat' \in [Services -> -1..Period]
    <2>1. /\ Period \in -1..Period /\ NotStarted \in -1..Period /\ 0 \in -1..Period
          /\ beat[x] \in -1..Period
      BY PeriodIs DEF NotStarted, StatusTypeInv
    <2>2. beat' = beat \/ \E n \in -1..Period : beat' = [beat EXCEPT ![x] = n]
      BY <2>1 DEF ServiceStep, Connect, Disconnect, Beat, ChangeMode, Stop, Start, Evict,
                  serviceVars
    <2> QED BY <2>2 DEF StatusTypeInv
  <1>4. steady' \in [Services -> 0..Long]
    <2>1. 0 \in 0..Long
      BY PeriodIs
    <2>2. steady' = steady \/ steady' = [steady EXCEPT ![x] = 0]
      BY DEF ServiceStep, Connect, Disconnect, Beat, ChangeMode, Stop, Start, Evict
    <2> QED BY <2>1, <2>2 DEF StatusTypeInv
  <1>5. mode' \in [Services -> Notes] /\ \A s \in Services : mode'[s] \in Modes[s]
    <2>1. CASE ChangeMode(x) \/ Start(x)
      <3>1. PICK m \in Modes[x] : mode' = [mode EXCEPT ![x] = m]
        BY <2>1, ModesAre DEF ChangeMode, Start
      <3>2. m \in Notes
        BY ModesAre
      <3> QED BY <3>1, <3>2 DEF StatusTypeInv
    <2>2. CASE ~(ChangeMode(x) \/ Start(x))
      <3>1. mode' = mode
        BY <2>2 DEF ServiceStep, Connect, Disconnect, Beat, Stop, Evict, serviceVars
      <3> QED BY <3>1 DEF StatusTypeInv
    <2> QED BY <2>1, <2>2
  <1>6. unsent' \in [Services -> Notes]
    <2>1. "" \in Notes /\ mode[x] \in Notes
      BY DEF StatusTypeInv, Notes
    <2>2. unsent' = unsent \/ unsent' = [unsent EXCEPT ![x] = ""]
            \/ unsent' = [unsent EXCEPT ![x] = mode[x]]
      BY DEF ServiceStep, Connect, Disconnect, Beat, ChangeMode, Stop, Start, Evict,
             serviceVars
    <2> HIDE DEF Notes
    <2> QED BY <2>1, <2>2 DEF StatusTypeInv
  <1>7. left' \in [Services -> 0..TTL] /\ note' \in [Services -> Notes]
    <2>1. mode[x] \in Notes /\ unsent[x] \in Notes /\ TTL \in 0..TTL /\ 0 \in 0..TTL
      BY PeriodIs DEF StatusTypeInv
    <2>2. CASE \E m \in Notes : SetKey(x, m)
      BY <2>1, <2>2 DEF StatusTypeInv, SetKey
    <2>3. CASE left' = [left EXCEPT ![x] = 0] /\ note' = note
      BY <2>1, <2>3 DEF StatusTypeInv
    <2>4. CASE UNCHANGED keyVars
      BY <2>4 DEF StatusTypeInv, keyVars
    <2> QED BY <2>1, <2>2, <2>3, <2>4 DEF ServiceStep, Connect, Disconnect, Beat, ChangeMode,
                                          Stop, Start, Evict
  <1> QED BY <1>1, <1>2, <1>3, <1>4, <1>5, <1>6, <1>7 DEF StatusTypeInv

LEMMA TypeInvInductive == StatusTypeInv /\ [StatusNext]_statusVars => StatusTypeInv'
  <1> SUFFICES ASSUME StatusTypeInv, [StatusNext]_statusVars PROVE StatusTypeInv'
    OBVIOUS
  <1> USE PeriodIs
  <1>1. CASE \E s \in Services : ServiceStep(s)
    BY <1>1, ServiceStepTypes
  <1>0. KeysNow \in Answers
    <2>1. [s \in Services |-> left[s] > 0] \in [Services -> BOOLEAN]
      OBVIOUS
    <2>2. PICK exists \in [Services -> BOOLEAN] : exists = [s \in Services |-> left[s] > 0]
      BY <2>1
    <2>3. KeysNow = [read |-> TRUE, exists |-> exists, note |-> note]
      BY <2>2 DEF KeysNow
    <2> QED BY <2>3 DEF StatusTypeInv, Answers
  <1>2. CASE BackendConnects
    <2>1. answer' \in Answers
      BY <1>0, <1>2 DEF BackendConnects, StatusTypeInv
    <2>2. backend' \in BOOLEAN /\ calm' \in 0..Long
      <3>1. backend' = TRUE /\ calm' = 0
        BY <1>2 DEF BackendConnects
      <3> QED BY <3>1, BoundsAre
    <2>3. UNCHANGED <<alive, ready, mode, beat, unsent, left, note, pushIn, steady>>
      BY <1>2 DEF BackendConnects, serviceVars, keyVars
    <2> QED BY <2>1, <2>2, <2>3 DEF StatusTypeInv
  <1>3. CASE BackendDisconnects
    <2>1. answer' \in Answers
      BY <1>3 DEF BackendDisconnects, StatusTypeInv, Answers
    <2>2. backend' \in BOOLEAN /\ calm' \in 0..Long
      <3>1. backend' = FALSE /\ calm' = 0
        BY <1>3 DEF BackendDisconnects
      <3>2. 0 \in 0..Long
        OBVIOUS
      <3> QED BY <3>1, <3>2
    <2>3. UNCHANGED <<alive, ready, mode, beat, unsent, left, note, pushIn, steady>>
      BY <1>3 DEF BackendDisconnects, serviceVars, keyVars
    <2> QED BY <2>1, <2>2, <2>3 DEF StatusTypeInv
  <1>4. CASE PushUnknown
    BY <1>4 DEF StatusTypeInv, PushUnknown, serviceVars, keyVars
  <1>5. CASE PushStarts
    <2>1. answer' \in Answers
      BY <1>0, <1>5 DEF PushStarts
    <2> QED BY <1>5, <2>1 DEF StatusTypeInv, PushStarts, serviceVars, keyVars
  <1>6. CASE PushEnds
    BY <1>6 DEF StatusTypeInv, PushEnds, Answers, serviceVars, keyVars
  <1>7. CASE Tick
    <2>1. beat' \in [Services -> -1..Period] /\ left' \in [Services -> 0..TTL]
      BY <1>7 DEF StatusTypeInv, Tick
    <2>2. pushIn' \in 0..Push
      BY <1>7 DEF StatusTypeInv, Tick, Due
    <2>3. steady' \in [Services -> 0..Long] /\ calm' \in 0..Long
      BY <1>7, LaterIs DEF StatusTypeInv, Tick
    <2> QED BY <1>7, <2>1, <2>2, <2>3 DEF StatusTypeInv, Tick
  <1>8. CASE UNCHANGED statusVars
    BY <1>8 DEF StatusTypeInv, statusVars
  <1> QED BY <1>1, <1>2, <1>3, <1>4, <1>5, <1>6, <1>7, <1>8 DEF StatusNext, ServiceStep

(* What all steps but those of a service and of time leave alone.          *)
LEMMA OtherSteps ==
  ASSUME [StatusNext]_statusVars, ~Tick, \A s \in Services : ~ServiceStep(s)
  PROVE  UNCHANGED <<alive, ready, mode, beat, left, note, steady>>
  BY DEF StatusNext, ServiceStep, BackendConnects, BackendDisconnects, PushUnknown, PushStarts,
         PushEnds, statusVars, serviceVars, keyVars

------------------------------------------------------------------------------
(* Keys.                                                                   *)

LEMMA StartedInductive == StatusTypeInv /\ Started /\ [StatusNext]_statusVars => Started'
  <1> SUFFICES ASSUME StatusTypeInv, Started, [StatusNext]_statusVars PROVE Started'
    OBVIOUS
  <1>1. CASE \E s \in Services : ServiceStep(s)
    <2>1. PICK x \in Services : ServiceStep(x)
      BY <1>1
    <2> SUFFICES ASSUME NEW s \in Services, ready'[s]
                 PROVE  alive'[s] /\ beat'[s] # NotStarted
      BY DEF Started
    <2> USE PeriodIs DEF StatusTypeInv, Started, NotStarted
    <2>2. CASE Connect(x)
      <3>1. alive' = alive /\ alive[x] /\ ready' = [ready EXCEPT ![x] = TRUE]
        BY <2>2 DEF Connect
      <3>2. alive'[s]
        BY <3>1
      <3>3. beat' = [beat EXCEPT ![x] = IF beat[x] = NotStarted THEN 0 ELSE beat[x]]
        BY <2>2 DEF Connect
      <3>4. CASE s = x
        BY <3>2, <3>3, <3>4
      <3>5. CASE s # x
        <4>1. beat'[s] = beat[s] /\ ready'[s] = ready[s]
          BY <3>1, <3>3, <3>5
        <4> QED BY <3>2, <4>1
      <3> QED BY <3>4, <3>5
    <2>3. CASE Disconnect(x)
      BY <2>3 DEF Disconnect
    <2>4. CASE Beat(x)
      BY <2>4 DEF Beat
    <2>5. CASE ChangeMode(x) \/ Evict(x)
      BY <2>5 DEF ChangeMode, Evict, serviceVars
    <2>6. CASE Stop(x)
      BY <2>6 DEF Stop
    <2>7. CASE Start(x)
      BY <2>7 DEF Start
    <2> QED BY <2>1, <2>2, <2>3, <2>4, <2>5, <2>6, <2>7 DEF ServiceStep
  <1>2. CASE Tick
    <2>1. beat' = [s \in Services |-> IF beat[s] > 0 THEN beat[s] - 1 ELSE beat[s]]
          /\ alive' = alive /\ ready' = ready
      BY <1>2 DEF Tick
    <2>2. \A s \in Services : beat[s] # NotStarted => beat'[s] # NotStarted
      BY <2>1 DEF StatusTypeInv, NotStarted
    <2> QED BY <2>1, <2>2 DEF Started
  <1>3. CASE ~Tick /\ \A s \in Services : ~ServiceStep(s)
    BY <1>3, OtherSteps DEF Started
  <1> QED BY <1>1, <1>2, <1>3

(* A step of a service leaves what the others are alone, and either what   *)
(* its own is, or it is a change.                                          *)
Same(s) == alive'[s] = alive[s] /\ ready'[s] = ready[s] /\ mode'[s] = mode[s]
           /\ steady'[s] = steady[s]

LEMMA OthersSame ==
  ASSUME StatusTypeInv, NEW x \in Services, ServiceStep(x), NEW s \in Services, s # x
  PROVE  Same(s) /\ beat'[s] = beat[s] /\ left'[s] = left[s] /\ note'[s] = note[s]
  <1>1. beat'[s] = beat[s] /\ left'[s] = left[s] /\ note'[s] = note[s]
    BY DEF StatusTypeInv, ServiceStep, Connect, Disconnect, Beat, ChangeMode, Stop, Start, Evict,
           SetKey, serviceVars, keyVars
  <1>2. Same(s)
    BY DEF StatusTypeInv, ServiceStep, Connect, Disconnect, Beat, ChangeMode, Stop, Start, Evict,
           serviceVars, Same
  <1> QED BY <1>1, <1>2

LEMMA ChangedOrBeat ==
  ASSUME StatusTypeInv, NEW x \in Services, ServiceStep(x)
  PROVE  steady'[x] = 0 \/ (Beat(x) /\ Same(x))
  BY DEF StatusTypeInv, ServiceStep, Connect, Disconnect, Beat, ChangeMode, Stop, Start, Evict, Same

LEMMA KeysInductive ==
  StatusTypeInv /\ StatusTypeInv' /\ Started /\ KeysFollow /\ [StatusNext]_statusVars => KeysFollow'
  <1> SUFFICES ASSUME StatusTypeInv, StatusTypeInv', Started, KeysFollow, [StatusNext]_statusVars,
                      NEW s \in Services
               PROVE  (IF Working(s) THEN steady[s] + beat[s] > Period => Beaten(s)
                       ELSE RunningOut(s))'
    BY DEF KeysFollow
  <1>0. IF Working(s) THEN steady[s] + beat[s] > Period => Beaten(s) ELSE RunningOut(s)
    BY DEF KeysFollow
  <1>1. ASSUME UNCHANGED <<alive[s], ready[s], mode[s], steady[s], beat[s], left[s], note[s]>>
        PROVE  (IF Working(s) THEN steady[s] + beat[s] > Period => Beaten(s)
                ELSE RunningOut(s))'
    BY <1>0, <1>1 DEF Working, Beaten, RunningOut
  <1>2. CASE \E x \in Services : ServiceStep(x)
    <2>1. PICK x \in Services : ServiceStep(x)
      BY <1>2
    <2>2. CASE s # x
      BY <1>1, <2>1, <2>2, OthersSame DEF Same
    <2>3. CASE steady'[s] = 0
      <3>1. beat'[s] \in -1..Period /\ left'[s] \in 0..TTL
        BY DEF StatusTypeInv
      <3> QED BY <2>3, <3>1, PeriodIs DEF RunningOut
    <2>4. CASE s = x /\ Beat(s) /\ Same(s)
      <3>1. beat'[s] = Period
        BY <2>4 DEF Beat, StatusTypeInv
      <3>2. CASE ready[s]
        <4>1. left'[s] = TTL /\ note'[s] = mode[s]
          BY <2>4, <3>2 DEF Beat, Writes, SetKey, StatusTypeInv
        <4>2. Beaten(s)'
          BY <2>4, <3>1, <4>1, PeriodIs DEF Beaten, Same
        <4>3. Working(s)'
          BY <2>4, <3>2 DEF Working, Same, Beat
        <4> QED BY <4>2, <4>3
      <3>3. CASE ~ready[s]
        <4>1. left'[s] = left[s]
          BY <2>4, <3>3 DEF Beat, Writes, keyVars
        <4>2. ~Working(s) /\ ~Working(s)'
          BY <2>4, <3>3 DEF Working, Same
        <4>3. RunningOut(s)'
          BY <1>0, <2>4, <4>1, <4>2 DEF RunningOut, Same
        <4> QED BY <4>2, <4>3
      <3> QED BY <3>2, <3>3
    <2> QED BY <2>1, <2>2, <2>3, <2>4, ChangedOrBeat
  <1>3. CASE Tick
    <2>1. /\ beat'[s] = IF beat[s] > 0 THEN beat[s] - 1 ELSE beat[s]
          /\ left'[s] = IF left[s] > 0 THEN left[s] - 1 ELSE 0
          /\ steady'[s] = Later(steady[s])
          /\ UNCHANGED <<alive, ready, mode, note>> /\ ~Due
      BY <1>3 DEF Tick
    <2>2. beat[s] \in -1..Period /\ left[s] \in 0..TTL /\ steady[s] \in 0..Long
      BY DEF StatusTypeInv
    <2>3. steady'[s] = IF steady[s] < Long THEN steady[s] + 1 ELSE steady[s]
      BY <2>1, <2>2, LaterIs
    <2>4. Working(s)' <=> Working(s)
      BY <2>1 DEF Working
    <2>5. ASSUME Working(s), steady'[s] + beat'[s] > Period PROVE Beaten(s)'
      <3>1. alive[s] /\ beat[s] # 0 /\ beat[s] # NotStarted
        BY <2>1, <2>5 DEF Due, Working, Started
      <3>2. beat[s] > 0 /\ beat'[s] = beat[s] - 1
        BY <2>1, <2>2, <3>1 DEF NotStarted
      <3>3. steady[s] + beat[s] > Period
        BY <2>2, <2>3, <2>5, <3>2, PeriodIs
      <3>4. left[s] >= TTL - Period + beat[s] /\ note[s] = mode[s]
        BY <1>0, <2>5, <3>3 DEF Beaten
      <3>5. left'[s] >= TTL - Period + beat'[s]
        BY <2>1, <2>2, <3>2, <3>4, PeriodIs
      <3> QED BY <2>1, <3>4, <3>5 DEF Beaten
    <2>6. ASSUME ~Working(s) PROVE RunningOut(s)'
      <3>1. left[s] = 0 \/ left[s] + steady[s] <= TTL
        BY <1>0, <2>6 DEF RunningOut
      <3> QED BY <2>1, <2>2, <2>3, <3>1, PeriodIs DEF RunningOut
    <2> QED BY <2>4, <2>5, <2>6
  <1>4. CASE ~Tick /\ \A x \in Services : ~ServiceStep(x)
    BY <1>1, <1>4, OtherSteps
  <1> QED BY <1>2, <1>3, <1>4

------------------------------------------------------------------------------
(* The page.                                                               *)

(* Whatever happens to the services, an answer and a page are true of      *)
(* those that have not changed.                                            *)
Quiet == \A s \in Services : steady'[s] = 0 \/ Same(s)

LEMMA SameWorks ==
  ASSUME NEW s \in Services, Same(s)
  PROVE  (Working(s)' <=> Working(s)) /\ Lag(s)' = Lag(s)
  BY DEF Same, Working, Lag

LEMMA EntriesAre ==
  ASSUME NEW e \in Entries
  PROVE  Source(e) \in Services /\ Services \subseteq Entries
  <1>1. CASE e = "simulator"
    <2>1. "publisher" \in Services
      BY <1>1, ServiceStatusAssumption DEF Entries
    <2> QED BY <1>1, <2>1 DEF Entries, Source
  <1>2. CASE e # "simulator"
    <2>1. e \in Services
      BY <1>2 DEF Entries
    <2> QED BY <1>2, <2>1 DEF Entries, Source
  <1> QED BY <1>1, <1>2

LEMMA AnswerKept ==
  ASSUME AnswerIsTrue, Quiet, UNCHANGED <<backend, pushIn, answer, calm>>
  PROVE  AnswerIsTrue'
  <1> SUFFICES ASSUME answer # NoAnswer, backend, calm > 0,
                      NEW s \in Services, steady'[s] > Lag(s)'
               PROVE  /\ answer.exists[s] = Working(s)'
                      /\ Working(s)' => answer.note[s] = mode'[s]
    BY DEF AnswerIsTrue
  <1>1. Same(s)
    BY PeriodIs DEF Quiet, Lag
  <1>2. (Working(s)' <=> Working(s)) /\ Lag(s)' = Lag(s) /\ mode'[s] = mode[s]
    BY <1>1, SameWorks DEF Same
  <1>3. steady[s] > Lag(s)
    BY <1>1, <1>2 DEF Same
  <1>4. answer.exists[s] = Working(s) /\ (Working(s) => answer.note[s] = mode[s])
    BY <1>3 DEF AnswerIsTrue
  <1>5. answer.exists[s] = Working(s)'
    <2>1. alive'[s] = alive[s] /\ ready'[s] = ready[s]
      BY <1>1 DEF Same
    <2>2. answer.exists[s] = (alive[s] /\ ready[s])
      BY <1>4 DEF Working
    <2>3. answer.exists[s] = (alive'[s] /\ ready'[s])
      BY <2>1, <2>2
    <2> QED BY <2>3 DEF Working
  <1>6. Working(s)' => answer.note[s] = mode'[s]
    BY <1>2, <1>4
  <1> QED BY <1>5, <1>6

LEMMA PageKept ==
  ASSUME PageIsTrue, Quiet, StatusTypeInv, UNCHANGED <<backend, pushIn, answer, shown, health,
           calm>>
  PROVE  PageIsTrue'
  <1>1. PICK age \in 0..Push : age = Age /\ Age' = age
    <2>1. Age \in 0..Push
      BY PeriodIs DEF Age, StatusTypeInv
    <2>2. Age' = Age
      BY DEF Age
    <2> QED BY <2>1, <2>2
  <1> SUFFICES ASSUME backend, calm > age, NEW e \in Entries,
                      steady'[Source(e)] > age + Lag(Source(e))'
               PROVE  shown[e] = Expected(e)'
    BY <1>1 DEF PageIsTrue
  <1>2. Source(e) \in Services
    BY EntriesAre
  <1>3. Same(Source(e))
    BY <1>2, PeriodIs DEF Quiet, Lag
  <1>4. Expected(e)' = Expected(e)
    BY <1>2, <1>3, SameWorks DEF Expected, Same
  <1>5. steady[Source(e)] > age + Lag(Source(e))
    BY <1>2, <1>3, SameWorks DEF Same
  <1> QED BY <1>1, <1>4, <1>5 DEF PageIsTrue

(* What is read from Redis is true of a service whose key had the time.    *)
LEMMA KeysTell ==
  ASSUME StatusTypeInv, Started, KeysFollow, NEW s \in Services, steady[s] > Lag(s)
  PROVE  /\ left[s] > 0 <=> Working(s)
         /\ Working(s) => note[s] = mode[s]
  <1>1. beat[s] \in -1..Period /\ left[s] \in 0..TTL /\ steady[s] \in 0..Long
    BY DEF StatusTypeInv
  <1>2. CASE Working(s)
    <2>1. beat[s] >= 0
      BY <1>1, <1>2 DEF Started, Working, NotStarted
    <2>2. steady[s] + beat[s] > Period
      BY <1>1, <1>2, <2>1, PeriodIs DEF Lag
    <2>3. left[s] >= TTL - Period + beat[s] /\ note[s] = mode[s]
      BY <1>2, <2>2 DEF KeysFollow, Beaten
    <2>4. left[s] > 0
      BY <1>1, <2>1, <2>3, PeriodIs
    <2> QED BY <1>2, <2>3, <2>4
  <1>3. CASE ~Working(s)
    <2>1. left[s] = 0 \/ left[s] + steady[s] <= TTL
      BY <1>3 DEF KeysFollow, RunningOut
    <2>2. left[s] = 0
      BY <1>1, <1>3, <2>1, PeriodIs DEF Lag
    <2> QED BY <1>3, <2>2
  <1> QED BY <1>2, <1>3

LEMMA AnswerInductive ==
  StatusTypeInv /\ Started /\ KeysFollow /\ AnswerIsTrue /\ [StatusNext]_statusVars => AnswerIsTrue'
  <1> SUFFICES ASSUME StatusTypeInv, Started, KeysFollow, AnswerIsTrue, [StatusNext]_statusVars
               PROVE  AnswerIsTrue'
    OBVIOUS
  <1>1. CASE \E x \in Services : ServiceStep(x)
    <2>1. PICK x \in Services : ServiceStep(x)
      BY <1>1
    <2>2. Quiet
      BY <2>1, OthersSame, ChangedOrBeat DEF Quiet
    <2>3. UNCHANGED <<backend, pushIn, answer, calm>>
      BY <2>1 DEF ServiceStep, Connect, Disconnect, Beat, ChangeMode, Stop, Start, Evict,
                  pageVars
    <2> QED BY <2>2, <2>3, AnswerKept
  <1>2. CASE PushStarts
    <2>1. /\ backend' = backend /\ backend /\ pushIn' = Push
          /\ answer' = [read |-> TRUE, exists |-> [s \in Services |-> left[s] > 0],
                        note |-> note]
          /\ UNCHANGED <<alive, ready, mode, steady>>
      BY <1>2 DEF PushStarts, KeysNow, serviceVars
    <2>2. \A s \in Services : /\ answer'.exists[s] <=> left[s] > 0
                              /\ answer'.note[s] = note[s]
      BY <2>1
    <2>3. \A s \in Services : (Working(s)' <=> Working(s)) /\ Lag(s)' = Lag(s)
      BY <2>1 DEF Working, Lag
    <2>4. ASSUME NEW s \in Services, steady'[s] > Lag(s)'
          PROVE  /\ answer'.exists[s] = Working(s)'
                 /\ Working(s)' => answer'.note[s] = mode'[s]
      <3>1. steady[s] > Lag(s)
        BY <2>1, <2>3, <2>4
      <3>2. (left[s] > 0 <=> Working(s)) /\ (Working(s) => note[s] = mode[s])
        BY <3>1, KeysTell
      <3>3. answer'.exists[s] \in BOOLEAN /\ Working(s)' \in BOOLEAN
        <4>1. [n \in Services |-> left[n] > 0][s] \in BOOLEAN
          OBVIOUS
        <4>2. answer'.exists[s] \in BOOLEAN
          BY <2>1, <4>1
        <4>3. alive'[s] \in BOOLEAN /\ ready'[s] \in BOOLEAN
          BY <2>1 DEF StatusTypeInv
        <4> QED BY <4>2, <4>3 DEF Working
      <3> QED BY <2>1, <2>2, <2>3, <3>2, <3>3
    <2> QED BY <2>1, <2>4 DEF AnswerIsTrue
  <1>3. CASE BackendConnects \/ BackendDisconnects
    <2>1. calm' = 0
      BY <1>3 DEF BackendConnects, BackendDisconnects
    <2> QED BY <2>1 DEF AnswerIsTrue
  <1>4. CASE Tick \/ PushUnknown \/ PushEnds
    <2>1. answer' = NoAnswer \/ ~backend'
      BY <1>4 DEF Tick, Due, PushUnknown, PushEnds
    <2> QED BY <2>1 DEF AnswerIsTrue
  <1>5. CASE UNCHANGED statusVars
    BY <1>5, AnswerKept DEF statusVars, Quiet, Same
  <1> QED BY <1>1, <1>2, <1>3, <1>4, <1>5 DEF StatusNext, ServiceStep

(* What the page is told of an answer is what it expects.                  *)
LEMMA ReportedIs ==
  ASSUME StatusTypeInv, AnswerIsTrue, answer # NoAnswer, backend, calm > 0, NEW e \in Entries,
         steady[Source(e)] > Lag(Source(e))
  PROVE  Reported(answer)[e] = Expected(e)
  <1>1. PICK s \in Services : s = Source(e)
    BY EntriesAre
  <1>2. (answer.exists[s] <=> Working(s)) /\ (Working(s) => answer.note[s] = mode[s])
    BY <1>1 DEF AnswerIsTrue
  <1>3. Reported(answer)[e] =
          IF e = "simulator" THEN SimulatorState(answer.exists[s], answer.note[s])
          ELSE StateOf(e, answer.exists[s], answer.note[s])
    BY <1>1 DEF Reported
  <1>4. e = "simulator" => mode[s] \in {"RUNNING", "PAUSED"}
    BY <1>1 DEF StatusTypeInv, Modes, Source
  <1> QED BY <1>1, <1>2, <1>3, <1>4 DEF Expected, SimulatorState, StateOf

LEMMA PageInductive ==
  StatusTypeInv /\ StatusTypeInv' /\ AnswerIsTrue /\ PageIsTrue /\ [StatusNext]_statusVars
    => PageIsTrue'
  <1> SUFFICES ASSUME StatusTypeInv, StatusTypeInv', AnswerIsTrue, PageIsTrue,
    [StatusNext]_statusVars
               PROVE  PageIsTrue'
    OBVIOUS
  <1>1. CASE \E x \in Services : ServiceStep(x)
    <2>1. PICK x \in Services : ServiceStep(x)
      BY <1>1
    <2>2. Quiet
      BY <2>1, OthersSame, ChangedOrBeat DEF Quiet
    <2>3. UNCHANGED <<backend, pushIn, answer, shown, health, calm>>
      BY <2>1 DEF ServiceStep, Connect, Disconnect, Beat, ChangeMode, Stop, Start, Evict,
                  pageVars
    <2> QED BY <2>2, <2>3, PageKept
  <1>2. CASE BackendConnects \/ BackendDisconnects
    <2>1. calm' = 0
      BY <1>2 DEF BackendConnects, BackendDisconnects
    <2>2. Age' \in 0..Push
      BY PeriodIs DEF Age, StatusTypeInv
    <2>3. ~(calm' > Age')
      BY <2>1, <2>2
    <2> QED BY <2>3 DEF PageIsTrue
  <1>3. CASE PushUnknown
    <2>1. ~backend'
      BY <1>3 DEF PushUnknown
    <2> QED BY <2>1 DEF PageIsTrue
  <1>4. CASE PushStarts
    <2>1. /\ pushIn = 0 /\ answer'.read = TRUE
          /\ UNCHANGED <<alive, ready, mode, steady, backend, shown, health, calm>>
      BY <1>4 DEF PushStarts, KeysNow, serviceVars
    <2>2. answer = NoAnswer
      BY <1>4 DEF PushStarts
    <2>3. answer' # NoAnswer
      BY <2>1 DEF NoAnswer
    <2>4. Age = Push /\ Age' = Push
      BY <2>1, <2>2, <2>3, PeriodIs DEF Age
    <2>5. PICK age : age = Age /\ age = Age'
      BY <2>4
    <2>6. \A e \in Entries : /\ Lag(Source(e))' = Lag(Source(e))
                             /\ Expected(e)' = Expected(e)
      BY <2>1 DEF Lag, Expected, Working
    <2> QED BY <2>1, <2>5, <2>6 DEF PageIsTrue
  <1>5. CASE PushEnds
    <2>1. /\ answer # NoAnswer /\ answer' = NoAnswer
          /\ shown' = Reported(answer) /\ health' = HealthOf(shown', backend)
          /\ UNCHANGED <<alive, ready, mode, steady, backend, pushIn, calm>>
      BY <1>5 DEF PushEnds, serviceVars
    <2>0. CASE ~(backend /\ calm > 0)
      <3>1. Age' \in 0..Push
        BY PeriodIs DEF Age, StatusTypeInv
      <3>2. calm \in 0..Long
        BY DEF StatusTypeInv
      <3>3. ~(backend' /\ calm' > Age')
        BY <2>0, <2>1, <3>1, <3>2, PeriodIs
      <3> QED BY <3>3 DEF PageIsTrue
    <2> SUFFICES ASSUME backend, calm > 0 PROVE PageIsTrue'
      BY <2>0
    <2>2. backend /\ pushIn = Push
      BY <2>1 DEF AnswerIsTrue
    <2>3. Age' = 0
      BY <2>1, <2>2, PeriodIs DEF Age
    <2>4. health' = HealthOf(shown', TRUE)
      BY <2>1, <2>2 DEF HealthOf
    <2>5. ASSUME NEW e \in Entries, steady'[Source(e)] > 0 + Lag(Source(e))'
          PROVE  shown'[e] = Expected(e)'
      <3>1. Lag(Source(e))' = Lag(Source(e)) /\ Expected(e)' = Expected(e)
        BY <2>1 DEF Lag, Expected, Working
      <3>2. steady[Source(e)] > Lag(Source(e))
        BY <2>1, <2>5, <3>1, PeriodIs DEF Lag
      <3>3. Reported(answer)[e] = Expected(e)
        BY <2>1, <3>2, ReportedIs
      <3> QED BY <2>1, <3>1, <3>3
    <2> QED BY <2>3, <2>4, <2>5 DEF PageIsTrue
  <1>6. CASE Tick
    <2>0. CASE ~backend
      <3>1. ~backend'
        BY <1>6, <2>0 DEF Tick
      <3> QED BY <3>1 DEF PageIsTrue
    <2> SUFFICES ASSUME backend PROVE PageIsTrue'
      BY <2>0
    <2>1. /\ answer = NoAnswer /\ pushIn # 0 /\ pushIn' = pushIn - 1 /\ calm' = Later(calm)
          /\ \A s \in Services : steady'[s] = Later(steady[s])
          /\ UNCHANGED <<alive, ready, mode, backend, answer, shown, health>>
      BY <1>6 DEF Tick, Due
    <2>2. pushIn \in 0..Push /\ calm \in 0..Long
      BY DEF StatusTypeInv
    <2>3. PICK age \in 0..Push : age = Age /\ Age' = age + 1
      BY <2>1, <2>2, PeriodIs DEF Age
    <2>4. calm' > age + 1 => calm > age
      BY <2>1, <2>2, LaterIs, PeriodIs
    <2>5. \A e \in Entries : /\ Lag(Source(e))' = Lag(Source(e))
                             /\ Expected(e)' = Expected(e)
      BY <2>1 DEF Lag, Expected, Working
    <2>6. ASSUME NEW e \in Entries, steady'[Source(e)] > age + 1 + Lag(Source(e))'
          PROVE  steady[Source(e)] > age + Lag(Source(e))
      <3>1. PICK s \in Services : s = Source(e)
        BY EntriesAre
      <3>2. steady[s] \in 0..Long /\ Lag(s) \in Nat
        BY PeriodIs DEF StatusTypeInv, Lag
      <3>3. steady'[s] = IF steady[s] < Long THEN steady[s] + 1 ELSE steady[s]
        BY <2>1, <3>2, LaterIs
      <3>4. steady'[s] > age + 1 + Lag(s)
        BY <2>5, <2>6, <3>1
      <3>5. steady[s] > age + Lag(s)
        BY <3>2, <3>3, <3>4, PeriodIs
      <3> QED BY <3>1, <3>5
    <2> QED BY <2>1, <2>3, <2>4, <2>5, <2>6 DEF PageIsTrue
  <1>7. CASE UNCHANGED statusVars
    BY <1>7, PageKept DEF statusVars, Quiet, Same
  <1> QED BY <1>1, <1>2, <1>3, <1>4, <1>5, <1>6, <1>7 DEF StatusNext, ServiceStep

------------------------------------------------------------------------------
(* The theorem.                                                            *)

LEMMA InTimeFollows == StatusTypeInv /\ PageIsTrue => ShownInTime
  <1> SUFFICES ASSUME StatusTypeInv, PageIsTrue, backend, calm > Push
               PROVE  /\ \A e \in Entries : Settled(Source(e)) => shown[e] = Expected(e)
                      /\ HealthInTime
    BY DEF ShownInTime
  <1>1. PICK age \in 0..Push : age = Age
    BY PeriodIs DEF Age, StatusTypeInv
  <1>2. calm > age
    BY <1>1, PeriodIs DEF StatusTypeInv
  <1>3. ASSUME NEW e \in Entries, Settled(Source(e)) PROVE shown[e] = Expected(e)
    <2>1. PICK s \in Services : s = Source(e)
      BY EntriesAre
    <2>2. steady[s] \in 0..Long /\ Lag(s) \in Nat
      BY PeriodIs DEF StatusTypeInv, Lag
    <2>3. steady[s] > Push + Lag(s)
      BY <1>3, <2>1 DEF Settled, Lag
    <2>4. steady[s] > age + Lag(s)
      BY <2>2, <2>3, PeriodIs
    <2> QED BY <1>1, <1>2, <2>1, <2>4 DEF PageIsTrue
  <1>4. HealthInTime
    <2> SUFFICES ASSUME \A s \in Services : Settled(s)
                 PROVE  health = IF \A s \in Services \ {"archiver"} : Working(s)
                                 THEN "healthy" ELSE "degraded"
      BY DEF HealthInTime
    <2>1. health = HealthOf(shown, TRUE)
      BY <1>1, <1>2 DEF PageIsTrue
    <2>2. \A s \in Services \ {"archiver"} : shown[s] = IF Working(s) THEN "ONLINE" ELSE "OFFLINE"
      <3> TAKE s \in Services \ {"archiver"}
      <3>1. s \in Entries /\ s # "simulator" /\ Source(s) = s
        BY ServiceStatusAssumption DEF Entries, Source
      <3>2. shown[s] = Expected(s)
        BY <1>3, <3>1
      <3> QED BY <3>1, <3>2 DEF Expected
    <2>3. Services \ {"archiver"} = (Services \cap {"publisher"}) \cup (Services \cap {"processor"})
      BY ServiceStatusAssumption
    <2> QED BY <2>1, <2>2, <2>3 DEF HealthOf
  <1> QED BY <1>3, <1>4

LEMMA InitHolds ==
  ASSUME StatusInit PROVE StatusTypeInv /\ Started /\ KeysFollow /\ AnswerIsTrue /\ PageIsTrue
  <1> USE PeriodIs DEF StatusInit
  <1>1. StatusTypeInv
    <2>1. mode \in [Services -> Notes] /\ \A s \in Services : mode[s] \in Modes[s]
      <3>1. \A s \in Services : mode[s] \in Modes[s] /\ mode[s] \in Notes
        BY ModesAre
      <3>2. \A s \in Services : (CHOOSE m \in Modes[s] : m \in {"RUNNING", "connected"}) \in Notes
        BY ModesAre DEF ModeAtStart
      <3>3. mode = [s \in Services |-> CHOOSE m \in Modes[s] : m \in {"RUNNING", "connected"}]
        BY DEF ModeAtStart
      <3>4. mode \in [Services -> Notes]
        BY <3>2, <3>3
      <3> QED BY <3>1, <3>4
    <2>2. "" \in Notes /\ answer \in Answers
      BY DEF Notes, Answers
    <2>3. unsent \in [Services -> Notes] /\ note \in [Services -> Notes]
      BY <2>2
    <2>4. alive \in [Services -> BOOLEAN] /\ ready \in [Services -> BOOLEAN]
          /\ backend \in BOOLEAN
      OBVIOUS
    <2>5. beat \in [Services -> -1..Period]
      BY BoundsAre DEF NotStarted
    <2>6. 0 \in 0..Long /\ 0 \in 0..TTL /\ Push \in 0..Push
      BY BoundsAre
    <2>7. left \in [Services -> 0..TTL] /\ steady \in [Services -> 0..Long]
      BY <2>6
    <2>8. calm \in 0..Long /\ pushIn \in 0..Push
      BY <2>6
    <2> HIDE DEF StatusInit
    <2> QED BY <2>1, <2>2, <2>3, <2>4, <2>5, <2>7, <2>8 DEF StatusTypeInv
  <1>2. Started /\ KeysFollow
    BY DEF Started, KeysFollow, Working, RunningOut
  <1>3. AnswerIsTrue
    BY DEF AnswerIsTrue
  <1>4. PageIsTrue
    <2>1. calm = 0 /\ answer = NoAnswer /\ pushIn = Push /\ Push \in Nat
      OBVIOUS
    <2> HIDE DEF StatusInit
    <2>2. Age = 0
      BY <2>1 DEF Age
    <2>3. ~(calm > Age)
      BY <2>1, <2>2
    <2> QED BY <2>3 DEF PageIsTrue
  <1> QED BY <1>1, <1>2, <1>3, <1>4

(* While the backend is connected, the page and /api/health say of every   *)
(* service what it has been for longer than its heartbeat, or the TTL of   *)
(* its key, and one push: for any TTL, interval and number of failures.    *)
THEOREM ShownInTimeAlways == StatusSpec => []ShownInTime
  <1> DEFINE IInv == StatusTypeInv /\ Started /\ KeysFollow /\ AnswerIsTrue /\ PageIsTrue
  <1>1. StatusInit => IInv
    BY InitHolds
  <1>2. IInv /\ [StatusNext]_statusVars => IInv'
    BY TypeInvInductive, StartedInductive, KeysInductive, AnswerInductive, PageInductive
  <1>3. IInv => ShownInTime
    BY InTimeFollows
  <1> QED BY <1>1, <1>2, <1>3, PTL DEF StatusSpec

(***************************************************************************)
(* ServiceStatus and FailureDetector.                                      *)

WorkingNow == {s \in Services : Working(s)}
SuspectedNow == {s \in Services : shown[s] = "OFFLINE"}

(* What a service does is a change of one process, or of none.             *)
LEMMA ServiceIsProcess ==
  ASSUME StatusTypeInv, NEW x \in Services, ServiceStep(x)
  PROVE  Detector!Change
  <1>1. UNCHANGED shown
    BY DEF ServiceStep, Connect, Disconnect, Beat, ChangeMode, Stop, Start, Evict, pageVars
  <1>2. \A s \in Services \ {x} : Working(s)' <=> Working(s)
    BY OthersSame, SameWorks
  <1>3. \A s \in Services \ {x} : s \in WorkingNow' <=> s \in WorkingNow
    BY <1>2 DEF WorkingNow
  <1>4. WorkingNow \subseteq Services /\ WorkingNow' \subseteq Services
    BY DEF WorkingNow
  <1>5. WorkingNow' \in {WorkingNow \cup {x}, WorkingNow \ {x}}
    <2>1. CASE x \in WorkingNow'
      <3>1. WorkingNow' = WorkingNow \cup {x}
        BY <1>3, <1>4, <2>1
      <3> QED BY <3>1
    <2>2. CASE x \notin WorkingNow'
      <3>1. WorkingNow' = WorkingNow \ {x}
        BY <1>3, <1>4, <2>2
      <3> QED BY <3>1
    <2> QED BY <2>1, <2>2
  <1>6. SuspectedNow' = SuspectedNow
    BY <1>1 DEF SuspectedNow
  <1> QED BY <1>5, <1>6 DEF Detector!Change, WorkingNow, SuspectedNow

(* A push is a report; all else changes neither processes nor reports.     *)
LEMMA StatusStepIsDetectors ==
  ASSUME StatusTypeInv, [StatusNext]_statusVars PROVE [Detector!Next]_(Detector!vars)
  <1>1. CASE \E x \in Services : ServiceStep(x)
    BY <1>1, ServiceIsProcess DEF Detector!Next
  <1>2. CASE PushUnknown \/ PushEnds
    <2>1. alive' = alive /\ ready' = ready
      BY <1>2 DEF PushUnknown, PushEnds, serviceVars
    <2>2. {s \in Services : Working(s)}' = {s \in Services : Working(s)}
      BY <2>1 DEF Working
    <2>3. {s \in Services : shown[s] = "OFFLINE"}' \subseteq Services
      OBVIOUS
    <2> QED BY <2>2, <2>3 DEF Detector!Next, Detector!Report
  <1>3. CASE BackendConnects \/ BackendDisconnects \/ PushStarts \/ Tick \/ UNCHANGED statusVars
    <2>1. alive' = alive /\ ready' = ready /\ shown' = shown
      BY <1>3 DEF BackendConnects, BackendDisconnects, PushStarts, Tick, statusVars, serviceVars,
                  pageVars
    <2>2. {s \in Services : Working(s)}' = {s \in Services : Working(s)}
      BY <2>1 DEF Working
    <2>3. {s \in Services : shown[s] = "OFFLINE"}' = {s \in Services : shown[s] = "OFFLINE"}
      BY <2>1
    <2> QED BY <2>2, <2>3 DEF Detector!vars
  <1> QED BY <1>1, <1>2, <1>3 DEF StatusNext, ServiceStep

(* The page is a failure detector of the services: no step of theirs, of   *)
(* Redis or of the backend tells anything of two services at once, and     *)
(* only a push changes what is reported, whatever was read before.         *)
THEOREM StatusIsDetector == StatusSpec => Detector!Safety
  <1>1. StatusInit => Detector!Init
    BY DEF Detector!Init
  <1>2. StatusTypeInv /\ [StatusNext]_statusVars => [Detector!Next]_(Detector!vars)
    BY StatusStepIsDetectors
  <1>3. StatusInit => StatusTypeInv
    BY InitHolds
  <1>4. StatusTypeInv /\ [StatusNext]_statusVars => StatusTypeInv'
    BY TypeInvInductive
  <1> QED BY <1>1, <1>2, <1>3, <1>4, PTL DEF StatusSpec, Detector!Safety
===============================================================================
