------------------------ MODULE EventProcessorProofs ------------------------
(***************************************************************************)
(* Proofs about EventProcessor for any zones, configurations, thresholds   *)
(* and number of events and faults, as long as no start is torn: what      *)
(* Redis keeps of one is put right by no later step of the Processor.      *)
(***************************************************************************)
EXTENDS EventProcessor, FiniteSetTheorems, WellFoundedInduction, TLAPS

Statuses == {"LOW", "NORMAL", "WARNING", "CRITICAL", "FULL"}
Steps == {"idle", "recorded", "saved", "grouped", "sampled", "down"}
ZoneHashes == [exists : {TRUE}, capacity : Nat \ {0}, occupied : Nat, total : [Kinds -> Nat]]
Readings == [zone : Zones, kind : Kinds, occupied : Nat]

TypeOK ==
  /\ config \in Configs
  /\ hash \in [Zones -> ZoneHashes \cup {NoZone}]
  /\ previous \in ZoneHashes \cup {NoZone}
  /\ window \in [Zones -> [Kinds -> SUBSET Nat]]
  /\ stats \in [Zones -> [Kinds -> Nat]]
  /\ told \in [Zones -> Statuses] /\ fulls \in SUBSET Zones
  /\ reconfigured \in SUBSET Zones /\ altered \in SUBSET Zones /\ removed \in SUBSET Zones
  /\ pc \in Steps
  /\ checkpoint \in Nat /\ next \in Nat
  /\ faults \in [FaultKinds -> Nat]

(* The zones of the configuration are those in Redis, with its capacities. *)
Configured ==
  /\ DOMAIN ranking = DOMAIN config
  /\ \A z \in Zones : hash[z] # NoZone <=> z \in DOMAIN config
  /\ \A z \in DOMAIN config : /\ hash[z].capacity = config[z]
                              /\ hash[z].occupied <= config[z]

(* What is after the checkpoint has no gap.                                *)
Numbered ==
  /\ LastNumber \in Nat /\ checkpoint <= LastNumber
  /\ DOMAIN stream = (checkpoint + 1)..LastNumber
  /\ \A n \in DOMAIN stream : stream[n] \in Readings

(* Where the task in progress is.                                          *)
Task ==
  /\ pc \in {"idle", "recorded", "sampled"} => checkpoint < next /\ next <= LastNumber + 1
  /\ pc \in {"saved", "grouped"} => checkpoint <= next /\ next <= LastNumber
  /\ pc \in {"saved", "grouped"} /\ faults["refused"] = 0 => next = checkpoint
  /\ pc = "recorded" => /\ Waiting /\ event.zone \in DOMAIN config
                        /\ previous = hash[event.zone]
                        /\ next \in window[event.zone][event.kind]

(* The windows hold events of their own, and none of a zone that is not    *)
(* configured.                                                             *)
Members ==
  \A z \in Zones, k \in Kinds :
    /\ \A n \in window[z][k] :
         /\ n <= LastNumber
         /\ n \in DOMAIN stream => stream[n].zone = z /\ stream[n].kind = k
    /\ z \notin DOMAIN config => window[z][k] = {}

Base == TypeOK /\ Configured /\ Numbered /\ Task /\ Members

(* Every start ran the commands of initializeZones in full, and the steps  *)
(* of such a Processor.                                                    *)
Whole == faults["torn"] = 0

WholeNext ==
  \/ Sense \/ Record \/ UnknownZone
  \/ SaveProcessed \/ SaveResent \/ SaveRefused \/ SaveCut
  \/ EvaluateGroups \/ SaveMetrics \/ Sample
  \/ Reject \/ Crash \/ Restart

FaultsTyped == faults \in [FaultKinds -> Nat]

------------------------------------------------------------------------------
(* Lemmas about the operators.                                             *)

LEMMA ConfigsAre ==
  ASSUME NEW c \in Configs
  PROVE  /\ DOMAIN c \subseteq Zones
         /\ \A z \in DOMAIN c : c[z] \in Nat \ {0}
  BY EventProcessorAssumption

LEMMA ZoneIsSome == NoZone \notin ZoneHashes
  <1>1. \A h \in ZoneHashes : h.exists = TRUE
    BY DEF ZoneHashes
  <1>2. NoZone.exists = FALSE
    BY DEF NoZone
  <1> QED BY <1>1, <1>2

LEMMA ClampIsWithin ==
  ASSUME NEW occupied \in Int, NEW capacity \in Nat
  PROVE  /\ ClampOccupied(occupied, capacity) \in 0..capacity
         /\ occupied \in 0..capacity => ClampOccupied(occupied, capacity) = occupied
  BY DEF ClampOccupied

LEMMA StatusIs ==
  ASSUME NEW occupancy
  PROVE  DetermineStatus(occupancy, Thresholds) \in Statuses
  BY DEF DetermineStatus, Statuses

(* An empty zone is at 0 %.                                                *)
LEMMA EmptyIsZero ==
  ASSUME NEW capacity \in Nat \ {0}
  PROVE  CalculateOccupancy(0, capacity) = 0
  <1>1. 10000 * ClampOccupied(0, capacity) = 0
    BY DEF ClampOccupied
  <1>2. Round(0, capacity) = 0
    <2>1. 2 * 0 + capacity = capacity
      OBVIOUS
    <2>2. capacity \div (2 * capacity) = 0
      OBVIOUS
    <2> QED BY <2>1, <2>2 DEF Round
  <1> QED BY <1>1, <1>2 DEF CalculateOccupancy

LEMMA InitialZoneIs ==
  ASSUME NEW capacity \in Nat \ {0}
  PROVE  /\ InitialZone(capacity) \in ZoneHashes
         /\ InitialZone(capacity).capacity = capacity
         /\ InitialZone(capacity).occupied = 0
         /\ \A k \in Kinds : InitialZone(capacity).total[k] = 0
  BY DEF InitialZone, ZoneHashes

LEMMA LastNumberIs ==
  ASSUME NEW first \in Nat, NEW last \in Nat, first <= last
  PROVE  first + Cardinality((first + 1)..last) = last
  <1>1. first + 1 \in Int /\ last \in Int
    OBVIOUS
  <1>2. Cardinality((first + 1)..last)
          = IF first + 1 > last THEN 0 ELSE last - (first + 1) + 1
    BY <1>1, FS_Interval
  <1> QED BY <1>2

LEMMA FaultIs ==
  ASSUME NEW kind \in FaultKinds, faults \in [FaultKinds -> Nat], Fault(kind)
  PROVE  /\ faults' \in [FaultKinds -> Nat]
         /\ faults'[kind] = faults[kind] + 1
         /\ \A other \in FaultKinds \ {kind} : faults'[other] = faults[other]
  <1>1. faults' = [faults EXCEPT ![kind] = @ + 1]
    BY Zenon DEF Fault
  <1> QED BY <1>1

LEMMA FaultsTypedAlways == Spec => []FaultsTyped
  <1>1. Init => FaultsTyped
    BY DEF Init, FaultsTyped
  <1>2. FaultsTyped /\ [Next]_vars => FaultsTyped'
    <2> SUFFICES ASSUME FaultsTyped, [Next]_vars PROVE FaultsTyped'
      OBVIOUS
    <2>1. ASSUME NEW kind \in FaultKinds, Fault(kind) PROVE FaultsTyped'
      BY <2>1, FaultIs DEF FaultsTyped
    <2>2. CASE UNCHANGED faults
      BY <2>2 DEF FaultsTyped
    <2>3. \/ UNCHANGED faults
          \/ \E kind \in FaultKinds : Fault(kind)
      BY DEF Next, Sense, Record, UnknownZone, SaveProcessed, SaveResent, SaveRefused,
             SaveCut, EvaluateGroups, SaveMetrics, Sample, Reject, Crash, Restart,
             RestartTorn, vars, FaultKinds
    <2> QED BY <2>1, <2>2, <2>3
  <1> QED BY <1>1, <1>2, PTL DEF Spec

(* A torn start is never forgotten.                                        *)
LEMMA WholeStep == FaultsTyped /\ [Next]_vars /\ Whole' => Whole /\ [WholeNext]_vars
  <1> SUFFICES ASSUME FaultsTyped, [Next]_vars, faults'["torn"] = 0
               PROVE  faults["torn"] = 0 /\ [WholeNext]_vars
    BY DEF Whole
  <1>1. "torn" \in FaultKinds /\ faults["torn"] \in Nat
    BY DEF FaultsTyped, FaultKinds
  <1>2. ASSUME NEW kind \in FaultKinds, Fault(kind)
        PROVE  kind # "torn" /\ faults["torn"] = 0
    <2>1. /\ faults'[kind] = faults[kind] + 1
          /\ \A other \in FaultKinds \ {kind} : faults'[other] = faults[other]
      BY <1>2, FaultIs DEF FaultsTyped
    <2> QED BY <1>1, <2>1
  <1>3. ~RestartTorn
    BY <1>1, <1>2 DEF RestartTorn
  <1>4. [WholeNext]_vars
    BY <1>3 DEF Next, WholeNext
  <1>5. \/ UNCHANGED faults
        \/ \E kind \in FaultKinds : Fault(kind)
    BY <1>4 DEF WholeNext, Sense, Record, UnknownZone, SaveProcessed, SaveResent, SaveRefused,
           SaveCut, EvaluateGroups, SaveMetrics, Sample, Reject, Crash, Restart,
           vars, FaultKinds
  <1> QED BY <1>2, <1>4, <1>5

(* What Restart makes of a zone.                                           *)
LEMMA InitializedZoneIs ==
  ASSUME TypeOK, Configured, NEW c \in Configs, NEW z \in Zones
  PROVE  /\ z \notin DOMAIN c => InitializedZone(z, c) = NoZone
         /\ z \in DOMAIN c /\ hash[z] = NoZone => InitializedZone(z, c) = InitialZone(c[z])
         /\ z \in DOMAIN c /\ hash[z] # NoZone =>
              /\ InitializedZone(z, c).occupied = ClampOccupied(hash[z].occupied, c[z])
              /\ InitializedZone(z, c).total = hash[z].total
         /\ z \in DOMAIN c => /\ InitializedZone(z, c) \in ZoneHashes
                              /\ InitializedZone(z, c).capacity = c[z]
                              /\ InitializedZone(z, c).occupied <= c[z]
  <1>1. CASE z \notin DOMAIN c
    BY <1>1 DEF InitializedZone, Configured
  <1>2. CASE z \in DOMAIN c /\ hash[z] = NoZone
    BY <1>2, ConfigsAre, InitialZoneIs DEF InitializedZone
  <1>3. CASE z \in DOMAIN c /\ hash[z] # NoZone
    <2>1. hash[z] \in ZoneHashes /\ c[z] \in Nat \ {0}
      BY <1>3, ConfigsAre DEF TypeOK
    <2>2. PICK h \in ZoneHashes : h = hash[z]
      BY <2>1
    <2>3. PICK clamped \in Nat : clamped = ClampOccupied(h.occupied, c[z]) /\ clamped <= c[z]
      <3>1. h.occupied \in Nat
        BY DEF ZoneHashes
      <3> QED BY <2>1, <3>1 DEF ClampOccupied
    <2>4. InitializedZone(z, c) = [h EXCEPT !.capacity = c[z], !.occupied = clamped]
      BY <1>3, <2>2, <2>3 DEF InitializedZone
    <2>5. DOMAIN h = {"exists", "capacity", "occupied", "total"}
      BY DEF ZoneHashes
    <2>6. /\ InitializedZone(z, c).occupied = clamped
          /\ InitializedZone(z, c).total = h.total
          /\ InitializedZone(z, c).capacity = c[z]
      BY <2>4, <2>5
    <2>7. InitializedZone(z, c) \in ZoneHashes
      BY <2>1, <2>4 DEF ZoneHashes
    <2> QED BY <1>3, <2>1, <2>2, <2>3, <2>6, <2>7
  <1> QED BY <1>1, <1>2, <1>3

------------------------------------------------------------------------------
(* saveProcessed, with or without a fault.                                 *)

Save(times) ==
  /\ pc = "recorded"
  /\ SavePipeline(times)
  /\ UNCHANGED <<window, config, previous, next, altered, removed>>

(* How often Redis runs the commands under each fault.                     *)
Outcome(times) ==
  \/ /\ faults' = faults /\ pc' = "saved"
     /\ \A c \in CommandNames : times[c] = 1
  \/ /\ Fault("resent") /\ pc' = "saved"
     /\ \A c \in CommandNames : times[c] \in 1..2
  \/ /\ Fault("refused") /\ pc' = "saved"
     /\ \A c \in CommandNames : times[c] \in 0..1
  \/ /\ Fault("cut") /\ pc' = "down"
     /\ \A c \in CommandNames : times[c] \in 0..1
     /\ times["zone"] = 1
     /\ times["checkpoint"] = 1 => times["ranking"] = 1

LEMMA CommandsAre ==
  /\ CommandNames = {"zone", "ranking", "stats", "derived", "checkpoint"}
  /\ DOMAIN Commands = 1..5
  /\ Place("zone") = 1 /\ Place("ranking") = 2 /\ Place("checkpoint") = 5
  /\ \A c \in CommandNames : Place(c) \in 1..5
  <1>1. /\ DOMAIN Commands = 1..5
        /\ Commands[1] = "zone" /\ Commands[2] = "ranking" /\ Commands[3] = "stats"
        /\ Commands[4] = "derived" /\ Commands[5] = "checkpoint"
    BY DEF Commands
  <1>2. CommandNames = {"zone", "ranking", "stats", "derived", "checkpoint"}
    BY <1>1 DEF CommandNames
  <1>3. \A i, j \in 1..5 : Commands[i] = Commands[j] => i = j
    BY <1>1
  <1>4. \A i \in 1..5 : Place(Commands[i]) = i
    <2> TAKE i \in 1..5
    <2>1. Place(Commands[i]) \in 1..5 /\ Commands[Place(Commands[i])] = Commands[i]
      BY <1>1 DEF Place
    <2> QED BY <1>3, <2>1
  <1>5. \A c \in CommandNames : \E i \in 1..5 : c = Commands[i]
    BY <1>1 DEF CommandNames
  <1> QED BY <1>1, <1>2, <1>4, <1>5

LEMMA SavesAre ==
  ASSUME SaveProcessed \/ SaveResent \/ SaveRefused \/ SaveCut
  PROVE  \E times \in [CommandNames -> 0..2] : Save(times) /\ Outcome(times)
  <1>1. CASE SaveProcessed
    <2> DEFINE once == [c \in CommandNames |-> 1]
    <2>1. Save(once) /\ Outcome(once)
      BY <1>1 DEF SaveProcessed, Save, Outcome
    <2>2. once \in [CommandNames -> 0..2]
      OBVIOUS
    <2> QED BY <2>1, <2>2
  <1>2. CASE SaveResent
    <2>1. PICK ran \in DOMAIN Commands :
            SavePipeline([c \in CommandNames |-> IF Place(c) <= ran THEN 2 ELSE 1])
      BY <1>2 DEF SaveResent
    <2> DEFINE again == [c \in CommandNames |-> IF Place(c) <= ran THEN 2 ELSE 1]
    <2>2. Save(again) /\ Fault("resent") /\ pc' = "saved"
      BY <1>2, <2>1 DEF SaveResent, Save
    <2>3. again \in [CommandNames -> 0..2] /\ \A c \in CommandNames : again[c] \in 1..2
      OBVIOUS
    <2> HIDE DEF again
    <2> QED BY <2>2, <2>3 DEF Outcome
  <1>3. CASE SaveRefused
    <2>1. PICK refused \in SUBSET CommandNames \ {{}} :
            SavePipeline([c \in CommandNames |-> IF c \in refused THEN 0 ELSE 1])
      BY <1>3 DEF SaveRefused
    <2> DEFINE some == [c \in CommandNames |-> IF c \in refused THEN 0 ELSE 1]
    <2>2. Save(some) /\ Fault("refused") /\ pc' = "saved"
      BY <1>3, <2>1 DEF SaveRefused, Save
    <2>3. some \in [CommandNames -> 0..2] /\ \A c \in CommandNames : some[c] \in 0..1
      OBVIOUS
    <2> HIDE DEF some
    <2> QED BY <2>2, <2>3 DEF Outcome
  <1>4. CASE SaveCut
    <2>1. PICK ran \in DOMAIN Commands :
            SavePipeline([c \in CommandNames |-> IF Place(c) <= ran THEN 1 ELSE 0])
      BY <1>4 DEF SaveCut
    <2> DEFINE part == [c \in CommandNames |-> IF Place(c) <= ran THEN 1 ELSE 0]
    <2>2. Save(part) /\ Fault("cut") /\ pc' = "down"
      BY <1>4, <2>1 DEF SaveCut, Save
    <2>3. part \in [CommandNames -> 0..2] /\ \A c \in CommandNames : part[c] \in 0..1
      OBVIOUS
    <2>4. part["zone"] = 1 /\ (part["checkpoint"] = 1 => part["ranking"] = 1)
      BY CommandsAre
    <2> HIDE DEF part
    <2> QED BY <2>2, <2>3, <2>4 DEF Outcome
  <1> QED BY <1>1, <1>2, <1>3, <1>4

LEMMA NewZoneIs ==
  ASSUME Base, pc = "recorded"
  PROVE  /\ event \in Readings
         /\ event.zone \in Zones /\ event.zone \in DOMAIN config /\ event.kind \in Kinds
         /\ previous = hash[event.zone] /\ previous \in ZoneHashes
         /\ NewZone \in ZoneHashes
         /\ NewZone.capacity = config[event.zone]
         /\ NewZone.occupied <= config[event.zone]
         /\ \A k \in Kinds : NewZone.total[k] = previous.total[k]
                               + (IF k = event.kind THEN 1 ELSE 0)
  <1>1. PICK e \in Readings : e = event
    BY DEF Base, Task, Waiting, event, Numbered
  <1>2. e.zone \in Zones /\ e.kind \in Kinds /\ e.occupied \in Nat
    BY DEF Readings
  <1>3. e.zone \in DOMAIN config /\ previous = hash[e.zone]
    BY <1>1 DEF Base, Task
  <1>4. hash[e.zone] \in ZoneHashes
    BY <1>2, <1>3 DEF Base, Configured, TypeOK
  <1>5. PICK p \in ZoneHashes : p = previous
    BY <1>3, <1>4
  <1>6. p # NoZone /\ p.total \in [Kinds -> Nat]
    BY ZoneIsSome DEF ZoneHashes
  <1>7. PICK c \in Nat \ {0} : c = config[e.zone]
    BY <1>3, ConfigsAre DEF Base, TypeOK
  <1>8. PICK m \in Nat : m = ClampOccupied(e.occupied, c) /\ m <= c
    BY <1>2 DEF ClampOccupied
  <1>9. NewZone = [exists |-> TRUE, capacity |-> c, occupied |-> m,
                   total |-> [k \in Kinds |-> p.total[k] + (IF k = e.kind THEN 1 ELSE 0)]]
    BY <1>1, <1>5, <1>6, <1>7, <1>8 DEF NewZone
  <1>10. NewZone \in ZoneHashes
    BY <1>6, <1>9 DEF ZoneHashes
  <1>11. \A k \in Kinds : NewZone.total[k] = p.total[k] + (IF k = e.kind THEN 1 ELSE 0)
    BY <1>9
  <1>12. NewZone.capacity = c /\ NewZone.occupied = m
    BY <1>9
  <1> QED BY <1>1, <1>2, <1>3, <1>4, <1>5, <1>7, <1>8, <1>10, <1>11, <1>12

LEMMA SaveChanges ==
  ASSUME Base, NEW times \in [CommandNames -> 0..2], Save(times)
  PROVE  /\ \A z \in Zones : hash'[z] = IF z = event.zone /\ times["zone"] # 0
                                        THEN NewZone ELSE hash[z]
         /\ hash' \in [Zones -> ZoneHashes \cup {NoZone}]
         /\ DOMAIN ranking' = DOMAIN ranking
         /\ \A z \in DOMAIN config :
              ranking'[z] = IF z = event.zone /\ times["ranking"] # 0
                            THEN CalculateOccupancy(NewZone.occupied, config[z])
                            ELSE ranking[z]
         /\ stats' \in [Zones -> [Kinds -> Nat]]
         /\ \A z \in Zones, k \in Kinds :
              stats'[z][k] = IF z = event.zone /\ k = event.kind
                             THEN stats[z][k] + times["stats"] ELSE stats[z][k]
  <1>1. /\ pc = "recorded"
        /\ hash' = IF times["zone"] = 0 THEN hash ELSE [hash EXCEPT ![event.zone] = NewZone]
        /\ ranking' = IF times["ranking"] = 0 THEN ranking
                      ELSE [y \in DOMAIN ranking \cup {event.zone} |->
                              IF y = event.zone
                              THEN CalculateOccupancy(NewZone.occupied, config[event.zone])
                              ELSE ranking[y]]
        /\ stats' = [stats EXCEPT ![event.zone][event.kind] = @ + times["stats"]]
    BY DEF Save, SavePipeline
  <1>2. PICK z0 \in Zones : z0 = event.zone
    BY <1>1, NewZoneIs
  <1>3. PICK k0 \in Kinds : k0 = event.kind
    BY <1>1, NewZoneIs
  <1>4. z0 \in DOMAIN config /\ NewZone \in ZoneHashes
    BY <1>1, <1>2, NewZoneIs
  <1>5. /\ hash \in [Zones -> ZoneHashes \cup {NoZone}]
        /\ stats \in [Zones -> [Kinds -> Nat]]
        /\ DOMAIN ranking = DOMAIN config
    BY DEF Base, TypeOK, Configured
  <1>6. times["stats"] \in Nat
    BY CommandsAre
  <1>7. /\ hash' \in [Zones -> ZoneHashes \cup {NoZone}]
        /\ \A z \in Zones : hash'[z] = IF z = event.zone /\ times["zone"] # 0
                                       THEN NewZone ELSE hash[z]
    BY <1>1, <1>2, <1>4, <1>5
  <1>8. /\ DOMAIN ranking' = DOMAIN ranking
        /\ \A z \in DOMAIN config :
              ranking'[z] = IF z = event.zone /\ times["ranking"] # 0
                            THEN CalculateOccupancy(NewZone.occupied, config[z])
                            ELSE ranking[z]
    BY <1>1, <1>2, <1>4, <1>5
  <1>9. stats' = [stats EXCEPT ![z0][k0] = stats[z0][k0] + times["stats"]]
    BY <1>1, <1>2, <1>3
  <1>10. /\ stats' \in [Zones -> [Kinds -> Nat]]
         /\ \A z \in Zones, k \in Kinds :
              stats'[z][k] = IF z = z0 /\ k = k0 THEN stats[z][k] + times["stats"] ELSE stats[z][k]
    BY <1>5, <1>6, <1>9
  <1> QED BY <1>2, <1>3, <1>7, <1>8, <1>10

LEMMA SaveCutsStream ==
  ASSUME Base, NEW times \in [CommandNames -> 0..2], Save(times)
  PROVE  /\ checkpoint' = IF times["checkpoint"] = 0 THEN checkpoint ELSE next
         /\ checkpoint <= checkpoint' /\ checkpoint' <= next
         /\ next \in DOMAIN stream
         /\ LastNumber' = LastNumber
         /\ DOMAIN stream' = (checkpoint' + 1)..LastNumber
         /\ \A n \in DOMAIN stream' : n \in DOMAIN stream /\ stream'[n] = stream[n]
  <1>1. /\ pc = "recorded"
        /\ checkpoint' = IF times["checkpoint"] = 0 THEN checkpoint ELSE next
        /\ stream' = [n \in {m \in DOMAIN stream : m > checkpoint'} |-> stream[n]]
    BY DEF Save, SavePipeline
  <1>2. PICK last \in Nat : last = LastNumber
    BY DEF Base, Numbered
  <1>3. /\ DOMAIN stream = (checkpoint + 1)..last
        /\ checkpoint \in Nat /\ next \in Nat /\ checkpoint <= last
    BY <1>2 DEF Base, Numbered, TypeOK
  <1>4. next \in DOMAIN stream
    BY <1>1 DEF Base, Task, Waiting
  <1>5. PICK new \in Nat : new = checkpoint' /\ checkpoint <= new /\ new <= next
    BY <1>1, <1>3, <1>4
  <1>6. DOMAIN stream' = {m \in (checkpoint + 1)..last : m > new}
    BY <1>1, <1>3, <1>5
  <1>7. DOMAIN stream' = (new + 1)..last
    BY <1>3, <1>5, <1>6
  <1>8. new <= last
    BY <1>3, <1>4, <1>5
  <1>9. new + Cardinality((new + 1)..last) = last
    BY <1>8, LastNumberIs
  <1>10. LastNumber' = last
    BY <1>5, <1>7, <1>9 DEF LastNumber
  <1>11. \A n \in DOMAIN stream' : n \in DOMAIN stream /\ stream'[n] = stream[n]
    BY <1>1
  <1> QED BY <1>1, <1>2, <1>4, <1>5, <1>7, <1>10, <1>11

------------------------------------------------------------------------------
(* Base is kept by every step.                                             *)

LEMMA BaseInit == Init => Base
  <1> SUFFICES ASSUME Init PROVE Base
    OBVIOUS
  <1>1. /\ config \in Configs
        /\ hash = [z \in Zones |-> IF z \in DOMAIN config THEN InitialZone(config[z]) ELSE NoZone]
        /\ ranking = [z \in DOMAIN config |-> 0]
        /\ window = [z \in Zones |-> [k \in Kinds |-> {}]]
        /\ stats = [z \in Zones |-> [k \in Kinds |-> 0]]
        /\ told = [z \in Zones |-> DetermineStatus(0, Thresholds)]
        /\ fulls = {} /\ reconfigured = {} /\ altered = {} /\ removed = {}
        /\ checkpoint = 0 /\ pc = "idle" /\ previous = NoZone
        /\ stream = [n \in {} |-> 0] /\ next = 1
        /\ faults = [kind \in FaultKinds |-> 0]
    BY DEF Init
  <1>2. DOMAIN config \subseteq Zones /\ \A z \in DOMAIN config : config[z] \in Nat \ {0}
    BY <1>1, ConfigsAre
  <1>3. \A z \in DOMAIN config : /\ hash[z] = InitialZone(config[z])
                                 /\ hash[z] \in ZoneHashes /\ hash[z] # NoZone
                                 /\ hash[z].capacity = config[z] /\ hash[z].occupied = 0
    BY <1>1, <1>2, InitialZoneIs, ZoneIsSome
  <1>4. TypeOK
    <2>1. hash \in [Zones -> ZoneHashes \cup {NoZone}]
      BY <1>1, <1>3
    <2>2. told \in [Zones -> Statuses]
      BY <1>1, StatusIs
    <2> QED BY <1>1, <2>1, <2>2 DEF TypeOK, Steps
  <1>5. Configured
    <2>1. DOMAIN ranking = DOMAIN config
      BY <1>1
    <2>2. \A z \in Zones : hash[z] # NoZone <=> z \in DOMAIN config
      <3>1. \A z \in Zones : z \notin DOMAIN config => hash[z] = NoZone
        BY <1>1
      <3> QED BY <1>3, <3>1
    <2>3. \A z \in DOMAIN config : hash[z].occupied <= config[z]
      BY <1>2, <1>3
    <2> QED BY <1>3, <2>1, <2>2, <2>3 DEF Configured
  <1>6. LastNumber = 0
    <2>1. DOMAIN stream = {}
      BY <1>1
    <2>2. Cardinality({}) = 0
      BY FS_EmptySet
    <2> QED BY <1>1, <2>1, <2>2 DEF LastNumber
  <1>7. Numbered
    BY <1>1, <1>6 DEF Numbered
  <1>8. Task
    BY <1>1, <1>6 DEF Task
  <1>9. Members
    BY <1>1 DEF Members
  <1> QED BY <1>4, <1>5, <1>7, <1>8, <1>9 DEF Base

LEMMA SenseGrows ==
  ASSUME Base, Sense
  PROVE  /\ checkpoint' = checkpoint
         /\ LastNumber' = LastNumber + 1
         /\ DOMAIN stream' = DOMAIN stream \cup {LastNumber + 1}
         /\ DOMAIN stream' = (checkpoint + 1)..(LastNumber + 1)
         /\ \A n \in DOMAIN stream : stream'[n] = stream[n]
         /\ stream'[LastNumber + 1] \in Readings
  <1>1. PICK last \in Nat : last = LastNumber
    BY DEF Base, Numbered
  <1>2. PICK first \in Nat : first = checkpoint
    BY DEF Base, TypeOK
  <1>3. DOMAIN stream = (first + 1)..last /\ first <= last
    BY <1>1, <1>2 DEF Base, Numbered
  <1>4. PICK z \in DOMAIN config, k \in Kinds :
          \E count \in IF k = "ENTRY" THEN 1..config[z] ELSE 0..(config[z] - 1) :
            stream' = [n \in DOMAIN stream \cup {last + 1} |->
                         IF n \in DOMAIN stream THEN stream[n]
                         ELSE [zone |-> z, kind |-> k, occupied |-> count]]
    BY <1>1 DEF Sense
  <1>5. z \in Zones /\ config[z] \in Nat \ {0}
    BY ConfigsAre DEF Base, TypeOK
  <1>6. PICK count \in Nat :
          stream' = [n \in DOMAIN stream \cup {last + 1} |->
                       IF n \in DOMAIN stream THEN stream[n]
                       ELSE [zone |-> z, kind |-> k, occupied |-> count]]
    BY <1>4, <1>5
  <1>7. PICK reading \in Readings : reading = [zone |-> z, kind |-> k, occupied |-> count]
    BY <1>5 DEF Readings
  <1>9. stream' = [n \in DOMAIN stream \cup {last + 1} |->
                     IF n \in DOMAIN stream THEN stream[n] ELSE reading]
    BY <1>6, <1>7
  <1>10. last + 1 \notin DOMAIN stream
    BY <1>3
  <1>11. /\ DOMAIN stream' = DOMAIN stream \cup {last + 1}
         /\ \A n \in DOMAIN stream : stream'[n] = stream[n]
         /\ stream'[last + 1] = reading
    BY <1>9, <1>10
  <1>12. DOMAIN stream' = (first + 1)..(last + 1)
    BY <1>3, <1>11
  <1>13. first + Cardinality((first + 1)..(last + 1)) = last + 1
    BY <1>3, LastNumberIs
  <1>14. checkpoint' = first
    BY <1>2 DEF Sense
  <1>15. LastNumber' = last + 1
    BY <1>12, <1>13, <1>14 DEF LastNumber
  <1> QED BY <1>1, <1>2, <1>7, <1>11, <1>12, <1>14, <1>15

LEMMA BaseSense ==
  ASSUME Base, Sense
  PROVE  Base'
  <1>1. /\ Waiting => pc = "down"
        /\ UNCHANGED <<hash, ranking, stats, told, fulls, checkpoint, window, config, pc,
                       previous, next, reconfigured, altered, removed, faults>>
    BY DEF Sense, zoneVars, figureVars, historyVars
  <1>2. TypeOK' /\ Configured'
    BY <1>1 DEF Base, TypeOK, Configured
  <1>3. PICK last \in Nat : last = LastNumber
    BY DEF Base, Numbered
  <1>4. /\ checkpoint \in Nat /\ checkpoint <= last /\ next \in Nat
        /\ DOMAIN stream = (checkpoint + 1)..last
        /\ \A n \in DOMAIN stream : stream[n] \in Readings
    BY <1>3 DEF Base, Numbered, TypeOK
  <1>5. /\ LastNumber' = last + 1
        /\ DOMAIN stream' = DOMAIN stream \cup {last + 1}
        /\ DOMAIN stream' = (checkpoint + 1)..(last + 1)
        /\ \A n \in DOMAIN stream : stream'[n] = stream[n]
        /\ stream'[last + 1] \in Readings
    BY <1>3, SenseGrows
  <1>6. Numbered'
    BY <1>1, <1>4, <1>5 DEF Numbered
  <1>7. pc # "recorded"
    BY <1>1 DEF Base, Task
  <1>8. Task'
    BY <1>1, <1>3, <1>4, <1>5, <1>7 DEF Base, Task
  <1>9. Members'
    <2> SUFFICES ASSUME NEW z \in Zones, NEW k \in Kinds
                 PROVE  /\ \A n \in window[z][k] :
                             /\ n <= LastNumber'
                             /\ n \in DOMAIN stream' => stream'[n].zone = z /\ stream'[n].kind = k
                        /\ z \notin DOMAIN config => window[z][k] = {}
      BY <1>1 DEF Members
    <2>1. window[z][k] \subseteq Nat
      BY DEF Base, TypeOK
    <2>2. /\ \A n \in window[z][k] :
               /\ n <= last
               /\ n \in DOMAIN stream => stream[n].zone = z /\ stream[n].kind = k
          /\ z \notin DOMAIN config => window[z][k] = {}
      BY <1>3 DEF Base, Members
    <2>3. \A n \in window[z][k] : n # last + 1
      BY <2>1, <2>2
    <2> QED BY <1>5, <2>1, <2>2, <2>3
  <1> QED BY <1>2, <1>6, <1>8, <1>9 DEF Base

LEMMA BaseRecord ==
  ASSUME Base, Record
  PROVE  Base'
  <1>1. /\ pc = "idle" /\ Waiting /\ event.zone \in DOMAIN config
        /\ previous' = hash[event.zone]
        /\ window' = [window EXCEPT ![event.zone][event.kind] = @ \cup {next}]
        /\ pc' = "recorded"
        /\ UNCHANGED <<hash, ranking, stats, told, fulls, checkpoint, stream, config, next,
                       reconfigured, altered, removed, faults>>
    BY DEF Record, Member, zoneVars, figureVars, historyVars
  <1>2. PICK z0 \in Zones : z0 = event.zone
    BY <1>1 DEF Base, Numbered, Waiting, event, Readings
  <1>3. PICK k0 \in Kinds : k0 = event.kind
    BY <1>1 DEF Base, Numbered, Waiting, event, Readings
  <1>4. /\ window \in [Zones -> [Kinds -> SUBSET Nat]] /\ next \in Nat
        /\ hash \in [Zones -> ZoneHashes \cup {NoZone}]
    BY DEF Base, TypeOK
  <1>5. window' = [window EXCEPT ![z0][k0] = window[z0][k0] \cup {next}]
    BY <1>1, <1>2, <1>3
  <1>6. /\ window' \in [Zones -> [Kinds -> SUBSET Nat]]
        /\ \A z \in Zones, k \in Kinds :
             window'[z][k] = IF z = z0 /\ k = k0 THEN window[z][k] \cup {next} ELSE window[z][k]
    BY <1>4, <1>5
  <1>7. TypeOK'
    <2>1. previous' \in ZoneHashes \cup {NoZone}
      BY <1>1, <1>2, <1>4
    <2> QED BY <1>1, <1>6, <2>1 DEF Base, TypeOK, Steps
  <1>8. Configured'
    BY <1>1 DEF Base, Configured
  <1>9. LastNumber' = LastNumber
    BY <1>1 DEF LastNumber
  <1>10. Numbered'
    BY <1>1, <1>9 DEF Base, Numbered
  <1>11. event' = event /\ Waiting'
    BY <1>1 DEF event, Waiting
  <1>12. Task'
    <2>1. next \in window'[z0][k0]
      BY <1>6
    <2>2. checkpoint < next /\ next <= LastNumber + 1
      BY <1>1 DEF Base, Task
    <2> QED BY <1>1, <1>2, <1>3, <1>9, <1>11, <2>1, <2>2 DEF Task
  <1>13. Members'
    <2> SUFFICES ASSUME NEW z \in Zones, NEW k \in Kinds
                 PROVE  /\ \A n \in window'[z][k] :
                             /\ n <= LastNumber
                             /\ n \in DOMAIN stream => stream[n].zone = z /\ stream[n].kind = k
                        /\ z \notin DOMAIN config => window'[z][k] = {}
      BY <1>1, <1>9 DEF Members
    <2>1. /\ \A n \in window[z][k] :
               /\ n <= LastNumber
               /\ n \in DOMAIN stream => stream[n].zone = z /\ stream[n].kind = k
          /\ z \notin DOMAIN config => window[z][k] = {}
      BY DEF Base, Members
    <2>2. next <= LastNumber
      BY <1>1 DEF Base, Numbered, Waiting
    <2>3. stream[next].zone = z0 /\ stream[next].kind = k0 /\ z0 \in DOMAIN config
      BY <1>1, <1>2, <1>3 DEF event
    <2>4. CASE z = z0 /\ k = k0
      <3>1. window'[z][k] = window[z][k] \cup {next}
        BY <1>6, <2>4
      <3> QED BY <2>1, <2>2, <2>3, <2>4, <3>1
    <2>5. CASE ~(z = z0 /\ k = k0)
      <3>1. window'[z][k] = window[z][k]
        BY <1>6, <2>5
      <3> QED BY <2>1, <3>1
    <2> QED BY <2>4, <2>5
  <1> QED BY <1>7, <1>8, <1>10, <1>12, <1>13 DEF Base

LEMMA BaseSave ==
  ASSUME Base, NEW times \in [CommandNames -> 0..2], Save(times), Outcome(times)
  PROVE  Base'
  <1>1. /\ pc = "recorded"
        /\ UNCHANGED <<window, config, previous, next, altered, removed>>
        /\ fulls' \in SUBSET Zones /\ reconfigured' \in SUBSET Zones
        /\ told' \in [Zones -> Statuses]
    <2>1. pc = "recorded"
      BY DEF Save
    <2>2. event.zone \in Zones
      BY <2>1, NewZoneIs
    <2>3. /\ fulls \in SUBSET Zones /\ reconfigured \in SUBSET Zones
          /\ told \in [Zones -> Statuses]
      BY DEF Base, TypeOK
    <2>4. told' = told \/ told' = [told EXCEPT ![event.zone] = StatusOf(NewZone)]
      BY DEF Save, SavePipeline
    <2>5. StatusOf(NewZone) \in Statuses
      BY StatusIs DEF StatusOf
    <2>6. told' \in [Zones -> Statuses]
      BY <2>3, <2>4, <2>5
    <2> QED BY <2>1, <2>2, <2>3, <2>6 DEF Save, SavePipeline
  <1>2. pc' \in {"saved", "down"} /\ faults' \in [FaultKinds -> Nat]
    <2>1. faults \in [FaultKinds -> Nat]
      BY DEF Base, TypeOK
    <2>2. {"resent", "refused", "cut"} \subseteq FaultKinds
      BY DEF FaultKinds
    <2> QED BY <2>1, <2>2, FaultIs DEF Outcome
  <1>3. /\ checkpoint' = IF times["checkpoint"] = 0 THEN checkpoint ELSE next
        /\ checkpoint <= checkpoint' /\ checkpoint' <= next
        /\ next \in DOMAIN stream
        /\ LastNumber' = LastNumber
        /\ DOMAIN stream' = (checkpoint' + 1)..LastNumber
        /\ \A n \in DOMAIN stream' : n \in DOMAIN stream /\ stream'[n] = stream[n]
    BY SaveCutsStream
  <1>4. TypeOK'
    <2>1. hash' \in [Zones -> ZoneHashes \cup {NoZone}] /\ stats' \in [Zones -> [Kinds -> Nat]]
      BY SaveChanges
    <2>2. checkpoint' \in Nat
      BY <1>3 DEF Base, TypeOK
    <2> QED BY <1>1, <1>2, <2>1, <2>2 DEF Base, TypeOK, Steps
  <1>5. Configured'
    <2>1. /\ \A z \in Zones : hash'[z] = IF z = event.zone /\ times["zone"] # 0
                                         THEN NewZone ELSE hash[z]
          /\ DOMAIN ranking' = DOMAIN ranking
      BY SaveChanges
    <2>2. /\ event.zone \in DOMAIN config /\ NewZone # NoZone
          /\ NewZone.capacity = config[event.zone] /\ NewZone.occupied <= config[event.zone]
      BY <1>1, NewZoneIs, ZoneIsSome
    <2>3. DOMAIN config \subseteq Zones
      BY ConfigsAre DEF Base, TypeOK
    <2> QED BY <1>1, <2>1, <2>2, <2>3 DEF Base, Configured
  <1>6. Numbered'
    <2>1. LastNumber \in Nat /\ next <= LastNumber /\ \A n \in DOMAIN stream : stream[n] \in Readings
      BY <1>3 DEF Base, Numbered
    <2>2. checkpoint' <= LastNumber
      <3>1. checkpoint' \in Nat /\ next \in Nat
        BY <1>3 DEF Base, TypeOK
      <3> QED BY <1>3, <2>1, <3>1
    <2> QED BY <1>3, <2>1, <2>2 DEF Numbered
  <1>7. Task'
    <2>1. next <= LastNumber
      BY <1>3 DEF Base, Numbered
    <2>2. ASSUME pc' = "saved", faults'["refused"] = 0
          PROVE  next = checkpoint'
      <3>1. "refused" \in FaultKinds /\ faults \in [FaultKinds -> Nat]
        BY DEF FaultKinds, Base, TypeOK
      <3>2. ~Fault("refused")
        <4> SUFFICES ASSUME Fault("refused") PROVE FALSE
          OBVIOUS
        <4>1. faults'["refused"] = faults["refused"] + 1
          BY <3>1, FaultIs
        <4> QED BY <2>2, <3>1, <4>1
      <3>3. times["checkpoint"] # 0
        BY <2>2, <3>2, CommandsAre DEF Outcome
      <3> QED BY <1>3, <3>3
    <2> QED BY <1>1, <1>2, <1>3, <2>1, <2>2 DEF Task
  <1>8. Members'
    BY <1>1, <1>3 DEF Base, Members
  <1> QED BY <1>4, <1>5, <1>6, <1>7, <1>8 DEF Base

(* Steps that only move the task.                                          *)
Turn ==
  UNCHANGED <<hash, ranking, window, stats, told, fulls, checkpoint, config, stream,
              reconfigured, altered, removed>>

LEMMA BaseTurn ==
  ASSUME Base, Turn, previous' \in ZoneHashes \cup {NoZone}, pc' \in Steps \ {"recorded"},
         next' \in Nat, faults' \in [FaultKinds -> Nat],
         pc' \in {"idle", "sampled"} => checkpoint < next' /\ next' <= LastNumber + 1,
         pc' \in {"saved", "grouped"} => pc \in {"saved", "grouped"} /\ next' = next
                                           /\ faults' = faults
  PROVE  Base'
  <1>1. LastNumber' = LastNumber
    BY DEF Turn, LastNumber
  <1>2. TypeOK'
    BY DEF Base, TypeOK, Turn
  <1>3. Configured' /\ Numbered' /\ Members'
    BY <1>1 DEF Base, Configured, Numbered, Members, Turn
  <1>4. Task'
    BY <1>1 DEF Base, Task, Turn
  <1> QED BY <1>2, <1>3, <1>4 DEF Base

(* What every step but a save and those of Record, Sense and Restart does. *)
TurnStep == UnknownZone \/ EvaluateGroups \/ SaveMetrics \/ Sample \/ Reject \/ Crash

LEMMA TurnSteps ==
  ASSUME TurnStep
  PROVE  Turn
  BY DEF TurnStep, Turn, UnknownZone, EvaluateGroups, SaveMetrics, Sample, Reject, Crash,
         zoneVars, figureVars, historyVars

LEMMA BaseTurnStep ==
  ASSUME Base, TurnStep
  PROVE  Base'
  <1>1. Turn
    BY TurnSteps
  <1>2. /\ previous \in ZoneHashes \cup {NoZone} /\ pc \in Steps /\ next \in Nat
        /\ faults \in [FaultKinds -> Nat] /\ checkpoint \in Nat
        /\ LastNumber \in Nat /\ checkpoint <= LastNumber
        /\ DOMAIN stream = (checkpoint + 1)..LastNumber
    BY DEF Base, TypeOK, Numbered
  <1>3. /\ pc \in {"idle", "recorded", "sampled"} => checkpoint < next /\ next <= LastNumber + 1
        /\ pc \in {"saved", "grouped"} => checkpoint <= next /\ next <= LastNumber
    BY DEF Base, Task
  <1>4. CASE UnknownZone
    <2>1. /\ pc = "idle" /\ Waiting /\ next' = next + 1
          /\ UNCHANGED <<pc, previous, faults>>
      BY <1>4 DEF UnknownZone
    <2>2. next <= LastNumber
      BY <1>2, <2>1 DEF Waiting
    <2>3. checkpoint < next' /\ next' <= LastNumber + 1 /\ next' \in Nat
      BY <1>2, <1>3, <2>1, <2>2
    <2> QED BY <1>1, <1>2, <2>1, <2>3, BaseTurn DEF Steps
  <1>5. CASE EvaluateGroups
    <2>1. /\ pc \in {"saved", "sampled"} /\ pc' = IF pc = "saved" THEN "grouped" ELSE "idle"
          /\ UNCHANGED <<previous, next, faults>>
      BY <1>5 DEF EvaluateGroups
    <2> QED BY <1>1, <1>2, <1>3, <2>1, BaseTurn DEF Steps
  <1>6. CASE SaveMetrics
    <2>1. pc = "grouped" /\ pc' = "idle" /\ previous' = NoZone /\ next' = next + 1
          /\ UNCHANGED faults
      BY <1>6 DEF SaveMetrics
    <2>2. checkpoint < next' /\ next' <= LastNumber + 1 /\ next' \in Nat
      BY <1>2, <1>3, <2>1
    <2> QED BY <1>1, <1>2, <2>1, <2>2, BaseTurn DEF Steps
  <1>7. CASE Sample
    <2>1. pc = "idle" /\ pc' = "sampled" /\ UNCHANGED <<previous, next, faults>>
      BY <1>7 DEF Sample
    <2> QED BY <1>1, <1>2, <1>3, <2>1, BaseTurn DEF Steps
  <1>8. CASE Reject
    <2>1. /\ pc \notin {"idle", "down"} /\ Fault("rejected")
          /\ pc' = "idle" /\ previous' = NoZone
          /\ next' = IF pc = "sampled" THEN next ELSE LastNumber + 1
      BY <1>8 DEF Reject
    <2>2. faults' \in [FaultKinds -> Nat]
      BY <1>2, <2>1, FaultIs DEF FaultKinds
    <2>3. checkpoint < next' /\ next' <= LastNumber + 1 /\ next' \in Nat
      BY <1>2, <1>3, <2>1
    <2> QED BY <1>1, <1>2, <2>1, <2>2, <2>3, BaseTurn DEF Steps
  <1>9. CASE Crash
    <2>1. Fault("crash") /\ pc' = "down" /\ UNCHANGED <<previous, next>>
      BY <1>9 DEF Crash
    <2>2. faults' \in [FaultKinds -> Nat]
      BY <1>2, <2>1, FaultIs DEF FaultKinds
    <2> QED BY <1>1, <1>2, <2>1, <2>2, BaseTurn DEF Steps
  <1> QED BY <1>4, <1>5, <1>6, <1>7, <1>8, <1>9 DEF TurnStep

(* What Restart does, zone by zone.                                        *)
LEMMA RestartIs ==
  ASSUME Base, Restart
  PROVE  \E c \in Configs :
           /\ config' = c
           /\ \A z \in Zones : hash'[z] = InitializedZone(z, c)
           /\ hash' \in [Zones -> ZoneHashes \cup {NoZone}]
           /\ DOMAIN ranking' = DOMAIN c
           /\ \A z \in DOMAIN c : ranking'[z] = IF z \in Rescored(c)
                 THEN CalculateOccupancy(hash'[z].occupied, hash'[z].capacity)
                 ELSE ranking[z]
           /\ window' \in [Zones -> [Kinds -> SUBSET Nat]]
           /\ \A z \in Zones, k \in Kinds :
                window'[z][k] = IF z \in DOMAIN config \ DOMAIN c THEN {} ELSE window[z][k]
           /\ removed' = removed \cup (DOMAIN config \ DOMAIN c)
           /\ reconfigured' = reconfigured \cup
                {z \in Zones : \/ hash[z] # NoZone /\ hash'[z] = NoZone
                               \/ /\ hash[z] # NoZone /\ hash'[z] # NoZone
                                  /\ StatusOf(hash[z]) # StatusOf(hash'[z])}
           /\ altered' = altered \cup reconfigured'
  <1>1. DOMAIN ranking = DOMAIN config
    BY DEF Base, Configured
  <1>2. PICK c \in Configs :
          /\ config' = c
          /\ hash' = [z \in Zones |-> InitializedZone(z, c)]
          /\ ranking' = [z \in (DOMAIN ranking \ (Gone(c) \cap Zones)) \cup (Rescored(c) \cap Zones) |->
                            IF z \in Rescored(c) \cap Zones
                            THEN LET h == InitializedZone(z, c)
                                 IN  CalculateOccupancy(h.occupied, h.capacity)
                            ELSE ranking[z]]
          /\ window' = [z \in Zones |-> IF z \in DOMAIN config \ DOMAIN c
                                        THEN [k \in Kinds |-> {}] ELSE window[z]]
          /\ removed' = removed \cup (DOMAIN config \ DOMAIN c)
          /\ reconfigured' = reconfigured \cup
               {z \in Zones : \/ hash[z] # NoZone /\ hash'[z] = NoZone
                              \/ /\ hash[z] # NoZone /\ hash'[z] # NoZone
                                 /\ StatusOf(hash[z]) # StatusOf(hash'[z])}
          /\ altered' = altered \cup reconfigured'
    <2>1. PICK c \in Configs : InitializeZones(c, Zones, Zones)
      BY DEF Restart
    <2>2. Gone(c) = DOMAIN config \ DOMAIN c /\ Gone(c) \cap Zones = Gone(c)
      BY <1>1, ConfigsAre DEF Gone, Base, TypeOK
    <2> QED BY <2>1, <2>2 DEF InitializeZones
  <1>3. window \in [Zones -> [Kinds -> SUBSET Nat]]
    BY DEF Base, TypeOK
  <1>4. /\ window' \in [Zones -> [Kinds -> SUBSET Nat]]
        /\ \A z \in Zones, k \in Kinds :
             window'[z][k] = IF z \in DOMAIN config \ DOMAIN c THEN {} ELSE window[z][k]
    BY <1>2, <1>3
  <1>5. /\ \A z \in Zones : hash'[z] = InitializedZone(z, c)
        /\ DOMAIN hash' = Zones
    BY <1>2
  <1>6. \A z \in Zones : InitializedZone(z, c) \in ZoneHashes \cup {NoZone}
    BY InitializedZoneIs DEF Base
  <1>7. hash' \in [Zones -> ZoneHashes \cup {NoZone}]
    BY <1>2, <1>6
  <1>8. /\ Rescored(c) \cap Zones = Rescored(c)
        /\ (DOMAIN ranking \ (Gone(c) \cap Zones)) \cup (Rescored(c) \cap Zones) = DOMAIN c
    <2>1. DOMAIN c \subseteq Zones /\ DOMAIN ranking \subseteq Zones
      BY <1>1, ConfigsAre DEF Base, TypeOK
    <2>2. \A z \in DOMAIN c : z \notin Rescored(c) => z \in DOMAIN ranking
      BY <1>1, <2>1 DEF Rescored, Base, Configured
    <2> QED BY <2>1, <2>2 DEF Gone, Rescored
  <1>9. /\ DOMAIN ranking' = DOMAIN c
        /\ \A z \in DOMAIN c : ranking'[z] = IF z \in Rescored(c)
              THEN CalculateOccupancy(hash'[z].occupied, hash'[z].capacity)
              ELSE ranking[z]
    <2>1. DOMAIN c \subseteq Zones
      BY ConfigsAre
    <2> QED BY <1>2, <1>5, <1>8, <2>1
  <1> QED BY <1>2, <1>4, <1>5, <1>7, <1>9

LEMMA BaseRestart ==
  ASSUME Base, Restart
  PROVE  Base'
  <1>1. PICK c \in Configs :
           /\ config' = c
           /\ \A z \in Zones : hash'[z] = InitializedZone(z, c)
           /\ hash' \in [Zones -> ZoneHashes \cup {NoZone}]
           /\ DOMAIN ranking' = DOMAIN c
           /\ \A z \in DOMAIN c : ranking'[z] = IF z \in Rescored(c)
                 THEN CalculateOccupancy(hash'[z].occupied, hash'[z].capacity)
                 ELSE ranking[z]
           /\ window' \in [Zones -> [Kinds -> SUBSET Nat]]
           /\ \A z \in Zones, k \in Kinds :
                window'[z][k] = IF z \in DOMAIN config \ DOMAIN c THEN {} ELSE window[z][k]
           /\ removed' = removed \cup (DOMAIN config \ DOMAIN c)
           /\ reconfigured' = reconfigured \cup
                {z \in Zones : \/ hash[z] # NoZone /\ hash'[z] = NoZone
                               \/ /\ hash[z] # NoZone /\ hash'[z] # NoZone
                                  /\ StatusOf(hash[z]) # StatusOf(hash'[z])}
           /\ altered' = altered \cup reconfigured'
    BY RestartIs
  <1>2. /\ pc' = "idle" /\ previous' = NoZone /\ next' = checkpoint + 1
        /\ UNCHANGED <<stats, told, fulls, checkpoint, stream, faults>>
    BY DEF Restart, Resume
  <1>3. DOMAIN c \subseteq Zones /\ DOMAIN config \subseteq Zones
    BY ConfigsAre DEF Base, TypeOK
  <1>4. TypeOK'
    <2>1. reconfigured' \in SUBSET Zones
      BY <1>1 DEF Base, TypeOK
    <2>2. altered' \in SUBSET Zones /\ removed' \in SUBSET Zones
      BY <1>1, <1>3, <2>1 DEF Base, TypeOK
    <2>3. next' \in Nat
      BY <1>2 DEF Base, TypeOK
    <2> QED BY <1>1, <1>2, <2>1, <2>2, <2>3 DEF Base, TypeOK, Steps
  <1>5. Configured'
    <2>1. DOMAIN ranking' = DOMAIN c
      BY <1>1
    <2>2. \A z \in Zones : z \notin DOMAIN c => InitializedZone(z, c) = NoZone
      BY InitializedZoneIs DEF Base
    <2>3. \A z \in DOMAIN c : /\ InitializedZone(z, c) \in ZoneHashes
                              /\ InitializedZone(z, c).capacity = c[z]
                              /\ InitializedZone(z, c).occupied <= c[z]
      BY <1>3, InitializedZoneIs DEF Base
    <2>4. \A z \in DOMAIN c : InitializedZone(z, c) # NoZone
      BY <2>3, ZoneIsSome
    <2> QED BY <1>1, <1>3, <2>1, <2>2, <2>3, <2>4 DEF Configured
  <1>6. LastNumber' = LastNumber
    BY <1>2 DEF LastNumber
  <1>7. Numbered'
    BY <1>2, <1>6 DEF Base, Numbered
  <1>8. Task'
    <2>1. checkpoint \in Nat /\ LastNumber \in Nat /\ checkpoint <= LastNumber
      BY DEF Base, TypeOK, Numbered
    <2>2. checkpoint < checkpoint + 1 /\ checkpoint + 1 <= LastNumber + 1
      BY <2>1
    <2> QED BY <1>2, <1>6, <2>2 DEF Task
  <1>9. Members'
    <2> SUFFICES ASSUME NEW z \in Zones, NEW k \in Kinds
                 PROVE  /\ \A n \in window'[z][k] :
                             /\ n <= LastNumber
                             /\ n \in DOMAIN stream => stream[n].zone = z /\ stream[n].kind = k
                        /\ z \notin DOMAIN c => window'[z][k] = {}
      BY <1>1, <1>2, <1>6 DEF Members
    <2>1. /\ \A n \in window[z][k] :
               /\ n <= LastNumber
               /\ n \in DOMAIN stream => stream[n].zone = z /\ stream[n].kind = k
          /\ z \notin DOMAIN config => window[z][k] = {}
      BY DEF Base, Members
    <2> QED BY <1>1, <2>1
  <1> QED BY <1>4, <1>5, <1>7, <1>8, <1>9 DEF Base

LEMMA NextIs ==
  ASSUME WholeNext
  PROVE  \/ Sense \/ Record \/ TurnStep \/ Restart
         \/ \E times \in [CommandNames -> 0..2] : Save(times) /\ Outcome(times)
  BY SavesAre DEF WholeNext, TurnStep

LEMMA BaseStep ==
  ASSUME Base, [WholeNext]_vars
  PROVE  Base'
  <1>1. CASE UNCHANGED vars
    <2>1. /\ UNCHANGED <<hash, ranking, window, stats, told, fulls, checkpoint, config, pc>>
          /\ UNCHANGED <<previous, stream, next, reconfigured, altered, removed, faults>>
      BY <1>1 DEF vars
    <2>2. TypeOK' /\ Configured'
      BY <2>1 DEF Base, TypeOK, Configured
    <2>3. LastNumber' = LastNumber /\ event' = event /\ (Waiting' <=> Waiting)
      BY <2>1 DEF LastNumber, event, Waiting
    <2>4. Numbered' /\ Members' /\ Task'
      BY <2>1, <2>3 DEF Base, Numbered, Members, Task
    <2> QED BY <2>2, <2>4 DEF Base
  <1>2. CASE WholeNext
    BY <1>2, NextIs, BaseSense, BaseRecord, BaseTurnStep, BaseRestart, BaseSave
  <1> QED BY <1>1, <1>2

LEMMA BaseAlways == Spec => [](Whole => Base)
  BY BaseInit, BaseStep, WholeStep, FaultsTypedAlways, PTL DEF Spec

------------------------------------------------------------------------------
(* The ranking.                                                            *)

(* From where on events are still to be processed.                         *)
Start ==
  IF pc = "down" THEN checkpoint + 1
  ELSE IF pc \in {"saved", "grouped"} THEN next + 1
  ELSE next

Ahead(z) == \E n \in DOMAIN stream : n >= Start /\ stream[n].zone = z

(* A score that a cut left behind is that of a zone with an event ahead,   *)
(* unless that event was rejected.                                         *)
Ranked ==
  faults["refused"] = 0 =>
    \A z \in DOMAIN config :
      \/ ranking[z] = OccupancyOf(z)
      \/ faults["cut"] > 0 /\ (faults["rejected"] > 0 \/ Ahead(z))

LEMMA StartIs ==
  ASSUME Base
  PROVE  Start \in Nat /\ checkpoint + 1 <= Start
  BY DEF Base, TypeOK, Task, Start, Steps

(* Faults are only ever added.                                             *)
LEMMA FaultsGrow ==
  ASSUME Base, [WholeNext]_vars, NEW kind \in FaultKinds
  PROVE  faults[kind] \in Nat /\ faults'[kind] \in Nat /\ faults[kind] <= faults'[kind]
  <1>1. faults \in [FaultKinds -> Nat]
    BY DEF Base, TypeOK
  <1>2. \/ faults' = faults
        \/ \E other \in FaultKinds : Fault(other)
    <2>1. CASE UNCHANGED vars
      BY <2>1 DEF vars
    <2>2. CASE WholeNext
      <3>1. CASE TurnStep
        BY <3>1 DEF TurnStep, UnknownZone, EvaluateGroups, SaveMetrics, Sample, Reject, Crash,
                    FaultKinds
      <3>2. CASE Sense \/ Record \/ Restart
        BY <3>2 DEF Sense, Record, Restart
      <3>3. CASE \E times \in [CommandNames -> 0..2] : Save(times) /\ Outcome(times)
        BY <3>3 DEF Outcome, FaultKinds
      <3> QED BY <2>2, <3>1, <3>2, <3>3, NextIs
    <2> QED BY <2>1, <2>2
  <1>3. CASE faults' = faults
    BY <1>1, <1>3
  <1>4. ASSUME NEW other \in FaultKinds, Fault(other)
        PROVE  faults'[kind] \in Nat /\ faults[kind] <= faults'[kind]
    <2>1. /\ faults'[other] = faults[other] + 1
          /\ \A k \in FaultKinds \ {other} : faults'[k] = faults[k]
      BY <1>1, <1>4, FaultIs
    <2> QED BY <1>1, <2>1
  <1> QED BY <1>1, <1>2, <1>3, <1>4

(* A step that leaves zones and ranking alone, and loses no event ahead.   *)
LEMMA OthersKeepRanked ==
  ASSUME Base, Ranked, [WholeNext]_vars, UNCHANGED <<hash, ranking, config>>,
         \A z \in DOMAIN config : Ahead(z) => Ahead(z)' \/ faults'["rejected"] > 0
  PROVE  Ranked'
  <1>1. \A kind \in FaultKinds :
          faults[kind] \in Nat /\ faults'[kind] \in Nat /\ faults[kind] <= faults'[kind]
    BY FaultsGrow
  <1>2. {"refused", "cut", "rejected"} \subseteq FaultKinds
    BY DEF FaultKinds
  <1>3. \A z : OccupancyOf(z)' = OccupancyOf(z)
    BY DEF OccupancyOf
  <1>4. SUFFICES ASSUME faults'["refused"] = 0, NEW z \in DOMAIN config
                 PROVE  \/ ranking[z] = OccupancyOf(z)
                        \/ faults'["cut"] > 0 /\ (faults'["rejected"] > 0 \/ Ahead(z)')
    BY <1>3 DEF Ranked
  <1>5. faults["refused"] = 0
    BY <1>1, <1>2, <1>4
  <1>6. \/ ranking[z] = OccupancyOf(z)
        \/ faults["cut"] > 0 /\ (faults["rejected"] > 0 \/ Ahead(z))
    BY <1>5 DEF Ranked
  <1> QED BY <1>1, <1>2, <1>6

LEMMA RankedInit == Init => Ranked
  <1> SUFFICES ASSUME Init, NEW z \in DOMAIN config PROVE ranking[z] = OccupancyOf(z)
    BY DEF Ranked
  <1>1. config \in Configs /\ ranking[z] = 0
    BY DEF Init
  <1>2. z \in Zones /\ config[z] \in Nat \ {0}
    BY <1>1, ConfigsAre
  <1>3. hash[z] = InitialZone(config[z])
    BY <1>2 DEF Init
  <1>4. hash[z].occupied = 0 /\ hash[z].capacity = config[z]
    BY <1>2, <1>3, InitialZoneIs
  <1>5. CalculateOccupancy(0, config[z]) = 0
    BY <1>2, EmptyIsZero
  <1> QED BY <1>1, <1>4, <1>5 DEF OccupancyOf

LEMMA RankedTurn ==
  ASSUME Base, Ranked, TurnStep
  PROVE  Ranked'
  <1>1. Turn
    BY TurnSteps
  <1>2. /\ checkpoint \in Nat /\ next \in Nat /\ pc \in Steps
        /\ pc \in {"idle", "recorded", "sampled"} => checkpoint < next
        /\ pc \in {"saved", "grouped"} => checkpoint <= next
        /\ \A n \in DOMAIN stream : n \in Int
    BY DEF Base, TypeOK, Task, Numbered
  <1>3. ASSUME NEW z \in DOMAIN config, Ahead(z)
        PROVE  Ahead(z)' \/ faults'["rejected"] > 0
    <2>1. PICK n \in DOMAIN stream : n >= Start /\ stream[n].zone = z
      BY <1>3 DEF Ahead
    <2>2. stream' = stream /\ checkpoint' = checkpoint
      BY <1>1 DEF Turn
    <2>3. CASE UnknownZone
      <3>1. pc = "idle" /\ pc' = pc /\ event.zone \notin DOMAIN config /\ next' = next + 1
        BY <2>3 DEF UnknownZone
      <3>2. n # next
        BY <2>1, <3>1 DEF event
      <3>3. n >= Start'
        BY <1>2, <2>1, <3>1, <3>2 DEF Start
      <3> QED BY <2>1, <2>2, <3>3 DEF Ahead
    <2>4. CASE EvaluateGroups \/ SaveMetrics \/ Sample
      <3>1. Start' = Start
        BY <2>4 DEF EvaluateGroups, SaveMetrics, Sample, Start
      <3> QED BY <2>1, <2>2, <3>1 DEF Ahead
    <2>5. CASE Crash
      <3>1. Start' = checkpoint + 1
        BY <2>2, <2>5 DEF Crash, Start
      <3>2. n >= Start'
        BY <1>2, <2>1, <3>1, StartIs
      <3> QED BY <2>1, <2>2, <3>2 DEF Ahead
    <2>6. CASE Reject
      <3>1. "rejected" \in FaultKinds /\ faults \in [FaultKinds -> Nat]
        BY DEF FaultKinds, Base, TypeOK
      <3>2. faults'["rejected"] = faults["rejected"] + 1
        BY <2>6, <3>1, FaultIs DEF Reject
      <3> QED BY <3>1, <3>2
    <2> QED BY <2>3, <2>4, <2>5, <2>6 DEF TurnStep
  <1>4. [WholeNext]_vars
    BY DEF WholeNext, TurnStep
  <1> QED BY <1>1, <1>3, <1>4, OthersKeepRanked DEF Turn

LEMMA RankedSenseRecord ==
  ASSUME Base, Ranked, Sense \/ Record
  PROVE  Ranked'
  <1>1. ASSUME NEW z \in DOMAIN config, Ahead(z)
        PROVE  Ahead(z)'
    <2>1. PICK n \in DOMAIN stream : n >= Start /\ stream[n].zone = z
      BY <1>1 DEF Ahead
    <2>2. CASE Sense
      <3>1. Start' = Start
        BY <2>2 DEF Sense, Start
      <3>2. n \in DOMAIN stream' /\ stream'[n] = stream[n]
        BY <2>2, SenseGrows
      <3> QED BY <2>1, <3>1, <3>2 DEF Ahead
    <2>3. CASE Record
      <3>1. Start' = Start /\ stream' = stream
        BY <2>3 DEF Record, Start, zoneVars
      <3> QED BY <2>1, <3>1 DEF Ahead
    <2> QED BY <2>2, <2>3
  <1>2. [WholeNext]_vars /\ UNCHANGED <<hash, ranking, config>>
    BY DEF WholeNext, Sense, Record, zoneVars
  <1> QED BY <1>1, <1>2, OthersKeepRanked

LEMMA RankedRestart ==
  ASSUME Base, Ranked, Restart
  PROVE  Ranked'
  <1>1. PICK c \in Configs : /\ config' = c
                             /\ \A z \in Zones : hash'[z] = InitializedZone(z, c)
                             /\ \A z \in DOMAIN c : ranking'[z] = IF z \in Rescored(c)
                                  THEN CalculateOccupancy(hash'[z].occupied, hash'[z].capacity)
                                  ELSE ranking[z]
    BY RestartIs
  <1>2. /\ faults' = faults /\ stream' = stream /\ pc = "down"
        /\ Start = checkpoint + 1 /\ Start' = checkpoint + 1
    BY DEF Restart, Resume, Start
  <1>3. \A z : Ahead(z)' <=> Ahead(z)
    BY <1>2 DEF Ahead
  <1>4. SUFFICES ASSUME faults["refused"] = 0, NEW z \in DOMAIN c
                 PROVE  \/ ranking'[z] = OccupancyOf(z)'
                        \/ faults["cut"] > 0 /\ (faults["rejected"] > 0 \/ Ahead(z))
    BY <1>1, <1>2, <1>3 DEF Ranked
  <1>5. z \in Zones /\ c[z] \in Nat \ {0}
    BY ConfigsAre
  <1>6. InitializedZone(z, c).capacity = c[z]
    BY <1>5, InitializedZoneIs DEF Base
  <1>7. OccupancyOf(z)' = CalculateOccupancy(InitializedZone(z, c).occupied, c[z])
    BY <1>1, <1>5, <1>6 DEF OccupancyOf
  <1>8. CASE hash[z] = NoZone \/ hash[z].capacity # c[z]
    BY <1>1, <1>5, <1>6, <1>7, <1>8 DEF Rescored
  <1>9. CASE hash[z] # NoZone /\ hash[z].capacity = c[z]
    <2>1. /\ z \in DOMAIN config /\ z \in DOMAIN ranking
          /\ hash[z] \in ZoneHashes /\ hash[z].occupied <= c[z]
      BY <1>5, <1>9 DEF Base, Configured, TypeOK
    <2>2. ranking'[z] = ranking[z]
      BY <1>1, <1>9, <2>1 DEF Rescored
    <2>3. hash[z].occupied \in 0..c[z]
      <3>1. PICK h \in ZoneHashes : h = hash[z]
        BY <2>1
      <3>2. h.occupied \in Nat
        BY DEF ZoneHashes
      <3> QED BY <1>5, <2>1, <3>1, <3>2
    <2>4. ClampOccupied(hash[z].occupied, c[z]) = hash[z].occupied
      BY <1>5, <2>3, ClampIsWithin
    <2>5. InitializedZone(z, c).occupied = hash[z].occupied
      BY <1>5, <1>9, <2>4, InitializedZoneIs DEF Base
    <2>6. OccupancyOf(z)' = OccupancyOf(z)
      BY <1>7, <1>9, <2>5 DEF OccupancyOf
    <2> QED BY <1>4, <2>1, <2>2, <2>6 DEF Ranked
  <1> QED BY <1>8, <1>9

LEMMA RankedSave ==
  ASSUME Base, Ranked, NEW times \in [CommandNames -> 0..2], Save(times), Outcome(times),
         [WholeNext]_vars
  PROVE  Ranked'
  <1>1. \A kind \in FaultKinds :
          faults[kind] \in Nat /\ faults'[kind] \in Nat /\ faults[kind] <= faults'[kind]
    BY FaultsGrow
  <1>2. {"refused", "cut", "rejected", "resent"} \subseteq FaultKinds
        /\ faults \in [FaultKinds -> Nat]
    BY DEF FaultKinds, Base, TypeOK
  <1>3. pc = "recorded" /\ next' = next /\ config' = config
    BY DEF Save
  <1>4. /\ \A z \in Zones : hash'[z] = IF z = event.zone /\ times["zone"] # 0
                                       THEN NewZone ELSE hash[z]
        /\ \A z \in DOMAIN config :
              ranking'[z] = IF z = event.zone /\ times["ranking"] # 0
                            THEN CalculateOccupancy(NewZone.occupied, config[z])
                            ELSE ranking[z]
    BY SaveChanges
  <1>5. /\ checkpoint' = IF times["checkpoint"] = 0 THEN checkpoint ELSE next
        /\ checkpoint <= checkpoint' /\ checkpoint' <= next
        /\ next \in DOMAIN stream
        /\ LastNumber' = LastNumber
        /\ DOMAIN stream' = (checkpoint' + 1)..LastNumber
        /\ \A n \in DOMAIN stream' : n \in DOMAIN stream /\ stream'[n] = stream[n]
    BY SaveCutsStream
  <1>6. /\ checkpoint \in Nat /\ next \in Nat /\ LastNumber \in Nat
        /\ DOMAIN stream = (checkpoint + 1)..LastNumber
    BY DEF Base, TypeOK, Numbered
  <1>7. /\ pc' \in {"saved", "down"}
        /\ Start' = IF pc' = "down" THEN checkpoint' + 1 ELSE next + 1
    BY <1>3 DEF Outcome, Start
  <1>8. SUFFICES ASSUME faults'["refused"] = 0, NEW z \in DOMAIN config
                 PROVE  \/ ranking'[z] = OccupancyOf(z)'
                        \/ faults'["cut"] > 0 /\ (faults'["rejected"] > 0 \/ Ahead(z)')
    BY <1>3 DEF Ranked
  <1>9. faults["refused"] = 0
    BY <1>1, <1>2, <1>8
  <1>10. ~Fault("refused")
    <2> SUFFICES ASSUME Fault("refused") PROVE FALSE
      OBVIOUS
    <2>1. faults'["refused"] = faults["refused"] + 1
      BY <1>2, FaultIs
    <2> QED BY <1>8, <1>9, <2>1
  <1>11. z \in Zones
    BY ConfigsAre DEF Base, TypeOK
  <1>12. times["zone"] # 0
    BY <1>10, CommandsAre DEF Outcome
  <1>13. CASE z = event.zone /\ times["ranking"] # 0
    <2>1. hash'[z] = NewZone /\ NewZone.capacity = config[z]
      BY <1>3, <1>4, <1>11, <1>12, <1>13, NewZoneIs
    <2> QED BY <1>4, <1>13, <2>1 DEF OccupancyOf
  <1>14. CASE z = event.zone /\ times["ranking"] = 0
    <2>1. Fault("cut") /\ pc' = "down" /\ times["checkpoint"] = 0
      BY <1>10, <1>14, CommandsAre DEF Outcome
    <2>2. faults'["cut"] = faults["cut"] + 1
      BY <1>2, <2>1, FaultIs
    <2>3. checkpoint' = checkpoint /\ Start' = checkpoint + 1
      BY <1>5, <1>7, <2>1
    <2>4. next \in DOMAIN stream' /\ next >= Start' /\ stream'[next] = stream[next]
      BY <1>5, <1>6, <2>3
    <2>5. stream'[next].zone = z
      BY <1>14, <2>4 DEF event
    <2> QED BY <1>1, <1>2, <2>2, <2>4, <2>5 DEF Ahead
  <1>15. CASE z # event.zone
    <2>1. hash'[z] = hash[z] /\ ranking'[z] = ranking[z]
      BY <1>4, <1>11, <1>15
    <2>2. OccupancyOf(z)' = OccupancyOf(z)
      BY <2>1 DEF OccupancyOf
    <2>3. \/ ranking[z] = OccupancyOf(z)
          \/ faults["cut"] > 0 /\ (faults["rejected"] > 0 \/ Ahead(z))
      BY <1>9 DEF Ranked
    <2>4. ASSUME Ahead(z)
          PROVE  Ahead(z)'
      <3>1. PICK n \in DOMAIN stream : n >= Start /\ stream[n].zone = z
        BY <2>4 DEF Ahead
      <3>2. n # next /\ n >= next
        BY <1>3, <1>15, <3>1 DEF event, Start
      <3>3. n \in DOMAIN stream' /\ n >= Start'
        BY <1>5, <1>6, <1>7, <3>1, <3>2
      <3>4. stream'[n] = stream[n]
        BY <1>5, <3>3
      <3> QED BY <3>1, <3>3, <3>4 DEF Ahead
    <2> QED BY <1>1, <1>2, <2>1, <2>2, <2>3, <2>4
  <1> QED BY <1>13, <1>14, <1>15

LEMMA RankedStep ==
  ASSUME Base, Ranked, [WholeNext]_vars
  PROVE  Ranked'
  <1>1. CASE UNCHANGED vars
    BY <1>1 DEF vars, Ranked, OccupancyOf, Ahead, Start
  <1>2. CASE WholeNext
    BY <1>2, NextIs, RankedSenseRecord, RankedTurn, RankedRestart, RankedSave
  <1> QED BY <1>1, <1>2

LEMMA RankedAlways == Spec => [](Whole => Ranked)
  BY BaseAlways, RankedInit, RankedStep, WholeStep, FaultsTypedAlways, PTL DEF Spec

(* The ranking that is answered holds the zones of the configuration in    *)
(* the order of their occupancy, unless a pipeline was refused or a cut    *)
(* one is still to be replayed (saveProcessed, initializeZones).           *)
THEOREM RankingFollowsZonesAlways == Spec => []RankingFollowsZones
  <1>1. ASSUME Whole => Base, Whole => Ranked
        PROVE  RankingFollowsZones
    <2> SUFFICES ASSUME faults["refused"] = 0, Base, Ranked,
                        faults["cut"] = 0 \/ (DOMAIN stream = {} /\ faults["rejected"] = 0)
                 PROVE  /\ DOMAIN ranking = DOMAIN config
                        /\ RankedBy(ranking) = RankedBy([z \in DOMAIN config |-> OccupancyOf(z)])
      BY <1>1 DEF RankingFollowsZones, Whole
    <2>1. DOMAIN ranking = DOMAIN config
      BY DEF Base, Configured
    <2>2. \A z \in DOMAIN config : ranking[z] = OccupancyOf(z)
      BY DEF Ranked, Ahead
    <2> DEFINE score == [z \in DOMAIN config |-> OccupancyOf(z)]
    <2>3. DOMAIN score = DOMAIN config /\ \A z \in DOMAIN config : score[z] = ranking[z]
      BY <2>2
    <2> HIDE DEF score
    <2>4. RankedBy(ranking)
            = [z \in DOMAIN config |->
                 [occupancy |-> ranking[z],
                  before |-> {y \in DOMAIN config : ranking[y] > ranking[z]}]]
      BY <2>1 DEF RankedBy
    <2>5. RankedBy(score)
            = [z \in DOMAIN config |->
                 [occupancy |-> score[z],
                  before |-> {y \in DOMAIN config : score[y] > score[z]}]]
      BY <2>3 DEF RankedBy
    <2>6. \A z \in DOMAIN config :
            {y \in DOMAIN config : ranking[y] > ranking[z]}
              = {y \in DOMAIN config : score[y] > score[z]}
      BY <2>3
    <2>7. RankedBy(ranking) = RankedBy(score)
      BY <2>3, <2>4, <2>5, <2>6
    <2> QED BY <2>1, <2>7 DEF score
  <1> QED BY <1>1, BaseAlways, RankedAlways, PTL

------------------------------------------------------------------------------
(* What a reader of the stream was told.                                   *)

(* A zone that does not exist is one that would start empty.               *)
StatusAt(z) ==
  IF hash[z] = NoZone THEN DetermineStatus(0, Thresholds) ELSE StatusOf(hash[z])

AsTold ==
  faults["cut"] = 0 /\ faults["refused"] = 0 =>
    \A z \in Zones :
      /\ z \notin reconfigured => told[z] = StatusAt(z)
      /\ z \notin altered => z \notin reconfigured /\ (z \in fulls <=> StatusAt(z) = "FULL")

LEMMA EmptyIsNotFull == DetermineStatus(0, Thresholds) # "FULL"
  <1>1. /\ Thresholds.normal \in Nat /\ Thresholds.warning \in Nat
        /\ Thresholds.critical \in Nat /\ Thresholds.full \in Nat
    BY EventProcessorAssumption
  <1>2. 0 < Thresholds.full
    BY <1>1, EventProcessorAssumption
  <1> QED BY <1>1, <1>2 DEF DetermineStatus

LEMMA InitialStatus ==
  ASSUME NEW capacity \in Nat \ {0}
  PROVE  StatusOf(InitialZone(capacity)) = DetermineStatus(0, Thresholds)
  BY InitialZoneIs, EmptyIsZero DEF StatusOf

LEMMA AsToldInit == Init => AsTold
  <1> SUFFICES ASSUME Init, NEW z \in Zones
               PROVE  /\ z \notin reconfigured => told[z] = StatusAt(z)
                      /\ z \notin altered => /\ z \notin reconfigured
                                             /\ z \in fulls <=> StatusAt(z) = "FULL"
    BY DEF AsTold
  <1>1. /\ told[z] = DetermineStatus(0, Thresholds) /\ fulls = {}
        /\ reconfigured = {} /\ altered = {} /\ config \in Configs
        /\ hash[z] = IF z \in DOMAIN config THEN InitialZone(config[z]) ELSE NoZone
    BY DEF Init
  <1>2. StatusAt(z) = DetermineStatus(0, Thresholds)
    BY <1>1, ConfigsAre, InitialStatus DEF StatusAt
  <1> QED BY <1>1, <1>2, EmptyIsNotFull

LEMMA OthersKeepTold ==
  ASSUME AsTold, UNCHANGED <<hash, told, fulls, reconfigured, altered>>,
         faults'["cut"] = 0 => faults["cut"] = 0,
         faults'["refused"] = 0 => faults["refused"] = 0
  PROVE  AsTold'
  <1>1. \A z : StatusAt(z)' = StatusAt(z)
    BY DEF StatusAt, StatusOf
  <1> QED BY <1>1 DEF AsTold

LEMMA AsToldRestart ==
  ASSUME Base, AsTold, Restart
  PROVE  AsTold'
  <1>1. PICK c \in Configs :
           /\ config' = c
           /\ \A z \in Zones : hash'[z] = InitializedZone(z, c)
           /\ reconfigured' = reconfigured \cup
                {z \in Zones : \/ hash[z] # NoZone /\ hash'[z] = NoZone
                               \/ /\ hash[z] # NoZone /\ hash'[z] # NoZone
                                  /\ StatusOf(hash[z]) # StatusOf(hash'[z])}
           /\ altered' = altered \cup reconfigured'
    BY RestartIs
  <1>2. faults' = faults /\ told' = told /\ fulls' = fulls
    BY DEF Restart
  <1>3. SUFFICES ASSUME faults["cut"] = 0, faults["refused"] = 0, NEW z \in Zones
                 PROVE  /\ z \notin reconfigured' => told[z] = StatusAt(z)'
                        /\ z \notin altered' =>
                             /\ z \notin reconfigured'
                             /\ z \in fulls <=> StatusAt(z)' = "FULL"
    BY <1>2 DEF AsTold
  <1>4. ASSUME z \notin reconfigured'
        PROVE  StatusAt(z)' = StatusAt(z)
    <2>1. /\ hash[z] # NoZone => hash'[z] # NoZone
          /\ hash[z] # NoZone => StatusOf(hash[z]) = StatusOf(hash'[z])
      BY <1>1, <1>4
    <2>2. StatusAt(z)' = IF hash'[z] = NoZone THEN DetermineStatus(0, Thresholds)
                         ELSE StatusOf(hash'[z])
      BY DEF StatusAt, StatusOf
    <2>3. CASE hash[z] # NoZone
      BY <2>1, <2>2, <2>3 DEF StatusAt
    <2>4. CASE hash[z] = NoZone
      <3>1. CASE z \in DOMAIN c
        <4>1. hash'[z] = InitialZone(c[z]) /\ c[z] \in Nat \ {0}
          BY <1>1, <2>4, <3>1, InitializedZoneIs, ConfigsAre DEF Base
        <4>2. StatusOf(hash'[z]) = DetermineStatus(0, Thresholds)
          BY <4>1, InitialStatus
        <4> QED BY <2>2, <2>4, <4>2 DEF StatusAt
      <3>2. CASE z \notin DOMAIN c
        <4>1. hash'[z] = NoZone
          BY <1>1, <3>2, InitializedZoneIs DEF Base
        <4> QED BY <2>2, <2>4, <4>1 DEF StatusAt
      <3> QED BY <3>1, <3>2
    <2> QED BY <2>3, <2>4
  <1>5. reconfigured \subseteq reconfigured' /\ reconfigured' \subseteq altered'
        /\ altered \subseteq altered'
    BY <1>1
  <1> QED BY <1>3, <1>4, <1>5 DEF AsTold

LEMMA AsToldSave ==
  ASSUME Base, AsTold, NEW times \in [CommandNames -> 0..2], Save(times), Outcome(times),
         [WholeNext]_vars
  PROVE  AsTold'
  <1>1. {"refused", "cut"} \subseteq FaultKinds /\ faults \in [FaultKinds -> Nat]
    BY DEF FaultKinds, Base, TypeOK
  <1>2. SUFFICES ASSUME faults'["cut"] = 0, faults'["refused"] = 0, NEW z \in Zones
                 PROVE  /\ z \notin reconfigured' => told'[z] = StatusAt(z)'
                        /\ z \notin altered' =>
                             /\ z \notin reconfigured'
                             /\ z \in fulls' <=> StatusAt(z)' = "FULL"
    BY DEF AsTold
  <1>3. faults["cut"] = 0 /\ faults["refused"] = 0
    <2>1. \A kind \in FaultKinds :
            faults[kind] \in Nat /\ faults'[kind] \in Nat /\ faults[kind] <= faults'[kind]
      BY FaultsGrow
    <2> QED BY <1>1, <1>2, <2>1
  <1>4. ~Fault("refused") /\ ~Fault("cut")
    <2>1. ASSUME NEW kind \in {"refused", "cut"}, Fault(kind) PROVE FALSE
      <3>1. faults'[kind] = faults[kind] + 1
        BY <1>1, <2>1, FaultIs
      <3> QED BY <1>2, <1>3, <2>1, <3>1
    <2> QED BY <2>1
  <1>5. times["zone"] # 0 /\ times["derived"] # 0
    BY <1>4, CommandsAre DEF Outcome
  <1>6. pc = "recorded"
    BY DEF Save
  <1>7. PICK z0 \in Zones : z0 = event.zone
    BY <1>6, NewZoneIs
  <1>8. previous = hash[z0] /\ previous # NoZone /\ NewZone # NoZone
    BY <1>6, <1>7, NewZoneIs, ZoneIsSome
  <1>9. PICK before \in Statuses : before = StatusOf(previous)
    BY StatusIs DEF StatusOf
  <1>10. PICK after \in Statuses : after = StatusOf(NewZone)
    BY StatusIs DEF StatusOf
  <1>11. /\ hash'[z] = IF z = z0 THEN NewZone ELSE hash[z]
         /\ StatusAt(z)' = IF hash'[z] = NoZone THEN DetermineStatus(0, Thresholds)
                           ELSE StatusOf(hash'[z])
    BY <1>5, <1>7, SaveChanges DEF StatusAt, StatusOf
  <1>12. StatusAt(z)' = IF z = z0 THEN after ELSE StatusAt(z)
    BY <1>8, <1>10, <1>11 DEF StatusAt
  <1>13. StatusAt(z0) = before
    BY <1>8, <1>9 DEF StatusAt
  <1>14. PICK derived \in SUBSET {"ZONE_STATUS_CHANGED", "PARKING_FULL", "PARKING_AVAILABLE"} :
            derived = StatusEvents(before, after)
    BY DEF StatusEvents
  <1>15. /\ told' = IF "ZONE_STATUS_CHANGED" \in derived
                    THEN [told EXCEPT ![z0] = after] ELSE told
         /\ fulls' = IF "PARKING_FULL" \in derived THEN fulls \cup {z0}
                     ELSE IF "PARKING_AVAILABLE" \in derived THEN fulls \ {z0} ELSE fulls
         /\ reconfigured' = IF "ZONE_STATUS_CHANGED" \in derived
                            THEN reconfigured \ {z0} ELSE reconfigured
         /\ altered' = altered
    <2>1. Derived = derived
      BY <1>8, <1>9, <1>10, <1>14 DEF Derived
    <2> QED BY <1>5, <1>7, <1>10, <2>1 DEF Save, SavePipeline
  <1>16. told \in [Zones -> Statuses]
    BY DEF Base, TypeOK
  <1>17. /\ z \notin reconfigured => told[z] = StatusAt(z)
         /\ z \notin altered => z \notin reconfigured /\ (z \in fulls <=> StatusAt(z) = "FULL")
    BY <1>3 DEF AsTold
  <1>18. CASE z # z0
    <2>1. /\ told'[z] = told[z] /\ (z \in fulls' <=> z \in fulls)
          /\ z \in reconfigured' <=> z \in reconfigured
      BY <1>15, <1>16, <1>18
    <2> QED BY <1>12, <1>15, <1>17, <1>18, <2>1
  <1>19. CASE z = z0 /\ before = after
    <2>1. derived = {}
      BY <1>14, <1>19 DEF StatusEvents
    <2> QED BY <1>12, <1>13, <1>15, <1>17, <1>19, <2>1
  <1>20. CASE z = z0 /\ before # after
    <2>1. /\ "ZONE_STATUS_CHANGED" \in derived
          /\ "PARKING_FULL" \in derived <=> after = "FULL"
          /\ "PARKING_AVAILABLE" \in derived <=> before = "FULL"
      BY <1>14, <1>20 DEF StatusEvents
    <2>2. told'[z] = after /\ z \notin reconfigured'
      BY <1>15, <1>16, <1>20, <2>1
    <2>3. z \notin altered => (z \in fulls' <=> after = "FULL")
      BY <1>13, <1>15, <1>17, <1>20, <2>1
    <2> QED BY <1>12, <1>15, <1>20, <2>2, <2>3
  <1> QED BY <1>18, <1>19, <1>20

LEMMA AsToldStep ==
  ASSUME Base, AsTold, [WholeNext]_vars
  PROVE  AsTold'
  <1>1. \A kind \in FaultKinds :
          faults[kind] \in Nat /\ faults'[kind] \in Nat /\ faults[kind] <= faults'[kind]
    BY FaultsGrow
  <1>2. /\ faults'["cut"] = 0 => faults["cut"] = 0
        /\ faults'["refused"] = 0 => faults["refused"] = 0
    BY <1>1 DEF FaultKinds
  <1>3. CASE UNCHANGED vars
    BY <1>2, <1>3, OthersKeepTold DEF vars
  <1>4. CASE Sense \/ Record
    <2>1. UNCHANGED <<hash, told, fulls, reconfigured, altered>>
      BY <1>4 DEF Sense, Record, zoneVars, historyVars
    <2> QED BY <1>2, <2>1, OthersKeepTold
  <1>5. CASE TurnStep
    BY <1>2, <1>5, TurnSteps, OthersKeepTold DEF Turn
  <1>6. CASE Restart
    BY <1>6, AsToldRestart
  <1>7. CASE \E times \in [CommandNames -> 0..2] : Save(times) /\ Outcome(times)
    BY <1>7, AsToldSave
  <1> QED BY <1>3, <1>4, <1>5, <1>6, <1>7, NextIs

LEMMA AsToldAlways == Spec => [](Whole => AsTold)
  BY BaseAlways, AsToldInit, AsToldStep, WholeStep, FaultsTypedAlways, PTL DEF Spec

(* The last ZONE_STATUS_CHANGED of a zone says the status it has, and      *)
(* PARKING_FULL and PARKING_AVAILABLE answer one another, through crashes, *)
(* replays and rejections (deriveStatusEvents, saveProcessed).             *)
THEOREM StatusIsToldAlways == Spec => []StatusIsTold
  <1>1. ASSUME Whole => Base, Whole => AsTold
        PROVE  StatusIsTold
    <2> SUFFICES ASSUME faults["cut"] = 0, faults["refused"] = 0, Base, AsTold, NEW z \in AllZones
                 PROVE  /\ z \notin reconfigured => told[z] = StatusOf(hash[z])
                        /\ z \notin altered => (z \in fulls) = (StatusOf(hash[z]) = "FULL")
      BY <1>1 DEF StatusIsTold, Whole
    <2>1. z \in Zones /\ hash[z] # NoZone
      BY ConfigsAre DEF AllZones, Base, TypeOK
    <2>2. StatusAt(z) = StatusOf(hash[z])
      BY <2>1 DEF StatusAt
    <2> QED BY <2>1, <2>2 DEF AsTold
  <1> QED BY <1>1, BaseAlways, AsToldAlways, PTL

------------------------------------------------------------------------------
(* The counts: stats against totals.                                       *)

Total(z, k) == IF hash[z] = NoZone THEN 0 ELSE hash[z].total[k]

StatsAgree ==
  \A z \in Zones \ removed, k \in Kinds :
    /\ Total(z, k) <= stats[z][k] + faults["cut"] + faults["refused"]
    /\ stats[z][k] <= Total(z, k) + faults["resent"] + faults["refused"]

LEMMA TotalIs ==
  ASSUME Base, NEW z \in Zones, NEW k \in Kinds
  PROVE  Total(z, k) \in Nat
  <1>1. PICK h \in ZoneHashes \cup {NoZone} : h = hash[z]
    BY DEF Base, TypeOK
  <1>2. h # NoZone => h.total \in [Kinds -> Nat]
    BY DEF ZoneHashes
  <1> QED BY <1>1, <1>2 DEF Total

LEMMA TotalOfInit ==
  ASSUME Init, NEW z \in Zones, NEW k \in Kinds
  PROVE  Total(z, k) = 0
  <1>1. /\ hash[z] = IF z \in DOMAIN config THEN InitialZone(config[z]) ELSE NoZone
        /\ config \in Configs
    BY DEF Init
  <1>2. z \in DOMAIN config => hash[z].total[k] = 0
    BY <1>1, ConfigsAre, InitialZoneIs
  <1> QED BY <1>1, <1>2 DEF Total

(* One more of the total, where the hash was saved.                        *)
LEMMA TotalOfSave ==
  ASSUME Base, NEW times \in [CommandNames -> 0..2], Save(times),
         NEW z \in Zones, NEW k \in Kinds
  PROVE  Total(z, k)' = Total(z, k)
                          + (IF z = event.zone /\ k = event.kind /\ times["zone"] # 0 THEN 1 ELSE 0)
  <1>1. hash'[z] = IF z = event.zone /\ times["zone"] # 0 THEN NewZone ELSE hash[z]
    BY SaveChanges
  <1>2. Total(z, k)' = IF hash'[z] = NoZone THEN 0 ELSE hash'[z].total[k]
    BY DEF Total
  <1>3. Total(z, k) \in Nat
    BY TotalIs
  <1>4. CASE z = event.zone /\ times["zone"] # 0
    <2>1. /\ previous = hash[z] /\ previous # NoZone /\ NewZone # NoZone
          /\ NewZone.total[k] = previous.total[k] + (IF k = event.kind THEN 1 ELSE 0)
      BY <1>4, NewZoneIs, ZoneIsSome DEF Save
    <2> QED BY <1>1, <1>2, <1>4, <2>1 DEF Total
  <1>5. CASE ~(z = event.zone /\ times["zone"] # 0)
    BY <1>1, <1>2, <1>3, <1>5 DEF Total
  <1> QED BY <1>4, <1>5

LEMMA TotalOfRestart ==
  ASSUME Base, Restart, NEW c \in Configs, config' = c,
         \A z \in Zones : hash'[z] = InitializedZone(z, c),
         NEW z \in Zones, NEW k \in Kinds
  PROVE  Total(z, k)' = IF z \in DOMAIN config \ DOMAIN c THEN 0 ELSE Total(z, k)
  <1>1. hash[z] # NoZone <=> z \in DOMAIN config
    BY DEF Base, Configured
  <1>2. Total(z, k)' = IF hash'[z] = NoZone THEN 0 ELSE hash'[z].total[k]
    BY DEF Total
  <1>3. CASE z \notin DOMAIN c
    <2>1. hash'[z] = NoZone
      BY <1>3, InitializedZoneIs DEF Base
    <2> QED BY <1>1, <1>2, <1>3, <2>1 DEF Total
  <1>4. CASE z \in DOMAIN c /\ hash[z] = NoZone
    <2>1. hash'[z] = InitialZone(c[z]) /\ c[z] \in Nat \ {0}
      BY <1>4, InitializedZoneIs, ConfigsAre DEF Base
    <2>2. hash'[z].total[k] = 0
      BY <2>1, InitialZoneIs
    <2> QED BY <1>2, <1>4, <2>2 DEF Total
  <1>5. CASE z \in DOMAIN c /\ hash[z] # NoZone
    <2>1. hash'[z].total = hash[z].total /\ hash'[z] # NoZone
      BY <1>5, InitializedZoneIs, ZoneIsSome DEF Base
    <2> QED BY <1>2, <1>5, <2>1 DEF Total
  <1> QED BY <1>3, <1>4, <1>5

LEMMA TotalOfOthers ==
  ASSUME hash' = hash, NEW z, NEW k
  PROVE  Total(z, k)' = Total(z, k)
  BY DEF Total

(* What a fault of saveProcessed may set apart, it is counted for.         *)
LEMMA OutcomeIsCounted ==
  ASSUME Base, NEW times \in [CommandNames -> 0..2], Outcome(times),
         NEW one \in 0..1, one = IF times["zone"] # 0 THEN 1 ELSE 0
  PROVE  /\ one + faults["cut"] + faults["refused"]
              <= times["stats"] + faults'["cut"] + faults'["refused"]
         /\ times["stats"] + faults["resent"] + faults["refused"]
              <= one + faults'["resent"] + faults'["refused"]
         /\ times["checkpoint"] = 0 =>
              one + faults["cut"] + faults["refused"] <= faults'["cut"] + faults'["refused"]
         /\ faults["cut"] + faults["refused"] <= faults'["cut"] + faults'["refused"]
         /\ faults["resent"] + faults["refused"] <= faults'["resent"] + faults'["refused"]
         /\ one = 0 => faults'["refused"] = faults["refused"] + 1
         /\ faults["refused"] <= faults'["refused"]
         /\ faults'["rejected"] = faults["rejected"]
  <1>1. /\ faults \in [FaultKinds -> Nat]
        /\ FaultKinds = {"crash", "cut", "resent", "refused", "rejected", "torn"}
    BY DEF Base, TypeOK, FaultKinds
  <1>2. {"zone", "stats", "checkpoint"} \subseteq CommandNames
    BY CommandsAre
  <1>3. CASE faults' = faults /\ \A c \in CommandNames : times[c] = 1
    <2>1. times["zone"] = 1 /\ times["stats"] = 1 /\ times["checkpoint"] = 1
      BY <1>2, <1>3
    <2> QED BY <1>1, <1>3, <2>1
  <1>4. CASE Fault("resent") /\ \A c \in CommandNames : times[c] \in 1..2
    <2>1. /\ faults'["resent"] = faults["resent"] + 1
          /\ faults'["cut"] = faults["cut"] /\ faults'["refused"] = faults["refused"]
          /\ faults'["rejected"] = faults["rejected"]
      BY <1>1, <1>4, FaultIs
    <2>2. times["zone"] \in 1..2 /\ times["stats"] \in 1..2 /\ times["checkpoint"] \in 1..2
      BY <1>2, <1>4
    <2> QED BY <1>1, <2>1, <2>2
  <1>5. CASE Fault("refused") /\ \A c \in CommandNames : times[c] \in 0..1
    <2>1. /\ faults'["refused"] = faults["refused"] + 1
          /\ faults'["cut"] = faults["cut"] /\ faults'["resent"] = faults["resent"]
          /\ faults'["rejected"] = faults["rejected"]
      BY <1>1, <1>5, FaultIs
    <2>2. times["zone"] \in 0..1 /\ times["stats"] \in 0..1
      BY <1>2, <1>5
    <2> QED BY <1>1, <2>1, <2>2
  <1>6. CASE /\ Fault("cut") /\ times["zone"] = 1
             /\ \A c \in CommandNames : times[c] \in 0..1
    <2>1. /\ faults'["cut"] = faults["cut"] + 1
          /\ faults'["refused"] = faults["refused"] /\ faults'["resent"] = faults["resent"]
          /\ faults'["rejected"] = faults["rejected"]
      BY <1>1, <1>6, FaultIs
    <2>2. times["stats"] \in 0..1
      BY <1>2, <1>6
    <2> QED BY <1>1, <1>6, <2>1, <2>2
  <1> QED BY <1>3, <1>4, <1>5, <1>6 DEF Outcome

LEMMA StatsAgreeInit == Init => StatsAgree
  <1> SUFFICES ASSUME Init, NEW z \in Zones, NEW k \in Kinds
               PROVE  /\ Total(z, k) <= stats[z][k] + faults["cut"] + faults["refused"]
                      /\ stats[z][k] <= Total(z, k) + faults["resent"] + faults["refused"]
    BY DEF StatsAgree
  <1>1. stats[z][k] = 0 /\ \A kind \in FaultKinds : faults[kind] = 0
    BY DEF Init
  <1> QED BY <1>1, TotalOfInit DEF FaultKinds

LEMMA StatsAgreeStep ==
  ASSUME Base, StatsAgree, [WholeNext]_vars
  PROVE  StatsAgree'
  <1>1. \A kind \in FaultKinds :
          faults[kind] \in Nat /\ faults'[kind] \in Nat /\ faults[kind] <= faults'[kind]
    BY FaultsGrow
  <1>2. {"cut", "refused", "resent"} \subseteq FaultKinds
    BY DEF FaultKinds
  <1>3. SUFFICES ASSUME NEW z \in Zones, z \notin removed', NEW k \in Kinds
                 PROVE  /\ Total(z, k)' <= stats'[z][k] + faults'["cut"] + faults'["refused"]
                        /\ stats'[z][k] <= Total(z, k)' + faults'["resent"] + faults'["refused"]
    BY DEF StatsAgree
  <1>4. Total(z, k) \in Nat /\ stats[z][k] \in Nat
    BY TotalIs DEF Base, TypeOK
  <1>5. z \notin removed =>
          /\ Total(z, k) <= stats[z][k] + faults["cut"] + faults["refused"]
          /\ stats[z][k] <= Total(z, k) + faults["resent"] + faults["refused"]
    BY DEF StatsAgree
  <1>6. CASE Total(z, k)' = Total(z, k) /\ UNCHANGED <<stats, removed>>
    BY <1>1, <1>2, <1>3, <1>4, <1>5, <1>6
  <1>7. CASE UNCHANGED vars
    BY <1>6, <1>7, TotalOfOthers DEF vars
  <1>8. CASE Sense \/ Record
    <2>1. UNCHANGED <<hash, stats, removed>>
      BY <1>8 DEF Sense, Record, zoneVars, historyVars
    <2> QED BY <1>6, <2>1, TotalOfOthers
  <1>9. CASE TurnStep
    BY <1>6, <1>9, TurnSteps, TotalOfOthers DEF Turn
  <1>10. CASE Restart
    <2>1. PICK c \in Configs :
            /\ config' = c
            /\ \A y \in Zones : hash'[y] = InitializedZone(y, c)
            /\ removed' = removed \cup (DOMAIN config \ DOMAIN c)
      BY <1>10, RestartIs
    <2>2. Total(z, k)' = Total(z, k)
      BY <1>3, <1>10, <2>1, TotalOfRestart
    <2>3. stats' = stats /\ faults' = faults /\ z \notin removed
      BY <1>3, <1>10, <2>1 DEF Restart
    <2> QED BY <1>5, <2>2, <2>3
  <1>11. ASSUME NEW times \in [CommandNames -> 0..2], Save(times), Outcome(times)
         PROVE  /\ Total(z, k)' <= stats'[z][k] + faults'["cut"] + faults'["refused"]
                /\ stats'[z][k] <= Total(z, k)' + faults'["resent"] + faults'["refused"]
    <2>1. removed' = removed
      BY <1>11 DEF Save
    <2>2. /\ Total(z, k)' = Total(z, k) + (IF /\ z = event.zone /\ k = event.kind
                                              /\ times["zone"] # 0 THEN 1 ELSE 0)
          /\ stats'[z][k] = IF z = event.zone /\ k = event.kind
                            THEN stats[z][k] + times["stats"] ELSE stats[z][k]
      BY <1>11, TotalOfSave, SaveChanges
    <2>3. PICK one \in 0..1 : one = IF times["zone"] # 0 THEN 1 ELSE 0
      OBVIOUS
    <2>4. /\ one + faults["cut"] + faults["refused"]
               <= times["stats"] + faults'["cut"] + faults'["refused"]
          /\ times["stats"] + faults["resent"] + faults["refused"]
               <= one + faults'["resent"] + faults'["refused"]
          /\ faults["cut"] + faults["refused"] <= faults'["cut"] + faults'["refused"]
          /\ faults["resent"] + faults["refused"] <= faults'["resent"] + faults'["refused"]
      BY <1>11, <2>3, OutcomeIsCounted
    <2>5. times["stats"] \in Nat
      BY CommandsAre
    <2>6. CASE z = event.zone /\ k = event.kind
      <3>1. Total(z, k)' = Total(z, k) + one /\ stats'[z][k] = stats[z][k] + times["stats"]
        BY <2>2, <2>3, <2>6
      <3> QED BY <1>1, <1>2, <1>3, <1>4, <1>5, <2>1, <2>4, <2>5, <3>1
    <2>7. CASE ~(z = event.zone /\ k = event.kind)
      <3>1. Total(z, k)' = Total(z, k) /\ stats'[z][k] = stats[z][k]
        BY <1>4, <2>2, <2>7
      <3> QED BY <1>1, <1>2, <1>3, <1>4, <1>5, <2>1, <2>4, <3>1
    <2> QED BY <2>6, <2>7
  <1> QED BY <1>7, <1>8, <1>9, <1>10, <1>11, NextIs

LEMMA StatsAgreeAlways == Spec => [](Whole => StatsAgree)
  BY BaseAlways, StatsAgreeInit, StatsAgreeStep, WholeStep, FaultsTypedAlways, PTL DEF Spec

------------------------------------------------------------------------------
(* The counts: members against totals, from below. What is behind the      *)
(* checkpoint was recorded before it was counted.                          *)

Passed(z, k) == {n \in window[z][k] : n <= checkpoint}

MembersSuffice ==
  \A z \in Zones, k \in Kinds :
    Total(z, k) <= Cardinality(Passed(z, k)) + faults["cut"] + faults["refused"]

LEMMA WindowIsFinite ==
  ASSUME Base, NEW z \in Zones, NEW k \in Kinds
  PROVE  /\ window[z][k] \in SUBSET Nat /\ IsFiniteSet(window[z][k])
         /\ Cardinality(window[z][k]) \in Nat
         /\ Passed(z, k) \in SUBSET Nat /\ IsFiniteSet(Passed(z, k))
         /\ Cardinality(Passed(z, k)) \in Nat
         /\ Cardinality(Passed(z, k)) <= Cardinality(window[z][k])
  <1>1. window[z][k] \in SUBSET Nat
    BY DEF Base, TypeOK
  <1>2. LastNumber \in Nat /\ \A n \in window[z][k] : n <= LastNumber
    BY DEF Base, Numbered, Members
  <1>3. IsFiniteSet(window[z][k])
    BY <1>1, <1>2, FS_BoundedSetOfNaturals
  <1>4. Passed(z, k) \subseteq window[z][k]
    BY DEF Passed
  <1>5. IsFiniteSet(Passed(z, k)) /\ Cardinality(Passed(z, k)) <= Cardinality(window[z][k])
    BY <1>3, <1>4, FS_Subset
  <1> QED BY <1>1, <1>3, <1>4, <1>5, FS_CardinalityType

LEMMA MembersSufficeInit == Init => MembersSuffice
  <1> SUFFICES ASSUME Init, NEW z \in Zones, NEW k \in Kinds
               PROVE  Total(z, k) <= Cardinality(Passed(z, k)) + faults["cut"] + faults["refused"]
    BY DEF MembersSuffice
  <1>1. Cardinality(Passed(z, k)) = 0
    <2>1. window[z][k] = {}
      BY DEF Init
    <2>2. Passed(z, k) = {}
      BY <2>1 DEF Passed
    <2> QED BY <2>2, FS_EmptySet
  <1>2. faults["cut"] = 0 /\ faults["refused"] = 0
    <2>1. faults = [kind \in FaultKinds |-> 0]
      BY DEF Init
    <2> QED BY <2>1 DEF FaultKinds
  <1>3. Total(z, k) = 0
    BY TotalOfInit
  <1> QED BY <1>1, <1>2, <1>3

(* A larger set behind the checkpoint does not hurt.                       *)
LEMMA PassedGrows ==
  ASSUME Base, Base', NEW z \in Zones, NEW k \in Kinds, Passed(z, k) \subseteq Passed(z, k)'
  PROVE  /\ Cardinality(Passed(z, k)) \in Nat /\ Cardinality(Passed(z, k)') \in Nat
         /\ Cardinality(Passed(z, k)) <= Cardinality(Passed(z, k)')
         /\ \A n \in Passed(z, k)' \ Passed(z, k) :
              Cardinality(Passed(z, k)) + 1 <= Cardinality(Passed(z, k)')
  <1>1. IsFiniteSet(Passed(z, k)) /\ Cardinality(Passed(z, k)) \in Nat
    BY WindowIsFinite
  <1>2. PICK after \in SUBSET Nat : after = Passed(z, k)'
    <2>1. Passed(z, k)' \in SUBSET Nat
      BY DEF Passed, Base, TypeOK
    <2> QED BY <2>1
  <1>3. IsFiniteSet(after) /\ Cardinality(after) \in Nat
    <2>1. LastNumber' \in Nat /\ \A n \in window'[z][k] : n <= LastNumber'
      BY DEF Base, Numbered, Members
    <2>2. \A n \in after : n <= LastNumber'
      BY <1>2, <2>1 DEF Passed
    <2>3. IsFiniteSet(after)
      BY <1>2, <2>1, <2>2, FS_BoundedSetOfNaturals
    <2> QED BY <2>3, FS_CardinalityType
  <1>4. Cardinality(Passed(z, k)) <= Cardinality(after)
    BY <1>2, <1>3, FS_Subset
  <1>5. ASSUME NEW n \in after \ Passed(z, k)
        PROVE  Cardinality(Passed(z, k)) + 1 <= Cardinality(after)
    <2>1. Cardinality(Passed(z, k) \cup {n}) = Cardinality(Passed(z, k)) + 1
      BY <1>1, <1>5, FS_AddElement
    <2>2. Passed(z, k) \cup {n} \subseteq after
      BY <1>2, <1>5
    <2>3. Cardinality(Passed(z, k) \cup {n}) <= Cardinality(after)
      BY <1>3, <2>2, FS_Subset
    <2> QED BY <2>1, <2>3
  <1> QED BY <1>1, <1>2, <1>3, <1>4, <1>5

LEMMA MembersSufficeStep ==
  ASSUME Base, MembersSuffice, [WholeNext]_vars
  PROVE  MembersSuffice'
  <1>1. \A kind \in FaultKinds :
          faults[kind] \in Nat /\ faults'[kind] \in Nat /\ faults[kind] <= faults'[kind]
    BY FaultsGrow
  <1>2. {"cut", "refused"} \subseteq FaultKinds
    BY DEF FaultKinds
  <1>3. Base'
    BY BaseStep
  <1>4. SUFFICES ASSUME NEW z \in Zones, NEW k \in Kinds
                 PROVE  Total(z, k)' <= Cardinality(Passed(z, k)') + faults'["cut"]
                                          + faults'["refused"]
    BY DEF MembersSuffice
  <1>5. /\ Total(z, k) \in Nat /\ Cardinality(Passed(z, k)) \in Nat
        /\ Total(z, k) <= Cardinality(Passed(z, k)) + faults["cut"] + faults["refused"]
    BY TotalIs, WindowIsFinite DEF MembersSuffice
  <1>6. CASE Total(z, k)' = Total(z, k) /\ Passed(z, k) \subseteq Passed(z, k)'
    <2>1. /\ Cardinality(Passed(z, k)') \in Nat
          /\ Cardinality(Passed(z, k)) <= Cardinality(Passed(z, k)')
      BY <1>3, <1>6, PassedGrows
    <2> QED BY <1>1, <1>2, <1>5, <1>6, <2>1
  <1>7. CASE UNCHANGED vars
    <2>1. Passed(z, k)' = Passed(z, k) /\ hash' = hash
      BY <1>7 DEF vars, Passed
    <2> QED BY <1>6, <2>1, TotalOfOthers
  <1>8. CASE Sense
    <2>1. Passed(z, k)' = Passed(z, k) /\ hash' = hash
      BY <1>8 DEF Sense, Passed
    <2> QED BY <1>6, <2>1, TotalOfOthers
  <1>9. CASE Record
    <2>1. /\ window' = [window EXCEPT ![event.zone][event.kind] = @ \cup {next}]
          /\ checkpoint' = checkpoint /\ hash' = hash
      BY <1>9 DEF Record, Member, zoneVars
    <2>2. window \in [Zones -> [Kinds -> SUBSET Nat]]
      BY DEF Base, TypeOK
    <2>3. window[z][k] \subseteq window'[z][k]
      BY <2>1, <2>2
    <2>4. Passed(z, k) \subseteq Passed(z, k)'
      BY <2>1, <2>3 DEF Passed
    <2> QED BY <1>6, <2>1, <2>4, TotalOfOthers
  <1>10. CASE TurnStep
    <2>1. Passed(z, k)' = Passed(z, k) /\ hash' = hash
      BY <1>10, TurnSteps DEF Turn, Passed
    <2> QED BY <1>6, <2>1, TotalOfOthers
  <1>11. CASE Restart
    <2>1. PICK c \in Configs :
            /\ config' = c
            /\ \A y \in Zones : hash'[y] = InitializedZone(y, c)
            /\ \A y \in Zones, m \in Kinds :
                 window'[y][m] = IF y \in DOMAIN config \ DOMAIN c THEN {} ELSE window[y][m]
      BY <1>11, RestartIs
    <2>2. Total(z, k)' = IF z \in DOMAIN config \ DOMAIN c THEN 0 ELSE Total(z, k)
      BY <1>11, <2>1, TotalOfRestart
    <2>3. CASE z \in DOMAIN config \ DOMAIN c
      <3>1. Passed(z, k)' = {}
        BY <2>1, <2>3 DEF Passed
      <3>2. Cardinality(Passed(z, k)') = 0
        BY <3>1, FS_EmptySet
      <3> QED BY <1>1, <1>2, <2>2, <2>3, <3>2
    <2>4. CASE z \notin DOMAIN config \ DOMAIN c
      <3>1. checkpoint' = checkpoint
        BY <1>11 DEF Restart
      <3>2. Passed(z, k)' = Passed(z, k)
        BY <2>1, <2>4, <3>1 DEF Passed
      <3> QED BY <1>6, <2>2, <2>4, <3>2
    <2> QED BY <2>3, <2>4
  <1>12. ASSUME NEW times \in [CommandNames -> 0..2], Save(times), Outcome(times)
         PROVE  Total(z, k)' <= Cardinality(Passed(z, k)') + faults'["cut"] + faults'["refused"]
    <2>1. Total(z, k)' = Total(z, k) + (IF /\ z = event.zone /\ k = event.kind
                                           /\ times["zone"] # 0 THEN 1 ELSE 0)
      BY <1>12, TotalOfSave
    <2>2. PICK one \in 0..1 : one = IF times["zone"] # 0 THEN 1 ELSE 0
      OBVIOUS
    <2>3. times["checkpoint"] = 0 =>
            one + faults["cut"] + faults["refused"] <= faults'["cut"] + faults'["refused"]
      BY <1>12, <2>2, OutcomeIsCounted
    <2>4. /\ checkpoint \in Nat /\ next \in Nat /\ checkpoint < next
          /\ window' = window
          /\ next \in window[event.zone][event.kind]
          /\ window[z][k] \in SUBSET Nat
      BY <1>12 DEF Save, Base, Task, TypeOK
    <2>5. checkpoint' = IF times["checkpoint"] = 0 THEN checkpoint ELSE next
      BY <1>12, SaveCutsStream
    <2>6. Passed(z, k)' = {n \in window[z][k] : n <= checkpoint'}
      BY <2>4 DEF Passed
    <2>7. Passed(z, k) \subseteq Passed(z, k)'
      BY <2>4, <2>5, <2>6 DEF Passed
    <2>8. CASE z = event.zone /\ k = event.kind /\ times["checkpoint"] # 0
      <3>1. next \in Passed(z, k)' \ Passed(z, k)
        BY <2>4, <2>5, <2>6, <2>8 DEF Passed
      <3>2. Cardinality(Passed(z, k)') \in Nat
            /\ Cardinality(Passed(z, k)) + 1 <= Cardinality(Passed(z, k)')
        BY <1>3, <2>7, <3>1, PassedGrows
      <3>3. Total(z, k)' <= Total(z, k) + 1
        BY <1>5, <2>1
      <3>4. Total(z, k)' \in Nat
        BY <1>5, <2>1
      <3> QED BY <1>1, <1>2, <1>5, <3>2, <3>3, <3>4
    <2>9. CASE z = event.zone /\ k = event.kind /\ times["checkpoint"] = 0
      <3>1. Total(z, k)' = Total(z, k) + one
        BY <2>1, <2>2, <2>9
      <3>2. /\ Cardinality(Passed(z, k)') \in Nat
            /\ Cardinality(Passed(z, k)) <= Cardinality(Passed(z, k)')
        BY <1>3, <2>7, PassedGrows
      <3> QED BY <1>1, <1>2, <1>5, <2>3, <2>9, <3>1, <3>2
    <2>10. CASE ~(z = event.zone /\ k = event.kind)
      <3>1. Total(z, k)' = Total(z, k)
        BY <1>5, <2>1, <2>10
      <3> QED BY <1>6, <2>7, <3>1
    <2> QED BY <2>8, <2>9, <2>10
  <1> QED BY <1>7, <1>8, <1>9, <1>10, <1>11, <1>12, NextIs

LEMMA MembersSufficeAlways == Spec => [](Whole => MembersSuffice)
  BY BaseAlways, MembersSufficeInit, MembersSufficeStep, WholeStep, FaultsTypedAlways, PTL DEF Spec

------------------------------------------------------------------------------
(* The counts: members against totals, from above. A member that is not    *)
(* counted yet is one of an event that is still in the stream, and a crash *)
(* leaves at most one of them: the replay comes by it before it records    *)
(* another one. Only a rejection jumps over events.                        *)

IsFirst(n, events, from) ==
  /\ n \in events /\ n >= from
  /\ \A m \in events : m >= from => n <= m

(* What "excess", members that are not counted, may be: at most one, if    *)
(* the first event from "start" on is the one that is recorded, and less   *)
(* if an event that is not recorded was jumped over.                       *)
Fits(members, events, done, start, excess, allowed) ==
  /\ excess <= 1
  /\ excess = 1 => \E n \in members : IsFirst(n, events, start)
  /\ \A f \in events : IsFirst(f, events, done + 1) /\ f < start /\ f \notin members
                         => excess <= allowed

(* Events arrive at the end and are trimmed up to the checkpoint.          *)
OneMore(more, events, last) ==
  /\ events \subseteq more /\ more \subseteq events \cup {last}
  /\ \A n \in events : n < last
IsRest(rest, events, done) == rest = {n \in events : n > done}

(* The checkpoint stays or moves on to the event at hand, and the task     *)
(* goes on after the one or the other.                                     *)
MovesOn(done, start, moved, from) ==
  moved \in {done, start} /\ from \in {moved + 1, start + 1}

LEMMA FirstExists ==
  ASSUME NEW events \in SUBSET Nat, NEW from \in Nat, NEW e \in events, from <= e
  PROVE  \E n \in events : IsFirst(n, events, from)
  <1> DEFINE S == {n \in events : n >= from}
  <1>1. S \subseteq Nat /\ e \in S
    OBVIOUS
  <1>2. PICK n \in S : \A m \in S : ~(<<m, n>> \in OpToRel(<, Nat))
    <2> HIDE DEF S
    <2> QED BY <1>1, NatLessThanWellFounded, WFMin
  <1>3. \A m \in S : ~(m < n)
    BY <1>1, <1>2 DEF OpToRel
  <1>4. n \in events /\ n >= from
    OBVIOUS
  <1>5. \A m \in events : m >= from => n <= m
    BY <1>1, <1>3
  <1> QED BY <1>4, <1>5 DEF IsFirst

(* If there is one too many, it is the first event in the stream.          *)
LEMMA FitsFirst ==
  ASSUME NEW members, NEW events \in SUBSET Nat, NEW done \in Nat, NEW start \in Nat,
         NEW allowed \in {0, -1}, Fits(members, events, done, start, 1, allowed),
         done + 1 <= start
  PROVE  \E n \in members : IsFirst(n, events, done + 1)
  <1>1. PICK n \in members : IsFirst(n, events, start)
    BY DEF Fits
  <1>2. n \in events /\ n >= start /\ n \in Nat
    BY <1>1 DEF IsFirst
  <1>3. PICK f \in events : IsFirst(f, events, done + 1)
    BY <1>2, FirstExists
  <1>4. CASE f < start
    BY <1>3, <1>4 DEF Fits
  <1>5. CASE f >= start
    <2>1. f <= n /\ n <= f
      BY <1>1, <1>2, <1>3, <1>5 DEF IsFirst
    <2> QED BY <1>2, <1>3, <2>1
  <1> QED BY <1>2, <1>4, <1>5

LEMMA FitsCrash ==
  ASSUME NEW members, NEW events \in SUBSET Nat, NEW done \in Nat, NEW start \in Nat,
         NEW excess \in Int, NEW allowed \in {0, -1},
         Fits(members, events, done, start, excess, allowed), done + 1 <= start
  PROVE  Fits(members, events, done, done + 1, excess, -1)
  <1>1. excess <= 1
    BY DEF Fits
  <1>2. excess = 1 => \E n \in members : IsFirst(n, events, done + 1)
    BY FitsFirst
  <1>3. \A f \in events : IsFirst(f, events, done + 1) => ~(f < done + 1)
    BY DEF IsFirst
  <1> QED BY <1>1, <1>2, <1>3 DEF Fits

LEMMA FitsReject ==
  ASSUME NEW members, NEW events \in SUBSET Nat, NEW done \in Nat, NEW start \in Nat,
         NEW excess \in Int, NEW allowed \in {0, -1},
         Fits(members, events, done, start, excess, allowed), done + 1 <= start,
         NEW less \in Int, less <= excess - 1, NEW jump \in Nat
  PROVE  Fits(members, events, done, jump, less, -1)
  <1>1. excess <= 1 /\ less <= 0
    BY DEF Fits
  <1>2. ASSUME NEW f \in events, IsFirst(f, events, done + 1), f \notin members
        PROVE  less <= -1
    <2>1. CASE excess = 1
      <3>1. PICK n \in members : IsFirst(n, events, done + 1)
        BY <2>1, FitsFirst
      <3>2. n = f
        BY <1>2, <3>1 DEF IsFirst
      <3> QED BY <1>2, <3>1, <3>2
    <2>2. CASE excess # 1
      BY <1>1, <2>2
    <2> QED BY <2>1, <2>2
  <1> QED BY <1>1, <1>2 DEF Fits

LEMMA FitsMore ==
  ASSUME NEW members, NEW events \in SUBSET Nat, NEW done \in Nat, NEW start \in Nat,
         NEW excess \in Int, NEW allowed \in {0, -1},
         Fits(members, events, done, start, excess, allowed),
         NEW more \in SUBSET Nat, NEW last \in Nat, OneMore(more, events, last), start <= last
  PROVE  Fits(members, more, done, start, excess, allowed)
  <1> USE DEF OneMore
  <1>1. excess <= 1
    BY DEF Fits
  <1>2. ASSUME excess = 1
        PROVE  \E n \in members : IsFirst(n, more, start)
    <2>1. PICK n \in members : IsFirst(n, events, start)
      BY <1>2 DEF Fits
    <2>2. n \in events /\ n < last
      BY <2>1 DEF IsFirst
    <2>3. \A m \in more : m >= start => n <= m
      BY <2>1, <2>2 DEF IsFirst
    <2>4. IsFirst(n, more, start)
      BY <2>1, <2>2, <2>3 DEF IsFirst
    <2> QED BY <2>4
  <1>3. ASSUME NEW f \in more, IsFirst(f, more, done + 1), f < start, f \notin members
        PROVE  excess <= allowed
    <2>1. f \in events
      BY <1>3
    <2>2. IsFirst(f, events, done + 1)
      BY <1>3, <2>1 DEF IsFirst
    <2> QED BY <1>3, <2>1, <2>2 DEF Fits
  <1> QED BY <1>1, <1>2, <1>3 DEF Fits

LEMMA FitsMark ==
  ASSUME NEW members, NEW events \in SUBSET Nat, NEW done \in Nat, NEW start \in Nat,
         NEW excess \in Int, Fits(members, events, done, start, excess, -1),
         start \in events, start \notin members
  PROVE  Fits(members \cup {start}, events, done, start, excess + 1, 0)
  <1>1. IsFirst(start, events, start)
    BY DEF IsFirst
  <1>2. excess # 1
    <2> SUFFICES ASSUME excess = 1 PROVE FALSE
      OBVIOUS
    <2>1. PICK n \in members : IsFirst(n, events, start)
      BY DEF Fits
    <2>2. n = start
      BY <1>1, <2>1 DEF IsFirst
    <2> QED BY <2>1, <2>2
  <1>3. excess + 1 <= 1
    BY <1>2 DEF Fits
  <1>4. \A f \in events : IsFirst(f, events, done + 1) /\ f < start /\ f \notin members
                            => excess + 1 <= 0
    BY DEF Fits
  <1> QED BY <1>1, <1>3, <1>4 DEF Fits

LEMMA FitsLoose ==
  ASSUME NEW members, NEW events, NEW done, NEW start,
         NEW excess \in Int, Fits(members, events, done, start, excess, -1)
  PROVE  Fits(members, events, done, start, excess, 0)
  BY DEF Fits

(* The event at "start" is counted, and perhaps the checkpoint moved on.   *)
LEMMA FitsCount ==
  ASSUME NEW members, NEW events \in SUBSET Nat, NEW done \in Nat, NEW start \in Nat,
         NEW excess \in Int, Fits(members, events, done, start, excess, 0),
         start \in members, done < start,
         NEW less \in Int, less <= excess - 1,
         NEW moved \in Nat, NEW from \in Nat, MovesOn(done, start, moved, from),
         NEW rest \in SUBSET Nat, IsRest(rest, events, moved)
  PROVE  Fits(members, rest, moved, from, less, -1)
  <1> USE DEF IsRest, MovesOn
  <1>1. less <= 0
    BY DEF Fits
  <1>2. ASSUME NEW f \in rest, IsFirst(f, rest, moved + 1), f < from, f \notin members
        PROVE  less <= -1
    <2>1. f >= moved + 1
      BY <1>2 DEF IsFirst
    <2>2. from = start + 1 /\ f # start
      BY <1>2, <2>1
    <2>3. f < start /\ moved = done
      BY <1>2, <2>1, <2>2
    <2>4. IsFirst(f, events, done + 1)
      BY <1>2, <2>3 DEF IsFirst
    <2>5. excess <= 0
      BY <1>2, <2>3, <2>4 DEF Fits
    <2> QED BY <2>5
  <1> QED BY <1>1, <1>2 DEF Fits

(* The event at "start" is one of another zone or kind.                    *)
LEMMA FitsPassBy ==
  ASSUME NEW members, NEW events \in SUBSET Nat, NEW done \in Nat, NEW start \in Nat,
         NEW excess \in Int, Fits(members, events, done, start, excess, -1),
         start \notin events, done < start,
         NEW less \in Int, less <= excess,
         NEW moved \in Nat, NEW from \in Nat, MovesOn(done, start, moved, from),
         NEW rest \in SUBSET Nat, IsRest(rest, events, moved)
  PROVE  Fits(members, rest, moved, from, less, -1)
  <1> USE DEF IsRest, MovesOn
  <1>1. excess <= 1
    BY DEF Fits
  <1>2. ASSUME less = 1
        PROVE  \E n \in members : IsFirst(n, rest, from)
    <2>1. excess = 1
      BY <1>1, <1>2
    <2>2. CASE from = start + 1
      <3>1. PICK n \in members : IsFirst(n, events, start)
        BY <2>1 DEF Fits
      <3>2. n # start /\ n >= start /\ n \in events
        BY <3>1 DEF IsFirst
      <3>3. n \in rest /\ n >= start + 1
        BY <3>2
      <3>4. IsFirst(n, rest, start + 1)
        BY <3>1, <3>3 DEF IsFirst
      <3> QED BY <2>2, <3>4
    <2>3. CASE from = done + 1
      <3>1. PICK n \in members : IsFirst(n, events, done + 1)
        BY <2>1, FitsFirst
      <3>2. moved = done
        BY <2>3
      <3>3. IsFirst(n, rest, done + 1)
        BY <3>1, <3>2 DEF IsFirst
      <3> QED BY <2>3, <3>3
    <2> QED BY <2>2, <2>3
  <1>3. ASSUME NEW f \in rest, IsFirst(f, rest, moved + 1), f < from, f \notin members
        PROVE  less <= -1
    <2>1. f >= moved + 1 /\ f \in events
      BY <1>3 DEF IsFirst
    <2>2. from = start + 1 /\ f # start
      BY <1>3, <2>1
    <2>3. f < start /\ moved = done
      BY <1>3, <2>1, <2>2
    <2>4. IsFirst(f, events, done + 1)
      BY <1>3, <2>3 DEF IsFirst
    <2>5. excess <= -1
      BY <1>3, <2>1, <2>3, <2>4 DEF Fits
    <2> QED BY <2>5
  <1> QED BY <1>1, <1>2, <1>3 DEF Fits

LEMMA FitsAtStart ==
  ASSUME NEW members, NEW events \in SUBSET Nat, NEW done \in Nat,
         NEW excess \in Int, excess <= 0
  PROVE  Fits(members, events, done, done + 1, excess, -1)
  BY DEF Fits, IsFirst

Of(z, k) == {n \in DOMAIN stream : stream[n].zone = z /\ stream[n].kind = k}

(* The members of a zone that no total counts, rejections and refusals     *)
(* apart.                                                                  *)
Excess(z, k) ==
  Cardinality(window[z][k]) - Total(z, k) - faults["rejected"] - faults["refused"]

(* Its event was recorded and is not saved.                                *)
IsRecorded(z, k) == pc = "recorded" /\ event.zone = z /\ event.kind = k
Allowed(z, k) == IF IsRecorded(z, k) THEN 0 ELSE -1

MembersBounded ==
  \A z \in DOMAIN config, k \in Kinds :
    Fits(window[z][k], Of(z, k), checkpoint, Start, Excess(z, k), Allowed(z, k))

LEMMA BoundsAre ==
  ASSUME Base, NEW z \in DOMAIN config, NEW k \in Kinds
  PROVE  /\ z \in Zones
         /\ window[z][k] \in SUBSET Nat /\ IsFiniteSet(window[z][k])
         /\ Cardinality(window[z][k]) \in Nat
         /\ Total(z, k) \in Nat
         /\ faults["rejected"] \in Nat /\ faults["refused"] \in Nat
         /\ Excess(z, k) \in Int
         /\ Of(z, k) \in SUBSET Nat
         /\ checkpoint \in Nat /\ Start \in Nat /\ checkpoint + 1 <= Start
         /\ Allowed(z, k) \in {0, -1}
  <1>1. z \in Zones
    BY ConfigsAre DEF Base, TypeOK
  <1>2. /\ window[z][k] \in SUBSET Nat /\ IsFiniteSet(window[z][k])
        /\ Cardinality(window[z][k]) \in Nat
    BY <1>1, WindowIsFinite
  <1>3. Total(z, k) \in Nat
    BY <1>1, TotalIs
  <1>4. faults["rejected"] \in Nat /\ faults["refused"] \in Nat
    BY DEF Base, TypeOK, FaultKinds
  <1>5. Excess(z, k) \in Int
    BY <1>2, <1>3, <1>4 DEF Excess
  <1>6. checkpoint \in Nat /\ LastNumber \in Nat /\ DOMAIN stream = (checkpoint + 1)..LastNumber
    BY DEF Base, Numbered, TypeOK
  <1>7. Of(z, k) \in SUBSET Nat
    BY <1>6 DEF Of
  <1> QED BY <1>1, <1>2, <1>3, <1>4, <1>5, <1>6, <1>7, StartIs DEF Allowed

(* What a step leaves of it all when it leaves windows and totals alone.   *)
LEMMA ExcessKept ==
  ASSUME NEW z, NEW k, window'[z][k] = window[z][k], Total(z, k)' = Total(z, k),
         faults'["rejected"] = faults["rejected"], faults'["refused"] = faults["refused"]
  PROVE  Excess(z, k)' = Excess(z, k)
  BY DEF Excess

LEMMA BoundedInit == Init => MembersBounded
  <1> SUFFICES ASSUME Init, NEW z \in DOMAIN config, NEW k \in Kinds
               PROVE  Fits(window[z][k], Of(z, k), checkpoint, Start, Excess(z, k), Allowed(z, k))
    BY DEF MembersBounded
  <1>1. config \in Configs
    BY DEF Init
  <1>2. z \in Zones
    BY <1>1, ConfigsAre
  <1>3. window[z][k] = {} /\ checkpoint = 0 /\ next = 1 /\ pc = "idle"
    BY <1>2 DEF Init
  <1>4. Total(z, k) = 0
    BY <1>2, TotalOfInit
  <1>5. faults["rejected"] = 0 /\ faults["refused"] = 0
    <2>1. faults = [kind \in FaultKinds |-> 0]
      BY DEF Init
    <2> QED BY <2>1 DEF FaultKinds
  <1>6. Excess(z, k) = 0
    BY <1>3, <1>4, <1>5, FS_EmptySet DEF Excess
  <1>7. Of(z, k) = {}
    <2>1. DOMAIN stream = {}
      BY DEF Init
    <2> QED BY <2>1 DEF Of
  <1>8. Start = 0 + 1 /\ Allowed(z, k) = -1
    BY <1>3 DEF Start, Allowed, IsRecorded
  <1>9. Fits(window[z][k], {}, 0, 0 + 1, 0, -1)
    BY DEF Fits
  <1> QED BY <1>3, <1>6, <1>7, <1>8, <1>9

LEMMA BoundedSense ==
  ASSUME Base, MembersBounded, Sense
  PROVE  MembersBounded'
  <1>1. /\ Waiting => pc = "down"
        /\ UNCHANGED <<hash, checkpoint, window, config, pc, next, faults>>
    BY DEF Sense, zoneVars
  <1>2. SUFFICES ASSUME NEW z \in DOMAIN config, NEW k \in Kinds
                 PROVE  Fits(window[z][k], Of(z, k)', checkpoint, Start', Excess(z, k)',
                             Allowed(z, k)')
    BY <1>1 DEF MembersBounded
  <1>3. /\ Of(z, k) \in SUBSET Nat /\ Excess(z, k) \in Int /\ Allowed(z, k) \in {0, -1}
        /\ checkpoint \in Nat /\ Start \in Nat
    BY BoundsAre
  <1>4. Fits(window[z][k], Of(z, k), checkpoint, Start, Excess(z, k), Allowed(z, k))
    BY DEF MembersBounded
  <1>5. PICK last \in Nat : last = LastNumber
    BY DEF Base, Numbered
  <1>6. /\ DOMAIN stream' = DOMAIN stream \cup {last + 1}
        /\ \A n \in DOMAIN stream : stream'[n] = stream[n]
    BY <1>5, SenseGrows
  <1>7. DOMAIN stream = (checkpoint + 1)..last /\ checkpoint <= last
    BY <1>5 DEF Base, Numbered
  <1>8. PICK more : more = Of(z, k)'
    OBVIOUS
  <1>9. /\ more \in SUBSET Nat /\ Of(z, k) \subseteq more
        /\ more \subseteq Of(z, k) \cup {last + 1}
        /\ \A n \in Of(z, k) : n < last + 1
    <2>1. more = {n \in DOMAIN stream \cup {last + 1} : stream'[n].zone = z /\ stream'[n].kind = k}
      BY <1>6, <1>8 DEF Of
    <2>2. more \subseteq Of(z, k) \cup {last + 1} /\ Of(z, k) \subseteq more
      BY <1>6, <2>1 DEF Of
    <2>3. \A n \in Of(z, k) : n < last + 1
      BY <1>3, <1>7 DEF Of
    <2> QED BY <1>3, <2>2, <2>3
  <1>10. Start' = Start /\ Start <= last + 1
    <2>1. Start <= last + 1
      BY <1>3, <1>5, <1>7 DEF Base, TypeOK, Task, Start, Steps
    <2> QED BY <1>1, <2>1 DEF Start
  <1>11. Excess(z, k)' = Excess(z, k)
    BY <1>1, ExcessKept, TotalOfOthers
  <1>12. Allowed(z, k)' = Allowed(z, k)
    <2>1. pc # "recorded"
      BY <1>1 DEF Base, Task
    <2> QED BY <1>1, <2>1 DEF Allowed, IsRecorded
  <1>13. PICK top \in Nat : /\ OneMore(more, Of(z, k), top)
                            /\ Start <= top
    BY <1>5, <1>9, <1>10 DEF OneMore
  <1>14. more \in SUBSET Nat
    BY <1>9
  <1>15. Fits(window[z][k], more, checkpoint, Start, Excess(z, k), Allowed(z, k))
    BY <1>3, <1>4, <1>13, <1>14, FitsMore
  <1> QED BY <1>8, <1>10, <1>11, <1>12, <1>15

LEMMA BoundedRecord ==
  ASSUME Base, MembersBounded, Record
  PROVE  MembersBounded'
  <1>1. /\ pc = "idle" /\ Waiting /\ pc' = "recorded"
        /\ window' = [window EXCEPT ![event.zone][event.kind] = @ \cup {next}]
        /\ UNCHANGED <<hash, checkpoint, stream, config, next, faults>>
    BY DEF Record, Member, zoneVars
  <1>2. SUFFICES ASSUME NEW z \in DOMAIN config, NEW k \in Kinds
                 PROVE  Fits(window'[z][k], Of(z, k)', checkpoint, Start', Excess(z, k)',
                             Allowed(z, k)')
    BY <1>1 DEF MembersBounded
  <1>3. /\ z \in Zones /\ Of(z, k) \in SUBSET Nat /\ Excess(z, k) \in Int
        /\ window[z][k] \in SUBSET Nat /\ IsFiniteSet(window[z][k])
        /\ Cardinality(window[z][k]) \in Nat /\ Total(z, k) \in Nat
        /\ faults["rejected"] \in Nat /\ faults["refused"] \in Nat
        /\ checkpoint \in Nat
    BY BoundsAre
  <1>4. Start = next /\ Start' = next /\ next \in Nat
    BY <1>1 DEF Start, Base, TypeOK
  <1>5. Fits(window[z][k], Of(z, k), checkpoint, next, Excess(z, k), -1)
    <2>1. Allowed(z, k) = -1
      BY <1>1 DEF Allowed, IsRecorded
    <2> QED BY <1>4, <2>1 DEF MembersBounded
  <1>6. Of(z, k)' = Of(z, k) /\ event' = event
    BY <1>1 DEF Of, event
  <1>7. window \in [Zones -> [Kinds -> SUBSET Nat]]
    BY DEF Base, TypeOK
  <1>8. Total(z, k)' = Total(z, k)
    BY <1>1, TotalOfOthers
  <1>9. CASE ~(event.zone = z /\ event.kind = k)
    <2>1. window'[z][k] = window[z][k]
      BY <1>1, <1>3, <1>7, <1>9
    <2>2. Allowed(z, k)' = -1
      BY <1>6, <1>9 DEF Allowed, IsRecorded
    <2>3. Excess(z, k)' = Excess(z, k)
      BY <1>1, <1>8, <2>1, ExcessKept
    <2> QED BY <1>4, <1>5, <1>6, <2>1, <2>2, <2>3
  <1>10. CASE event.zone = z /\ event.kind = k
    <2>1. window'[z][k] = window[z][k] \cup {next}
      BY <1>1, <1>3, <1>7, <1>10
    <2>2. Allowed(z, k)' = 0
      BY <1>1, <1>6, <1>10 DEF Allowed, IsRecorded
    <2>3. CASE next \in window[z][k]
      <3>1. window'[z][k] = window[z][k]
        BY <2>1, <2>3
      <3>2. Excess(z, k)' = Excess(z, k)
        BY <1>1, <1>8, <3>1, ExcessKept
      <3>3. Fits(window[z][k], Of(z, k), checkpoint, next, Excess(z, k), 0)
        BY <1>3, <1>5, FitsLoose
      <3> QED BY <1>4, <1>6, <2>2, <3>1, <3>2, <3>3
    <2>4. CASE next \notin window[z][k]
      <3>1. Cardinality(window[z][k] \cup {next}) = Cardinality(window[z][k]) + 1
        BY <1>3, <2>4, FS_AddElement
      <3>2. Excess(z, k)' = (Cardinality(window[z][k]) + 1) - Total(z, k) - faults["rejected"]
                              - faults["refused"]
        BY <1>1, <1>8, <2>1, <3>1 DEF Excess
      <3>3. Excess(z, k)' = Excess(z, k) + 1
        <4>1. Excess(z, k) = Cardinality(window[z][k]) - Total(z, k) - faults["rejected"]
                               - faults["refused"]
          BY DEF Excess
        <4> QED BY <1>3, <3>2, <4>1
      <3>4. next \in Of(z, k)
        BY <1>1, <1>10 DEF Of, Waiting, event
      <3>5. Fits(window[z][k] \cup {next}, Of(z, k), checkpoint, next, Excess(z, k) + 1, 0)
        BY <1>3, <1>4, <1>5, <2>4, <3>4, FitsMark
      <3> QED BY <1>4, <1>6, <2>1, <2>2, <3>3, <3>5
    <2> QED BY <2>3, <2>4
  <1> QED BY <1>9, <1>10

LEMMA BoundedSave ==
  ASSUME Base, MembersBounded, NEW times \in [CommandNames -> 0..2], Save(times), Outcome(times)
  PROVE  MembersBounded'
  <1>1. /\ pc = "recorded" /\ pc' \in {"saved", "down"}
        /\ UNCHANGED <<window, config, next>>
    BY DEF Save, Outcome
  <1>2. SUFFICES ASSUME NEW z \in DOMAIN config, NEW k \in Kinds
                 PROVE  Fits(window[z][k], Of(z, k)', checkpoint', Start', Excess(z, k)',
                             Allowed(z, k)')
    BY <1>1 DEF MembersBounded
  <1>3. /\ z \in Zones /\ Of(z, k) \in SUBSET Nat /\ Excess(z, k) \in Int
        /\ Cardinality(window[z][k]) \in Nat /\ Total(z, k) \in Nat
        /\ faults["rejected"] \in Nat /\ faults["refused"] \in Nat
        /\ checkpoint \in Nat
    BY BoundsAre
  <1>4. Start = next /\ next \in Nat /\ checkpoint < next
    BY <1>1 DEF Start, Base, TypeOK, Task
  <1>5. PICK moved \in {checkpoint, next} : moved = checkpoint'
    BY SaveCutsStream
  <1>6. Allowed(z, k)' = -1
    BY <1>1 DEF Allowed, IsRecorded
  <1>7. PICK from \in {moved + 1, next + 1} : from = Start'
    BY <1>1, <1>5 DEF Start
  <1>8. PICK rest : rest = Of(z, k)'
    OBVIOUS
  <1>9. moved \in Nat /\ from \in Nat /\ MovesOn(checkpoint, next, moved, from)
    BY <1>3, <1>4 DEF MovesOn
  <1>10. rest \in SUBSET Nat /\ IsRest(rest, Of(z, k), moved)
    <2>1. PICK last \in Nat : last = LastNumber
      BY DEF Base, Numbered
    <2>2. DOMAIN stream = (checkpoint + 1)..last
      BY <2>1 DEF Base, Numbered
    <2>3. /\ DOMAIN stream' = (moved + 1)..last
          /\ \A n \in DOMAIN stream' : n \in DOMAIN stream /\ stream'[n] = stream[n]
      BY <1>5, <2>1, SaveCutsStream
    <2>4. \A n \in DOMAIN stream : n \in DOMAIN stream' <=> n > moved
      BY <1>3, <1>4, <2>2, <2>3
    <2>5. rest = {n \in DOMAIN stream' : stream'[n].zone = z /\ stream'[n].kind = k}
      BY <1>8 DEF Of
    <2>6. rest = {n \in Of(z, k) : n > moved}
      BY <2>3, <2>4, <2>5 DEF Of
    <2> QED BY <1>3, <2>6 DEF IsRest
  <1>11. Total(z, k)' = Total(z, k) + (IF /\ z = event.zone /\ k = event.kind
                                          /\ times["zone"] # 0 THEN 1 ELSE 0)
    BY <1>3, TotalOfSave
  <1>12. PICK one \in 0..1 : one = IF times["zone"] # 0 THEN 1 ELSE 0
    OBVIOUS
  <1>13. /\ one = 0 => faults'["refused"] = faults["refused"] + 1
         /\ faults["refused"] <= faults'["refused"]
         /\ faults'["rejected"] = faults["rejected"]
    BY <1>12, OutcomeIsCounted
  <1>14. faults'["refused"] \in Nat
    <2>1. faults \in [FaultKinds -> Nat]
      BY DEF Base, TypeOK
    <2>2. {"resent", "refused", "cut"} \subseteq FaultKinds
      BY DEF FaultKinds
    <2>3. faults' \in [FaultKinds -> Nat]
      BY <2>1, <2>2, FaultIs DEF Outcome
    <2> QED BY <2>2, <2>3
  <1>15. Excess(z, k)' = Cardinality(window[z][k]) - Total(z, k)' - faults'["rejected"]
                           - faults'["refused"]
    BY <1>1 DEF Excess
  <1>16. PICK less : less = Excess(z, k)'
    OBVIOUS
  <1>17. CASE z = event.zone /\ k = event.kind
    <2>1. Total(z, k)' = Total(z, k) + one
      BY <1>11, <1>12, <1>17
    <2>2. less \in Int /\ less <= Excess(z, k) - 1
      BY <1>3, <1>13, <1>14, <1>15, <1>16, <2>1 DEF Excess
    <2>3. next \in window[z][k]
      BY <1>1, <1>17 DEF Base, Task
    <2>4. Fits(window[z][k], Of(z, k), checkpoint, next, Excess(z, k), 0)
      <3>1. Allowed(z, k) = 0
        BY <1>1, <1>17 DEF Allowed, IsRecorded
      <3> QED BY <1>4, <3>1 DEF MembersBounded
    <2>5. Fits(window[z][k], rest, moved, from, less, -1)
      BY <1>3, <1>4, <1>10, <1>9, <2>2, <2>3, <2>4, FitsCount
    <2> QED BY <1>5, <1>6, <1>7, <1>8, <1>16, <2>5
  <1>18. CASE ~(z = event.zone /\ k = event.kind)
    <2>1. Total(z, k)' = Total(z, k)
      BY <1>3, <1>11, <1>18
    <2>2. less \in Int /\ less <= Excess(z, k)
      BY <1>3, <1>13, <1>14, <1>15, <1>16, <2>1 DEF Excess
    <2>3. next \notin Of(z, k)
      BY <1>18 DEF Of, event
    <2>4. Fits(window[z][k], Of(z, k), checkpoint, next, Excess(z, k), -1)
      <3>1. Allowed(z, k) = -1
        BY <1>18 DEF Allowed, IsRecorded
      <3> QED BY <1>4, <3>1 DEF MembersBounded
    <2>5. Fits(window[z][k], rest, moved, from, less, -1)
      BY <1>3, <1>4, <1>10, <1>9, <2>2, <2>3, <2>4, FitsPassBy
    <2> QED BY <1>5, <1>6, <1>7, <1>8, <1>16, <2>5
  <1> QED BY <1>17, <1>18

LEMMA BoundedTurn ==
  ASSUME Base, MembersBounded, TurnStep
  PROVE  MembersBounded'
  <1>1. UNCHANGED <<hash, window, checkpoint, config, stream>>
    BY TurnSteps DEF Turn
  <1>2. SUFFICES ASSUME NEW z \in DOMAIN config, NEW k \in Kinds
                 PROVE  Fits(window[z][k], Of(z, k), checkpoint, Start', Excess(z, k)', -1)
    <2>1. pc' # "recorded"
      BY DEF TurnStep, UnknownZone, EvaluateGroups, SaveMetrics, Sample, Reject, Crash
    <2>2. \A z \in DOMAIN config, k \in Kinds : Of(z, k)' = Of(z, k) /\ Allowed(z, k)' = -1
      BY <1>1, <2>1 DEF Of, Allowed, IsRecorded
    <2> QED BY <1>1, <2>2 DEF MembersBounded
  <1>3. /\ Of(z, k) \in SUBSET Nat /\ Excess(z, k) \in Int /\ Allowed(z, k) \in {0, -1}
        /\ Cardinality(window[z][k]) \in Nat /\ Total(z, k) \in Nat
        /\ faults["rejected"] \in Nat /\ faults["refused"] \in Nat
        /\ checkpoint \in Nat /\ Start \in Nat /\ checkpoint + 1 <= Start
    BY BoundsAre
  <1>4. Fits(window[z][k], Of(z, k), checkpoint, Start, Excess(z, k), Allowed(z, k))
    BY DEF MembersBounded
  <1>5. pc # "recorded" => Allowed(z, k) = -1
    BY DEF Allowed, IsRecorded
  <1>6. Total(z, k)' = Total(z, k)
    BY <1>1, TotalOfOthers
  <1>7. faults' = faults => Excess(z, k)' = Excess(z, k)
    BY <1>1, <1>6, ExcessKept
  <1>8. next \in Nat /\ LastNumber \in Nat /\ faults \in [FaultKinds -> Nat]
    BY DEF Base, TypeOK, Numbered
  <1>9. CASE UnknownZone
    <2>1. /\ pc = "idle" /\ Waiting /\ event.zone \notin DOMAIN config
          /\ next' = next + 1 /\ pc' = pc /\ faults' = faults
      BY <1>9 DEF UnknownZone
    <2>2. Start = next /\ Start' = next + 1 /\ checkpoint < next
      BY <2>1 DEF Start, Base, Task
    <2>3. next \notin Of(z, k)
      BY <2>1 DEF Of, event
    <2>4. Of(z, k) = {n \in Of(z, k) : n > checkpoint}
      <3>1. \A n \in DOMAIN stream : n > checkpoint
        BY <1>3 DEF Base, Numbered
      <3> QED BY <3>1 DEF Of
    <2>5. Fits(window[z][k], Of(z, k), checkpoint, next, Excess(z, k), -1)
      BY <1>4, <1>5, <2>1, <2>2
    <2>6. Fits(window[z][k], Of(z, k), checkpoint, next + 1, Excess(z, k), -1)
      <3>1. MovesOn(checkpoint, next, checkpoint, next + 1) /\ next + 1 \in Nat
        BY <1>8 DEF MovesOn
      <3>2. Excess(z, k) <= Excess(z, k) /\ IsRest(Of(z, k), Of(z, k), checkpoint)
        BY <1>3, <2>4 DEF IsRest
      <3> QED BY <1>3, <1>8, <2>2, <2>3, <2>5, <3>1, <3>2, FitsPassBy
    <2> QED BY <1>7, <2>1, <2>2, <2>6
  <1>10. CASE EvaluateGroups \/ SaveMetrics \/ Sample
    <2>1. faults' = faults /\ pc # "recorded" /\ Start' = Start
      BY <1>1, <1>8, <1>10 DEF EvaluateGroups, SaveMetrics, Sample, Start
    <2> QED BY <1>4, <1>5, <1>7, <2>1
  <1>11. CASE Reject
    <2>1. /\ pc' = "idle" /\ Fault("rejected")
          /\ next' = IF pc = "sampled" THEN next ELSE LastNumber + 1
      BY <1>11 DEF Reject
    <2>2. Start' \in Nat
      BY <1>8, <2>1 DEF Start
    <2>3. faults'["rejected"] = faults["rejected"] + 1 /\ faults'["refused"] = faults["refused"]
      BY <1>8, <2>1, FaultIs DEF FaultKinds
    <2>4. Excess(z, k)' = Cardinality(window[z][k]) - Total(z, k)' - faults'["rejected"]
                            - faults'["refused"]
      BY <1>1 DEF Excess
    <2>5. Excess(z, k)' = Excess(z, k) - 1
      BY <1>3, <1>6, <2>3, <2>4 DEF Excess
    <2>6. \A jump \in Nat : Fits(window[z][k], Of(z, k), checkpoint, jump, Excess(z, k) - 1, -1)
      <3> TAKE jump \in Nat
      <3>1. Excess(z, k) - 1 \in Int /\ Excess(z, k) - 1 <= Excess(z, k) - 1
        BY <1>3
      <3> QED BY <1>3, <1>4, <3>1, FitsReject
    <2> QED BY <2>2, <2>5, <2>6
  <1>12. CASE Crash
    <2>1. pc' = "down" /\ Fault("crash")
      BY <1>12 DEF Crash
    <2>2. faults'["rejected"] = faults["rejected"] /\ faults'["refused"] = faults["refused"]
      BY <1>8, <2>1, FaultIs DEF FaultKinds
    <2>3. Excess(z, k)' = Excess(z, k)
      BY <1>1, <1>6, <2>2, ExcessKept
    <2>4. Start' = checkpoint + 1
      BY <1>1, <2>1 DEF Start
    <2>5. Fits(window[z][k], Of(z, k), checkpoint, checkpoint + 1, Excess(z, k), -1)
      BY <1>3, <1>4, FitsCrash
    <2> QED BY <2>3, <2>4, <2>5
  <1> QED BY <1>9, <1>10, <1>11, <1>12 DEF TurnStep

LEMMA BoundedRestart ==
  ASSUME Base, MembersBounded, Restart
  PROVE  MembersBounded'
  <1>1. PICK c \in Configs :
          /\ config' = c
          /\ \A z \in Zones : hash'[z] = InitializedZone(z, c)
          /\ \A z \in Zones, k \in Kinds :
               window'[z][k] = IF z \in DOMAIN config \ DOMAIN c THEN {} ELSE window[z][k]
    BY RestartIs
  <1>2. /\ pc = "down" /\ pc' = "idle" /\ next' = checkpoint + 1
        /\ UNCHANGED <<checkpoint, stream, faults>>
    BY DEF Restart, Resume
  <1>3. Start = checkpoint + 1 /\ Start' = checkpoint + 1
    BY <1>2 DEF Start
  <1>4. SUFFICES ASSUME NEW z \in DOMAIN c, NEW k \in Kinds
                 PROVE  Fits(window'[z][k], Of(z, k), checkpoint, checkpoint + 1, Excess(z, k)', -1)
    <2>1. \A z \in DOMAIN c, k \in Kinds : Of(z, k)' = Of(z, k) /\ Allowed(z, k)' = -1
      BY <1>2 DEF Of, Allowed, IsRecorded
    <2> QED BY <1>1, <1>2, <1>3, <2>1 DEF MembersBounded
  <1>5. z \in Zones
    BY ConfigsAre
  <1>6. window'[z][k] = window[z][k]
    BY <1>1, <1>4, <1>5
  <1>7. Total(z, k)' = Total(z, k)
    BY <1>1, <1>4, <1>5, TotalOfRestart
  <1>8. CASE z \in DOMAIN config
    <2>1. Excess(z, k)' = Excess(z, k)
      BY <1>2, <1>6, <1>7, ExcessKept
    <2>2. Allowed(z, k) = -1
      BY <1>2 DEF Allowed, IsRecorded
    <2> QED BY <1>3, <1>6, <1>8, <2>1, <2>2 DEF MembersBounded
  <1>9. CASE z \notin DOMAIN config
    <2>1. window[z][k] = {} /\ hash[z] = NoZone
      BY <1>5, <1>9 DEF Base, Members, Configured
    <2>2. Total(z, k) = 0 /\ Cardinality({}) = 0
      BY <2>1, FS_EmptySet DEF Total
    <2>3. faults["rejected"] \in Nat /\ faults["refused"] \in Nat /\ checkpoint \in Nat
      BY DEF Base, TypeOK, FaultKinds
    <2>4. Excess(z, k)' = Cardinality(window'[z][k]) - Total(z, k)' - faults'["rejected"]
                            - faults'["refused"]
      BY DEF Excess
    <2>5. PICK excess \in Int : excess = Excess(z, k)' /\ excess <= 0
      <3>1. Excess(z, k)' = 0 - 0 - faults["rejected"] - faults["refused"]
        BY <1>2, <1>6, <1>7, <2>1, <2>2, <2>4
      <3>2. 0 - 0 - faults["rejected"] - faults["refused"] \in Int
        BY <2>3
      <3>3. 0 - 0 - faults["rejected"] - faults["refused"] <= 0
        BY <2>3
      <3> QED BY <3>1, <3>2, <3>3
    <2>6. Of(z, k) \in SUBSET Nat
      BY <2>3 DEF Of, Base, Numbered
    <2>7. Fits(window[z][k], Of(z, k), checkpoint, checkpoint + 1, excess, -1)
      BY <2>3, <2>5, <2>6, FitsAtStart
    <2> QED BY <1>6, <2>5, <2>7
  <1> QED BY <1>8, <1>9

LEMMA BoundedStep ==
  ASSUME Base, MembersBounded, [WholeNext]_vars
  PROVE  MembersBounded'
  <1>1. CASE UNCHANGED vars
    <2>1. UNCHANGED <<hash, window, checkpoint, config, pc, stream, next, faults>>
      BY <1>1 DEF vars
    <2>2. Start' = Start /\ event' = event
      BY <2>1 DEF Start, event
    <2>3. \A z, k : /\ Of(z, k)' = Of(z, k) /\ Excess(z, k)' = Excess(z, k)
                    /\ Allowed(z, k)' = Allowed(z, k)
      BY <2>1, <2>2 DEF Of, Excess, Total, Allowed, IsRecorded
    <2> QED BY <2>1, <2>2, <2>3 DEF MembersBounded
  <1>2. CASE WholeNext
    BY <1>2, NextIs, BoundedSense, BoundedRecord, BoundedTurn, BoundedRestart, BoundedSave
  <1> QED BY <1>1, <1>2

LEMMA BoundedAlways == Spec => [](Whole => MembersBounded)
  BY BaseAlways, BoundedInit, BoundedStep, WholeStep, FaultsTypedAlways, PTL DEF Spec

LEMMA CountersAgreeNow ==
  ASSUME Base, StatsAgree, MembersSuffice, MembersBounded
  PROVE  CountersAgree
  <1> SUFFICES ASSUME NEW z \in AllZones, NEW k \in Kinds
               PROVE  /\ z \notin removed =>
                           Within(stats[z][k] - hash[z].total[k],
                                  -(faults["cut"] + faults["refused"]),
                                  faults["resent"] + faults["refused"])
                      /\ Within(Cardinality(window[z][k]) - hash[z].total[k],
                                -(faults["cut"] + faults["refused"]),
                                Cardinality(Of(z, k)) + faults["rejected"] + faults["refused"])
    BY DEF CountersAgree, Of
  <1>1. z \in DOMAIN config /\ hash[z] # NoZone
    BY DEF AllZones
  <1>2. /\ z \in Zones /\ Total(z, k) \in Nat /\ Cardinality(window[z][k]) \in Nat
        /\ Excess(z, k) \in Int /\ Of(z, k) \in SUBSET Nat
        /\ window[z][k] \in SUBSET Nat
        /\ checkpoint \in Nat
    BY <1>1, BoundsAre
  <1>3. hash[z].total[k] = Total(z, k)
    BY <1>1 DEF Total
  <1>4. /\ faults["cut"] \in Nat /\ faults["refused"] \in Nat
        /\ faults["resent"] \in Nat /\ faults["rejected"] \in Nat
        /\ stats[z][k] \in Nat
    BY <1>2 DEF Base, TypeOK, FaultKinds
  <1>5. ASSUME z \notin removed
        PROVE  Within(stats[z][k] - hash[z].total[k], -(faults["cut"] + faults["refused"]),
                      faults["resent"] + faults["refused"])
    <2>1. /\ Total(z, k) <= stats[z][k] + faults["cut"] + faults["refused"]
          /\ stats[z][k] <= Total(z, k) + faults["resent"] + faults["refused"]
      BY <1>2, <1>5 DEF StatsAgree
    <2> QED BY <1>2, <1>3, <1>4, <2>1 DEF Within
  <1>6. -(faults["cut"] + faults["refused"]) <= Cardinality(window[z][k]) - Total(z, k)
    <2>1. /\ Total(z, k) <= Cardinality(Passed(z, k)) + faults["cut"] + faults["refused"]
          /\ Cardinality(Passed(z, k)) \in Nat
          /\ Cardinality(Passed(z, k)) <= Cardinality(window[z][k])
      BY <1>2, WindowIsFinite DEF MembersSuffice
    <2> QED BY <1>2, <1>4, <2>1
  <1>7. Cardinality(window[z][k]) - Total(z, k)
          <= Cardinality(Of(z, k)) + faults["rejected"] + faults["refused"]
    <2>1. IsFiniteSet(Of(z, k)) /\ Cardinality(Of(z, k)) \in Nat
      <3>1. LastNumber \in Nat /\ \A n \in Of(z, k) : n <= LastNumber
        BY <1>2 DEF Base, Numbered, Of
      <3>2. IsFiniteSet(Of(z, k))
        BY <1>2, <3>1, FS_BoundedSetOfNaturals
      <3> QED BY <3>2, FS_CardinalityType
    <2>2. Fits(window[z][k], Of(z, k), checkpoint, Start, Excess(z, k), Allowed(z, k))
      BY <1>1 DEF MembersBounded
    <2>3. Excess(z, k) <= Cardinality(Of(z, k))
      <3>1. CASE Excess(z, k) = 1
        <4>1. PICK n \in window[z][k] : IsFirst(n, Of(z, k), Start)
          BY <2>2, <3>1 DEF Fits
        <4>2. Of(z, k) # {}
          BY <4>1 DEF IsFirst
        <4>3. Cardinality(Of(z, k)) # 0
          BY <2>1, <4>2, FS_EmptySet
        <4> QED BY <2>1, <3>1, <4>3
      <3>2. CASE Excess(z, k) # 1
        <4>1. Excess(z, k) <= 1
          BY <2>2 DEF Fits
        <4> QED BY <1>2, <2>1, <3>2, <4>1
      <3> QED BY <3>1, <3>2
    <2> QED BY <1>2, <1>4, <2>1, <2>3 DEF Excess
  <1>8. Within(Cardinality(window[z][k]) - hash[z].total[k], -(faults["cut"] + faults["refused"]),
               Cardinality(Of(z, k)) + faults["rejected"] + faults["refused"])
    BY <1>3, <1>6, <1>7 DEF Within
  <1> QED BY <1>5, <1>8

(* The totals of the hashes, the counters of parking:stats and the members *)
(* of the windows agree up to the faults of saveProcessed, the rejections  *)
(* and the event under way (calculateState, recordMovement, saveProcessed, *)
(* catchUp), as long as every start ran initializeZones in full. TLC finds *)
(* that they also agree after a torn start.                                *)
THEOREM CountersAgreeAlways == Spec => [](faults["torn"] = 0 => CountersAgree)
  <1>1. ASSUME Whole => Base, Whole => StatsAgree, Whole => MembersSuffice,
               Whole => MembersBounded
        PROVE  faults["torn"] = 0 => CountersAgree
    BY <1>1, CountersAgreeNow DEF Whole
  <1> QED
    BY <1>1, BaseAlways, StatsAgreeAlways, MembersSufficeAlways, BoundedAlways, PTL
=============================================================================
