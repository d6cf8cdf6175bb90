--------------------------- MODULE PublisherProofs ---------------------------
(***************************************************************************)
(* Proofs about ScenarioManager and Publisher for every configuration,     *)
(* every set of zones and commands and any number of faults.               *)
(***************************************************************************)
EXTENDS Publisher, FiniteSetTheorems, TLAPS

(* Which step of which task is under way, what it holds, and what a        *)
(* restart would find.                                                     *)
Fit ==
  /\ pc = "boot" => queue = <<>> /\ inbox = <<>> /\ strays = 0
  /\ queue = <<>> => step = "begin"
  /\ step = "emit" =>
       /\ Running("movement") \/ Running("command")
       /\ reading.zone \in Zones /\ reading.count \in 0..Capacity[reading.zone]
  /\ step \in {"announce", "force", "save"} => Running("command")
  /\ step = "force" \/ (step = "emit" /\ Running("command")) => command.action = "FORCE"
  /\ step = "write" => Running("command") \/ Running("save")
  /\ \A z \in Zones : last[z] # Nothing => last[z] <= Capacity[z]

(* A burst has a count, also in what is saved.                             *)
IsCounted(override) == override.scenario \in Bursts => override.left >= 1

Counted ==
  /\ \A z \in Zones : IsCounted(overrides[z])
  /\ \A s \in snapshot \cup saved, z \in Zones : IsCounted(s.overrides[z])

TInv == TypeOK /\ Fit /\ Counted

------------------------------------------------------------------------------
(* Plans of a scenario.                                                    *)

LEMMA DivisionBounds ==
  ASSUME NEW x \in Nat, NEW d \in Nat \ {0}
  PROVE  /\ x \div d \in Nat
         /\ d * (x \div d) <= x /\ x < d * (x \div d) + d
  OBVIOUS

LEMMA ProductOrder ==
  ASSUME NEW a \in Nat, NEW b \in Nat, NEW c \in Nat, a <= b
  PROVE  a * c \in Nat /\ b * c \in Nat /\ a * c <= b * c
  BY SMT

(* NEAR_FULL: a zone below the band has room in the band, for every        *)
(* capacity and every pair of fractions in order. Array(n) of a negative n *)
(* would throw and stop the Publisher.                                     *)
THEOREM NearFullHasRoom ==
  ASSUME NEW cap \in Nat \ {0}, NEW occ \in 0..cap, occ < NearFullMin(cap)
  PROVE  NearFullMax(cap) \in Nat /\ NearFullMax(cap) - occ \in Nat
  <1> DEFINE low == Config.fraction["nearFullMin"]
             high == Config.fraction["nearFullMax"]
  <1>1. low \in Nat /\ high \in Nat /\ low <= high /\ low <= 100
    BY ScenarioAssumption DEF Fractions
  <1> HIDE DEF low, high
  <1>2. low * cap \in Nat /\ high * cap \in Nat /\ low * cap <= high * cap
    BY <1>1, ProductOrder
  <1>3. low * cap <= 100 * cap
    BY <1>1, ProductOrder
  <1> DEFINE x == low * cap  y == high * cap
  <1>4. x \in Nat /\ y \in Nat /\ x <= y /\ x <= 100 * cap
    BY <1>2, <1>3
  <1>5. occ < (x + 100 - 1) \div 100
    BY DEF NearFullMin, Ceil, low
  <1>6. NearFullMax(cap) = Least(cap - 1, y \div 100)
    BY DEF NearFullMax, high
  <1> HIDE DEF x, y
  <1>7. 100 * occ < x
    BY <1>4, <1>5
  <1>8. occ <= cap - 1 /\ occ <= y \div 100 /\ y \div 100 \in Nat
    BY <1>4, <1>7
  <1> QED BY <1>6, <1>8 DEF Least

LEMMA RepeatType ==
  ASSUME NEW kind \in Kinds, NEW n \in Nat
  PROVE  Repeat(kind, n) \in Seq(Kinds)
  BY DEF Repeat

LEMMA StepsType ==
  ASSUME NEW name \in Fractions, NEW cap \in Nat, NEW low \in Nat, NEW high \in Nat,
         NEW n \in Steps(name, cap, low, high)
  PROVE  n \in Nat /\ n >= 1
  <1>1. Config.fraction[name] \in Nat
    BY ScenarioAssumption
  <1>2. /\ Config.fraction[name] * cap * low + 500 \in Nat
        /\ Config.fraction[name] * cap * high + 500 \in Nat
    BY <1>1
  <1> DEFINE a == Config.fraction[name] * cap * low + 500
             b == Config.fraction[name] * cap * high + 500
  <1>3. a \in Nat /\ b \in Nat
    BY <1>2
  <1>4. n \in Greatest(1, a \div 1000)..Greatest(1, b \div 1000)
    BY DEF Steps
  <1> HIDE DEF a, b
  <1>5. a \div 1000 \in Nat /\ b \div 1000 \in Nat
    BY <1>3, DivisionBounds
  <1> QED BY <1>4, <1>5 DEF Greatest

LEMMA WalksType ==
  ASSUME NEW occ, NEW low, NEW high, NEW plan \in Walks(occ, low, high)
  PROVE  plan \in Seq(Kinds)
  BY ScenarioAssumption DEF Walks

(* Whatever the scenario, a plan is a sequence of movements.               *)
LEMMA PlansType ==
  ASSUME NEW override \in Overrides \cup {NoOverride}, NEW g \in GLOBAL_SCENARIOS,
         NEW cap \in Nat \ {0}, NEW occ \in 0..cap,
         NEW plan \in Plans(override, g, occ, cap)
  PROVE  plan \in Seq(Kinds)
  <1> DEFINE scenario == ScenarioUnder(override, g)
  <1>1. CASE scenario \in Bursts
    <2> DEFINE fraction == IF scenario = "MASS_ENTRY" THEN "massEntry" ELSE "massExit"
               perTick == Greatest(1, Ceil(Config.fraction[fraction] * cap,
                                           100 * Config.ticks[scenario]))
    <2>1. Config.fraction[fraction] * cap \in Nat /\ 100 * Config.ticks[scenario] \in Nat \ {0}
      <3>1. Config.fraction[fraction] \in Nat /\ Config.ticks[scenario] \in Nat \ {0}
        BY <1>1, ScenarioAssumption DEF Fractions
      <3> HIDE DEF fraction, scenario
      <3> QED BY <3>1
    <2>2. perTick \in Nat /\ perTick >= 1
      <3> DEFINE x == Config.fraction[fraction] * cap
                 d == 100 * Config.ticks[scenario]
      <3>1. x \in Nat /\ d \in Nat \ {0}
        BY <2>1
      <3>2. perTick = Greatest(1, (x + d - 1) \div d)
        BY DEF Ceil
      <3> HIDE DEF x, d, perTick
      <3>3. x + d - 1 \in Nat
        BY <3>1
      <3>4. (x + d - 1) \div d \in Nat
        BY <3>1, <3>3, DivisionBounds
      <3> QED BY <3>2, <3>4 DEF Greatest
    <2>3. \/ plan = Repeat("ENTRY", Least(perTick, cap - occ))
          \/ plan = Repeat("EXIT", Least(perTick, occ))
      BY <1>1 DEF Plans, BurstPlans
    <2> HIDE DEF perTick
    <2>4. Least(perTick, cap - occ) \in Nat /\ Least(perTick, occ) \in Nat
      BY <2>2 DEF Least
    <2> QED BY <2>3, <2>4, RepeatType DEF Kinds
  <1>2. CASE plan \in NearFullPlans(occ, cap)
    <2>1. CASE occ < NearFullMin(cap)
      <3>1. PICK n \in Steps("nearFullStep", cap, 7, 13) :
              plan = Repeat("ENTRY", Least(n, NearFullMax(cap) - occ))
        BY <1>2, <2>1 DEF NearFullPlans
      <3>2. n \in Nat
        BY StepsType DEF Fractions
      <3>3. Least(n, NearFullMax(cap) - occ) \in Nat
        BY <2>1, <3>2, NearFullHasRoom DEF Least
      <3> QED BY <3>1, <3>3, RepeatType DEF Kinds
    <2>2. CASE ~(occ < NearFullMin(cap)) /\ occ > NearFullMax(cap)
      <3>1. plan = Repeat("EXIT", occ - NearFullMax(cap))
        BY <1>2, <2>2 DEF NearFullPlans
      <3>2. NearFullMax(cap) \in Int
        <4>1. Config.fraction["nearFullMax"] * cap \in Nat
          BY ScenarioAssumption DEF Fractions
        <4> DEFINE y == Config.fraction["nearFullMax"] * cap
        <4>2. y \div 100 \in Nat
          BY <4>1, DivisionBounds
        <4>3. NearFullMax(cap) = Least(cap - 1, y \div 100)
          BY DEF NearFullMax
        <4> HIDE DEF y
        <4> QED BY <4>2, <4>3 DEF Least
      <3>3. occ - NearFullMax(cap) \in Nat
        BY <2>2, <3>2
      <3> QED BY <3>1, <3>3, RepeatType DEF Kinds
    <2>3. CASE ~(occ < NearFullMin(cap)) /\ ~(occ > NearFullMax(cap))
      BY <1>2, <2>3, WalksType DEF NearFullPlans
    <2> QED BY <2>1, <2>2, <2>3
  <1>3. CASE plan \in FullPlans(occ, cap)
    <2>1. CASE occ < cap
      <3>1. PICK n \in Steps("fullStep", cap, 8, 12) : plan = Repeat("ENTRY", Least(n, cap - occ))
        BY <1>3, <2>1 DEF FullPlans
      <3>2. Least(n, cap - occ) \in Nat
        <4>1. n \in Nat
          BY StepsType DEF Fractions
        <4> QED BY <4>1 DEF Least
      <3> QED BY <3>1, <3>2, RepeatType DEF Kinds
    <2>2. CASE ~(occ < cap)
      <3>1. plan = <<>> \/ plan = <<"EXIT", "ENTRY">>
        BY <1>3, <2>2 DEF FullPlans
      <3>2. <<>> \in Seq(Kinds) /\ <<"EXIT", "ENTRY">> \in Seq(Kinds)
        BY DEF Kinds
      <3> QED BY <3>1, <3>2
    <2> QED BY <2>1, <2>2
  <1>4. CASE plan \in RecoveryPlans(occ, cap) /\ ~Recovered(override, occ, cap)
             /\ scenario = "RECOVERY"
    <2>1. PICK n \in Steps("recoveryStep", cap, 8, 12), entry \in {<<>>, <<"ENTRY">>} :
            plan = Repeat("EXIT", Least(n, occ - RecoveryTarget(cap))) \o entry
      BY <1>4 DEF RecoveryPlans
    <2>2. RecoveryTarget(cap) \in Nat
      <3>1. Config.fraction["recoveryTarget"] * cap \in Nat
        BY ScenarioAssumption DEF Fractions
      <3> QED BY <3>1, DivisionBounds DEF RecoveryTarget
    <2>3. occ > RecoveryTarget(cap)
      BY <1>4, <2>2 DEF Recovered, ScenarioUnder, NoOverride, GLOBAL_SCENARIOS
    <2>4. Least(n, occ - RecoveryTarget(cap)) \in Nat
      <3>1. n \in Nat
        BY StepsType DEF Fractions
      <3> QED BY <3>1, <2>2, <2>3 DEF Least
    <2>5. Repeat("EXIT", Least(n, occ - RecoveryTarget(cap))) \in Seq(Kinds)
      BY <2>4, RepeatType DEF Kinds
    <2>6. entry \in Seq(Kinds)
      <3>1. <<>> \in Seq(Kinds) /\ <<"ENTRY">> \in Seq(Kinds)
        BY DEF Kinds
      <3> QED BY <3>1
    <2> QED BY <2>1, <2>5, <2>6
  <1>5. CASE plan \in BasePlans(occ, cap)
    BY <1>5, WalksType DEF BasePlans
  <1> QED BY <1>1, <1>2, <1>3, <1>4, <1>5 DEF Plans

------------------------------------------------------------------------------
(* The state keeps its types.                                              *)

LEMMA CommandFields ==
  ASSUME NEW c \in Commands
  PROVE  /\ c.action = "SET_SCENARIO" => c.scenario \in ScenarioNames /\ c.zone \in Targets
         /\ c.action = "SET_SPEED" => c.speed \in Speeds
         /\ c.action = "SET_MODE" => c.mode \in Modes
         /\ c.action = "FORCE" =>
              c.kind \in Kinds /\ c.zone \in Zones /\ c.count \in 1..ForceLimit
  <1>1. c \in AllCommands
    BY PublisherAssumption
  <1> QED BY <1>1 DEF AllCommands

LEMMA PendingFields ==
  ASSUME NEW t \in Pending
  PROVE  /\ t.kind \in {"start", "save", "command", "transition", "movement"}
         /\ t.kind = "command" => t.command \in Commands
         /\ t.kind = "transition" => t.zone \in Zones /\ t.to \in GLOBAL_SCENARIOS
         /\ t.kind = "movement" => t.zone \in Zones /\ t.move \in Kinds
  BY DEF Pending

(* The tasks that the code appends.                                        *)
LEMMA PendingTasks ==
  /\ [kind |-> "start"] \in Pending
  /\ [kind |-> "save"] \in Pending
  /\ \A c \in Commands : [kind |-> "command", command |-> c] \in Pending
  /\ \A z \in Zones, s \in GLOBAL_SCENARIOS :
       [kind |-> "transition", zone |-> z, to |-> s] \in Pending
  /\ \A z \in Zones, m \in Kinds :
       [kind |-> "movement", zone |-> z, move |-> m] \in Pending
  BY DEF Pending

(* Appending to a queue leaves the running task where it is, if there is   *)
(* one.                                                                    *)
LEMMA AppendKeeps ==
  ASSUME NEW S, NEW q \in Seq(S), NEW t \in S
  PROVE  /\ Append(q, t) \in Seq(S) /\ Append(q, t) # <<>>
         /\ q # <<>> => Head(Append(q, t)) = Head(q)
  <1> DEFINE new == Append(q, t)
  <1>1. new \in Seq(S) /\ Len(new) = Len(q) + 1
    OBVIOUS
  <1>2. \A i \in 1..Len(q) : new[i] = q[i]
    OBVIOUS
  <1> HIDE DEF new
  <1>3. new # <<>>
    BY <1>1
  <1>4. ASSUME q # <<>> PROVE Head(new) = Head(q)
    <2>1. 1 \in 1..Len(q)
      BY <1>4
    <2> QED BY <1>1, <1>2, <1>3, <2>1
  <1> QED BY <1>1, <1>3, <1>4 DEF new

LEMMA TailKeeps ==
  ASSUME NEW S, NEW q \in Seq(S), q # <<>>
  PROVE  Head(q) \in S /\ Tail(q) \in Seq(S)
  OBVIOUS

LEMMA SnapshotFields ==
  ASSUME NEW a, NEW b, NEW c, NEW d, NEW e
  PROVE  [status |-> a, speed |-> b, mode |-> c, global |-> d, overrides |-> e] \in Snapshots
           <=> /\ a \in {"RUNNING", "PAUSED"} /\ b \in Speeds /\ c \in Modes
               /\ d \in GLOBAL_SCENARIOS
               /\ e \in [Zones -> Overrides \cup {NoOverride}]
  BY DEF Snapshots

LEMMA SimTypes ==
  ASSUME TypeOK
  PROVE  /\ status \in {"RUNNING", "PAUSED"} /\ speed \in Speeds /\ mode \in Modes
         /\ global \in GLOBAL_SCENARIOS
         /\ overrides \in [Zones -> Overrides \cup {NoOverride}]
  BY SnapshotFields DEF TypeOK, Snapshot

LEMMA TargetsAreZones ==
  ASSUME NEW c \in Commands, c.action = "SET_SCENARIO"
  PROVE  TargetsOf(c) \subseteq Zones
  BY CommandFields DEF TargetsOf, Targets

LEMMA NewOverrideType ==
  ASSUME NEW s \in ScenarioNames
  PROVE  NewOverride(s) \in Overrides
  BY ScenarioAssumption DEF NewOverride, Overrides, Unlimited

(* A burst is counted down only while there is something to count; what    *)
(* has no count at all cannot come to an end.                              *)
LEMMA OverrideAfterType ==
  ASSUME NEW o \in Overrides \cup {NoOverride}, NEW occ, NEW cap,
         IsCounted(o)
  PROVE  /\ OverrideAfter(o, occ, cap) \in Overrides \cup {NoOverride}
         /\ IsCounted(OverrideAfter(o, occ, cap))
  <1> USE DEF IsCounted
  <1>1. CASE Ends(o, occ, cap)
    BY <1>1 DEF OverrideAfter, NoOverride, Bursts
  <1>2. CASE ~Ends(o, occ, cap) /\ o.scenario \in Bursts
    <2>1. o \in Overrides /\ o.left # 1
      BY <1>2 DEF Ends, BurstOver, NoOverride, Bursts
    <2>2. o.left \in Nat /\ o.left - 1 >= 1 /\ o.left - 1 \in Nat
      BY <1>2, <2>1 DEF Overrides, Unlimited
    <2>3. OverrideAfter(o, occ, cap) = [o EXCEPT !.left = o.left - 1]
      BY <1>2 DEF OverrideAfter
    <2> QED BY <2>1, <2>2, <2>3 DEF Overrides
  <1>3. CASE ~Ends(o, occ, cap) /\ o.scenario \notin Bursts
    BY <1>3 DEF OverrideAfter
  <1> QED BY <1>1, <1>2, <1>3

LEMMA RunningCommand ==
  ASSUME TypeOK, Running("command")
  PROVE  command \in Commands
  BY TailKeeps, PendingFields DEF TypeOK, Running, command

LEMMA RunningMovement ==
  ASSUME TypeOK, Running("movement")
  PROVE  Head(queue).zone \in Zones /\ Head(queue).move \in Kinds
  BY TailKeeps, PendingFields DEF TypeOK, Running

(* A movement that fits keeps a zone between empty and full, and so does   *)
(* the reading it gives.                                                   *)
LEMMA ApplyKeepsBounds ==
  ASSUME TypeOK, NEW z \in Zones, NEW move \in Kinds, Fits(z, move), Apply(z, move)
  PROVE  /\ occupied' \in [Zones -> Nat] /\ \A y \in Zones : occupied'[y] <= Capacity[y]
         /\ reading'.zone = z /\ reading'.count = occupied'[z]
         /\ reading' \in [zone : Zones \cup {"ALL"}, count : Nat \cup {Nothing}]
         /\ occupied'[z] \in {occupied[z] - 1, occupied[z] + 1}
         /\ \A y \in Zones \ {z} : occupied'[y] = occupied[y]
         /\ step' = "emit"
  <1>1. /\ occupied \in [Zones -> Nat] /\ Capacity[z] \in Nat
        /\ occupied[z] \in Nat /\ occupied[z] <= Capacity[z]
    BY PublisherAssumption DEF TypeOK
  <1> DEFINE count == IF move = "ENTRY" THEN occupied[z] + 1 ELSE occupied[z] - 1
  <1>2. /\ occupied' = [occupied EXCEPT ![z] = count]
        /\ reading' = [zone |-> z, count |-> count] /\ step' = "emit"
    BY DEF Apply
  <1>3. count \in Nat /\ count <= Capacity[z] /\ count \in {occupied[z] - 1, occupied[z] + 1}
    BY <1>1 DEF Fits
  <1> HIDE DEF count
  <1> QED BY <1>1, <1>2, <1>3 DEF TypeOK

LEMMA TypeStep ==
  ASSUME TInv, Next
  PROVE  TypeOK'
  <1> USE DEF TInv
  <1>1. CASE Boot
    <2>1. CASE saved = {} /\ UNCHANGED simVars /\ jump' = Zones
      BY <1>1, <2>1, PendingTasks DEF Boot, TypeOK, simVars, redisVars, Snapshot
    <2>2. CASE /\ saved # {} /\ jump' = {z \in Zones : hash[z] # last[z]}
               /\ \E state \in saved : Restore(state)
      <3>1. PICK state \in saved : Restore(state)
        BY <2>2
      <3>2. /\ state.status \in {"RUNNING", "PAUSED"} /\ state.speed \in Speeds
            /\ state.mode \in Modes /\ state.overrides \in [Zones -> Overrides \cup {NoOverride}]
        BY DEF TypeOK, Snapshots
      <3>3. Snapshot' \in Snapshots
        BY <3>1, <3>2, SnapshotFields DEF Restore, RestoredOverrides, Snapshot, GLOBAL_SCENARIOS
      <3>4. occupied' = hash
        BY <3>1 DEF Restore, RestoredOccupancy
      <3> QED BY <1>1, <2>2, <3>3, <3>4, PendingTasks DEF Boot, TypeOK, redisVars
    <2> QED BY <1>1, <2>1, <2>2 DEF Boot
  <1>2. CASE Tick
    <2>1. Snapshot' \in Snapshots
      <3>1. /\ status \in {"RUNNING", "PAUSED"} /\ speed \in Speeds /\ mode \in Modes
            /\ global \in GLOBAL_SCENARIOS /\ overrides \in [Zones -> Overrides \cup {NoOverride}]
        BY SimTypes
      <3>2. overrides' \in [Zones -> Overrides \cup {NoOverride}]
        BY <1>2, <3>1, OverrideAfterType DEF Tick, Counted
      <3> QED BY <1>2, <3>1, <3>2, SnapshotFields DEF Tick, Snapshot
    <2>2. movements' \in [Zones -> Seq(Kinds)]
      <3>1. /\ global \in GLOBAL_SCENARIOS
            /\ overrides \in [Zones -> Overrides \cup {NoOverride}]
            /\ occupied \in [Zones -> Nat]
            /\ \A z \in Zones : Capacity[z] \in Nat \ {0} /\ occupied[z] \in 0..Capacity[z]
        BY SnapshotFields, PublisherAssumption DEF TypeOK, Snapshot
      <3>2. \A z \in Zones : movements'[z] \in Plans(overrides[z], global, occupied[z], Capacity[z])
        BY <1>2 DEF Tick
      <3>3. \A z \in Zones : movements'[z] \in Seq(Kinds)
        BY <3>1, <3>2, PlansType
      <3>4. movements' = [z \in Zones |-> movements'[z]]
        BY <1>2 DEF Tick
      <3> QED BY <3>3, <3>4
    <2>3. transitions' \subseteq [zone : Zones, to : GLOBAL_SCENARIOS]
      BY <1>2, SnapshotFields DEF Tick, TypeOK, Snapshot
    <2> QED BY <1>2, <2>1, <2>2, <2>3 DEF Tick, TypeOK, taskVars, redisVars
  <1>3. CASE EnqueueTransition
    BY <1>3, AppendKeeps, PendingTasks DEF EnqueueTransition, TypeOK, simVars, redisVars, historyVars, Snapshot
  <1>4. CASE CheckStatus
    BY <1>4 DEF CheckStatus, TypeOK, simVars, taskVars, redisVars, historyVars, Snapshot
  <1>5. CASE EnqueueMovement
    BY <1>5, AppendKeeps, PendingTasks DEF EnqueueMovement, TypeOK, simVars, redisVars, historyVars, Snapshot
  <1>6. CASE EndTick
    BY <1>6, AppendKeeps, PendingTasks
    DEF EndTick, TypeOK, simVars, redisVars, historyVars, Snapshot, NoMovements
  <1>7. CASE SendCommand
    BY <1>7, PublisherAssumption
    DEF SendCommand, TypeOK, simVars, loopVars, taskVars, redisVars, Snapshot
  <1>8. CASE QueueCommand
    BY <1>8, AppendKeeps, PendingTasks
    DEF QueueCommand, TypeOK, simVars, loopVars, redisVars, historyVars, Snapshot
  <1>9. CASE SetScenario
    <2>1. command \in Commands /\ command.action = "SET_SCENARIO"
      BY <1>9, RunningCommand DEF SetScenario
    <2>2. command.scenario \in ScenarioNames
      BY <2>1, CommandFields
    <2>3. Snapshot' \in Snapshots
      <3>1. /\ status \in {"RUNNING", "PAUSED"} /\ speed \in Speeds /\ mode \in Modes
            /\ global \in GLOBAL_SCENARIOS /\ overrides \in [Zones -> Overrides \cup {NoOverride}]
        BY SimTypes
      <3>2. overrides' \in [Zones -> Overrides \cup {NoOverride}] /\ global' \in GLOBAL_SCENARIOS
        BY <1>9, <2>2, <3>1, NewOverrideType DEF SetScenario, SetsGlobal
      <3> QED BY <1>9, <3>1, <3>2, SnapshotFields DEF SetScenario, Snapshot
    <2>4. overtaken' \subseteq Zones
      BY <1>9, <2>1, TargetsAreZones DEF SetScenario, TypeOK
    <2> QED BY <1>9, <2>3, <2>4 DEF SetScenario, TypeOK, loopVars, redisVars
  <1>10. CASE SetPace
    <2>1. command \in Commands
      BY <1>10, RunningCommand DEF SetPace
    <2>2. Snapshot' \in Snapshots
      BY <1>10, <2>1, CommandFields, SimTypes, SnapshotFields DEF SetPace, Snapshot
    <2> QED BY <1>10, <2>2 DEF SetPace, TypeOK, loopVars, redisVars, historyVars
  <1>11. CASE SetStatus
    <2>1. Snapshot' \in Snapshots
      BY <1>11, SimTypes, SnapshotFields DEF SetStatus, Snapshot
    <2> QED BY <1>11, <2>1 DEF SetStatus, TypeOK, loopVars, redisVars
  <1>12. CASE ResetSimulator
    <2>1. Snapshot' \in Snapshots
      BY <1>12, SimTypes, SnapshotFields DEF ResetSimulator, Snapshot, GLOBAL_SCENARIOS
    <2> QED BY <1>12, <2>1, PublisherAssumption DEF ResetSimulator, TypeOK, loopVars, redisVars
  <1>13. CASE StartForcing
    <2>1. command \in Commands /\ command.action = "FORCE"
      BY <1>13, RunningCommand DEF StartForcing
    <2>2. command.count \in 0..ForceLimit
      BY <2>1, CommandFields DEF ForceLimit
    <2> QED BY <1>13, <2>2 DEF StartForcing, TypeOK, simVars, loopVars, redisVars, historyVars, Snapshot
  <1>14. CASE EmitMovement
    <2> DEFINE z == Head(queue).zone  move == Head(queue).move
    <2>1. z \in Zones /\ move \in Kinds
      BY <1>14, RunningMovement DEF EmitMovement
    <2>2. CASE Fits(z, move) /\ Apply(z, move) /\ UNCHANGED <<queue, misfit>>
      BY <1>14, <2>1, <2>2, ApplyKeepsBounds DEF EmitMovement, TypeOK, loopVars, redisVars, Snapshot
    <2>3. CASE /\ Done /\ misfit' = (misfit \/ z \notin disturbed)
               /\ UNCHANGED <<occupied, reading>>
      BY <1>14, <2>3, TailKeeps DEF EmitMovement, Done, Running, TypeOK, loopVars, redisVars, Snapshot
    <2> QED BY <1>14, <2>2, <2>3 DEF EmitMovement
  <1>15. CASE ForceMovement
    <2>1. command \in Commands
      BY <1>15, RunningCommand DEF ForceMovement
    <2>2. CASE left = 0 /\ step' = "save" /\ UNCHANGED <<occupied, reading, left, disturbed>>
      BY <1>15, <2>2 DEF ForceMovement, TypeOK, loopVars, redisVars, Snapshot
    <2>3. command.zone \in Zones /\ command.kind \in Kinds
      BY <1>15, <2>1, CommandFields DEF ForceMovement, Fit
    <2>4. CASE /\ left > 0 /\ Fits(command.zone, command.kind)
               /\ Apply(command.zone, command.kind) /\ left' = left - 1
               /\ disturbed' = disturbed \cup {command.zone}
      <3>1. /\ occupied' \in [Zones -> Nat] /\ \A y \in Zones : occupied'[y] <= Capacity[y]
            /\ reading' \in [zone : Zones \cup {"ALL"}, count : Nat \cup {Nothing}]
            /\ step' = "emit"
        BY <2>3, <2>4, ApplyKeepsBounds
      <3>2. left' \in 0..ForceLimit /\ disturbed' \subseteq Zones
        BY <2>3, <2>4 DEF TypeOK, ForceLimit
      <3> QED BY <1>15, <3>1, <3>2 DEF ForceMovement, TypeOK, loopVars, redisVars, Snapshot
    <2>5. CASE /\ left > 0 /\ left' = left - 1
               /\ UNCHANGED <<occupied, reading, step, disturbed>>
      BY <1>15, <2>5 DEF ForceMovement, TypeOK, loopVars, redisVars, Snapshot, ForceLimit
    <2> QED BY <1>15, <2>2, <2>4, <2>5 DEF ForceMovement
  <1>16. CASE PublishReading
    <2>1. reading.zone \in Zones /\ reading.count \in Nat
      BY <1>16, PublisherAssumption DEF PublishReading, Fit
    <2>2. queue' \in Seq(Pending) /\ step' \in {"begin", "force"} /\ strays' \in Nat
      <3>1. CASE Running("movement") /\ Done /\ strays' \in {strays, strays + 1}
        BY <3>1, TailKeeps DEF Done, Running, TypeOK
      <3>2. CASE step' = "force" /\ UNCHANGED <<queue, strays>>
        BY <3>2 DEF TypeOK
      <3> QED BY <1>16, <3>1, <3>2 DEF PublishReading
    <2> QED BY <1>16, <2>1, <2>2
            DEF PublishReading, TypeOK, simVars, loopVars, redisVars, Snapshot, NoReading
  <1>17. CASE AnnounceCommand
    <2>1. command \in Commands
      BY <1>17, RunningCommand DEF AnnounceCommand
    <2>2. announced' \in [Zones -> ScenarioNames]
      BY <1>17, <2>1, CommandFields DEF AnnounceCommand, TypeOK
    <2> QED BY <1>17, <2>2 DEF AnnounceCommand, TypeOK, simVars, loopVars, redisVars, Snapshot
  <1>18. CASE AnnounceTransition
    <2>1. Head(queue).zone \in Zones /\ Head(queue).to \in ScenarioNames
      BY <1>18, TailKeeps, PendingFields
      DEF AnnounceTransition, Running, TypeOK, GLOBAL_SCENARIOS, ScenarioNames
    <2> QED BY <1>18, <2>1, TailKeeps
            DEF AnnounceTransition, Running, Done, TypeOK, simVars, loopVars, redisVars, Snapshot
  <1>19. CASE AnnounceStart
    BY <1>19, TailKeeps DEF AnnounceStart, Done, Running, TypeOK, simVars, loopVars, redisVars, historyVars, Snapshot
  <1>20. CASE TakeSnapshot
    BY <1>20 DEF TakeSnapshot, SaveIsDue, TypeOK, simVars, loopVars, redisVars, historyVars, Snapshot
  <1>21. CASE WriteState
    BY <1>21, TailKeeps DEF WriteState, Done, Fit, Running, TypeOK, simVars, loopVars, historyVars, Snapshot
  <1>22. CASE TaskFails
    <2>1. queue # <<>>
      BY <1>22 DEF TaskFails, Fit, Running
    <2>2. queue' \in Seq(Pending) /\ step' = "begin"
      BY <1>22, <2>1, TailKeeps DEF TaskFails, Done, TypeOK
    <2>3. faults' \in 0..MaxFaults
      BY <1>22, PublisherAssumption DEF TaskFails, Fault, TypeOK
    <2>4. jump' \subseteq Zones
      BY <1>22 DEF TaskFails, Fit, TypeOK
    <2>5. overtaken' \subseteq Zones
      BY <1>22, TailKeeps, PendingFields DEF TaskFails, Running, TypeOK
    <2>6. left' \in 0..ForceLimit /\ unsaved' \in BOOLEAN
      BY <1>22 DEF TaskFails, TypeOK, ForceLimit
    <2> QED BY <1>22, <2>2, <2>3, <2>4, <2>5, <2>6
            DEF TaskFails, TypeOK, simVars, loopVars, redisVars, Snapshot, NoReading
  <1>23. CASE Crash
    <2>1. Snapshot' \in Snapshots
      BY <1>23, SnapshotFields
      DEF Crash, Constructed, Snapshot, Speeds, Modes, GLOBAL_SCENARIOS
    <2>2. /\ occupied' \in [Zones -> Nat] /\ \A z \in Zones : occupied'[z] <= Capacity[z]
          /\ movements' \in [Zones -> Seq(Kinds)]
      BY <1>23, PublisherAssumption DEF Crash, Constructed, NoMovements
    <2>3. faults' \in 0..MaxFaults
      BY <1>23, PublisherAssumption DEF Crash, Fault, TypeOK
    <2>4. /\ queue' \in Seq(Pending) /\ inbox' \in Seq(Commands)
          /\ left' \in 0..ForceLimit /\ overtaken' \subseteq Zones
      BY <1>23 DEF Crash, TypeOK, ForceLimit
    <2> QED BY <1>23, <2>1, <2>2, <2>3, <2>4 DEF Crash, TypeOK, redisVars, NoReading
  <1>24. CASE ProcessorApplies
    <2>1. PICK z \in Zones : last[z] # Nothing /\ hash' = [hash EXCEPT ![z] = last[z]]
      BY <1>24 DEF ProcessorApplies
    <2>2. last[z] \in Nat /\ last[z] <= Capacity[z]
      BY <2>1 DEF Fit, TypeOK
    <2>3. hash' \in [Zones -> Nat] /\ \A y \in Zones : hash'[y] <= Capacity[y]
      BY <2>1, <2>2 DEF TypeOK
    <2> QED BY <1>24, <2>3
            DEF ProcessorApplies, TypeOK, simVars, loopVars, taskVars, historyVars, Snapshot
  <1>25. CASE SkipSave
    <2>1. queue # <<>> /\ faults' \in 0..MaxFaults /\ unsaved' \in BOOLEAN
      BY <1>25, PublisherAssumption DEF SkipSave, SaveIsDue, Fault, Running, TypeOK
    <2> QED BY <1>25, <2>1, TailKeeps
            DEF SkipSave, Done, TypeOK, simVars, loopVars, redisVars, Snapshot
  <1> QED
    BY <1>1, <1>2, <1>3, <1>4, <1>5, <1>6, <1>7, <1>8, <1>9, <1>10, <1>11, <1>12, <1>13,
       <1>14, <1>15, <1>16, <1>17, <1>18, <1>19, <1>20, <1>21, <1>22, <1>23, <1>24,
       <1>25
    DEF Next, Loop, Task

------------------------------------------------------------------------------
(* The tasks fit: every step belongs to the task at the head of the queue. *)

LEMMA FitAppend ==
  ASSUME TypeOK, Fit, NEW t \in Pending, queue' = Append(queue, t),
         UNCHANGED <<step, reading, last>>, pc' # "boot"
  PROVE  Fit'
  <1>1. queue' # <<>> /\ (queue # <<>> => Head(queue') = Head(queue))
    BY AppendKeeps DEF TypeOK
  <1>2. CASE queue = <<>>
    BY <1>1, <1>2 DEF Fit, TypeOK
  <1>3. CASE queue # <<>>
    BY <1>1, <1>3 DEF Fit, TypeOK, Running, command
  <1> QED BY <1>2, <1>3

LEMMA FitDone ==
  ASSUME TypeOK, Fit, queue # <<>>, Done, UNCHANGED pc,
         \A z \in Zones : last'[z] # Nothing => last'[z] <= Capacity[z]
  PROVE  Fit'
  BY DEF Fit, Done

LEMMA FitStep ==
  ASSUME TInv, Next
  PROVE  Fit'
  <1> USE DEF TInv
  <1>0. \A z \in Zones : last[z] # Nothing => last[z] <= Capacity[z]
    BY DEF Fit
  <1>1. CASE Boot
    BY <1>1, <1>0 DEF Boot, Fit, redisVars
  <1>2. CASE Tick
    BY <1>2 DEF Tick, Fit, taskVars, Running, command
  <1>3. CASE EnqueueTransition
    <2>1. \A t \in transitions :
            [kind |-> "transition", zone |-> t.zone, to |-> t.to] \in Pending
      BY PendingTasks DEF TypeOK
    <2> QED BY <1>3, <2>1, FitAppend DEF EnqueueTransition, historyVars
  <1>4. CASE CheckStatus
    BY <1>4 DEF CheckStatus, Fit, taskVars, historyVars, Running, command
  <1>5. CASE EnqueueMovement
    <2>1. \A z \in Zones : movements[z] # <<>> =>
            [kind |-> "movement", zone |-> z, move |-> Head(movements[z])] \in Pending
      BY PendingTasks DEF TypeOK
    <2> QED BY <1>5, <2>1, FitAppend DEF EnqueueMovement, historyVars
  <1>6. CASE EndTick
    BY <1>6, PendingTasks, FitAppend DEF EndTick, historyVars
  <1>7. CASE SendCommand
    BY <1>7 DEF SendCommand, Fit, loopVars, taskVars, Running, command
  <1>8. CASE QueueCommand
    <2>1. Head(inbox) \in Commands /\ pc # "boot"
      BY <1>8 DEF QueueCommand, TypeOK, Fit
    <2> QED BY <1>8, <2>1, PendingTasks, FitAppend DEF QueueCommand, loopVars, historyVars
  <1>9. CASE SetScenario
    BY <1>9 DEF SetScenario, Fit, loopVars, Running
  <1>10. CASE SetPace
    BY <1>10 DEF SetPace, Fit, loopVars, historyVars, Running
  <1>11. CASE SetStatus
    BY <1>11 DEF SetStatus, Fit, loopVars, Running
  <1>12. CASE ResetSimulator
    BY <1>12 DEF ResetSimulator, Fit, loopVars, Running
  <1>13. CASE StartForcing
    BY <1>13 DEF StartForcing, Fit, loopVars, historyVars, Running, command
  <1>14. CASE EmitMovement
    <2> DEFINE z == Head(queue).zone  move == Head(queue).move
    <2>1. z \in Zones /\ move \in Kinds /\ Running("movement") /\ ~Running("command")
      BY <1>14, RunningMovement DEF EmitMovement, Running
    <2>2. CASE Fits(z, move) /\ Apply(z, move) /\ UNCHANGED <<queue, misfit>>
      <3>1. /\ reading'.zone = z /\ reading'.count \in 0..Capacity[z] /\ step' = "emit"
        BY <2>1, <2>2, ApplyKeepsBounds, PublisherAssumption
      <3> QED BY <1>14, <2>1, <2>2, <3>1 DEF EmitMovement, Fit, loopVars, Running
    <2>3. CASE Done
      BY <1>14, <2>3, <1>0, FitDone DEF EmitMovement, Running, loopVars
    <2> QED BY <1>14, <2>2, <2>3 DEF EmitMovement
  <1>15. CASE ForceMovement
    <2>1. command \in Commands /\ command.action = "FORCE"
      BY <1>15, RunningCommand DEF ForceMovement, Fit
    <2>2. command.zone \in Zones /\ command.kind \in Kinds
      BY <2>1, CommandFields
    <2>3. CASE Fits(command.zone, command.kind) /\ Apply(command.zone, command.kind)
      <3>1. /\ reading'.zone = command.zone /\ step' = "emit"
            /\ reading'.count \in 0..Capacity[command.zone]
        BY <2>2, <2>3, ApplyKeepsBounds, PublisherAssumption
      <3>2. command' = command
        BY <1>15 DEF ForceMovement, command
      <3> QED BY <1>15, <2>1, <2>2, <3>1, <3>2 DEF ForceMovement, Fit, loopVars, Running
    <2>4. CASE step' \in {"save", "force"} /\ UNCHANGED reading
      BY <1>15, <2>1, <2>4 DEF ForceMovement, Fit, loopVars, Running, command
    <2> QED BY <1>15, <2>3, <2>4 DEF ForceMovement
  <1>16. CASE PublishReading
    <2>1. \A z \in Zones : last'[z] # Nothing => last'[z] <= Capacity[z]
      BY <1>16, <1>0, PublisherAssumption DEF PublishReading, Fit, TypeOK
    <2>2. CASE Running("movement") /\ Done
      BY <1>16, <2>1, <2>2, FitDone DEF PublishReading, Running, loopVars
    <2>3. CASE Running("command") /\ step' = "force" /\ UNCHANGED queue
      BY <1>16, <2>1, <2>3 DEF PublishReading, Fit, loopVars, Running, command
    <2> QED BY <1>16, <2>2, <2>3 DEF PublishReading
  <1>17. CASE AnnounceCommand
    BY <1>17 DEF AnnounceCommand, Fit, loopVars, Running
  <1>18. CASE AnnounceTransition
    BY <1>18, <1>0, FitDone DEF AnnounceTransition, Running, loopVars
  <1>19. CASE AnnounceStart
    BY <1>19, <1>0, FitDone DEF AnnounceStart, Running, loopVars, historyVars
  <1>20. CASE TakeSnapshot
    BY <1>20 DEF TakeSnapshot, SaveIsDue, Fit, loopVars, historyVars, Running
  <1>21. CASE WriteState
    BY <1>21, <1>0, FitDone DEF WriteState, Fit, Running, loopVars
  <1>22. CASE TaskFails
    BY <1>22, <1>0, FitDone DEF TaskFails, Fit, Running, loopVars
  <1>23. CASE Crash
    BY <1>23, <1>0 DEF Crash, Fit
  <1>24. CASE ProcessorApplies
    BY <1>24 DEF ProcessorApplies, Fit, loopVars, taskVars, historyVars, Running, command
  <1>25. CASE SkipSave
    BY <1>25, <1>0, FitDone DEF SkipSave, SaveIsDue, Running, loopVars
  <1> QED
    BY <1>1, <1>2, <1>3, <1>4, <1>5, <1>6, <1>7, <1>8, <1>9, <1>10, <1>11, <1>12, <1>13,
       <1>14, <1>15, <1>16, <1>17, <1>18, <1>19, <1>20, <1>21, <1>22, <1>23, <1>24,
       <1>25
    DEF Next, Loop, Task

LEMMA CountedStep ==
  ASSUME TInv, Next
  PROVE  Counted'
  <1> USE DEF TInv
  <1>1. CASE Boot
    <2>1. CASE UNCHANGED overrides
      BY <1>1, <2>1 DEF Boot, Counted, redisVars
    <2>2. ASSUME NEW state \in saved, Restore(state) PROVE Counted'
      BY <1>1, <2>2 DEF Boot, Counted, redisVars, Restore, RestoredOverrides
    <2> QED BY <1>1, <2>1, <2>2 DEF Boot, simVars
  <1>2. CASE Tick
    <2>1. \A z \in Zones : IsCounted(overrides'[z])
      BY <1>2, SimTypes, OverrideAfterType DEF Tick, Counted
    <2> QED BY <1>2, <2>1 DEF Tick, Counted, taskVars, redisVars
  <1>9. CASE SetScenario
    <2>1. command.scenario \in ScenarioNames
      BY <1>9, RunningCommand, CommandFields DEF SetScenario
    <2>2. IsCounted(NewOverride(command.scenario)) /\ IsCounted(NoOverride)
      BY <2>1, ScenarioAssumption DEF IsCounted, NewOverride, NoOverride, Bursts
    <2> QED BY <1>9, <2>2 DEF SetScenario, Counted, redisVars
  <1>12. CASE ResetSimulator
    BY <1>12 DEF ResetSimulator, Counted, redisVars, IsCounted, NoOverride, Bursts
  <1>20. CASE TakeSnapshot
    BY <1>20 DEF TakeSnapshot, Counted, simVars, redisVars, Snapshot
  <1>21. CASE WriteState
    BY <1>21 DEF WriteState, Counted, simVars
  <1>22. CASE TaskFails
    BY <1>22 DEF TaskFails, Counted, simVars, redisVars
  <1>23. CASE Crash
    BY <1>23 DEF Crash, Constructed, Counted, redisVars, IsCounted, NoOverride, Bursts
  <1>24. CASE UNCHANGED <<overrides, snapshot, saved>>
    BY <1>24 DEF Counted
  <1> QED
    BY <1>1, <1>2, <1>9, <1>12, <1>20, <1>21, <1>22, <1>23, <1>24
    DEF Next, Loop, Task, EnqueueTransition, CheckStatus, EnqueueMovement, EndTick,
        SetPace, SetStatus, StartForcing, EmitMovement, ForceMovement, PublishReading,
        AnnounceCommand, AnnounceTransition, AnnounceStart, QueueCommand, SendCommand,
        ProcessorApplies, SkipSave, simVars, redisVars, taskVars

LEMMA TInvInit ==
  ASSUME Init
  PROVE  TInv
  <1>1. Snapshot \in Snapshots
    BY SnapshotFields DEF Init, Snapshot, Speeds, Modes, GLOBAL_SCENARIOS
  <1>2. TypeOK
    <2>1. /\ occupied \in [Zones -> Nat] /\ \A z \in Zones : occupied[z] <= Capacity[z]
          /\ hash \in [Zones -> Nat] /\ \A z \in Zones : hash[z] <= Capacity[z]
      BY PublisherAssumption DEF Init
    <2>2. /\ movements \in [Zones -> Seq(Kinds)] /\ queue \in Seq(Pending)
          /\ inbox \in Seq(Commands)
      BY DEF Init, NoMovements
    <2>3. reading \in [zone : Zones \cup {"ALL"}, count : Nat \cup {Nothing}]
      BY DEF Init, NoReading
    <2>4. /\ last \in [Zones -> Nat \cup {Nothing}] /\ announced \in [Zones -> ScenarioNames]
          /\ left \in 0..ForceLimit /\ sent \in 0..MaxCommands /\ faults \in 0..MaxFaults
      BY PublisherAssumption DEF Init, ScenarioNames, GLOBAL_SCENARIOS, ForceLimit
    <2> QED BY <1>1, <2>1, <2>2, <2>3, <2>4 DEF Init, TypeOK
  <1>3. Fit
    BY DEF Init, Fit
  <1>4. Counted
    BY DEF Init, Counted, IsCounted, NoOverride, Bursts
  <1> QED BY <1>2, <1>3, <1>4 DEF TInv

LEMMA TInvStep ==
  ASSUME TInv, [Next]_vars
  PROVE  TInv'
  <1>1. CASE Next
    BY <1>1, TypeStep, FitStep, CountedStep DEF TInv
  <1>2. CASE UNCHANGED vars
    BY <1>2 DEF TInv, TypeOK, Fit, Counted, Snapshot, Running, command, vars
  <1> QED BY <1>1, <1>2

LEMMA TInvAlways == Spec => []TInv
  BY TInvInit, TInvStep, PTL DEF Spec

(* A reading that is about to be published, and the last one published of  *)
(* a zone, are of the zone and within its capacity.                        *)
ReadingsInBounds ==
  /\ step = "emit" => reading.zone \in Zones /\ reading.count \in 0..Capacity[reading.zone]
  /\ \A z \in Zones : last[z] # Nothing => last[z] \in 0..Capacity[z]

(* Every variable keeps its type: no zone is ever emptier than empty or    *)
(* fuller than full, in memory, in a reading or in Redis.                  *)
THEOREM TypeCorrect == Spec => [](TypeOK /\ ReadingsInBounds)
  <1>1. TInv => TypeOK /\ ReadingsInBounds
    <2> SUFFICES ASSUME TInv PROVE TypeOK /\ ReadingsInBounds
      OBVIOUS
    <2>1. TypeOK /\ Fit
      BY DEF TInv
    <2>2. \A z \in Zones : last[z] # Nothing => last[z] \in 0..Capacity[z]
      BY <2>1, PublisherAssumption DEF TypeOK, Fit, Nothing
    <2> QED BY <2>1, <2>2 DEF Fit, ReadingsInBounds
  <1> QED BY <1>1, TInvAlways, PTL

(* consumeTick never meets a burst that it cannot count down, whatever was *)
(* restored.                                                               *)
THEOREM BurstsAreCountedAlways == Spec => []BurstsAreCounted
  <1>1. TInv => BurstsAreCounted
    BY SimTypes DEF TInv, Counted, IsCounted, BurstsAreCounted, GLOBAL_SCENARIOS, Bursts
  <1> QED BY <1>1, TInvAlways, PTL

------------------------------------------------------------------------------
(* Continuity of the readings. What was published last of a zone is what   *)
(* the zone holds, but for the reading that is under way.                  *)

Continuous ==
  /\ pc # "boot" /\ step # "emit" =>
       \A z \in Zones \ jump : last[z] = occupied[z]
  /\ step = "emit" =>
       /\ reading.count = occupied[reading.zone]
       /\ \A z \in Zones \ jump :
            IF z = reading.zone THEN last[z] \in {reading.count - 1, reading.count + 1}
            ELSE last[z] = occupied[z]

LEMMA ContinuousStep ==
  ASSUME TInv, Continuous, Next
  PROVE  Continuous'
  <1> USE DEF TInv
  <1>1. CASE Boot
    <2>1. step' = "begin" /\ last' = last
      BY <1>1 DEF Boot, Fit
    <2>2. CASE jump' = Zones
      BY <2>1, <2>2 DEF Continuous
    <2>3. CASE jump' = {z \in Zones : hash[z] # last[z]} /\ occupied' = hash
      BY <2>1, <2>3 DEF Continuous
    <2> QED BY <1>1, <2>2, <2>3 DEF Boot, Restore, RestoredOccupancy
  <1>2. CASE ResetSimulator
    BY <1>2 DEF ResetSimulator, Continuous
  <1>3. CASE EmitMovement
    <2> DEFINE z == Head(queue).zone  move == Head(queue).move
    <2>1. z \in Zones /\ move \in Kinds /\ queue # <<>>
      BY <1>3, RunningMovement DEF EmitMovement, Running
    <2>2. pc # "boot" /\ pc' = pc /\ step = "begin" /\ last' = last /\ jump' = jump
      BY <1>3, <2>1 DEF EmitMovement, loopVars, Fit
    <2>3. CASE Fits(z, move) /\ Apply(z, move)
      <3>1. /\ reading'.zone = z /\ reading'.count = occupied'[z] /\ step' = "emit"
            /\ occupied'[z] \in {occupied[z] - 1, occupied[z] + 1}
            /\ \A y \in Zones \ {z} : occupied'[y] = occupied[y]
            /\ occupied[z] \in Nat
        BY <2>1, <2>3, ApplyKeepsBounds DEF TypeOK
      <3> QED BY <2>2, <3>1 DEF Continuous
    <2>4. CASE Done /\ UNCHANGED occupied
      BY <2>2, <2>4 DEF Continuous, Done
    <2> QED BY <1>3, <2>3, <2>4 DEF EmitMovement
  <1>4. CASE ForceMovement
    <2>1. command.zone \in Zones /\ command.kind \in Kinds /\ queue # <<>>
      BY <1>4, RunningCommand, CommandFields DEF ForceMovement, Fit, Running
    <2>2. pc # "boot" /\ pc' = pc /\ step = "force" /\ last' = last /\ jump' = jump
      BY <1>4, <2>1 DEF ForceMovement, loopVars, Fit
    <2>3. CASE Fits(command.zone, command.kind) /\ Apply(command.zone, command.kind)
      <3> DEFINE z == command.zone
      <3>1. /\ reading'.zone = z /\ reading'.count = occupied'[z] /\ step' = "emit"
            /\ occupied'[z] \in {occupied[z] - 1, occupied[z] + 1}
            /\ \A y \in Zones \ {z} : occupied'[y] = occupied[y]
            /\ occupied[z] \in Nat
        BY <2>1, <2>3, ApplyKeepsBounds DEF TypeOK
      <3> QED BY <2>2, <3>1 DEF Continuous
    <2>4. CASE step' \in {"save", "force"} /\ UNCHANGED occupied
      BY <2>2, <2>4 DEF Continuous
    <2> QED BY <1>4, <2>2, <2>3, <2>4 DEF ForceMovement
  <1>5. CASE PublishReading
    <2>1. /\ step = "emit" /\ step' # "emit" /\ pc' = pc /\ occupied' = occupied
          /\ last' = [last EXCEPT ![reading.zone] = reading.count]
          /\ jump' = jump \ {reading.zone}
      BY <1>5 DEF PublishReading, Done, simVars, loopVars
    <2>2. \A z \in Zones \ jump' : last'[z] = occupied[z]
      BY <2>1 DEF Continuous, TypeOK
    <2> QED BY <2>1, <2>2 DEF Continuous
  <1>6. CASE TaskFails
    <2>1. step' = "begin" /\ last' = last /\ occupied' = occupied /\ pc' = pc /\ pc # "boot"
      BY <1>6 DEF TaskFails, Done, Fit, Running, simVars, loopVars
    <2>2. CASE step = "emit"
      BY <1>6, <2>1, <2>2 DEF TaskFails, Continuous
    <2>3. CASE step # "emit"
      BY <1>6, <2>1, <2>3 DEF TaskFails, Continuous
    <2> QED BY <2>2, <2>3
  <1>7. CASE Crash
    BY <1>7 DEF Crash, Continuous
  <1>8. CASE /\ UNCHANGED <<occupied, reading, last, jump>>
             /\ pc' # "boot" => pc # "boot"
             /\ step' = "emit" <=> step = "emit"
    BY <1>8 DEF Continuous
  <1>9. CASE Tick
    BY <1>9, <1>8 DEF Tick, taskVars
  <1>10. CASE EnqueueTransition \/ CheckStatus \/ EnqueueMovement \/ EndTick
    BY <1>10, <1>8
    DEF EnqueueTransition, CheckStatus, EnqueueMovement, EndTick, simVars, historyVars, taskVars
  <1>11. CASE SendCommand \/ QueueCommand \/ ProcessorApplies
    BY <1>11, <1>8
    DEF SendCommand, QueueCommand, ProcessorApplies, simVars, loopVars, taskVars, historyVars
  <1>12. CASE SetScenario \/ SetPace \/ SetStatus \/ StartForcing
    BY <1>12, <1>8
    DEF SetScenario, SetPace, SetStatus, StartForcing, simVars, loopVars, historyVars
  <1>13. CASE AnnounceCommand \/ AnnounceTransition \/ AnnounceStart
    BY <1>13, <1>8
    DEF AnnounceCommand, AnnounceTransition, AnnounceStart, Done, Fit, Running, simVars, loopVars,
        historyVars
  <1>14. CASE TakeSnapshot \/ WriteState \/ SkipSave
    BY <1>14, <1>8
    DEF TakeSnapshot, WriteState, SkipSave, SaveIsDue, Done, Fit, Running, simVars, loopVars, historyVars
  <1> QED
    BY <1>1, <1>2, <1>3, <1>4, <1>5, <1>6, <1>7, <1>9, <1>10, <1>11, <1>12, <1>13, <1>14
    DEF Next, Loop, Task

LEMMA ContinuousAlways == Spec => [](TInv /\ Continuous)
  <1>1. Init => Continuous
    BY DEF Init, Continuous
  <1>2. TInv /\ Continuous /\ [Next]_vars => Continuous'
    <2>1. ASSUME Continuous, UNCHANGED vars PROVE Continuous'
      BY <2>1 DEF Continuous, vars
    <2> QED BY <2>1, ContinuousStep
  <1> QED BY <1>1, <1>2, TInvAlways, PTL DEF Spec

(* Every reading that is published differs by one from the last one of its *)
(* zone, except after a RESET, a refused event or a restart with the       *)
(* Processor behind.                                                       *)
THEOREM ReadingsContinuousAlways == Spec => ReadingsContinuous
  <1>1. TInv /\ Continuous /\ PublishReading =>
          \A z \in Zones : z = reading.zone /\ z \notin jump =>
            last'[z] \in {last[z] - 1, last[z] + 1}
    <2> SUFFICES ASSUME TInv, Continuous, PublishReading, NEW z \in Zones,
                        z = reading.zone, z \notin jump
                 PROVE  last'[z] \in {last[z] - 1, last[z] + 1}
      OBVIOUS
    <2>1. reading.count \in Nat /\ last'[z] = reading.count
      BY PublisherAssumption DEF TInv, TypeOK, Fit, PublishReading
    <2>2. last[z] \in {reading.count - 1, reading.count + 1}
      BY DEF Continuous, PublishReading
    <2> QED BY <2>1, <2>2
  <1> QED BY <1>1, ContinuousAlways, PTL DEF ReadingsContinuous

------------------------------------------------------------------------------
(* Kinds of tasks in the queue.                                            *)

HasKind(q, kind) == \E i \in 1..Len(q) : q[i].kind = kind

OneMovement(q) ==
  \A i, j \in 1..Len(q) : q[i].kind = "movement" /\ q[j].kind = "movement" => i = j

LEMMA AppendKinds ==
  ASSUME NEW q \in Seq(Pending), NEW t \in Pending
  PROVE  /\ \A k : HasKind(Append(q, t), k) <=> HasKind(q, k) \/ t.kind = k
         /\ OneMovement(q) /\ (t.kind = "movement" => ~HasKind(q, "movement"))
              => OneMovement(Append(q, t))
  <1> DEFINE new == Append(q, t)
  <1>1. /\ Len(q) \in Nat /\ Len(new) = Len(q) + 1 /\ new[Len(q) + 1] = t
        /\ \A i \in 1..Len(q) : new[i] = q[i]
    OBVIOUS
  <1>2. /\ 1..Len(q) \subseteq 1..Len(new) /\ Len(q) + 1 \in 1..Len(new)
        /\ \A i \in 1..Len(new) : i \in 1..Len(q) \/ i = Len(q) + 1
    BY <1>1
  <1> HIDE DEF new
  <1>3. ASSUME NEW k PROVE HasKind(new, k) <=> HasKind(q, k) \/ t.kind = k
    BY <1>1, <1>2 DEF HasKind
  <1>4. ASSUME OneMovement(q), t.kind = "movement" => ~HasKind(q, "movement")
        PROVE  OneMovement(new)
    BY <1>1, <1>2, <1>4 DEF OneMovement, HasKind
  <1> QED BY <1>3, <1>4 DEF new

LEMMA TailKinds ==
  ASSUME NEW q \in Seq(Pending), q # <<>>
  PROVE  /\ \A k : HasKind(Tail(q), k) => HasKind(q, k)
         /\ OneMovement(q) => OneMovement(Tail(q))
         /\ OneMovement(q) /\ Head(q).kind = "movement" => ~HasKind(Tail(q), "movement")
  <1> DEFINE rest == Tail(q)
  <1>1. /\ Len(q) \in Nat \ {0} /\ Len(rest) = Len(q) - 1 /\ Head(q) = q[1]
        /\ \A i \in 1..Len(rest) : rest[i] = q[i + 1]
    OBVIOUS
  <1>2. 1 \in 1..Len(q) /\ \A i \in 1..Len(rest) : i + 1 \in 1..Len(q) /\ i + 1 # 1
    BY <1>1
  <1> HIDE DEF rest
  <1>3. ASSUME NEW k PROVE HasKind(rest, k) => HasKind(q, k)
    BY <1>1, <1>2 DEF HasKind
  <1>4. OneMovement(q) => OneMovement(rest)
    <2> SUFFICES ASSUME OneMovement(q), NEW i \in 1..Len(rest), NEW j \in 1..Len(rest),
                        rest[i].kind = "movement", rest[j].kind = "movement"
                 PROVE  i = j
      BY DEF OneMovement
    <2>1. i + 1 = j + 1
      BY <1>1, <1>2 DEF OneMovement
    <2> QED BY <2>1, <1>1
  <1>5. OneMovement(q) /\ Head(q).kind = "movement" => ~HasKind(rest, "movement")
    BY <1>1, <1>2 DEF OneMovement, HasKind
  <1> QED BY <1>3, <1>4, <1>5 DEF rest

------------------------------------------------------------------------------
(* A pause. The loop has at most one movement between its look at the      *)
(* status and the end of the task, and nothing was let through before it.  *)

Pause ==
  /\ status = "RUNNING" \/ pc = "sleep" \/ HasKind(queue, "movement") => strays = 0
  /\ OneMovement(queue)
  /\ pc = "sleep" => ~HasKind(queue, "movement")
  /\ strays <= 1

LEMMA PauseStep ==
  ASSUME TInv, Pause, Next
  PROVE  Pause'
  <1> USE DEF TInv
  <1>0. queue \in Seq(Pending) /\ strays \in Nat
    BY DEF TypeOK
  <1>1. CASE Boot
    <2>1. queue' = <<[kind |-> "start"]>> /\ strays' = 0 /\ pc' = "poll"
      BY <1>1 DEF Boot, Fit
    <2>2. ~HasKind(queue', "movement") /\ OneMovement(queue')
      BY <2>1 DEF HasKind, OneMovement
    <2> QED BY <2>1, <2>2 DEF Pause
  <1>2. CASE CheckStatus
    BY <1>2 DEF CheckStatus, Pause, LoopWaits, Queued, HasKind, GoesOn, simVars, taskVars,
                historyVars
  <1>3. CASE EnqueueMovement
    <2>1. PICK z \in Zones : /\ movements[z] # <<>>
                             /\ queue' = Append(queue, [kind |-> "movement", zone |-> z,
                                                        move |-> Head(movements[z])])
      BY <1>3 DEF EnqueueMovement
    <2>2. [kind |-> "movement", zone |-> z, move |-> Head(movements[z])] \in Pending
      BY <2>1, PendingTasks DEF TypeOK
    <2>3. OneMovement(queue')
      BY <1>0, <1>3, <2>1, <2>2, AppendKinds DEF EnqueueMovement, Pause
    <2> QED BY <1>3, <2>3 DEF EnqueueMovement, Pause, simVars, historyVars
  (* Tasks of other kinds come in.                                         *)
  <1>4. ASSUME NEW t \in Pending, t.kind # "movement", queue' = Append(queue, t),
               UNCHANGED <<status, strays>>, pc' = "sleep" => pc = "sleep"
        PROVE  Pause'
    <2>1. /\ HasKind(queue', "movement") <=> HasKind(queue, "movement")
          /\ OneMovement(queue')
      BY <1>0, <1>4, AppendKinds DEF Pause
    <2> QED BY <1>4, <2>1 DEF Pause
  <1>5. CASE EnqueueTransition
    <2>1. \A t \in transitions :
            [kind |-> "transition", zone |-> t.zone, to |-> t.to] \in Pending
      BY PendingTasks DEF TypeOK
    <2> QED BY <1>5, <2>1, <1>4 DEF EnqueueTransition, simVars, historyVars
  <1>6. CASE EndTick
    BY <1>6, PendingTasks, <1>4 DEF EndTick, simVars, historyVars
  <1>7. CASE QueueCommand
    <2>1. Head(inbox) \in Commands
      BY <1>7 DEF QueueCommand, TypeOK
    <2> QED BY <1>7, <2>1, PendingTasks, <1>4 DEF QueueCommand, simVars, loopVars, historyVars
  (* A task ends that publishes nothing while the simulation is paused.    *)
  <1>8. ASSUME queue # <<>>, Done, UNCHANGED <<status, pc, strays>>
        PROVE  Pause'
    <2>1. /\ HasKind(queue', "movement") => HasKind(queue, "movement")
          /\ OneMovement(queue')
      BY <1>0, <1>8, TailKinds DEF Pause, Done
    <2> QED BY <1>8, <2>1 DEF Pause
  <1>9. ASSUME UNCHANGED <<queue, strays>>, status' = "RUNNING" => status = "RUNNING",
               pc' = "sleep" => pc = "sleep"
        PROVE  Pause'
    BY <1>9 DEF Pause
  <1>10. CASE SetStatus
    <2>1. UNCHANGED <<queue, pc>> /\ status \in {"RUNNING", "PAUSED"}
      BY <1>10, SimTypes DEF SetStatus, loopVars
    <2>2. (status' = status /\ strays' = strays) \/ strays' = 0
      BY <1>10 DEF SetStatus
    <2> QED BY <2>1, <2>2 DEF Pause
  <1>11. CASE EmitMovement
    <2>1. queue # <<>> /\ UNCHANGED <<status, pc, strays>>
      BY <1>11 DEF EmitMovement, Running, loopVars
    <2> QED BY <1>11, <2>1, <1>8, <1>9 DEF EmitMovement
  <1>12. CASE PublishReading
    <2>1. UNCHANGED <<status, pc>>
      BY <1>12 DEF PublishReading, simVars, loopVars
    <2>2. CASE Running("movement") /\ Done
      <3>1. HasKind(queue, "movement") /\ strays = 0 /\ pc # "sleep"
        <4>1. queue # <<>> /\ Head(queue).kind = "movement"
          BY <2>2 DEF Running
        <4>2. 1 \in 1..Len(queue) /\ queue[1].kind = "movement"
          BY <4>1, <1>0
        <4>3. HasKind(queue, "movement")
          BY <4>2 DEF HasKind
        <4> QED BY <4>3 DEF Pause
      <3>2. ~HasKind(queue', "movement") /\ OneMovement(queue')
        BY <1>0, <2>2, TailKinds DEF Pause, Done, Running
      <3>3. strays' = (IF status = "PAUSED" THEN strays + 1 ELSE strays)
        BY <1>12, <2>2 DEF PublishReading, Running
      <3> QED BY <2>1, <3>1, <3>2, <3>3 DEF Pause
    <2>3. CASE UNCHANGED <<queue, strays>>
      BY <2>1, <2>3, <1>9
    <2> QED BY <1>12, <2>2, <2>3 DEF PublishReading
  <1>13. CASE AnnounceTransition \/ AnnounceStart \/ WriteState \/ SkipSave \/ TaskFails
    <2>1. queue # <<>> /\ Done /\ UNCHANGED <<status, pc, strays>>
      BY <1>13
      DEF AnnounceTransition, AnnounceStart, WriteState, SkipSave, SaveIsDue, TaskFails, Fit,
          Running, simVars, loopVars, historyVars
    <2> QED BY <2>1, <1>8
  <1>14. CASE Crash
    <2>1. queue' = <<>> /\ strays' = 0 /\ pc' = "boot"
      BY <1>14 DEF Crash
    <2>2. ~HasKind(queue', "movement") /\ OneMovement(queue')
      BY <2>1 DEF HasKind, OneMovement
    <2> QED BY <2>1, <2>2 DEF Pause
  <1>15. CASE Tick \/ SendCommand \/ ProcessorApplies
    BY <1>15, <1>9
    DEF Tick, SendCommand, ProcessorApplies, simVars, loopVars, taskVars, historyVars
  <1>16. CASE SetScenario \/ SetPace \/ ResetSimulator \/ StartForcing
    BY <1>16, <1>9
    DEF SetScenario, SetPace, ResetSimulator, StartForcing, simVars, loopVars, historyVars
  <1>17. CASE ForceMovement \/ AnnounceCommand \/ TakeSnapshot
    BY <1>17, <1>9
    DEF ForceMovement, AnnounceCommand, TakeSnapshot, simVars, loopVars, historyVars
  <1> QED
    BY <1>1, <1>2, <1>3, <1>5, <1>6, <1>7, <1>10, <1>11, <1>12, <1>13, <1>14, <1>15,
       <1>16, <1>17
    DEF Next, Loop, Task

LEMMA PauseAlways == Spec => []Pause
  <1>1. Init => Pause
    BY DEF Init, Pause, HasKind, OneMovement
  <1>2. TInv /\ Pause /\ [Next]_vars => Pause'
    <2>1. ASSUME Pause, UNCHANGED vars PROVE Pause'
      BY <2>1 DEF Pause, vars
    <2> QED BY <2>1, PauseStep
  <1> QED BY <1>1, <1>2, TInvAlways, PTL DEF Spec

(* However slow the tasks are and whatever fails, at most one planned      *)
(* movement is published after a PAUSE.                                    *)
THEOREM AtMostOneStrayAlways == Spec => []AtMostOneStray
  <1>1. Pause => AtMostOneStray
    BY DEF Pause, AtMostOneStray
  <1> QED BY <1>1, PauseAlways, PTL

------------------------------------------------------------------------------
(* What is left of a plan. Movement after movement, a walk that starts at  *)
(* what the zone holds stays between empty and full.                       *)

Moved(occ, move) == IF move = "ENTRY" THEN occ + 1 ELSE occ - 1

Walk(q, occ, cap) ==
  \E f \in [0..Len(q) -> 0..cap] :
    f[0] = occ /\ \A i \in 1..Len(q) : f[i] = Moved(f[i - 1], q[i])

LEMMA WalkEmpty ==
  ASSUME NEW cap \in Nat, NEW occ \in 0..cap
  PROVE  Walk(<<>>, occ, cap)
  <1> DEFINE f == [i \in 0..0 |-> occ]
  <1>1. f \in [0..0 -> 0..cap] /\ f[0] = occ /\ 1..0 = {} /\ Len(<<>>) = 0
    OBVIOUS
  <1> QED BY <1>1 DEF Walk

(* The head of a plan can be carried out, and the rest goes on from there. *)
LEMMA WalkStep ==
  ASSUME NEW q \in Seq(Kinds), q # <<>>, NEW occ, NEW cap \in Nat, Walk(q, occ, cap)
  PROVE  Moved(occ, Head(q)) \in 0..cap /\ Walk(Tail(q), Moved(occ, Head(q)), cap)
  <1> DEFINE rest == Tail(q)  n == Len(q)
  <1>1. /\ n \in Nat \ {0} /\ Len(rest) = n - 1 /\ Head(q) = q[1]
        /\ \A i \in 1..(n - 1) : rest[i] = q[i + 1]
    OBVIOUS
  <1>2. PICK f \in [0..n -> 0..cap] :
          f[0] = occ /\ \A i \in 1..n : f[i] = Moved(f[i - 1], q[i])
    BY DEF Walk
  <1> HIDE DEF rest, n
  <1>3. f[1] \in 0..cap /\ f[1] = Moved(occ, q[1])
    <2>1. 1 \in 1..n /\ 1 \in 0..n /\ 1 - 1 = 0
      BY <1>1
    <2> QED BY <1>2, <2>1
  <1> DEFINE g == [i \in 0..(n - 1) |-> f[i + 1]]
  <1>4. g \in [0..(n - 1) -> 0..cap]
    <2>1. \A i \in 0..(n - 1) : f[i + 1] \in 0..cap
      BY <1>1, <1>2
    <2> QED BY <2>1
  <1>5. g[0] = f[1]
    BY <1>1
  <1>6. ASSUME NEW i \in 1..(n - 1) PROVE g[i] = Moved(g[i - 1], rest[i])
    <2>1. i + 1 \in 1..n /\ i \in 0..(n - 1) /\ i - 1 \in 0..(n - 1)
          /\ (i + 1) - 1 = i /\ (i - 1) + 1 = i
      BY <1>1
    <2>2. g[i] = f[i + 1] /\ g[i - 1] = f[i]
      BY <2>1
    <2>3. f[i + 1] = Moved(f[i], q[i + 1])
      BY <1>2, <2>1
    <2>4. rest[i] = q[i + 1]
      BY <1>1
    <2> QED BY <2>2, <2>3, <2>4
  <1> HIDE DEF g
  <1>7. Walk(rest, f[1], cap)
    BY <1>1, <1>4, <1>5, <1>6 DEF Walk
  <1> QED BY <1>1, <1>3, <1>7 DEF rest

LEMMA RepeatWalks ==
  ASSUME NEW cap \in Nat, NEW occ \in 0..cap, NEW n \in Nat
  PROVE  /\ n <= cap - occ => Walk(Repeat("ENTRY", n), occ, cap)
         /\ n <= occ => Walk(Repeat("EXIT", n), occ, cap)
  <1>1. ASSUME NEW kind PROVE Len(Repeat(kind, n)) = n /\ \A i \in 1..n : Repeat(kind, n)[i] = kind
    BY DEF Repeat
  <1>2. ASSUME n <= cap - occ PROVE Walk(Repeat("ENTRY", n), occ, cap)
    <2> DEFINE q == Repeat("ENTRY", n)  f == [i \in 0..n |-> occ + i]
    <2>1. f \in [0..n -> 0..cap] /\ f[0] = occ
      BY <1>2
    <2>2. \A i \in 1..n : f[i] = f[i - 1] + 1
      OBVIOUS
    <2>3. Len(q) = n /\ \A i \in 1..n : q[i] = "ENTRY"
      BY <1>1
    <2> HIDE DEF q, f
    <2>4. \A i \in 1..n : f[i] = Moved(f[i - 1], q[i])
      BY <2>2, <2>3 DEF Moved
    <2>5. Walk(q, occ, cap)
      BY <2>1, <2>3, <2>4 DEF Walk
    <2> QED BY <2>5 DEF q
  <1>3. ASSUME n <= occ PROVE Walk(Repeat("EXIT", n), occ, cap)
    <2> DEFINE q == Repeat("EXIT", n)  f == [i \in 0..n |-> occ - i]
    <2>1. f \in [0..n -> 0..cap] /\ f[0] = occ
      BY <1>3
    <2>2. \A i \in 1..n : f[i] = f[i - 1] - 1
      OBVIOUS
    <2>3. Len(q) = n /\ \A i \in 1..n : q[i] = "EXIT"
      BY <1>1
    <2> HIDE DEF q, f
    <2>4. \A i \in 1..n : f[i] = Moved(f[i - 1], q[i])
      BY <2>2, <2>3 DEF Moved
    <2>5. Walk(q, occ, cap)
      BY <2>1, <2>3, <2>4 DEF Walk
    <2> QED BY <2>5 DEF q
  <1> QED BY <1>2, <1>3

(* RECOVERY: exits, and perhaps one more car.                              *)
LEMMA ExitsThenEntryWalk ==
  ASSUME NEW cap \in Nat, NEW occ \in 0..cap, NEW n \in Nat \ {0}, n <= occ
  PROVE  Walk(Repeat("EXIT", n) \o <<"ENTRY">>, occ, cap)
  <1> DEFINE q == Repeat("EXIT", n) \o <<"ENTRY">>
             f == [i \in 0..(n + 1) |-> IF i <= n THEN occ - i ELSE occ - n + 1]
  <1>1. Len(q) = n + 1 /\ q[n + 1] = "ENTRY" /\ \A i \in 1..n : q[i] = "EXIT"
    <2>1. /\ Repeat("EXIT", n) \in Seq(Kinds) /\ Len(Repeat("EXIT", n)) = n
          /\ \A i \in 1..n : Repeat("EXIT", n)[i] = "EXIT"
      BY DEF Repeat, Kinds
    <2> DEFINE r == Repeat("EXIT", n)
    <2> HIDE DEF r
    <2>2. r \in Seq(Kinds) /\ Len(r) = n /\ \A i \in 1..n : r[i] = "EXIT"
      BY <2>1 DEF r
    <2>3. Len(r \o <<"ENTRY">>) = n + 1 /\ (r \o <<"ENTRY">>)[n + 1] = "ENTRY"
          /\ \A i \in 1..n : (r \o <<"ENTRY">>)[i] = r[i]
      BY <2>2 DEF Kinds
    <2> QED BY <2>2, <2>3 DEF r
  <1>2. f \in [0..(n + 1) -> 0..cap] /\ f[0] = occ
    OBVIOUS
  <1>3. f[n + 1] = f[n] + 1 /\ \A i \in 1..n : f[i] = f[i - 1] - 1
    OBVIOUS
  <1> HIDE DEF q, f
  <1>4. ASSUME NEW i \in 1..(n + 1) PROVE f[i] = Moved(f[i - 1], q[i])
    <2>1. CASE i = n + 1
      BY <1>1, <1>3, <2>1 DEF Moved
    <2>2. CASE i \in 1..n
      BY <1>1, <1>3, <2>2 DEF Moved
    <2> QED BY <2>1, <2>2
  <1>5. Walk(q, occ, cap)
    BY <1>1, <1>2, <1>4 DEF Walk
  <1> QED BY <1>5 DEF q

(* What After counts, movement by movement.                                *)
LEMMA AfterStep ==
  ASSUME NEW occ \in Nat, NEW plan \in Seq(Kinds), NEW n \in 1..Len(plan)
  PROVE  After(occ, plan, n) = Moved(After(occ, plan, n - 1), plan[n]) /\ After(occ, plan, n) \in Int
  <1> DEFINE Of(k, m) == {i \in 1..m : plan[i] = k}
  <1>1. n \in Nat \ {0} /\ Len(plan) \in Nat /\ plan[n] \in Kinds
    OBVIOUS
  <1>2. ASSUME NEW k PROVE IsFiniteSet(Of(k, n - 1)) /\ n \notin Of(k, n - 1)
    <2>1. IsFiniteSet(1..(n - 1))
      BY <1>1, FS_Interval
    <2>2. Of(k, n - 1) \subseteq 1..(n - 1)
      OBVIOUS
    <2>3. IsFiniteSet(Of(k, n - 1))
      BY <2>1, <2>2, FS_Subset
    <2> QED BY <1>1, <2>3
  <1>3. ASSUME NEW k PROVE Of(k, n) = IF plan[n] = k THEN Of(k, n - 1) \cup {n} ELSE Of(k, n - 1)
    <2>1. 1..n = (1..(n - 1)) \cup {n}
      BY <1>1
    <2> QED BY <2>1
  <1> HIDE DEF Of
  <1>4. ASSUME NEW k
        PROVE  /\ Cardinality(Of(k, n - 1)) \in Nat
               /\ Cardinality(Of(k, n)) =
                    IF plan[n] = k THEN Cardinality(Of(k, n - 1)) + 1 ELSE Cardinality(Of(k, n - 1))
    BY <1>2, <1>3, FS_CardinalityType, FS_AddElement
  <1>5. /\ After(occ, plan, n) = occ + Cardinality(Of("ENTRY", n)) - Cardinality(Of("EXIT", n))
        /\ After(occ, plan, n - 1)
             = occ + Cardinality(Of("ENTRY", n - 1)) - Cardinality(Of("EXIT", n - 1))
    BY DEF After, Of
  <1>6. "ENTRY" # "EXIT"
    OBVIOUS
  <1> DEFINE a == Cardinality(Of("ENTRY", n - 1))  b == Cardinality(Of("EXIT", n - 1))
  <1>7. a \in Nat /\ b \in Nat
    BY <1>4
  <1>8. After(occ, plan, n - 1) = occ + a - b
    BY <1>5
  <1>9. CASE plan[n] = "ENTRY"
    <2>1. Cardinality(Of("ENTRY", n)) = a + 1 /\ Cardinality(Of("EXIT", n)) = b
      BY <1>4, <1>9
    <2>2. After(occ, plan, n) = occ + (a + 1) - b
      BY <1>5, <2>1
    <2> HIDE DEF a, b
    <2> QED BY <1>7, <1>8, <1>9, <2>2 DEF Moved
  <1>10. CASE plan[n] = "EXIT"
    <2>1. Cardinality(Of("ENTRY", n)) = a /\ Cardinality(Of("EXIT", n)) = b + 1
      BY <1>4, <1>10
    <2>2. After(occ, plan, n) = occ + a - (b + 1)
      BY <1>5, <2>1
    <2> HIDE DEF a, b
    <2> QED BY <1>7, <1>8, <1>10, <2>2 DEF Moved
  <1> QED BY <1>1, <1>9, <1>10 DEF Kinds

(* A random walk of the generator.                                         *)
LEMMA WalksWalk ==
  ASSUME NEW cap \in Nat, NEW occ \in 0..cap, NEW low \in Nat, NEW high \in Int, high <= cap,
         NEW plan \in Walks(occ, low, high)
  PROVE  Walk(plan, occ, cap)
  <1> DEFINE n == Len(plan)  f == [i \in 0..n |-> After(occ, plan, i)]
  <1>1. plan \in Seq(Kinds) /\ \A i \in 1..n : After(occ, plan, i) \in low..high
    BY WalksType DEF Walks
  <1>2. n \in Nat
    BY <1>1
  <1>3. After(occ, plan, 0) = occ
    <2>1. 1..0 = {}
      OBVIOUS
    <2>2. \A k : {i \in 1..0 : plan[i] = k} = {}
      BY <2>1
    <2>3. Cardinality({}) = 0
      BY FS_EmptySet
    <2> QED BY <2>2, <2>3 DEF After
  <1>4. \A i \in 0..n : After(occ, plan, i) \in 0..cap
    <2>1. \A i \in 0..n : i = 0 \/ i \in 1..n
      BY <1>2
    <2> QED BY <1>1, <1>3, <2>1
  <1>5. \A i \in 1..n : After(occ, plan, i) = Moved(After(occ, plan, i - 1), plan[i])
    BY <1>1, AfterStep
  <1>6. f \in [0..n -> 0..cap] /\ f[0] = occ
    BY <1>2, <1>3, <1>4
  <1>7. ASSUME NEW i \in 1..n PROVE f[i] = Moved(f[i - 1], plan[i])
    <2>1. i \in 0..n /\ i - 1 \in 0..n
      BY <1>2
    <2> QED BY <1>5, <2>1
  <1> HIDE DEF f
  <1> QED BY <1>6, <1>7 DEF Walk

(* Whatever the scenario, the plan of a zone can be carried out: no        *)
(* movement of it finds the zone full, or empty.                           *)
THEOREM PlansWalk ==
  ASSUME NEW override \in Overrides \cup {NoOverride}, NEW g \in GLOBAL_SCENARIOS,
         NEW cap \in Nat \ {0}, NEW occ \in 0..cap,
         NEW plan \in Plans(override, g, occ, cap)
  PROVE  Walk(plan, occ, cap)
  <1> DEFINE scenario == ScenarioUnder(override, g)
  <1>1. CASE scenario \in Bursts
    <2> DEFINE fraction == IF scenario = "MASS_ENTRY" THEN "massEntry" ELSE "massExit"
               x == Config.fraction[fraction] * cap
               d == 100 * Config.ticks[scenario]
               perTick == Greatest(1, Ceil(x, d))
    <2>1. x \in Nat /\ d \in Nat \ {0}
      <3>1. Config.fraction[fraction] \in Nat /\ Config.ticks[scenario] \in Nat \ {0}
        BY <1>1, ScenarioAssumption DEF Fractions
      <3> HIDE DEF fraction, scenario
      <3> QED BY <3>1
    <2>2. \/ plan = Repeat("ENTRY", Least(perTick, cap - occ))
          \/ plan = Repeat("EXIT", Least(perTick, occ))
      BY <1>1 DEF Plans, BurstPlans
    <2>3. perTick \in Nat
      <3> HIDE DEF x, d
      <3>1. x + d - 1 \in Nat
        BY <2>1
      <3>2. (x + d - 1) \div d \in Nat
        BY <2>1, <3>1, DivisionBounds
      <3> QED BY <3>2 DEF Greatest, Ceil
    <2> HIDE DEF perTick
    <2>4. /\ Least(perTick, cap - occ) \in Nat /\ Least(perTick, cap - occ) <= cap - occ
          /\ Least(perTick, occ) \in Nat /\ Least(perTick, occ) <= occ
      BY <2>3 DEF Least
    <2> QED BY <2>2, <2>4, RepeatWalks
  <1>2. CASE plan \in NearFullPlans(occ, cap)
    <2>0. NearFullMax(cap) \in Nat /\ NearFullMax(cap) <= cap
      <3>1. Config.fraction["nearFullMax"] * cap \in Nat
        BY ScenarioAssumption DEF Fractions
      <3> DEFINE y == Config.fraction["nearFullMax"] * cap
      <3>2. y \div 100 \in Nat
        BY <3>1, DivisionBounds
      <3>3. NearFullMax(cap) = Least(cap - 1, y \div 100)
        BY DEF NearFullMax
      <3> HIDE DEF y
      <3> QED BY <3>2, <3>3 DEF Least
    <2>1. CASE occ < NearFullMin(cap)
      <3>1. PICK n \in Steps("nearFullStep", cap, 7, 13) :
              plan = Repeat("ENTRY", Least(n, NearFullMax(cap) - occ))
        BY <1>2, <2>1 DEF NearFullPlans
      <3>2. n \in Nat
        BY StepsType DEF Fractions
      <3>3. NearFullMax(cap) - occ \in Nat
        BY <2>1, NearFullHasRoom
      <3>4. Least(n, NearFullMax(cap) - occ) \in Nat
            /\ Least(n, NearFullMax(cap) - occ) <= cap - occ
        BY <2>0, <3>2, <3>3 DEF Least
      <3> QED BY <3>1, <3>4, RepeatWalks
    <2>2. CASE ~(occ < NearFullMin(cap)) /\ occ > NearFullMax(cap)
      <3>1. plan = Repeat("EXIT", occ - NearFullMax(cap))
        BY <1>2, <2>2 DEF NearFullPlans
      <3>2. occ - NearFullMax(cap) \in Nat /\ occ - NearFullMax(cap) <= occ
        BY <2>0, <2>2
      <3> QED BY <3>1, <3>2, RepeatWalks
    <2>3. CASE ~(occ < NearFullMin(cap)) /\ ~(occ > NearFullMax(cap))
      <3>1. plan \in Walks(occ, NearFullMin(cap), NearFullMax(cap))
        BY <1>2, <2>3 DEF NearFullPlans
      <3>2. NearFullMin(cap) \in Nat
        <4>1. Config.fraction["nearFullMin"] * cap \in Nat
          BY ScenarioAssumption DEF Fractions
        <4> DEFINE y == Config.fraction["nearFullMin"] * cap
        <4>2. NearFullMin(cap) = (y + 100 - 1) \div 100
          BY DEF NearFullMin, Ceil
        <4>3. y \in Nat
          BY <4>1
        <4> HIDE DEF y
        <4>4. y + 100 - 1 \in Nat
          BY <4>3
        <4> QED BY <4>2, <4>4, DivisionBounds
      <3> QED BY <2>0, <3>1, <3>2, WalksWalk
    <2> QED BY <2>1, <2>2, <2>3
  <1>3. CASE plan \in FullPlans(occ, cap)
    <2>1. CASE occ < cap
      <3>1. PICK n \in Steps("fullStep", cap, 8, 12) : plan = Repeat("ENTRY", Least(n, cap - occ))
        BY <1>3, <2>1 DEF FullPlans
      <3>2. Least(n, cap - occ) \in Nat /\ Least(n, cap - occ) <= cap - occ
        <4>1. n \in Nat
          BY StepsType DEF Fractions
        <4> QED BY <4>1, <2>1 DEF Least
      <3> QED BY <3>1, <3>2, RepeatWalks
    <2>2. CASE ~(occ < cap)
      <3>1. plan = <<>> \/ plan = <<"EXIT", "ENTRY">>
        BY <1>3, <2>2 DEF FullPlans
      <3>2. CASE plan = <<>>
        BY <3>2, WalkEmpty
      <3>3. CASE plan = <<"EXIT", "ENTRY">>
        <4> DEFINE f == [i \in 0..2 |-> IF i = 1 THEN occ - 1 ELSE occ]
        <4>1. f \in [0..2 -> 0..cap] /\ f[0] = occ /\ f[1] = f[0] - 1 /\ f[2] = f[1] + 1
          BY <2>2
        <4> HIDE DEF f
        <4>2. Len(plan) = 2 /\ plan[1] = "EXIT" /\ plan[2] = "ENTRY" /\ \A i \in 1..2 : i = 1 \/ i = 2
          BY <3>3
        <4>3. f[1] = Moved(f[1 - 1], plan[1]) /\ f[2] = Moved(f[2 - 1], plan[2])
          BY <4>1, <4>2 DEF Moved
        <4>4. \A i \in 1..2 : f[i] = Moved(f[i - 1], plan[i])
          BY <4>2, <4>3
        <4> QED BY <4>1, <4>2, <4>4 DEF Walk
      <3> QED BY <3>1, <3>2, <3>3
    <2> QED BY <2>1, <2>2
  <1>4. CASE plan \in RecoveryPlans(occ, cap) /\ ~Recovered(override, occ, cap)
             /\ scenario = "RECOVERY"
    <2>1. PICK n \in Steps("recoveryStep", cap, 8, 12), entry \in {<<>>, <<"ENTRY">>} :
            plan = Repeat("EXIT", Least(n, occ - RecoveryTarget(cap))) \o entry
      BY <1>4 DEF RecoveryPlans
    <2>2. RecoveryTarget(cap) \in Nat
      <3>1. Config.fraction["recoveryTarget"] * cap \in Nat
        BY ScenarioAssumption DEF Fractions
      <3> QED BY <3>1, DivisionBounds DEF RecoveryTarget
    <2>3. occ > RecoveryTarget(cap)
      BY <1>4, <2>2 DEF Recovered, ScenarioUnder, NoOverride, GLOBAL_SCENARIOS
    <2> DEFINE exits == Least(n, occ - RecoveryTarget(cap))
    <2>4. exits \in Nat \ {0} /\ exits <= occ
      <3>1. n \in Nat /\ n >= 1
        BY StepsType DEF Fractions
      <3> QED BY <3>1, <2>2, <2>3 DEF Least
    <2> HIDE DEF exits
    <2>5. plan = Repeat("EXIT", exits) \o entry
      BY <2>1 DEF exits
    <2>6. CASE entry = <<"ENTRY">>
      BY <2>4, <2>5, <2>6, ExitsThenEntryWalk
    <2>7. CASE entry = <<>>
      <3>1. Repeat("EXIT", exits) \o <<>> = Repeat("EXIT", exits)
        BY <2>4, RepeatType DEF Kinds
      <3> QED BY <2>4, <2>5, <2>7, <3>1, RepeatWalks
    <2> QED BY <2>6, <2>7
  <1>5. CASE plan \in BasePlans(occ, cap)
    BY <1>5, WalksWalk DEF BasePlans
  <1> QED BY <1>1, <1>2, <1>3, <1>4, <1>5 DEF Plans

(* A planned movement that is queued and not yet applied.                  *)
IsMove(q, s, z, m) ==
  \E i \in 1..Len(q) : /\ q[i] = [kind |-> "movement", zone |-> z, move |-> m]
                       /\ (i = 1 => s # "emit")

LEMMA MovementRecord ==
  ASSUME NEW t \in Pending, t.kind = "movement"
  PROVE  t = [kind |-> "movement", zone |-> t.zone, move |-> t.move]
  <1>1. t \in [kind : {"movement"}, zone : Zones, move : Kinds]
    BY DEF Pending
  <1> QED BY <1>1

LEMMA MoveAppend ==
  ASSUME NEW q \in Seq(Pending), NEW t \in Pending, t.kind # "movement", NEW s
  PROVE  \A z, m : IsMove(Append(q, t), s, z, m) <=> IsMove(q, s, z, m)
  <1> DEFINE new == Append(q, t)
  <1>1. /\ Len(q) \in Nat /\ Len(new) = Len(q) + 1 /\ new[Len(q) + 1] = t
        /\ \A i \in 1..Len(q) : new[i] = q[i]
    OBVIOUS
  <1>2. 1..Len(q) \subseteq 1..Len(new) /\ \A i \in 1..Len(new) : i \in 1..Len(q) \/ i = Len(q) + 1
    BY <1>1
  <1>3. \A z, m : t # [kind |-> "movement", zone |-> z, move |-> m]
    OBVIOUS
  <1> HIDE DEF new
  <1>4. ASSUME NEW z, NEW m PROVE IsMove(new, s, z, m) <=> IsMove(q, s, z, m)
    <2> DEFINE r == [kind |-> "movement", zone |-> z, move |-> m]
    <2>1. t # r
      BY <1>3
    <2> HIDE DEF r
    <2>2. (\E i \in 1..Len(new) : new[i] = r /\ (i = 1 => s # "emit"))
            <=> \E i \in 1..Len(q) : q[i] = r /\ (i = 1 => s # "emit")
      BY <1>1, <1>2, <2>1
    <2> QED BY <2>2 DEF r, IsMove
  <1> QED BY <1>4 DEF new

LEMMA MoveTail ==
  ASSUME NEW q \in Seq(Pending), q # <<>>, NEW s, Head(q).kind # "movement" \/ s = "emit"
  PROVE  \A z, m : IsMove(Tail(q), "begin", z, m) <=> IsMove(q, s, z, m)
  <1> DEFINE rest == Tail(q)
  <1>1. /\ Len(q) \in Nat \ {0} /\ Len(rest) = Len(q) - 1 /\ Head(q) = q[1]
        /\ \A i \in 1..Len(rest) : rest[i] = q[i + 1]
    OBVIOUS
  <1> HIDE DEF rest
  <1>2. \A i \in 1..Len(q) : i # 1 => i - 1 \in 1..Len(rest) /\ rest[i - 1] = q[i]
    <2> SUFFICES ASSUME NEW i \in 1..Len(q), i # 1
                 PROVE  i - 1 \in 1..Len(rest) /\ rest[i - 1] = q[i]
      OBVIOUS
    <2>1. i - 1 \in 1..Len(rest) /\ (i - 1) + 1 = i
      BY <1>1
    <2>2. rest[i - 1] = q[(i - 1) + 1]
      BY <1>1, <2>1
    <2> QED BY <2>1, <2>2
  <1>3. \A i \in 1..Len(rest) : i + 1 \in 1..Len(q) /\ i + 1 # 1
    BY <1>1
  <1>4. ASSUME NEW z, NEW m PROVE IsMove(rest, "begin", z, m) <=> IsMove(q, s, z, m)
    <2> DEFINE r == [kind |-> "movement", zone |-> z, move |-> m]
    <2>1. q[1] # r \/ s = "emit"
      BY <1>1
    <2> HIDE DEF r
    <2>2. (\E i \in 1..Len(rest) : rest[i] = r)
            => \E i \in 1..Len(q) : q[i] = r /\ (i = 1 => s # "emit")
      BY <1>1, <1>3
    <2>3. (\E i \in 1..Len(q) : q[i] = r /\ (i = 1 => s # "emit"))
            => \E i \in 1..Len(rest) : rest[i] = r
      BY <1>2, <2>1
    <2> QED BY <2>2, <2>3 DEF r, IsMove
  <1> QED BY <1>4 DEF rest

LEMMA MoveNew ==
  ASSUME NEW q \in Seq(Pending), NEW s, ~HasKind(q, "movement"), q # <<>> \/ s # "emit",
         NEW z \in Zones, NEW m \in Kinds, NEW y, NEW k
  PROVE  IsMove(Append(q, [kind |-> "movement", zone |-> z, move |-> m]), s, y, k)
           <=> (y = z /\ k = m)
  <1> DEFINE t == [kind |-> "movement", zone |-> z, move |-> m]  new == Append(q, t)
  <1>0. t \in Pending
    BY PendingTasks
  <1>1. /\ Len(q) \in Nat /\ Len(new) = Len(q) + 1 /\ new[Len(q) + 1] = t
        /\ \A i \in 1..Len(q) : new[i] = q[i]
        /\ Len(q) = 0 => q = <<>>
    BY <1>0
  <1>2. 1..Len(q) \subseteq 1..Len(new) /\ \A i \in 1..Len(new) : i \in 1..Len(q) \/ i = Len(q) + 1
    BY <1>1
  <1> DEFINE r == [kind |-> "movement", zone |-> y, move |-> k]
  <1>3. \A i \in 1..Len(q) : q[i] # r
    BY DEF HasKind
  <1>4. t = r <=> y = z /\ k = m
    OBVIOUS
  <1> HIDE DEF r, new, t
  <1>5. Len(q) + 1 \in 1..Len(new) /\ (Len(q) + 1 = 1 => s # "emit")
    BY <1>1
  <1>6. (\E i \in 1..Len(new) : new[i] = r /\ (i = 1 => s # "emit")) <=> t = r
    BY <1>1, <1>2, <1>3, <1>5
  <1> QED BY <1>3, <1>4, <1>6 DEF r, new, t, IsMove

LEMMA MoveHead ==
  ASSUME NEW q \in Seq(Pending), q # <<>>, OneMovement(q), Head(q).kind = "movement", NEW s
  PROVE  \A y, k : IsMove(q, s, y, k)
                     <=> s # "emit" /\ y = Head(q).zone /\ k = Head(q).move
  <1>1. Head(q) = q[1] /\ Len(q) \in Nat /\ 1 \in 1..Len(q) /\ q[1] \in Pending
    OBVIOUS
  <1>2. q[1] = [kind |-> "movement", zone |-> Head(q).zone, move |-> Head(q).move]
    BY <1>1, MovementRecord
  <1> DEFINE h == Head(q)
  <1>3. \A y, k : q[1] = [kind |-> "movement", zone |-> y, move |-> k] <=> y = h.zone /\ k = h.move
    BY <1>2
  <1>4. \A y, k : \A i \in 1..Len(q) :
          q[i] = [kind |-> "movement", zone |-> y, move |-> k] => i = 1
    <2> SUFFICES ASSUME NEW y, NEW k, NEW i \in 1..Len(q),
                        q[i] = [kind |-> "movement", zone |-> y, move |-> k]
                 PROVE  i = 1
      OBVIOUS
    <2>1. q[i].kind = "movement" /\ q[1].kind = "movement"
      BY <1>1
    <2> QED BY <1>1, <2>1 DEF OneMovement
  <1> HIDE DEF h
  <1>5. ASSUME NEW y, NEW k
        PROVE  IsMove(q, s, y, k) <=> s # "emit" /\ y = h.zone /\ k = h.move
    <2> DEFINE r == [kind |-> "movement", zone |-> y, move |-> k]
    <2>1. (q[1] = r <=> y = h.zone /\ k = h.move) /\ \A i \in 1..Len(q) : q[i] = r => i = 1
      BY <1>3, <1>4
    <2> HIDE DEF r
    <2>2. (\E i \in 1..Len(q) : q[i] = r /\ (i = 1 => s # "emit")) <=> q[1] = r /\ s # "emit"
      BY <1>1, <2>1
    <2> QED BY <2>1, <2>2 DEF r, IsMove
  <1> QED BY <1>5 DEF h

(* The step of a task that is no movement says nothing about movements.    *)
LEMMA MoveStep ==
  ASSUME NEW q \in Seq(Pending), NEW s, NEW u,
         (q # <<>> /\ Head(q).kind # "movement") \/ (s # "emit" /\ u # "emit")
  PROVE  \A z, m : IsMove(q, s, z, m) <=> IsMove(q, u, z, m)
  <1>1. Len(q) \in Nat /\ (q # <<>> => Head(q) = q[1])
    OBVIOUS
  <1>2. \A i \in 1..Len(q) : q # <<>>
    BY <1>1
  <1> SUFFICES ASSUME NEW z, NEW m PROVE IsMove(q, s, z, m) <=> IsMove(q, u, z, m)
    OBVIOUS
  <1> DEFINE r == [kind |-> "movement", zone |-> z, move |-> m]
  <1>3. (q # <<>> /\ q[1] # r) \/ (s # "emit" /\ u # "emit")
    BY <1>1
  <1> HIDE DEF r
  <1>4. (\E i \in 1..Len(q) : q[i] = r /\ (i = 1 => s # "emit"))
          <=> \E i \in 1..Len(q) : q[i] = r /\ (i = 1 => u # "emit")
    BY <1>1, <1>2, <1>3
  <1> QED BY <1>4 DEF r, IsMove

(* What is left of the plan of a zone is a walk from what the zone will    *)
(* hold once the movement in the queue is applied.                         *)
HasRoom(z) ==
  /\ \A m \in Kinds : IsMove(queue, step, z, m) =>
       /\ Moved(occupied[z], m) \in 0..Capacity[z]
       /\ Walk(movements[z], Moved(occupied[z], m), Capacity[z])
  /\ (\A m \in Kinds : ~IsMove(queue, step, z, m)) =>
       Walk(movements[z], occupied[z], Capacity[z])

Room ==
  /\ pc = "boot" => movements = NoMovements
  /\ \A z \in Zones \ disturbed : HasRoom(z)
  /\ misfit = FALSE

LEMMA OthersKeepRoom ==
  ASSUME Room, UNCHANGED <<occupied, movements, misfit>>, disturbed \subseteq disturbed',
         pc' = "boot" => pc = "boot",
         \A z, m : IsMove(queue', step', z, m) <=> IsMove(queue, step, z, m)
  PROVE  Room'
  BY Zenon DEF Room, HasRoom, NoMovements

(* With nothing left of any plan there is room.                            *)
LEMMA RoomWithoutPlan ==
  ASSUME TypeOK', movements' = NoMovements, misfit' = FALSE,
         \A z, m : ~IsMove(queue', step', z, m)
  PROVE  Room'
  <1>1. \A z \in Zones : Walk(<<>>, occupied'[z], Capacity[z])
    <2> SUFFICES ASSUME NEW z \in Zones PROVE Walk(<<>>, occupied'[z], Capacity[z])
      OBVIOUS
    <2>1. Capacity[z] \in Nat /\ occupied'[z] \in 0..Capacity[z]
      BY PublisherAssumption DEF TypeOK
    <2> QED BY <2>1, WalkEmpty
  <1>2. \A z \in Zones : movements'[z] = <<>>
    BY DEF NoMovements
  <1> QED BY <1>1, <1>2 DEF Room, HasRoom

LEMMA RoomStep ==
  ASSUME TInv, TypeOK', Pause, Room, Next
  PROVE  Room'
  <1> USE DEF TInv
  <1>0. /\ queue \in Seq(Pending)
        /\ queue = <<>> => step = "begin"
        /\ pc = "boot" => queue = <<>> /\ inbox = <<>> /\ step = "begin"
        /\ OneMovement(queue)
        /\ misfit = FALSE
        /\ \A z \in Zones : Capacity[z] \in Nat \ {0} /\ occupied[z] \in 0..Capacity[z]
                            /\ movements[z] \in Seq(Kinds)
    BY PublisherAssumption DEF TypeOK, Fit, Pause, Room
  <1>1. CASE Boot
    <2>1. movements' = NoMovements /\ misfit' = FALSE /\ queue' = <<[kind |-> "start"]>>
      BY <1>0, <1>1 DEF Boot, Room
    <2>2. \A z, m : ~IsMove(queue', step', z, m)
      BY <2>1 DEF IsMove
    <2> QED BY <2>1, <2>2, RoomWithoutPlan
  <1>2. CASE Tick
    <2>1. ~HasKind(queue, "movement") /\ UNCHANGED <<queue, step, occupied, misfit>> /\ pc' = "plan"
      BY <1>2 DEF Tick, LoopWaits, Queued, HasKind, taskVars
    <2>2. \A z, m : ~IsMove(queue', step', z, m)
      BY <2>1 DEF HasKind, IsMove
    <2>3. \A z \in Zones : Walk(movements'[z], occupied[z], Capacity[z])
      <3> SUFFICES ASSUME NEW z \in Zones PROVE Walk(movements'[z], occupied[z], Capacity[z])
        OBVIOUS
      <3>1. movements'[z] \in Plans(overrides[z], global, occupied[z], Capacity[z])
        BY <1>2 DEF Tick
      <3>2. overrides[z] \in Overrides \cup {NoOverride} /\ global \in GLOBAL_SCENARIOS
        BY SimTypes
      <3> QED BY <1>0, <3>1, <3>2, PlansWalk
    <2> QED BY <1>0, <2>1, <2>2, <2>3 DEF Room, HasRoom
  <1>3. CASE EnqueueMovement
    <2>1. PICK z \in Zones :
            /\ movements[z] # <<>>
            /\ queue' = Append(queue, [kind |-> "movement", zone |-> z,
                                       move |-> Head(movements[z])])
            /\ movements' = [movements EXCEPT ![z] = Tail(@)]
      BY <1>3 DEF EnqueueMovement
    <2>0. PICK k \in Kinds : k = Head(movements[z])
      BY <1>0, <2>1
    <2>2. /\ ~HasKind(queue, "movement") /\ pc' = "plan"
          /\ UNCHANGED <<step, occupied, disturbed, misfit>>
      BY <1>0, <1>3, <2>1 DEF EnqueueMovement, Pause, simVars, historyVars
    <2>3. /\ \A y, m : ~IsMove(queue, step, y, m)
          /\ \A y, m : IsMove(queue', step', y, m) <=> y = z /\ m = k
      <3>1. queue # <<>> \/ step # "emit"
        BY <1>0
      <3>2. queue' = Append(queue, [kind |-> "movement", zone |-> z, move |-> k]) /\ step' = step
        BY <2>0, <2>1, <2>2
      <3>3. queue \in Seq(Pending) /\ ~HasKind(queue, "movement")
        BY <1>0, <2>2
      <3>4. \A y, m : ~IsMove(queue, step, y, m)
        BY <2>2 DEF HasKind, IsMove
      <3>5. \A y, m : IsMove(Append(queue, [kind |-> "movement", zone |-> z, move |-> k]),
                             step, y, m) <=> (y = z /\ m = k)
        BY <3>1, <3>3, MoveNew
      <3> QED BY <3>2, <3>4, <3>5
    <2>4. /\ movements'[z] = Tail(movements[z])
          /\ \A y \in Zones \ {z} : movements'[y] = movements[y]
      BY <2>1 DEF TypeOK
    <2>5. ASSUME z \notin disturbed
          PROVE  /\ Moved(occupied[z], k) \in 0..Capacity[z]
                 /\ Walk(movements'[z], Moved(occupied[z], k), Capacity[z])
      <3>1. Walk(movements[z], occupied[z], Capacity[z])
        BY <2>3, <2>5 DEF Room, HasRoom
      <3>2. movements[z] \in Seq(Kinds) /\ movements[z] # <<>> /\ Capacity[z] \in Nat
        BY <1>0, <2>1
      <3> QED BY <2>4, <2>0, <3>1, <3>2, WalkStep
    <2>6. ASSUME NEW y \in Zones \ disturbed, y # z PROVE HasRoom(y)'
      <3>1. Walk(movements[y], occupied[y], Capacity[y])
        BY <2>3 DEF Room, HasRoom
      <3> QED BY <2>2, <2>3, <2>4, <2>6, <3>1 DEF HasRoom
    <2>7. z \notin disturbed => HasRoom(z)'
      BY <2>2, <2>3, <2>5 DEF HasRoom
    <2> QED BY <1>0, <2>2, <2>6, <2>7 DEF Room
  <1>4. CASE EndTick
    <2>1. /\ ~HasKind(queue, "movement") /\ movements' = NoMovements /\ misfit' = FALSE
          /\ queue' = Append(queue, [kind |-> "save"]) /\ step' = step
      BY <1>0, <1>4 DEF EndTick, LoopWaits, Queued, HasKind, historyVars
    <2>2. \A z, m : ~IsMove(queue, step, z, m)
      BY <2>1 DEF HasKind, IsMove
    <2>3. \A z, m : ~IsMove(queue', step', z, m)
      BY <1>0, <2>1, <2>2, PendingTasks, MoveAppend
    <2> QED BY <2>1, <2>3, RoomWithoutPlan
  (* A task of another kind is put into the queue.                         *)
  <1>5. ASSUME NEW t \in Pending, t.kind # "movement", queue' = Append(queue, t),
               UNCHANGED <<occupied, movements, misfit, disturbed, step>>, pc' # "boot"
        PROVE  Room'
    <2>1. \A z, m : IsMove(queue', step', z, m) <=> IsMove(queue, step, z, m)
      BY <1>0, <1>5, MoveAppend
    <2> QED BY <1>5, <2>1, OthersKeepRoom
  <1>6. CASE EnqueueTransition
    <2>1. \A t \in transitions :
            [kind |-> "transition", zone |-> t.zone, to |-> t.to] \in Pending
      BY PendingTasks DEF TypeOK
    <2> QED BY <1>6, <2>1, <1>5 DEF EnqueueTransition, simVars, historyVars
  <1>7. CASE QueueCommand
    <2>1. Head(inbox) \in Commands /\ pc # "boot"
      BY <1>0, <1>7 DEF QueueCommand, TypeOK
    <2> QED BY <1>7, <2>1, PendingTasks, <1>5 DEF QueueCommand, simVars, loopVars, historyVars
  (* A task ends that is no movement, or one that is applied.              *)
  <1>8. ASSUME queue # <<>>, Done, UNCHANGED <<occupied, movements, misfit, disturbed, pc>>,
               ~Running("movement") \/ step = "emit"
        PROVE  Room'
    <2>1. \A z, m : IsMove(queue', step', z, m) <=> IsMove(queue, step, z, m)
      <3>1. Head(queue).kind # "movement" \/ step = "emit"
        BY <1>8 DEF Running
      <3> QED BY <1>0, <1>8, <3>1, MoveTail DEF Done
    <2> QED BY <1>8, <2>1, OthersKeepRoom
  (* The task goes on that runs, and it is no movement.                    *)
  <1>9. ASSUME queue # <<>>, ~Running("movement"), disturbed \subseteq disturbed',
               UNCHANGED <<queue, occupied, movements, misfit, pc>>
        PROVE  Room'
    <2>1. \A z, m : IsMove(queue', step', z, m) <=> IsMove(queue, step, z, m)
      BY <1>0, <1>9, MoveStep DEF Running
    <2> QED BY <1>9, <2>1, OthersKeepRoom
  <1>10. CASE EmitMovement
    <2> DEFINE z == Head(queue).zone  k == Head(queue).move
    <2>1. /\ z \in Zones /\ k \in Kinds /\ queue # <<>> /\ step = "begin" /\ pc # "boot"
          /\ Head(queue).kind = "movement" /\ UNCHANGED <<movements, pc, disturbed>>
      BY <1>0, <1>10, RunningMovement DEF EmitMovement, Running, loopVars
    <2>2. \A y, m : IsMove(queue, step, y, m) <=> y = z /\ m = k
      BY <1>0, <2>1, MoveHead
    <2>3. z \notin disturbed => /\ Moved(occupied[z], k) \in 0..Capacity[z]
                                /\ Walk(movements[z], Moved(occupied[z], k), Capacity[z])
      BY <2>1, <2>2 DEF Room, HasRoom
    <2>4. CASE Fits(z, k) /\ Apply(z, k) /\ UNCHANGED <<queue, misfit>>
      <3>1. /\ occupied'[z] = Moved(occupied[z], k) /\ step' = "emit"
            /\ \A y \in Zones \ {z} : occupied'[y] = occupied[y]
        BY <2>1, <2>4 DEF Apply, Moved, TypeOK
      <3>2. \A y, m : ~IsMove(queue', step', y, m)
        BY <1>0, <2>1, <2>4, <3>1, MoveHead
      <3>3. ASSUME NEW y \in Zones \ disturbed PROVE HasRoom(y)'
        <4>1. CASE y = z
          BY <2>1, <2>3, <3>1, <3>2, <4>1 DEF HasRoom
        <4>2. CASE y # z
          <5>1. Walk(movements[y], occupied[y], Capacity[y])
            BY <2>2, <4>2 DEF Room, HasRoom
          <5> QED BY <2>1, <3>1, <3>2, <4>2, <5>1 DEF HasRoom
        <4> QED BY <4>1, <4>2
      <3> QED BY <1>0, <2>1, <2>4, <3>3 DEF Room
    <2>5. CASE /\ ~Fits(z, k) /\ Done /\ misfit' = (misfit \/ z \notin disturbed)
               /\ UNCHANGED <<occupied, reading>>
      <3>1. z \in disturbed
        BY <1>0, <2>1, <2>3, <2>5 DEF Fits, Moved
      <3>2. misfit' = FALSE
        BY <1>0, <2>5, <3>1
      <3>3. \A y, m : ~IsMove(queue', step', y, m)
        <4>1. ~HasKind(queue', "movement")
          BY <1>0, <2>1, <2>5, TailKinds DEF Done
        <4> QED BY <4>1 DEF HasKind, IsMove
      <3>4. ASSUME NEW y \in Zones \ disturbed PROVE HasRoom(y)'
        <4>1. Walk(movements[y], occupied[y], Capacity[y])
          BY <2>2, <3>1 DEF Room, HasRoom
        <4> QED BY <2>1, <2>5, <3>3, <4>1 DEF HasRoom
      <3> QED BY <2>1, <3>2, <3>4 DEF Room
    <2> QED BY <1>10, <2>4, <2>5 DEF EmitMovement
  <1>11. CASE ForceMovement
    <2>1. queue # <<>> /\ ~Running("movement") /\ UNCHANGED <<queue, movements, misfit, pc>>
          /\ pc # "boot" /\ step = "force"
      BY <1>0, <1>11 DEF ForceMovement, Running, loopVars
    <2>2. CASE UNCHANGED <<occupied, disturbed>>
      BY <2>1, <2>2, <1>9
    <2>3. CASE /\ Apply(command.zone, command.kind)
               /\ disturbed' = disturbed \cup {command.zone}
      <3>1. /\ step' = "emit"
            /\ \A y \in Zones \ {command.zone} : occupied'[y] = occupied[y]
        BY <2>3 DEF Apply, TypeOK
      <3>2. \A y, m : IsMove(queue', step', y, m) <=> IsMove(queue, step, y, m)
        BY <1>0, <2>1, MoveStep DEF Running
      <3>3. ASSUME NEW y \in Zones \ disturbed' PROVE HasRoom(y)'
        <4>1. y \in Zones \ disturbed /\ y # command.zone
          BY <2>3
        <4>2. HasRoom(y) /\ occupied'[y] = occupied[y] /\ movements' = movements
          BY <2>1, <3>1, <4>1 DEF Room
        <4> QED BY <3>2, <4>2, Zenon DEF HasRoom
      <3> QED BY <1>0, <2>1, <3>3 DEF Room
    <2> QED BY <1>11, <2>2, <2>3 DEF ForceMovement
  <1>12. CASE PublishReading
    <2>1. /\ step = "emit" /\ UNCHANGED <<occupied, movements, misfit, disturbed, pc>>
          /\ queue # <<>>
      BY <1>0, <1>12 DEF PublishReading, simVars, loopVars
    <2>2. CASE Done
      BY <2>1, <2>2, <1>8
    <2>3. CASE Running("command") /\ UNCHANGED queue
      BY <2>1, <2>3, <1>9 DEF Running
    <2> QED BY <1>12, <2>2, <2>3 DEF PublishReading
  <1>13. CASE SetScenario \/ SetPace \/ SetStatus \/ StartForcing \/ AnnounceCommand
    BY <1>13, <1>9
    DEF SetScenario, SetPace, SetStatus, StartForcing, AnnounceCommand, Running, simVars,
        loopVars, historyVars
  <1>14. CASE ResetSimulator
    <2>1. disturbed' = Zones /\ misfit' = FALSE /\ pc' = pc /\ pc # "boot"
      BY <1>0, <1>14 DEF ResetSimulator, Running, loopVars
    <2> QED BY <2>1 DEF Room
  <1>15. CASE TakeSnapshot
    BY <1>15, <1>9 DEF TakeSnapshot, SaveIsDue, Running, simVars, loopVars, historyVars
  <1>16. CASE AnnounceTransition \/ AnnounceStart
    BY <1>16, <1>8
    DEF AnnounceTransition, AnnounceStart, Running, simVars, loopVars, historyVars
  <1>17. CASE WriteState \/ SkipSave
    <2>1. queue # <<>> /\ ~Running("movement")
      BY <1>17 DEF WriteState, SkipSave, SaveIsDue, Fit, Running
    <2> QED BY <1>17, <2>1, <1>8 DEF WriteState, SkipSave, simVars, loopVars
  <1>18. CASE TaskFails
    <2>1. queue # <<>> /\ (~Running("movement") \/ step = "emit")
      BY <1>18 DEF TaskFails, Fit, Running
    <2> QED BY <1>18, <2>1, <1>8 DEF TaskFails, simVars, loopVars
  <1>19. CASE Crash
    <2>1. movements' = NoMovements /\ misfit' = FALSE /\ queue' = <<>>
      BY <1>0, <1>19 DEF Crash
    <2>2. \A z, m : ~IsMove(queue', step', z, m)
      BY <2>1 DEF IsMove
    <2> QED BY <2>1, <2>2, RoomWithoutPlan
  <1>20. CASE CheckStatus \/ SendCommand \/ ProcessorApplies
    <2>1. /\ UNCHANGED <<occupied, movements, misfit, queue, step, disturbed>>
          /\ pc' = "boot" => pc = "boot"
      BY <1>20
      DEF CheckStatus, SendCommand, ProcessorApplies, simVars, loopVars, taskVars, historyVars
    <2> QED BY <2>1, OthersKeepRoom
  <1> QED
    BY <1>1, <1>2, <1>3, <1>4, <1>6, <1>7, <1>10, <1>11, <1>12, <1>13, <1>14, <1>15,
       <1>16, <1>17, <1>18, <1>19, <1>20
    DEF Next, Loop, Task

(* The plan of a tick is carried out as it was made: a planned movement    *)
(* always fits, unless a command moved the zone in between, and after a    *)
(* PAUSE at most one more is published.                                    *)
THEOREM PlanIsKeptAlways == Spec => []PlanIsKept
  <1>1. Init => Room
    <2> SUFFICES ASSUME Init PROVE Room
      OBVIOUS
    <2>1. \A z \in Zones : ~(z \in disturbed) => HasRoom(z)
      <3> SUFFICES ASSUME NEW z \in Zones PROVE HasRoom(z)
        OBVIOUS
      <3>1. /\ \A m \in Kinds : ~IsMove(queue, step, z, m)
            /\ movements[z] = <<>>
        BY DEF Init, IsMove, NoMovements
      <3>2. Capacity[z] \in Nat /\ occupied[z] \in 0..Capacity[z]
        BY PublisherAssumption DEF Init
      <3> QED BY <3>1, <3>2, WalkEmpty DEF HasRoom
    <2> QED BY <2>1 DEF Init, Room
  <1>2. TInv /\ TInv' /\ Pause /\ Room /\ [Next]_vars => Room'
    <2>1. ASSUME Room, UNCHANGED vars PROVE Room'
      BY <2>1, OthersKeepRoom DEF vars
    <2>2. TInv' => TypeOK'
      BY DEF TInv
    <2> QED BY <2>1, <2>2, RoomStep
  <1>3. Pause /\ Room => PlanIsKept
    BY DEF Pause, Room, PlanIsKept, AtMostOneStray, PlannedMovementsFit
  <1> QED BY <1>1, <1>2, <1>3, TInvAlways, PauseAlways, PTL DEF Spec

------------------------------------------------------------------------------
(* What is saved. Whatever changes the simulator leaves a save to be done: *)
(* the rest of its own task, or the one that ends the tick.                *)

Kept == saved = {Snapshot} \/ (saved = {} /\ Snapshot = Fresh)

(* A save is queued, and has not taken its snapshot yet.                   *)
SaveAhead ==
  \E i \in 1..Len(queue) : queue[i].kind = "save" /\ (i = 1 => step = "begin")

Later == pc \in {"plan", "sleep"} \/ SaveAhead

UnderWay == (Running("command") /\ step # "begin") \/ step = "write"

Saving ==
  /\ pc = "boot" => Snapshot = Fresh
  /\ pc # "boot" => Kept \/ unsaved \/ Later \/ UnderWay
  /\ step = "write" => snapshot = {Snapshot} \/ (Later /\ \E s \in Snapshots : snapshot = {s})
  /\ saved = {} \/ \E s \in Snapshots : saved = {s}

(* A task that is no save ends, and the saves behind it stay.              *)
LEMMA DoneKeepsSave ==
  ASSUME TypeOK, queue # <<>>, Done, SaveAhead, Head(queue).kind # "save" \/ step # "begin"
  PROVE  SaveAhead'
  <1> DEFINE rest == Tail(queue)
  <1>1. /\ Len(queue) \in Nat \ {0} /\ Len(rest) = Len(queue) - 1 /\ Head(queue) = queue[1]
        /\ \A i \in 1..Len(rest) : rest[i] = queue[i + 1]
    BY DEF TypeOK
  <1>2. queue' = rest /\ step' = "begin"
    BY DEF Done
  <1> HIDE DEF rest
  <1>3. PICK i \in 1..Len(queue) : queue[i].kind = "save" /\ (i = 1 => step = "begin")
    BY DEF SaveAhead
  <1>4. i # 1
    BY <1>1, <1>3
  <1>5. i - 1 \in 1..Len(rest) /\ rest[i - 1] = queue[i]
    <2>1. i - 1 \in 1..Len(rest)
      BY <1>1, <1>4
    <2>2. rest[i - 1] = queue[(i - 1) + 1]
      BY <1>1, <2>1
    <2> QED BY <2>1, <2>2
  <1> QED BY <1>2, <1>3, <1>5 DEF SaveAhead

LEMMA AppendKeepsSave ==
  ASSUME TypeOK, NEW t \in Pending, queue' = Append(queue, t), UNCHANGED step
  PROVE  /\ SaveAhead => SaveAhead'
         /\ t.kind = "save" /\ (queue = <<>> => step = "begin") => SaveAhead'
  <1> DEFINE new == Append(queue, t)
  <1>1. /\ Len(queue) \in Nat /\ Len(new) = Len(queue) + 1 /\ new[Len(queue) + 1] = t
        /\ \A i \in 1..Len(queue) : new[i] = queue[i]
        /\ Len(queue) = 0 => queue = <<>>
    BY DEF TypeOK
  <1> HIDE DEF new
  <1>2. queue' = new
    BY DEF new
  <1>3. SaveAhead => SaveAhead'
    BY <1>1, <1>2 DEF SaveAhead
  <1>4. t.kind = "save" /\ (queue = <<>> => step = "begin") => SaveAhead'
    BY <1>1, <1>2 DEF SaveAhead
  <1> QED BY <1>3, <1>4

LEMMA SavingStep ==
  ASSUME TInv, Saving, Next
  PROVE  Saving'
  <1> USE DEF TInv
  <1>0. /\ queue \in Seq(Pending) /\ Snapshot \in Snapshots
        /\ queue = <<>> => step = "begin"
        /\ pc = "boot" => queue = <<>> /\ inbox = <<>> /\ step = "begin"
        /\ step = "write" => Running("command") \/ Running("save")
    BY DEF TypeOK, Fit
  <1>1. CASE Boot
    <2>1. pc' = "poll" /\ step' = "begin" /\ saved' = saved
      BY <1>0, <1>1 DEF Boot, redisVars
    <2>2. CASE saved = {} /\ UNCHANGED simVars
      <3>1. Kept'
        BY <1>1, <2>1, <2>2 DEF Saving, Kept, Boot, Snapshot, Fresh, simVars
      <3> QED BY <2>1, <2>2, <3>1 DEF Saving
    <2>3. CASE saved # {} /\ \E state \in saved : Restore(state)
      <3>1. PICK s \in Snapshots : saved = {s} /\ Restore(s)
        BY <2>3 DEF Saving
      <3>2. s = [status |-> s.status, speed |-> s.speed, mode |-> s.mode,
                 global |-> s.global, overrides |-> s.overrides]
            /\ s.global \in GLOBAL_SCENARIOS
        BY <3>1 DEF Snapshots
      <3>3. Snapshot' = s
        BY <3>1, <3>2 DEF Restore, RestoredOverrides, Snapshot
      <3> QED BY <2>1, <3>1, <3>3 DEF Saving, Kept
    <2> QED BY <1>1, <2>2, <2>3 DEF Boot
  <1>2. CASE Tick
    <2>1. pc' = "plan" /\ Later' /\ UNCHANGED <<step, snapshot, saved>>
      BY <1>2 DEF Tick, Later, taskVars, redisVars
    <2>2. step = "write" => \E s \in Snapshots : snapshot = {s}
      BY <1>0 DEF Saving
    <2> QED BY <2>1, <2>2 DEF Saving
  (* The loop and the panel put a task into the queue.                     *)
  <1>3. ASSUME NEW t \in Pending, queue' = Append(queue, t),
               UNCHANGED <<simVars, step, snapshot, saved, unsaved>>,
               pc # "boot", pc' # "boot",
               (pc \in {"plan", "sleep"} /\ pc' \notin {"plan", "sleep"}) => t.kind = "save"
        PROVE  Saving'
    <2>1. Later => Later'
      BY <1>0, <1>3, AppendKeepsSave DEF Later
    <2>2. UnderWay => UnderWay'
      BY <1>0, <1>3, AppendKeeps DEF UnderWay, Running
    <2>3. Snapshot' = Snapshot /\ (Kept => Kept')
      BY <1>3 DEF Kept, Snapshot, Fresh, simVars
    <2> QED BY <1>3, <2>1, <2>2, <2>3 DEF Saving
  <1>4. CASE EnqueueTransition
    <2>1. \A t \in transitions :
            [kind |-> "transition", zone |-> t.zone, to |-> t.to] \in Pending
      BY PendingTasks DEF TypeOK
    <2> QED BY <1>4, <2>1, <1>3 DEF EnqueueTransition, redisVars, historyVars
  <1>5. CASE EnqueueMovement
    <2>1. \A z \in Zones : movements[z] # <<>> =>
            [kind |-> "movement", zone |-> z, move |-> Head(movements[z])] \in Pending
      BY PendingTasks DEF TypeOK
    <2> QED BY <1>5, <2>1, <1>3 DEF EnqueueMovement, redisVars, historyVars
  <1>6. CASE EndTick
    BY <1>6, PendingTasks, <1>3 DEF EndTick, redisVars, historyVars
  <1>7. CASE QueueCommand
    <2>1. Head(inbox) \in Commands /\ pc # "boot"
      BY <1>0, <1>7 DEF QueueCommand, TypeOK
    <2> QED BY <1>7, <2>1, PendingTasks, <1>3 DEF QueueCommand, redisVars, loopVars, historyVars
  (* A command goes on: its own save is still to come.                     *)
  <1>8. ASSUME Running("command"), UNCHANGED <<queue, pc, saved>>,
               step' \notin {"begin", "write"}
        PROVE  Saving'
    <2>1. Running("command")' /\ pc # "boot"
      BY <1>0, <1>8 DEF Running
    <2> QED BY <1>8, <2>1 DEF Saving, UnderWay
  <1>9. CASE SetScenario \/ SetPace \/ SetStatus \/ ResetSimulator \/ StartForcing
    BY <1>9, <1>8
    DEF SetScenario, SetPace, SetStatus, ResetSimulator, StartForcing, loopVars, redisVars
  <1>10. CASE AnnounceCommand
    BY <1>10, <1>8 DEF AnnounceCommand, loopVars, redisVars
  <1>11. CASE ForceMovement
    <2>1. step' \notin {"begin", "write"}
      BY <1>11 DEF ForceMovement, Apply
    <2> QED BY <1>11, <2>1, <1>8 DEF ForceMovement, loopVars, redisVars
  (* A task that saves nothing ends.                                       *)
  <1>12. ASSUME queue # <<>>, Done, UNCHANGED <<Snapshot, pc, saved>>,
                ~UnderWay \/ unsaved', unsaved => unsaved', ~Running("save") \/ unsaved'
         PROVE  Saving'
    <2>1. pc # "boot" /\ step' = "begin"
      BY <1>0, <1>12 DEF Done
    <2>2. CASE unsaved'
      BY <1>12, <2>1, <2>2 DEF Saving
    <2>3. CASE ~unsaved'
      <3>1. Later => Later'
        BY <1>12, <2>3, DoneKeepsSave DEF Later, Running
      <3>2. Kept => Kept'
        BY <1>12 DEF Kept, Fresh
      <3> QED BY <1>12, <2>1, <2>3, <3>1, <3>2 DEF Saving
    <2> QED BY <2>2, <2>3
  <1>13. CASE EmitMovement
    <2>1. /\ Running("movement") /\ queue # <<>> /\ step = "begin"
          /\ ~Running("command") /\ ~Running("save")
          /\ UNCHANGED <<Snapshot, pc, saved, unsaved>>
      BY <1>13 DEF EmitMovement, Running, loopVars, redisVars, Snapshot
    <2>2. CASE Done
      BY <2>1, <2>2, <1>12 DEF UnderWay
    <2>3. CASE UNCHANGED queue /\ step' = "emit"
      <3>1. SaveAhead => SaveAhead'
        BY <1>0, <2>1, <2>3 DEF SaveAhead, Running
      <3>2. ~UnderWay /\ (Kept => Kept')
        BY <2>1 DEF UnderWay, Kept, Fresh
      <3> QED BY <1>0, <2>1, <2>3, <3>1, <3>2 DEF Saving, Later, Running
    <2> QED BY <1>13, <2>2, <2>3 DEF EmitMovement, Apply
  <1>14. CASE PublishReading
    <2>1. step = "emit" /\ UNCHANGED <<Snapshot, pc, saved, unsaved>>
      BY <1>14 DEF PublishReading, simVars, loopVars, redisVars, Snapshot
    <2>2. CASE Running("movement") /\ Done
      BY <2>1, <2>2, <1>12 DEF UnderWay, Running
    <2>3. CASE Running("command") /\ step' = "force" /\ UNCHANGED queue
      BY <2>1, <2>3, <1>8
    <2> QED BY <1>14, <2>2, <2>3 DEF PublishReading
  <1>15. CASE AnnounceTransition \/ AnnounceStart
    <2>1. /\ queue # <<>> /\ Done /\ ~Running("command") /\ ~Running("save")
          /\ UNCHANGED <<Snapshot, pc, saved, unsaved>>
      BY <1>15
      DEF AnnounceTransition, AnnounceStart, Running, simVars, loopVars, redisVars, historyVars,
          Snapshot
    <2> QED BY <1>0, <2>1, <1>12 DEF UnderWay
  <1>16. CASE TakeSnapshot
    <2>1. /\ snapshot' = {Snapshot} /\ step' = "write" /\ pc # "boot"
          /\ UNCHANGED <<Snapshot, pc, saved>>
      BY <1>0, <1>16 DEF TakeSnapshot, SaveIsDue, Running, simVars, loopVars, redisVars, Snapshot
    <2> QED BY <2>1 DEF Saving, UnderWay
  <1>17. CASE WriteState
    <2>1. /\ saved' = snapshot /\ step' = "begin" /\ Done /\ queue # <<>> /\ pc # "boot"
          /\ step = "write" /\ UNCHANGED <<Snapshot, pc>>
      BY <1>0, <1>17 DEF WriteState, Done, Running, simVars, loopVars, Snapshot
    <2>2. SaveAhead => SaveAhead'
      BY <2>1, DoneKeepsSave
    <2> QED BY <1>0, <2>1, <2>2 DEF Saving, Kept, Later
  <1>18. CASE TaskFails
    <2>1. /\ queue # <<>> /\ Done /\ UNCHANGED <<Snapshot, pc, saved>>
          /\ unsaved' = (unsaved \/ Running("command") \/ Running("save"))
      BY <1>18 DEF TaskFails, Fit, Running, simVars, loopVars, redisVars, Snapshot
    <2> QED BY <1>0, <2>1, <1>12 DEF UnderWay
  <1>21. CASE SkipSave
    BY <1>21, <1>12 DEF SkipSave, SaveIsDue, Running, simVars, loopVars, redisVars, Snapshot
  <1>19. CASE Crash
    <2>1. pc' = "boot" /\ step' = "begin" /\ saved' = saved /\ Snapshot' = Fresh'
      BY <1>19 DEF Crash, Constructed, redisVars, Snapshot, Fresh
    <2> QED BY <2>1 DEF Saving
  <1>20. CASE CheckStatus \/ SendCommand \/ ProcessorApplies
    <2>1. /\ UNCHANGED <<simVars, queue, step, snapshot, saved, unsaved>>
          /\ pc' # "boot" <=> pc # "boot"
          /\ pc \in {"plan", "sleep"} => pc' \in {"plan", "sleep"}
      BY <1>20
      DEF CheckStatus, SendCommand, ProcessorApplies, loopVars, taskVars, redisVars, historyVars
    <2>2. Snapshot' = Snapshot /\ Fresh' = Fresh
      BY <2>1 DEF Snapshot, Fresh, simVars
    <2>3. SaveAhead' = SaveAhead /\ UnderWay' = UnderWay /\ Kept' = Kept
      BY <2>1, <2>2 DEF SaveAhead, UnderWay, Kept, Running
    <2> QED BY <2>1, <2>2, <2>3 DEF Saving, Later
  <1> QED
    BY <1>1, <1>2, <1>4, <1>5, <1>6, <1>7, <1>9, <1>10, <1>11, <1>13, <1>14, <1>15,
       <1>16, <1>17, <1>18, <1>19, <1>20, <1>21
    DEF Next, Loop, Task

LEMMA SavingAlways == Spec => []Saving
  <1>1. Init => Saving
    BY DEF Init, Saving, Snapshot, Fresh
  <1>2. TInv /\ Saving /\ [Next]_vars => Saving'
    <2>1. ASSUME Saving, UNCHANGED vars PROVE Saving'
      BY <2>1
      DEF Saving, Kept, Later, SaveAhead, UnderWay, Running, Snapshot, Fresh, vars
    <2> QED BY <2>1, SavingStep
  <1> QED BY <1>1, <1>2, TInvAlways, PTL DEF Spec

(* With nothing under way and no save that failed, what Redis holds is     *)
(* what the simulator is: no snapshot is lost, and none is overwritten by  *)
(* an older one.                                                           *)
THEOREM SavedWhenSettledAlways == Spec => []SavedWhenSettled
  <1>1. TInv /\ Saving => SavedWhenSettled
    BY DEF TInv, Fit, Saving, SavedWhenSettled, Settled, Kept, Later, SaveAhead, UnderWay, Running
  <1> QED BY <1>1, TInvAlways, SavingAlways, PTL

------------------------------------------------------------------------------
(* Ends of scenarios in the queue.                                         *)
HasEnd(q, z) == \E i \in 1..Len(q) : q[i].kind = "transition" /\ q[i].zone = z

EndsTell(q, z, s) ==
  \A i \in 1..Len(q) : q[i].kind = "transition" /\ q[i].zone = z => q[i].to = s

LEMMA AppendEnds ==
  ASSUME NEW q \in Seq(Pending), NEW t \in Pending, NEW z, NEW s
  PROVE  /\ HasEnd(Append(q, t), z) <=> (HasEnd(q, z) \/ (t.kind = "transition" /\ t.zone = z))
         /\ EndsTell(Append(q, t), z, s)
              <=> (EndsTell(q, z, s) /\ (t.kind = "transition" /\ t.zone = z => t.to = s))
  <1> DEFINE new == Append(q, t)
  <1>1. /\ Len(q) \in Nat /\ Len(new) = Len(q) + 1 /\ new[Len(q) + 1] = t
        /\ \A i \in 1..Len(q) : new[i] = q[i]
    OBVIOUS
  <1>2. /\ 1..Len(q) \subseteq 1..Len(new) /\ Len(q) + 1 \in 1..Len(new)
        /\ \A i \in 1..Len(new) : i \in 1..Len(q) \/ i = Len(q) + 1
    BY <1>1
  <1> HIDE DEF new
  <1>3. HasEnd(new, z) <=> (HasEnd(q, z) \/ (t.kind = "transition" /\ t.zone = z))
    BY <1>1, <1>2 DEF HasEnd
  <1>4. EndsTell(new, z, s)
          <=> (EndsTell(q, z, s) /\ (t.kind = "transition" /\ t.zone = z => t.to = s))
    BY <1>1, <1>2 DEF EndsTell
  <1> QED BY <1>3, <1>4 DEF new

LEMMA TailEnds ==
  ASSUME NEW q \in Seq(Pending), q # <<>>, NEW z, NEW s
  PROVE  /\ HasEnd(q, z)
              <=> (HasEnd(Tail(q), z) \/ (Head(q).kind = "transition" /\ Head(q).zone = z))
         /\ EndsTell(q, z, s)
              <=> (/\ EndsTell(Tail(q), z, s)
                   /\ (Head(q).kind = "transition" /\ Head(q).zone = z => Head(q).to = s))
  <1> DEFINE rest == Tail(q)  h == Head(q)
  <1>1. /\ Len(q) \in Nat \ {0} /\ Len(rest) = Len(q) - 1 /\ h = q[1]
        /\ \A i \in 1..Len(rest) : rest[i] = q[i + 1]
    OBVIOUS
  <1> HIDE DEF rest, h
  <1>2. 1 \in 1..Len(q) /\ \A i \in 1..Len(rest) : i + 1 \in 1..Len(q)
    BY <1>1
  <1>3. \A i \in 1..Len(q) : i # 1 => i - 1 \in 1..Len(rest) /\ rest[i - 1] = q[i]
    <2> SUFFICES ASSUME NEW i \in 1..Len(q), i # 1
                 PROVE  i - 1 \in 1..Len(rest) /\ rest[i - 1] = q[i]
      OBVIOUS
    <2>1. i - 1 \in 1..Len(rest) /\ (i - 1) + 1 = i
      BY <1>1
    <2>2. rest[i - 1] = q[(i - 1) + 1]
      BY <1>1, <2>1
    <2> QED BY <2>1, <2>2
  <1>4. HasEnd(q, z) <=> (HasEnd(rest, z) \/ (h.kind = "transition" /\ h.zone = z))
    BY <1>1, <1>2, <1>3 DEF HasEnd
  <1>5. EndsTell(q, z, s)
          <=> (EndsTell(rest, z, s) /\ (h.kind = "transition" /\ h.zone = z => h.to = s))
    BY <1>1, <1>2, <1>3 DEF EndsTell
  <1> QED BY <1>4, <1>5 DEF rest, h

LEMMA WaitingZones ==
  ASSUME queue \in Seq(Pending), NEW z
  PROVE  z \in Waiting <=> ((\E t \in transitions : t.zone = z) \/ HasEnd(queue, z))
  BY DEF Waiting, HasEnd

------------------------------------------------------------------------------
(* What the last event says of a zone is its scenario, unless it is still  *)
(* waiting in the tick or in the queue, or is what the running command is  *)
(* about to announce.                                                      *)

Present(z) == ScenarioUnder(overrides[z], global)

AnnouncesFor(z) ==
  /\ Running("command") /\ step = "announce"
  /\ command.action = "SET_SCENARIO" /\ z \in TargetsOf(command)

WaitsFor(z) == (\E t \in transitions : t.zone = z) \/ HasEnd(queue, z)

Told(z) ==
  /\ \A t \in transitions : t.zone = z => t.to = Present(z)
  /\ EndsTell(queue, z, Present(z))
  /\ AnnouncesFor(z) /\ ~WaitsFor(z) => command.scenario = Present(z)
  /\ ~AnnouncesFor(z) /\ ~WaitsFor(z) => announced[z] = Present(z)

(* A restart finds the scenario that was announced last.                   *)
Remembered(z) ==
  /\ saved = {} => announced[z] = "NORMAL"
  /\ \A s \in saved : announced[z] = ScenarioUnder(s.overrides[z], s.global)

Announced ==
  /\ pc \in {"boot", "poll"} => transitions = {}
  /\ \A z \in Zones \ overtaken : IF pc = "boot" THEN Remembered(z) ELSE Told(z)

(* set(): what is announced of the zones of a command is what they get.    *)
LEMMA SetScenarioSets ==
  ASSUME TInv, SetScenario, NEW z \in Zones
  PROVE  /\ z \in TargetsOf(command) => Present(z)' = command.scenario
         /\ z \notin TargetsOf(command) => Present(z)' = Present(z)
  <1> DEFINE c == command
  <1>1. c \in Commands /\ c.action = "SET_SCENARIO"
    BY RunningCommand DEF SetScenario, TInv
  <1>2. c.scenario \in ScenarioNames
    BY <1>1, CommandFields
  <1>3. /\ global' = IF SetsGlobal(c) THEN c.scenario ELSE global
        /\ overrides'[z] = IF z \notin TargetsOf(c) THEN overrides[z]
                           ELSE IF ClearsOverride(c) THEN NoOverride ELSE NewOverride(c.scenario)
    BY DEF SetScenario
  <1>4. NewOverride(c.scenario).scenario = c.scenario /\ NewOverride(c.scenario) # NoOverride
    BY <1>2 DEF NewOverride, NoOverride, ScenarioNames, GLOBAL_SCENARIOS, Bursts
  <1> HIDE DEF c
  <1>5. z \notin TargetsOf(c) => ~SetsGlobal(c)
    BY DEF TargetsOf, SetsGlobal
  <1>6. Present(z)' = IF overrides'[z] = NoOverride THEN global' ELSE overrides'[z].scenario
    BY DEF Present, ScenarioUnder
  <1>7. CASE z \in TargetsOf(c)
    <2>1. CASE ClearsOverride(c)
      <3>1. global' = c.scenario
        BY <1>3, <2>1 DEF ClearsOverride
      <3> QED BY <1>3, <1>6, <1>7, <2>1, <3>1 DEF c
    <2>2. CASE ~ClearsOverride(c)
      BY <1>3, <1>4, <1>6, <1>7, <2>2 DEF c
    <2> QED BY <2>1, <2>2
  <1>8. CASE z \notin TargetsOf(c)
    BY <1>3, <1>5, <1>6, <1>8 DEF Present, ScenarioUnder, c
  <1> QED BY <1>7, <1>8 DEF c

(* A tick keeps the scenario of a zone or goes back to the global one.     *)
LEMMA TickSets ==
  ASSUME TInv, Tick, NEW z \in Zones
  PROVE  /\ Ends(overrides[z], occupied[z], Capacity[z]) => Present(z)' = global
         /\ ~Ends(overrides[z], occupied[z], Capacity[z]) => Present(z)' = Present(z)
  <1>1. /\ overrides'[z] = OverrideAfter(overrides[z], occupied[z], Capacity[z])
        /\ global' = global
    BY DEF Tick
  <1>2. overrides[z] \in Overrides \cup {NoOverride}
    BY SimTypes DEF TInv
  <1>3. CASE Ends(overrides[z], occupied[z], Capacity[z])
    BY <1>1, <1>3 DEF OverrideAfter, Present, ScenarioUnder
  <1>4. CASE ~Ends(overrides[z], occupied[z], Capacity[z])
    <2>1. CASE overrides[z].scenario \in Bursts
      <3> DEFINE o == overrides[z]
      <3>1. o \in Overrides
        BY <1>2, <2>1 DEF NoOverride, Bursts
      <3>2. overrides'[z] = [o EXCEPT !.left = @ - 1]
        BY <1>1, <1>4, <2>1 DEF OverrideAfter
      <3>3. overrides'[z].scenario = o.scenario
        BY <3>1, <3>2 DEF Overrides
      <3>4. overrides'[z] # NoOverride /\ o # NoOverride
        BY <2>1, <3>3 DEF NoOverride, Bursts
      <3> QED BY <1>4, <3>3, <3>4 DEF Present, ScenarioUnder
    <2>2. CASE overrides[z].scenario \notin Bursts
      BY <1>1, <1>4, <2>2 DEF OverrideAfter, Present, ScenarioUnder
    <2> QED BY <2>1, <2>2
  <1> QED BY <1>3, <1>4

LEMMA ToldStays ==
  ASSUME NEW z \in Zones, Told(z), Present(z)' = Present(z), announced'[z] = announced[z],
         WaitsFor(z)' <=> WaitsFor(z), transitions' \subseteq transitions,
         EndsTell(queue, z, Present(z)) => EndsTell(queue', z, Present(z)),
         AnnouncesFor(z)' <=> AnnouncesFor(z),
         AnnouncesFor(z) => command' = command
  PROVE  Told(z)'
  BY DEF Told

(* Nothing happens to scenarios and events.                                *)
LEMMA OthersKeepAnnounced ==
  ASSUME Announced, UNCHANGED <<overrides, global, transitions, queue, announced, saved>>,
         overtaken \subseteq overtaken', pc' = "boot" <=> pc = "boot",
         pc' \in {"boot", "poll"} => pc \in {"boot", "poll"} \/ transitions = {},
         \A z \in Zones : AnnouncesFor(z)' <=> AnnouncesFor(z)
  PROVE  Announced'
  <1>1. ASSUME NEW z \in Zones \ overtaken' PROVE IF pc' = "boot" THEN Remembered(z)' ELSE Told(z)'
    <2>1. z \in Zones /\ z \notin overtaken
      BY <1>1
    <2>2. CASE pc = "boot"
      <3>1. Remembered(z)
        BY <2>1, <2>2 DEF Announced
      <3> QED BY <2>2, <3>1 DEF Remembered
    <2>3. CASE pc # "boot"
      <3>1. Told(z)
        BY <2>1, <2>3 DEF Announced
      <3>2. command' = command /\ Present(z)' = Present(z) /\ (WaitsFor(z)' <=> WaitsFor(z))
        BY DEF command, Present, WaitsFor
      <3> QED BY <2>1, <2>3, <3>1, <3>2, ToldStays
    <2> QED BY <2>2, <2>3
  <1> QED BY <1>1 DEF Announced

LEMMA AnnouncedStep ==
  ASSUME TInv, Saving, Announced, Next
  PROVE  Announced'
  <1> USE DEF TInv
  <1>0. /\ queue \in Seq(Pending)
        /\ queue = <<>> => step = "begin"
        /\ pc = "boot" => queue = <<>> /\ inbox = <<>> /\ step = "begin"
        /\ overtaken \subseteq Zones
        /\ announced \in [Zones -> ScenarioNames]
    BY DEF TypeOK, Fit
  <1>1. CASE Boot
    <2>1. /\ pc = "boot" /\ pc' = "poll" /\ queue' = <<[kind |-> "start"]>> /\ transitions' = {}
          /\ UNCHANGED <<announced, overtaken, saved>>
      BY <1>1 DEF Boot, Announced, redisVars
    <2>2. ASSUME NEW z \in Zones \ overtaken PROVE Told(z)'
      <3>1. Remembered(z)
        BY <2>1, <2>2 DEF Announced
      <3>2. announced[z] = Present(z)'
        <4>1. CASE saved = {} /\ UNCHANGED simVars
          <5>1. Snapshot = Fresh
            BY <2>1 DEF Saving
          <5>2. global = "NORMAL" /\ overrides[z] = NoOverride
            BY <5>1 DEF Snapshot, Fresh
          <5> QED BY <3>1, <4>1, <5>2 DEF Remembered, Present, ScenarioUnder, simVars
        <4>2. CASE saved # {} /\ \E state \in saved : Restore(state)
          <5>1. PICK s \in saved : Restore(s)
            BY <4>2
          <5>2. s \in Snapshots
            BY DEF TypeOK
          <5>3. s.global \in GLOBAL_SCENARIOS
            BY <5>2 DEF Snapshots
          <5>4. global' = s.global /\ overrides' = s.overrides
            BY <5>1, <5>3 DEF Restore, RestoredOverrides
          <5> QED BY <3>1, <5>1, <5>4 DEF Remembered, Present
        <4> QED BY <1>1, <4>1, <4>2 DEF Boot
      <3>3. /\ ~HasEnd(queue', z) /\ EndsTell(queue', z, Present(z)') /\ ~Running("command")'
        BY <2>1 DEF HasEnd, EndsTell, Running
      <3> QED BY <2>1, <2>2, <3>2, <3>3 DEF Told, WaitsFor, AnnouncesFor
    <2> QED BY <2>1, <2>2 DEF Announced
  <1>2. CASE Tick
    <2>1. /\ pc = "poll" /\ pc' = "plan" /\ ~HasKind(queue, "transition") /\ transitions = {}
          /\ UNCHANGED <<queue, step, announced, overtaken>>
          /\ transitions' = {[zone |-> z, to |-> global] :
                               z \in {y \in Zones : Ends(overrides[y], occupied[y], Capacity[y])}}
      BY <1>2 DEF Tick, LoopWaits, Queued, HasKind, Announced, taskVars
    <2>2. ASSUME NEW z \in Zones \ overtaken PROVE Told(z)'
      <3>1. Told(z) /\ ~HasEnd(queue, z) /\ ~WaitsFor(z)
        BY <2>1, <2>2 DEF Announced, HasEnd, HasKind, WaitsFor
      <3>2. \A s : EndsTell(queue, z, s)
        BY <2>1 DEF EndsTell, HasKind
      <3>3. \A t \in transitions' : t.zone = z =>
              t.to = global /\ Ends(overrides[z], occupied[z], Capacity[z])
        BY <2>1
      <3>4. CASE Ends(overrides[z], occupied[z], Capacity[z])
        <4>1. [zone |-> z, to |-> global] \in transitions'
          BY <2>1, <3>4
        <4>2. WaitsFor(z)'
          BY <4>1 DEF WaitsFor
        <4> QED BY <1>2, <2>1, <3>2, <3>3, <3>4, <4>2, TickSets DEF Told
      <3>5. CASE ~Ends(overrides[z], occupied[z], Capacity[z])
        <4>1. Present(z)' = Present(z)
          BY <1>2, <3>5, TickSets
        <4>2. (AnnouncesFor(z)' <=> AnnouncesFor(z)) /\ command' = command
          BY <2>1 DEF AnnouncesFor, Running, command, TargetsOf
        <4> QED BY <2>1, <3>1, <3>2, <3>3, <3>5, <4>1, <4>2 DEF Told
      <3> QED BY <3>4, <3>5
    <2> QED BY <2>1, <2>2 DEF Announced
  (* A task is put into the queue; the one that runs stays where it is.    *)
  <1>3. ASSUME NEW t \in Pending, queue' = Append(queue, t), UNCHANGED step, NEW z
        PROVE  /\ AnnouncesFor(z)' <=> AnnouncesFor(z)
               /\ AnnouncesFor(z) => command' = command
    <2>1. CASE queue = <<>>
      BY <1>0, <1>3, <2>1 DEF AnnouncesFor
    <2>2. CASE queue # <<>>
      <3>1. queue' # <<>> /\ Head(queue') = Head(queue)
        BY <1>0, <1>3, <2>2, AppendKeeps
      <3> QED BY <1>3, <2>2, <3>1 DEF AnnouncesFor, Running, command, TargetsOf
    <2> QED BY <2>1, <2>2
  <1>4. ASSUME NEW t \in Pending, t.kind # "transition", queue' = Append(queue, t),
               UNCHANGED <<overrides, global, step, transitions, announced, overtaken>>,
               pc # "boot", pc' # "boot", pc' = "poll" => pc = "poll" \/ transitions = {}
        PROVE  Announced'
    <2>1. ASSUME NEW z \in Zones \ overtaken PROVE Told(z)'
      <3>1. Told(z) /\ Present(z)' = Present(z)
        BY <1>4, <2>1 DEF Announced, Present
      <3>2. /\ HasEnd(queue', z) <=> HasEnd(queue, z)
            /\ EndsTell(queue', z, Present(z)) <=> EndsTell(queue, z, Present(z))
        BY <1>0, <1>4, AppendEnds
      <3>3. WaitsFor(z)' <=> WaitsFor(z)
        BY <1>4, <3>2 DEF WaitsFor
      <3>4. /\ AnnouncesFor(z)' <=> AnnouncesFor(z)
            /\ AnnouncesFor(z) => command' = command
        BY <1>3, <1>4
      <3> QED BY <1>4, <2>1, <3>1, <3>2, <3>3, <3>4, ToldStays
    <2> QED BY <1>4, <2>1 DEF Announced
  <1>5. CASE EnqueueTransition
    <2>1. PICK t \in transitions :
            /\ queue' = Append(queue, [kind |-> "transition", zone |-> t.zone, to |-> t.to])
            /\ transitions' = transitions \ {t}
      BY <1>5 DEF EnqueueTransition
    <2>2. [kind |-> "transition", zone |-> t.zone, to |-> t.to] \in Pending
      BY <2>1, PendingTasks DEF TypeOK
    <2>3. pc = "plan" /\ UNCHANGED <<overrides, global, pc, step, announced, overtaken>>
      BY <1>5 DEF EnqueueTransition, simVars, historyVars
    <2>4. ASSUME NEW z \in Zones \ overtaken PROVE Told(z)'
      <3>1. Told(z) /\ Present(z)' = Present(z)
        BY <2>3, <2>4 DEF Announced, Present
      <3>2. /\ HasEnd(queue', z) <=> (HasEnd(queue, z) \/ t.zone = z)
            /\ EndsTell(queue', z, Present(z))
                 <=> (EndsTell(queue, z, Present(z)) /\ (t.zone = z => t.to = Present(z)))
        <4> DEFINE r == [kind |-> "transition", zone |-> t.zone, to |-> t.to]
                   p == Present(z)
        <4>1. r.kind = "transition" /\ r.zone = t.zone /\ r.to = t.to /\ r \in Pending
              /\ queue' = Append(queue, r) /\ queue \in Seq(Pending)
          BY <1>0, <2>1, <2>2
        <4> HIDE DEF r, p
        <4>2. HasEnd(queue', z) <=> (HasEnd(queue, z) \/ t.zone = z)
          BY <4>1, AppendEnds
        <4>3. EndsTell(queue', z, p) <=> (EndsTell(queue, z, p) /\ (t.zone = z => t.to = p))
          BY <4>1, AppendEnds
        <4> QED BY <4>2, <4>3 DEF p
      <3>3. WaitsFor(z)' <=> WaitsFor(z)
        BY <2>1, <3>2 DEF WaitsFor
      <3>4. EndsTell(queue, z, Present(z)) => EndsTell(queue', z, Present(z))
        BY <3>1, <3>2, <2>1 DEF Told
      <3>5. /\ AnnouncesFor(z)' <=> AnnouncesFor(z)
            /\ AnnouncesFor(z) => command' = command
        BY <1>3, <2>1, <2>2, <2>3
      <3> QED BY <2>1, <2>3, <2>4, <3>1, <3>3, <3>4, <3>5, ToldStays
    <2> QED BY <2>3, <2>4 DEF Announced
  <1>6. CASE EnqueueMovement
    <2>1. \A z \in Zones : movements[z] # <<>> =>
            [kind |-> "movement", zone |-> z, move |-> Head(movements[z])] \in Pending
      BY PendingTasks DEF TypeOK
    <2> QED BY <1>6, <2>1, <1>4 DEF EnqueueMovement, simVars, historyVars
  <1>7. CASE EndTick
    BY <1>7, PendingTasks, <1>4 DEF EndTick, simVars, historyVars
  <1>8. CASE QueueCommand
    <2>1. Head(inbox) \in Commands /\ pc # "boot"
      BY <1>0, <1>8 DEF QueueCommand, TypeOK
    <2> QED BY <1>8, <2>1, PendingTasks, <1>4 DEF QueueCommand, simVars, loopVars, historyVars
  (* A task ends that neither ended a scenario nor was about to announce.  *)
  <1>9. ASSUME queue # <<>>, Done, UNCHANGED <<overrides, global, transitions, pc, announced>>,
               overtaken \subseteq overtaken',
               \A z \in Zones \ overtaken' :
                 ~AnnouncesFor(z) /\ ~(Head(queue).kind = "transition" /\ Head(queue).zone = z)
        PROVE  Announced'
    <2>0. pc # "boot" /\ queue' = Tail(queue) /\ step' = "begin"
      BY <1>0, <1>9 DEF Done
    <2>1. ASSUME NEW z \in Zones \ overtaken' PROVE Told(z)'
      <3>1. Told(z) /\ Present(z)' = Present(z)
        BY <1>9, <2>0, <2>1 DEF Announced, Present
      <3>2. /\ HasEnd(queue', z) <=> HasEnd(queue, z)
            /\ EndsTell(queue', z, Present(z)) <=> EndsTell(queue, z, Present(z))
        BY <1>0, <1>9, <2>0, <2>1, TailEnds
      <3>3. WaitsFor(z)' <=> WaitsFor(z)
        BY <1>9, <3>2 DEF WaitsFor
      <3>4. ~AnnouncesFor(z) /\ ~AnnouncesFor(z)'
        BY <1>9, <2>0, <2>1 DEF AnnouncesFor
      <3> QED BY <1>9, <2>1, <3>1, <3>2, <3>3, <3>4, ToldStays
    <2> QED BY <1>9, <2>0, <2>1 DEF Announced
  <1>10. CASE SetScenario
    <2>1. /\ Running("command") /\ queue # <<>> /\ step = "begin" /\ step' = "announce"
          /\ command.action = "SET_SCENARIO"
          /\ overtaken' = (overtaken \ TargetsOf(command)) \cup (TargetsOf(command) \cap Waiting)
          /\ UNCHANGED <<queue, pc, transitions, announced>> /\ pc # "boot"
      BY <1>0, <1>10 DEF SetScenario, Running, loopVars
    <2>2. ASSUME NEW z \in Zones \ overtaken' PROVE Told(z)'
      <3>1. /\ AnnouncesFor(z)' <=> z \in TargetsOf(command)
            /\ command' = command /\ ~AnnouncesFor(z)
        BY <2>1 DEF AnnouncesFor, Running, command, TargetsOf
      <3>2. CASE z \in TargetsOf(command)
        <4>1. z \notin Waiting
          BY <2>1, <2>2, <3>2
        <4>2. ~(\E t \in transitions : t.zone = z) /\ ~HasEnd(queue, z)
          BY <1>0, <4>1, WaitingZones
        <4>3. \A s : EndsTell(queue, z, s)
          BY <4>2 DEF HasEnd, EndsTell
        <4>4. Present(z)' = command.scenario
          BY <1>10, <2>2, <3>2, SetScenarioSets
        <4> QED BY <2>1, <3>1, <3>2, <4>2, <4>3, <4>4 DEF Told
      <3>3. CASE z \notin TargetsOf(command)
        <4>1. Told(z)
          BY <2>1, <2>2, <3>3 DEF Announced
        <4>2. Present(z)' = Present(z)
          BY <1>10, <2>2, <3>3, SetScenarioSets
        <4>3. WaitsFor(z)' <=> WaitsFor(z)
          BY <2>1 DEF WaitsFor
        <4> QED BY <2>1, <2>2, <3>1, <3>3, <4>1, <4>2, <4>3, ToldStays
      <3> QED BY <3>2, <3>3
    <2> QED BY <2>1, <2>2 DEF Announced
  (* Steps of a command that announce no scenario.                         *)
  <1>11. ASSUME queue # <<>>,
                UNCHANGED <<overrides, global, transitions, queue, pc, announced, saved>>,
                overtaken' = overtaken,
                ~(step = "announce" /\ command.action = "SET_SCENARIO"),
                ~(step' = "announce" /\ command.action = "SET_SCENARIO")
         PROVE  Announced'
    <2>1. \A z \in Zones : ~AnnouncesFor(z) /\ ~AnnouncesFor(z)'
      BY <1>11 DEF AnnouncesFor, command
    <2> QED BY <1>11, <2>1, OthersKeepAnnounced
  <1>12. CASE SetPace \/ SetStatus \/ StartForcing \/ TakeSnapshot
    <2>1. queue # <<>> /\ step # "announce"
      BY <1>12 DEF SetPace, SetStatus, StartForcing, TakeSnapshot, SaveIsDue, Running
    <2>2. ~(step' = "announce" /\ command.action = "SET_SCENARIO")
      BY <1>12 DEF SetPace, SetStatus, StartForcing, TakeSnapshot
    <2> QED BY <1>12, <2>1, <2>2, <1>11
            DEF SetPace, SetStatus, StartForcing, TakeSnapshot, simVars, loopVars, redisVars, historyVars
  <1>13. CASE ForceMovement
    <2>1. queue # <<>> /\ step # "announce" /\ step' # "announce"
      BY <1>13 DEF ForceMovement, Running, Apply
    <2> QED BY <1>13, <2>1, <1>11 DEF ForceMovement, loopVars, redisVars
  <1>14. CASE ResetSimulator
    <2>1. overtaken' = Zones /\ pc' = pc /\ transitions' = transitions
      BY <1>14 DEF ResetSimulator, loopVars
    <2> QED BY <2>1 DEF Announced
  <1>15. CASE EmitMovement
    <2>1. /\ Running("movement") /\ queue # <<>> /\ step = "begin"
          /\ UNCHANGED <<overrides, global, transitions, pc, announced, saved, overtaken>>
      BY <1>15 DEF EmitMovement, Running, loopVars, redisVars
    <2>2. CASE Done
      BY <2>1, <2>2, <1>9 DEF AnnouncesFor, Running
    <2>3. CASE UNCHANGED queue /\ step' = "emit"
      BY <2>1, <2>3, <1>11
    <2> QED BY <1>15, <2>2, <2>3 DEF EmitMovement, Apply
  <1>16. CASE PublishReading
    <2>1. /\ step = "emit"
          /\ UNCHANGED <<overrides, global, transitions, pc, announced, saved, overtaken>>
      BY <1>16 DEF PublishReading, simVars, loopVars, redisVars
    <2>2. CASE Running("movement") /\ Done
      BY <2>1, <2>2, <1>9 DEF AnnouncesFor, Running
    <2>3. CASE Running("command") /\ step' = "force" /\ UNCHANGED queue
      BY <2>1, <2>3, <1>11 DEF Running
    <2> QED BY <1>16, <2>2, <2>3 DEF PublishReading
  <1>17. CASE AnnounceCommand
    <2>1. /\ Running("command") /\ queue # <<>> /\ step = "announce" /\ step' = "save"
          /\ UNCHANGED <<overrides, global, transitions, queue, pc, overtaken>> /\ pc # "boot"
      BY <1>0, <1>17 DEF AnnounceCommand, Running, simVars, loopVars
    <2>2. ASSUME NEW z \in Zones \ overtaken PROVE Told(z)'
      <3>1. Told(z) /\ Present(z)' = Present(z) /\ ~AnnouncesFor(z)'
        BY <2>1, <2>2 DEF Announced, Present, AnnouncesFor
      <3>2. WaitsFor(z)' <=> WaitsFor(z)
        BY <2>1 DEF WaitsFor
      <3>3. announced'[z] = IF AnnouncesFor(z) THEN command.scenario ELSE announced[z]
        BY <1>0, <1>17, <2>1, <2>2 DEF AnnounceCommand, AnnouncesFor
      <3> QED BY <2>1, <3>1, <3>2, <3>3 DEF Told
    <2> QED BY <2>1, <2>2 DEF Announced
  <1>18. CASE AnnounceTransition
    <2>1. /\ Head(queue).kind = "transition" /\ queue # <<>> /\ queue' = Tail(queue) /\ step' = "begin"
          /\ announced' = [announced EXCEPT ![Head(queue).zone] = Head(queue).to]
          /\ UNCHANGED <<overrides, global, transitions, pc, overtaken>> /\ pc # "boot"
      BY <1>0, <1>18 DEF AnnounceTransition, Running, Done, simVars, loopVars
    <2>2. ASSUME NEW z \in Zones \ overtaken PROVE Told(z)'
      <3>1. Told(z) /\ Present(z)' = Present(z) /\ ~AnnouncesFor(z) /\ ~AnnouncesFor(z)'
        BY <2>1, <2>2 DEF Announced, Present, AnnouncesFor, Running
      <3>2. /\ HasEnd(queue, z) <=> (HasEnd(queue', z) \/ Head(queue).zone = z)
            /\ EndsTell(queue, z, Present(z))
                 <=> (/\ EndsTell(queue', z, Present(z))
                      /\ (Head(queue).zone = z => Head(queue).to = Present(z)))
        BY <1>0, <2>1, TailEnds
      <3>3. CASE Head(queue).zone = z
        <4>1. announced'[z] = Present(z)
          BY <1>0, <2>1, <2>2, <3>1, <3>2, <3>3 DEF Told
        <4> QED BY <2>1, <3>1, <3>2, <4>1 DEF Told
      <3>4. CASE Head(queue).zone # z
        <4>1. announced'[z] = announced[z] /\ (WaitsFor(z)' <=> WaitsFor(z))
          BY <1>0, <2>1, <2>2, <3>2, <3>4 DEF WaitsFor
        <4> QED BY <2>1, <2>2, <3>1, <3>2, <4>1, ToldStays
      <3> QED BY <3>3, <3>4
    <2> QED BY <2>1, <2>2 DEF Announced
  <1>19. CASE AnnounceStart
    BY <1>19, <1>9
    DEF AnnounceStart, Running, AnnouncesFor, simVars, loopVars, redisVars, historyVars
  <1>20. CASE WriteState
    <2>1. /\ queue # <<>> /\ Done /\ step = "write" /\ (Running("command") \/ Running("save"))
          /\ UNCHANGED <<overrides, global, transitions, pc, announced, overtaken>>
      BY <1>20 DEF WriteState, Fit, Running, simVars, loopVars
    <2> QED BY <2>1, <1>9 DEF AnnouncesFor, Running
  <1>21. CASE TaskFails
    <2>1. /\ queue # <<>> /\ Done
          /\ UNCHANGED <<overrides, global, transitions, pc, announced, saved>>
          /\ overtaken' = IF Running("transition") THEN overtaken \cup {Head(queue).zone}
                          ELSE IF step = "announce" THEN Zones ELSE overtaken
      BY <1>21 DEF TaskFails, Fit, Running, simVars, loopVars, redisVars
    <2>2. overtaken \subseteq overtaken'
      BY <1>0, <2>1
    <2>3. \A z \in Zones \ overtaken' :
            ~AnnouncesFor(z) /\ ~(Head(queue).kind = "transition" /\ Head(queue).zone = z)
      BY <2>1 DEF AnnouncesFor, Running
    <2> QED BY <2>1, <2>2, <2>3, <1>9
  <1>24. CASE SkipSave
    <2>1. /\ queue # <<>> /\ Done /\ step # "announce" /\ ~Running("transition")
          /\ UNCHANGED <<overrides, global, transitions, pc, announced, saved, overtaken>>
      BY <1>24 DEF SkipSave, SaveIsDue, Running, simVars, loopVars, redisVars
    <2> QED BY <2>1, <1>9 DEF AnnouncesFor, Running
  <1>22. CASE Crash
    <2>1. /\ pc # "boot" /\ pc' = "boot" /\ transitions' = {} /\ UNCHANGED <<saved, announced>>
          /\ overtaken' = IF Settled THEN overtaken ELSE Zones
      BY <1>22 DEF Crash, redisVars
    <2>2. ASSUME NEW z \in Zones \ overtaken' PROVE Remembered(z)'
      <3>1. Settled /\ z \in Zones \ overtaken
        BY <2>1, <2>2
      <3>2. pc = "poll" /\ queue = <<>> /\ step = "begin" /\ ~unsaved /\ transitions = {}
        BY <1>0, <3>1 DEF Settled, Announced
      <3>3. ~AnnouncesFor(z) /\ ~WaitsFor(z)
        BY <3>2 DEF AnnouncesFor, WaitsFor, HasEnd
      <3>4. announced[z] = Present(z)
        BY <3>1, <3>2, <3>3 DEF Announced, Told
      <3>5. Kept
        BY <3>2 DEF Saving, Later, SaveAhead, UnderWay, Running
      <3>6. CASE saved = {Snapshot}
        <4>1. Snapshot.overrides = overrides /\ Snapshot.global = global
          BY DEF Snapshot
        <4>2. \A s \in saved' : announced'[z] = ScenarioUnder(s.overrides[z], s.global)
          BY <2>1, <3>4, <3>6, <4>1 DEF Present
        <4> QED BY <2>1, <3>6, <4>2 DEF Remembered
      <3>7. CASE saved = {} /\ Snapshot = Fresh
        <4>1. global = "NORMAL" /\ overrides[z] = NoOverride
          BY <2>2, <3>7 DEF Snapshot, Fresh
        <4> QED BY <2>1, <3>4, <3>7, <4>1 DEF Remembered, Present, ScenarioUnder
      <3> QED BY <3>5, <3>6, <3>7 DEF Kept
    <2> QED BY <2>1, <2>2 DEF Announced
  <1>23. CASE CheckStatus \/ SendCommand \/ ProcessorApplies
    <2>1. /\ UNCHANGED <<overrides, global, transitions, queue, step, announced, saved, overtaken>>
          /\ pc' = "boot" <=> pc = "boot"
          /\ pc' \in {"boot", "poll"} => pc \in {"boot", "poll"} \/ transitions = {}
      BY <1>23
      DEF CheckStatus, SendCommand, ProcessorApplies, simVars, loopVars, taskVars, redisVars, historyVars
    <2>2. \A z \in Zones : AnnouncesFor(z)' <=> AnnouncesFor(z)
      BY <2>1 DEF AnnouncesFor, Running, command, TargetsOf
    <2> QED BY <2>1, <2>2, OthersKeepAnnounced
  <1> QED
    BY <1>1, <1>2, <1>5, <1>6, <1>7, <1>8, <1>10, <1>12, <1>13, <1>14, <1>15, <1>16, <1>17,
       <1>18, <1>19, <1>20, <1>21, <1>22, <1>23, <1>24
    DEF Next, Loop, Task

(* With nothing under way, the last event says of every zone the scenario  *)
(* that it has, unless an event was overtaken, left out or lost; also      *)
(* after a restart.                                                        *)
THEOREM ScenarioAnnouncedAlways == Spec => []ScenarioAnnounced
  <1>1. Init => Announced
    BY DEF Init, Announced, Remembered
  <1>2. TInv /\ Saving /\ Announced /\ [Next]_vars => Announced'
    <2>1. ASSUME Announced, UNCHANGED vars PROVE Announced'
      <3>1. \A z \in Zones : AnnouncesFor(z)' <=> AnnouncesFor(z)
        BY <2>1 DEF AnnouncesFor, Running, command, TargetsOf, vars
      <3> QED BY <2>1, <3>1, OthersKeepAnnounced DEF vars
    <2> QED BY <2>1, AnnouncedStep
  <1>3. TInv /\ Announced => ScenarioAnnounced
    <2> SUFFICES ASSUME TInv, Announced, Settled, NEW z \in Zones \ overtaken
                 PROVE  announced[z] = ScenarioUnder(overrides[z], global)
      BY DEF ScenarioAnnounced
    <2>1. pc = "poll" /\ queue = <<>> /\ step = "begin" /\ transitions = {}
      BY DEF Settled, Announced, TInv, Fit
    <2>2. ~AnnouncesFor(z) /\ ~WaitsFor(z)
      BY <2>1 DEF AnnouncesFor, WaitsFor, HasEnd
    <2> QED BY <2>1, <2>2 DEF Announced, Told, Present
  <1> QED BY <1>1, <1>2, <1>3, TInvAlways, SavingAlways, PTL DEF Spec
=============================================================================
