--------------------------- MODULE ScenarioManager ---------------------------
(***************************************************************************)
(* apps/publisher/src/simulation/scenario-manager.ts: what one zone may do *)
(* in the next cycle under its scenario, and when a scenario ends.         *)
(*                                                                         *)
(* Random numbers become sets: a plan is any that the generator can draw.  *)
(* Fractions of config/simulation.json are in hundredths.                  *)
(***************************************************************************)
EXTENDS Integers, Sequences, FiniteSets

CONSTANTS
  Config,            \* "scenarios" of config/simulation.json
  MaxMoves           \* bound: movements that poisson() draws for a zone

Fractions == {"massEntry", "massExit", "nearFullMin", "nearFullMax",
              "nearFullStep", "fullStep", "recoveryStep", "recoveryTarget"}

GLOBAL_SCENARIOS == {"NORMAL", "HIGH_DEMAND"}
Bursts == {"MASS_ENTRY", "MASS_EXIT"}
ScenarioNames == GLOBAL_SCENARIOS \cup Bursts \cup {"NEAR_FULL", "FULL", "RECOVERY"}
Kinds == {"ENTRY", "EXIT"}

(* SimulationConfigSchema asks for numbers above zero, and no more: that   *)
(* targetMin, targetMax and target are fractions in order is assumed.      *)
ASSUME ScenarioAssumption ==
  /\ Config \in [fraction : [Fractions -> Nat], ticks : [Bursts -> Nat \ {0}]]
  /\ Config.fraction["nearFullMin"] <= Config.fraction["nearFullMax"]
  /\ Config.fraction["nearFullMin"] <= 100
  /\ Config.fraction["recoveryTarget"] <= 100
  /\ MaxMoves \in Nat

(* remainingTicks: null                                                    *)
Unlimited == -1

Overrides == [scenario : ScenarioNames, left : {Unlimited} \cup Nat]
NoOverride == [scenario |-> "NONE", left |-> Unlimited]

ScenarioUnder(override, global) ==
  IF override = NoOverride THEN global ELSE override.scenario

NewOverride(scenario) ==
  [scenario |-> scenario,
   left |-> IF scenario \in Bursts THEN Config.ticks[scenario] ELSE Unlimited]

------------------------------------------------------------------------------
Least(a, b) == IF a <= b THEN a ELSE b
Greatest(a, b) == IF a >= b THEN a ELSE b
Ceil(a, b) == (a + b - 1) \div b

Repeat(kind, n) == [i \in 1..n |-> kind]

(* Math.max(1, Math.round(step * cap * between(low, high))), low and high  *)
(* in tenths.                                                              *)
Steps(step, cap, low, high) ==
  Greatest(1, (Config.fraction[step] * cap * low + 500) \div 1000)
    ..Greatest(1, (Config.fraction[step] * cap * high + 500) \div 1000)

(* What a zone holds after the first n movements of a plan.                *)
After(occupied, plan, n) ==
  occupied + Cardinality({i \in 1..n : plan[i] = "ENTRY"})
           - Cardinality({i \in 1..n : plan[i] = "EXIT"})

(* Random walks that the generator keeps between two values.               *)
Walks(occupied, low, high) ==
  {plan \in UNION {[1..n -> Kinds] : n \in 0..MaxMoves} :
     \A n \in 1..Len(plan) : After(occupied, plan, n) \in low..high}

BasePlans(occupied, cap) == Walks(occupied, 0, cap)

BurstPlans(scenario, occupied, cap) ==
  LET fraction == IF scenario = "MASS_ENTRY" THEN "massEntry" ELSE "massExit"
      perTick == Greatest(1, Ceil(Config.fraction[fraction] * cap, 100 * Config.ticks[scenario]))
  IN  IF scenario = "MASS_ENTRY" THEN {Repeat("ENTRY", Least(perTick, cap - occupied))}
      ELSE {Repeat("EXIT", Least(perTick, occupied))}

NearFullMin(cap) == Ceil(Config.fraction["nearFullMin"] * cap, 100)
NearFullMax(cap) == Least(cap - 1, (Config.fraction["nearFullMax"] * cap) \div 100)

NearFullPlans(occupied, cap) ==
  IF occupied < NearFullMin(cap)
  THEN {Repeat("ENTRY", Least(step, NearFullMax(cap) - occupied)) :
          step \in Steps("nearFullStep", cap, 7, 13)}
  ELSE IF occupied > NearFullMax(cap)
  THEN {Repeat("EXIT", occupied - NearFullMax(cap))}
  ELSE Walks(occupied, NearFullMin(cap), NearFullMax(cap))

FullPlans(occupied, cap) ==
  IF occupied < cap
  THEN {Repeat("ENTRY", Least(step, cap - occupied)) : step \in Steps("fullStep", cap, 8, 12)}
  ELSE {<<>>, <<"EXIT", "ENTRY">>}

RecoveryTarget(cap) == (Config.fraction["recoveryTarget"] * cap) \div 100

RecoveryPlans(occupied, cap) ==
  {Repeat("EXIT", Least(step, occupied - RecoveryTarget(cap))) \o entry :
     step \in Steps("recoveryStep", cap, 8, 12), entry \in {<<>>, <<"ENTRY">>}}

Recovered(override, occupied, cap) ==
  override.scenario = "RECOVERY" /\ occupied <= RecoveryTarget(cap)

(* consumeTick                                                             *)
BurstOver(override) == override.scenario \in Bursts /\ override.left = 1

(* The zone goes back to the global scenario.                              *)
Ends(override, occupied, cap) ==
  BurstOver(override) \/ Recovered(override, occupied, cap)

(* Mutation: a burst is not counted down.                                  *)
OverrideKept(override, occupied, cap) ==
  IF Ends(override, occupied, cap) THEN NoOverride ELSE override

OverrideAfter(override, occupied, cap) ==
  IF Ends(override, occupied, cap) THEN NoOverride
  ELSE IF override.scenario \in Bursts THEN [override EXCEPT !.left = @ - 1]
  ELSE override

Plans(override, global, occupied, cap) ==
  LET scenario == ScenarioUnder(override, global)
  IN  IF scenario \in Bursts THEN BurstPlans(scenario, occupied, cap)
      ELSE IF scenario = "NEAR_FULL" THEN NearFullPlans(occupied, cap)
      ELSE IF scenario = "FULL" THEN FullPlans(occupied, cap)
      ELSE IF scenario = "RECOVERY" /\ ~Recovered(override, occupied, cap)
      THEN RecoveryPlans(occupied, cap)
      ELSE BasePlans(occupied, cap)
=============================================================================
