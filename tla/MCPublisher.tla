----------------------------- MODULE MCPublisher -----------------------------
(***************************************************************************)
(* Instance of Publisher for TLC: one zone of two spaces; a burst takes    *)
(* two cycles, "near full" and the target of a recovery are one space.     *)
(***************************************************************************)
EXTENDS Publisher

SmallConfig ==
  [fraction |-> [fraction \in Fractions |->
     CASE fraction = "massEntry" -> 60 [] fraction = "massExit" -> 60
       [] fraction = "nearFullMin" -> 50 [] fraction = "nearFullMax" -> 99
       [] fraction = "nearFullStep" -> 40 [] fraction = "fullStep" -> 40
       [] fraction = "recoveryStep" -> 40 [] fraction = "recoveryTarget" -> 50],
   ticks |-> [burst \in Bursts |-> 2]]

OneZone == {"CARS-A"}
TwoSpaces == [z \in OneZone |-> 2]
NoneTaken == [z \in OneZone |-> 0]

Scenario(scenario, zone) == [action |-> "SET_SCENARIO", scenario |-> scenario, zone |-> zone]
Plain(action) == [action |-> action]

(* A burst goes to all zones, so that both kinds of target occur.          *)
SomeCommands ==
  {Scenario(scenario, "CARS-A") :
     scenario \in {"NORMAL", "NEAR_FULL", "FULL", "RECOVERY"}}
  \cup {Scenario("HIGH_DEMAND", "ALL"), Scenario("MASS_ENTRY", "ALL")}
  \cup {Plain(action) : action \in {"PAUSE", "RESUME", "RESET"}}
  \cup {[action |-> "SET_SPEED", speed |-> 5]}
  \cup {[action |-> "FORCE", kind |-> "EXIT", zone |-> "CARS-A", count |-> 2]}

AnyFault == {"crash", "task", "offline"}
==============================================================================
