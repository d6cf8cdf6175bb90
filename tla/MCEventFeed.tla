----------------------------- MODULE MCEventFeed -----------------------------
(***************************************************************************)
(* Instance of EventFeed for TLC: limits so small that snapshots, feed,    *)
(* drawer and batches are full with a few entries.                         *)
(***************************************************************************)
EXTENDS EventFeed, TLC

CONSTANTS CarsA, Motos01
TwoZones == {CarsA, Motos01}
ZoneSymmetry == Permutations(TwoZones)

(* Four entries, one of them a system event, while no zone is looked at;   *)
(* three and none of them otherwise.                                       *)
EntriesBound == [inUse \in BOOLEAN |-> IF inUse THEN 3 ELSE 4]
SystemBound == [inUse \in BOOLEAN |-> IF inUse THEN 0 ELSE 1]

(* Kept is filter: it has what SelectSeq has, in the same order.           *)
ASSUME KeptIsFilter ==
  \A s \in UNION {[1..n -> 1..3] : n \in 0..4}, S \in SUBSET (1..3) :
    Kept(s, S) = SelectSeq(s, LAMBDA x : x \in S)
==============================================================================
