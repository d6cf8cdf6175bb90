------------------------------ MODULE SensorLog ------------------------------
(***************************************************************************)
(* What the sensor pipeline promises about its durable side, whatever      *)
(* happens to connections and processes: parking:stream only grows, the    *)
(* Processor applies sensor events one at a time in stream order and each  *)
(* at most once, and the checkpoint always names the last event applied.   *)
(*                                                                         *)
(* It says nothing about completeness: an event may be overtaken for good. *)
(* EventDelivery refines this module.                                      *)
(***************************************************************************)
EXTENDS Naturals, Sequences

CONSTANT Kinds       \* the kinds of stream entries; "SENSOR" is one of them

VARIABLES
  stream,            \* kind of each entry of parking:stream; its ID is its index
  log,               \* IDs of the sensor events applied to the zone state
  checkpoint         \* parking:processor:checkpoint, 0 while it is unset

vars == <<stream, log, checkpoint>>

(* s grew to t by entries of the given kind alone. *)
Extends(s, t, kind) ==
  /\ Len(s) <= Len(t)
  /\ \A k \in 1..Len(s) : t[k] = s[k]
  /\ \A k \in Len(s)+1..Len(t) : t[k] = kind

(* streamIdGreaterThan against every event already applied. *)
Newer(id) == \A k \in 1..Len(log) : log[k] < id

Init ==
  /\ stream = <<>>
  /\ log = <<>>
  /\ checkpoint = 0

(* The Publisher adds an entry. *)
Record(kind) ==
  /\ kind \in Kinds
  /\ stream' = Append(stream, kind)
  /\ UNCHANGED <<log, checkpoint>>

(* The Processor applies a sensor event newer than all the others: zone    *)
(* hash, ranking, statistics, derived events and checkpoint, together.     *)
Apply(id) ==
  /\ stream[id] = "SENSOR"
  /\ Newer(id)
  /\ log' = Append(log, id)
  /\ checkpoint' = id
  /\ Extends(stream, stream', "OTHER")

Next ==
  \/ \E kind \in Kinds : Record(kind)
  \/ \E id \in 1..Len(stream) : Apply(id)

Spec == Init /\ [][Next]_vars
=============================================================================
