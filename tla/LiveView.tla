------------------------------ MODULE LiveView ------------------------------
(***************************************************************************)
(* What a live dashboard promises about the things it shows. Every item    *)
(* (a zone, an alert, the simulator) has a current version in Redis and    *)
(* one on the screen. The screen never shows what has not happened, and it *)
(* catches up with every change except those that are given up: a view     *)
(* may stay behind only as far as "lost" reaches.                          *)
(*                                                                         *)
(* Dashboard refines this module.                                          *)
(***************************************************************************)
EXTENDS Naturals

CONSTANTS
  Items,             \* what is shown
  Versions           \* the versions that an item can have

VARIABLES
  current,           \* version of each item in Redis
  shown,             \* version on the screen, 0 for none
  lost               \* newest version of each item that was given up

vars == <<current, shown, lost>>

Init ==
  /\ current = [i \in Items |-> 1]
  /\ shown = [i \in Items |-> 0]
  /\ lost = [i \in Items |-> 0]

Change(i) ==
  /\ current' = [current EXCEPT ![i] = @ + 1]
  /\ UNCHANGED <<shown, lost>>

(* Faults give up versions; they take nothing back.                        *)
GiveUp ==
  /\ \A i \in Items : lost[i] <= lost'[i] /\ lost'[i] <= current[i]
  /\ UNCHANGED <<current, shown>>

(* The screen changes, to versions that have been; it may go back to an    *)
(* older one.                                                              *)
Show ==
  /\ \A i \in Items :
       /\ shown'[i] <= current[i]
       /\ lost[i] <= lost'[i] /\ lost'[i] <= current[i]
  /\ UNCHANGED current

Next == Show \/ GiveUp \/ \E i \in Items : Change(i)

(* Every version is on the screen in the end, or a newer one, and stays    *)
(* there, unless it was given up.                                          *)
Liveness ==
  \A i \in Items, v \in Versions :
    current[i] >= v ~> [](shown[i] >= v \/ lost[i] >= v)

Safety == Init /\ [][Next]_vars

Spec == Safety /\ Liveness
=============================================================================
