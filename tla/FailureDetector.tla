-------------------------- MODULE FailureDetector --------------------------
(***************************************************************************)
(* What a status page promises about the processes it watches: it may be   *)
(* wrong about any of them for a while, but a process that works from some *)
(* moment on is in the end never reported as stopped, and one that does    *)
(* not is in the end always reported so.                                   *)
(*                                                                         *)
(* ServiceStatus refines this module.                                      *)
(***************************************************************************)
CONSTANT Processes

VARIABLES
  working,           \* processes that work
  suspected          \* processes that are reported as stopped

vars == <<working, suspected>>

Init == working \subseteq Processes /\ suspected \subseteq Processes

(* One process starts or fails; nobody knows yet.                          *)
Change ==
  /\ \E p \in Processes : working' \in {working \cup {p}, working \ {p}}
  /\ UNCHANGED suspected

(* A new report. It cannot change what is reported on.                     *)
Report ==
  /\ suspected' \subseteq Processes
  /\ UNCHANGED working

Next == Change \/ Report

Accurate == \A p \in Processes : <>[](p \in working) => <>[](p \notin suspected)
Complete == \A p \in Processes : <>[](p \notin working) => <>[](p \in suspected)

Safety == Init /\ [][Next]_vars

Spec == Safety /\ Accurate /\ Complete
=============================================================================
