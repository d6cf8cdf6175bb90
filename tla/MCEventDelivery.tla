--------------------------- MODULE MCEventDelivery ---------------------------
(***************************************************************************)
(* Instances of EventDelivery for TLC: how often each fault may happen.    *)
(***************************************************************************)
EXTENDS EventDelivery

Faults(crash, disconnect, task, publish) ==
  [crash |-> crash, disconnect |-> disconnect, task |-> task,
   publish |-> publish]

EachFaultOnce == Faults(1, 1, 1, 1)
OneCrash == Faults(1, 0, 0, 0)
==============================================================================
