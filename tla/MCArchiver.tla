----------------------------- MODULE MCArchiver -----------------------------
(***************************************************************************)
(* Instance of Archiver for TLC: how often each fault may happen.          *)
(***************************************************************************)
EXTENDS Archiver

Faults(crash, write, reply, reset, trim, purge) ==
  [crash |-> crash, write |-> write, reply |-> reply, reset |-> reset,
   trim |-> trim, purge |-> purge]

EveryFault == Faults(1, 1, 1, 1, 1, 1)
=============================================================================
