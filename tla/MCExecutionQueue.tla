-------------------------- MODULE MCExecutionQueue --------------------------
(***************************************************************************)
(* ExecutionQueue for TLC: two users, who must not get in each other's way,*)
(* and four tasks in any split and any priorities: a running task, one     *)
(* that waits, one that overtakes it and one that goes behind it.          *)
(***************************************************************************)
EXTENDS ExecutionQueue

CONSTANTS alice, bob

MCUser == {alice, bob}
=============================================================================
