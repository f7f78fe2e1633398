------------------------------- MODULE Faults -------------------------------
(***************************************************************************)
(* What goes wrong around a component: each module that extends this one   *)
(* says of which actions a fault is a part.  Faults are bounded so that    *)
(* the runs are, and nothing that is proved needs the bound.               *)
(***************************************************************************)
EXTENDS Naturals

CONSTANT MaxFault  (* bound: how often anything goes wrong *)

ASSUME FaultAssumption == MaxFault \in Nat

VARIABLE faults    (* how often it has *)

Fault == faults < MaxFault /\ faults' = faults + 1
=============================================================================
