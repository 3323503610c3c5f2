---------------------------- MODULE MachineInts ----------------------------
(***************************************************************************)
(* The type int.                                                           *)
(***************************************************************************)
EXTENDS Integers

CONSTANT IntMax   \* the largest int

ASSUME IntAssumption == IntMax \in Nat

(* n + 1 on an int, as the supported builds wrap it.                       *)
Plus1(n) == IF n = IntMax THEN -(IntMax + 1) ELSE n + 1
=============================================================================
