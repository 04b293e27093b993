------------------------------- MODULE MCVma -------------------------------
(* Vma for TLC: processes differ in nothing but their names, and what      *)
(* comes after the promises of a zone are off is not followed.             *)
EXTENDS Vma, TLC

(* The second object has no room at all. *)
MCCapacity == <<3, 1>>

Symmetry == Permutations(Procs)

Promised == clash = {} /\ faults = {} /\ ~twice /\ hurt = {}
=============================================================================
