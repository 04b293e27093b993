----------------------------- MODULE MCReactor -----------------------------
(* Small instances of Reactor for TLC. *)
EXTENDS Reactor, TLC

(* No task enqueues another. *)
NoSpawns == [t \in Tasks |-> {}]

(* The execute callback of any task may enqueue any other.                 *)
AnySpawns == [t \in Tasks |-> Tasks \ {t}]

(* Spawns treats all tasks alike in every run, so they are interchangeable. *)
TaskSymmetry == Permutations(Tasks)
=============================================================================
