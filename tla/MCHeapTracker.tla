--------------------------- MODULE MCHeapTracker ---------------------------
(* Small instances of HeapTracker for TLC. *)
EXTENDS HeapTracker, TLC

(* Threads and addresses are interchangeable. *)
HeapSymmetry == Permutations(Threads) \cup Permutations(Objs)
=============================================================================
