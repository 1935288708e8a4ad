---------------------------- MODULE MCPhysMemory ----------------------------
(* The instance of PhysMemory that TLC checks.                              *)
EXTENDS PhysMemory

Symmetry == Permutations(Pids) \cup Permutations(Threads) \cup Permutations(Blocks)
            \cup Permutations(Entries)
=============================================================================
