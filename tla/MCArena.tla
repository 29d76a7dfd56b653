------------------------------ MODULE MCArena ------------------------------
(***************************************************************************)
(* Arena with few slots and threads.  Spec treats all threads alike and     *)
(* states no fairness, so TLC may take them up to permutation.              *)
(***************************************************************************)
EXTENDS Arena, TLC

Symmetry == Permutations(Threads)
=============================================================================
