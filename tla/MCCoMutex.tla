----------------------------- MODULE MCCoMutex -----------------------------
(* CoMutex with interchangeable coroutines. *)
EXTENDS CoMutex, TLC

Symmetry == Permutations(Coroutines)
=============================================================================
