--------------------------- MODULE MCCpuExclusive ---------------------------
(* CpuExclusive with the vCPUs as interchangeable model values. *)
EXTENDS CpuExclusive, TLC

Symmetry == Permutations(CPUs)
=============================================================================
