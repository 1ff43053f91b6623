-------------------------- MODULE MCQcow2Metadata --------------------------
(* Qcow2Metadata with two guest and two host clusters, interchangeable.    *)
EXTENDS Qcow2Metadata, TLC

Symmetry == Permutations(Guest) \cup Permutations(Host)
=============================================================================
