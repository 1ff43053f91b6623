----------------------------- MODULE MCVcpuLoop -----------------------------
(* VcpuLoop with two vCPUs. No symmetry: the run checks liveness.           *)
EXTENDS VcpuLoop
=============================================================================
