----------------------------- MODULE MCCallRcu -----------------------------
(* CallRcu for the call_rcu thread, another thread and two nodes. No symmetry: *)
(* the run checks liveness.                                                    *)
EXTENDS CallRcu
=============================================================================
