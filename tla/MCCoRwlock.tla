----------------------------- MODULE MCCoRwlock -----------------------------
(* CoRwlock for a handful of coroutines. *)
EXTENDS CoRwlock
=============================================================================
