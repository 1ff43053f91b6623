---------------------------- MODULE MCThreadPool ----------------------------
(* ThreadPool with two workers at most; one request has no completion function. *)
EXTENDS ThreadPool
=============================================================================
