-------------------------- MODULE ExclusiveAccess --------------------------
(***************************************************************************)
(* What an exclusion mechanism with shared and exclusive holders promises: *)
(* any number of sharers, or one owner and no sharer.  It says nothing     *)
(* about locks, counters or wakeups; CpuExclusive implements it.           *)
(***************************************************************************)
CONSTANTS Users, Nobody

VARIABLES sharers, owner

vars == <<sharers, owner>>

Init == sharers = {} /\ owner = Nobody

Enter(u) ==
  /\ owner = Nobody
  /\ u \notin sharers
  /\ sharers' = sharers \cup {u}
  /\ UNCHANGED owner

Leave(u) ==
  /\ u \in sharers
  /\ sharers' = sharers \ {u}
  /\ UNCHANGED owner

Acquire(u) ==
  /\ owner = Nobody
  /\ sharers = {}
  /\ owner' = u
  /\ UNCHANGED sharers

Release(u) ==
  /\ owner = u
  /\ owner' = Nobody
  /\ UNCHANGED sharers

Next == \E u \in Users : Enter(u) \/ Leave(u) \/ Acquire(u) \/ Release(u)

Spec == Init /\ [][Next]_vars
=============================================================================
