------------------------------ MODULE RwAccess ------------------------------
(***************************************************************************)
(* ExclusiveAccess for a lock whose only sharer may become the owner, and  *)
(* whose owner may become a sharer, without letting anybody in between.    *)
(***************************************************************************)
EXTENDS ExclusiveAccess

Upgrade(u) ==
  /\ sharers = {u}
  /\ sharers' = {}
  /\ owner' = u

Downgrade(u) ==
  /\ owner = u
  /\ sharers' = {u}
  /\ owner' = Nobody

RwNext == Next \/ \E u \in Users : Upgrade(u) \/ Downgrade(u)

RwSpec == Init /\ [][RwNext]_vars
=============================================================================
