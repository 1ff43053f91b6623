------------------------------ MODULE CoMutex ------------------------------
(***************************************************************************)
(* qemu_co_mutex_lock and qemu_co_mutex_unlock (qemu-coroutine-lock.c):    *)
(* a mutex for coroutines that run in different threads, with a lock-free  *)
(* queue of waiters and a hand-off protocol by which a lock() takes over   *)
(* from a concurrent unlock() the duty to wake somebody.                   *)
(*                                                                         *)
(* Every coroutine is taken to run in a thread of its own.  A step is one  *)
(* access to `locked`, `handoff`, `from_push` or `to_pop`; move_waiters,   *)
(* whose intermediate states has_waiters cannot tell apart, is one step.   *)
(* mutex->ctx only tunes the spinning, which may stop at any time here.    *)
(***************************************************************************)
EXTENDS Naturals, Sequences, FiniteSets, SequencesExt

CONSTANTS
  Coroutines,
  NoCo,          \* NULL
  MaxSequence    \* the largest value of `sequence` before it wraps to 1

ASSUME CoroutinesAssumption == IsFiniteSet(Coroutines) /\ NoCo \notin Coroutines
ASSUME SequenceAssumption == MaxSequence \in Nat \ {0}

VARIABLES
  locked,        \* holder plus lock() calls past their increment
  holder,
  from_push,     \* stack of wait records, last one first
  to_pop,        \* wait records in the order they will be woken
  handoff,       \* 0, or the number of the hand-off on offer
  sequence,
  local,         \* old_handoff, our_handoff of each coroutine
  woken,         \* coroutines passed to aio_co_wake and not yet resumed
  pc

vars == <<locked, holder, from_push, to_pop, handoff, sequence, local, woken, pc>>
queueVars == <<from_push, to_pop>>
handVars == <<handoff, sequence, local>>

LockLocations == {"fast", "spin", "inc", "push", "read_handoff", "lock_has",
                  "lock_has_push", "lock_cas", "lock_move", "lock_pop", "yield",
                  "acquired"}
UnlockLocations == {"dec", "move", "pop", "offer", "has", "has_push", "cas"}
Locations == {"idle", "held"} \cup LockLocations \cup UnlockLocations

TypeOK ==
  /\ locked \in 0..Cardinality(Coroutines)
  /\ holder \in Coroutines \cup {NoCo}
  /\ from_push \in Seq(Coroutines)
  /\ to_pop \in Seq(Coroutines)
  /\ handoff \in 0..MaxSequence
  /\ sequence \in 0..MaxSequence
  /\ local \in [Coroutines -> 0..MaxSequence]
  /\ woken \in SUBSET Coroutines
  /\ pc \in [Coroutines -> Locations]

\* qemu_co_mutex_init
Init ==
  /\ locked = 0
  /\ holder = NoCo
  /\ from_push = <<>> /\ to_pop = <<>>
  /\ handoff = 0 /\ sequence = 0
  /\ local = [c \in Coroutines |-> 0]
  /\ woken = {}
  /\ pc = [c \in Coroutines |-> "idle"]

Go(c, loc) == pc' = [pc EXCEPT ![c] = loc]

-----------------------------------------------------------------------------
(* The queue of waiters *)

\* The first half of pop_waiter refills to_pop when it is empty, oldest first.
MoveWaiters ==
  IF to_pop = <<>>
    THEN to_pop' = Reverse(from_push) /\ from_push' = <<>>
    ELSE UNCHANGED queueVars

\* The second half takes the first record, if there is one.
RemoveHead == to_pop' = Tail(to_pop) /\ UNCHANGED from_push

\* has_waiters as written: true unless both lists have an entry.  It reads
\* to_pop at location `here` and, unless that is empty, from_push at `next`.
has_waiters(c, here, next, yes, no) ==
  \/ pc[c] = here /\ Go(c, IF to_pop = <<>> THEN yes ELSE next)
  \/ pc[c] = next /\ Go(c, IF from_push = <<>> THEN yes ELSE no)

-----------------------------------------------------------------------------
(* qemu_co_mutex_lock *)

qemu_co_mutex_lock(c) ==
  /\ pc[c] = "idle"
  /\ Go(c, "fast")
  /\ UNCHANGED <<locked, holder, queueVars, handVars, woken>>

LockFast(c) ==
  /\ pc[c] = "fast"
  /\ locked' = IF locked = 0 THEN 1 ELSE locked
  /\ Go(c, IF locked = 0 THEN "acquired" ELSE IF locked = 1 THEN "spin" ELSE "inc")
  /\ UNCHANGED <<holder, queueVars, handVars, woken>>

\* Up to 1000 rounds, or until the holder turns out to run in this thread.
SpinRetry(c) ==
  /\ pc[c] = "spin"
  /\ locked = 0
  /\ Go(c, "fast")
  /\ UNCHANGED <<locked, holder, queueVars, handVars, woken>>

SpinEnd(c) ==
  /\ pc[c] = "spin"
  /\ Go(c, "inc")
  /\ UNCHANGED <<locked, holder, queueVars, handVars, woken>>

LockIncrement(c) ==
  /\ pc[c] = "inc"
  /\ locked' = locked + 1
  /\ Go(c, IF locked = 0 THEN "acquired" ELSE "push")
  /\ UNCHANGED <<holder, queueVars, handVars, woken>>

push_waiter(c) ==
  /\ pc[c] = "push"
  /\ from_push' = <<c>> \o from_push
  /\ Go(c, "read_handoff")
  /\ UNCHANGED <<locked, holder, to_pop, handVars, woken>>

ReadHandoff(c) ==
  /\ pc[c] = "read_handoff"
  /\ local' = [local EXCEPT ![c] = handoff]
  /\ Go(c, IF handoff = 0 THEN "yield" ELSE "lock_has")
  /\ UNCHANGED <<locked, holder, queueVars, handoff, sequence, woken>>

LockHasWaiters(c) ==
  /\ has_waiters(c, "lock_has", "lock_has_push", "lock_cas", "yield")
  /\ UNCHANGED <<locked, holder, queueVars, handVars, woken>>

MutKeepOffer(c) ==
  /\ pc[c] = "lock_cas"
  /\ Go(c, IF handoff = local[c] THEN "lock_move" ELSE "yield")
  /\ UNCHANGED <<locked, holder, queueVars, handVars, woken>>

LockTakeHandoff(c) ==
  /\ pc[c] = "lock_cas"
  /\ IF handoff = local[c]
       THEN handoff' = 0 /\ Go(c, "lock_move")
       ELSE UNCHANGED handoff /\ Go(c, "yield")
  /\ UNCHANGED <<locked, holder, queueVars, sequence, local, woken>>

LockMove(c) ==
  /\ pc[c] = "lock_move"
  /\ MoveWaiters
  /\ Go(c, "lock_pop")
  /\ UNCHANGED <<locked, holder, handVars, woken>>

\* The record is dereferenced without a check: NoConcurrentPop is about it.
LockPop(c) ==
  /\ pc[c] = "lock_pop"
  /\ to_pop # <<>>
  /\ RemoveHead
  /\ IF Head(to_pop) = c
       THEN Go(c, "acquired") /\ UNCHANGED woken
       ELSE Go(c, "yield") /\ woken' = woken \cup {Head(to_pop)}
  /\ UNCHANGED <<locked, holder, handVars>>

\* A coroutine is entered again only after it has yielded.
Resume(c) ==
  /\ pc[c] = "yield"
  /\ c \in woken
  /\ woken' = woken \ {c}
  /\ Go(c, "acquired")
  /\ UNCHANGED <<locked, holder, queueVars, handVars>>

LockReturn(c) ==
  /\ pc[c] = "acquired"
  /\ holder' = c
  /\ Go(c, "held")
  /\ UNCHANGED <<locked, queueVars, handVars, woken>>

-----------------------------------------------------------------------------
(* qemu_co_mutex_unlock *)

qemu_co_mutex_unlock(c) ==
  /\ pc[c] = "held"
  /\ holder' = NoCo
  /\ Go(c, "dec")
  /\ UNCHANGED <<locked, queueVars, handVars, woken>>

UnlockDecrement(c) ==
  /\ pc[c] = "dec"
  /\ locked' = locked - 1
  /\ Go(c, IF locked = 1 THEN "idle" ELSE "move")
  /\ UNCHANGED <<holder, queueVars, handVars, woken>>

UnlockMove(c) ==
  /\ pc[c] = "move"
  /\ MoveWaiters
  /\ Go(c, "pop")
  /\ UNCHANGED <<locked, holder, handVars, woken>>

MutGiveUp(c) ==
  /\ pc[c] = "pop"
  /\ IF to_pop = <<>>
       THEN UNCHANGED <<queueVars, woken>>
       ELSE RemoveHead /\ woken' = woken \cup {Head(to_pop)}
  /\ Go(c, "idle")
  /\ UNCHANGED <<locked, holder, handVars>>

UnlockPop(c) ==
  /\ pc[c] = "pop"
  /\ IF to_pop = <<>>
       THEN Go(c, "offer") /\ UNCHANGED <<queueVars, woken>>
       ELSE RemoveHead /\ woken' = woken \cup {Head(to_pop)} /\ Go(c, "idle")
  /\ UNCHANGED <<locked, holder, handVars>>

NextSequence(s) == IF s = MaxSequence THEN 1 ELSE s + 1

OfferHandoff(c) ==
  /\ pc[c] = "offer"
  /\ sequence' = NextSequence(sequence)
  /\ handoff' = sequence'
  /\ local' = [local EXCEPT ![c] = sequence']
  /\ Go(c, "has")
  /\ UNCHANGED <<locked, holder, queueVars, woken>>

UnlockHasWaiters(c) ==
  /\ has_waiters(c, "has", "has_push", "cas", "idle")
  /\ UNCHANGED <<locked, holder, queueVars, handVars, woken>>

MutRetryUnclaimed(c) ==
  /\ pc[c] = "cas"
  /\ handoff' = 0
  /\ Go(c, "move")
  /\ UNCHANGED <<locked, holder, queueVars, sequence, local, woken>>

UnlockTakeHandoff(c) ==
  /\ pc[c] = "cas"
  /\ IF handoff = local[c]
       THEN handoff' = 0 /\ Go(c, "move")
       ELSE UNCHANGED handoff /\ Go(c, "idle")
  /\ UNCHANGED <<locked, holder, queueVars, sequence, local, woken>>

-----------------------------------------------------------------------------
Lock(c) ==
  \/ LockFast(c) \/ SpinRetry(c) \/ SpinEnd(c) \/ LockIncrement(c)
  \/ push_waiter(c) \/ ReadHandoff(c) \/ LockHasWaiters(c) \/ LockTakeHandoff(c)
  \/ LockMove(c) \/ LockPop(c) \/ Resume(c) \/ LockReturn(c)

Unlock(c) ==
  \/ qemu_co_mutex_unlock(c) \/ UnlockDecrement(c) \/ UnlockMove(c) \/ UnlockPop(c)
  \/ OfferHandoff(c) \/ UnlockHasWaiters(c) \/ UnlockTakeHandoff(c)

Next == \E c \in Coroutines : qemu_co_mutex_lock(c) \/ Lock(c) \/ Unlock(c)

Spec == Init /\ [][Next]_vars

\* Every thread runs, and every critical section ends.
FairSpec == Spec /\ \A c \in Coroutines : WF_vars(Lock(c)) /\ WF_vars(Unlock(c))

-----------------------------------------------------------------------------
(* Properties *)

Owners  == {c \in Coroutines : pc[c] \in {"acquired", "held", "dec"}}
Poppers == {c \in Coroutines : pc[c] \in {"lock_move", "lock_pop", "move", "pop", "offer"}}

\* The duty to pass the mutex on is with exactly one party as long as the mutex
\* is locked, and with nobody otherwise: its owner, a woken coroutine, the one
\* that pops the queue, or the hand-off on offer.
OneResponsible ==
  Cardinality(Owners) + Cardinality(Poppers) + Cardinality(woken)
    + (IF handoff = 0 THEN 0 ELSE 1) = (IF locked = 0 THEN 0 ELSE 1)

\* There are never two concurrent pop_waiter() calls (the comment above the wait
\* records), and the lock() that took a hand-off finds a record to pop.
NoConcurrentPop ==
  /\ \A c, d \in Poppers : c = d
  /\ \A c \in Coroutines : pc[c] = "lock_pop" => to_pop # <<>>

\* The assertions of qemu_co_mutex_unlock: the mutex is locked, and by us.
UnlockAsserts ==
  \A c \in Coroutines : pc[c] = "held" => locked > 0 /\ holder = c

Waiters == {c \in Coroutines \ woken :
              pc[c] \in {"push", "read_handoff", "lock_has", "lock_has_push",
                         "lock_cas", "lock_move", "lock_pop", "yield"}}

\* `locked` counts the owner-to-be and the coroutines that wait, and the queue
\* holds exactly the waiting coroutines that have pushed themselves, once each.
LockedCountsWaiters ==
  /\ locked = Cardinality(Waiters) + (IF locked = 0 THEN 0 ELSE 1)
                - (IF Poppers = {} /\ handoff = 0 THEN 0 ELSE 1)
  /\ \A c \in Coroutines :
       Cardinality({i \in DOMAIN from_push : from_push[i] = c})
         + Cardinality({i \in DOMAIN to_pop : to_pop[i] = c})
         = IF c \in Waiters /\ pc[c] # "push" THEN 1 ELSE 0

\* Nothing corrupts the mutex: what its queue, `locked` and `holder` say of the
\* coroutines is true at every step of concurrent lock() and unlock() calls.
MutexConsistent ==
  TypeOK /\ OneResponsible /\ NoConcurrentPop /\ UnlockAsserts /\ LockedCountsWaiters

\* A lock() that has counted itself in gets the mutex: no waiter is forgotten
\* between a lock() that queues itself and an unlock() that found the queue empty.
WaiterGetsLock ==
  \A c \in Coroutines : pc[c] = "push" ~> pc[c] = "held"

LockOwner == IF Owners = {} THEN NoCo ELSE CHOOSE c \in Owners : TRUE

\* A CoMutex is an exclusive lock.
Access == INSTANCE ExclusiveAccess
            WITH Users <- Coroutines, Nobody <- NoCo, sharers <- {}, owner <- LockOwner

\* Acquiring and releasing the mutex implements exclusive access.
ImplementsLock == Access!Spec
=============================================================================
