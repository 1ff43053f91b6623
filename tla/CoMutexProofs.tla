--------------------------- MODULE CoMutexProofs ---------------------------
(***************************************************************************)
(* Proofs about CoMutex for every finite set of coroutines and every range *)
(* of hand-off numbers, that is also when `sequence` wraps.                *)
(***************************************************************************)
EXTENDS CoMutex, FiniteSetTheorems, SequenceTheorems, TLAPS

-----------------------------------------------------------------------------
(* What the list operations do to the elements of a queue and to its being *)
(* free of duplicates                                                      *)

\* Taking the first element off (pop_waiter).
LEMMA QueueTail ==
  ASSUME NEW S, NEW q \in Seq(S), q # <<>>
  PROVE  /\ Head(q) \in ToSet(q)
         /\ Head(q) \in S
         /\ Tail(q) \in Seq(S)
         /\ IsInjective(q) => /\ IsInjective(Tail(q))
                              /\ ToSet(Tail(q)) = ToSet(q) \ {Head(q)}
<1> DEFINE t == Tail(q)
<1>1. /\ Head(q) \in S /\ t \in Seq(S)
      /\ Len(t) = Len(q) - 1 /\ \A i \in 1..Len(t) : t[i] = q[i + 1]
  BY HeadTailProperties
<1>2. DOMAIN q = 1..Len(q) /\ DOMAIN t = 1..(Len(q) - 1) /\ Len(q) \in Nat \ {0}
  BY <1>1, LenProperties, EmptySeq
<1>3. Head(q) = q[1]  OBVIOUS
<1> HIDE DEF t
<1>4. Head(q) \in ToSet(q)  BY <1>2, <1>3 DEF ToSet
<1>5. ASSUME IsInjective(q) PROVE IsInjective(t)
  <2>1. ASSUME NEW i \in 1..(Len(q) - 1), NEW j \in 1..(Len(q) - 1), t[i] = t[j]
        PROVE  i = j
    <3>1. i + 1 \in DOMAIN q /\ j + 1 \in DOMAIN q /\ q[i + 1] = q[j + 1]
      BY <1>1, <1>2, <2>1
    <3>2. i + 1 = j + 1  BY <1>5, <3>1 DEF IsInjective
    <3> QED  BY <3>2
  <2> QED  BY <1>2, <2>1 DEF IsInjective
<1>6. ASSUME IsInjective(q) PROVE ToSet(t) = ToSet(q) \ {Head(q)}
  <2>1. ASSUME NEW i \in 1..(Len(q) - 1) PROVE t[i] \in ToSet(q) \ {q[1]}
    BY <1>1, <1>2, <1>6, <2>1 DEF IsInjective, ToSet
  <2>2. ASSUME NEW i \in 1..Len(q), q[i] # q[1] PROVE q[i] \in ToSet(t)
    <3>1. i - 1 \in 1..(Len(q) - 1) /\ q[i] = t[i - 1]  BY <1>1, <1>2, <2>2
    <3> QED  BY <3>1, <1>2 DEF ToSet
  <2> QED  BY <1>2, <1>3, <2>1, <2>2 DEF ToSet
<1> QED  BY <1>1, <1>4, <1>5, <1>6 DEF t

\* Inserting at the head (QSLIST_INSERT_HEAD_ATOMIC).
LEMMA QueuePush ==
  ASSUME NEW S, NEW q \in Seq(S), NEW c \in S
  PROVE  /\ <<c>> \o q \in Seq(S)
         /\ <<c>> \o q # <<>>
         /\ ToSet(<<c>> \o q) = ToSet(q) \cup {c}
         /\ IsInjective(q) /\ c \notin ToSet(q) => IsInjective(<<c>> \o q)
<1> DEFINE r == <<c>> \o q
<1>1. <<c>> \in Seq(S) /\ Len(<<c>>) = 1 /\ <<c>>[1] = c  OBVIOUS
<1>2. /\ r \in Seq(S) /\ Len(r) = Len(q) + 1 /\ Len(q) \in Nat
      /\ DOMAIN q = 1..Len(q) /\ DOMAIN r = 1..(Len(q) + 1)
  BY <1>1, ConcatProperties, LenProperties
<1>3. \A i \in 1..(Len(q) + 1) : r[i] = IF i = 1 THEN c ELSE q[i - 1]
  BY <1>1, <1>2, ConcatProperties
<1> HIDE DEF r
<1>4. r # <<>>  BY <1>2, EmptySeq
<1>5. ToSet(r) = ToSet(q) \cup {c}
  <2>1. ASSUME NEW i \in 1..(Len(q) + 1) PROVE r[i] \in ToSet(q) \cup {c}
    <3>1. CASE i = 1  BY <1>3, <3>1
    <3>2. CASE i # 1
      <4>1. i - 1 \in 1..Len(q) /\ r[i] = q[i - 1]  BY <1>2, <1>3, <3>2
      <4> QED  BY <1>2, <4>1 DEF ToSet
    <3> QED  BY <3>1, <3>2
  <2>2. ASSUME NEW i \in 1..Len(q) PROVE q[i] \in ToSet(r)
    <3>1. i + 1 \in 1..(Len(q) + 1) /\ r[i + 1] = q[i]  BY <1>2, <1>3
    <3> QED  BY <1>2, <3>1 DEF ToSet
  <2>3. c \in ToSet(r)
    <3>1. 1 \in 1..(Len(q) + 1) /\ r[1] = c  BY <1>2, <1>3
    <3> QED  BY <1>2, <3>1 DEF ToSet
  <2> QED  BY <1>2, <2>1, <2>2, <2>3 DEF ToSet
<1>6. ASSUME IsInjective(q), c \notin ToSet(q) PROVE IsInjective(r)
  <2>1. ASSUME NEW i \in 2..(Len(q) + 1) PROVE r[i] = q[i - 1] /\ i - 1 \in DOMAIN q
    BY <1>2, <1>3
  <2>2. ASSUME NEW i \in 2..(Len(q) + 1) PROVE r[i] # r[1]
    <3>1. r[1] = c  BY <1>2, <1>3
    <3>2. r[i] \in ToSet(q)  BY <2>1 DEF ToSet
    <3> QED  BY <1>6, <3>1, <3>2
  <2>3. ASSUME NEW i \in 2..(Len(q) + 1), NEW j \in 2..(Len(q) + 1), r[i] = r[j] PROVE i = j
    <3>1. i - 1 = j - 1  BY <1>6, <2>1, <2>3 DEF IsInjective
    <3> QED  BY <3>1
  <2>4. ASSUME NEW i \in 1..(Len(q) + 1), NEW j \in 1..(Len(q) + 1), r[i] = r[j] PROVE i = j
    <3>1. CASE i = 1 /\ j = 1  BY <3>1
    <3>2. CASE i = 1 /\ j # 1
      <4>1. j \in 2..(Len(q) + 1)  BY <1>2, <3>2
      <4> QED  BY <2>2, <2>4, <3>2, <4>1
    <3>3. CASE i # 1 /\ j = 1
      <4>1. i \in 2..(Len(q) + 1)  BY <1>2, <3>3
      <4> QED  BY <2>2, <2>4, <3>3, <4>1
    <3>4. CASE i # 1 /\ j # 1
      <4>1. i \in 2..(Len(q) + 1) /\ j \in 2..(Len(q) + 1)  BY <1>2, <3>4
      <4> QED  BY <2>3, <2>4, <4>1
    <3> QED  BY <3>1, <3>2, <3>3, <3>4
  <2> QED  BY <1>2, <2>4 DEF IsInjective
<1> QED  BY <1>2, <1>4, <1>5, <1>6 DEF r

\* Reversing (move_waiters).
LEMMA QueueReverse ==
  ASSUME NEW S, NEW q \in Seq(S)
  PROVE  /\ Reverse(q) \in Seq(S)
         /\ ToSet(Reverse(q)) = ToSet(q)
         /\ IsInjective(q) => IsInjective(Reverse(q))
<1> DEFINE r == Reverse(q)
<1>1. Len(q) \in Nat /\ DOMAIN q = 1..Len(q) /\ q \in [1..Len(q) -> S]  BY LenProperties
<1>2. /\ r \in [1..Len(q) -> S]
      /\ \A i \in 1..Len(q) : r[i] = q[Len(q) - i + 1] /\ Len(q) - i + 1 \in 1..Len(q)
  BY <1>1 DEF Reverse
<1>3. r \in Seq(S)  BY <1>1, <1>2, SeqDef
<1>4. DOMAIN r = 1..Len(q)  BY <1>2
<1> HIDE DEF r
<1>5. ToSet(r) = ToSet(q)
  <2>1. ASSUME NEW i \in 1..Len(q) PROVE q[i] \in ToSet(r)
    <3>1. Len(q) - i + 1 \in 1..Len(q) /\ r[Len(q) - i + 1] = q[i]
      BY <1>1, <1>2
    <3> QED  BY <1>4, <3>1 DEF ToSet
  <2>2. ASSUME NEW i \in 1..Len(q) PROVE r[i] \in ToSet(q)
    BY <1>1, <1>2 DEF ToSet
  <2> QED  BY <1>1, <1>4, <2>1, <2>2 DEF ToSet
<1>6. ASSUME IsInjective(q) PROVE IsInjective(r)
  <2>1. ASSUME NEW i \in 1..Len(q), NEW j \in 1..Len(q), r[i] = r[j] PROVE i = j
    <3>1. Len(q) - i + 1 = Len(q) - j + 1  BY <1>1, <1>2, <1>6, <2>1 DEF IsInjective
    <3> QED  BY <1>1, <3>1
  <2> QED  BY <1>4, <2>1 DEF IsInjective
<1> QED  BY <1>3, <1>5, <1>6 DEF r

\* How often an element occurs in a queue without duplicates.
LEMMA QueueCount ==
  ASSUME NEW S, NEW q \in Seq(S), IsInjective(q), NEW c
  PROVE  Cardinality({i \in DOMAIN q : q[i] = c}) = IF c \in ToSet(q) THEN 1 ELSE 0
<1> DEFINE I == {i \in DOMAIN q : q[i] = c}
<1>1. CASE c \in ToSet(q)
  <2>1. PICK i \in DOMAIN q : q[i] = c  BY <1>1 DEF ToSet
  <2>2. I = {i}  BY <2>1 DEF IsInjective
  <2>3. Cardinality({i}) = 1  BY FS_Singleton
  <2>4. Cardinality(I) = 1  BY <2>2, <2>3
  <2> QED  BY <1>1, <2>4
<1>2. CASE c \notin ToSet(q)
  <2>1. I = {}  BY <1>2 DEF ToSet
  <2> QED  BY <1>2, <2>1, FS_EmptySet
<1> QED  BY <1>1, <1>2

-----------------------------------------------------------------------------
(* The inductive invariant *)

PushedLocations == {"read_handoff", "lock_has", "lock_has_push", "lock_cas",
                    "lock_move", "lock_pop", "yield"}
OwnerLocations == {"acquired", "held", "dec"}
PopLocations == {"lock_move", "lock_pop", "move", "pop", "offer"}

\* The coroutines that `locked` counts, and those that have queued a record.
Counted == {c \in Coroutines : pc[c] \in {"push"} \cup PushedLocations \cup OwnerLocations}
Pushed  == {c \in Coroutines : pc[c] \in PushedLocations}

\* The coroutines that have to pass the mutex on.
Responsible == Owners \cup Poppers \cup woken

CountRight == locked = Cardinality(Counted)

\* There is one responsible party while the mutex is locked: a coroutine, in one
\* role only, or the hand-off on offer.
DutyUnique ==
  /\ \A c, d \in Responsible : c = d
  /\ Poppers \cap woken = {}
  /\ handoff # 0 => Responsible = {}
  /\ locked = 0 => Responsible = {} /\ handoff = 0
  /\ locked # 0 => Responsible # {} \/ handoff # 0

\* The two lists hold the pushed coroutines that nobody has woken, once each.
QueueRight ==
  /\ IsInjective(from_push) /\ IsInjective(to_pop)
  /\ ToSet(from_push) \cap ToSet(to_pop) = {}
  /\ ToSet(from_push) \cup ToSet(to_pop) = Pushed \ woken
  /\ woken \subseteq Pushed

\* lock() finds a record after move_waiters: its own, if no other.
PopReady == \A c \in Coroutines : pc[c] = "lock_pop" => to_pop # <<>>

\* A compare-and-swap of `handoff` never expects the 0 of no offer.
OfferNumbered ==
  \A c \in Coroutines :
    pc[c] \in {"lock_has", "lock_has_push", "lock_cas", "has", "has_push", "cas"} => local[c] # 0

HolderRight == \A c \in Coroutines : pc[c] = "held" => holder = c

IInv == /\ TypeOK /\ CountRight /\ DutyUnique /\ QueueRight /\ PopReady
        /\ OfferNumbered /\ HolderRight

-----------------------------------------------------------------------------
(* Lemmas *)

\* `locked` is the cardinality of a finite set.
LEMMA CountedFinite ==
  /\ IsFiniteSet(Counted) /\ Cardinality(Counted) \in 0..Cardinality(Coroutines)
  /\ Cardinality(Counted) = 0 <=> Counted = {}
  /\ Cardinality(Coroutines) \in Nat
<1>1. Counted \in SUBSET Coroutines  BY DEF Counted
<1>2. IsFiniteSet(Counted) /\ Cardinality(Counted) <= Cardinality(Coroutines)
  BY <1>1, CoroutinesAssumption, FS_Subset
<1>3. Cardinality(Counted) \in Nat /\ Cardinality(Coroutines) \in Nat
  BY <1>2, CoroutinesAssumption, FS_CardinalityType
<1> QED  BY <1>2, <1>3, FS_EmptySet

LEMMA CountedFiniteNext ==
  (/\ IsFiniteSet(Counted) /\ Cardinality(Counted) \in 0..Cardinality(Coroutines)
   /\ Cardinality(Counted) = 0 <=> Counted = {}
   /\ Cardinality(Coroutines) \in Nat)'
BY CountedFinite, PTL

\* One more lock() past its increment.
LEMMA CountUp ==
  ASSUME IInv, NEW c \in Coroutines, c \notin Counted, Counted' = Counted \cup {c},
         locked' = locked + 1
  PROVE  CountRight' /\ locked' \in 0..Cardinality(Coroutines) /\ locked' # 0
<1>1. Cardinality(Counted') = Cardinality(Counted) + 1
  BY CountedFinite, FS_AddElement
<1>2. CountRight'  BY <1>1 DEF IInv, CountRight
<1>3. locked \in Nat  BY CountedFinite DEF IInv, CountRight
<1> QED  BY <1>2, <1>3, CountedFiniteNext DEF CountRight

\* move_waiters neither loses nor duplicates a record, and leaves to_pop empty
\* only if there is none.
LEMMA MoveKeeps ==
  ASSUME IInv, MoveWaiters, Pushed' = Pushed, woken' = woken
  PROVE  /\ QueueRight'
         /\ from_push' \in Seq(Coroutines) /\ to_pop' \in Seq(Coroutines)
         /\ Pushed \ woken # {} => to_pop' # <<>>
<1>0. from_push \in Seq(Coroutines) /\ to_pop \in Seq(Coroutines)  BY DEF IInv, TypeOK
<1>1. CASE to_pop = <<>>
  <2>1. to_pop' = Reverse(from_push) /\ from_push' = <<>>  BY <1>1 DEF MoveWaiters
  <2>2. /\ Reverse(from_push) \in Seq(Coroutines) /\ IsInjective(Reverse(from_push))
        /\ ToSet(Reverse(from_push)) = ToSet(from_push)
    BY <1>0, QueueReverse DEF IInv, QueueRight
  <2>3. <<>> \in Seq(Coroutines) /\ ToSet(<<>>) = {} /\ IsInjective(<<>>)
    BY EmptySeq DEF ToSet, IsInjective
  <2>4. ToSet(to_pop') = Pushed \ woken  BY <1>1, <2>1, <2>2, <2>3 DEF IInv, QueueRight
  <2>5. Pushed \ woken # {} => to_pop' # <<>>  BY <2>3, <2>4
  <2> QED  BY <2>1, <2>2, <2>3, <2>4, <2>5 DEF IInv, QueueRight
<1>2. CASE to_pop # <<>>
  BY <1>0, <1>2 DEF MoveWaiters, queueVars, IInv, QueueRight
<1> QED  BY <1>1, <1>2

\* Whoever is woken was waiting with a record in the queue.
LEMMA PopTakes ==
  ASSUME IInv, to_pop # <<>>
  PROVE  /\ Head(to_pop) \in Pushed \ woken
         /\ Tail(to_pop) \in Seq(Coroutines)
         /\ IsInjective(Tail(to_pop))
         /\ ToSet(Tail(to_pop)) = ToSet(to_pop) \ {Head(to_pop)}
         /\ ToSet(from_push) \cap ToSet(Tail(to_pop)) = {}
         /\ ToSet(from_push) \cup ToSet(Tail(to_pop)) = (Pushed \ woken) \ {Head(to_pop)}
<1>0. to_pop \in Seq(Coroutines)  BY DEF IInv, TypeOK
<1>1. /\ Head(to_pop) \in ToSet(to_pop) /\ Tail(to_pop) \in Seq(Coroutines)
      /\ IsInjective(Tail(to_pop)) /\ ToSet(Tail(to_pop)) = ToSet(to_pop) \ {Head(to_pop)}
  BY <1>0, QueueTail DEF IInv, QueueRight
<1> QED  BY <1>1 DEF IInv, QueueRight

-----------------------------------------------------------------------------
(* Steps *)

LEMMA InitIInv == Init => IInv
<1> SUFFICES ASSUME Init PROVE IInv  OBVIOUS
<1> USE DEF Init
<1>1. Counted = {} /\ Pushed = {} /\ Owners = {} /\ Poppers = {}
  BY DEF Counted, Pushed, PushedLocations, OwnerLocations, Owners, Poppers
<1>2. CountRight  BY <1>1, FS_EmptySet DEF CountRight
<1>3. TypeOK  BY EmptySeq, CountedFinite, SequenceAssumption DEF TypeOK, Locations
<1>4. QueueRight  BY <1>1 DEF QueueRight, ToSet, IsInjective
<1> QED
  BY <1>1, <1>2, <1>3, <1>4
     DEF IInv, DutyUnique, Responsible, PopReady, OfferNumbered, HolderRight

\* A step that keeps its coroutine in its role, and moves nothing else but a
\* private value of the coroutine, keeps the invariant.
Role(loc) ==
  CASE loc \in {"idle", "fast", "spin", "inc", "has", "has_push", "cas"} -> "none"
    [] loc \in {"read_handoff", "lock_has", "lock_has_push", "lock_cas", "yield"} -> "waits"
    [] loc \in {"acquired", "held", "dec"} -> "owns"
    [] loc \in {"move", "pop", "offer"} -> "unlocks"
    [] OTHER -> loc

LEMMA QuietStep ==
  ASSUME IInv, NEW c \in Coroutines, NEW loc \in Locations,
         Role(loc) = Role(pc[c]),
         loc \notin {"held", "lock_pop"},
         pc' = [pc EXCEPT ![c] = loc],
         local' \in [Coroutines -> 0..MaxSequence],
         \A d \in Coroutines \ {c} : local'[d] = local[d],
         loc \in {"lock_has", "lock_has_push", "lock_cas", "has", "has_push", "cas"}
           => local'[c] # 0,
         UNCHANGED <<locked, holder, from_push, to_pop, handoff, sequence, woken>>
  PROVE  IInv'
<1>1. TypeOK'  BY DEF IInv, TypeOK
<1>2. /\ Counted' = Counted /\ Pushed' = Pushed /\ Owners' = Owners /\ Poppers' = Poppers
      /\ Responsible' = Responsible
  BY DEF IInv, TypeOK, Counted, Pushed, PushedLocations, OwnerLocations, Owners, Poppers,
         Role, Responsible, Locations, LockLocations, UnlockLocations
<1>3. CountRight'  BY <1>2 DEF IInv, CountRight
<1>4. DutyUnique'  BY <1>2 DEF IInv, DutyUnique
<1>5. QueueRight'  BY <1>2 DEF IInv, QueueRight
<1>6. PopReady'  BY DEF IInv, PopReady, TypeOK
<1>7. OfferNumbered'  BY DEF IInv, OfferNumbered, TypeOK
<1>8. HolderRight'  BY DEF IInv, HolderRight, TypeOK
<1> QED  BY <1>1, <1>3, <1>4, <1>5, <1>6, <1>7, <1>8 DEF IInv

\* The steps that only move along: calls, spinning, and the look at the lists.
LEMMA Step_Quiet ==
  ASSUME IInv, NEW c \in Coroutines,
         \/ qemu_co_mutex_lock(c) \/ SpinRetry(c) \/ SpinEnd(c) \/ ReadHandoff(c)
         \/ LockHasWaiters(c) \/ UnlockHasWaiters(c)
  PROVE  IInv'
<1> USE DEF queueVars, handVars, Go
<1>0. local \in [Coroutines -> 0..MaxSequence] /\ handoff \in 0..MaxSequence
  BY DEF IInv, TypeOK
<1>1. ASSUME qemu_co_mutex_lock(c) \/ SpinRetry(c) \/ SpinEnd(c)  PROVE IInv'
  <2>1. PICK loc \in {"fast", "inc"} : pc' = [pc EXCEPT ![c] = loc]
    BY <1>1 DEF qemu_co_mutex_lock, SpinRetry, SpinEnd
  <2>2. pc[c] \in {"idle", "spin"}
        /\ UNCHANGED <<locked, holder, from_push, to_pop, handoff, sequence, woken, local>>
    BY <1>1 DEF qemu_co_mutex_lock, SpinRetry, SpinEnd
  <2> QED
    BY <1>0, <2>1, <2>2, QuietStep DEF Role, Locations, LockLocations, UnlockLocations
<1>2. ASSUME ReadHandoff(c)  PROVE IInv'
  <2>1. PICK loc \in {"yield", "lock_has"} :
          pc' = [pc EXCEPT ![c] = loc] /\ (loc = "lock_has" => handoff # 0)
    BY <1>2 DEF ReadHandoff
  <2>2. /\ pc[c] = "read_handoff" /\ local' = [local EXCEPT ![c] = handoff]
        /\ UNCHANGED <<locked, holder, from_push, to_pop, handoff, sequence, woken>>
    BY <1>2 DEF ReadHandoff
  <2>3. /\ local' \in [Coroutines -> 0..MaxSequence] /\ local'[c] = handoff
        /\ \A d \in Coroutines \ {c} : local'[d] = local[d]
    BY <1>0, <2>2
  <2> QED
    BY <2>1, <2>2, <2>3, QuietStep DEF Role, Locations, LockLocations, UnlockLocations
<1>3. ASSUME LockHasWaiters(c)  PROVE IInv'
  <2>1. PICK loc \in {"lock_cas", "lock_has_push", "yield"} : pc' = [pc EXCEPT ![c] = loc]
    BY <1>3 DEF LockHasWaiters, has_waiters
  <2>2. /\ pc[c] \in {"lock_has", "lock_has_push"}
        /\ UNCHANGED <<locked, holder, from_push, to_pop, handoff, sequence, woken, local>>
    BY <1>3 DEF LockHasWaiters, has_waiters
  <2>3. local[c] # 0  BY <2>2 DEF IInv, OfferNumbered
  <2> QED
    BY <1>0, <2>1, <2>2, <2>3, QuietStep DEF Role, Locations, LockLocations, UnlockLocations
<1>4. ASSUME UnlockHasWaiters(c)  PROVE IInv'
  <2>1. PICK loc \in {"cas", "has_push", "idle"} : pc' = [pc EXCEPT ![c] = loc]
    BY <1>4 DEF UnlockHasWaiters, has_waiters
  <2>2. /\ pc[c] \in {"has", "has_push"}
        /\ UNCHANGED <<locked, holder, from_push, to_pop, handoff, sequence, woken, local>>
    BY <1>4 DEF UnlockHasWaiters, has_waiters
  <2>3. local[c] # 0  BY <2>2 DEF IInv, OfferNumbered
  <2> QED
    BY <1>0, <2>1, <2>2, <2>3, QuietStep DEF Role, Locations, LockLocations, UnlockLocations
<1> QED  BY <1>1, <1>2, <1>3, <1>4

\* With `locked` at 0 nobody has a duty, and the fast path takes the mutex.
LEMMA Step_LockFast ==
  ASSUME IInv, NEW c \in Coroutines, LockFast(c)
  PROVE  IInv'
<1> USE DEF LockFast, queueVars, handVars, Go
<1>0. local \in [Coroutines -> 0..MaxSequence]  BY DEF IInv, TypeOK
<1>1. CASE locked # 0
  <2>1. PICK loc \in {"spin", "inc"} : pc' = [pc EXCEPT ![c] = loc]  BY <1>1
  <2> QED
    BY <1>0, <1>1, <2>1, QuietStep DEF Role, Locations, LockLocations, UnlockLocations
<1>2. CASE locked = 0
  <2>0. locked' = locked + 1 /\ pc' = [pc EXCEPT ![c] = "acquired"] /\ pc[c] = "fast"
    BY <1>2
  <2>1. /\ Counted' = Counted \cup {c} /\ c \notin Counted /\ Pushed' = Pushed
        /\ Owners' = Owners \cup {c} /\ Poppers' = Poppers /\ woken' = woken
    BY <2>0 DEF IInv, TypeOK, Counted, Pushed, PushedLocations, OwnerLocations, Owners, Poppers
  <2>2. CountRight' /\ locked' \in 0..Cardinality(Coroutines) /\ locked' # 0
    BY <2>0, <2>1, CountUp
  <2>3. TypeOK'  BY <2>0, <2>2 DEF IInv, TypeOK, Locations, LockLocations
  <2>4. DutyUnique'  BY <1>2, <2>1, <2>2 DEF IInv, DutyUnique, Responsible
  <2>5. QueueRight'  BY <2>1 DEF IInv, QueueRight
  <2>6. PopReady'  BY <2>0 DEF IInv, PopReady, TypeOK
  <2>7. OfferNumbered'  BY <2>0 DEF IInv, OfferNumbered, TypeOK
  <2>8. HolderRight'  BY <2>0 DEF IInv, HolderRight, TypeOK
  <2> QED  BY <2>2, <2>3, <2>4, <2>5, <2>6, <2>7, <2>8 DEF IInv
<1> QED  BY <1>1, <1>2

\* The increment decides: at 0 the mutex is taken, else the coroutine will wait.
LEMMA Step_LockIncrement ==
  ASSUME IInv, NEW c \in Coroutines, LockIncrement(c)
  PROVE  IInv'
<1> USE DEF LockIncrement, queueVars, handVars, Go
<1>1. PICK loc \in {"acquired", "push"} :
        pc' = [pc EXCEPT ![c] = loc] /\ (loc = "acquired" <=> locked = 0)
  OBVIOUS
<1>2. pc[c] = "inc" /\ locked' = locked + 1  OBVIOUS
<1>3. /\ Counted' = Counted \cup {c} /\ c \notin Counted /\ Pushed' = Pushed
      /\ Owners' = (IF locked = 0 THEN Owners \cup {c} ELSE Owners)
      /\ Poppers' = Poppers /\ woken' = woken
  BY <1>1, <1>2
     DEF IInv, TypeOK, Counted, Pushed, PushedLocations, OwnerLocations, Owners, Poppers
<1>4. CountRight' /\ locked' \in 0..Cardinality(Coroutines) /\ locked' # 0
  BY <1>2, <1>3, CountUp
<1>5. TypeOK'  BY <1>1, <1>4 DEF IInv, TypeOK, Locations, LockLocations
<1>6. DutyUnique'  BY <1>3, <1>4 DEF IInv, DutyUnique, Responsible
<1>7. QueueRight'  BY <1>3 DEF IInv, QueueRight
<1>8. PopReady'  BY <1>1 DEF IInv, PopReady, TypeOK
<1>9. OfferNumbered'  BY <1>1 DEF IInv, OfferNumbered, TypeOK
<1>10. HolderRight'  BY <1>1 DEF IInv, HolderRight, TypeOK
<1> QED  BY <1>4, <1>5, <1>6, <1>7, <1>8, <1>9, <1>10 DEF IInv

LEMMA Step_push_waiter ==
  ASSUME IInv, NEW c \in Coroutines, push_waiter(c)
  PROVE  IInv'
<1> USE DEF push_waiter, handVars, Go
<1>0. from_push \in Seq(Coroutines) /\ c \notin ToSet(from_push) /\ c \notin ToSet(to_pop)
      /\ c \notin woken /\ c \notin Pushed
  BY DEF IInv, TypeOK, QueueRight, Pushed, PushedLocations
<1>1. /\ from_push' \in Seq(Coroutines) /\ IsInjective(from_push')
      /\ ToSet(from_push') = ToSet(from_push) \cup {c}
  BY <1>0, QueuePush DEF IInv, QueueRight
<1>2. TypeOK'  BY <1>1 DEF IInv, TypeOK, Locations, LockLocations
<1>3. /\ Counted' = Counted /\ Pushed' = Pushed \cup {c}
      /\ Owners' = Owners /\ Poppers' = Poppers /\ Responsible' = Responsible
  BY DEF IInv, TypeOK, Counted, Pushed, PushedLocations, OwnerLocations, Owners, Poppers,
         Responsible
<1>4. CountRight'  BY <1>3 DEF IInv, CountRight
<1>5. DutyUnique'  BY <1>3 DEF IInv, DutyUnique
<1>6. QueueRight'  BY <1>0, <1>1, <1>3 DEF IInv, QueueRight
<1>7. PopReady'  BY DEF IInv, PopReady, TypeOK
<1>8. OfferNumbered'  BY DEF IInv, OfferNumbered, TypeOK
<1>9. HolderRight'  BY DEF IInv, HolderRight, TypeOK
<1> QED  BY <1>2, <1>4, <1>5, <1>6, <1>7, <1>8, <1>9 DEF IInv

\* A hand-off that is still the one seen is taken over by this coroutine, and
\* by nobody else, whatever `sequence` has been meanwhile.
LEMMA Step_TakeHandoff ==
  ASSUME IInv, NEW c \in Coroutines, LockTakeHandoff(c) \/ UnlockTakeHandoff(c)
  PROVE  IInv'
<1> USE DEF LockTakeHandoff, UnlockTakeHandoff, queueVars, Go
<1>0. /\ local \in [Coroutines -> 0..MaxSequence] /\ local[c] # 0
      /\ pc[c] \in {"lock_cas", "cas"}
  BY DEF IInv, TypeOK, OfferNumbered
<1>1. CASE handoff # local[c]
  <2>1. PICK loc \in {"yield", "idle"} :
          pc' = [pc EXCEPT ![c] = loc] /\ (loc = "yield" <=> pc[c] = "lock_cas")
    BY <1>1
  <2>2. UNCHANGED <<locked, holder, from_push, to_pop, handoff, sequence, woken, local>>
    BY <1>1
  <2> QED
    BY <1>0, <2>1, <2>2, QuietStep DEF Role, Locations, LockLocations, UnlockLocations
<1>2. CASE handoff = local[c]
  <2>1. PICK loc \in {"lock_move", "move"} :
          pc' = [pc EXCEPT ![c] = loc] /\ (loc = "lock_move" <=> pc[c] = "lock_cas")
    BY <1>2
  <2>2. /\ handoff # 0 /\ handoff' = 0
        /\ UNCHANGED <<locked, holder, from_push, to_pop, sequence, woken, local>>
    BY <1>0, <1>2
  <2>3. TypeOK'
    BY <2>1, <2>2, SequenceAssumption DEF IInv, TypeOK, Locations, LockLocations, UnlockLocations
  <2>4. /\ Counted' = Counted /\ Pushed' = Pushed /\ Owners' = Owners
        /\ Poppers' = Poppers \cup {c}
    BY <1>0, <2>1
       DEF IInv, TypeOK, Counted, Pushed, PushedLocations, OwnerLocations, Owners, Poppers
  <2>5. CountRight'  BY <2>2, <2>4 DEF IInv, CountRight
  <2>6. DutyUnique'  BY <2>2, <2>4 DEF IInv, DutyUnique, Responsible
  <2>7. QueueRight'  BY <2>2, <2>4 DEF IInv, QueueRight
  <2>8. PopReady'  BY <2>1, <2>2 DEF IInv, PopReady, TypeOK
  <2>9. OfferNumbered'  BY <2>1, <2>2 DEF IInv, OfferNumbered, TypeOK
  <2>10. HolderRight'  BY <2>1, <2>2 DEF IInv, HolderRight, TypeOK
  <2> QED  BY <2>3, <2>5, <2>6, <2>7, <2>8, <2>9, <2>10 DEF IInv
<1> QED  BY <1>1, <1>2

\* move_waiters; a lock() that moves still has its own record in the queue.
LEMMA Step_Move ==
  ASSUME IInv, NEW c \in Coroutines, LockMove(c) \/ UnlockMove(c)
  PROVE  IInv'
<1> USE DEF LockMove, UnlockMove, handVars, Go
<1>0. PICK loc \in {"lock_pop", "pop"} :
        pc' = [pc EXCEPT ![c] = loc] /\ (loc = "lock_pop" <=> pc[c] = "lock_move")
  OBVIOUS
<1>1. /\ pc[c] \in {"lock_move", "move"} /\ MoveWaiters
      /\ UNCHANGED <<locked, holder, handoff, sequence, local, woken>>
  OBVIOUS
<1>2. /\ Counted' = Counted /\ Pushed' = Pushed /\ Owners' = Owners /\ Poppers' = Poppers
      /\ Responsible' = Responsible
  BY <1>0, <1>1
     DEF IInv, TypeOK, Counted, Pushed, PushedLocations, OwnerLocations, Owners, Poppers,
         Responsible
<1>3. /\ QueueRight'
      /\ from_push' \in Seq(Coroutines) /\ to_pop' \in Seq(Coroutines)
      /\ Pushed \ woken # {} => to_pop' # <<>>
  BY <1>1, <1>2, MoveKeeps
<1>4. TypeOK'  BY <1>0, <1>1, <1>3 DEF IInv, TypeOK, Locations, LockLocations, UnlockLocations
<1>5. CountRight'  BY <1>1, <1>2 DEF IInv, CountRight
<1>6. DutyUnique'  BY <1>1, <1>2 DEF IInv, DutyUnique
<1>7. PopReady'
  <2>1. c \in Poppers  BY <1>1 DEF Poppers
  <2>2. \A d \in Coroutines : pc[d] = "lock_pop" => d = c
    BY <2>1 DEF IInv, DutyUnique, Responsible, Poppers
  <2>3. pc[c] = "lock_move" => c \in Pushed \ woken
    BY <2>1 DEF IInv, DutyUnique, Responsible, Pushed, PushedLocations
  <2> QED  BY <1>0, <1>1, <1>3, <2>2, <2>3 DEF IInv, PopReady, TypeOK
<1>8. OfferNumbered'  BY <1>0, <1>1 DEF IInv, OfferNumbered, TypeOK
<1>9. HolderRight'  BY <1>0, <1>1 DEF IInv, HolderRight, TypeOK
<1> QED  BY <1>3, <1>4, <1>5, <1>6, <1>7, <1>8, <1>9 DEF IInv

\* The lock() that took the hand-off passes the mutex to the first in the queue,
\* which may be itself.
LEMMA Step_LockPop ==
  ASSUME IInv, NEW c \in Coroutines, LockPop(c)
  PROVE  IInv'
<1> USE DEF LockPop, RemoveHead, handVars, Go
<1>0. c \in Poppers /\ c \in Pushed /\ c \notin woken /\ Owners = {} /\ Poppers = {c} /\ woken = {}
      /\ handoff = 0 /\ locked # 0
  BY DEF IInv, DutyUnique, Responsible, Poppers, Pushed, PushedLocations, Owners
<1>1. /\ Head(to_pop) \in Pushed \ woken /\ Tail(to_pop) \in Seq(Coroutines)
      /\ IsInjective(Tail(to_pop))
      /\ ToSet(from_push) \cap ToSet(Tail(to_pop)) = {}
      /\ ToSet(from_push) \cup ToSet(Tail(to_pop)) = (Pushed \ woken) \ {Head(to_pop)}
  BY PopTakes
<1>2. Head(to_pop) \in Coroutines  BY <1>1 DEF Pushed
<1>3. PICK loc \in {"acquired", "yield"} :
        /\ pc' = [pc EXCEPT ![c] = loc]
        /\ loc = "acquired" => Head(to_pop) = c /\ woken' = woken
        /\ loc = "yield" => Head(to_pop) # c /\ woken' = woken \cup {Head(to_pop)}
  OBVIOUS
<1>4. /\ to_pop' = Tail(to_pop) /\ from_push' = from_push /\ pc[c] = "lock_pop"
      /\ UNCHANGED <<locked, holder, handoff, sequence, local>>
  OBVIOUS
<1>5. TypeOK'  BY <1>1, <1>2, <1>3, <1>4 DEF IInv, TypeOK, Locations, LockLocations
<1>6. Counted' = Counted /\ Poppers' = {}
  BY <1>0, <1>3, <1>4
     DEF IInv, TypeOK, Counted, PushedLocations, OwnerLocations, Poppers
<1>7. CountRight'  BY <1>4, <1>6 DEF IInv, CountRight
<1>8. PopReady'
  BY <1>0, <1>3, <1>4 DEF IInv, PopReady, TypeOK, Poppers
<1>9. OfferNumbered'  BY <1>3, <1>4 DEF IInv, OfferNumbered, TypeOK
<1>10. HolderRight'  BY <1>3, <1>4 DEF IInv, HolderRight, TypeOK
<1>11. CASE pc'[c] = "acquired"
  <2>1. pc' = [pc EXCEPT ![c] = "acquired"] /\ Head(to_pop) = c /\ woken' = {}
    BY <1>0, <1>3, <1>11 DEF IInv, TypeOK
  <2>2. Pushed' = Pushed \ {c} /\ Owners' = {c}
    BY <1>0, <2>1 DEF IInv, TypeOK, Pushed, PushedLocations, Owners
  <2>3. DutyUnique'  BY <1>0, <1>4, <1>6, <2>1, <2>2 DEF DutyUnique, Responsible
  <2>4. QueueRight'  BY <1>0, <1>1, <1>4, <2>1, <2>2 DEF IInv, QueueRight
  <2> QED  BY <1>5, <1>7, <1>8, <1>9, <1>10, <2>3, <2>4 DEF IInv
<1>12. CASE pc'[c] = "yield"
  <2>1. pc' = [pc EXCEPT ![c] = "yield"] /\ woken' = {Head(to_pop)}
    BY <1>0, <1>3, <1>12 DEF IInv, TypeOK
  <2>2. Pushed' = Pushed /\ Owners' = {}
    BY <1>0, <1>4, <2>1 DEF IInv, TypeOK, Pushed, PushedLocations, Owners
  <2>3. DutyUnique'  BY <1>0, <1>4, <1>6, <2>1, <2>2 DEF DutyUnique, Responsible
  <2>4. QueueRight'  BY <1>0, <1>1, <1>4, <2>1, <2>2 DEF IInv, QueueRight
  <2> QED  BY <1>5, <1>7, <1>8, <1>9, <1>10, <2>3, <2>4 DEF IInv
<1> QED  BY <1>3, <1>11, <1>12 DEF IInv, TypeOK

\* A woken coroutine becomes the owner.
LEMMA Step_Resume ==
  ASSUME IInv, NEW c \in Coroutines, Resume(c)
  PROVE  IInv'
<1> USE DEF Resume, queueVars, handVars, Go
<1>0. woken = {c} /\ Owners = {} /\ Poppers = {} /\ handoff = 0 /\ locked # 0 /\ c \in Pushed
  BY DEF IInv, DutyUnique, Responsible, QueueRight, Owners, Pushed, PushedLocations
<1>1. TypeOK'  BY DEF IInv, TypeOK, Locations, LockLocations
<1>2. /\ Counted' = Counted /\ Pushed' = Pushed \ {c} /\ Owners' = {c} /\ Poppers' = {}
      /\ woken' = {}
  BY <1>0 DEF IInv, TypeOK, Counted, Pushed, PushedLocations, OwnerLocations, Owners, Poppers
<1>3. CountRight'  BY <1>2 DEF IInv, CountRight
<1>4. DutyUnique'  BY <1>0, <1>2 DEF DutyUnique, Responsible
<1>5. QueueRight'  BY <1>0, <1>2 DEF IInv, QueueRight
<1>6. PopReady'  BY DEF IInv, PopReady, TypeOK
<1>7. OfferNumbered'  BY DEF IInv, OfferNumbered, TypeOK
<1>8. HolderRight'  BY DEF IInv, HolderRight, TypeOK
<1> QED  BY <1>1, <1>3, <1>4, <1>5, <1>6, <1>7, <1>8 DEF IInv

\* `holder` is written by the owner alone.
LEMMA Step_Holder ==
  ASSUME IInv, NEW c \in Coroutines, LockReturn(c) \/ qemu_co_mutex_unlock(c)
  PROVE  IInv'
<1> USE DEF LockReturn, qemu_co_mutex_unlock, queueVars, handVars, Go
<1>0. PICK loc \in {"held", "dec"} :
        pc' = [pc EXCEPT ![c] = loc] /\ (loc = "held" => holder' = c)
  OBVIOUS
<1>1. /\ pc[c] \in {"acquired", "held"} /\ holder' \in Coroutines \cup {NoCo}
      /\ UNCHANGED <<locked, from_push, to_pop, handoff, sequence, local, woken>>
  OBVIOUS
<1>2. TypeOK'  BY <1>0, <1>1 DEF IInv, TypeOK, Locations, UnlockLocations
<1>3. /\ Counted' = Counted /\ Pushed' = Pushed /\ Owners' = Owners /\ Poppers' = Poppers
      /\ Responsible' = Responsible
  BY <1>0, <1>1
     DEF IInv, TypeOK, Counted, Pushed, PushedLocations, OwnerLocations, Owners, Poppers,
         Responsible
<1>4. CountRight'  BY <1>1, <1>3 DEF IInv, CountRight
<1>5. DutyUnique'  BY <1>1, <1>3 DEF IInv, DutyUnique
<1>6. QueueRight'  BY <1>1, <1>3 DEF IInv, QueueRight
<1>7. PopReady'  BY <1>0, <1>1 DEF IInv, PopReady, TypeOK
<1>8. OfferNumbered'  BY <1>0, <1>1 DEF IInv, OfferNumbered, TypeOK
<1>9. HolderRight'
  <2>1. \A d \in Coroutines : pc[d] \in {"acquired", "held"} => d = c
    BY <1>1 DEF IInv, DutyUnique, Responsible, Owners
  <2> QED  BY <1>0, <2>1 DEF HolderRight, IInv, TypeOK
<1> QED  BY <1>2, <1>4, <1>5, <1>6, <1>7, <1>8, <1>9 DEF IInv

\* The decrement finds the mutex free of waiters, or makes its owner pop one.
LEMMA Step_UnlockDecrement ==
  ASSUME IInv, NEW c \in Coroutines, UnlockDecrement(c)
  PROVE  IInv'
<1> USE DEF UnlockDecrement, queueVars, handVars, Go
<1>0. PICK loc \in {"idle", "move"} :
        pc' = [pc EXCEPT ![c] = loc] /\ (loc = "idle" <=> locked = 1)
  OBVIOUS
<1>1. /\ pc[c] = "dec" /\ locked' = locked - 1 /\ c \in Counted
      /\ UNCHANGED <<holder, from_push, to_pop, handoff, sequence, local, woken>>
  BY DEF Counted, OwnerLocations
<1>2. Owners = {c} /\ Poppers = {} /\ woken = {} /\ handoff = 0 /\ locked # 0
  <2>1. c \in Owners  BY <1>1 DEF Owners
  <2>2. Owners \subseteq Responsible /\ Poppers \subseteq Responsible /\ woken \subseteq Responsible
    BY DEF Responsible
  <2>3. c \notin Poppers  BY <1>1 DEF Poppers
  <2>4. c \notin woken  BY <1>1 DEF IInv, QueueRight, Pushed, PushedLocations
  <2> QED  BY <2>1, <2>2, <2>3, <2>4 DEF IInv, DutyUnique
<1>3. /\ Counted' = Counted \ {c} /\ Pushed' = Pushed /\ Owners' = {}
      /\ Poppers' = IF locked = 1 THEN {} ELSE {c}
  BY <1>0, <1>1, <1>2
     DEF IInv, TypeOK, Counted, Pushed, PushedLocations, OwnerLocations, Owners, Poppers
<1>4. CountRight' /\ locked' \in 0..Cardinality(Coroutines) /\ (locked' = 0 <=> locked = 1)
  <2>1. Cardinality(Counted') = Cardinality(Counted) - 1
    BY <1>1, <1>3, CountedFinite, FS_RemoveElement
  <2>2. CountRight'  BY <1>1, <2>1 DEF IInv, CountRight
  <2>3. locked \in Nat  BY CountedFinite DEF IInv, CountRight
  <2> QED  BY <1>1, <2>2, <2>3, CountedFiniteNext DEF CountRight
<1>5. TypeOK'  BY <1>0, <1>1, <1>4 DEF IInv, TypeOK, Locations, UnlockLocations
<1>6. DutyUnique'  BY <1>1, <1>2, <1>3, <1>4 DEF DutyUnique, Responsible
<1>7. QueueRight'  BY <1>1, <1>3 DEF IInv, QueueRight
<1>8. PopReady'  BY <1>0, <1>1 DEF IInv, PopReady, TypeOK
<1>9. OfferNumbered'  BY <1>0, <1>1 DEF IInv, OfferNumbered, TypeOK
<1>10. HolderRight'  BY <1>0, <1>1 DEF IInv, HolderRight, TypeOK
<1> QED  BY <1>4, <1>5, <1>6, <1>7, <1>8, <1>9, <1>10 DEF IInv

\* unlock() wakes the first in the queue and is done, or goes on to offer.
LEMMA Step_UnlockPop ==
  ASSUME IInv, NEW c \in Coroutines, UnlockPop(c)
  PROVE  IInv'
<1> USE DEF UnlockPop, RemoveHead, queueVars, handVars, Go
<1>0. /\ c \in Poppers /\ Owners = {} /\ Poppers = {c} /\ woken = {}
      /\ handoff = 0 /\ locked # 0 /\ c \notin Pushed
  BY DEF IInv, DutyUnique, Responsible, Poppers, Pushed, PushedLocations, Owners
<1>a. local \in [Coroutines -> 0..MaxSequence]  BY DEF IInv, TypeOK
<1>1. CASE to_pop = <<>>
  <2>1. pc' = [pc EXCEPT ![c] = "offer"] /\ pc[c] = "pop"
        /\ UNCHANGED <<locked, holder, from_push, to_pop, handoff, sequence, local, woken>>
    BY <1>1
  <2> QED
    BY <1>a, <2>1, QuietStep DEF Role, Locations, LockLocations, UnlockLocations
<1>2. CASE to_pop # <<>>
  <2>1. /\ Head(to_pop) \in Pushed \ woken /\ Tail(to_pop) \in Seq(Coroutines)
        /\ IsInjective(Tail(to_pop))
        /\ ToSet(from_push) \cap ToSet(Tail(to_pop)) = {}
        /\ ToSet(from_push) \cup ToSet(Tail(to_pop)) = (Pushed \ woken) \ {Head(to_pop)}
    BY <1>2, PopTakes
  <2>2. Head(to_pop) \in Coroutines  BY <2>1 DEF Pushed
  <2>3. /\ pc' = [pc EXCEPT ![c] = "idle"] /\ pc[c] = "pop"
        /\ to_pop' = Tail(to_pop) /\ from_push' = from_push /\ woken' = {Head(to_pop)}
        /\ UNCHANGED <<locked, holder, handoff, sequence, local>>
    BY <1>0, <1>2
  <2>4. TypeOK'  BY <2>1, <2>2, <2>3 DEF IInv, TypeOK, Locations
  <2>5. Counted' = Counted /\ Pushed' = Pushed /\ Owners' = {} /\ Poppers' = {}
    BY <1>0, <2>3
       DEF IInv, TypeOK, Counted, Pushed, PushedLocations, OwnerLocations, Owners, Poppers
  <2>6. CountRight'  BY <2>3, <2>5 DEF IInv, CountRight
  <2>7. DutyUnique'  BY <1>0, <2>3, <2>5 DEF DutyUnique, Responsible
  <2>8. QueueRight'  BY <1>0, <2>1, <2>3, <2>5 DEF IInv, QueueRight
  <2>9. PopReady'  BY <1>0, <2>3 DEF IInv, PopReady, TypeOK, Poppers
  <2>10. OfferNumbered'  BY <2>3 DEF IInv, OfferNumbered, TypeOK
  <2>11. HolderRight'  BY <2>3 DEF IInv, HolderRight, TypeOK
  <2> QED  BY <2>4, <2>6, <2>7, <2>8, <2>9, <2>10, <2>11 DEF IInv
<1> QED  BY <1>1, <1>2

\* The duty moves from the coroutine to the offer, whose number is never 0.
LEMMA Step_OfferHandoff ==
  ASSUME IInv, NEW c \in Coroutines, OfferHandoff(c)
  PROVE  IInv'
<1> USE DEF OfferHandoff, queueVars, Go
<1>0. /\ c \in Poppers /\ Owners = {} /\ Poppers = {c} /\ woken = {}
      /\ handoff = 0 /\ locked # 0 /\ c \notin Pushed
  BY DEF IInv, DutyUnique, Responsible, Poppers, Pushed, PushedLocations, Owners
<1>1. sequence' \in 1..MaxSequence
  <2>1. sequence \in 0..MaxSequence  BY DEF IInv, TypeOK
  <2> QED  BY <2>1, SequenceAssumption DEF NextSequence
<1>2. /\ pc' = [pc EXCEPT ![c] = "has"] /\ pc[c] = "offer"
      /\ handoff' = sequence' /\ local' = [local EXCEPT ![c] = sequence']
      /\ UNCHANGED <<locked, holder, from_push, to_pop, woken>>
  OBVIOUS
<1>3. sequence' \in 0..MaxSequence /\ sequence' # 0  BY <1>1, SequenceAssumption
<1>4. TypeOK'  BY <1>2, <1>3 DEF IInv, TypeOK, Locations, UnlockLocations
<1>5. Counted' = Counted /\ Pushed' = Pushed /\ Owners' = {} /\ Poppers' = {}
  BY <1>0, <1>2
     DEF IInv, TypeOK, Counted, Pushed, PushedLocations, OwnerLocations, Owners, Poppers
<1>6. CountRight'  BY <1>2, <1>5 DEF IInv, CountRight
<1>7. DutyUnique'  BY <1>0, <1>2, <1>3, <1>5 DEF DutyUnique, Responsible
<1>8. QueueRight'  BY <1>2, <1>5 DEF IInv, QueueRight
<1>9. PopReady'  BY <1>2 DEF IInv, PopReady, TypeOK
<1>10. OfferNumbered'  BY <1>2, <1>3 DEF IInv, OfferNumbered, TypeOK
<1>11. HolderRight'  BY <1>2 DEF IInv, HolderRight, TypeOK
<1> QED  BY <1>4, <1>6, <1>7, <1>8, <1>9, <1>10, <1>11 DEF IInv

LEMMA NextIInv == IInv /\ [Next]_vars => IInv'
<1> SUFFICES ASSUME IInv, [Next]_vars PROVE IInv'  OBVIOUS
<1>1. CASE UNCHANGED vars
  BY <1>1 DEF vars, IInv, TypeOK, CountRight, Counted, DutyUnique, Responsible, Owners,
     Poppers, QueueRight, Pushed, PopReady, OfferNumbered, HolderRight
<1>2. CASE Next
  BY <1>2, Step_Quiet, Step_LockFast, Step_LockIncrement, Step_push_waiter, Step_TakeHandoff,
     Step_Move, Step_LockPop, Step_Resume, Step_Holder, Step_UnlockDecrement,
     Step_UnlockPop, Step_OfferHandoff
  DEF Next, Lock, Unlock
<1> QED  BY <1>1, <1>2

-----------------------------------------------------------------------------
(* What follows from the invariant *)

\* IInv holds in every reachable state.
THEOREM Invariance == Spec => []IInv
BY InitIInv, NextIInv, PTL DEF Spec

\* Sets of which at most one has at most one element.
LEMMA CardinalityOfDuty ==
  IInv => /\ Cardinality(Owners) = (IF Owners = {} THEN 0 ELSE 1)
          /\ Cardinality(Poppers) = (IF Poppers = {} THEN 0 ELSE 1)
          /\ Cardinality(woken) = (IF woken = {} THEN 0 ELSE 1)
<1> SUFFICES ASSUME IInv
             PROVE  \A S \in SUBSET Responsible : Cardinality(S) = (IF S = {} THEN 0 ELSE 1)
  BY DEF Responsible
<1> SUFFICES ASSUME NEW S \in SUBSET Responsible
             PROVE  Cardinality(S) = (IF S = {} THEN 0 ELSE 1)
  OBVIOUS
<1>1. CASE S = {}  BY <1>1, FS_EmptySet
<1>2. CASE S # {}
  <2>1. PICK c \in S : TRUE  BY <1>2
  <2>2. S = {c}  BY <2>1 DEF IInv, DutyUnique
  <2>3. Cardinality({c}) = 1  BY FS_Singleton
  <2>4. Cardinality(S) = 1  BY <2>2, <2>3
  <2> QED  BY <1>2, <2>4
<1> QED  BY <1>1, <1>2

\* The three roles exclude each other.
LEMMA RolesDisjoint ==
  IInv => /\ Owners # {} => Poppers = {} /\ woken = {} /\ handoff = 0
          /\ Poppers # {} => woken = {} /\ handoff = 0
          /\ woken # {} => handoff = 0
          /\ locked # 0 <=> Owners # {} \/ Poppers # {} \/ woken # {} \/ handoff # 0
<1> SUFFICES ASSUME IInv
             PROVE  /\ Owners # {} => Poppers = {} /\ woken = {} /\ handoff = 0
                    /\ Poppers # {} => woken = {} /\ handoff = 0
                    /\ woken # {} => handoff = 0
                    /\ locked # 0 <=> Owners # {} \/ Poppers # {} \/ woken # {} \/ handoff # 0
  OBVIOUS
<1>1. Owners \cap Poppers = {}  BY DEF Owners, Poppers
<1>2. Owners \cap woken = {}
  BY DEF IInv, QueueRight, Owners, Pushed, PushedLocations
<1>3. Poppers \cap woken = {}  BY DEF IInv, DutyUnique
<1>4. \A c \in Owners, d \in Poppers : FALSE  BY <1>1 DEF IInv, DutyUnique, Responsible
<1>5. \A c \in Owners, d \in woken : FALSE  BY <1>2 DEF IInv, DutyUnique, Responsible
<1>6. \A c \in Poppers, d \in woken : FALSE  BY <1>3 DEF IInv, DutyUnique, Responsible
<1> QED  BY <1>4, <1>5, <1>6 DEF IInv, DutyUnique, Responsible

LEMMA DutyCounted == IInv => OneResponsible
<1> SUFFICES ASSUME IInv PROVE OneResponsible  OBVIOUS
<1>1. CASE Owners # {}
  BY <1>1, RolesDisjoint, CardinalityOfDuty DEF OneResponsible
<1>2. CASE Owners = {} /\ Poppers # {}
  BY <1>2, RolesDisjoint, CardinalityOfDuty DEF OneResponsible
<1>3. CASE Owners = {} /\ Poppers = {} /\ woken # {}
  BY <1>3, RolesDisjoint, CardinalityOfDuty DEF OneResponsible
<1>4. CASE Owners = {} /\ Poppers = {} /\ woken = {}
  BY <1>4, RolesDisjoint, CardinalityOfDuty DEF OneResponsible
<1> QED  BY <1>1, <1>2, <1>3, <1>4

LEMMA WaitersCounted == IInv => LockedCountsWaiters
<1> SUFFICES ASSUME IInv PROVE LockedCountsWaiters  OBVIOUS
<1>0. locked = Cardinality(Counted) /\ IsFiniteSet(Counted) /\ locked \in Nat
  BY CountedFinite DEF IInv, CountRight
<1>1. Waiters = Counted \ (Owners \cup woken) /\ Owners \subseteq Counted /\ woken \subseteq Counted
  BY DEF IInv, Waiters, Counted, Owners, PushedLocations, OwnerLocations, QueueRight, Pushed
<1>2. locked = Cardinality(Waiters) + (IF locked = 0 THEN 0 ELSE 1)
                 - (IF Poppers = {} /\ handoff = 0 THEN 0 ELSE 1)
  <2>1. CASE Owners \cup woken # {}
    <3>1. PICK c \in Owners \cup woken : TRUE  BY <2>1
    <3>2. Owners \cup woken = {c}  BY <3>1 DEF IInv, DutyUnique, Responsible
    <3>3. Waiters = Counted \ {c} /\ c \in Counted  BY <1>1, <3>2
    <3>4. Cardinality(Waiters) = Cardinality(Counted) - 1
      BY <1>0, <3>3, FS_RemoveElement
    <3>5. Poppers = {} /\ handoff = 0 /\ locked # 0  BY <2>1, RolesDisjoint
    <3> QED  BY <1>0, <3>4, <3>5
  <2>2. CASE Owners = {} /\ woken = {}
    <3>1. Waiters = Counted  BY <1>1, <2>2
    <3>2. locked # 0 <=> Poppers # {} \/ handoff # 0  BY <2>2, RolesDisjoint
    <3> QED  BY <1>0, <3>1, <3>2
  <2> QED  BY <2>1, <2>2
<1>3. ASSUME NEW c \in Coroutines
      PROVE  Cardinality({i \in DOMAIN from_push : from_push[i] = c})
               + Cardinality({i \in DOMAIN to_pop : to_pop[i] = c})
               = IF c \in Waiters /\ pc[c] # "push" THEN 1 ELSE 0
  <2>1. /\ Cardinality({i \in DOMAIN from_push : from_push[i] = c})
             = IF c \in ToSet(from_push) THEN 1 ELSE 0
        /\ Cardinality({i \in DOMAIN to_pop : to_pop[i] = c})
             = IF c \in ToSet(to_pop) THEN 1 ELSE 0
    BY QueueCount DEF IInv, TypeOK, QueueRight
  <2>2. c \in Waiters /\ pc[c] # "push" <=> c \in Pushed \ woken
    BY DEF Waiters, Pushed, PushedLocations
  <2>3. /\ c \in ToSet(from_push) \/ c \in ToSet(to_pop) <=> c \in Pushed \ woken
        /\ ~(c \in ToSet(from_push) /\ c \in ToSet(to_pop))
    BY DEF IInv, QueueRight
  <2> QED  BY <2>1, <2>2, <2>3
<1> QED  BY <1>2, <1>3 DEF LockedCountsWaiters

\* The mutex is consistent: one party has the duty to pass it on, there is one
\* pop_waiter at a time and it finds a record, the assertions of unlock hold,
\* and `locked` and the queue say who waits.  For every range of hand-off
\* numbers, so a stale number that comes round again does no harm.
THEOREM MutexCorrect == Spec => []MutexConsistent
<1>1. IInv => NoConcurrentPop
  BY DEF IInv, NoConcurrentPop, DutyUnique, Responsible, PopReady
<1>2. IInv => UnlockAsserts
  <2> SUFFICES ASSUME IInv, NEW c \in Coroutines, pc[c] = "held"
               PROVE  locked > 0 /\ holder = c
    BY DEF UnlockAsserts
  <2>1. c \in Owners  BY DEF Owners
  <2>2. locked # 0  BY <2>1, RolesDisjoint
  <2>3. locked \in Nat  BY CountedFinite DEF IInv, CountRight
  <2> QED  BY <2>2, <2>3 DEF IInv, HolderRight
<1>3. IInv => MutexConsistent
  BY <1>1, <1>2, DutyCounted, WaitersCounted DEF MutexConsistent, IInv
<1> QED  BY <1>3, Invariance, PTL

-----------------------------------------------------------------------------
(* Refinement of ExclusiveAccess *)

\* The owner of the mutex, if there is one.
LEMMA OwnerChosen ==
  ASSUME NEW c
  PROVE  /\ Owners = {} => LockOwner = NoCo
         /\ Owners = {c} => LockOwner = c
<1>1. Owners = {} => LockOwner = NoCo  BY DEF LockOwner
<1>2. ASSUME Owners = {c} PROVE LockOwner = c
  <2>1. \A d : d \in Owners <=> d = c  BY <1>2
  <2> QED  BY <2>1 DEF LockOwner
<1> QED  BY <1>1, <1>2

LEMMA OwnerChosenNext ==
  ASSUME NEW c
  PROVE  /\ Owners' = {} => LockOwner' = NoCo
         /\ Owners' = {c} => LockOwner' = c
<1>1. Owners' = {} => LockOwner' = NoCo  BY DEF LockOwner
<1>2. ASSUME Owners' = {c} PROVE LockOwner' = c
  <2>1. \A d : d \in Owners' <=> d = c  BY <1>2
  <2> QED  BY <2>1 DEF LockOwner
<1> QED  BY <1>1, <1>2

\* The mutex is taken only when nobody has it.
LEMMA AcquireStep ==
  ASSUME IInv, NEW c \in Coroutines, pc[c] \notin OwnerLocations, pc' = [pc EXCEPT ![c] = "acquired"],
         LockFast(c) \/ LockIncrement(c) \/ LockPop(c) \/ Resume(c)
  PROVE  Access!Acquire(c)
<1>1. Owners = {}
  <2>1. CASE LockFast(c) \/ LockIncrement(c)
    <3>1. pc[c] \in {"fast", "inc"} /\ pc'[c] = "acquired"
      BY <2>1 DEF LockFast, LockIncrement, IInv, TypeOK
    <3>2. locked = 0  BY <2>1, <3>1 DEF LockFast, LockIncrement, Go, IInv, TypeOK
    <3> QED  BY <3>2, RolesDisjoint
  <2>2. CASE LockPop(c)
    <3>1. c \in Poppers  BY <2>2 DEF LockPop, Poppers
    <3> QED  BY <3>1, RolesDisjoint
  <2>3. CASE Resume(c)
    <3>1. c \in woken  BY <2>3 DEF Resume
    <3> QED  BY <3>1, RolesDisjoint
  <2> QED  BY <2>1, <2>2, <2>3
<1>2. Owners' = {c}  BY <1>1 DEF Owners, IInv, TypeOK
<1> QED  BY <1>1, <1>2, OwnerChosen, OwnerChosenNext DEF Access!Acquire

\* The decrement of `locked` gives it up.
LEMMA ReleaseStep ==
  ASSUME IInv, NEW c \in Coroutines, UnlockDecrement(c)
  PROVE  Access!Release(c)
<1>1. PICK loc \in {"idle", "move"} : pc' = [pc EXCEPT ![c] = loc]  BY DEF UnlockDecrement, Go
<1>2. c \in Owners  BY DEF UnlockDecrement, Owners
<1>3. Owners = {c}  BY <1>2 DEF IInv, DutyUnique, Responsible
<1>4. Owners' = {}  BY <1>1, <1>3 DEF Owners, IInv, TypeOK
<1> QED  BY <1>3, <1>4, OwnerChosen, OwnerChosenNext DEF Access!Release

\* A coroutine that is an owner before and after a step, or neither, leaves the
\* owner alone.
LEMMA StutterStep ==
  ASSUME IInv, NEW c \in Coroutines, NEW loc,
         pc' = [pc EXCEPT ![c] = loc], pc[c] \in OwnerLocations <=> loc \in OwnerLocations
  PROVE  LockOwner' = LockOwner
<1>1. Owners' = Owners  BY DEF Owners, OwnerLocations, IInv, TypeOK
<1> QED  BY <1>1 DEF LockOwner

\* Every step of the protocol is a step of ExclusiveAccess or a stutter.
LEMMA NextAccess ==
  IInv /\ [Next]_vars => [Access!Next]_(Access!vars)
<1> SUFFICES ASSUME IInv, [Next]_vars
             PROVE  Access!Next \/ LockOwner' = LockOwner
  BY DEF Access!vars
<1> USE DEF Go, OwnerLocations
<1>1. CASE UNCHANGED vars  BY <1>1 DEF vars, LockOwner, Owners
<1>2. ASSUME NEW c \in Coroutines,
             \/ qemu_co_mutex_lock(c) \/ SpinRetry(c) \/ SpinEnd(c) \/ push_waiter(c)
             \/ ReadHandoff(c) \/ LockTakeHandoff(c) \/ LockMove(c)
             \/ LockReturn(c) \/ qemu_co_mutex_unlock(c)
      PROVE  LockOwner' = LockOwner
  BY <1>2, StutterStep
     DEF qemu_co_mutex_lock, SpinRetry, SpinEnd, push_waiter, ReadHandoff, LockTakeHandoff,
         LockMove, LockReturn, qemu_co_mutex_unlock
<1>3. ASSUME NEW c \in Coroutines,
             \/ LockHasWaiters(c) \/ UnlockHasWaiters(c) \/ UnlockMove(c) \/ UnlockPop(c)
             \/ OfferHandoff(c) \/ UnlockTakeHandoff(c)
      PROVE  LockOwner' = LockOwner
  BY <1>3, StutterStep
     DEF LockHasWaiters, UnlockHasWaiters, has_waiters, UnlockMove, UnlockPop, OfferHandoff,
         UnlockTakeHandoff
<1>4. ASSUME NEW c \in Coroutines,
             LockFast(c) \/ LockIncrement(c) \/ LockPop(c) \/ Resume(c)
      PROVE  Access!Acquire(c) \/ LockOwner' = LockOwner
  <2>1. PICK loc : pc' = [pc EXCEPT ![c] = loc] /\ loc \notin {"held", "dec"}
    BY <1>4 DEF LockFast, LockIncrement, LockPop, Resume
  <2>2. pc[c] \notin OwnerLocations
    BY <1>4 DEF LockFast, LockIncrement, LockPop, Resume
  <2>3. CASE loc = "acquired"  BY <1>4, <2>1, <2>2, <2>3, AcquireStep
  <2>4. CASE loc # "acquired"  BY <2>1, <2>2, <2>4, StutterStep
  <2> QED  BY <2>3, <2>4
<1>5. CASE Next
  BY <1>2, <1>3, <1>4, <1>5, ReleaseStep DEF Next, Lock, Unlock, Access!Next
<1> QED  BY <1>1, <1>5

\* The CoMutex is an exclusive lock, for every finite set of coroutines.
THEOREM RefinesLock == Spec => ImplementsLock
<1>1. Init => Access!Init
  BY DEF Init, Access!Init, Owners, LockOwner
<1> QED  BY <1>1, Invariance, NextAccess, PTL DEF Spec, ImplementsLock, Access!Spec
=============================================================================
