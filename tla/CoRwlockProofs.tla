-------------------------- MODULE CoRwlockProofs --------------------------
(***************************************************************************)
(* Proofs about CoRwlock for every finite set of coroutines.               *)
(***************************************************************************)
EXTENDS CoRwlock, FiniteSetTheorems, SequenceTheorems, TLAPS

-----------------------------------------------------------------------------
(* What the list operations do to the elements of a queue and to its being *)
(* free of duplicates                                                      *)

\* Appending (qemu_co_queue_wait).
LEMMA QueueAppend ==
  ASSUME NEW S, NEW q \in Seq(S), NEW c \in S
  PROVE  /\ Append(q, c) \in Seq(S)
         /\ Append(q, c) # <<>>
         /\ ToSet(Append(q, c)) = ToSet(q) \cup {c}
         /\ Head(Append(q, c)) = IF q = <<>> THEN c ELSE Head(q)
         /\ IsInjective(q) /\ c \notin ToSet(q) => IsInjective(Append(q, c))
<1> DEFINE r == Append(q, c)
<1>1. r \in Seq(S) /\ r # <<>> /\ Len(r) = Len(q) + 1
      /\ (\A i \in 1..Len(q) : r[i] = q[i]) /\ r[Len(q) + 1] = c
  BY AppendProperties
<1>2. DOMAIN q = 1..Len(q) /\ DOMAIN r = 1..(Len(q) + 1) /\ Len(q) \in Nat
  BY <1>1, LenProperties
<1> HIDE DEF r
<1>3. ToSet(r) = ToSet(q) \cup {c}  BY <1>1, <1>2 DEF ToSet
<1>4. IsInjective(q) /\ c \notin ToSet(q) => IsInjective(r)
  BY <1>1, <1>2 DEF ToSet, IsInjective
<1> QED  BY <1>1, <1>3, <1>4, HeadTailAppend DEF r

\* Taking the first element off (qemu_co_queue_next).
LEMMA QueueTail ==
  ASSUME NEW S, NEW q \in Seq(S), q # <<>>
  PROVE  /\ Head(q) \in ToSet(q)
         /\ Head(q) \in S
         /\ Tail(q) \in Seq(S)
         /\ IsInjective(q) => /\ IsInjective(Tail(q))
                              /\ ToSet(Tail(q)) = ToSet(q) \ {Head(q)}
<1> DEFINE t == Tail(q)
<1>1. /\ Head(q) \in S /\ t \in Seq(S)
      /\ Len(t) = Len(q) - 1 /\ \A i \in 1..Len(t) : t[i] = q[i + 1]
  BY HeadTailProperties
<1>2. DOMAIN q = 1..Len(q) /\ DOMAIN t = 1..(Len(q) - 1) /\ Len(q) \in Nat \ {0}
  BY <1>1, LenProperties, EmptySeq
<1>3. Head(q) = q[1]  OBVIOUS
<1> HIDE DEF t
<1>4. Head(q) \in ToSet(q)  BY <1>2, <1>3 DEF ToSet
<1>5. ASSUME IsInjective(q) PROVE IsInjective(t)
  <2>1. ASSUME NEW i \in 1..(Len(q) - 1), NEW j \in 1..(Len(q) - 1), t[i] = t[j]
        PROVE  i = j
    <3>1. i + 1 \in DOMAIN q /\ j + 1 \in DOMAIN q /\ q[i + 1] = q[j + 1]
      BY <1>1, <1>2, <2>1
    <3>2. i + 1 = j + 1  BY <1>5, <3>1 DEF IsInjective
    <3> QED  BY <3>2
  <2> QED  BY <1>2, <2>1 DEF IsInjective
<1>6. ASSUME IsInjective(q) PROVE ToSet(t) = ToSet(q) \ {Head(q)}
  <2>1. ASSUME NEW i \in 1..(Len(q) - 1) PROVE t[i] \in ToSet(q) \ {q[1]}
    BY <1>1, <1>2, <1>6, <2>1 DEF IsInjective, ToSet
  <2>2. ASSUME NEW i \in 1..Len(q), q[i] # q[1] PROVE q[i] \in ToSet(t)
    <3>1. i - 1 \in 1..(Len(q) - 1) /\ q[i] = t[i - 1]  BY <1>1, <1>2, <2>2
    <3> QED  BY <3>1, <1>2 DEF ToSet
  <2> QED  BY <1>2, <1>3, <2>1, <2>2 DEF ToSet
<1> QED  BY <1>1, <1>4, <1>5, <1>6 DEF t

\* Only the empty queue has no elements.
LEMMA QueueEmpty ==
  ASSUME NEW S, NEW q \in Seq(S)
  PROVE  ToSet(q) = {} <=> q = <<>>
<1>1. CASE q = <<>>  BY <1>1 DEF ToSet
<1>2. CASE q # <<>>  BY <1>2, QueueTail
<1> QED  BY <1>1, <1>2

-----------------------------------------------------------------------------
(* The inductive invariant *)

\* A writer shares the lock with no reader: qemu_co_rwlock_unlock can tell the
\* two apart by `reader` alone.
WriterAlone == Writers # {} => Readers = {}

\* A writer that waits and has been woken, or is already back in its loop.
ActiveWriters == {c \in PendingWriters : c \in woken \/ pc[c] \in {"wr_retry", "up_retry"}}

\* Unless a writer has downgraded while somebody waited: a queue is attended to
\* by a reader, a writer or a woken writer; a woken writer meets no reader; and
\* behind readers a writer is at the head of the queue.
QueueAttended ==
  ~downgraded =>
    /\ queue # <<>> => Readers # {} \/ Writers # {} \/ ActiveWriters # {}
    /\ ActiveWriters # {} => Readers = {}
    /\ Readers # {} /\ queue # <<>> => Head(queue) \in PendingWriters

IInv == TypeOK /\ CountersAgree /\ LocksHeldBalanced /\ WriterAlone /\ QueueAttended

-----------------------------------------------------------------------------
(* Lemmas *)

\* What qemu_co_queue_wait does to the queue of coroutines.
LEMMA CoQueueAppend ==
  ASSUME NEW q \in Seq(Coroutines), NEW c \in Coroutines
  PROVE  /\ Append(q, c) \in Seq(Coroutines)
         /\ Append(q, c) # <<>>
         /\ ToSet(Append(q, c)) = ToSet(q) \cup {c}
         /\ Head(Append(q, c)) = IF q = <<>> THEN c ELSE Head(q)
         /\ IsInjective(q) /\ c \notin ToSet(q) => IsInjective(Append(q, c))
BY QueueAppend

\* The counters are cardinalities of finite sets.
LEMMA FiniteCounts ==
  /\ IsFiniteSet(Readers) /\ Cardinality(Readers) \in Nat
  /\ IsFiniteSet(PendingWriters) /\ Cardinality(PendingWriters) \in Nat
  /\ Cardinality(Readers) = 0 <=> Readers = {}
  /\ Cardinality(PendingWriters) = 0 <=> PendingWriters = {}
<1>1. Readers \in SUBSET Coroutines /\ PendingWriters \in SUBSET Coroutines
  BY DEF Readers, PendingWriters
<1>2. IsFiniteSet(Readers) /\ IsFiniteSet(PendingWriters)
  BY <1>1, CoroutinesAssumption, FS_Subset
<1> QED  BY <1>2, FS_CardinalityType, FS_EmptySet

-----------------------------------------------------------------------------
(* One lemma per action *)

LEMMA InitIInv == Init => IInv
<1> SUFFICES ASSUME Init PROVE IInv  OBVIOUS
<1> USE DEF Init, Mutex!Init
<1>1. TypeOK  BY EmptySeq DEF TypeOK, Locations
<1>2. Readers = {} /\ PendingWriters = {} /\ Writers = {}
  BY DEF Readers, PendingWriters, Writers
<1>3. CountersAgree
  BY <1>2, FS_EmptySet DEF CountersAgree, IsInjective, ToSet
<1> QED
  BY <1>1, <1>2, <1>3 DEF IInv, LocksHeldBalanced, WriterAlone, QueueAttended, ActiveWriters

LEMMA Step_Call ==
  ASSUME IInv, NEW c \in Coroutines, Call(c)
  PROVE  IInv'
<1> USE DEF IInv, Call, Go
<1>1. TypeOK'  BY DEF TypeOK, Locations
<1>2. /\ Readers' = Readers /\ PendingWriters' = PendingWriters /\ Writers' = Writers
      /\ ActiveWriters' = ActiveWriters
  BY DEF TypeOK, Readers, PendingWriters, Writers, ActiveWriters
<1>3. CountersAgree'  BY <1>2 DEF CountersAgree, TypeOK
<1>4. LocksHeldBalanced'  BY DEF LocksHeldBalanced, TypeOK
<1>5. WriterAlone'  BY <1>2 DEF WriterAlone
<1>6. QueueAttended'  BY <1>2 DEF QueueAttended
<1> QED  BY <1>1, <1>3, <1>4, <1>5, <1>6

LEMMA Step_CallUpgrade ==
  ASSUME IInv, NEW c \in Coroutines, CallUpgrade(c)
  PROVE  IInv'
<1> USE DEF IInv, CallUpgrade, Go
<1>1. TypeOK'  BY DEF TypeOK, Locations
<1>2. /\ Readers' = Readers /\ PendingWriters' = PendingWriters /\ Writers' = Writers
      /\ ActiveWriters' = ActiveWriters
  BY DEF TypeOK, Readers, PendingWriters, Writers, ActiveWriters
<1>3. CountersAgree'  BY <1>2 DEF CountersAgree, TypeOK
<1>4. LocksHeldBalanced'  BY DEF LocksHeldBalanced, TypeOK
<1>5. WriterAlone'  BY <1>2 DEF WriterAlone
<1>6. QueueAttended'  BY <1>2 DEF QueueAttended
<1> QED  BY <1>1, <1>3, <1>4, <1>5, <1>6

\* A woken coroutine was waiting; a woken writer stays an active one.
LEMMA Step_Resume ==
  ASSUME IInv, NEW c \in Coroutines, Resume(c)
  PROVE  IInv'
<1> USE DEF IInv, Resume, Go
<1>0. pc[c] \in {"rd_wait", "wr_wait", "up_wait"} /\ c \notin ToSet(queue)
  BY DEF CountersAgree
<1>1. TypeOK'  BY <1>0 DEF TypeOK, Locations
<1>2. /\ Readers' = Readers /\ PendingWriters' = PendingWriters /\ Writers' = Writers
      /\ ActiveWriters' = ActiveWriters
  BY <1>0 DEF TypeOK, Readers, PendingWriters, Writers, ActiveWriters
<1>3. CountersAgree'  BY <1>0, <1>2 DEF CountersAgree, TypeOK
<1>4. LocksHeldBalanced'  BY <1>0 DEF LocksHeldBalanced, TypeOK
<1>5. WriterAlone'  BY <1>2 DEF WriterAlone
<1>6. QueueAttended'  BY <1>2 DEF QueueAttended
<1> QED  BY <1>1, <1>3, <1>4, <1>5, <1>6

\* A reader that gets in finds no writer in line, hence nobody in the queue.
LEMMA Step_rdlock ==
  ASSUME IInv, NEW c \in Coroutines, qemu_co_rwlock_rdlock(c)
  PROVE  IInv'
<1> USE DEF IInv, qemu_co_rwlock_rdlock, qemu_co_queue_wait, Go, Hold
<1>0. queue \in Seq(Coroutines) /\ c \notin ToSet(queue) /\ c \notin woken /\ Writers = {}
  BY DEF CountersAgree, TypeOK
<1>1. CASE pending_writer > 0
  <2>1. TypeOK'  BY <1>0, <1>1, CoQueueAppend DEF TypeOK, Locations
  <2>2. /\ Readers' = Readers /\ PendingWriters' = PendingWriters /\ Writers' = Writers
        /\ ActiveWriters' = ActiveWriters
    BY <1>1 DEF TypeOK, Readers, PendingWriters, Writers, ActiveWriters
  <2>3. CountersAgree'
    <3>1. ToSet(queue') = ToSet(queue) \cup {c} /\ IsInjective(queue')
      BY <1>0, <1>1, CoQueueAppend DEF CountersAgree
    <3>2. {d \in Coroutines : pc'[d] \in {"rd_wait", "wr_wait", "up_wait"}}
            = {d \in Coroutines : pc[d] \in {"rd_wait", "wr_wait", "up_wait"}} \cup {c}
      BY <1>1 DEF TypeOK
    <3> QED  BY <1>0, <1>1, <2>2, <3>1, <3>2 DEF CountersAgree
  <2>4. LocksHeldBalanced'  BY <1>1 DEF LocksHeldBalanced, TypeOK
  <2>5. WriterAlone'  BY <2>2 DEF WriterAlone
  <2>6. QueueAttended'
    <3>1. PendingWriters # {}  BY <1>1, FiniteCounts DEF CountersAgree
    <3>2. ~downgraded /\ queue = <<>> => Readers = {} /\ ActiveWriters # {}
      BY <3>1, QueueEmpty
         DEF CountersAgree, QueueAttended, ActiveWriters, PendingWriters, TypeOK
    <3> QED  BY <1>0, <1>1, <2>2, <3>2, CoQueueAppend DEF QueueAttended
  <2> QED  BY <2>1, <2>3, <2>4, <2>5, <2>6
<1>2. CASE ~(pending_writer > 0)
  <2>0. PendingWriters = {} /\ ActiveWriters = {}
    BY <1>2, FiniteCounts DEF CountersAgree, ActiveWriters, TypeOK
  <2>a. locks_held' = [locks_held EXCEPT ![c] = 1]
    BY <1>2 DEF LocksHeldBalanced
  <2>1. TypeOK'  BY <1>2, <2>a DEF TypeOK, Locations
  <2>2. /\ Readers' = Readers \cup {c} /\ c \notin Readers
        /\ PendingWriters' = PendingWriters /\ Writers' = Writers
        /\ ActiveWriters' = ActiveWriters
    BY <1>2 DEF TypeOK, Readers, PendingWriters, Writers, ActiveWriters
  <2>3. Cardinality(Readers') = Cardinality(Readers) + 1
    BY <2>2, FiniteCounts, FS_AddElement
  <2>4. CountersAgree'  BY <1>0, <1>2, <2>2, <2>3 DEF CountersAgree, TypeOK
  <2>5. LocksHeldBalanced'  BY <1>2, <2>a DEF LocksHeldBalanced, TypeOK
  <2>6. WriterAlone'  BY <1>0, <2>2 DEF WriterAlone
  <2>7. QueueAttended'  BY <1>0, <1>2, <2>0, <2>2 DEF QueueAttended
  <2> QED  BY <2>1, <2>4, <2>5, <2>6, <2>7
<1> QED  BY <1>1, <1>2

\* A writer that finds readers gets in line; it heads an empty queue.
LEMMA Step_wrlock ==
  ASSUME IInv, NEW c \in Coroutines, qemu_co_rwlock_wrlock(c)
  PROVE  IInv'
<1> USE DEF IInv, qemu_co_rwlock_wrlock, qemu_co_queue_wait, Mutex!Acquire, Go, Hold
<1>0. /\ queue \in Seq(Coroutines) /\ c \notin ToSet(queue) /\ c \notin woken
      /\ Writers = {} /\ c # NoCo
  BY CoroutinesAssumption DEF CountersAgree, TypeOK
<1>1. CASE reader > 0
  <2>0. pending_writer' \in Nat /\ queue' \in Seq(Coroutines)
    <3>1. pending_writer' = pending_writer + 1 /\ pending_writer \in Nat  BY <1>1 DEF TypeOK
    <3>2. queue' \in Seq(Coroutines)  BY <1>0, <1>1, CoQueueAppend
    <3> QED  BY <3>1, <3>2
  <2>1. TypeOK'  BY <1>1, <2>0 DEF TypeOK, Locations
  <2>2. /\ Readers' = Readers /\ Writers' = Writers
        /\ PendingWriters' = PendingWriters \cup {c} /\ c \notin PendingWriters
        /\ ActiveWriters' = ActiveWriters
    BY <1>0, <1>1 DEF TypeOK, Readers, PendingWriters, Writers, ActiveWriters
  <2>3. Cardinality(PendingWriters') = Cardinality(PendingWriters) + 1
    BY <2>2, FiniteCounts, FS_AddElement
  <2>4. CountersAgree'
    <3>1. ToSet(queue') = ToSet(queue) \cup {c} /\ IsInjective(queue')
      BY <1>0, <1>1, CoQueueAppend DEF CountersAgree
    <3>2. {d \in Coroutines : pc'[d] \in {"rd_wait", "wr_wait", "up_wait"}}
            = {d \in Coroutines : pc[d] \in {"rd_wait", "wr_wait", "up_wait"}} \cup {c}
      BY <1>1 DEF TypeOK
    <3> QED  BY <1>0, <1>1, <2>2, <2>3, <3>1, <3>2 DEF CountersAgree
  <2>5. LocksHeldBalanced'  BY <1>1 DEF LocksHeldBalanced, TypeOK
  <2>6. WriterAlone'  BY <2>2 DEF WriterAlone
  <2>7. QueueAttended'
    <3>1. Readers # {}  BY <1>1, FiniteCounts DEF CountersAgree
    <3> QED  BY <1>0, <1>1, <2>2, <3>1, CoQueueAppend DEF QueueAttended
  <2> QED  BY <2>1, <2>4, <2>5, <2>6, <2>7
<1>2. CASE ~(reader > 0)
  <2>0. Readers = {}  BY <1>2, FiniteCounts DEF CountersAgree, TypeOK
  <2>a. locks_held' = [locks_held EXCEPT ![c] = 1]
    BY <1>2 DEF LocksHeldBalanced
  <2>1. TypeOK'  BY <1>2, <2>a DEF TypeOK, Locations
  <2>2. /\ Readers' = Readers /\ Writers' = {c} /\ PendingWriters' = PendingWriters
        /\ ActiveWriters' = ActiveWriters
    BY <1>0, <1>2 DEF TypeOK, Readers, PendingWriters, Writers, ActiveWriters
  <2>3. CountersAgree'  BY <1>0, <1>2, <2>2 DEF CountersAgree, TypeOK
  <2>4. LocksHeldBalanced'  BY <1>2, <2>a DEF LocksHeldBalanced, TypeOK
  <2>5. WriterAlone'  BY <2>0, <2>2 DEF WriterAlone
  <2>6. QueueAttended'  BY <1>2, <2>0, <2>2 DEF QueueAttended
  <2> QED  BY <2>1, <2>3, <2>4, <2>5, <2>6
<1> QED  BY <1>1, <1>2

\* The reader that upgrades gives up its place among the readers.
LEMMA Step_upgrade ==
  ASSUME IInv, NEW c \in Coroutines, qemu_co_rwlock_upgrade(c)
  PROVE  IInv'
<1> USE DEF IInv, qemu_co_rwlock_upgrade, qemu_co_queue_wait, Mutex!Acquire, Go
<1>0. /\ queue \in Seq(Coroutines) /\ c \notin ToSet(queue) /\ c \notin woken
      /\ Writers = {} /\ c # NoCo /\ c \in Readers
  BY CoroutinesAssumption DEF CountersAgree, TypeOK, Readers
<1>a. Cardinality(Readers \ {c}) = Cardinality(Readers) - 1
  BY <1>0, FiniteCounts, FS_RemoveElement
<1>1. CASE reader' > 0
  <2>2. /\ Readers' = Readers \ {c} /\ Writers' = Writers
        /\ PendingWriters' = PendingWriters \cup {c} /\ c \notin PendingWriters
        /\ ActiveWriters' = ActiveWriters
    BY <1>0, <1>1 DEF TypeOK, Readers, PendingWriters, Writers, ActiveWriters
  <2>3. Cardinality(PendingWriters') = Cardinality(PendingWriters) + 1
    BY <2>2, FiniteCounts, FS_AddElement
  <2>0. pending_writer' \in Nat /\ queue' \in Seq(Coroutines) /\ reader' \in Nat
    <3>1. /\ pending_writer' = pending_writer + 1 /\ pending_writer \in Nat
          /\ reader' = reader - 1 /\ reader \in Nat
      BY <1>1 DEF TypeOK
    <3>2. queue' \in Seq(Coroutines)  BY <1>0, <1>1, CoQueueAppend
    <3> QED  BY <1>1, <3>1, <3>2
  <2>1. TypeOK'  BY <1>1, <2>0 DEF TypeOK, Locations
  <2>4. CountersAgree'
    <3>1. ToSet(queue') = ToSet(queue) \cup {c} /\ IsInjective(queue')
      BY <1>0, <1>1, CoQueueAppend DEF CountersAgree
    <3>2. {d \in Coroutines : pc'[d] \in {"rd_wait", "wr_wait", "up_wait"}}
            = {d \in Coroutines : pc[d] \in {"rd_wait", "wr_wait", "up_wait"}} \cup {c}
      BY <1>1 DEF TypeOK
    <3> QED  BY <1>0, <1>1, <1>a, <2>2, <2>3, <3>1, <3>2 DEF CountersAgree
  <2>5. LocksHeldBalanced'  BY <1>1 DEF LocksHeldBalanced, TypeOK
  <2>6. WriterAlone'  BY <1>0, <2>2 DEF WriterAlone
  <2>7. QueueAttended'
    <3>1. Cardinality(Readers \ {c}) > 0  BY <1>1, <1>a DEF CountersAgree
    <3>2. Readers \ {c} # {}
      <4>1. IsFiniteSet(Readers \ {c})  BY FiniteCounts, FS_RemoveElement
      <4> QED  BY <3>1, <4>1, FS_EmptySet
    <3>3. Readers' # {}  BY <2>2, <3>2
    <3> QED  BY <1>0, <1>1, <2>2, <3>3, CoQueueAppend DEF QueueAttended
  <2> QED  BY <2>1, <2>4, <2>5, <2>6, <2>7
<1>2. CASE ~(reader' > 0)
  <2>0. reader' = 0 /\ Cardinality(Readers \ {c}) = 0 /\ Readers \ {c} = {}
    <3>1. reader = Cardinality(Readers) /\ reader' = reader - 1 /\ reader \in Nat
      BY DEF CountersAgree, TypeOK
    <3>2. IsFiniteSet(Readers \ {c})  BY FiniteCounts, FS_RemoveElement
    <3>3. Cardinality(Readers \ {c}) \in Nat  BY <3>2, FS_CardinalityType
    <3> QED  BY <1>2, <1>a, <3>1, <3>2, <3>3, FS_EmptySet
  <2>1. TypeOK'
    <3>1. reader' \in Nat  BY <2>0
    <3> QED  BY <1>2, <3>1 DEF TypeOK, Locations
  <2>2. /\ Readers' = {} /\ Writers' = {c} /\ PendingWriters' = PendingWriters
        /\ ActiveWriters' = ActiveWriters
    BY <1>0, <1>2, <2>0 DEF TypeOK, Readers, PendingWriters, Writers, ActiveWriters
  <2>3. CountersAgree'  BY <1>0, <1>2, <2>0, <2>2, FS_EmptySet DEF CountersAgree, TypeOK
  <2>4. LocksHeldBalanced'  BY <1>2 DEF LocksHeldBalanced, TypeOK
  <2>5. WriterAlone'  BY <2>2 DEF WriterAlone
  <2>6. QueueAttended'  BY <1>2, <2>2 DEF QueueAttended
  <2> QED  BY <2>1, <2>3, <2>4, <2>5, <2>6
<1> QED  BY <1>1, <1>2

\* A woken writer goes back to sleep only if a reader has come in meanwhile,
\* which takes a downgrade.
LEMMA Step_WriterRetry ==
  ASSUME IInv, NEW c \in Coroutines, WriterRetry(c)
  PROVE  IInv'
<1> USE DEF IInv, WriterRetry, qemu_co_queue_wait, Mutex!Acquire, Go, Hold
<1>0. /\ queue \in Seq(Coroutines) /\ c \notin ToSet(queue) /\ c \notin woken
      /\ Writers = {} /\ c # NoCo /\ c \in PendingWriters /\ c \in ActiveWriters
  BY CoroutinesAssumption DEF CountersAgree, TypeOK, PendingWriters, ActiveWriters
<1>1. CASE reader > 0
  <2>1. TypeOK'  BY <1>0, <1>1, CoQueueAppend DEF TypeOK, Locations
  <2>2. /\ Readers' = Readers /\ Writers' = Writers
        /\ PendingWriters' = PendingWriters
    BY <1>0, <1>1 DEF TypeOK, Readers, PendingWriters, Writers
  <2>3. CountersAgree'
    <3>1. ToSet(queue') = ToSet(queue) \cup {c} /\ IsInjective(queue')
      BY <1>0, <1>1, CoQueueAppend DEF CountersAgree
    <3>2. {d \in Coroutines : pc'[d] \in {"rd_wait", "wr_wait", "up_wait"}}
            = {d \in Coroutines : pc[d] \in {"rd_wait", "wr_wait", "up_wait"}} \cup {c}
      BY <1>1 DEF TypeOK
    <3> QED  BY <1>0, <1>1, <2>2, <3>1, <3>2 DEF CountersAgree
  <2>4. LocksHeldBalanced'  BY <1>1 DEF LocksHeldBalanced, TypeOK
  <2>5. WriterAlone'  BY <2>2 DEF WriterAlone
  <2>6. QueueAttended'
    <3>1. Readers # {}  BY <1>1, FiniteCounts DEF CountersAgree
    <3>2. downgraded  BY <1>0, <3>1 DEF QueueAttended
    <3> QED  BY <1>1, <3>2 DEF QueueAttended
  <2> QED  BY <2>1, <2>3, <2>4, <2>5, <2>6
<1>2. CASE ~(reader > 0)
  <2>0. Readers = {}  BY <1>2, FiniteCounts DEF CountersAgree, TypeOK
  <2>a. locks_held' = [locks_held EXCEPT ![c] = 1]
    <3>1. CASE pc[c] = "wr_retry"  BY <1>2, <3>1 DEF LocksHeldBalanced
    <3>2. CASE pc[c] = "up_retry"
      <4>1. locks_held' = locks_held /\ locks_held[c] = 1
        BY <1>2, <3>2 DEF LocksHeldBalanced
      <4> QED  BY <4>1 DEF TypeOK
    <3> QED  BY <3>1, <3>2
  <2>b. Cardinality(PendingWriters \ {c}) = Cardinality(PendingWriters) - 1
    BY <1>0, FiniteCounts, FS_RemoveElement
  <2>c. pending_writer - 1 \in Nat
    <3>1. IsFiniteSet(PendingWriters \ {c})  BY FiniteCounts, FS_RemoveElement
    <3> QED  BY <3>1, <2>b, FS_CardinalityType DEF CountersAgree
  <2>1. TypeOK'  BY <1>2, <2>a, <2>c DEF TypeOK, Locations
  <2>2. /\ Readers' = Readers /\ Writers' = {c} /\ PendingWriters' = PendingWriters \ {c}
    BY <1>0, <1>2 DEF TypeOK, Readers, PendingWriters, Writers
  <2>3. CountersAgree'  BY <1>0, <1>2, <2>2, <2>b DEF CountersAgree, TypeOK
  <2>4. LocksHeldBalanced'  BY <1>2, <2>a DEF LocksHeldBalanced, TypeOK
  <2>5. WriterAlone'  BY <2>0, <2>2 DEF WriterAlone
  <2>6. QueueAttended'  BY <1>2, <2>0, <2>2 DEF QueueAttended
  <2> QED  BY <2>1, <2>3, <2>4, <2>5, <2>6
<1> QED  BY <1>1, <1>2

\* The writer becomes the only reader.  If that is not to be remembered, nobody
\* waits.
LEMMA Step_downgrade ==
  ASSUME IInv, NEW c \in Coroutines, qemu_co_rwlock_downgrade(c)
  PROVE  IInv'
<1> USE DEF IInv, qemu_co_rwlock_downgrade, Mutex!Release, Go
<1>0. c \in Writers /\ Writers = {c} /\ Readers = {} /\ c \notin Readers
  BY DEF CountersAgree, TypeOK, Writers, WriterAlone
<1>1. TypeOK'  BY DEF TypeOK, Locations
<1>2. /\ Readers' = Readers \cup {c} /\ Writers' = {}
      /\ PendingWriters' = PendingWriters /\ ActiveWriters' = ActiveWriters
  BY <1>0 DEF TypeOK, Readers, PendingWriters, Writers, ActiveWriters
<1>3. Cardinality(Readers') = Cardinality(Readers) + 1
  BY <1>0, <1>2, FiniteCounts, FS_AddElement
<1>4. CountersAgree'
  <2>1. {d \in Coroutines : pc'[d] \in {"rd_wait", "wr_wait", "up_wait"}}
          = {d \in Coroutines : pc[d] \in {"rd_wait", "wr_wait", "up_wait"}}
    BY DEF TypeOK
  <2> QED  BY <1>2, <1>3, <2>1 DEF CountersAgree, TypeOK
<1>5. LocksHeldBalanced'  BY DEF LocksHeldBalanced, TypeOK
<1>6. WriterAlone'  BY <1>2 DEF WriterAlone
<1>7. QueueAttended'
  <2>1. ASSUME ~downgraded' PROVE PendingWriters = {} /\ queue = <<>>
    <3>1. ~(pending_writer > 0) /\ pending_writer \in Nat /\ queue = <<>>
      BY <2>1 DEF TypeOK
    <3>2. pending_writer = 0  BY <3>1
    <3> QED  BY <3>1, <3>2, FiniteCounts DEF CountersAgree
  <2> QED  BY <1>2, <2>1 DEF QueueAttended, ActiveWriters
<1> QED  BY <1>1, <1>4, <1>5, <1>6, <1>7

\* `reader` tells the writer's unlock, which leaves an empty queue, from a
\* reader's, which only drops locks_held here.
LEMMA Step_unlock ==
  ASSUME IInv, NEW c \in Coroutines, qemu_co_rwlock_unlock(c)
  PROVE  IInv'
<1> USE DEF IInv, qemu_co_rwlock_unlock, qemu_co_queue_restart_all, Mutex!Release, Go, Unhold
<1>a. locks_held' = [locks_held EXCEPT ![c] = 0]
  BY DEF LocksHeldBalanced
<1>1. CASE reader = 0
  <2>0. Readers = {} /\ c \in Writers /\ Writers = {c}
    BY <1>1, FiniteCounts DEF CountersAgree, TypeOK, Writers, Readers
  <2>b. woken' \in SUBSET Coroutines /\ queue' = <<>> /\ queue' \in Seq(Coroutines)
    BY <1>1, EmptySeq DEF CountersAgree, TypeOK
  <2>1. TypeOK'  BY <1>1, <1>a, <2>b DEF TypeOK, Locations
  <2>2. Readers' = Readers /\ Writers' = {} /\ PendingWriters' = PendingWriters
    BY <1>1, <2>0 DEF TypeOK, Readers, PendingWriters, Writers
  <2>3. CountersAgree'
    <3>1. ToSet(queue') = {} /\ IsInjective(queue')
      BY <2>b DEF ToSet, IsInjective
    <3>2. {d \in Coroutines : pc'[d] \in {"rd_wait", "wr_wait", "up_wait"}}
            = {d \in Coroutines : pc[d] \in {"rd_wait", "wr_wait", "up_wait"}}
      BY <1>1, <2>0 DEF TypeOK, Writers
    <3> QED  BY <1>1, <2>2, <3>1, <3>2 DEF CountersAgree
  <2>4. LocksHeldBalanced'  BY <1>1, <1>a DEF LocksHeldBalanced, TypeOK
  <2>5. WriterAlone'  BY <2>2 DEF WriterAlone
  <2>6. QueueAttended'  BY <1>1, <2>0, <2>b, <2>2 DEF QueueAttended
  <2> QED  BY <2>1, <2>3, <2>4, <2>5, <2>6
<1>2. CASE reader # 0
  <2>0. c \in Readers /\ pc[c] = "reading"
    BY <1>2, FiniteCounts DEF CountersAgree, Writers, WriterAlone, Readers, TypeOK
  <2>1. TypeOK'  BY <1>2, <1>a DEF TypeOK, Locations
  <2>2. /\ Readers' = Readers /\ Writers' = Writers /\ PendingWriters' = PendingWriters
        /\ ActiveWriters' = ActiveWriters
    BY <1>2, <2>0 DEF TypeOK, Readers, PendingWriters, Writers, ActiveWriters
  <2>3. CountersAgree'  BY <1>2, <2>0, <2>2 DEF CountersAgree, TypeOK
  <2>4. LocksHeldBalanced'  BY <1>2, <1>a DEF LocksHeldBalanced, TypeOK
  <2>5. WriterAlone'  BY <2>2 DEF WriterAlone
  <2>6. QueueAttended'  BY <1>2, <2>2 DEF QueueAttended
  <2> QED  BY <2>1, <2>3, <2>4, <2>5, <2>6
<1> QED  BY <1>1, <1>2

\* The last reader leaves: the head of the queue, which it wakes, is a writer
\* unless a downgrade has let readers in ahead of it.
LEMMA Step_ReaderUnlock ==
  ASSUME IInv, NEW c \in Coroutines, ReaderUnlock(c)
  PROVE  IInv'
<1> USE DEF IInv, ReaderUnlock, qemu_co_queue_next, Go
<1>0. /\ queue \in Seq(Coroutines) /\ c \in Readers /\ Writers = {}
      /\ reader = Cardinality(Readers) /\ reader' = reader - 1
  BY DEF CountersAgree, TypeOK, Readers
<1>a. /\ Cardinality(Readers \ {c}) = reader - 1
      /\ reader' \in Nat
      /\ reader' = 0 <=> Readers \ {c} = {}
  <2>1. IsFiniteSet(Readers \ {c}) /\ Cardinality(Readers \ {c}) = Cardinality(Readers) - 1
    BY <1>0, FiniteCounts, FS_RemoveElement
  <2>2. Cardinality(Readers \ {c}) \in Nat  BY <2>1, FS_CardinalityType
  <2> QED  BY <1>0, <2>1, <2>2, FS_EmptySet
<1>b. /\ Readers' = Readers \ {c} /\ Writers' = {} /\ PendingWriters' = PendingWriters
  BY <1>0 DEF TypeOK, Readers, PendingWriters, Writers
<1>c. {d \in Coroutines : pc'[d] \in {"rd_wait", "wr_wait", "up_wait"}}
        = {d \in Coroutines : pc[d] \in {"rd_wait", "wr_wait", "up_wait"}}
  BY DEF TypeOK
<1>4. LocksHeldBalanced'  BY DEF LocksHeldBalanced, TypeOK
<1>5. WriterAlone'  BY <1>b DEF WriterAlone
<1>1. CASE reader' = 0 /\ queue # <<>>
  <2>0. /\ Head(queue) \in ToSet(queue) /\ Head(queue) \in Coroutines
        /\ Tail(queue) \in Seq(Coroutines) /\ IsInjective(Tail(queue))
        /\ ToSet(Tail(queue)) = ToSet(queue) \ {Head(queue)}
    BY <1>0, <1>1, QueueTail DEF CountersAgree
  <2>1. TypeOK'  BY <1>1, <1>a, <2>0 DEF TypeOK, Locations
  <2>2. CountersAgree'
    <3>1. queue' = Tail(queue) /\ woken' = woken \cup {Head(queue)}  BY <1>1
    <3>2. reader' = Cardinality(Readers')  BY <1>0, <1>a, <1>b
    <3>3. /\ ToSet(queue') \cap woken' = {}
          /\ ToSet(queue') \cup woken' = ToSet(queue) \cup woken
      BY <2>0, <3>1 DEF CountersAgree
    <3> QED  BY <1>0, <1>b, <1>c, <2>0, <3>1, <3>2, <3>3 DEF CountersAgree
  <2>3. QueueAttended'
    <3>1. ~downgraded => Head(queue) \in ActiveWriters'
      BY <1>0, <1>1, <1>b, <2>0 DEF QueueAttended, ActiveWriters
    <3> QED  BY <1>a, <1>b, <1>1, <3>1 DEF QueueAttended
  <2> QED  BY <1>4, <1>5, <2>1, <2>2, <2>3
<1>2. CASE ~(reader' = 0 /\ queue # <<>>)
  <2>0. queue' = queue /\ woken' = woken  BY <1>2
  <2>1. TypeOK'  BY <1>a, <2>0 DEF TypeOK, Locations
  <2>2. CountersAgree'  BY <1>0, <1>a, <1>b, <1>c, <2>0 DEF CountersAgree, TypeOK
  <2>3. ActiveWriters' = ActiveWriters  BY <2>0, <1>b DEF ActiveWriters, TypeOK
  <2>4. QueueAttended'  BY <1>0, <1>2, <1>a, <1>b, <2>0, <2>3 DEF QueueAttended
  <2> QED  BY <1>4, <1>5, <2>1, <2>2, <2>4
<1> QED  BY <1>1, <1>2

LEMMA NextIInv == IInv /\ [Next]_vars => IInv'
<1> SUFFICES ASSUME IInv, [Next]_vars PROVE IInv'  OBVIOUS
<1>1. CASE UNCHANGED vars
  BY <1>1 DEF vars, IInv, TypeOK, CountersAgree, LocksHeldBalanced, WriterAlone,
     QueueAttended, ActiveWriters, Readers, Writers, PendingWriters
<1>2. CASE Next
  BY <1>2, Step_Call, Step_CallUpgrade, Step_downgrade, Step_unlock, Step_rdlock,
     Step_wrlock, Step_upgrade, Step_WriterRetry, Step_ReaderUnlock, Step_Resume
  DEF Next, WithMutex
<1> QED  BY <1>1, <1>2

-----------------------------------------------------------------------------
(* What follows from the invariant *)

\* IInv holds in every reachable state.
THEOREM Invariance == Spec => []IInv
BY InitIInv, NextIInv, PTL DEF Spec

\* `reader` and `pending_writer` are the readers inside and the writers in line,
\* the queue holds every waiting coroutine once, a writer holds the mutex, and
\* locks_held is balanced on every path.
THEOREM CountersCorrect == Spec => []CountersConsistent
<1>1. IInv => CountersConsistent  BY DEF IInv, CountersConsistent
<1> QED  BY <1>1, Invariance, PTL

\* Without a downgrade while somebody waits, a queue is never left to itself.
THEOREM ForgottenSafe == Spec => []ForgottenOnlyByDowngrade
<1>1. IInv => ForgottenOnlyByDowngrade
  <2> SUFFICES ASSUME IInv, ~downgraded, queue # <<>>
               PROVE  \E c \in Coroutines \ ToSet(queue) : pc[c] # "idle"
    BY DEF ForgottenOnlyByDowngrade, NoForgottenWaiter
  <2>1. PICK c \in Readers \cup Writers \cup ActiveWriters : TRUE
    BY DEF IInv, QueueAttended
  <2>2. c \in Coroutines /\ pc[c] # "idle" /\ c \notin ToSet(queue)
    BY <2>1 DEF IInv, CountersAgree, Readers, Writers, ActiveWriters, PendingWriters
  <2> QED  BY <2>2
<1> QED  BY <1>1, Invariance, PTL

\* Without such a downgrade the coroutine that the last reader wakes is a
\* writer, as the comment in qemu_co_rwlock_unlock says.
THEOREM LastReaderSafe == Spec => LastReaderWakesWriter
<1>1. ASSUME IInv, reader = 1, queue # <<>>, ~downgraded
      PROVE  Head(queue) \in PendingWriters
  <2>1. Readers # {}  BY <1>1, FiniteCounts DEF IInv, CountersAgree
  <2> QED  BY <1>1, <2>1 DEF IInv, QueueAttended
<1>2. IInv => [reader = 1 /\ reader' = 0 /\ queue # <<>> /\ ~downgraded
                 => Head(queue) \in PendingWriters]_vars
  BY <1>1
<1> QED  BY <1>2, Invariance, PTL DEF LastReaderWakesWriter

-----------------------------------------------------------------------------
(* Refinement of RwAccess *)

\* The abstract owner is the holder of the mutex.
LEMMA OwnerIsMutex == IInv => WriteOwner = mutex
<1> SUFFICES ASSUME IInv PROVE WriteOwner = mutex  OBVIOUS
<1>1. CASE mutex = NoCo
  <2>1. Writers = {}  BY <1>1 DEF IInv, CountersAgree
  <2> QED  BY <1>1, <2>1 DEF WriteOwner
<1>2. CASE mutex # NoCo
  <2>1. \A c : c \in Writers <=> c = mutex  BY <1>2 DEF IInv, CountersAgree
  <2> QED  BY <2>1 DEF WriteOwner
<1> QED  BY <1>1, <1>2

LEMMA OwnerIsMutexNext == IInv' => (WriteOwner = mutex)'
BY OwnerIsMutex, PTL

\* Every step that leaves readers and mutex alone is a stutter.
LEMMA StutterStep ==
  ASSUME IInv, IInv', NEW c \in Coroutines,
         Call(c) \/ CallUpgrade(c) \/ Resume(c)
  PROVE  UNCHANGED <<Readers, mutex>>
<1>1. Resume(c) => pc[c] \in {"rd_wait", "wr_wait", "up_wait"}
  BY DEF IInv, CountersAgree, Resume
<1> QED  BY <1>1 DEF Call, CallUpgrade, Resume, Go, IInv, TypeOK, Readers

\* A reader shares, and waits as long as there is a writer in line.
LEMMA RdlockStep ==
  ASSUME IInv, IInv', NEW c \in Coroutines, qemu_co_rwlock_rdlock(c)
  PROVE  Access!Enter(c) \/ UNCHANGED <<Readers, mutex>>
<1> USE DEF qemu_co_rwlock_rdlock, qemu_co_queue_wait, Go
<1>1. CASE pending_writer > 0  BY <1>1 DEF IInv, TypeOK, Readers
<1>2. CASE ~(pending_writer > 0)
  <2>1. c \notin Readers /\ Readers' = Readers \cup {c}  BY <1>2 DEF IInv, TypeOK, Readers
  <2> QED  BY <1>2, <2>1, OwnerIsMutex, OwnerIsMutexNext DEF Access!Enter
<1> QED  BY <1>1, <1>2

\* A writer that gets in finds neither readers nor another writer, whether it
\* has waited or not.
LEMMA WriterStep ==
  ASSUME IInv, IInv', NEW c \in Coroutines,
         qemu_co_rwlock_wrlock(c) \/ WriterRetry(c)
  PROVE  Access!Acquire(c) \/ UNCHANGED <<Readers, mutex>>
<1> USE DEF qemu_co_rwlock_wrlock, WriterRetry, qemu_co_queue_wait, Mutex!Acquire, Go
<1>0. Readers' = Readers  BY DEF IInv, TypeOK, Readers
<1>1. CASE reader > 0  BY <1>0, <1>1
<1>2. CASE ~(reader > 0)
  <2>1. Readers = {}
    <3>1. reader = 0  BY <1>2 DEF IInv, TypeOK
    <3> QED  BY <3>1, FiniteCounts DEF IInv, CountersAgree
  <2>2. mutex = NoCo /\ mutex' = c  BY <1>2
  <2> QED  BY <1>0, <2>1, <2>2, OwnerIsMutex, OwnerIsMutexNext DEF Access!Acquire
<1> QED  BY <1>1, <1>2

\* The only reader upgrades at once; any other leaves the readers to wait.
LEMMA UpgradeStep ==
  ASSUME IInv, IInv', NEW c \in Coroutines, qemu_co_rwlock_upgrade(c)
  PROVE  Access!Upgrade(c) \/ Access!Leave(c)
<1> USE DEF qemu_co_rwlock_upgrade, qemu_co_queue_wait, Mutex!Acquire, Go
<1>0. c \in Readers /\ Readers' = Readers \ {c} /\ mutex = NoCo
  BY DEF IInv, TypeOK, Readers
<1>1. CASE reader' > 0
  <2>1. mutex' = mutex  BY <1>1
  <2> QED  BY <1>0, <2>1, OwnerIsMutex, OwnerIsMutexNext DEF Access!Leave
<1>2. CASE ~(reader' > 0)
  <2>1. mutex' = c  BY <1>2
  <2>2. c \in Writers'
    <3>1. mutex' # NoCo  BY <2>1, CoroutinesAssumption
    <3> QED  BY <2>1, <3>1 DEF IInv, CountersAgree
  <2>3. Readers' = {}  BY <2>2 DEF IInv, WriterAlone
  <2> QED  BY <1>0, <2>1, <2>3, OwnerIsMutexNext DEF Access!Upgrade
<1> QED  BY <1>1, <1>2

\* A downgrade lets nobody in between.
LEMMA DowngradeStep ==
  ASSUME IInv, IInv', NEW c \in Coroutines, qemu_co_rwlock_downgrade(c)
  PROVE  Access!Downgrade(c)
<1> USE DEF qemu_co_rwlock_downgrade, Mutex!Release, Go
<1>1. c \in Writers  BY DEF Writers
<1>2. Readers = {}  BY <1>1 DEF IInv, WriterAlone
<1>3. Readers' = {c}  BY <1>2 DEF IInv, TypeOK, Readers
<1> QED  BY <1>3, OwnerIsMutex, OwnerIsMutexNext DEF Access!Downgrade

\* An unlock releases what the caller holds.
LEMMA UnlockStep ==
  ASSUME IInv, IInv', NEW c \in Coroutines, qemu_co_rwlock_unlock(c)
  PROVE  Access!Release(c) \/ UNCHANGED <<Readers, mutex>>
<1> USE DEF qemu_co_rwlock_unlock, Mutex!Release, Go
<1>1. CASE reader = 0
  <2>1. c \notin Readers  BY <1>1, FiniteCounts DEF IInv, CountersAgree
  <2>2. Readers' = Readers  BY <1>1, <2>1 DEF IInv, TypeOK, Readers
  <2>3. mutex = c /\ mutex' = NoCo  BY <1>1
  <2> QED  BY <2>2, <2>3, OwnerIsMutex, OwnerIsMutexNext DEF Access!Release
<1>2. CASE reader # 0
  <2>1. Readers # {}  BY <1>2, FiniteCounts DEF IInv, CountersAgree
  <2>2. c \notin Writers  BY <2>1 DEF IInv, WriterAlone
  <2> QED  BY <1>2, <2>2 DEF IInv, TypeOK, Readers, Writers
<1> QED  BY <1>1, <1>2

\* A reader that has the mutex leaves.
LEMMA ReaderUnlockStep ==
  ASSUME IInv, IInv', NEW c \in Coroutines, ReaderUnlock(c)
  PROVE  Access!Leave(c)
<1>1. c \in Readers /\ Readers' = Readers \ {c} /\ mutex' = mutex
  BY DEF ReaderUnlock, Go, IInv, TypeOK, Readers
<1> QED  BY <1>1, OwnerIsMutex, OwnerIsMutexNext DEF Access!Leave

\* Every step of the lock is a step of RwAccess or a stutter.
LEMMA NextAccess ==
  IInv /\ IInv' /\ [Next]_vars => [Access!RwNext]_(Access!vars)
<1> SUFFICES ASSUME IInv, IInv', [Next]_vars
             PROVE  Access!RwNext \/ UNCHANGED <<Readers, mutex>>
  BY OwnerIsMutex, OwnerIsMutexNext DEF Access!vars
<1>1. CASE UNCHANGED vars  BY <1>1 DEF vars, Readers
<1>2. CASE Next
  BY <1>2, StutterStep, RdlockStep, WriterStep, UpgradeStep, DowngradeStep, UnlockStep,
     ReaderUnlockStep
  DEF Next, WithMutex, Access!RwNext, Access!Next
<1> QED  BY <1>1, <1>2

\* The lock implements shared and exclusive access with atomic upgrades and
\* downgrades, for every finite set of coroutines.
THEOREM RefinesRwAccess == Spec => ImplementsRwAccess
<1>1. Init => Access!Init
  BY DEF Init, Mutex!Init, Access!Init, Readers, Writers, WriteOwner
<1> QED
  BY <1>1, Invariance, NextAccess, PTL DEF Spec, ImplementsRwAccess, Access!RwSpec
=============================================================================
