----------------------------- MODULE CoRwlock -----------------------------
(***************************************************************************)
(* The readers/writer lock for coroutines of qemu-coroutine-lock.c: a      *)
(* CoMutex, two counters and a CoQueue of coroutines that wait.  A writer  *)
(* keeps the mutex for its whole critical section; a reader only counts    *)
(* itself under it.  The mutex is that of ExclusiveAccess, which CoMutex   *)
(* implements; what is done under it is one step.                          *)
(***************************************************************************)
EXTENDS Naturals, Sequences, FiniteSets, SequencesExt

CONSTANTS Coroutines, NoCo

ASSUME CoroutinesAssumption == IsFiniteSet(Coroutines) /\ NoCo \notin Coroutines

VARIABLES
  reader,          \* coroutines in a read-side critical section
  pending_writer,  \* coroutines that wait to write
  queue,           \* the CoQueue
  mutex,           \* holder of lock->mutex
  woken,           \* passed to aio_co_wake and not resumed yet
  locks_held,      \* Coroutine.locks_held
  pc,
  downgraded       \* history: a writer downgraded while somebody was waiting

vars == <<reader, pending_writer, queue, mutex, woken, locks_held, pc, downgraded>>

Locations == {"idle", "rd_lock", "rd_wait", "reading", "rd_unlock", "wr_lock",
              "wr_wait", "wr_retry", "up_lock", "up_wait", "up_retry", "writing"}

Mutex == INSTANCE ExclusiveAccess
           WITH Users <- Coroutines, Nobody <- NoCo, sharers <- {}, owner <- mutex

\* qemu_co_rwlock_init
Init ==
  /\ reader = 0 /\ pending_writer = 0
  /\ queue = <<>>
  /\ Mutex!Init
  /\ woken = {}
  /\ locks_held = [c \in Coroutines |-> 0]
  /\ pc = [c \in Coroutines |-> "idle"]
  /\ downgraded = FALSE

Go(c, loc) == pc' = [pc EXCEPT ![c] = loc]
Hold(c) == locks_held' = [locks_held EXCEPT ![c] = @ + 1]
Unhold(c) == locks_held' = [locks_held EXCEPT ![c] = @ - 1]

-----------------------------------------------------------------------------
(* CoQueue *)

\* qemu_co_queue_wait: queue the coroutine, release the mutex, yield.  The
\* coroutine takes the mutex again once it has been woken.
qemu_co_queue_wait(c, loc) ==
  /\ queue' = Append(queue, c)
  /\ Go(c, loc)
  /\ UNCHANGED mutex

qemu_co_queue_next ==
  IF queue = <<>>
    THEN UNCHANGED <<queue, woken>>
    ELSE queue' = Tail(queue) /\ woken' = woken \cup {Head(queue)}

qemu_co_queue_restart_all ==
  /\ queue' = <<>>
  /\ woken' = woken \cup ToSet(queue)

\* The woken coroutine returns from its yield.
Resume(c) ==
  /\ c \in woken
  /\ woken' = woken \ {c}
  /\ Go(c, [rd_wait |-> "rd_lock", wr_wait |-> "wr_retry", up_wait |-> "up_retry"][pc[c]])
  /\ UNCHANGED <<reader, pending_writer, queue, mutex, locks_held, downgraded>>

-----------------------------------------------------------------------------
(* CoRwlock *)

\* A call of rdlock or wrlock, up to qemu_co_mutex_lock.
Call(c) ==
  /\ pc[c] = "idle"
  /\ \E loc \in {"rd_lock", "wr_lock"} : Go(c, loc)
  /\ UNCHANGED <<reader, pending_writer, queue, mutex, woken, locks_held, downgraded>>

\* Wait as long as a writer is in line.
qemu_co_rwlock_rdlock(c) ==
  /\ pc[c] = "rd_lock"
  /\ mutex = NoCo
  /\ IF pending_writer > 0
       THEN qemu_co_queue_wait(c, "rd_wait") /\ UNCHANGED <<reader, locks_held>>
       ELSE /\ reader' = reader + 1
            /\ Hold(c)
            /\ Go(c, "reading")
            /\ UNCHANGED <<queue, mutex>>
  /\ UNCHANGED <<pending_writer, woken, downgraded>>

\* A writer without readers in its way keeps the mutex.
qemu_co_rwlock_wrlock(c) ==
  /\ pc[c] = "wr_lock"
  /\ mutex = NoCo
  /\ IF reader > 0
       THEN /\ pending_writer' = pending_writer + 1
            /\ qemu_co_queue_wait(c, "wr_wait")
            /\ UNCHANGED locks_held
       ELSE /\ Mutex!Acquire(c)
            /\ Hold(c)
            /\ Go(c, "writing")
            /\ UNCHANGED <<pending_writer, queue>>
  /\ UNCHANGED <<reader, woken, downgraded>>

\* qemu_co_rwlock_upgrade by a reader, up to qemu_co_mutex_lock.
CallUpgrade(c) ==
  /\ pc[c] = "reading"
  /\ Go(c, "up_lock")
  /\ UNCHANGED <<reader, pending_writer, queue, mutex, woken, locks_held, downgraded>>

\* The reader already counts in locks_held.
qemu_co_rwlock_upgrade(c) ==
  /\ pc[c] = "up_lock"
  /\ mutex = NoCo
  /\ reader' = reader - 1
  /\ IF reader' > 0
       THEN /\ pending_writer' = pending_writer + 1
            /\ qemu_co_queue_wait(c, "up_wait")
       ELSE /\ Mutex!Acquire(c)
            /\ Go(c, "writing")
            /\ UNCHANGED <<pending_writer, queue>>
  /\ UNCHANGED <<woken, locks_held, downgraded>>

MutCountUpgradeTwice(c) ==
  /\ pc[c] \in {"wr_retry", "up_retry"}
  /\ mutex = NoCo
  /\ IF reader > 0
       THEN /\ qemu_co_queue_wait(c, IF pc[c] = "wr_retry" THEN "wr_wait" ELSE "up_wait")
            /\ UNCHANGED <<pending_writer, locks_held>>
       ELSE /\ pending_writer' = pending_writer - 1
            /\ Mutex!Acquire(c)
            /\ Hold(c)
            /\ Go(c, "writing")
            /\ UNCHANGED queue
  /\ UNCHANGED <<reader, woken, downgraded>>

MutNoRecheck(c) ==
  /\ pc[c] \in {"wr_retry", "up_retry"}
  /\ Mutex!Acquire(c)
  /\ pending_writer' = pending_writer - 1
  /\ IF pc[c] = "wr_retry" THEN Hold(c) ELSE UNCHANGED locks_held
  /\ Go(c, "writing")
  /\ UNCHANGED <<reader, queue, woken, downgraded>>

\* The loop of wrlock and upgrade, after a wait.
WriterRetry(c) ==
  /\ pc[c] \in {"wr_retry", "up_retry"}
  /\ mutex = NoCo
  /\ IF reader > 0
       THEN /\ qemu_co_queue_wait(c, IF pc[c] = "wr_retry" THEN "wr_wait" ELSE "up_wait")
            /\ UNCHANGED <<pending_writer, locks_held>>
       ELSE /\ pending_writer' = pending_writer - 1
            /\ Mutex!Acquire(c)
            /\ IF pc[c] = "wr_retry" THEN Hold(c) ELSE UNCHANGED locks_held
            /\ Go(c, "writing")
            /\ UNCHANGED queue
  /\ UNCHANGED <<reader, woken, downgraded>>

qemu_co_rwlock_downgrade(c) ==
  /\ pc[c] = "writing"
  /\ reader' = reader + 1
  /\ Mutex!Release(c)
  /\ Go(c, "reading")
  /\ downgraded' = (downgraded \/ pending_writer > 0 \/ queue # <<>>)
  /\ UNCHANGED <<pending_writer, queue, woken, locks_held>>

MutWriterWakesOne(c) ==
  /\ pc[c] \in {"reading", "writing"}
  /\ IF reader = 0
       THEN /\ qemu_co_queue_next
            /\ Mutex!Release(c)
            /\ Unhold(c)
            /\ Go(c, "idle")
       ELSE /\ Unhold(c)
            /\ Go(c, "rd_unlock")
            /\ UNCHANGED <<queue, woken, mutex>>
  /\ UNCHANGED <<reader, pending_writer, downgraded>>

\* The lock decides by `reader`, read without the mutex, what it is that the
\* caller holds: the writer wakes everybody and releases the mutex.
qemu_co_rwlock_unlock(c) ==
  /\ pc[c] \in {"reading", "writing"}
  /\ IF reader = 0
       THEN /\ qemu_co_queue_restart_all
            /\ Mutex!Release(c)
            /\ Unhold(c)
            /\ Go(c, "idle")
       ELSE /\ Unhold(c)
            /\ Go(c, "rd_unlock")
            /\ UNCHANGED <<queue, woken, mutex>>
  /\ UNCHANGED <<reader, pending_writer, downgraded>>

\* The last reader wakes the first in the queue.
ReaderUnlock(c) ==
  /\ pc[c] = "rd_unlock"
  /\ mutex = NoCo
  /\ reader' = reader - 1
  /\ IF reader' = 0 THEN qemu_co_queue_next ELSE UNCHANGED <<queue, woken>>
  /\ Go(c, "idle")
  /\ UNCHANGED <<pending_writer, mutex, locks_held, downgraded>>

-----------------------------------------------------------------------------
\* Steps that wait for the mutex.
WithMutex(c) ==
  \/ qemu_co_rwlock_rdlock(c) \/ qemu_co_rwlock_wrlock(c) \/ qemu_co_rwlock_upgrade(c)
  \/ WriterRetry(c) \/ ReaderUnlock(c)

Next ==
  \E c \in Coroutines :
    \/ Call(c) \/ CallUpgrade(c) \/ qemu_co_rwlock_downgrade(c)
    \/ qemu_co_rwlock_unlock(c) \/ WithMutex(c) \/ Resume(c)

Spec == Init /\ [][Next]_vars

\* A scheduled coroutine runs, the mutex is granted to everyone who keeps asking
\* (CoMutex queues them), and every critical section ends.
FairSpec ==
  /\ Spec
  /\ \A c \in Coroutines : /\ SF_vars(WithMutex(c) \/ Resume(c))
                           /\ SF_vars(qemu_co_rwlock_unlock(c))

-----------------------------------------------------------------------------
(* Properties *)

Readers == {c \in Coroutines : pc[c] \in {"reading", "up_lock", "rd_unlock"}}
Writers == {c \in Coroutines : pc[c] = "writing"}
PendingWriters == {c \in Coroutines : pc[c] \in {"wr_wait", "wr_retry", "up_wait", "up_retry"}}

TypeOK ==
  /\ reader \in Nat /\ pending_writer \in Nat
  /\ queue \in Seq(Coroutines)
  /\ mutex \in Coroutines \cup {NoCo}
  /\ woken \in SUBSET Coroutines
  /\ locks_held \in [Coroutines -> Nat]
  /\ pc \in [Coroutines -> Locations]
  /\ downgraded \in BOOLEAN

\* The counters are what qemu_co_rwlock_unlock takes them for, although it reads
\* `reader` without the mutex: the readers inside and the writers in line, and
\* a writer holds the mutex with no reader inside.  Every coroutine waits in the
\* queue at most once, and only at its yield.
CountersAgree ==
  /\ reader = Cardinality(Readers)
  /\ pending_writer = Cardinality(PendingWriters)
  /\ Writers = IF mutex = NoCo THEN {} ELSE {mutex}
  /\ IsInjective(queue)
  /\ ToSet(queue) \cap woken = {}
  /\ ToSet(queue) \cup woken = {c \in Coroutines : pc[c] \in {"rd_wait", "wr_wait", "up_wait"}}

\* Coroutine.locks_held is balanced on every path through rdlock, wrlock, upgrade,
\* downgrade and unlock, so that the assertion that a terminating coroutine
\* holds no lock does not fail (CountersAgree does not see it).
LocksHeldBalanced ==
  \A c \in Coroutines :
    locks_held[c] = IF pc[c] \in {"reading", "up_lock", "up_wait", "up_retry", "writing"}
                      THEN 1 ELSE 0

\* What the lock counts, per lock and per coroutine, is what there is.
CountersConsistent == TypeOK /\ CountersAgree /\ LocksHeldBalanced

\* As long as coroutines wait in the queue, some other coroutine is on its way
\* through the lock and will look after them: whoever leaves the lock to nobody
\* schedules a waiter that can make use of it.
NoForgottenWaiter ==
  queue # <<>> => \E c \in Coroutines \ ToSet(queue) : pc[c] # "idle"

\* A waiter is forgotten only if a writer has downgraded while somebody waited.
ForgottenOnlyByDowngrade == ~downgraded => NoForgottenWaiter

\* Unless a writer has downgraded, the single coroutine that the last reader
\* wakes is a writer, as its comment says, and not a reader that would go back
\* to sleep behind the writer.
LastReaderWakesWriter ==
  [][reader = 1 /\ reader' = 0 /\ queue # <<>> /\ ~downgraded
       => Head(queue) \in PendingWriters]_vars

\* A writer in line gets the lock, however many readers come and go.
WriterGetsLock ==
  \A c \in Coroutines :
    c \in PendingWriters /\ ~downgraded ~> c \in Writers \/ downgraded

\* Writers are served: woken by the last reader, and in the end let in.
WritersServed == LastReaderWakesWriter /\ WriterGetsLock

WriteOwner == IF Writers = {} THEN NoCo ELSE CHOOSE c \in Writers : TRUE

Access == INSTANCE RwAccess
            WITH Users <- Coroutines, Nobody <- NoCo, sharers <- Readers,
                 owner <- WriteOwner

\* Readers share, a writer is alone, an upgrade that need not wait and a
\* downgrade let nobody in between.
ImplementsRwAccess == Access!RwSpec
=============================================================================
