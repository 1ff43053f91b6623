# The concurrency core of QEMU, in TLA+

This project models the parts of QEMU (5.1) in which threads, coroutines and
callbacks meet: exclusive sections of vCPUs, the vCPU threads themselves, the
coroutine locks, the event loop, RCU and the thread pool. Everything else in
QEMU (devices, block drivers, migration, monitors) is built on these and trusts
them not to lose a wakeup, run something twice or free something in use. On top
of them it models two of their users in which sequences of calls, failures and
crashes are the difficulty: the state machine of jobs and their transactions,
and the order in which qcow2 brings its metadata to disk. TLC checks the
properties on small instances. Except for jobs, the safety properties and the
refinements are also proved with TLAPS, for every number of threads, vCPUs,
coroutines, bottom halves, requests and clusters.

Paths below are relative to the repository. "BQL" is `qemu_global_mutex`.

## 1. Inventory

| component | state it keeps | operations | interacts with | what is hard | what makes it correct |
|---|---|---|---|---|---|
| CPU list, exclusive sections (`cpus-common.c`) | `pending_cpus`, `running`, `has_waiter`, two condition variables, the CPU list | `start/end_exclusive`, `cpu_exec_start/end`, `cpu_list_add/remove` | every vCPU thread | a flag and a counter read without the lock on the fast path | no guest code during a section; nobody waits for ever; indices unique |
| vCPU threads (`softmmu/cpus.c`, `cpus-common.c`, `accel/tcg/cpu-exec.c`) | BQL, `stop/stopped/unplug/halted`, `exit_request`, `icount_decr`, `work_list` | the thread loop, kick, `run_on_cpu` family, pause, resume, unplug, TLB flush | exclusive sections, main thread | kicks around resets, condition waits against wakers with and without the BQL | kicks are honoured, calls of the main thread return, paused means stopped |
| CoMutex (`util/qemu-coroutine-lock.c`) | `locked`, `from_push`, `to_pop`, `handoff`, `sequence` | lock, unlock | `aio_co_wake` | lock-free; an unlock that finds no waiter yet | one owner, one consumer of the queue, no waiter forgotten |
| CoQueue, CoRwlock (same file) | `reader`, `pending_writer`, queue, a CoMutex | rdlock, wrlock, upgrade, downgrade, unlock | CoMutex | who is woken, counters read without the mutex | sharing and exclusion; no waiter forgotten |
| AioContext (`util/async.c`, `util/aio-posix.c`) | `bh_list`, slices, flags, `notify_me`, `notified`, the event notifier, scheduled coroutines | bottom halves, `aio_notify`, `aio_poll`, the GSource, `aio_co_schedule` | all of the above and the thread pool | lock-free lists, nested loops, sleeping against notification | nothing is queued twice, lost, freed twice or slept through |
| RCU (`util/rcu.c`, `include/qemu/rcu.h`) | `rcu_gp_ctr`, per-thread `ctr/waiting/depth`, registry, the callback queue | read lock/unlock, (un)register, `synchronize_rcu`, `call_rcu1`, its thread | every thread | stale counters, counter width, a queue that is cut while it grows | a grace period is one; callbacks run after it, and run |
| Thread pool (`util/thread-pool.c`) | `head`, `request_list`, semaphore, four thread counters, two bottom halves | submit, cancel, worker loop, completion, free | AioContext | timeouts against submissions, nested completion, teardown | requests complete once, counters tell the truth, free returns |
| Jobs (`job.c`, `blockjob.c`, `job-qmp.c`) | status, `busy`, `paused`, `pause_count`, `user_paused`, `cancelled`, `refcnt`, the transaction, the sleep timer, a scheduled `job_exit` | create, start, pause points, sleep, pause, resume, cancel, complete, finalize, dismiss, drain | AioContext (bottom halves, `AIO_WAIT_WHILE`), block drivers | waits nested in callbacks of waits, four independent owners of pauses, one failure among many jobs | no assertion fails; pauses and references are exact; a transaction is atomic; every wait ends |
| qcow2 metadata (`block/qcow2-cache.c`, `-refcount.c`, `-cluster.c`, `qcow2.c`) | two write-back caches with `depends` and `depends_on_flush`, the dirty bit, requests in flight | allocating write, discard, flush, close, eviction, repair | CoMutex `s->lock`, the protocol layer | crash between any two writes, errors in the middle, requests that run without the lock | what is on disk is consistent, and what was reported durable is |
| AIO_WAIT_WHILE | `num_waiters` | wait, kick | jobs, drain | | modelled as jobs use it |
| LockCnt, QemuEvent, coroutine core | small futex protocols | | AioContext, RCU | futex states | planned |
| timers, throttling, block layer requests, migration, memory API, accelerators other than MTTCG, devices, monitor, UI, user mode | | | users of the above | | not modelled, see section 8 |

Calls go downwards: vCPU threads use exclusive sections; the block layer and
devices use coroutine locks, the thread pool and RCU, which all wake their users
through an AioContext or a condition variable; jobs are coroutines that the main
loop's bottom halves complete. `PROJECT.json` lists the hazards
line by line.

## 2. Modules

| module | models | state | steps |
|---|---|---|---|
| `ExclusiveAccess` | what exclusion promises (abstract): sharers or one owner | `sharers`, `owner` | Enter, Leave, Acquire, Release |
| `RwAccess` | the same with upgrade and downgrade (abstract) | | + Upgrade, Downgrade |
| `CpuExclusive` | the CPU list and exclusive sections | as in the code, `to_scan`/`running_cpus` for the locals of `start_exclusive`, `asleep` for condition variables | one per access to shared memory or section under `qemu_cpu_list_lock` |
| `CpuExclusiveProofs` | theorems about it | | |
| `VcpuLoop` | vCPU threads of multi-threaded TCG, work queues, the main thread; exclusive sections are the actions of `ExclusiveAccess` | `cpu` (CPUState fields), `bql`, `kicks`/`half` for a `cpu_exit` in progress, ... | one per access to `work_list`, `exit_request`, `icount_decr`; BQL sections between them |
| `CoMutex` | the coroutine mutex | fields of the code, `woken` for coroutines given to `aio_co_wake` | one per access |
| `CoRwlock` | the read/write lock over an abstract mutex and a CoQueue | fields of the code, `locks_held` | one per section under the mutex |
| `AioContext` | event loop of one context, its home thread and other threads | fields of the code; `frames` is the stack of nested loops | one per atomic access |
| `Rcu` | readers and `synchronize_rcu` | fields of the code, `before` (history: sections to wait for) | one per atomic access |
| `CallRcu` | extends `Rcu` by the callback queue and its thread | fields of the code, `open` (history) | one per atomic access |
| `RcuProofs` | theorems about `Rcu` and `CallRcu` | | |
| `VcpuProofs`, `AioProofs`, `CoMutexProofs`, `CoRwlockProofs`, `ThreadPoolProofs`, `Qcow2MetadataProofs` | theorems about `VcpuLoop`, `AioContext`, `CoMutex`, `CoRwlock`, `ThreadPool`, `Qcow2Metadata`; those about queues begin with lemmas on what their list operations do | | |
| `ThreadPool` | the thread pool of one AioContext | fields of the code; `stack` holds the running completion functions | one per section under `pool->lock`, one per unlocked access |
| `Jobs` | jobs, their coroutines, the main thread and its commands | `job` (fields of `Job`), `main` (the stack of calls the main thread is in), `wake` (whether a waiting call looks again) | one per stretch of code between two yields or waits; the AioContext lock makes it atomic |
| `Qcow2Metadata` | the two caches, requests, flush, close, crash and repair | fields of the caches, `disk` (of each place, the last value written and the values a crash may leave), `stack` (the calls under `s->lock`), `req` (writes in flight without it) | one per access to the file, and the code up to the next one |
| `MC*` | instances for TLC | | |

`VcpuLoop` composes with `ExclusiveAccess` instead of `CpuExclusive`: the second
is shown, and proved, to implement the first. `CallRcu` composes the queue with
`Rcu`; `CallRcuUsesRcu` proves that its behaviours are behaviours of `Rcu`.

Conventions. A critical section is one step, because everything it touches is
touched by others under the same lock; what is also accessed without the lock is
a step of its own. A condition variable is the set `asleep` of threads, and
`SpuriousWakeup` is always possible. Memory is sequentially consistent: the code
has its barriers at exactly the accesses that the models interleave (each module
says where). Where the product of all operations is too large, `Init` chooses a
scenario: a set of calls that the program makes (`AioContext`, `VcpuLoop`), or
the way jobs are created (`Jobs`). `Mut...` operators are plausible bugs; they take the place of the
definition that follows them to show that a property can fail.

## 3. Runs

| run | question | instance | states |
|---|---|---|---|
| `cpu_exclusive` | exclusion, wakeups, indices, refinement of `ExclusiveAccess`, liveness | 3 CPUs, indices up to 3 | 116,733 |
| `vcpu_loop` | kicks, sleeping, pausing, BQL assertions; `run_on_cpu`, `pause_all_vcpus`, `cpu_remove_sync` return | 2 vCPUs and the main thread, eight mixes of operations | 255,075 |
| `vcpu_async` | violation, see section 5 | 2 vCPUs | |
| `co_mutex` | one responsible party, queue, refinement, liveness | 3 coroutines, `sequence` wraps at 2 | 101,350 |
| `co_rwlock` | counters, who is woken, refinement of `RwAccess`, writers get in | 3 coroutines | 4,392 |
| `co_rwlock_downgrade` | violation, see section 5 | 3 coroutines | |
| `aio_context` | lists, freeing, sleeping, coroutines; whatever is scheduled runs | 1 other thread, 1 bottom half, 1 oneshot, 2 coroutines, nesting 2, `aio_poll` and GSource loops, 7 mixes of calls | 126,489 |
| `rcu` | grace periods, queue, callbacks; `synchronize_rcu` returns, callbacks run | call_rcu thread and 1 thread, 2 nodes, both counter widths | 93,703 |
| `thread_pool` | counters, tokens, completion, liveness | 3 requests (one silent), at most 2 workers | 55,079 |
| `jobs` | assertions, pauses, drain, references, transactions, liveness | 2 jobs, 2 commands, one or two transactions, automatic and manual finalization and dismissal | 267,770 |
| `qcow2_metadata` | crash consistency, copy-on-write order, durability, close | 2 guest and 2 host clusters, 3 requests, 1 error, crashes at any time, eager and lazy refcounts | 1.3 M |
| `qcow2_unordered` | violation, see section 5 | 2 guest and 2 host clusters, 2 requests | |

The properties, with the full statement in the comment above each definition:

| run | properties |
|---|---|
| `cpu_exclusive` | `ExclusiveSection`: no guest code beside an exclusive section. `NoLostWakeup`: a sleeper on either condition still has somebody to signal it. `UniqueIndex`: `qemu_get_cpu` is well defined across unplugging. `ImplementsAccess`: refines `ExclusiveAccess`. `WaitsEnd` (liveness) |
| `vcpu_loop` | `MachineConsistent`: BQL, flags and work lists agree. `KicksHonoured`: no kick is swallowed on the way into guest code, and none sent with the BQL held on the way to sleep (work queued without it is excepted, section 5). `PausedMeansStopped`. `NoGuestCodeBeforeWork`: queued work is done before a block is entered. `MainCallsReturn` (liveness), in the mixes of operations below |
| `vcpu_async` | `NoSleepOnWork`, violated |
| `co_mutex` | `MutexConsistent`: queue, counters and holder are true of the coroutines, and one party is responsible for the waiters. `ImplementsLock`: refines `ExclusiveAccess`. `WaiterGetsLock` (liveness) |
| `co_rwlock` | `CountersConsistent`. `ForgottenOnlyByDowngrade`: the exact condition of the defect of section 5. `ImplementsRwAccess`: refines `RwAccess`. `WritersServed` (liveness) |
| `co_rwlock_downgrade` | `NoForgottenWaiter`, violated |
| `aio_context` | `ListsConsistent`: no bottom half queued twice, lost or freed twice. `SleepsOnlyIfNotified`. `CoroutineOnce`. `WorkRuns` (liveness) |
| `rcu` | `GracePeriod`. `CallbackAfterGracePeriod`. `QueueConsistent`. `GracePeriodsEnd` (liveness), as long as `rcu_gp_ctr` fits an `unsigned` |
| `thread_pool` | `PoolConsistent`. `RequestsAccounted`: requests, tokens and workers match. `NoCompletionLost`: also in nested polls. `WorkEnds` (liveness) |
| `jobs` | `AssertionsHold`: the asserts of `job.c`. `PausesAccounted`: every pause has an owner. `DrainedJobIsQuiet`. `ReferencesExact`: nothing scheduled outlives its job. `TransactionAtomic` (for jobs without a failing `.prepare` in a shared transaction). `WaitsForJobsEnd` (liveness) |
| `qcow2_metadata` | `CrashSafe`: no entry on disk refers to a cluster that may be handed out again, unless the dirty bit is on disk or a failed `qcow2_cache_set_dependency` was ignored. `CopyBeforeLink`, with that exception and the one of section 5. `FlushedIsDurable`. `CachesConsistent`. `CloseIsClean` |
| `qcow2_unordered` | `RefcountsFirst`, violated |

Several of them are conjunctions of named parts, so that a failure names the
part: `MachineConsistent`, `KicksHonoured`, `MutexConsistent`, `QueueConsistent`,
`CountersConsistent`, `ListsConsistent`, `PoolConsistent`, `RequestsAccounted`,
`CachesConsistent`, and the liveness properties `WaitsEnd`, `WritersServed`,
`WorkRuns`, `GracePeriodsEnd`, `WorkEnds`, `WaitsForJobsEnd`.

Why the bounds suffice:

* Three CPUs are a section's owner, a CPU that it counts and one that arrives
  late or competes for the section. `MaxCpuIndex` 3 lets an index be freed and
  handed out again.
* Two vCPUs are sender and target. `MaxWork` bounds `work_list`; a flush queues
  one item more. The scenarios split the operations, because their product is
  too large for a liveness check: five mixes in which a wait of the main thread
  (for work, for a pause, for an unplugged vCPU) meets what can hold a vCPU up
  (a halt, a breakpoint, an exclusive section of another vCPU, the BQL in the
  middle of guest code, its own stop) or an interrupt meets a halt and a reset,
  and one each for TLB flushes, for safe work beside device accesses, and for
  asynchronous work. The last three have no wait of the main thread, so
  `MainCallsReturn` is not about them. The safety properties are proved for every
  mix and any number of vCPUs (section 6).
* CoMutex needs an unlocker, a lock() in the slow path and one that overtakes
  it. `sequence` wraps after two hand-offs, so a stale hand-off number is met.
* RCU: the call_rcu thread, which synchronizes in its loop, and a thread that
  reads, registers, queues callbacks and synchronizes. Two of those would be too
  many for the liveness check; the safety properties are proved for any number
  (section 6). `UIntRange` 4 makes `rcu_gp_ctr` outgrow
  the `unsigned` of `rcu_read_lock` within `MaxGp` 5.
* The event loop nests twice: a callback that polls, whose callback returns. Two
  coroutines let one find `co_schedule_bh` already queued by the other. Each call
  occurs in several of the scenarios, under either loop where it matters: the
  wait that ends with nothing to dispatch needs an idle bottom half that is
  cancelled meanwhile.
* Jobs: two make a transaction in which one fails while the other runs, sleeps,
  is paused or waits. A command is a request of the monitor or a drained section;
  with two, a cancellation meets a pause, a drained section meets a cancellation,
  and a wait nests in another. Starting jobs, timers, errors and completions are
  not counted. `CHECK_DEADLOCK FALSE`: when all jobs are gone and the commands are
  used up, the model stops.
* qcow2: one guest cluster's old host cluster is freed while the other's new one
  is linked, and a freed cluster is handed out again (two host clusters, one of
  them taken at the start by a compressed cluster, which must be copied on
  write). Three requests are two writes that overlap and a flush between or after
  them. The error may hit any read of a table, write or flush; a write that fails
  may have reached the disk. After a crash the remaining requests run on the
  reopened image, which may crash again. `CHECK_DEADLOCK FALSE`: the
  requests are used up or the image is closed.
* Thread pool: two workers and three requests let one run, one be queued, and
  one be cancelled or completed in a nested call. A posted semaphore during
  `thread_pool_free` is capped at the number of workers.

`CHECK_DEADLOCK FALSE` stands in `co_rwlock` for another reason: the forgotten
waiter of section 5 is a deadlock, and its exact condition is
`ForgottenOnlyByDowngrade`.

## 4. Fairness

* All models: the host runs every thread that can run (weak fairness of its
  steps). Nobody has to start an operation.
* `CpuExclusive`: a vCPU that has been kicked leaves guest code; an unkicked one
  need not. `start_exclusive` kicks exactly the CPUs it marks.
* `VcpuLoop`: a contended lock goes to everybody who keeps asking (strong
  fairness of `LockStep`: the BQL, and the lock under which `exclusive_idle` finds
  no section pending), device emulation ends and releases the BQL, and a
  translation block ends once `icount_decr.u16.high` is set, which every block
  tests.
* `CoMutex`, `CoRwlock`: critical sections end; for `CoRwlock` the mutex is fair,
  which `co_mutex` justifies.
* `AioContext`: the thread keeps iterating its loop, as `iothread_run` and
  `main_loop_wait` do, and callbacks return.
* `CallRcu`: read-side sections end, and mutexes are fair.
* `ThreadPool`: requests end, bottom halves run (that is `WorkRuns` of
  `aio_context`), completion functions return.
* `Jobs`: an entered coroutine runs, timers fire, and a driver returns from
  `run()` once it is cancelled (they test `job_is_cancelled` in their loops; an
  uncancelled one may run for ever). The main thread goes on with a call that can
  go on and its loop runs `job_exit`. Nothing makes an I/O error happen
  (`block_job_error_action` has no fairness). The last two are weak fairness with ENABLED
  written out (`MainReady`, `ExitReady`), because TLC evaluates it too slowly.
* `Qcow2Metadata`: none; it has only safety properties.

## 5. Where code and documentation disagree

* `co_rwlock_downgrade`. The last reader wakes the first coroutine in the queue
  and calls it a writer. After `qemu_co_rwlock_downgrade` the first may be a
  reader, which finds `pending_writer` set and queues itself again behind the
  writer, and nobody is left to wake either. Without a downgrade that happens
  while somebody waits the comment holds (`WritersServed`).
* `vcpu_async`. `docs/devel/multi-thread-tcg.rst:206-209` says that
  `async_run_on_cpu` work is done "in a few instructions time". A vCPU thread
  queues such work without the BQL. Its broadcast of `halt_cond`
  (`cpus-common.c:124`) can fall between the target's look at `work_list` and its
  `qemu_cond_wait` (`softmmu/cpus.c:1145`); a halted target then sleeps on its work
  until something else kicks it (`NoSleepOnWork`). Callers with the BQL are safe,
  and `SleepsOnlyWhenIdle`, a part of `KicksHonoured`, is stated for them only.
* `qcow2_unordered`. `qcow2_alloc_cluster_link_l2` (`qcow2-cluster.c:971`) and
  `update_refcount` (`qcow2-refcount.c:829`) ignore the result of
  `qcow2_cache_set_dependency`. If the flush that it begins with fails, no
  dependency is set, and the next write of the L2 table puts an entry on disk whose
  cluster still counts as free there, against the order that the comment at
  `qcow2-refcount.c:1129` asks for (`RefcountsFirst`). The model records it
  (`unordered`), and `CrashSafe` and `CopyBeforeLink` say nothing from there on.

Observations that no run of the project pins down; each property that one of the
first three touches excepts the case and says so:

* `job_do_finalize` calls `.prepare` of every job of a transaction and, if one
  fails, `job_completed_txn_abort(job)` with the job it was itself called for
  (`job.c:800`). That one is not cancelled; if it is not the one that failed, its
  `ret` is 0 and `job_finalize_single` commits it while the others abort, against
  `include/qemu/job.h:236-238` and `qapi/transaction.json:31-32`. It is latent: of
  the drivers only backup joins transactions of several jobs, and it has no
  `.prepare`. TLC finds `TransactionAtomic` violated once `MCScenarios` has two
  jobs in one transaction of which one fails in `.prepare`.
* `perform_cow` returns early when `handle_alloc_space` has zeroed the cluster
  (`skip_cow`), before it sets `depends_on_flush` of the L2 cache. With accurate
  refcounts the L2 cache waits for the refcount cache, and the flush in between
  covers the zeroes. With lazy refcounts and the dirty bit already set nothing
  does: the L2 entry may be on disk before the zeroes, against the comment "we
  need to be sure that the refcounts have been increased and COW was handled"
  (`qcow2-cluster.c:931`). TLC finds `CopyBeforeLink` violated once `~lazy` is
  dropped from it.
* `rcu_read_lock` keeps the 64-bit counter in an `unsigned`. After 2^31 grace
  periods every section looks older than the current one: grace periods stay
  sound (proved), but a reader that keeps re-entering can hold one up, against
  the comment at `util/rcu.c:121-126`. `SyncReturns` excludes that range; TLC
  finds it violated without the condition on `rcu_gp_ctr`.
* The result of `qcow2_mark_dirty` is ignored at `qcow2-cluster.c:968`, and that of
  `qcow2_mark_clean` by `qcow2_inactivate` (`qcow2.c:2661-2665`), which reports
  success. After the first the caches are ordered as without lazy refcounts; after
  either the bit may stay in the header and cost a repair. `CloseIsClean` asks for
  a clean header only if no write or flush has failed.
* `has_waiters` in `qemu-coroutine-lock.c` returns the opposite of its name. Both
  callers then only try or skip a hand-off they need not, and the duty stays with
  one party (`OneResponsible` holds with the code as it is).
* A vCPU that calls `run_on_cpu` from a device access waits while it counts as
  running; if the target meanwhile runs safe work, each waits for the other.
  TLC shows it when a vCPU is put into `SyncCallers` along with "safe".
* `thread_pool_completion_bh` restarts at the head of a list that grows at its
  head: completion functions that keep submitting can delay an older finished
  request. `RequestCompletes` states the condition.
* A bottom half that is deleted while it is not scheduled does not shorten the
  wait of the loop; it is freed at the next iteration.

## 6. Proofs

`CpuExclusiveProofs` (any finite set of CPUs): `Invariance`, `TypeCorrect`,
`ExclusiveSectionSafe`, `NoWakeupLost`, `IndexUnique`, and `RefinesAccess`, the
refinement of `ExclusiveAccess`. `ExclusiveSection` alone is not inductive:
whether a CPU may run depends on `pending_cpus`, which it reads without the lock.
`IInv` adds what connects the two: at most one thread has announced a section and
it holds the lock while it scans; a CPU in guest code was marked by the scan or
has yet to be scanned; `pending_cpus` is one plus the number of CPUs that are
marked and have not left (`CountedWaiters`, the step that needs cardinalities);
and a sleeper sleeps for a condition that is still false. One lemma per action,
one step per conjunct.

`VcpuProofs` (any set of vCPUs, any mix of requests, any `MaxWork`): `Invariance`,
`MachineCorrect` (`MachineConsistent`), `KicksCorrect` (`KicksHonoured`), `PauseSafe`
(`PausedMeansStopped`) and the action property `WorkBeforeGuestCode`
(`NoGuestCodeBeforeWork`). A kick is two writes, `exit_request` and then
`icount_decr`, and `cpu_handle_interrupt` clears the second before it reads the
first. So "a running block is interrupted" is not inductive: between the two the
flag is gone. `IInv` has these parts.

* `WorkAnnounced`, `StopAnnounced`: what was asked of a vCPU after it last looked
  is in `exit_request`, or a thread has yet to write it there (`ToCome`).
  `BlockInterrupted`: while a block runs it is in `icount_decr` too, or a kick is
  under way (`Kicked`). The theorem about kicks and the one about work before
  guest code follow from these.
* `KicksInPlace`: a thread has kicks to deliver only where it delivers them before
  it goes on.
* `HaltRight`: at the wait on `halt_cond` nothing is asked that only a holder of
  the BQL may ask for (`NothingAsked`), or the kick that wakes the sleeper is to
  come. `BqlAsserts` makes the look and the wait one critical section.
* `StopsUnlessRunning`: unless the machine is running, every vCPU is stopped or
  told to stop, since `do_vm_stop` changes the run state and sets the stop flags
  under one hold of the BQL (`cpu_can_run` and `cpu_thread_is_idle` look at both).
* `StoppedInPlace`, `PausedInPlace`: a vCPU with `stopped` set stays in the part of
  its loop without guest code, and from the check of `pause_all_vcpus` until
  `resume_all_vcpus` they all have it set.

`AioProofs` (any threads, bottom halves, coroutines and calls, any depth of nested
loops): `Invariance`, `NoLostWakeup` (`SleepsOnlyIfNotified`), `ListsCorrect`
(`ListsConsistent`) and `CoroutinesCorrect` (`CoroutineOnce`). None of the three is
inductive. `IInv` has these parts.

* `NestedInCallbacks`, `FramesRight`, `HomeRight`: every loop but the innermost is in
  a callback, each knows what kind of loop it is, and where the home thread may
  itself call `qemu_bh_schedule` and the like.
* `NotifyMeRight`: `notify_me` is between 0 and 3 and tells that the innermost loop
  may block. The bit of the GSource may stay set for longer.
* `SleepRight` follows the loop from the list to the slices, the deadline and the
  wait: what it has looked at so far without finding a reason to stay awake has
  none, or the notifier is set, or a thread in `aio_notify` will set it (`Woken`).
* `QueuedOnce`, `QueuedIfPending`: the list, the slices, the inserting threads and
  `aio_bh_dequeue` hold different bottom halves, and together exactly those with
  `BH_PENDING`. `FreedOnce`: what a call of the loop will free, from the flags it
  read earlier, is allocated and cannot be queued again, and no other call will
  free it.
* `CoroutinesOnce`, `StraightInPlace`, `ListTaken`: the same for coroutines, and as
  long as their list is not empty the bottom half that takes it is on its way.

Operations of the other threads share one lemma on what they do to `op` (`OpEffect`)
and those that set flags another (`EnqueueStep`); the steps of the loop that touch no
queue share `TopStep`. The model reads the slices as the set `SliceBHs`, since
`aio_compute_timeout` and `aio_ctx_check` only ask whether some bottom half on them
is to run.

`RcuProofs` (any set of threads, any even range of `unsigned`, both widths):
`RcuInvariance`, `GracePeriodSafe`, `NoSyncWakeupLost`, and for the composition
`CallRcuUsesRcu` and `CallRcuGracePeriod`. `RcuInv` says that a section is marked
by a non-zero `ctr`; that a section to be waited for is in the registry as long
as it is seen as ongoing (`Awaited`); that after the first of two phases those
left have the current parity, which the second flip makes ongoing again; that a
64-bit counter is ahead of what readers hold, truncated or not (`CounterAhead`
with the lemma `Truncated`); and that as long as the event is clear each
unvisited reader will set it (`WakeupsAccounted`).

For the callback queue (any finite set of threads, any set of nodes)
`CallInvariance`, `CallbacksCorrect` (`CallbackAfterGracePeriod`) and
`QueueCorrect` (`QueueConsistent`). The queue is linked through `next` and is cut
and joined while it grows, so no formula over `head` and `tail` alone is
inductive. `CallInv` therefore says that there is a sequence `q` of nodes (`Queue`)
that `next` links, save where a thread in `call_rcu1` has still to set the link
(`Chain`); that its length is what `rcu_call_count`, the threads about to count
and the call_rcu thread account for (`Counted`); and that the sections open for
one of the first nodes of `q`, as many as the call_rcu thread took, are among
those that its `synchronize_rcu` waits for (`Covered`). `LoopRight`, `OpenRight`
and `SleepRight` say where the thread is in its loop, which sections are still
open for a node it holds, and who wakes it. The proof of a step names the
sequence after it: `q`, `q` with a node appended, its tail, or its tail with the
dummy node appended.

`CoMutexProofs` (any finite set of coroutines, any range of hand-off numbers, so
`sequence` may wrap): `Invariance`, `MutexCorrect` (`MutexConsistent`) and
`RefinesLock`, the refinement of `ExclusiveAccess`. `OneResponsible` alone is not
inductive. `IInv` adds that the owners, the coroutines that pop and those that
were woken are at most one coroutine, in one role, and none while a hand-off is
on offer (`DutyUnique`); that the two lists hold exactly the pushed coroutines
that nobody has woken, once each (`QueueRight`), which is what lets `lock()` count on
finding a record after `move_waiters` (`PopReady`); and that a compare-and-swap
never expects 0 (`OfferNumbered`).

`CoRwlockProofs` (any finite set of coroutines): `CountersCorrect`, `ForgottenSafe`
(`ForgottenOnlyByDowngrade`), `LastReaderSafe`, and `RefinesRwAccess`, the refinement of
`RwAccess`. `LastReaderSafe` is the comment that section 5 refutes, with the
condition under which it holds. `IInv` adds `WriterAlone` and `QueueAttended`:
without a downgrade while somebody waits, a queue has a reader, a writer or a
woken writer to attend to it, a woken writer meets no reader, and behind readers a
writer is first.

`ThreadPoolProofs` (any set of requests, any number of workers): `PoolCorrect`,
`RequestsCorrect`, `CompletionsCorrect`, one for each safety property. Their
conjunction is nearly inductive; `IInv` adds that `request_list` and the stack of
completion functions hold requests of the right state once each (`ListRight`,
`StackRight`) and what `thread_pool_free` may rely on (`FreeingRight`). The counters
are cardinalities of sets of workers; `CountMove` says what the move of one worker
does to each, and `AgreeMove` that a step's assignments follow it.

`Qcow2MetadataProofs` (any finite sets of guest and host clusters, any number of
requests and of errors, a crash at any point): `Invariance`, and one theorem for
each safety property: `CrashSafety`, `CopyOrdered`, `FlushDurable`, `CachesCorrect`,
`CloseClean`. `CrashSafe` is about the disk alone and is far from inductive: the
next write of a table breaks it unless the cache held the right thing and did not
have to wait. `IInv` has these parts.

* `StackRight` and `FramesRight` say which call may be above which, and what each
  call on the stack knows: while another one runs above it, and when that one has
  just returned `ret`. After a successful `qcow2_cache_flush` of a cache, say, each
  of its tables is on disk for certain (`Synced`).
* `Accounted`: a refcount in the cache is the number of L2 entries and requests
  that use the cluster, plus one while it is being freed; it may be more only if
  an error leaked it.
* `OrderKept`: `CrashSafe`, and of each cache that, unless it waits for the other
  one, all of its tables may be written now in any order and `CrashSafe` would
  still hold (`L2Safe`, `RefcountSafe`). `L2Safe` includes the entries that a
  link past `qcow2_cache_set_dependency` is about to make (`Pledged`).
* `Clean` (a table that is not dirty is what the file was last given),
  `HeaderRight` (the dirty bit is on disk before lazy refcounts let the order go),
  `DataRight`, `CopyRight` (the rest of a copied cluster is on disk, or the L2
  cache has still to flush before it writes, `Awaited`), `DurableRight` and
  `ClosedRight`.
* Beside it `ErrorsCounted`: a call that returned an error has met one, which the
  clause of `CloseIsClean` about the header needs.

Steps that leave the caches and the requests alone share one lemma (`QuietStep`).
The image after a crash and the initial one share another (`Fresh`): there the
proof needs `CrashSafe` itself, because what the crash left becomes the new image.

Assumptions are the named ASSUMEs of the modules: finite sets of threads,
coroutines and workers wherever a counter counts them, names that differ (a
bottom half is either one-shot or not), and widths. TLC evaluates them in the runs.

Every inductive invariant was model-checked before it was proved; the runs
check what it implies.

Only model-checked: liveness (`WaitsEnd`, `MainCallsReturn`, `WaiterGetsLock`,
`WritersServed`, `WorkRuns`, `GracePeriodsEnd`, `WorkEnds`, `WaitsForJobsEnd`), because
fairness and ENABLED are out of the prover's reach; and the invariants of `Jobs`
(`AssertionsHold`, `PausesAccounted`, `DrainedJobIsQuiet`, `ReferencesExact`,
`TransactionAtomic`), which no proof has been attempted for. A step of `Jobs` composes
functions from records of the whole state to records, as `job.c` nests its calls,
and each command is a stack of calls; an inductive invariant would have to say
what every pair of calls on that stack may rely on, as `FramesRight` of
`Qcow2MetadataProofs` does for a smaller set of calls.

## 7. Plan

1. Proofs: `Jobs` (`PausesAccounted` and `ReferencesExact` first).
2. Modules: `LockCnt` (counter and futex states, with the handler lists of
   AioContext as its user), `QemuEvent` (its futex states, against the flag that
   `Rcu` uses), `AioWait` (`num_waiters` and the kick), the wakeup queue of
   `qemu_aio_coroutine_enter`.
3. Compositions: the thread pool over AioContext; CoRwlock over CoMutex.

## 8. Not modelled

* In modelled parts: the board-supplied index of `cpu_list_add`;
  `pause_all_vcpus` from a vCPU thread (KVM only), round-robin TCG, icount,
  the virtual clock, run states other than running or not, suspend and wakeup,
  singlestepping and replay; `mutex->ctx` of CoMutex, which tunes spinning;
  `qemu_co_enter_next`; file descriptor handlers (they only end a wait) and the
  tuning of polling; the abort of `aio_co_schedule` on a coroutine that is scheduled already (its
  callers are taken to keep to that, so `CoroutineOnce` is about the list, not
  about them); RCU's fork handlers and the BQL around callbacks, and callbacks
  that themselves call `call_rcu1` or `rcu_read_lock` (they do so between two
  steps of the call_rcu thread, as one more thread might, and the proofs are for
  any finite set of threads); what a
  pool request does; progress, rate limits, events and AioContext changes of jobs,
  and `drained_poll` of the mirror driver (a busy job is taken not to be quiet),
  and `job_complete_sync` (only qemu-img and the tests call it; with it goes the
  error return of `job_finish_sync`, whose other callers pass a function that
  cannot fail, or none);
  in qcow2 the L1 and refcount tables' growth, snapshots, compressed and zero
  clusters as targets of writes, discard passthrough, bitmaps, resize, the choice
  of the table to evict, tables written in part (a failed or interrupted write of
  a table leaves the old or the new one), and crashes during a repair.
* Whole components, with reasons in `PROJECT.json`: timers and clocks, throttling
  (floating point), block layer requests and drain, other image formats, migration, the memory API,
  translation, accelerators whose behaviour is that of the host kernel, devices,
  monitor and QAPI, user interfaces, user-mode emulation, vendored and generated
  code.
