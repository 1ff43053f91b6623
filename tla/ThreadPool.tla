----------------------------- MODULE ThreadPool -----------------------------
(***************************************************************************)
(* The pool of worker threads that runs blocking requests for an           *)
(* AioContext (util/thread-pool.c):                                        *)
(*                                                                         *)
(*  - "home", the thread that runs under the AioContext lock: it submits   *)
(*    and cancels requests, runs the two bottom halves of the pool, and    *)
(*    frees it.  A thread other than the context's own can submit only     *)
(*    with that lock, so its calls are steps of home as well;              *)
(*  - the workers, which take requests from request_list and end when      *)
(*    they have been idle for too long;                                    *)
(*  - the semaphore between them, whose count is meant to be the number    *)
(*    of requests in request_list.                                         *)
(*                                                                         *)
(* A section under pool->lock is one step.  elem->state is written by a    *)
(* worker and read by the completion bottom half without the lock, so      *)
(* these accesses are steps of their own.  The order of pool->head is not  *)
(* modelled: the completion bottom half visits it in any order.            *)
(***************************************************************************)
EXTENDS Naturals, Sequences, FiniteSets, SequencesExt

CONSTANTS
  Requests,     \* ThreadPoolElements; one that has been freed is used again
  Silent,       \* those submitted without a completion function
  Workers,      \* slots for worker threads
  None,         \* "no request"
  max_threads   \* pool->max_threads

ASSUME RequestsAssumption == Silent \subseteq Requests /\ None \notin Requests
ASSUME WorkersAssumption ==
  /\ IsFiniteSet(Workers)
  /\ max_threads \in Nat \ {0} /\ max_threads = Cardinality(Workers)

VARIABLES
  state,        \* elem->state, "free" before qemu_aio_get and after unref
  head,         \* pool->head, the requests that have not been completed
  request_list, \* the requests that no worker has taken
  sem,          \* the count of pool->sem
  threads,      \* cur_threads, idle_threads, new_threads, pending_threads
  stopping,     \* pool->stopping
  completion_bh,\* whether completion_bh is scheduled
  new_thread_bh,\* whether new_thread_bh is scheduled
  at,           \* where home is
  rest,         \* what the completion bottom half has still to visit
  stack,        \* requests whose completion function is running, nested
  wpc,          \* where each worker is
  req           \* the request a worker executes

homeVars == <<at, rest, stack>>
workerVars == <<wpc, req>>
bhVars == <<completion_bh, new_thread_bh>>
vars == <<state, head, request_list, sem, threads, stopping, bhVars, homeVars,
          workerVars>>

\* Workers between the increment and the decrement of idle_threads.
Idle == {"sem", "blocked", "got", "timeout"}

InitialThreads == [cur |-> 0, idle |-> 0, new |-> 0, pending |-> 0]

\* No pool yet; thread_pool_new makes one.
Init ==
  /\ state = [r \in Requests |-> "free"]
  /\ head = {}
  /\ request_list = <<>>
  /\ sem = 0
  /\ threads = InitialThreads
  /\ stopping = FALSE
  /\ completion_bh = FALSE
  /\ new_thread_bh = FALSE
  /\ at = "no_pool"
  /\ rest = {}
  /\ stack = <<>>
  /\ wpc = [w \in Workers |-> "none"]
  /\ req = [w \in Workers |-> None]

-----------------------------------------------------------------------------
(* Threads *)

\* spawn_thread: one more thread, to be created by a thread that is itself
\* being created or else by the bottom half.
spawn_thread ==
  /\ threads' = [threads EXCEPT !.cur = @ + 1, !.new = @ + 1]
  /\ new_thread_bh' = (new_thread_bh \/ threads.pending = 0)

\* do_spawn_thread, given the counters and locations of the rest of the step.
do_spawn_thread(ts, loc) ==
  IF ts.new = 0
    THEN threads' = ts /\ wpc' = loc
    ELSE /\ threads' = [ts EXCEPT !.new = @ - 1, !.pending = @ + 1]
         /\ \E w \in {v \in Workers : loc[v] = "none"} :
              wpc' = [loc EXCEPT ![w] = "created"]

\* spawn_thread_bh_fn
spawn_thread_bh_fn ==
  /\ at = "user"
  /\ new_thread_bh
  /\ new_thread_bh' = FALSE
  /\ do_spawn_thread(threads, wpc)
  /\ UNCHANGED <<state, head, request_list, sem, stopping, completion_bh, homeVars,
                 req>>

-----------------------------------------------------------------------------
(* worker_thread *)

\* qemu_cond_signal(&pool->worker_stopped)
SignalStopped == at' = IF at = "free_wait" THEN "free_woken" ELSE at

\* A worker's thread ends; ts holds the counters after its earlier updates.
EndThread(w, ts) ==
  /\ threads' = [ts EXCEPT !.cur = @ - 1]
  /\ wpc' = [wpc EXCEPT ![w] = "none"]
  /\ SignalStopped

\* The head of the loop: end, or become idle and go to wait for the semaphore.
NextRound(w, ts) ==
  \/ stopping /\ EndThread(w, ts)
  \/ /\ ~stopping
     /\ threads' = [ts EXCEPT !.idle = @ + 1]
     /\ wpc' = [wpc EXCEPT ![w] = "sem"]
     /\ UNCHANGED at

\* The thread begins: it creates the next one of the backlog and enters its loop.
worker_thread(w) ==
  /\ wpc[w] = "created"
  /\ LET ts == [threads EXCEPT !.pending = @ - 1] IN
       \/ stopping /\ EndThread(w, ts)
       \/ /\ ~stopping
          /\ do_spawn_thread([ts EXCEPT !.idle = @ + 1], [wpc EXCEPT ![w] = "sem"])
          /\ UNCHANGED at
  /\ UNCHANGED <<state, head, request_list, sem, stopping, bhVars, rest, stack, req>>

\* qemu_sem_timedwait takes a token, goes to sleep if there is none, and times out.
TakeToken(w) ==
  /\ wpc[w] \in {"sem", "blocked"}
  /\ sem > 0
  /\ sem' = sem - 1
  /\ wpc' = [wpc EXCEPT ![w] = "got"]
  /\ UNCHANGED <<state, head, request_list, threads, stopping, bhVars, homeVars, req>>

SemBlock(w) ==
  /\ wpc[w] = "sem"
  /\ sem = 0
  /\ wpc' = [wpc EXCEPT ![w] = "blocked"]
  /\ UNCHANGED <<state, head, request_list, sem, threads, stopping, bhVars,
                 homeVars, req>>

SemTimeout(w) ==
  /\ wpc[w] = "blocked"
  /\ wpc' = [wpc EXCEPT ![w] = "timeout"]
  /\ UNCHANGED <<state, head, request_list, sem, threads, stopping, bhVars,
                 homeVars, req>>

MutTimeoutEnds(w) ==
  /\ wpc[w] = "timeout"
  /\ EndThread(w, [threads EXCEPT !.idle = @ - 1])
  /\ UNCHANGED <<state, head, request_list, sem, stopping, bhVars, rest, stack, req>>

\* After a timeout: once more if a request has come in, else end.
TimedOut(w) ==
  /\ wpc[w] = "timeout"
  /\ \/ /\ request_list # <<>>
        /\ wpc' = [wpc EXCEPT ![w] = "sem"]
        /\ UNCHANGED <<threads, at>>
     \/ /\ request_list = <<>>
        /\ EndThread(w, [threads EXCEPT !.idle = @ - 1])
  /\ UNCHANGED <<state, head, request_list, sem, stopping, bhVars, rest, stack, req>>

\* With a token: the first request, unless the pool is being freed.
TakeRequest(w) ==
  /\ wpc[w] = "got"
  /\ \/ /\ stopping
        /\ EndThread(w, [threads EXCEPT !.idle = @ - 1])
        /\ UNCHANGED <<state, request_list, req>>
     \/ /\ ~stopping
        /\ threads' = [threads EXCEPT !.idle = @ - 1]
        /\ req' = [req EXCEPT ![w] = Head(request_list)]
        /\ state' = [state EXCEPT ![Head(request_list)] = "active"]
        /\ request_list' = Tail(request_list)
        /\ wpc' = [wpc EXCEPT ![w] = "run"]
        /\ UNCHANGED at
  /\ UNCHANGED <<head, sem, stopping, bhVars, rest, stack>>

\* req->func has returned: publish the result, without the lock.
FinishRequest(w) ==
  /\ wpc[w] = "run"
  /\ state' = [state EXCEPT ![req[w]] = "done"]
  /\ wpc' = [wpc EXCEPT ![w] = "done"]
  /\ UNCHANGED <<head, request_list, sem, threads, stopping, bhVars, homeVars, req>>

ScheduleCompletion(w) ==
  /\ wpc[w] = "done"
  /\ completion_bh' = TRUE
  /\ req' = [req EXCEPT ![w] = None]
  /\ NextRound(w, threads)
  /\ UNCHANGED <<state, head, request_list, sem, stopping, new_thread_bh, rest,
                 stack>>

-----------------------------------------------------------------------------
(* thread_pool_completion_bh *)

\* aio_bh_call, from the event loop or from aio_poll in a completion function.
thread_pool_completion_bh ==
  /\ at = "user"
  /\ completion_bh
  /\ completion_bh' = FALSE
  /\ rest' = head
  /\ at' = "scan"
  /\ UNCHANGED <<state, head, request_list, sem, threads, stopping, new_thread_bh,
                 stack, workerVars>>

SkipRequest(r) ==
  /\ at = "scan"
  /\ r \in rest
  /\ state[r] # "done"
  /\ rest' = rest \ {r}
  /\ UNCHANGED <<state, head, request_list, sem, threads, stopping, bhVars, at,
                 stack, workerVars>>

\* No completion function: the request is just freed.
CompleteSilently(r) ==
  /\ at = "scan"
  /\ r \in rest \cap Silent
  /\ state[r] = "done"
  /\ rest' = rest \ {r}
  /\ head' = head \ {r}
  /\ state' = [state EXCEPT ![r] = "free"]
  /\ UNCHANGED <<request_list, sem, threads, stopping, bhVars, at, stack, workerVars>>

MutNoReschedule(r) ==
  /\ at = "scan"
  /\ r \in rest \ Silent
  /\ state[r] = "done"
  /\ head' = head \ {r}
  /\ rest' = {}
  /\ stack' = Append(stack, r)
  /\ at' = "user"
  /\ UNCHANGED <<completion_bh, state, request_list, sem, threads, stopping,
                 new_thread_bh, workerVars>>

\* Schedule completion_bh for a nested aio_poll, then call the function.
CallCompletion(r) ==
  /\ at = "scan"
  /\ r \in rest \ Silent
  /\ state[r] = "done"
  /\ head' = head \ {r}
  /\ rest' = {}
  /\ completion_bh' = TRUE
  /\ stack' = Append(stack, r)
  /\ at' = "user"
  /\ UNCHANGED <<state, request_list, sem, threads, stopping, new_thread_bh,
                 workerVars>>

\* The function returns: completion_bh is cancelled, and the scan starts again.
CompletionReturns(r) ==
  /\ at = "user"
  /\ stack # <<>> /\ r = Last(stack)
  /\ completion_bh' = FALSE
  /\ state' = [state EXCEPT ![r] = "free"]
  /\ stack' = Front(stack)
  /\ rest' = head
  /\ at' = "scan"
  /\ UNCHANGED <<head, request_list, sem, threads, stopping, new_thread_bh,
                 workerVars>>

ScanEnds ==
  /\ at = "scan"
  /\ rest = {}
  /\ at' = "user"
  /\ UNCHANGED <<state, head, request_list, sem, threads, stopping, bhVars, rest,
                 stack, workerVars>>

-----------------------------------------------------------------------------
(* Submission and cancellation, in the event loop or a completion function *)

thread_pool_submit_aio(r) ==
  /\ at = "user"
  /\ state[r] = "free"
  /\ state' = [state EXCEPT ![r] = "queued"]
  /\ head' = head \cup {r}
  /\ IF threads.idle = 0 /\ threads.cur < max_threads
       THEN spawn_thread
       ELSE UNCHANGED <<threads, new_thread_bh>>
  /\ request_list' = Append(request_list, r)
  /\ at' = "post"
  /\ UNCHANGED <<sem, stopping, completion_bh, rest, stack, workerVars>>

\* qemu_sem_post, after the lock has been released
SubmitPost ==
  /\ at = "post"
  /\ sem' = sem + 1
  /\ at' = "user"
  /\ UNCHANGED <<state, head, request_list, threads, stopping, bhVars, rest, stack,
                 workerVars>>

MutLeaveListed(i) ==
  /\ at = "user"
  /\ i \in DOMAIN request_list
  /\ sem > 0
  /\ sem' = sem - 1
  /\ state' = [state EXCEPT ![request_list[i]] = "done"]
  /\ completion_bh' = TRUE
  /\ UNCHANGED <<request_list, head, threads, stopping, new_thread_bh, homeVars,
                 workerVars>>

MutStealNoToken(i) ==
  /\ at = "user"
  /\ i \in DOMAIN request_list
  /\ state' = [state EXCEPT ![request_list[i]] = "done"]
  /\ request_list' = RemoveAt(request_list, i)
  /\ completion_bh' = TRUE
  /\ UNCHANGED <<sem, head, threads, stopping, new_thread_bh, homeVars, workerVars>>

\* A request that is still queued is cancelled if its token can be had; else
\* the call does nothing.
thread_pool_cancel(i) ==
  /\ at = "user"
  /\ i \in DOMAIN request_list
  /\ sem > 0
  /\ sem' = sem - 1
  /\ state' = [state EXCEPT ![request_list[i]] = "done"]
  /\ request_list' = RemoveAt(request_list, i)
  /\ completion_bh' = TRUE
  /\ UNCHANGED <<head, threads, stopping, new_thread_bh, homeVars, workerVars>>

-----------------------------------------------------------------------------
(* The life of the pool *)

thread_pool_new ==
  /\ at = "no_pool"
  /\ sem' = 0
  /\ threads' = InitialThreads
  /\ stopping' = FALSE
  /\ completion_bh' = FALSE
  /\ new_thread_bh' = FALSE
  /\ head' = {} /\ request_list' = <<>>
  /\ at' = "user"
  /\ UNCHANGED <<state, rest, stack, workerVars>>

\* The loop of thread_pool_free, entered with the counters ts: post once and wait
\* on worker_stopped; at the end completion_bh is deleted.  Every worker takes
\* one more token at most, so the count is capped there.
StopWorkers(ts) ==
  \/ /\ ts.cur > 0
     /\ sem' = IF sem < max_threads THEN sem + 1 ELSE sem
     /\ at' = "free_wait"
     /\ UNCHANGED completion_bh
  \/ /\ ts.cur <= 0
     /\ at' = "no_pool"
     /\ completion_bh' = FALSE
     /\ UNCHANGED sem

MutKeepBacklog ==
  /\ at = "user" /\ stack = <<>>
  /\ head = {}
  /\ new_thread_bh' = FALSE
  /\ stopping' = TRUE
  /\ StopWorkers(threads)
  /\ UNCHANGED <<threads, state, head, request_list, rest, stack, workerVars>>

MutForgetPending ==
  /\ at = "user" /\ stack = <<>>
  /\ head = {}
  /\ new_thread_bh' = FALSE
  /\ threads' = [threads EXCEPT !.cur = @ - threads.new - threads.pending, !.new = 0]
  /\ stopping' = TRUE
  /\ StopWorkers(threads')
  /\ UNCHANGED <<state, head, request_list, rest, stack, workerVars>>

\* Called by aio_ctx_finalize, when all requests have been completed.
thread_pool_free ==
  /\ at = "user" /\ stack = <<>>
  /\ head = {}
  /\ new_thread_bh' = FALSE
  /\ threads' = [threads EXCEPT !.cur = @ - threads.new, !.new = 0]
  /\ stopping' = TRUE
  /\ StopWorkers(threads')
  /\ UNCHANGED <<state, head, request_list, rest, stack, workerVars>>

FreeCheck ==
  /\ at = "free_woken"
  /\ StopWorkers(threads)
  /\ UNCHANGED <<state, head, request_list, threads, stopping, new_thread_bh, rest,
                 stack, workerVars>>

SpuriousWakeup ==
  /\ at = "free_wait"
  /\ at' = "free_woken"
  /\ UNCHANGED <<state, head, request_list, sem, threads, stopping, bhVars, rest,
                 stack, workerVars>>

-----------------------------------------------------------------------------
WorkerStep(w) ==
  \/ worker_thread(w) \/ TakeToken(w) \/ SemBlock(w) \/ SemTimeout(w)
  \/ TimedOut(w) \/ TakeRequest(w) \/ FinishRequest(w) \/ ScheduleCompletion(w)

\* What home does on its own.
Scan(r) == SkipRequest(r) \/ CompleteSilently(r) \/ CallCompletion(r)

HomeStep == ScanEnds \/ SubmitPost \/ FreeCheck \/ \E r \in Requests : Scan(r)

BottomHalf == thread_pool_completion_bh \/ spawn_thread_bh_fn

UserStep ==
  \/ \E r \in Requests : thread_pool_submit_aio(r) \/ CompletionReturns(r)
  \/ \E i \in 1..Len(request_list) : thread_pool_cancel(i)
  \/ thread_pool_new \/ thread_pool_free

Next ==
  \/ \E w \in Workers : WorkerStep(w)
  \/ HomeStep \/ BottomHalf \/ UserStep \/ SpuriousWakeup

Spec == Init /\ [][Next]_vars

(***************************************************************************)
(* Fairness.  The host runs every thread and requests end.  The event loop *)
(* dispatches each bottom half that stays scheduled (AioContext), and a    *)
(* completion function returns.  Nobody has to submit, cancel or free.     *)
(***************************************************************************)
Fairness ==
  /\ \A w \in Workers : WF_vars(WorkerStep(w))
  /\ WF_vars(HomeStep)
  /\ SF_vars(stack = <<>> /\ thread_pool_completion_bh)
  /\ SF_vars(stack = <<>> /\ spawn_thread_bh_fn)
  /\ \A r \in Requests : SF_vars(CompletionReturns(r))

FairSpec == Spec /\ Fairness

-----------------------------------------------------------------------------
(* Properties *)

In(locs) == {w \in Workers : wpc[w] \in locs}

\* The counters of the pool never go below zero, and the scan of the completion
\* bottom half visits only requests that are still in pool->head.
TypeOK ==
  /\ state \in [Requests -> {"free", "queued", "active", "done"}]
  /\ head \subseteq Requests
  /\ request_list \in Seq(Requests)
  /\ sem \in Nat
  /\ threads \in [cur : Nat, idle : Nat, new : Nat, pending : Nat]
  /\ stopping \in BOOLEAN /\ completion_bh \in BOOLEAN /\ new_thread_bh \in BOOLEAN
  /\ at \in {"no_pool", "user", "scan", "post", "free_woken", "free_wait"}
  /\ rest \subseteq head
  /\ stack \in Seq(Requests \ Silent)
  /\ wpc \in [Workers -> {"none", "created", "run", "done"} \cup Idle]
  /\ req \in [Workers -> Requests \cup {None}]

\* The four counters of the pool always agree with the threads there are: no
\* sequence of spawns, backlogs, timeouts and stops makes the pool forget a
\* thread (thread_pool_free would return too early) or count one that does not
\* exist (it would wait for ever, and requests would find no worker).
ThreadsAccounted ==
  at # "no_pool" =>
    /\ threads.cur = threads.new + Cardinality(In({"created", "run", "done"} \cup Idle))
    /\ threads.pending = Cardinality(In({"created"}))
    /\ threads.idle = Cardinality(In(Idle))
    /\ threads.cur <= max_threads

\* The semaphore counts the queued requests: with the post that submit has yet
\* to do and the tokens that workers hold, there is one per request, although
\* thread_pool_cancel takes requests out of the middle of the list.  A worker
\* that has a token finds a request.
TokensMatchRequests ==
  at # "no_pool" /\ ~stopping =>
    sem + (IF at = "post" THEN 1 ELSE 0) + Cardinality(In({"got"})) = Len(request_list)

\* A worker writes the result only into a request that has not been freed and
\* that no other worker executes.
WorkerOwnsRequest ==
  \A w \in In({"run"}) :
    /\ req[w] \in head /\ state[req[w]] = "active"
    /\ \A v \in In({"run"}) : req[v] = req[w] => v = w

\* Requests, tokens and workers are matched one to one.
RequestsAccounted == TokensMatchRequests /\ WorkerOwnsRequest

\* A finished request is never forgotten: completion_bh is scheduled, or the
\* scan that runs has still to visit it, or its worker is about to schedule
\* completion_bh.  This holds in a completion function that polls for another
\* request, and across the qemu_bh_cancel that follows it.
NoCompletionLost ==
  \A r \in head :
    state[r] = "done" =>
      \/ completion_bh
      \/ at = "scan" /\ r \in rest
      \/ \E w \in In({"done"}) : req[w] = r

\* A backlog of threads is always somebody's duty: of a thread being created
\* or of new_thread_bh.
BacklogHasSpawner ==
  threads.new > 0 /\ ~stopping => threads.pending > 0 \/ new_thread_bh

\* Once thread_pool_free has returned there are no workers, queued requests or
\* scheduled bottom halves left that would use the pool.
FreedPoolIsUnused ==
  at = "no_pool" =>
    /\ \A w \in Workers : wpc[w] = "none"
    /\ request_list = <<>> /\ head = {}
    /\ ~completion_bh /\ ~new_thread_bh

\* The pool's bookkeeping is right from its creation until nothing uses it any more.
PoolConsistent ==
  TypeOK /\ ThreadsAccounted /\ BacklogHasSpawner /\ FreedPoolIsUnused

\* Every request is completed, by a worker or by its cancellation, although
\* workers time out while requests come in and threads are created late: as
\* long as the event loop gets control back again and again.  (Completion
\* functions that keep submitting requests can hold thread_pool_completion_bh
\* in its restart loop, and others wait meanwhile.)
RequestCompletes ==
  []<>(at = "user" /\ stack = <<>>) => \A r \in Requests : r \in head ~> r \notin head

\* thread_pool_free returns.
FreeReturns == stopping ~> at = "no_pool"

\* What the pool is asked to do comes to an end: requests and the pool itself.
WorkEnds == RequestCompletes /\ FreeReturns
=============================================================================
