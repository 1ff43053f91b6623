-------------------------------- MODULE Jobs --------------------------------
(***************************************************************************)
(* Background jobs and their transactions (job.c), with the callbacks by   *)
(* which a block job takes part in draining (blockjob.c).                  *)
(*                                                                         *)
(*  - Every job has a coroutine in an I/O thread.  A stretch of it between *)
(*    two yields holds the AioContext lock of the job, and is one step.    *)
(*  - The main thread runs the commands of the monitor, the timers that    *)
(*    wake sleeping jobs and the job_exit bottom halves.  It calls         *)
(*    functions that wait with AIO_WAIT_WHILE; in such a wait it runs      *)
(*    timers and bottom halves, which may wait again, so `main` is a stack *)
(*    of calls.  No command of the monitor runs in a nested wait.          *)
(*                                                                         *)
(* The callbacks prepare, commit, abort and clean of a driver are atomic;  *)
(* pause may yield (mirror_pause waits for its requests).  What run() does *)
(* between two calls into job.c is arbitrary until the job is cancelled,   *)
(* after which run() returns.  A driver may also have coroutines of its    *)
(* own, whose failed requests pause the job wherever its coroutine is.     *)
(* job_complete_sync, which only qemu-img calls, is not modelled.          *)
(***************************************************************************)
EXTENDS Naturals, Sequences, FiniteSets, FiniteSetsExt

CONSTANTS
  Jobs,          \* jobs, numbered in the order of job_create
  MaxCommands,   \* how many commands the monitor runs besides starting jobs
  Scenarios      \* how the jobs may be created, see Init

ASSUME JobsAssumption == Jobs \subseteq Nat /\ IsFiniteSet(Jobs) /\ Jobs # {}
ASSUME ScenariosAssumption ==
  /\ MaxCommands \in Nat
  /\ Scenarios \subseteq [grouped: BOOLEAN, manual_finalize: SUBSET Jobs,
                         manual_dismiss: SUBSET Jobs, prepare_fails: SUBSET Jobs]

VARIABLES
  job,        \* the Job structures, see JobType
  aborting,   \* txn->aborting; a txn is named after one of its jobs
  main,       \* the calls the main thread is in, outermost first
  wake,       \* whether aio_poll has a reason to return to the waiting call
  commands    \* how many commands have run

vars == <<job, aborting, main, wake, commands>>

NoTxn == 0
None == 0

Statuses == {"created", "running", "paused", "ready", "standby", "waiting",
             "pending", "aborting", "concluded", "null"}

\* Job State Transition Table: where a job may go from each status.
JobSTT ==
  [s \in Statuses |->
     CASE s = "created"   -> {"running", "aborting", "null"}
       [] s = "running"   -> {"paused", "ready", "waiting", "aborting"}
       [] s = "paused"    -> {"running"}
       [] s = "ready"     -> {"standby", "waiting", "aborting"}
       [] s = "standby"   -> {"ready"}
       [] s = "waiting"   -> {"pending", "aborting"}
       [] s = "pending"   -> {"aborting", "concluded"}
       [] s = "aborting"  -> {"aborting", "concluded"}
       [] s = "concluded" -> {"null"}
       [] s = "null"      -> {}]

\* The statuses in which job_apply_verb accepts a verb.
JobVerbTable ==
  [cancel   |-> {"created", "running", "paused", "ready", "standby",
                 "waiting", "pending"},
   pause    |-> {"created", "running", "paused", "ready", "standby"},
   resume   |-> {"created", "running", "paused", "ready", "standby"},
   speed    |-> {"created", "running", "paused", "ready", "standby"},
   complete |-> {"ready"},
   finalize |-> {"pending"},
   dismiss  |-> {"concluded"}]

\* A job: refcnt 0 is a freed one; co is where its coroutine is, "none" until
\* job_start creates it, "pausing" in driver->pause; exit_bh is a scheduled job_exit; drained says that a
\* drained section holds one pause; prepare_fails, what .prepare will return.
\* group (the txn it was created in), outcome and cleaned (the calls of .commit,
\* .abort and .clean) and asserts (no assert() has failed) are history.
JobType ==
  [status: Statuses, refcnt: Nat, txn: Jobs \cup {NoTxn}, group: Jobs,
   co: {"none", "entry", "driver", "sleep", "yield", "pausing", "pause", "done"},
   busy: BOOLEAN, paused: BOOLEAN, pause_count: Nat, user_paused: BOOLEAN,
   iostatus_ok: BOOLEAN, timer: BOOLEAN, cancelled: BOOLEAN,
   deferred_to_main_loop: BOOLEAN, exit_bh: BOOLEAN,
   ret: {"ok", "error", "cancelled"},
   auto_finalize: BOOLEAN, auto_dismiss: BOOLEAN, prepare_fails: BOOLEAN,
   drained: BOOLEAN, outcome: {"none", "commit", "abort"}, cleaned: Nat,
   asserts: BOOLEAN]

\* A call the main thread is in.  "unref" is what is left of job_exit or
\* qmp_job_finalize after the call in the middle of it.
Frame ==
  [fn: {"finish_sync", "unref"}, job: Jobs]
  \cup [fn: {"txn_abort"}, job: Jobs \cup {None}, txn: Jobs]
  \cup [fn: {"drain_begin", "drained", "cancel_sync_all"}, job: {None}]

-----------------------------------------------------------------------------
(* One job: the functions of job.c that touch a single job.               *)

Assert(j, condition) == [j EXCEPT !.asserts = @ /\ condition]

job_is_completed(j) ==
  j.status \in {"waiting", "pending", "aborting", "concluded", "null"}

job_started(j) == j.co # "none"

job_should_pause(j) == j.pause_count > 0

job_state_transition(j, s1) ==
  [Assert(j, s1 \in JobSTT[j.status]) EXCEPT !.status = s1]

job_ref(j) == [j EXCEPT !.refcnt = @ + 1]

\* The last reference frees the job; block_job_free detaches it from its
\* nodes, which ends its share in a drained section.
job_unref(j) ==
  LET k == [j EXCEPT !.refcnt = @ - 1]
  IN IF k.refcnt > 0 THEN k
     ELSE [Assert(k, k.status = "null" /\ ~k.timer /\ k.txn = NoTxn)
             EXCEPT !.pause_count = IF k.drained THEN @ - 1 ELSE @,
                    !.drained = FALSE]

\* Wakes the coroutine, unless it has not started, is awake or has ended.
job_enter_cond(j, condition) ==
  IF ~job_started(j) \/ j.deferred_to_main_loop \/ j.busy \/ ~condition
  THEN j
  ELSE [j EXCEPT !.timer = FALSE, !.busy = TRUE]

job_enter(j) == job_enter_cond(j, TRUE)

job_do_yield(j, where) ==
  [j EXCEPT !.timer = (where = "sleep"), !.busy = FALSE, !.co = where]

\* job_pause_point after driver->pause, which may have yielded: the pause may
\* be over and the job may have been cancelled meanwhile.
PauseAsked(j) ==
  IF job_should_pause(j) /\ ~j.cancelled
  THEN LET status == IF j.status = "ready" THEN "standby" ELSE "paused"
       IN job_do_yield([job_state_transition(j, status) EXCEPT !.paused = TRUE],
                       "pause")
  ELSE [j EXCEPT !.co = "driver"]

\* job_pause_point up to driver->pause, during which the job stays busy.
job_pause_point(j) ==
  [j EXCEPT !.co = IF job_should_pause(j) /\ ~j.cancelled THEN "pausing"
                                                          ELSE "driver"]

\* job_yield and job_sleep_ns of a job that is not cancelled
SleepOrPause(j, where) ==
  IF job_should_pause(j) THEN job_pause_point(j) ELSE job_do_yield(j, where)

job_pause(j) == [j EXCEPT !.pause_count = @ + 1]

MutResumeKicksTimers(j) ==
  LET k == [Assert(j, j.pause_count > 0) EXCEPT !.pause_count = @ - 1]
  IN IF k.pause_count > 0 THEN k ELSE job_enter_cond(k, k.timer)

\* Kicks the job when this was the last pause and no timer will.
job_resume(j) ==
  LET k == [Assert(j, j.pause_count > 0) EXCEPT !.pause_count = @ - 1]
  IN IF k.pause_count > 0 THEN k ELSE job_enter_cond(k, ~k.timer)

\* block_job_iostatus_reset, through the user_resume callback of the driver
block_job_user_resume(j) ==
  IF j.iostatus_ok THEN j
  ELSE [Assert(j, j.user_paused /\ j.pause_count > 0)
          EXCEPT !.iostatus_ok = TRUE]

MutResetAfterResume(j) ==
  LET k == IF j.user_paused
           THEN block_job_user_resume([Assert(j, j.pause_count > 0)
                  EXCEPT !.user_paused = FALSE, !.pause_count = @ - 1])
           ELSE j
  IN [k EXCEPT !.cancelled = TRUE]

job_cancel_async(j) ==
  LET k == IF j.user_paused
           THEN [Assert(block_job_user_resume(j), j.pause_count > 0)
                   EXCEPT !.user_paused = FALSE, !.pause_count = @ - 1]
           ELSE j
  IN [k EXCEPT !.cancelled = TRUE]

job_do_dismiss(j) ==
  job_unref(job_state_transition(
    [j EXCEPT !.busy = FALSE, !.paused = FALSE,
              !.deferred_to_main_loop = TRUE, !.txn = NoTxn], "null"))

job_conclude(j) ==
  LET k == job_state_transition(j, "concluded")
  IN IF k.auto_dismiss \/ ~job_started(k) THEN job_do_dismiss(k) ELSE k

job_update_rc(j) ==
  LET k == IF j.ret = "ok" /\ j.cancelled
           THEN [j EXCEPT !.ret = "cancelled"] ELSE j
  IN IF k.ret = "ok" THEN k ELSE job_state_transition(k, "aborting")

MutFinalizeWithoutUpdate(j) ==
  LET called == IF j.ret = "ok" THEN "commit" ELSE "abort"
  IN job_conclude(
       [j EXCEPT !.outcome = called, !.cleaned = @ + 1, !.txn = NoTxn])

\* commit or abort, then clean, and out of the transaction.
job_finalize_single(j) ==
  LET k == job_update_rc(Assert(j, job_is_completed(j)))
      called == IF k.ret = "ok" THEN "commit" ELSE "abort"
  IN job_conclude(
       [k EXCEPT !.outcome = called, !.cleaned = @ + 1, !.txn = NoTxn])

job_prepare(j) ==
  IF j.ret = "ok" /\ j.prepare_fails
  THEN job_update_rc([j EXCEPT !.ret = "error"]) ELSE j

-----------------------------------------------------------------------------
(* Transactions: functions from a state of the job layer to the next one. *)
(* s.job, s.aborting and s.main stand for the variables.                  *)

State == [job |-> job, aborting |-> aborting, main |-> main]

Update(s, j, value) == [s EXCEPT !.job[j] = value]

Push(s, frame) == [s EXCEPT !.main = Append(@, frame)]

Top == main[Len(main)]

Pop(s) == [s EXCEPT !.main = SubSeq(@, 1, Len(@) - 1)]

Members(s, t) == {j \in Jobs : s.job[j].txn = t}

\* job_txn_add_job inserts at the head: the list has the newest job first.
First(S) == Max(S)

\* Cancels the rest of the transaction; TxnAbort runs its while loop.
job_completed_txn_abort(s, j) ==
  LET t == s.job[j].txn
      cancel == [o \in Jobs |-> IF o \in Members(s, t) \ {j}
                                THEN job_cancel_async(s.job[o]) ELSE s.job[o]]
  IN IF s.aborting[t] THEN s
     ELSE Push([s EXCEPT !.aborting[t] = TRUE, !.job = cancel],
               [fn |-> "txn_abort", job |-> None, txn |-> t])

\* job_txn_apply(job_prepare) stops at the first job that fails.
job_do_finalize(s, j) ==
  LET members == Members(s, s.job[j].txn)
      failing == {o \in members : job_prepare(s.job[o]).ret # "ok"}
      Apply(F(_), S) ==
        [s EXCEPT !.job = [o \in Jobs |-> IF o \in S THEN F(s.job[o])
                                                     ELSE s.job[o]]]
  IN IF failing # {}
     THEN job_completed_txn_abort(Apply(job_prepare, {First(failing)}), j)
     ELSE Apply(job_finalize_single, members)

job_completed_txn_success(s, j) ==
  LET s1 == Update(s, j, job_state_transition(s.job[j], "waiting"))
      members == Members(s1, s1.job[j].txn)
      running == {o \in members : ~job_is_completed(s1.job[o])}
      s2 == [s1 EXCEPT !.job = [o \in Jobs |->
               IF o \in members
               THEN Assert(job_state_transition(s1.job[o], "pending"),
                           s1.job[o].ret = "ok")
               ELSE s1.job[o]]]
  IN IF running # {} THEN s1
     ELSE IF \E o \in members : ~s2.job[o].auto_finalize THEN s2
     ELSE job_do_finalize(s2, j)

job_completed(s, j) ==
  LET k == job_update_rc(Assert(s.job[j], /\ s.job[j].txn # NoTxn
                                          /\ ~job_is_completed(s.job[j])))
  IN IF k.ret # "ok" THEN job_completed_txn_abort(Update(s, j, k), j)
     ELSE job_completed_txn_success(Update(s, j, k), j)

MutCancelOnlyEnters(s, j) ==
  LET k == job_cancel_async(s.job[j])
  IN CASE s.job[j].status = "concluded" -> Update(s, j, job_do_dismiss(s.job[j]))
       [] s.job[j].status # "concluded" /\ ~job_started(k) ->
            job_completed(Update(s, j, k), j)
       [] OTHER -> Update(s, j, job_enter(k))

job_cancel(s, j) ==
  LET k == job_cancel_async(s.job[j])
  IN CASE s.job[j].status = "concluded" -> Update(s, j, job_do_dismiss(s.job[j]))
       [] s.job[j].status # "concluded" /\ ~job_started(k) ->
            job_completed(Update(s, j, k), j)
       [] s.job[j].status # "concluded" /\ k.deferred_to_main_loop ->
            job_completed_txn_abort(Update(s, j, k), j)
       [] OTHER -> Update(s, j, job_enter(k))

\* job_finish_sync up to the wait, which FinishSync runs: the call of its
\* finish argument comes on top of the frame that waits.
job_finish_sync(s, j) ==
  Push(Update(s, j, job_ref(s.job[j])), [fn |-> "finish_sync", job |-> j])

job_cancel_sync(s, j) == job_cancel(job_finish_sync(s, j), j)

-----------------------------------------------------------------------------
NewJob(t, finalize, dismiss, fails) ==
  [status |-> "created", refcnt |-> 1, txn |-> t, group |-> t,
   co |-> "none",
   busy |-> FALSE, paused |-> TRUE, pause_count |-> 1, user_paused |-> FALSE,
   iostatus_ok |-> TRUE, timer |-> FALSE, cancelled |-> FALSE,
   deferred_to_main_loop |-> FALSE, exit_bh |-> FALSE, ret |-> "ok",
   auto_finalize |-> finalize, auto_dismiss |-> dismiss,
   prepare_fails |-> fails, drained |-> FALSE, outcome |-> "none",
   cleaned |-> 0, asserts |-> TRUE]

\* job_create, for all jobs: either every job is a transaction of its own, or
\* they are all in one.
Init ==
  /\ \E scenario \in Scenarios :
       job = [j \in Jobs |-> NewJob(IF scenario.grouped THEN Max(Jobs) ELSE j,
                                    j \notin scenario.manual_finalize,
                                    j \notin scenario.manual_dismiss,
                                    j \in scenario.prepare_fails)]
  /\ aborting = [t \in Jobs |-> FALSE]
  /\ main = <<>>
  /\ wake = TRUE
  /\ commands = 0

-----------------------------------------------------------------------------
(* The coroutine of a job.                                                *)

\* A step of a coroutine: job_event_idle kicks a waiting main thread when
\* the coroutine yields.
Coroutine(j, next) ==
  /\ job' = [job EXCEPT ![j] = next]
  /\ wake' = (wake \/ ~next.busy)
  /\ UNCHANGED <<aborting, main, commands>>

\* At the pause point before run() no request of the driver is in flight, so
\* driver->pause does not yield.
job_co_entry(j) ==
  /\ job[j].co = "entry"
  /\ Coroutine(j, PauseAsked(job[j]))

\* driver->pause returns.
DriverPaused(j) ==
  /\ job[j].co = "pausing"
  /\ Coroutine(j, PauseAsked(job[j]))

MutNoPausePointAfterSleep(j) ==
  /\ job[j].busy
  /\ \/ /\ job[j].co \in {"sleep", "yield"}
        /\ Coroutine(j, [job[j] EXCEPT !.co = "driver"])
     \/ /\ job[j].co = "pause"
        /\ LET status == IF job[j].status = "standby" THEN "ready" ELSE "running"
           IN Coroutine(j, [job_state_transition(job[j], status)
                              EXCEPT !.paused = FALSE, !.co = "driver"])

\* After qemu_coroutine_yield in job_do_yield, called by job_sleep_ns and
\* job_yield, which go on to a pause point, or by job_pause_point.
Resume(j) ==
  /\ job[j].busy
  /\ \/ /\ job[j].co \in {"sleep", "yield"}
        /\ Coroutine(j, job_pause_point(job[j]))
     \/ /\ job[j].co = "pause"
        /\ LET status == IF job[j].status = "standby" THEN "ready" ELSE "running"
           IN Coroutine(j, [job_state_transition(job[j], status)
                              EXCEPT !.paused = FALSE, !.co = "driver"])

job_sleep_ns(j) ==
  /\ job[j].co = "driver" /\ ~job[j].cancelled
  /\ Coroutine(j, SleepOrPause(job[j], "sleep"))

job_yield(j) ==
  /\ job[j].co = "driver" /\ ~job[j].cancelled
  /\ Coroutine(j, SleepOrPause(job[j], "yield"))

job_transition_to_ready(j) ==
  /\ job[j].co = "driver" /\ job[j].status = "running"
  /\ Coroutine(j, job_state_transition(job[j], "ready"))

Drained(j) ==
  job[j].drained /\ \E i \in 1..Len(main) : main[i].fn = "drained"

\* With the "stop" policy, an I/O error pauses the job for the user.  The
\* coroutine of the job meets it, or one of the driver's other coroutines
\* (mirror_read_complete, mirror_write_complete and the guest's writes in
\* do_sync_target_write) while that of the job waits somewhere; the latter
\* have no request in flight once the nodes of the job are drained.
block_job_error_action(j) ==
  /\ \/ job[j].co = "driver"
     \/ job[j].co \in {"sleep", "yield", "pausing", "pause"} /\ ~Drained(j)
  /\ ~(job[j].user_paused /\ ~job[j].iostatus_ok)
  /\ LET k == IF job[j].user_paused THEN job[j]
              ELSE [job_pause(job[j]) EXCEPT !.user_paused = TRUE]
     IN job' = [job EXCEPT ![j] = [k EXCEPT !.iostatus_ok = FALSE]]
  /\ UNCHANGED <<aborting, main, wake, commands>>

\* The end of job_co_entry.
RunReturns(j) ==
  /\ job[j].co = "driver"
  /\ \E ret \in {"ok", "error"} :
       Coroutine(j, [job[j] EXCEPT !.ret = ret, !.co = "done", !.busy = TRUE,
                                   !.deferred_to_main_loop = TRUE,
                                   !.exit_bh = TRUE])

-----------------------------------------------------------------------------
(* The main thread.                                                       *)

\* A step of the main thread; after it, a waiting call looks again.
Become(s) ==
  /\ job' = s.job /\ aborting' = s.aborting /\ main' = s.main
  /\ wake' = TRUE

\* The main loop, or an aio_poll in a call, can run a callback.
Polling ==
  main # <<>> => Top.fn \in {"finish_sync", "drain_begin", "drained"}

job_sleep_timer_cb(j) ==
  /\ Polling /\ job[j].timer
  /\ Become(Update(State, j, job_enter([job[j] EXCEPT !.timer = FALSE])))
  /\ UNCHANGED commands

job_exit(j) ==
  /\ Polling /\ job[j].exit_bh
  /\ LET k == job_ref([job[j] EXCEPT !.exit_bh = FALSE, !.busy = FALSE])
     IN Become(job_completed(Push(Update(State, j, k),
                                  [fn |-> "unref", job |-> j]), j))
  /\ UNCHANGED commands

\* The end of job_exit and of qmp_job_finalize.
Unref ==
  /\ main # <<>> /\ Top.fn = "unref"
  /\ Become(Pop(Update(State, Top.job, job_unref(job[Top.job]))))
  /\ UNCHANGED commands

MutWaitWithoutEnter ==
  /\ main # <<>> /\ Top.fn = "finish_sync" /\ wake
  /\ IF job_is_completed(job[Top.job])
     THEN Become(Pop(Update(State, Top.job, job_unref(job[Top.job]))))
     ELSE wake' = FALSE /\ UNCHANGED <<job, aborting, main>>
  /\ UNCHANGED commands

\* The wait of job_finish_sync, whose condition calls job_enter.
FinishSync ==
  /\ main # <<>> /\ Top.fn = "finish_sync" /\ wake
  /\ LET k == job_enter(job[Top.job])
     IN IF job_is_completed(k)
        THEN Become(Pop(Update(State, Top.job, job_unref(k))))
        ELSE /\ job' = [job EXCEPT ![Top.job] = k]
             /\ wake' = FALSE
             /\ UNCHANGED <<aborting, main>>
  /\ UNCHANGED commands

MutAbortWithoutWait ==
  /\ main # <<>> /\ Top.fn = "txn_abort"
  /\ LET members == Members(State, Top.txn)
         o == First(members)
     IN Become(IF members = {} THEN Pop(State)
               ELSE Update(State, o, job_finalize_single(job[o])))
  /\ UNCHANGED commands

\* One iteration of the loop of job_completed_txn_abort: frame.job is the
\* job whose job_finish_sync has just returned.
TxnAbort ==
  /\ main # <<>> /\ Top.fn = "txn_abort"
  /\ LET members == Members(State, Top.txn)
         o == IF Top.job # None THEN Top.job ELSE First(members)
         Return(who) == [State EXCEPT !.main[Len(main)].job = who]
     IN \/ /\ Top.job = None /\ members = {}
           /\ Become(Pop(State))
        \/ /\ Top.job = None /\ members # {} /\ ~job_is_completed(job[o])
           /\ Become(job_finish_sync(
                Update(Return(o), o, Assert(job[o], job[o].cancelled)), o))
        \/ /\ Top.job # None \/ (members # {} /\ job_is_completed(job[o]))
           /\ Become(Update(Return(None), o, job_finalize_single(job[o])))
  /\ UNCHANGED commands

\* One iteration of job_cancel_sync_all.
CancelSyncAll ==
  /\ main # <<>> /\ Top.fn = "cancel_sync_all"
  /\ LET jobs == {j \in Jobs : job[j].refcnt > 0}
     IN Become(IF jobs = {} THEN Pop(State)
                            ELSE job_cancel_sync(State, First(jobs)))
  /\ UNCHANGED commands

\* bdrv_drained_begin waits while child_job_drained_poll is true.
DrainedPoll ==
  /\ main # <<>> /\ Top.fn = "drain_begin" /\ wake
  /\ IF \E j \in Jobs : /\ job[j].drained /\ job[j].busy
                        /\ ~job_is_completed(job[j])
     THEN wake' = FALSE /\ UNCHANGED <<job, aborting, main>>
     ELSE Become([State EXCEPT !.main[Len(main)].fn = "drained"])
  /\ UNCHANGED commands

\* child_job_drained_end for every job that still has its nodes.
DrainedEnd ==
  /\ main # <<>> /\ Top.fn = "drained"
  /\ Become(Pop([State EXCEPT !.job = [j \in Jobs |->
       IF job[j].drained THEN job_resume([job[j] EXCEPT !.drained = FALSE])
                         ELSE job[j]]]))
  /\ UNCHANGED commands

-----------------------------------------------------------------------------
(* Commands, which run in the main loop itself.                           *)

\* The commit and abort phases of the transaction that created the jobs.
StartTxn(t) ==
  /\ main = <<>> /\ Members(State, t) # {}
  /\ \A j \in Members(State, t) : job[j].status = "created"
  /\ Become([State EXCEPT !.job = [j \in Jobs |->
       IF job[j].txn # t THEN job[j]
       ELSE [job_state_transition(Assert(job[j], job[j].paused), "running")
               EXCEPT !.co = "entry", !.pause_count = @ - 1, !.busy = TRUE,
                      !.paused = FALSE]]])
  /\ UNCHANGED commands

job_early_fail(t) ==
  /\ main = <<>> /\ Members(State, t) # {}
  /\ \A j \in Members(State, t) : job[j].status = "created"
  /\ Become([State EXCEPT !.job = [j \in Jobs |->
       IF job[j].txn = t THEN job_do_dismiss(job[j]) ELSE job[j]]])
  /\ UNCHANGED commands

\* A command on a job that find_job finds and that accepts the verb.
Command(j, verb) ==
  /\ main = <<>> /\ commands < MaxCommands
  /\ job[j].refcnt > 0 /\ job[j].status \in JobVerbTable[verb]
  /\ commands' = commands + 1

job_user_pause(j) ==
  /\ Command(j, "pause") /\ ~job[j].user_paused
  /\ Become(Update(State, j, [job_pause(job[j]) EXCEPT !.user_paused = TRUE]))

job_user_resume(j) ==
  /\ Command(j, "resume") /\ job[j].user_paused /\ job[j].pause_count > 0
  /\ Become(Update(State, j,
       job_resume([block_job_user_resume(job[j]) EXCEPT !.user_paused = FALSE])))

\* A job that has not started is cancelled alone.
job_user_cancel(j) ==
  /\ Command(j, "cancel")
  /\ job[j].status = "created" => Members(State, job[j].txn) = {j}
  /\ Become(job_cancel(State, j))

\* mirror_complete, the one implementation, asks the job to end and enters it.
job_complete(j) ==
  /\ Command(j, "complete") /\ job[j].pause_count = 0 /\ ~job[j].cancelled
  /\ Become(Update(State, j, job_enter(job[j])))

block_job_set_speed(j) ==
  /\ Command(j, "speed")
  /\ Become(Update(State, j, job_enter_cond(job[j], job[j].timer)))

job_finalize(j) ==
  /\ Command(j, "finalize")
  /\ Become(job_do_finalize(Push(Update(State, j, job_ref(job[j])),
                                 [fn |-> "unref", job |-> j]), j))

job_dismiss(j) ==
  /\ Command(j, "dismiss")
  /\ Become(Update(State, j, job_do_dismiss(job[j])))

\* Calls of the block layer and of main() that are not about one verb.
Call ==
  /\ main = <<>> /\ commands < MaxCommands
  /\ commands' = commands + 1

CancelSync(j) ==
  /\ Call /\ job[j].refcnt > 0 /\ job_started(job[j])
  /\ Become(job_cancel_sync(State, j))

job_cancel_sync_all ==
  /\ Call /\ \A j \in Jobs : job[j].status # "created"
  /\ Become(Push(State, [fn |-> "cancel_sync_all", job |-> None]))

\* child_job_drained_begin for every job that has nodes.
DrainedBegin ==
  /\ Call
  /\ Become(Push([State EXCEPT !.job = [j \in Jobs |->
       IF job[j].refcnt > 0 THEN [job_pause(job[j]) EXCEPT !.drained = TRUE]
                            ELSE job[j]]],
       [fn |-> "drain_begin", job |-> None]))

-----------------------------------------------------------------------------
CoroutineNext(j) ==
  \/ job_co_entry(j) \/ Resume(j) \/ DriverPaused(j) \/ RunReturns(j)
  \/ job_sleep_ns(j) \/ job_yield(j) \/ job_transition_to_ready(j)

MainNext ==
  \/ Unref \/ FinishSync \/ TxnAbort \/ CancelSyncAll \/ DrainedPoll \/ DrainedEnd

CommandNext ==
  \/ \E j \in Jobs :
       \/ StartTxn(j) \/ job_early_fail(j)
       \/ job_user_pause(j) \/ job_user_resume(j) \/ job_user_cancel(j)
       \/ job_complete(j) \/ block_job_set_speed(j) \/ job_finalize(j)
       \/ job_dismiss(j) \/ CancelSync(j)
  \/ job_cancel_sync_all \/ DrainedBegin

Next ==
  \/ \E j \in Jobs : \/ CoroutineNext(j) \/ block_job_error_action(j)
                     \/ job_sleep_timer_cb(j) \/ job_exit(j)
  \/ MainNext
  \/ CommandNext

Spec == Init /\ [][Next]_vars

(***************************************************************************)
(* Fairness.  The I/O thread runs a coroutine that has been entered, and a *)
(* driver returns from run() once it is cancelled (drivers test            *)
(* job_is_cancelled in their loops); the main thread goes on with a call   *)
(* that can go on, and its event loop runs bottom halves and timers.       *)
(***************************************************************************)
MainReady ==
  main # <<>> /\ (Top.fn \in {"finish_sync", "drain_begin"} => wake)

ExitReady == Polling /\ \E j \in Jobs : job[j].exit_bh

\* The last two conjuncts are WF_vars(MainNext) and WF_vars of job_exit for
\* some job, with ENABLED spelled out: TLC evaluates it too slowly.  A job's
\* job_exit runs once, so fairness for each job would say no more.
Fairness ==
  /\ \A j \in Jobs :
       WF_vars(CoroutineNext(j)) /\ WF_vars(job_sleep_timer_cb(j))
  /\ []<>~MainReady \/ []<><<MainNext>>_vars
  /\ []<>~ExitReady \/ []<><<\E j \in Jobs : job_exit(j)>>_vars

FairSpec == Spec /\ Fairness

-----------------------------------------------------------------------------
TypeOK ==
  /\ job \in [Jobs -> JobType]
  /\ aborting \in [Jobs -> BOOLEAN]
  /\ main \in Seq(Frame)
  /\ wake \in BOOLEAN
  /\ commands \in 0..MaxCommands

\* No assert() of job.c fails, and no field leaves its type: statuses follow
\* JobSTT whatever path leads to a completion, a successful transaction has no
\* failed job in it, a pause is ended as often as it was begun, and a job that
\* is freed has left its transaction and has no timer.
AssertionsHold == TypeOK /\ \A j \in Jobs : job[j].asserts

\* Every pause has an owner that will end it: pause_count counts the user,
\* the drained section and the start of the job.  A job at a pause point with
\* no pause left has been woken, or a cancellation is about to wake it.
PausesAccounted ==
  \A j \in Jobs :
    LET k == job[j]
    IN /\ k.refcnt > 0 =>
            k.pause_count = (IF k.user_paused THEN 1 ELSE 0)
                            + (IF k.drained THEN 1 ELSE 0)
                            + (IF k.co = "none" THEN 1 ELSE 0)
       /\ (k.co = "pause" /\ k.pause_count = 0) => k.busy \/ k.cancelled

\* While a node is drained no code of a job's run() runs, as the comment in
\* child_job_drained_poll promises, unless the job has been cancelled: only
\* then may it use its nodes before the section ends.
DrainedJobIsQuiet ==
  \A j \in Jobs : Drained(j) /\ job[j].co = "driver" => job[j].cancelled

\* The references of a job are its own, until it is dismissed, and those of
\* the calls in progress; a scheduled job_exit, which holds none, and a
\* pending timer never outlive the job, and the loop of
\* job_completed_txn_abort never returns to a job that is gone.
ReferencesExact ==
  \A j \in Jobs :
    LET k == job[j]
        calls == {i \in 1..Len(main) : /\ main[i].fn \in {"unref", "finish_sync"}
                                       /\ main[i].job = j}
    IN /\ k.refcnt = Cardinality(calls) + (IF k.status # "null" THEN 1 ELSE 0)
       /\ (k.exit_bh \/ k.timer) => k.status # "null"
       /\ \A i \in 1..Len(main) :
            main[i].fn = "txn_abort" /\ main[i].job = j => k.txn = main[i].txn

\* A transaction is committed by all of its jobs or by none, as job.h says of
\* .abort, and each of its jobs that ends calls commit or abort, then clean,
\* once.  It fails where jobs that share a transaction have a .prepare that can
\* fail (none of this program's do): job_do_finalize then calls
\* job_completed_txn_abort for the job it was called for, which is not
\* cancelled, and commits it unless the failed .prepare was its own.
TransactionAtomic ==
  \A i, j \in Jobs :
    /\ job[i].outcome = "commit" /\ job[j].outcome = "abort" =>
         job[i].group # job[j].group
    /\ job[i].cleaned = (IF job[i].outcome = "none" THEN 0 ELSE 1)

\* Every call of the main thread returns: the waits in job_finish_sync and in
\* bdrv_drained_begin end, nested in each other as they may be, and so do the
\* loops of job_completed_txn_abort and job_cancel_sync_all.
CallsReturn == main # <<>> ~> main = <<>>

\* A job that has been cancelled concludes, wherever the cancellation found
\* it: asleep, paused by the user, in a drained section, between run() and
\* job_exit, or waiting for the rest of its transaction.
CancelledJobConcludes ==
  \A j \in Jobs : job[j].cancelled ~> job[j].status \in {"concluded", "null"}

\* Nobody waits for a job for ever.
WaitsForJobsEnd == CallsReturn /\ CancelledJobConcludes
=============================================================================
