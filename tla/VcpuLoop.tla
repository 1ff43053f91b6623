------------------------------ MODULE VcpuLoop ------------------------------
(***************************************************************************)
(* The vCPU threads of multi-threaded TCG (qemu_tcg_cpu_thread_fn in       *)
(* softmmu/cpus.c), the work queues of cpus-common.c, and the main thread  *)
(* that pauses, resumes and unplugs vCPUs.  Exclusive sections are those   *)
(* of ExclusiveAccess, which CpuExclusive implements.                      *)
(*                                                                         *)
(* State protected by the BQL is accessed in one step; work_list,          *)
(* exit_request and icount_decr.u16.high are also written by threads that  *)
(* do not hold the BQL, and every access to them is a step of its own.     *)
(***************************************************************************)
EXTENDS Naturals, Sequences, FiniteSets

CONSTANTS
  CPUs,       \* the vCPUs, each with its own thread
  Main,       \* the main loop thread
  None,       \* "nobody"
  Scenarios,  \* the sets of operations that behaviours mix
  SyncCallers,\* threads that call run_on_cpu
  MaxWork     \* bound on the length of a work_list that takes another item

AllRequests == {"sync", "async", "safe", "interrupt", "reset", "debug", "pause",
                "stop_current", "unplug", "halt", "atomic", "mmio", "flush"}

ASSUME ThreadsAssumption ==
  /\ Main \notin CPUs /\ None \notin CPUs \cup {Main}
  /\ SyncCallers \subseteq CPUs \cup {Main}
ASSUME RequestsAssumption == Scenarios \subseteq SUBSET AllRequests /\ MaxWork \in Nat

VARIABLES
  cpu,        \* the CPUState fields of every vCPU
  bql,        \* owner of qemu_global_mutex
  sharers,    \* vCPUs between cpu_exec_start and cpu_exec_end
  owner,      \* the thread between start_exclusive and end_exclusive
  asleep,     \* threads blocked in qemu_cond_wait
  done,       \* wi.done of the item a thread waits for in run_on_cpu
  kicks,      \* vCPUs a thread is in the course of kicking
  half,       \* the one whose exit_request it has just set
  to_flush,   \* vCPUs that a flush_all_helper in progress has still to visit
  running,    \* runstate_is_running()
  paused,     \* between the return of pause_all_vcpus and resume_all_vcpus
  pc,         \* where each thread is
  requests    \* the operations of this behaviour, one of Scenarios

vars == <<cpu, bql, sharers, owner, asleep, done, kicks, half, to_flush, running,
          paused, pc, requests>>
exclVars == <<sharers, owner>>
kickVars == <<kicks, half>>
otherVars == <<to_flush, running, paused, requests>>

Threads == CPUs \cup {Main}

Excl == INSTANCE ExclusiveAccess WITH Users <- CPUs, Nobody <- None

\* struct qemu_work_item
WorkItem == [kind : {"sync", "async", "safe"}, from : Threads]

CPUState == [stop : BOOLEAN, stopped : BOOLEAN, unplug : BOOLEAN,
             halted : BOOLEAN, has_work : BOOLEAN, exit_request : BOOLEAN,
             icount_high : BOOLEAN, work_list : Seq(WorkItem)]

\* Locations reached by locking the BQL, and by unlocking it.
AfterLock == [lock |-> "loop", exec_lock |-> "reset", excp_lock |-> "excp_unlock",
              debug_lock |-> "debug",
              safe_lock |-> "work", tb_lock |-> "bql", outside |-> "bql",
              join_lock |-> "bql", halt_wait |-> "idle", work_wait |-> "sync_check"]

GuestLocations == {"exec_entry", "handle", "irq", "check", "tb", "tb_lock",
                   "atomic_run", "flush", "flush_self"}

\* A vCPU thread starts with every vCPU stopped, until the main thread's vm_start.
Init ==
  /\ cpu = [c \in CPUs |->
              [stop |-> FALSE, stopped |-> TRUE, unplug |-> FALSE,
               halted |-> FALSE, has_work |-> FALSE, exit_request |-> TRUE,
               icount_high |-> FALSE, work_list |-> <<>>]]
  /\ bql = None
  /\ Excl!Init
  /\ asleep = {}
  /\ done = [t \in Threads |-> FALSE]
  /\ kicks = [t \in Threads |-> {}]
  /\ half = [t \in Threads |-> None]
  /\ to_flush = [c \in CPUs |-> {}]
  /\ running = FALSE
  /\ paused = TRUE
  /\ pc = [t \in Threads |-> IF t = Main THEN "outside" ELSE "lock"]
  /\ requests \in Scenarios

-----------------------------------------------------------------------------
Go(t, loc) == pc' = [pc EXCEPT ![t] = loc]

\* t is at loc and has finished the kicks of its previous step.
At(t, loc) == pc[t] = loc /\ kicks[t] = {}

Listed == {c \in CPUs : pc[c] # "dead"}

Waiting(loc) == {t \in asleep : pc[t] = loc}

-----------------------------------------------------------------------------
(* qemu_cpu_kick: broadcast halt_cond, then cpu_exit.  The order of        *)
(* cpu_exit's two writes is what cpu_handle_interrupt relies on.           *)

MutNoExitRequest(t) ==
  /\ half[t] = None
  /\ \E c \in kicks[t] :
       /\ asleep' = asleep \ (Waiting("halt_wait") \cap {c})
       /\ half' = [half EXCEPT ![t] = c]
  /\ UNCHANGED <<cpu, bql, exclVars, done, kicks, otherVars, pc>>

KickExit(t) ==
  /\ half[t] = None
  /\ \E c \in kicks[t] :
       /\ cpu' = [cpu EXCEPT ![c].exit_request = TRUE]
       /\ asleep' = asleep \ (Waiting("halt_wait") \cap {c})
       /\ half' = [half EXCEPT ![t] = c]
  /\ UNCHANGED <<bql, exclVars, done, kicks, otherVars, pc>>

KickIcount(t) ==
  /\ half[t] # None
  /\ cpu' = [cpu EXCEPT ![half[t]].icount_high = TRUE]
  /\ kicks' = [kicks EXCEPT ![t] = @ \ {half[t]}]
  /\ half' = [half EXCEPT ![t] = None]
  /\ UNCHANGED <<bql, exclVars, asleep, done, otherVars, pc>>

-----------------------------------------------------------------------------
(* The BQL *)

\* qemu_mutex_lock_iothread, and the end of qemu_cond_wait on the BQL.
qemu_mutex_lock_iothread(t) ==
  /\ kicks[t] = {}
  /\ pc[t] \in DOMAIN AfterLock
  /\ t \notin asleep
  /\ bql = None
  /\ bql' = t
  /\ Go(t, AfterLock[pc[t]])
  /\ UNCHANGED <<cpu, exclVars, asleep, done, kickVars, otherVars>>

qemu_mutex_unlock_iothread(t) ==
  /\ At(t, "bql")
  /\ bql' = None
  /\ Go(t, IF t = Main THEN "outside" ELSE "tb")
  /\ UNCHANGED <<cpu, exclVars, asleep, done, kickVars, otherVars>>

\* qemu_cond_wait releases the BQL and sleeps.
CondWait(t, loc) ==
  /\ bql' = None
  /\ asleep' = asleep \cup {t}
  /\ Go(t, loc)

SpuriousWakeup(t) ==
  /\ t \in asleep
  /\ asleep' = asleep \ {t}
  /\ UNCHANGED <<cpu, bql, exclVars, done, kickVars, otherVars, pc>>

-----------------------------------------------------------------------------
(* Work items *)

queue_work_on_cpu(t, c, kind) ==
  /\ kind \in requests
  /\ Len(cpu[c].work_list) < MaxWork
  /\ cpu' = [cpu EXCEPT ![c].work_list = Append(@, [kind |-> kind, from |-> t])]
  /\ kicks' = [kicks EXCEPT ![t] = {c}]

\* Called with the BQL held, or by a vCPU thread in the middle of guest code.
async_run_on_cpu(t, c) ==
  /\ At(t, "bql") \/ At(t, "tb")
  /\ c \in Listed
  /\ queue_work_on_cpu(t, c, "async")
  /\ UNCHANGED <<bql, exclVars, asleep, done, half, otherVars, pc>>

async_safe_run_on_cpu(t, c) ==
  /\ At(t, "bql") \/ At(t, "tb")
  /\ c \in Listed
  /\ queue_work_on_cpu(t, c, "safe")
  /\ UNCHANGED <<bql, exclVars, asleep, done, half, otherVars, pc>>

\* tlb_flush_by_mmuidx_all_cpus_synced begins to visit the other vCPUs.
tlb_flush_all_cpus_synced(c) ==
  /\ "flush" \in requests
  /\ At(c, "tb")
  /\ \A d \in Listed : Len(cpu[d].work_list) < MaxWork
  /\ to_flush' = [to_flush EXCEPT ![c] = Listed \ {c}]
  /\ Go(c, "flush")
  /\ UNCHANGED <<cpu, bql, exclVars, asleep, done, kickVars, running, paused, requests>>

\* flush_all_helper: async_run_on_cpu for the next of them.
flush_all_helper(c) ==
  /\ At(c, "flush")
  /\ \E d \in to_flush[c] \cap Listed :
       /\ cpu' = [cpu EXCEPT ![d].work_list = Append(@, [kind |-> "async", from |-> c])]
       /\ kicks' = [kicks EXCEPT ![c] = {d}]
       /\ to_flush' = [to_flush EXCEPT ![c] = @ \ {d}]
  /\ UNCHANGED <<bql, exclVars, asleep, done, half, running, paused, pc, requests>>

FlushVisitedAll(c) ==
  /\ At(c, "flush")
  /\ to_flush[c] \cap Listed = {}
  /\ Go(c, "flush_self")
  /\ UNCHANGED <<cpu, bql, exclVars, asleep, done, kickVars, otherVars>>

\* async_safe_run_on_cpu on the source vCPU.
FlushSelf(c) ==
  /\ At(c, "flush_self")
  /\ cpu' = [cpu EXCEPT ![c].work_list = Append(@, [kind |-> "safe", from |-> c])]
  /\ kicks' = [kicks EXCEPT ![c] = {c}]
  /\ Go(c, "tb")
  /\ UNCHANGED <<bql, exclVars, asleep, done, half, otherVars>>

\* do_run_on_cpu for another vCPU; for its own the caller just calls func.
run_on_cpu(t, c) ==
  /\ t \in SyncCallers \ {c}
  /\ c \in Listed
  /\ At(t, "bql")
  /\ queue_work_on_cpu(t, c, "sync")
  /\ done' = [done EXCEPT ![t] = FALSE]
  /\ Go(t, "sync_check")
  /\ UNCHANGED <<bql, exclVars, asleep, half, otherVars>>

SyncCheck(t) ==
  /\ At(t, "sync_check")
  /\ \/ done[t] /\ Go(t, "bql") /\ UNCHANGED <<bql, asleep>>
     \/ ~done[t] /\ CondWait(t, "work_wait")
  /\ UNCHANGED <<cpu, exclVars, done, kickVars, otherVars>>

\* Nothing queued: return without the broadcast.
process_queued_cpu_work(c) ==
  /\ At(c, "work_first")
  /\ Go(c, IF cpu[c].work_list = <<>> THEN "loop_end" ELSE "work")
  /\ UNCHANGED <<cpu, bql, exclVars, asleep, done, kickVars, otherVars>>

\* Take the first item off the list; run it with the BQL held.
RunWork(c) ==
  /\ At(c, "work")
  /\ cpu[c].work_list # <<>>
  /\ LET wi == Head(cpu[c].work_list) IN
       /\ wi.kind # "safe"
       /\ done' = IF wi.kind = "sync" THEN [done EXCEPT ![wi.from] = TRUE] ELSE done
  /\ cpu' = [cpu EXCEPT ![c].work_list = Tail(@)]
  /\ UNCHANGED <<bql, exclVars, asleep, kickVars, otherVars, pc>>

MutKeepBql(c) ==
  /\ At(c, "work")
  /\ cpu[c].work_list # <<>>
  /\ Head(cpu[c].work_list).kind = "safe"
  /\ cpu' = [cpu EXCEPT ![c].work_list = Tail(@)]
  /\ Go(c, "safe_start")
  /\ UNCHANGED <<bql, exclVars, asleep, done, kickVars, otherVars>>

\* An exclusive item runs outside the BQL.
RunSafeWork(c) ==
  /\ At(c, "work")
  /\ cpu[c].work_list # <<>>
  /\ Head(cpu[c].work_list).kind = "safe"
  /\ cpu' = [cpu EXCEPT ![c].work_list = Tail(@)]
  /\ bql' = None
  /\ Go(c, "safe_start")
  /\ UNCHANGED <<exclVars, asleep, done, kickVars, otherVars>>

WorkDone(c) ==
  /\ At(c, "work")
  /\ cpu[c].work_list = <<>>
  /\ asleep' = asleep \ Waiting("work_wait")
  /\ Go(c, "loop_end")
  /\ UNCHANGED <<cpu, bql, exclVars, done, kickVars, otherVars>>

-----------------------------------------------------------------------------
(* Exclusive sections of a work item and of cpu_exec_step_atomic *)

AfterStart == [safe_start |-> "safe_wait", atomic_start |-> "atomic_wait"]
AfterAcquire == [safe_wait |-> "safe_run", atomic_wait |-> "atomic_run"]
AfterEnd == [safe_run |-> "safe_lock", atomic_run |-> "exec_lock"]

\* A thread has announced its section: cpu_exec_start waits from now on.
SectionPending == \E t \in CPUs : pc[t] \in DOMAIN AfterAcquire \cup DOMAIN AfterEnd

start_exclusive(c) ==
  /\ pc[c] \in DOMAIN AfterStart
  /\ ~SectionPending
  /\ kicks' = [kicks EXCEPT ![c] = sharers]
  /\ Go(c, AfterStart[pc[c]])
  /\ UNCHANGED <<cpu, bql, exclVars, asleep, done, half, otherVars>>

SectionEntered(c) ==
  /\ pc[c] \in DOMAIN AfterAcquire
  /\ kicks[c] = {}
  /\ Excl!Acquire(c)
  /\ Go(c, AfterAcquire[pc[c]])
  /\ UNCHANGED <<cpu, bql, asleep, done, kickVars, otherVars>>

end_exclusive(c) ==
  /\ pc[c] \in DOMAIN AfterEnd
  /\ Excl!Release(c)
  /\ Go(c, AfterEnd[pc[c]])
  /\ UNCHANGED <<cpu, bql, asleep, done, kickVars, otherVars>>

\* EXCP_ATOMIC: the BQL that was just taken is dropped again.
ExcpAtomic(c) ==
  /\ At(c, "excp_unlock")
  /\ bql' = None
  /\ Go(c, "atomic_start")
  /\ UNCHANGED <<cpu, exclVars, asleep, done, kickVars, otherVars>>

-----------------------------------------------------------------------------
(* Guest code: tcg_cpu_exec and cpu_exec *)

cpu_exec_start(c) ==
  /\ At(c, "exec_start")
  /\ ~SectionPending
  /\ Excl!Enter(c)
  /\ Go(c, "exec_entry")
  /\ UNCHANGED <<cpu, bql, asleep, done, kickVars, otherVars>>

\* cpu_exec_end and the way back to the loop of the thread.
LeaveGuest(c, loc) ==
  /\ Excl!Leave(c)
  /\ Go(c, loc)

cpu_handle_halt(c) ==
  /\ At(c, "exec_entry")
  /\ IF cpu[c].halted /\ ~cpu[c].has_work
       THEN LeaveGuest(c, "exec_lock") /\ UNCHANGED cpu
       ELSE /\ cpu' = [cpu EXCEPT ![c].halted = FALSE]
            /\ Go(c, "handle")
            /\ UNCHANGED exclVars
  /\ UNCHANGED <<bql, asleep, done, kickVars, otherVars>>

\* cpu_handle_interrupt clears the flag before it reads the requests.
cpu_handle_interrupt(c) ==
  /\ At(c, "handle")
  /\ cpu' = [cpu EXCEPT ![c].icount_high = FALSE]
  /\ Go(c, "irq")
  /\ UNCHANGED <<bql, exclVars, asleep, done, kickVars, otherVars>>

\* No interrupt is requested, or cc->cpu_exec_interrupt is called with the BQL
\* held and may or may not take one.
DeliverIrq(c) ==
  /\ At(c, "irq")
  /\ cpu[c].has_work => bql = None
  /\ \E taken \in BOOLEAN :
       cpu' = [cpu EXCEPT ![c].has_work = @ /\ ~taken]
  /\ Go(c, "check")
  /\ UNCHANGED <<bql, exclVars, asleep, done, kickVars, otherVars>>

\* CPU_INTERRUPT_HALT and CPU_INTERRUPT_INIT (of an application processor) end
\* cpu_exec with the vCPU halted.
IrqHalt(c) ==
  /\ "reset" \in requests
  /\ At(c, "irq")
  /\ cpu[c].has_work
  /\ bql = None
  /\ cpu' = [cpu EXCEPT ![c].has_work = FALSE, ![c].halted = TRUE]
  /\ LeaveGuest(c, "exec_lock")
  /\ UNCHANGED <<bql, asleep, done, kickVars, otherVars>>

\* CPU_INTERRUPT_RESET: cpu_reset, and once more through cpu_handle_interrupt.
IrqReset(c) ==
  /\ "reset" \in requests
  /\ At(c, "irq")
  /\ cpu[c].has_work
  /\ bql = None
  /\ cpu' = [cpu EXCEPT ![c].has_work = FALSE, ![c].halted = FALSE,
                        ![c].icount_high = FALSE]
  /\ Go(c, "handle")
  /\ UNCHANGED <<bql, exclVars, asleep, done, kickVars, otherVars>>

\* EXCP_DEBUG, by CPU_INTERRUPT_DEBUG or in a translation block.
GuestDebug(c) ==
  /\ "debug" \in requests
  /\ \/ At(c, "irq") /\ cpu[c].has_work /\ bql = None
     \/ At(c, "tb")
  /\ LeaveGuest(c, "debug_lock")
  /\ UNCHANGED <<cpu, bql, asleep, done, kickVars, otherVars>>

CheckExitRequest(c) ==
  /\ At(c, "check")
  /\ IF cpu[c].exit_request
       THEN /\ cpu' = [cpu EXCEPT ![c].exit_request = FALSE]
            /\ LeaveGuest(c, "exec_lock")
       ELSE Go(c, "tb") /\ UNCHANGED <<cpu, exclVars>>
  /\ UNCHANGED <<bql, asleep, done, kickVars, otherVars>>

\* A translation block returns to the loop of cpu_exec.
TbExit(c) ==
  /\ At(c, "tb")
  /\ Go(c, "handle")
  /\ UNCHANGED <<cpu, bql, exclVars, asleep, done, kickVars, otherVars>>

\* The guest halts (EXCP_HALTED), meets an atomic instruction that needs
\* every other vCPU stopped (EXCP_ATOMIC), or accesses a device.
GuestHalt(c) ==
  /\ "halt" \in requests
  /\ At(c, "tb")
  /\ cpu' = [cpu EXCEPT ![c].halted = TRUE]
  /\ LeaveGuest(c, "exec_lock")
  /\ UNCHANGED <<bql, asleep, done, kickVars, otherVars>>

GuestAtomic(c) ==
  /\ "atomic" \in requests
  /\ At(c, "tb")
  /\ LeaveGuest(c, "excp_lock")
  /\ UNCHANGED <<cpu, bql, asleep, done, kickVars, otherVars>>

GuestMmio(c) ==
  /\ "mmio" \in requests
  /\ At(c, "tb")
  /\ Go(c, "tb_lock")
  /\ UNCHANGED <<cpu, bql, exclVars, asleep, done, kickVars, otherVars>>

-----------------------------------------------------------------------------
(* The loop of qemu_tcg_cpu_thread_fn *)

cpu_is_stopped(c) == cpu[c].stopped \/ ~running

MutIgnoreStopped(c) == ~cpu[c].stop

cpu_can_run(c) == ~cpu[c].stop /\ ~cpu_is_stopped(c)

MutIgnoreWork(c) ==
  ~cpu[c].stop /\ (cpu_is_stopped(c) \/ (cpu[c].halted /\ ~cpu[c].has_work))

cpu_thread_is_idle(c) ==
  /\ ~cpu[c].stop
  /\ cpu[c].work_list = <<>>
  /\ cpu_is_stopped(c) \/ (cpu[c].halted /\ ~cpu[c].has_work)

LoopTop(c) ==
  /\ At(c, "loop")
  /\ IF cpu_can_run(c)
       THEN bql' = None /\ Go(c, "exec_start")
       ELSE UNCHANGED bql /\ Go(c, "reset")
  /\ UNCHANGED <<cpu, exclVars, asleep, done, kickVars, otherVars>>

\* The vCPU stops itself; the main loop hears of it by qemu_system_debug_request.
cpu_handle_guest_debug(c) ==
  /\ At(c, "debug")
  /\ cpu' = [cpu EXCEPT ![c].stopped = TRUE]
  /\ Go(c, "reset")
  /\ UNCHANGED <<bql, exclVars, asleep, done, kickVars, otherVars>>

ResetExitRequest(c) ==
  /\ At(c, "reset")
  /\ cpu' = [cpu EXCEPT ![c].exit_request = FALSE]
  /\ Go(c, "idle")
  /\ UNCHANGED <<bql, exclVars, asleep, done, kickVars, otherVars>>

qemu_wait_io_event(c) ==
  /\ At(c, "idle")
  /\ Go(c, IF cpu_thread_is_idle(c) THEN "halt" ELSE "common")
  /\ UNCHANGED <<cpu, bql, exclVars, asleep, done, kickVars, otherVars>>

HaltWait(c) ==
  /\ At(c, "halt")
  /\ CondWait(c, "halt_wait")
  /\ UNCHANGED <<cpu, exclVars, done, kickVars, otherVars>>

MutNoPauseBroadcast(c) ==
  /\ At(c, "common")
  /\ cpu' = [cpu EXCEPT ![c].stop = FALSE, ![c].stopped = @ \/ cpu[c].stop]
  /\ Go(c, "work_first")
  /\ UNCHANGED <<bql, exclVars, asleep, done, kickVars, otherVars>>

\* qemu_wait_io_event_common up to process_queued_cpu_work: qemu_cpu_stop.
qemu_wait_io_event_common(c) ==
  /\ At(c, "common")
  /\ IF cpu[c].stop
       THEN /\ cpu' = [cpu EXCEPT ![c].stop = FALSE, ![c].stopped = TRUE]
            /\ asleep' = asleep \ Waiting("pause_wait")
       ELSE UNCHANGED <<cpu, asleep>>
  /\ Go(c, "work_first")
  /\ UNCHANGED <<bql, exclVars, done, kickVars, otherVars>>

MutResetLate(c) ==
  /\ At(c, "loop_end")
  /\ cpu' = [cpu EXCEPT ![c].exit_request = FALSE]
  /\ IF cpu[c].unplug /\ ~cpu_can_run(c)
       THEN bql' = None /\ Go(c, "dead")
       ELSE UNCHANGED bql /\ Go(c, "loop")
  /\ UNCHANGED <<exclVars, asleep, done, kickVars, otherVars>>

LoopEnd(c) ==
  /\ At(c, "loop_end")
  /\ IF cpu[c].unplug /\ ~cpu_can_run(c)
       THEN bql' = None /\ Go(c, "dead")
       ELSE UNCHANGED bql /\ Go(c, "loop")
  /\ UNCHANGED <<cpu, exclVars, asleep, done, kickVars, otherVars>>

-----------------------------------------------------------------------------
(* What a thread that holds the BQL does to vCPUs *)

\* tcg_handle_interrupt: kick another vCPU, or just leave the own block.
cpu_interrupt(t, c) ==
  /\ "interrupt" \in requests
  /\ At(t, "bql")
  /\ c \in Listed
  /\ cpu' = [cpu EXCEPT ![c].has_work = TRUE, ![c].icount_high = @ \/ t = c]
  /\ kicks' = [kicks EXCEPT ![t] = {c} \ {t}]
  /\ UNCHANGED <<bql, exclVars, asleep, done, half, otherVars, pc>>

cpu_stop_current(c) ==
  /\ "stop_current" \in requests
  /\ At(c, "bql")
  /\ cpu' = [cpu EXCEPT ![c].stop = TRUE, ![c].exit_request = TRUE,
                        ![c].icount_high = TRUE]
  /\ UNCHANGED <<bql, exclVars, asleep, done, kickVars, otherVars, pc>>

\* pause_all_vcpus as the main thread calls it.
pause_all_vcpus ==
  /\ "pause" \in requests
  /\ At(Main, "bql")
  /\ cpu' = [c \in CPUs |->
       IF c \in Listed THEN [cpu[c] EXCEPT !.stop = TRUE] ELSE cpu[c]]
  /\ kicks' = [kicks EXCEPT ![Main] = Listed]
  /\ Go(Main, "pause_check")
  /\ UNCHANGED <<bql, exclVars, asleep, done, half, to_flush, paused, requests>>

\* A reset or a wakeup of the machine pauses it whatever its run state, and
\* resumes it; vm_stop gives it another run state first.
PauseForReset == pause_all_vcpus /\ UNCHANGED running

do_vm_stop ==
  /\ running
  /\ running' = FALSE
  /\ pause_all_vcpus

all_vcpus_paused == \A c \in Listed : cpu[c].stopped

\* All stopped: drop the BQL and take it again on the way out.
PauseCheck ==
  /\ At(Main, "pause_check")
  /\ IF all_vcpus_paused
       THEN bql' = None /\ Go(Main, "pause_relock") /\ UNCHANGED asleep
       ELSE CondWait(Main, "pause_wait")
  /\ UNCHANGED <<cpu, exclVars, done, kickVars, otherVars>>

PauseWoken ==
  /\ At(Main, "pause_wait")
  /\ Main \notin asleep
  /\ bql = None
  /\ bql' = Main
  /\ kicks' = [kicks EXCEPT ![Main] = Listed]
  /\ Go(Main, "pause_check")
  /\ UNCHANGED <<cpu, exclVars, asleep, done, half, otherVars>>

PauseReturn ==
  /\ At(Main, "pause_relock")
  /\ bql = None
  /\ bql' = Main
  /\ paused' = TRUE
  /\ Go(Main, "bql")
  /\ UNCHANGED <<cpu, exclVars, asleep, done, kickVars, to_flush, running, requests>>

\* cpu_resume for all.
ResumeAll ==
  /\ At(Main, "bql")
  /\ cpu' = [c \in CPUs |->
       IF c \in Listed THEN [cpu[c] EXCEPT !.stop = FALSE, !.stopped = FALSE] ELSE cpu[c]]
  /\ kicks' = [kicks EXCEPT ![Main] = Listed]
  /\ paused' = FALSE
  /\ UNCHANGED <<bql, exclVars, asleep, done, half, to_flush, pc, requests>>

\* The end of a reset or a wakeup.  Without effect if the machine is not running.
resume_all_vcpus ==
  /\ paused
  /\ running
  /\ ResumeAll
  /\ UNCHANGED running

vm_start ==
  /\ ~running
  /\ running' = TRUE
  /\ ResumeAll

\* cpu_remove_sync: stop the vCPU for good, then join its thread.
cpu_remove_sync(c) ==
  /\ "unplug" \in requests
  /\ At(Main, "bql")
  /\ c \in Listed
  /\ cpu' = [cpu EXCEPT ![c].stop = TRUE, ![c].unplug = TRUE]
  /\ kicks' = [kicks EXCEPT ![Main] = {c}]
  /\ Go(Main, "join")
  /\ UNCHANGED <<bql, exclVars, asleep, done, half, otherVars>>

RemoveUnlock ==
  /\ At(Main, "join")
  /\ bql = Main
  /\ bql' = None
  /\ UNCHANGED <<cpu, exclVars, asleep, done, kickVars, otherVars, pc>>

RemoveJoined ==
  /\ At(Main, "join")
  /\ bql # Main
  /\ \A c \in Listed : ~cpu[c].unplug
  /\ Go(Main, "join_lock")
  /\ UNCHANGED <<cpu, bql, exclVars, asleep, done, kickVars, otherVars>>

-----------------------------------------------------------------------------
VcpuStep(c) ==
  \/ RunWork(c) \/ RunSafeWork(c) \/ WorkDone(c) \/ process_queued_cpu_work(c)
  \/ start_exclusive(c) \/ SectionEntered(c) \/ end_exclusive(c) \/ ExcpAtomic(c)
  \/ cpu_exec_start(c) \/ cpu_handle_halt(c) \/ cpu_handle_interrupt(c)
  \/ DeliverIrq(c) \/ IrqHalt(c) \/ IrqReset(c) \/ CheckExitRequest(c)
  \/ flush_all_helper(c) \/ FlushVisitedAll(c) \/ FlushSelf(c)
  \/ LoopTop(c) \/ cpu_handle_guest_debug(c) \/ ResetExitRequest(c)
  \/ qemu_wait_io_event(c) \/ HaltWait(c)
  \/ qemu_wait_io_event_common(c) \/ LoopEnd(c)

GuestStep(c) ==
  \/ TbExit(c) \/ GuestHalt(c) \/ GuestDebug(c) \/ GuestAtomic(c) \/ GuestMmio(c)
  \/ tlb_flush_all_cpus_synced(c)

\* Steps a thread takes on its own once it has begun an operation.
ThreadStep(t) ==
  KickExit(t) \/ KickIcount(t) \/ SyncCheck(t)

MainStep == PauseCheck \/ RemoveUnlock \/ RemoveJoined

PauseLock == PauseWoken \/ PauseReturn

\* Operations that are at the caller's discretion.
Request(t) ==
  \E c \in CPUs : \/ async_run_on_cpu(t, c) \/ async_safe_run_on_cpu(t, c)
                  \/ run_on_cpu(t, c) \/ cpu_interrupt(t, c)

MainRequest ==
  \/ PauseForReset \/ do_vm_stop \/ resume_all_vcpus \/ vm_start
  \/ \E c \in CPUs : cpu_remove_sync(c)

Next ==
  \/ \E c \in CPUs : VcpuStep(c) \/ GuestStep(c) \/ cpu_stop_current(c)
  \/ \E t \in Threads : \/ ThreadStep(t) \/ qemu_mutex_lock_iothread(t) \/ Request(t)
                        \/ qemu_mutex_unlock_iothread(t) \/ SpuriousWakeup(t)
  \/ MainStep \/ PauseLock \/ MainRequest

Spec == Init /\ [][Next]_vars

(***************************************************************************)
(* Fairness.  The host scheduler runs every thread; a contended lock goes  *)
(* to everyone who keeps asking for it, be it the BQL or the lock under    *)
(* which exclusive_idle finds no section pending; device emulation ends    *)
(* and releases the BQL; and a translation block ends once                 *)
(* icount_decr.u16.high is negative, whatever the guest does in between.   *)
(***************************************************************************)
ThreadRuns(t) ==
  \/ ThreadStep(t)
  \/ t \in CPUs /\ VcpuStep(t)
  \/ t = Main /\ MainStep

LockStep(t) ==
  \/ qemu_mutex_unlock_iothread(t)
  \/ pc[t] # "outside" /\ qemu_mutex_lock_iothread(t)
  \/ t \in CPUs /\ (DeliverIrq(t) \/ start_exclusive(t) \/ cpu_exec_start(t))
  \/ t = Main /\ PauseLock

KickedTbExit(c) == cpu[c].icount_high /\ TbExit(c)

Fairness ==
  /\ \A t \in Threads : WF_vars(ThreadRuns(t)) /\ SF_vars(LockStep(t))
  /\ \A c \in CPUs : SF_vars(KickedTbExit(c))

FairSpec == Spec /\ Fairness

-----------------------------------------------------------------------------
(* Properties *)

CpuLocations ==
  GuestLocations \cup
  {"lock", "loop", "reset", "idle", "halt", "halt_wait", "common", "work_first", "work",
   "safe_start", "safe_wait", "safe_run", "safe_lock", "loop_end", "dead", "exec_start",
   "exec_lock", "excp_lock", "excp_unlock", "debug_lock", "debug",
   "atomic_start", "atomic_wait", "bql", "sync_check", "work_wait"}
MainLocations ==
  {"outside", "bql", "sync_check", "work_wait", "pause_check", "pause_wait",
   "pause_relock", "join", "join_lock"}

\* Every work item comes from a thread of the machine and every flag of a
\* vCPU has its type, through all the queueing, kicking and unplugging.
TypeOK ==
  /\ cpu \in [CPUs -> CPUState]
  /\ bql \in Threads \cup {None}
  /\ sharers \subseteq CPUs /\ owner \in CPUs \cup {None}
  /\ asleep \subseteq Threads
  /\ done \in [Threads -> BOOLEAN]
  /\ kicks \in [Threads -> SUBSET CPUs]
  /\ half \in [Threads -> CPUs \cup {None}]
  /\ \A t \in Threads : half[t] \in kicks[t] \cup {None}
  /\ to_flush \in [CPUs -> SUBSET CPUs]
  /\ running \in BOOLEAN /\ paused \in BOOLEAN
  /\ pc \in [Threads -> CpuLocations \cup MainLocations]
  /\ pc[Main] \in MainLocations /\ \A c \in CPUs : pc[c] \in CpuLocations
  /\ requests \in Scenarios

BqlLocations ==
  {"loop", "reset", "excp_unlock", "debug", "work", "bql", "idle", "sync_check", "halt",
   "common", "work_first", "loop_end", "pause_check"}

\* The BQL is held by the thread that is at a place where the code relies on it,
\* and by nobody else: the assertions of qemu_mutex_lock_iothread_impl and
\* qemu_mutex_unlock_iothread never fail, whatever paths through guest code,
\* work items and condition waits a thread has taken.
BqlAsserts ==
  /\ \A t \in Threads : pc[t] \in BqlLocations => bql = t
  /\ \A t \in Threads : bql = t => pc[t] \in BqlLocations \cup {"join"}

\* The BQL, the flags and the work lists are consistent at every step.
MachineConsistent == TypeOK /\ BqlAsserts

\* A vCPU never runs guest code past a request it has not been told of: when
\* work is queued for it or it is asked to stop, its translation blocks are
\* about to exit, or somebody is still in the middle of kicking it.  (A reset
\* of exit_request or of icount_decr.u16.high must never swallow a kick.)
GuestIsInterrupted ==
  \A c \in CPUs :
    pc[c] = "tb" /\ (cpu[c].work_list # <<>> \/ cpu[c].stop) =>
      cpu[c].icount_high \/ \E t \in Threads : c \in kicks[t]

\* No translation block is entered with work in the queue that its sender has
\* finished queueing: deferred TLB flushes take effect before guest code runs
\* again, also on a vCPU that was held at cpu_exec_start by the flush itself.
NoGuestCodeBeforeWork ==
  [][\A c \in CPUs :
       pc[c] = "check" /\ pc'[c] = "tb" =>
         cpu[c].work_list = <<>> \/ \E t \in Threads : c \in kicks[t]]_vars

\* After pause_all_vcpus has returned and until resume_all_vcpus, no vCPU
\* thread is in guest code.
PausedMeansStopped ==
  paused => \A c \in CPUs : pc[c] \notin GuestLocations

\* A vCPU does not sleep on halt_cond past what a thread with the BQL asks of it:
\* run_on_cpu, pause_all_vcpus, cpu_interrupt and cpu_remove_sync lose no wakeup.
\* Nothing is said of async_run_on_cpu and async_safe_run_on_cpu, which vCPU
\* threads call without the BQL; see NoSleepOnWork.
SleepsOnlyWhenIdle ==
  \A c \in Waiting("halt_wait") :
    \/ \E t \in Threads : c \in kicks[t]
    \/ /\ ~cpu[c].stop
       /\ cpu[c].stopped \/ ~cpu[c].has_work
       /\ \A i \in DOMAIN cpu[c].work_list : cpu[c].work_list[i].kind # "sync"

\* No kick is swallowed by the resets on the way into guest code, and none that is
\* sent with the BQL held is swallowed between the idle check and the wait.
KicksHonoured == GuestIsInterrupted /\ SleepsOnlyWhenIdle

\* What is queued with async_run_on_cpu is done "in a few instructions time"
\* (docs/devel/multi-thread-tcg.rst): a vCPU does not go to sleep on halt_cond
\* and leave it in its work_list, with nobody about to wake it.
NoSleepOnWork ==
  \A c \in Waiting("halt_wait") :
    cpu[c].work_list = <<>> \/ \E t \in Threads : c \in kicks[t]

\* run_on_cpu, pause_all_vcpus and cpu_remove_sync of the main thread return: also
\* while vCPUs sleep, stop themselves, are interrupted, wait for the BQL in the
\* middle of guest code, or wait for each other's atomic steps.
\* Left out are a vCPU thread in a run_on_cpu of its own, and other threads that
\* queue exclusive work on one vCPU without end: it drains its list to the end
\* before it signals qemu_work_cond.
MainCallsReturn ==
  pc[Main] \in {"sync_check", "pause_check", "join"} ~> pc[Main] = "bql"
=============================================================================
