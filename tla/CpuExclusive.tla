---------------------------- MODULE CpuExclusive ----------------------------
(***************************************************************************)
(* The CPU list and the exclusive sections of cpus-common.c.  A thread     *)
(* that wants every vCPU out of guest code runs start_exclusive ..         *)
(* end_exclusive; vCPU threads bracket guest code with cpu_exec_start ..   *)
(* cpu_exec_end, whose fast paths take no lock.                            *)
(*                                                                         *)
(* A step is one access to state that another thread can touch at the      *)
(* same time.  Code that runs with qemu_cpu_list_lock held and touches     *)
(* only lock-protected state is one step; the CPU_FOREACH scan of          *)
(* start_exclusive is not, because cpu->running is written without the     *)
(* lock.  The smp_mb() pairs of the code order each thread's write before  *)
(* its next read, which is what interleaving these steps expresses.        *)
(***************************************************************************)
EXTENDS Integers, FiniteSets

CONSTANTS
  CPUs,          \* every vCPU that is ever created
  NoCpu,         \* "nobody" as the owner of the lock
  MaxCpuIndex    \* bound on the indices cpu_get_free_index hands out

ASSUME CPUsAssumption == IsFiniteSet(CPUs) /\ NoCpu \notin CPUs
ASSUME IndexAssumption == MaxCpuIndex \in Nat

VARIABLES
  cpu_index,     \* cpu->cpu_index; a CPU is on the list iff it is assigned
  pending_cpus,  \* 0: nobody exclusive; else 1 + the CPUs still to leave
  running,       \* cpu->running
  has_waiter,    \* cpu->has_waiter
  list_lock,     \* owner of qemu_cpu_list_lock
  asleep,        \* threads blocked in qemu_cond_wait
  to_scan,       \* the CPUs that CPU_FOREACH has not visited yet
  running_cpus,  \* start_exclusive's local count
  pc             \* where each vCPU thread is

listVars == <<cpu_index, list_lock>>
scanVars == <<to_scan, running_cpus>>
vars == <<cpu_index, pending_cpus, running, has_waiter, list_lock, asleep,
          to_scan, running_cpus, pc>>

UNASSIGNED_CPU_INDEX == -1

(***************************************************************************)
(* Thread locations.  At "start_idle" and "excl_idle" the thread waits for *)
(* exclusive_resume inside exclusive_idle(), at "excl_wait" for            *)
(* exclusive_cond.  A thread at "exclusive" has in_exclusive_context set.  *)
(***************************************************************************)
Locations == {"unplugged", "outside",
              "start_read", "start_lock", "start_idle", "exec",
              "end_read", "end_lock",
              "excl_idle", "excl_scan", "excl_wait", "exclusive"}

TypeOK ==
  /\ cpu_index \in [CPUs -> Int]
  /\ pending_cpus \in Nat
  /\ running \in [CPUs -> BOOLEAN]
  /\ has_waiter \in [CPUs -> BOOLEAN]
  /\ list_lock \in CPUs \cup {NoCpu}
  /\ asleep \in SUBSET CPUs
  /\ to_scan \in SUBSET CPUs
  /\ running_cpus \in Nat
  /\ pc \in [CPUs -> Locations]

Init ==
  /\ cpu_index = [c \in CPUs |-> UNASSIGNED_CPU_INDEX]
  /\ pending_cpus = 0
  /\ running = [c \in CPUs |-> FALSE]
  /\ has_waiter = [c \in CPUs |-> FALSE]
  /\ list_lock = NoCpu
  /\ asleep = {}
  /\ to_scan = {}
  /\ running_cpus = 0
  /\ pc = [c \in CPUs |-> "unplugged"]

Go(c, loc) == pc' = [pc EXCEPT ![c] = loc]

-----------------------------------------------------------------------------
(* The CPU list *)

\* The members of the `cpus` list.
cpus == {c \in CPUs : cpu_index[c] # UNASSIGNED_CPU_INDEX}

MutCountListed(n) == n = Cardinality(cpus)

\* n is one more than the largest index in use, 0 when there is none.
cpu_get_free_index(n) ==
  /\ \A c \in CPUs : cpu_index[c] < n
  /\ \E c \in CPUs : cpu_index[c] = n - 1

cpu_list_add(c) ==
  /\ pc[c] = "unplugged"
  /\ list_lock = NoCpu
  /\ \E n \in 0..MaxCpuIndex :
       /\ cpu_get_free_index(n)
       /\ cpu_index' = [cpu_index EXCEPT ![c] = n]
  /\ Go(c, "outside")
  /\ UNCHANGED <<pending_cpus, running, has_waiter, list_lock, asleep, scanVars>>

\* The vCPU thread has left its loop before the CPU is unrealized.
cpu_list_remove(c) ==
  /\ pc[c] = "outside"
  /\ list_lock = NoCpu
  /\ cpu_index' = [cpu_index EXCEPT ![c] = UNASSIGNED_CPU_INDEX]
  /\ Go(c, "unplugged")
  /\ UNCHANGED <<pending_cpus, running, has_waiter, list_lock, asleep, scanVars>>

-----------------------------------------------------------------------------
(* Condition variables: a wakeup takes threads out of `asleep`; they test  *)
(* their condition again once they have the lock.                          *)

AwaitingResume == {c \in CPUs : pc[c] \in {"start_idle", "excl_idle"}}
AwaitingCond   == {c \in CPUs : pc[c] = "excl_wait"}

\* pthread_cond_wait may return without a signal.
SpuriousWakeup(c) ==
  /\ c \in asleep
  /\ asleep' = asleep \ {c}
  /\ UNCHANGED <<listVars, pending_cpus, running, has_waiter, scanVars, pc>>

-----------------------------------------------------------------------------
(* start_exclusive and end_exclusive *)

\* exclusive_idle(), then pending_cpus = 1 and the scan begins.
AfterIdle(c) ==
  /\ list_lock = NoCpu
  /\ \/ /\ pending_cpus # 0
        /\ asleep' = asleep \cup {c}
        /\ Go(c, "excl_idle")
        /\ UNCHANGED <<pending_cpus, list_lock, scanVars>>
     \/ /\ pending_cpus = 0
        /\ pending_cpus' = 1
        /\ list_lock' = c
        /\ to_scan' = cpus
        /\ running_cpus' = 0
        /\ Go(c, "excl_scan")
        /\ UNCHANGED asleep
  /\ UNCHANGED <<cpu_index, running, has_waiter>>

start_exclusive(c) ==
  /\ pc[c] = "outside"
  /\ AfterIdle(c)

RetryExclusive(c) ==
  /\ pc[c] = "excl_idle"
  /\ c \notin asleep
  /\ AfterIdle(c)

ScanCpu(c, d) ==
  /\ pc[c] = "excl_scan"
  /\ d \in to_scan
  /\ to_scan' = to_scan \ {d}
  /\ has_waiter' = [has_waiter EXCEPT ![d] = @ \/ running[d]]
  /\ running_cpus' = IF running[d] THEN running_cpus + 1 ELSE running_cpus
  /\ UNCHANGED <<listVars, pending_cpus, running, asleep, pc>>

MutPendingOffByOne(c) ==
  /\ pc[c] = "excl_scan"
  /\ to_scan = {}
  /\ pending_cpus' = running_cpus
  /\ list_lock' = NoCpu
  /\ IF pending_cpus' > 1
       THEN asleep' = asleep \cup {c} /\ Go(c, "excl_wait")
       ELSE UNCHANGED asleep /\ Go(c, "exclusive")
  /\ UNCHANGED <<cpu_index, running, has_waiter, scanVars>>

\* Every CPU that was running must leave before the section starts.
ScanDone(c) ==
  /\ pc[c] = "excl_scan"
  /\ to_scan = {}
  /\ pending_cpus' = running_cpus + 1
  /\ list_lock' = NoCpu
  /\ IF pending_cpus' > 1
       THEN asleep' = asleep \cup {c} /\ Go(c, "excl_wait")
       ELSE UNCHANGED asleep /\ Go(c, "exclusive")
  /\ UNCHANGED <<cpu_index, running, has_waiter, scanVars>>

ExclusiveCondWoken(c) ==
  /\ pc[c] = "excl_wait"
  /\ c \notin asleep
  /\ list_lock = NoCpu
  /\ IF pending_cpus > 1
       THEN asleep' = asleep \cup {c} /\ UNCHANGED pc
       ELSE UNCHANGED asleep /\ Go(c, "exclusive")
  /\ UNCHANGED <<listVars, pending_cpus, running, has_waiter, scanVars>>

MutSignalResume(c) ==
  /\ pc[c] = "exclusive"
  /\ list_lock = NoCpu
  /\ pending_cpus' = 0
  /\ IF asleep \cap AwaitingResume = {}
       THEN UNCHANGED asleep
       ELSE \E w \in asleep \cap AwaitingResume : asleep' = asleep \ {w}
  /\ Go(c, "outside")
  /\ UNCHANGED <<listVars, running, has_waiter, scanVars>>

end_exclusive(c) ==
  /\ pc[c] = "exclusive"
  /\ list_lock = NoCpu
  /\ pending_cpus' = 0
  /\ asleep' = asleep \ AwaitingResume
  /\ Go(c, "outside")
  /\ UNCHANGED <<listVars, running, has_waiter, scanVars>>

-----------------------------------------------------------------------------
(* cpu_exec_start and cpu_exec_end *)

cpu_exec_start(c) ==
  /\ pc[c] = "outside"
  /\ running' = [running EXCEPT ![c] = TRUE]
  /\ Go(c, "start_read")
  /\ UNCHANGED <<listVars, pending_cpus, has_waiter, asleep, scanVars>>

StartReadPending(c) ==
  /\ pc[c] = "start_read"
  /\ Go(c, IF pending_cpus # 0 THEN "start_lock" ELSE "exec")
  /\ UNCHANGED <<listVars, pending_cpus, running, has_waiter, asleep, scanVars>>

\* exclusive_idle() with running cleared, then running is set again.
ExecIdle(c) ==
  /\ IF pending_cpus # 0
       THEN /\ running' = [running EXCEPT ![c] = FALSE]
            /\ asleep' = asleep \cup {c}
            /\ Go(c, "start_idle")
       ELSE /\ running' = [running EXCEPT ![c] = TRUE]
            /\ UNCHANGED asleep
            /\ Go(c, "exec")
  /\ UNCHANGED <<listVars, pending_cpus, has_waiter, scanVars>>

MutIgnoreHasWaiter(c) ==
  /\ pc[c] = "start_lock"
  /\ list_lock = NoCpu
  /\ Go(c, "exec")
  /\ UNCHANGED <<listVars, pending_cpus, running, has_waiter, asleep, scanVars>>

StartLocked(c) ==
  /\ pc[c] = "start_lock"
  /\ list_lock = NoCpu
  /\ IF has_waiter[c]
       THEN /\ Go(c, "exec")
            /\ UNCHANGED <<listVars, pending_cpus, running, has_waiter,
                           asleep, scanVars>>
       ELSE ExecIdle(c)

RetryExec(c) ==
  /\ pc[c] = "start_idle"
  /\ c \notin asleep
  /\ list_lock = NoCpu
  /\ ExecIdle(c)

cpu_exec_end(c) ==
  /\ pc[c] = "exec"
  /\ running' = [running EXCEPT ![c] = FALSE]
  /\ Go(c, "end_read")
  /\ UNCHANGED <<listVars, pending_cpus, has_waiter, asleep, scanVars>>

EndReadPending(c) ==
  /\ pc[c] = "end_read"
  /\ Go(c, IF pending_cpus # 0 THEN "end_lock" ELSE "outside")
  /\ UNCHANGED <<listVars, pending_cpus, running, has_waiter, asleep, scanVars>>

MutSignalAtZero(c) ==
  /\ pc[c] = "end_lock"
  /\ list_lock = NoCpu
  /\ IF has_waiter[c]
       THEN /\ has_waiter' = [has_waiter EXCEPT ![c] = FALSE]
            /\ pending_cpus' = pending_cpus - 1
            /\ asleep' = IF pending_cpus' = 0 THEN asleep \ AwaitingCond ELSE asleep
       ELSE UNCHANGED <<has_waiter, pending_cpus, asleep>>
  /\ Go(c, "outside")
  /\ UNCHANGED <<listVars, running, scanVars>>

MutAlwaysCounted(c) ==
  /\ pc[c] = "end_lock"
  /\ list_lock = NoCpu
  /\ has_waiter' = [has_waiter EXCEPT ![c] = FALSE]
  /\ pending_cpus' = pending_cpus - 1
  /\ asleep' = IF pending_cpus' = 1 THEN asleep \ AwaitingCond ELSE asleep
  /\ Go(c, "outside")
  /\ UNCHANGED <<listVars, running, scanVars>>

\* The last CPU to leave signals exclusive_cond.
EndLocked(c) ==
  /\ pc[c] = "end_lock"
  /\ list_lock = NoCpu
  /\ IF has_waiter[c]
       THEN /\ has_waiter' = [has_waiter EXCEPT ![c] = FALSE]
            /\ pending_cpus' = pending_cpus - 1
            /\ asleep' = IF pending_cpus' = 1 THEN asleep \ AwaitingCond ELSE asleep
       ELSE UNCHANGED <<has_waiter, pending_cpus, asleep>>
  /\ Go(c, "outside")
  /\ UNCHANGED <<listVars, running, scanVars>>

-----------------------------------------------------------------------------
Next ==
  \E c \in CPUs :
    \/ cpu_list_add(c) \/ cpu_list_remove(c)
    \/ start_exclusive(c) \/ RetryExclusive(c)
    \/ \E d \in CPUs : ScanCpu(c, d)
    \/ ScanDone(c) \/ ExclusiveCondWoken(c) \/ end_exclusive(c)
    \/ cpu_exec_start(c) \/ StartReadPending(c) \/ StartLocked(c) \/ RetryExec(c)
    \/ cpu_exec_end(c) \/ EndReadPending(c) \/ EndLocked(c)
    \/ SpuriousWakeup(c)

Spec == Init /\ [][Next]_vars

(***************************************************************************)
(* Fairness.  The host scheduler runs every runnable thread, an exclusive  *)
(* section ends, and guest code ends once it has been kicked, which        *)
(* start_exclusive does to exactly the CPUs it marks with has_waiter.      *)
(* Nothing makes a thread call start_exclusive or cpu_exec_start, and an   *)
(* unkicked guest may run for ever.                                        *)
(***************************************************************************)
KickedExecEnd(c) == has_waiter[c] /\ cpu_exec_end(c)

Fairness ==
  \A c \in CPUs :
    /\ WF_vars(RetryExclusive(c))
    /\ WF_vars(\E d \in CPUs : ScanCpu(c, d))
    /\ WF_vars(ScanDone(c))
    /\ WF_vars(ExclusiveCondWoken(c))
    /\ WF_vars(end_exclusive(c))
    /\ WF_vars(StartReadPending(c))
    /\ WF_vars(StartLocked(c))
    /\ WF_vars(RetryExec(c))
    /\ WF_vars(KickedExecEnd(c))
    /\ WF_vars(EndReadPending(c))
    /\ WF_vars(EndLocked(c))

FairSpec == Spec /\ Fairness

-----------------------------------------------------------------------------
(* Properties *)

\* While a thread is in its exclusive section, no vCPU executes guest code and
\* no other thread is in an exclusive section (start_exclusive's contract).
ExclusiveSection ==
  \A c, d \in CPUs :
    pc[c] = "exclusive" => pc[d] # "exec" /\ (pc[d] = "exclusive" => d = c)

\* No wakeup of exclusive_cond or exclusive_resume is lost: a thread sleeps on
\* either only while somebody is still going to signal it.
NoLostWakeup ==
  /\ \A c \in asleep \cap AwaitingCond : pending_cpus > 1
  /\ \A c \in asleep \cap AwaitingResume : pending_cpus # 0

\* qemu_get_cpu(index) is well defined: two listed CPUs never share an index,
\* whatever CPUs were unplugged and plugged again in between.
UniqueIndex ==
  \A c, d \in cpus : cpu_index[c] = cpu_index[d] => c = d

\* A thread that has announced its exclusive section eventually enters it: the
\* CPUs it marked are counted right and the last one to leave wakes it.
ExclusiveEntered ==
  \A c \in CPUs : pc[c] \in {"excl_scan", "excl_wait"} ~> pc[c] = "exclusive"

ExclusiveThread(c) ==
  pc[c] \in {"excl_idle", "excl_scan", "excl_wait", "exclusive"}

\* Once exclusive sections stop being requested, every vCPU that was held at
\* cpu_exec_start gets to run guest code.
CpusResume ==
  <>[](\A d \in CPUs : ~ExclusiveThread(d)) =>
    \A c \in CPUs :
      pc[c] \in {"start_read", "start_lock", "start_idle"} ~> pc[c] = "exec"

\* Nobody is left waiting on exclusive_cond or exclusive_resume: an announced
\* exclusive section is entered, and the vCPUs it has held back run again.
WaitsEnd == ExclusiveEntered /\ CpusResume

(***************************************************************************)
(* The inductive invariant behind ExclusiveSection and NoLostWakeup.       *)
(***************************************************************************)

\* The thread whose exclusive section is being set up, held or torn down.
Announced(c) == pc[c] \in {"excl_scan", "excl_wait", "exclusive"}

Waited == {c \in CPUs : has_waiter[c]}

\* At most one thread is past exclusive_idle(), and pending_cpus tells.
OneAnnounced ==
  /\ \A c, d \in CPUs : Announced(c) /\ Announced(d) => c = d
  /\ pending_cpus = 0 <=> \A c \in CPUs : ~Announced(c)

\* The lock is held across steps only by the thread that scans.
LockedWhileScanning ==
  \A c \in CPUs : list_lock = c <=> pc[c] = "excl_scan"

RunningMeans ==
  \A c \in CPUs : running[c] <=> pc[c] \in {"start_read", "start_lock", "exec"}

\* A marked CPU is on its way to the locked part of cpu_exec_end, and there is
\* a thread waiting for it.
WaitedMeans ==
  \A c \in CPUs : has_waiter[c] =>
    /\ pc[c] \in {"start_read", "start_lock", "exec", "end_read", "end_lock"}
    /\ \E o \in CPUs : pc[o] \in {"excl_scan", "excl_wait"}

\* pending_cpus counts the marked CPUs, on top of the announced section.
CountedWaiters ==
  /\ \A c \in CPUs : pc[c] = "excl_scan" =>
       pending_cpus = 1 /\ running_cpus = Cardinality(Waited)
  /\ \A c \in CPUs : pc[c] \in {"excl_wait", "exclusive"} =>
       pending_cpus = 1 + Cardinality(Waited)

\* CPUs that are not on the list run no guest code; a CPU that executes
\* under an announced section is marked or has not been looked at yet.
ScannedMeans ==
  \A c \in CPUs :
    /\ cpu_index[c] = UNASSIGNED_CPU_INDEX <=> pc[c] = "unplugged"
    /\ pc[c] = "excl_scan" =>
         \A d \in CPUs : (pc[d] = "exec" => has_waiter[d] \/ d \in to_scan)
                      /\ (d \in to_scan => ~has_waiter[d])
    /\ pc[c] \in {"excl_wait", "exclusive"} =>
         \A d \in CPUs : pc[d] = "exec" => has_waiter[d]

SleepersMean ==
  /\ asleep \subseteq AwaitingCond \cup AwaitingResume
  /\ NoLostWakeup

IInv ==
  /\ TypeOK
  /\ OneAnnounced
  /\ LockedWhileScanning
  /\ RunningMeans
  /\ WaitedMeans
  /\ CountedWaiters
  /\ ScannedMeans
  /\ SleepersMean
  /\ ExclusiveSection

(***************************************************************************)
(* Refinement: guest code is shared access, exclusive sections exclusive.  *)
(***************************************************************************)
Executing == {c \in CPUs : pc[c] = "exec"}
ExclusiveOwner ==
  IF \E c \in CPUs : pc[c] = "exclusive"
    THEN CHOOSE c \in CPUs : pc[c] = "exclusive"
    ELSE NoCpu

Access == INSTANCE ExclusiveAccess
            WITH Users <- CPUs, Nobody <- NoCpu,
                 sharers <- Executing, owner <- ExclusiveOwner

\* cpu_exec_start/end and start/end_exclusive implement shared and exclusive
\* access: every step of the protocol is a step of ExclusiveAccess or none.
ImplementsAccess == Access!Spec
=============================================================================
