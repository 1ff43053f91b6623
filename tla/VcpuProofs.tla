----------------------------- MODULE VcpuProofs -----------------------------
(***************************************************************************)
(* Proofs about VcpuLoop for every set of vCPUs and every mix of requests. *)
(* IInv is inductive; MachineConsistent, KicksHonoured, PausedMeansStopped *)
(* and NoGuestCodeBeforeWork follow from it.                               *)
(***************************************************************************)
EXTENDS VcpuLoop, TLAPS

-----------------------------------------------------------------------------
(* The inductive invariant *)

\* A thread has kicks to deliver only at these places, where At makes it
\* deliver them before it goes on.
KickLocations ==
  {"bql", "tb", "flush", "flush_self", "sync_check", "safe_wait", "atomic_wait",
   "pause_check", "join"}
KicksInPlace == \A t \in Threads : kicks[t] # {} => pc[t] \in KickLocations

\* Where a vCPU with cpu->stopped may be: in the part of the loop that does
\* not lead to guest code.
StoppedLocations ==
  {"lock", "loop", "reset", "idle", "halt", "halt_wait", "common", "work_first", "work",
   "safe_start", "safe_wait", "safe_run", "safe_lock", "loop_end", "dead"}
StoppedInPlace ==
  \A c \in CPUs : cpu[c].stopped => pc[c] \in StoppedLocations

\* While the run state is another, every vCPU is stopped or told to stop: do_vm_stop
\* changes the run state and sets all stop flags under one hold of the BQL.
StopsUnlessRunning == ~running => \A c \in Listed : cpu[c].stop \/ cpu[c].stopped

\* From the check of pause_all_vcpus until resume_all_vcpus they all are.
PausedInPlace == paused \/ pc[Main] = "pause_relock" => all_vcpus_paused

\* The vCPUs that somebody is kicking, and those whose exit_request will be
\* written by such a kick.
Kicked == {c \in CPUs : \E t \in Threads : c \in kicks[t]}
ToCome == {c \in CPUs : \E t \in Threads : c \in kicks[t] /\ half[t] # c}

\* In guest code and on the way to it.
RunLocations ==
  {"exec_start", "exec_entry", "handle", "irq", "check", "tb", "tb_lock", "bql",
   "sync_check", "work_wait", "flush", "flush_self"}
\* Between two looks at icount_decr.u16.high.
BlockLocations ==
  {"tb", "tb_lock", "bql", "sync_check", "work_wait", "flush", "flush_self"}

\* What was asked of a vCPU after it last looked is, or will be, in
\* exit_request; while a block runs, in icount_decr.u16.high as well.
Asked(c) == cpu[c].work_list # <<>> \/ cpu[c].stop
WorkAnnounced ==
  \A c \in CPUs :
    pc[c] \in RunLocations \cup {"lock", "loop_end", "loop"} /\ cpu[c].work_list # <<>> =>
      cpu[c].exit_request \/ c \in ToCome
StopAnnounced ==
  \A c \in CPUs : pc[c] \in RunLocations /\ cpu[c].stop =>
                    cpu[c].exit_request \/ c \in ToCome
BlockInterrupted ==
  \A c \in CPUs : pc[c] \in BlockLocations /\ Asked(c) =>
                    cpu[c].icount_high \/ c \in Kicked

\* Nothing that only a holder of the BQL may ask for is asked of c.
NothingAsked(c) ==
  /\ ~cpu[c].stop
  /\ cpu[c].stopped \/ ~cpu[c].has_work
  /\ \A i \in DOMAIN cpu[c].work_list : cpu[c].work_list[i].kind # "sync"

\* A vCPU sleeps, or is about to, only then, or a kick will wake it.
HaltRight ==
  \A c \in CPUs :
    /\ pc[c] = "halt" => NothingAsked(c)
    /\ pc[c] = "halt_wait" /\ c \in asleep => NothingAsked(c) \/ c \in ToCome

IInv ==
  /\ TypeOK /\ BqlAsserts /\ KicksInPlace /\ StopsUnlessRunning /\ StoppedInPlace
  /\ PausedInPlace /\ WorkAnnounced /\ StopAnnounced /\ BlockInterrupted /\ HaltRight

-----------------------------------------------------------------------------
\* Setting a field of a vCPU keeps the types of all.
LEMMA FlagTypes ==
  ASSUME NEW f \in [CPUs -> CPUState], NEW c \in CPUs, NEW b \in BOOLEAN
  PROVE  /\ [f EXCEPT ![c].stop = b] \in [CPUs -> CPUState]
         /\ [f EXCEPT ![c].stopped = b] \in [CPUs -> CPUState]
         /\ [f EXCEPT ![c].unplug = b] \in [CPUs -> CPUState]
         /\ [f EXCEPT ![c].halted = b] \in [CPUs -> CPUState]
         /\ [f EXCEPT ![c].has_work = b] \in [CPUs -> CPUState]
         /\ [f EXCEPT ![c].exit_request = b] \in [CPUs -> CPUState]
         /\ [f EXCEPT ![c].icount_high = b] \in [CPUs -> CPUState]
<1>1. [f EXCEPT ![c].stop = b] \in [CPUs -> CPUState]  BY DEF CPUState
<1>2. [f EXCEPT ![c].stopped = b] \in [CPUs -> CPUState]  BY DEF CPUState
<1>3. [f EXCEPT ![c].unplug = b] \in [CPUs -> CPUState]  BY DEF CPUState
<1>4. [f EXCEPT ![c].halted = b] \in [CPUs -> CPUState]  BY DEF CPUState
<1>5. [f EXCEPT ![c].has_work = b] \in [CPUs -> CPUState]  BY DEF CPUState
<1>6. [f EXCEPT ![c].exit_request = b] \in [CPUs -> CPUState]  BY DEF CPUState
<1>7. [f EXCEPT ![c].icount_high = b] \in [CPUs -> CPUState]  BY DEF CPUState
<1> QED  BY <1>1, <1>2, <1>3, <1>4, <1>5, <1>6, <1>7

\* So does another list of work, and the lists that the actions make are lists.
LEMMA ListTypes ==
  ASSUME NEW f \in [CPUs -> CPUState], NEW c \in CPUs
  PROVE  /\ f[c].work_list \in Seq(WorkItem)
         /\ \A w \in Seq(WorkItem) : [f EXCEPT ![c].work_list = w] \in [CPUs -> CPUState]
         /\ f[c].work_list # <<>> => Tail(f[c].work_list) \in Seq(WorkItem)
         /\ \A t \in Threads, k \in {"sync", "async", "safe"} :
              Append(f[c].work_list, [kind |-> k, from |-> t]) \in Seq(WorkItem)
<1>1. f[c].work_list \in Seq(WorkItem)  BY DEF CPUState
<1>2. ASSUME NEW w \in Seq(WorkItem) PROVE [f EXCEPT ![c].work_list = w] \in [CPUs -> CPUState]
  BY DEF CPUState
<1>3. f[c].work_list # <<>> => Tail(f[c].work_list) \in Seq(WorkItem)  BY <1>1
<1>4. ASSUME NEW t \in Threads, NEW k \in {"sync", "async", "safe"}
      PROVE  [kind |-> k, from |-> t] \in WorkItem
  BY DEF WorkItem
<1> QED  BY <1>1, <1>2, <1>3, <1>4

\* A thread with no kicks left begins new ones.
LEMMA NewKicks ==
  ASSUME TypeOK, NEW t \in Threads, NEW S \in SUBSET CPUs, kicks[t] = {},
         kicks' = [kicks EXCEPT ![t] = S], UNCHANGED half
  PROVE  ToCome' = ToCome \cup S /\ Kicked' = Kicked \cup S
<1>1. half[t] = None  BY DEF TypeOK
<1> QED  BY <1>1, ThreadsAssumption DEF ToCome, Kicked, TypeOK, Threads

\* The first half of a kick: from now on exit_request says what was asked.
LEMMA Step_KickExit ==
  ASSUME IInv, NEW t \in Threads, KickExit(t)
  PROVE  IInv'
<1>1. cpu' \in [CPUs -> CPUState]
  <2>1. PICK c \in CPUs : cpu' = [cpu EXCEPT ![c].exit_request = TRUE]
    BY DEF IInv, TypeOK, KickExit
  <2> QED  BY <2>1, FlagTypes DEF IInv, TypeOK
<1> USE ThreadsAssumption, RequestsAssumption
    DEF IInv, KickExit, At, Go, exclVars, kickVars, otherVars, Threads
<1>2. Kicked' = Kicked /\ ToCome \ {half'[t]} \subseteq ToCome'
  BY DEF Kicked, ToCome, TypeOK
<1>3. TypeOK'
  <2>1. to_flush' \in [CPUs -> SUBSET CPUs] /\ running' \in BOOLEAN
    BY DEF TypeOK
  <2>2. /\ kicks' \in [Threads -> SUBSET CPUs] /\ half' \in [Threads -> CPUs \cup {None}]
        /\ \A u \in Threads : half'[u] \in kicks'[u] \cup {None}
    BY DEF TypeOK, KicksInPlace, KickLocations
  <2>3. /\ pc' \in [Threads -> CpuLocations \cup MainLocations]
        /\ pc'[Main] \in MainLocations /\ \A d \in CPUs : pc'[d] \in CpuLocations
    BY DEF TypeOK, GuestLocations, CpuLocations, MainLocations
  <2> QED  BY <1>1, <2>1, <2>2, <2>3 DEF TypeOK, CPUState
<1> USE DEF TypeOK, CPUState
<1>4. BqlAsserts'  BY DEF BqlAsserts, BqlLocations
<1>5. KicksInPlace'  BY DEF KicksInPlace, KickLocations
<1>6. StopsUnlessRunning'  BY DEF StopsUnlessRunning, Listed
<1>7. StoppedInPlace'  BY DEF StoppedInPlace, StoppedLocations
<1>8. PausedInPlace'
  BY DEF PausedInPlace, all_vcpus_paused, Listed, BqlAsserts, BqlLocations
<1>9. WorkAnnounced'  BY <1>2 DEF WorkAnnounced, RunLocations
<1>10. StopAnnounced'  BY <1>2 DEF StopAnnounced, RunLocations
<1>11. BlockInterrupted'  BY <1>2 DEF BlockInterrupted, BlockLocations, Asked
<1>12. HaltRight'  BY <1>2 DEF HaltRight, NothingAsked, Waiting, BqlAsserts, BqlLocations
<1> QED  BY <1>3, <1>4, <1>5, <1>6, <1>7, <1>8, <1>9, <1>10, <1>11, <1>12

\* The second half: the block will end.
LEMMA Step_KickIcount ==
  ASSUME IInv, NEW t \in Threads, KickIcount(t)
  PROVE  IInv'
<1>1. cpu' \in [CPUs -> CPUState]
  <2>1. half[t] \in CPUs  BY DEF IInv, TypeOK, KickIcount
  <2> QED  BY <2>1, FlagTypes DEF IInv, TypeOK, KickIcount
<1> USE ThreadsAssumption, RequestsAssumption
    DEF IInv, KickIcount, At, Go, exclVars, kickVars, otherVars, Threads
<1>2. ToCome' = ToCome /\ Kicked \ {half[t]} \subseteq Kicked'
  BY DEF Kicked, ToCome, TypeOK
<1>3. TypeOK'
  <2>1. to_flush' \in [CPUs -> SUBSET CPUs] /\ running' \in BOOLEAN
    BY DEF TypeOK
  <2>2. /\ kicks' \in [Threads -> SUBSET CPUs] /\ half' \in [Threads -> CPUs \cup {None}]
        /\ \A u \in Threads : half'[u] \in kicks'[u] \cup {None}
    BY DEF TypeOK, KicksInPlace, KickLocations
  <2>3. /\ pc' \in [Threads -> CpuLocations \cup MainLocations]
        /\ pc'[Main] \in MainLocations /\ \A d \in CPUs : pc'[d] \in CpuLocations
    BY DEF TypeOK, GuestLocations, CpuLocations, MainLocations
  <2> QED  BY <1>1, <2>1, <2>2, <2>3 DEF TypeOK, CPUState
<1> USE DEF TypeOK, CPUState
<1>4. BqlAsserts'  BY DEF BqlAsserts, BqlLocations
<1>5. KicksInPlace'  BY DEF KicksInPlace, KickLocations
<1>6. StopsUnlessRunning'  BY DEF StopsUnlessRunning, Listed
<1>7. StoppedInPlace'  BY DEF StoppedInPlace, StoppedLocations
<1>8. PausedInPlace'
  BY DEF PausedInPlace, all_vcpus_paused, Listed, BqlAsserts, BqlLocations
<1>9. WorkAnnounced'  BY <1>2 DEF WorkAnnounced, RunLocations
<1>10. StopAnnounced'  BY <1>2 DEF StopAnnounced, RunLocations
<1>11. BlockInterrupted'  BY <1>2 DEF BlockInterrupted, BlockLocations, Asked
<1>12. HaltRight'  BY <1>2 DEF HaltRight, NothingAsked, Waiting, BqlAsserts, BqlLocations
<1> QED  BY <1>3, <1>4, <1>5, <1>6, <1>7, <1>8, <1>9, <1>10, <1>11, <1>12

\* Taking the BQL, also at the end of a wait.
LEMMA Step_qemu_mutex_lock_iothread ==
  ASSUME IInv, NEW t \in Threads, qemu_mutex_lock_iothread(t)
  PROVE  IInv'
<1> USE ThreadsAssumption, RequestsAssumption
    DEF IInv, qemu_mutex_lock_iothread, AfterLock, At, Go, exclVars, kickVars, otherVars,
        Threads
<1>1. cpu' \in [CPUs -> CPUState]  BY DEF TypeOK
<1>2. ToCome' = ToCome /\ Kicked' = Kicked  BY DEF ToCome, Kicked
<1>3. TypeOK'
  <2>1. to_flush' \in [CPUs -> SUBSET CPUs] /\ running' \in BOOLEAN
    BY DEF TypeOK
  <2>2. /\ kicks' \in [Threads -> SUBSET CPUs] /\ half' \in [Threads -> CPUs \cup {None}]
        /\ \A u \in Threads : half'[u] \in kicks'[u] \cup {None}
    BY DEF TypeOK, KicksInPlace, KickLocations
  <2>3. /\ pc' \in [Threads -> CpuLocations \cup MainLocations]
        /\ pc'[Main] \in MainLocations /\ \A d \in CPUs : pc'[d] \in CpuLocations
    BY DEF TypeOK, GuestLocations, CpuLocations, MainLocations
  <2> QED  BY <1>1, <2>1, <2>2, <2>3 DEF TypeOK, CPUState
<1> USE DEF TypeOK, CPUState
<1>4. BqlAsserts'  BY DEF BqlAsserts, BqlLocations
<1>5. KicksInPlace'  BY DEF KicksInPlace, KickLocations
<1>6. StopsUnlessRunning'  BY DEF StopsUnlessRunning, Listed
<1>7. StoppedInPlace'  BY DEF StoppedInPlace, StoppedLocations
<1>8. PausedInPlace'
  BY DEF PausedInPlace, all_vcpus_paused, Listed, BqlAsserts, BqlLocations
<1>kept. \A d \in CPUs : /\ pc'[d] \in RunLocations => pc[d] \in RunLocations
                         /\ pc'[d] \in BlockLocations => pc[d] \in BlockLocations
                         /\ pc'[d] = "loop" => pc[d] \in {"lock", "loop"}
                         /\ pc'[d] # "loop_end" \/ pc[d] = "loop_end"
                         /\ pc'[d] # "lock" \/ pc[d] = "lock"
  <2>1. ASSUME NEW d \in CPUs, d # t PROVE pc'[d] = pc[d]  BY <2>1
  <2>2. t \in CPUs => \/ pc[t] = "lock" /\ pc'[t] = "loop"
                      \/ pc[t] = "tb_lock" /\ pc'[t] = "bql"
                      \/ pc[t] = "work_wait" /\ pc'[t] = "sync_check"
                      \/ pc'[t] \in {"reset", "excp_unlock", "debug", "work", "idle"}
    <3> SUFFICES ASSUME t \in CPUs
                 PROVE  \/ pc[t] = "lock" /\ pc'[t] = "loop"
                        \/ pc[t] = "tb_lock" /\ pc'[t] = "bql"
                        \/ pc[t] = "work_wait" /\ pc'[t] = "sync_check"
                        \/ pc'[t] \in {"reset", "excp_unlock", "debug", "work", "idle"}
      OBVIOUS
    <3>1. pc[t] \in {"lock", "exec_lock", "excp_lock", "debug_lock", "safe_lock", "tb_lock",
                     "halt_wait", "work_wait"}
      BY DEF CpuLocations, GuestLocations
    <3>2. pc'[t] = AfterLock[pc[t]]  OBVIOUS
    <3> HIDE DEF qemu_mutex_lock_iothread, IInv, TypeOK
    <3> QED  BY <3>1, <3>2
  <2> HIDE DEF qemu_mutex_lock_iothread, IInv, TypeOK
  <2> QED  BY <2>1, <2>2 DEF RunLocations, BlockLocations
<1> HIDE DEF qemu_mutex_lock_iothread
<1>same. cpu' = cpu  BY DEF qemu_mutex_lock_iothread
<1>9. WorkAnnounced'  BY <1>2, <1>kept, <1>same DEF WorkAnnounced
<1>10. StopAnnounced'  BY <1>2, <1>kept, <1>same DEF StopAnnounced
<1>11. BlockInterrupted'  BY <1>2, <1>kept, <1>same DEF BlockInterrupted, Asked
<1> USE DEF qemu_mutex_lock_iothread
<1>12. HaltRight'  BY <1>2 DEF HaltRight, NothingAsked, Waiting, BqlAsserts, BqlLocations
<1> QED  BY <1>3, <1>4, <1>5, <1>6, <1>7, <1>8, <1>9, <1>10, <1>11, <1>12

\* Releasing the BQL after device emulation or in the main loop.
LEMMA Step_qemu_mutex_unlock_iothread ==
  ASSUME IInv, NEW t \in Threads, qemu_mutex_unlock_iothread(t)
  PROVE  IInv'
<1> USE ThreadsAssumption, RequestsAssumption
    DEF IInv, qemu_mutex_unlock_iothread, At, Go, exclVars, kickVars, otherVars, Threads
<1>1. cpu' \in [CPUs -> CPUState]  BY DEF TypeOK
<1>2. ToCome' = ToCome /\ Kicked' = Kicked  BY DEF ToCome, Kicked
<1>3. TypeOK'
  <2>1. to_flush' \in [CPUs -> SUBSET CPUs] /\ running' \in BOOLEAN
    BY DEF TypeOK
  <2>2. /\ kicks' \in [Threads -> SUBSET CPUs] /\ half' \in [Threads -> CPUs \cup {None}]
        /\ \A u \in Threads : half'[u] \in kicks'[u] \cup {None}
    BY DEF TypeOK, KicksInPlace, KickLocations
  <2>3. /\ pc' \in [Threads -> CpuLocations \cup MainLocations]
        /\ pc'[Main] \in MainLocations /\ \A d \in CPUs : pc'[d] \in CpuLocations
    BY DEF TypeOK, GuestLocations, CpuLocations, MainLocations
  <2> QED  BY <1>1, <2>1, <2>2, <2>3 DEF TypeOK, CPUState
<1> USE DEF TypeOK, CPUState
<1>4. BqlAsserts'  BY DEF BqlAsserts, BqlLocations
<1>5. KicksInPlace'  BY DEF KicksInPlace, KickLocations
<1>6. StopsUnlessRunning'  BY DEF StopsUnlessRunning, Listed
<1>7. StoppedInPlace'  BY DEF StoppedInPlace, StoppedLocations
<1>8. PausedInPlace'
  BY DEF PausedInPlace, all_vcpus_paused, Listed, BqlAsserts, BqlLocations
<1>9. WorkAnnounced'  BY <1>2 DEF WorkAnnounced, RunLocations
<1>10. StopAnnounced'  BY <1>2 DEF StopAnnounced, RunLocations
<1>11. BlockInterrupted'  BY <1>2 DEF BlockInterrupted, BlockLocations, Asked
<1>12. HaltRight'  BY <1>2 DEF HaltRight, NothingAsked, Waiting, BqlAsserts, BqlLocations
<1> QED  BY <1>3, <1>4, <1>5, <1>6, <1>7, <1>8, <1>9, <1>10, <1>11, <1>12

\* A wakeup nobody sent only shrinks the set of sleepers.
LEMMA Step_SpuriousWakeup ==
  ASSUME IInv, NEW t \in Threads, SpuriousWakeup(t)
  PROVE  IInv'
<1> USE ThreadsAssumption, RequestsAssumption
    DEF IInv, SpuriousWakeup, At, Go, exclVars, kickVars, otherVars, Threads
<1>1. cpu' \in [CPUs -> CPUState]  BY DEF TypeOK
<1>2. ToCome' = ToCome /\ Kicked' = Kicked  BY DEF ToCome, Kicked
<1>3. TypeOK'
  <2>1. to_flush' \in [CPUs -> SUBSET CPUs] /\ running' \in BOOLEAN
    BY DEF TypeOK
  <2>2. /\ kicks' \in [Threads -> SUBSET CPUs] /\ half' \in [Threads -> CPUs \cup {None}]
        /\ \A u \in Threads : half'[u] \in kicks'[u] \cup {None}
    BY DEF TypeOK, KicksInPlace, KickLocations
  <2>3. /\ pc' \in [Threads -> CpuLocations \cup MainLocations]
        /\ pc'[Main] \in MainLocations /\ \A d \in CPUs : pc'[d] \in CpuLocations
    BY DEF TypeOK, GuestLocations, CpuLocations, MainLocations
  <2> QED  BY <1>1, <2>1, <2>2, <2>3 DEF TypeOK, CPUState
<1> USE DEF TypeOK, CPUState
<1>4. BqlAsserts'  BY DEF BqlAsserts, BqlLocations
<1>5. KicksInPlace'  BY DEF KicksInPlace, KickLocations
<1>6. StopsUnlessRunning'  BY DEF StopsUnlessRunning, Listed
<1>7. StoppedInPlace'  BY DEF StoppedInPlace, StoppedLocations
<1>8. PausedInPlace'
  BY DEF PausedInPlace, all_vcpus_paused, Listed, BqlAsserts, BqlLocations
<1>9. WorkAnnounced'  BY <1>2 DEF WorkAnnounced, RunLocations
<1>10. StopAnnounced'  BY <1>2 DEF StopAnnounced, RunLocations
<1>11. BlockInterrupted'  BY <1>2 DEF BlockInterrupted, BlockLocations, Asked
<1>12. HaltRight'  BY <1>2 DEF HaltRight, NothingAsked, Waiting, BqlAsserts, BqlLocations
<1> QED  BY <1>3, <1>4, <1>5, <1>6, <1>7, <1>8, <1>9, <1>10, <1>11, <1>12

\* Queueing work for c, with the kick to come.
LEMMA Step_async_run_on_cpu ==
  ASSUME IInv, NEW t \in Threads, NEW c \in CPUs, async_run_on_cpu(t, c)
  PROVE  IInv'
<1>1. cpu' \in [CPUs -> CPUState]
  <2>1. Append(cpu[c].work_list, [kind |-> "async", from |-> t]) \in Seq(WorkItem)
    BY ListTypes DEF IInv, TypeOK, async_run_on_cpu, queue_work_on_cpu, WorkItem, Listed
  <2>2. cpu' =
        [cpu EXCEPT ![c].work_list = Append(cpu[c].work_list, [kind |-> "async", from |-> t])]
    BY DEF async_run_on_cpu, queue_work_on_cpu, WorkItem, Listed
  <2> QED  BY <2>1, <2>2, ListTypes DEF IInv, TypeOK
<1> USE ThreadsAssumption, RequestsAssumption
    DEF IInv, async_run_on_cpu, queue_work_on_cpu, WorkItem, Listed, At, Go, exclVars,
        kickVars, otherVars, Threads
<1>2. ToCome' = ToCome \cup ({c}) /\ Kicked' = Kicked \cup ({c})
  <2>1. ({c}) \in SUBSET CPUs  BY DEF TypeOK
  <2> QED  BY <2>1, NewKicks
<1>3. TypeOK'
  <2>1. to_flush' \in [CPUs -> SUBSET CPUs] /\ running' \in BOOLEAN
    BY DEF TypeOK
  <2>2. /\ kicks' \in [Threads -> SUBSET CPUs] /\ half' \in [Threads -> CPUs \cup {None}]
        /\ \A u \in Threads : half'[u] \in kicks'[u] \cup {None}
    BY DEF TypeOK, KicksInPlace, KickLocations
  <2>3. /\ pc' \in [Threads -> CpuLocations \cup MainLocations]
        /\ pc'[Main] \in MainLocations /\ \A d \in CPUs : pc'[d] \in CpuLocations
    BY DEF TypeOK, GuestLocations, CpuLocations, MainLocations
  <2> QED  BY <1>1, <2>1, <2>2, <2>3 DEF TypeOK, CPUState
<1> USE DEF TypeOK, CPUState
<1>4. BqlAsserts'  BY DEF BqlAsserts, BqlLocations
<1>5. KicksInPlace'  BY DEF KicksInPlace, KickLocations
<1>6. StopsUnlessRunning'  BY DEF StopsUnlessRunning, Listed
<1>7. StoppedInPlace'  BY DEF StoppedInPlace, StoppedLocations
<1>8. PausedInPlace'
  BY DEF PausedInPlace, all_vcpus_paused, Listed, BqlAsserts, BqlLocations
<1>9. WorkAnnounced'  BY <1>2 DEF WorkAnnounced, RunLocations
<1>10. StopAnnounced'  BY <1>2 DEF StopAnnounced, RunLocations
<1>11. BlockInterrupted'  BY <1>2 DEF BlockInterrupted, BlockLocations, Asked
<1>12. HaltRight'  BY <1>2 DEF HaltRight, NothingAsked, Waiting, BqlAsserts, BqlLocations
<1> QED  BY <1>3, <1>4, <1>5, <1>6, <1>7, <1>8, <1>9, <1>10, <1>11, <1>12

\* The same for an exclusive item.
LEMMA Step_async_safe_run_on_cpu ==
  ASSUME IInv, NEW t \in Threads, NEW c \in CPUs, async_safe_run_on_cpu(t, c)
  PROVE  IInv'
<1>1. cpu' \in [CPUs -> CPUState]
  <2>1. Append(cpu[c].work_list, [kind |-> "safe", from |-> t]) \in Seq(WorkItem)

      BY ListTypes
      DEF IInv, TypeOK, async_safe_run_on_cpu, queue_work_on_cpu, WorkItem, Listed
  <2>2. cpu' =
        [cpu EXCEPT ![c].work_list = Append(cpu[c].work_list, [kind |-> "safe", from |-> t])]
    BY DEF async_safe_run_on_cpu, queue_work_on_cpu, WorkItem, Listed
  <2> QED  BY <2>1, <2>2, ListTypes DEF IInv, TypeOK
<1> USE ThreadsAssumption, RequestsAssumption
    DEF IInv, async_safe_run_on_cpu, queue_work_on_cpu, WorkItem, Listed, At, Go,
        exclVars, kickVars, otherVars, Threads
<1>2. ToCome' = ToCome \cup ({c}) /\ Kicked' = Kicked \cup ({c})
  <2>1. ({c}) \in SUBSET CPUs  BY DEF TypeOK
  <2> QED  BY <2>1, NewKicks
<1>3. TypeOK'
  <2>1. to_flush' \in [CPUs -> SUBSET CPUs] /\ running' \in BOOLEAN
    BY DEF TypeOK
  <2>2. /\ kicks' \in [Threads -> SUBSET CPUs] /\ half' \in [Threads -> CPUs \cup {None}]
        /\ \A u \in Threads : half'[u] \in kicks'[u] \cup {None}
    BY DEF TypeOK, KicksInPlace, KickLocations
  <2>3. /\ pc' \in [Threads -> CpuLocations \cup MainLocations]
        /\ pc'[Main] \in MainLocations /\ \A d \in CPUs : pc'[d] \in CpuLocations
    BY DEF TypeOK, GuestLocations, CpuLocations, MainLocations
  <2> QED  BY <1>1, <2>1, <2>2, <2>3 DEF TypeOK, CPUState
<1> USE DEF TypeOK, CPUState
<1>4. BqlAsserts'  BY DEF BqlAsserts, BqlLocations
<1>5. KicksInPlace'  BY DEF KicksInPlace, KickLocations
<1>6. StopsUnlessRunning'  BY DEF StopsUnlessRunning, Listed
<1>7. StoppedInPlace'  BY DEF StoppedInPlace, StoppedLocations
<1>8. PausedInPlace'
  BY DEF PausedInPlace, all_vcpus_paused, Listed, BqlAsserts, BqlLocations
<1>9. WorkAnnounced'  BY <1>2 DEF WorkAnnounced, RunLocations
<1>10. StopAnnounced'  BY <1>2 DEF StopAnnounced, RunLocations
<1>11. BlockInterrupted'  BY <1>2 DEF BlockInterrupted, BlockLocations, Asked
<1>12. HaltRight'  BY <1>2 DEF HaltRight, NothingAsked, Waiting, BqlAsserts, BqlLocations
<1> QED  BY <1>3, <1>4, <1>5, <1>6, <1>7, <1>8, <1>9, <1>10, <1>11, <1>12

\* A flush begins to visit the other vCPUs.
LEMMA Step_tlb_flush_all_cpus_synced ==
  ASSUME IInv, NEW c \in CPUs, tlb_flush_all_cpus_synced(c)
  PROVE  IInv'
<1> USE ThreadsAssumption, RequestsAssumption
    DEF IInv, tlb_flush_all_cpus_synced, Listed, At, Go, exclVars, kickVars, otherVars, Threads
<1>1. cpu' \in [CPUs -> CPUState]  BY DEF TypeOK
<1>2. ToCome' = ToCome /\ Kicked' = Kicked  BY DEF ToCome, Kicked
<1>3. TypeOK'
  <2>1. to_flush' \in [CPUs -> SUBSET CPUs] /\ running' \in BOOLEAN
    BY DEF TypeOK
  <2>2. /\ kicks' \in [Threads -> SUBSET CPUs] /\ half' \in [Threads -> CPUs \cup {None}]
        /\ \A u \in Threads : half'[u] \in kicks'[u] \cup {None}
    BY DEF TypeOK, KicksInPlace, KickLocations
  <2>3. /\ pc' \in [Threads -> CpuLocations \cup MainLocations]
        /\ pc'[Main] \in MainLocations /\ \A d \in CPUs : pc'[d] \in CpuLocations
    BY DEF TypeOK, GuestLocations, CpuLocations, MainLocations
  <2> QED  BY <1>1, <2>1, <2>2, <2>3 DEF TypeOK, CPUState
<1> USE DEF TypeOK, CPUState
<1>4. BqlAsserts'  BY DEF BqlAsserts, BqlLocations
<1>5. KicksInPlace'  BY DEF KicksInPlace, KickLocations
<1>6. StopsUnlessRunning'  BY DEF StopsUnlessRunning, Listed
<1>7. StoppedInPlace'  BY DEF StoppedInPlace, StoppedLocations
<1>8. PausedInPlace'
  BY DEF PausedInPlace, all_vcpus_paused, Listed, BqlAsserts, BqlLocations
<1>9. WorkAnnounced'  BY <1>2 DEF WorkAnnounced, RunLocations
<1>10. StopAnnounced'  BY <1>2 DEF StopAnnounced, RunLocations
<1>11. BlockInterrupted'  BY <1>2 DEF BlockInterrupted, BlockLocations, Asked
<1>12. HaltRight'  BY <1>2 DEF HaltRight, NothingAsked, Waiting, BqlAsserts, BqlLocations
<1> QED  BY <1>3, <1>4, <1>5, <1>6, <1>7, <1>8, <1>9, <1>10, <1>11, <1>12

\* It queues work for the next of them, with the kick to come.
LEMMA Step_flush_all_helper ==
  ASSUME IInv, NEW c \in CPUs, flush_all_helper(c)
  PROVE  IInv'
<1>0. PICK e \in to_flush[c] \cap Listed :
        /\ cpu' = [cpu EXCEPT ![e].work_list = Append(@, [kind |-> "async", from |-> c])]
        /\ kicks' = [kicks EXCEPT ![c] = {e}]
        /\ to_flush' = [to_flush EXCEPT ![c] = @ \ {e}]
  BY DEF flush_all_helper
<1>e. e \in CPUs  BY DEF Listed
<1>same. /\ pc[c] = "flush" /\ kicks[c] = {}
         /\ UNCHANGED <<bql, exclVars, asleep, done, half, running, paused, pc, requests>>
  BY DEF flush_all_helper, At
<1>1. cpu' \in [CPUs -> CPUState]
  <2>1. Append(cpu[e].work_list, [kind |-> "async", from |-> c]) \in Seq(WorkItem)
    BY <1>e, ListTypes DEF IInv, TypeOK, Threads
  <2>2. cpu' =
        [cpu EXCEPT ![e].work_list = Append(cpu[e].work_list, [kind |-> "async", from |-> c])]
    BY <1>0
  <2> QED  BY <1>e, <2>1, <2>2, ListTypes DEF IInv, TypeOK
<1> USE ThreadsAssumption, <1>0, <1>e, <1>same
    DEF IInv, WorkItem, exclVars, Threads
<1>2. ToCome' = ToCome \cup {e} /\ Kicked' = Kicked \cup {e}
  <2>1. {e} \in SUBSET CPUs  OBVIOUS
  <2> QED  BY <2>1, NewKicks
<1>3. TypeOK'
  <2>1. to_flush' \in [CPUs -> SUBSET CPUs] /\ running' \in BOOLEAN
    BY DEF TypeOK
  <2>2. /\ kicks' \in [Threads -> SUBSET CPUs] /\ half' \in [Threads -> CPUs \cup {None}]
        /\ \A u \in Threads : half'[u] \in kicks'[u] \cup {None}
    BY DEF TypeOK, KicksInPlace, KickLocations
  <2>3. /\ pc' \in [Threads -> CpuLocations \cup MainLocations]
        /\ pc'[Main] \in MainLocations /\ \A d \in CPUs : pc'[d] \in CpuLocations
    BY DEF TypeOK, GuestLocations, CpuLocations, MainLocations
  <2> QED  BY <1>1, <2>1, <2>2, <2>3 DEF TypeOK, CPUState
<1> USE DEF TypeOK, CPUState
<1>4. BqlAsserts'  BY DEF BqlAsserts, BqlLocations
<1>5. KicksInPlace'  BY DEF KicksInPlace, KickLocations
<1>6. StopsUnlessRunning'  BY DEF StopsUnlessRunning, Listed
<1>7. StoppedInPlace'  BY DEF StoppedInPlace, StoppedLocations
<1>8. PausedInPlace'
  BY DEF PausedInPlace, all_vcpus_paused, Listed, BqlAsserts, BqlLocations
<1>9. WorkAnnounced'  BY <1>2 DEF WorkAnnounced, RunLocations
<1>10. StopAnnounced'  BY <1>2 DEF StopAnnounced, RunLocations
<1>11. BlockInterrupted'  BY <1>2 DEF BlockInterrupted, BlockLocations, Asked
<1>12. HaltRight'  BY <1>2 DEF HaltRight, NothingAsked, Waiting, BqlAsserts, BqlLocations
<1> QED  BY <1>3, <1>4, <1>5, <1>6, <1>7, <1>8, <1>9, <1>10, <1>11, <1>12

\* All others are visited.
LEMMA Step_FlushVisitedAll ==
  ASSUME IInv, NEW c \in CPUs, FlushVisitedAll(c)
  PROVE  IInv'
<1> USE ThreadsAssumption, RequestsAssumption
    DEF IInv, FlushVisitedAll, Listed, At, Go, exclVars, kickVars, otherVars, Threads
<1>1. cpu' \in [CPUs -> CPUState]  BY DEF TypeOK
<1>2. ToCome' = ToCome /\ Kicked' = Kicked  BY DEF ToCome, Kicked
<1>3. TypeOK'
  <2>1. to_flush' \in [CPUs -> SUBSET CPUs] /\ running' \in BOOLEAN
    BY DEF TypeOK
  <2>2. /\ kicks' \in [Threads -> SUBSET CPUs] /\ half' \in [Threads -> CPUs \cup {None}]
        /\ \A u \in Threads : half'[u] \in kicks'[u] \cup {None}
    BY DEF TypeOK, KicksInPlace, KickLocations
  <2>3. /\ pc' \in [Threads -> CpuLocations \cup MainLocations]
        /\ pc'[Main] \in MainLocations /\ \A d \in CPUs : pc'[d] \in CpuLocations
    BY DEF TypeOK, GuestLocations, CpuLocations, MainLocations
  <2> QED  BY <1>1, <2>1, <2>2, <2>3 DEF TypeOK, CPUState
<1> USE DEF TypeOK, CPUState
<1>4. BqlAsserts'  BY DEF BqlAsserts, BqlLocations
<1>5. KicksInPlace'  BY DEF KicksInPlace, KickLocations
<1>6. StopsUnlessRunning'  BY DEF StopsUnlessRunning, Listed
<1>7. StoppedInPlace'  BY DEF StoppedInPlace, StoppedLocations
<1>8. PausedInPlace'
  BY DEF PausedInPlace, all_vcpus_paused, Listed, BqlAsserts, BqlLocations
<1>9. WorkAnnounced'  BY <1>2 DEF WorkAnnounced, RunLocations
<1>10. StopAnnounced'  BY <1>2 DEF StopAnnounced, RunLocations
<1>11. BlockInterrupted'  BY <1>2 DEF BlockInterrupted, BlockLocations, Asked
<1>12. HaltRight'  BY <1>2 DEF HaltRight, NothingAsked, Waiting, BqlAsserts, BqlLocations
<1> QED  BY <1>3, <1>4, <1>5, <1>6, <1>7, <1>8, <1>9, <1>10, <1>11, <1>12

\* The last item of a flush, for the own vCPU.
LEMMA Step_FlushSelf ==
  ASSUME IInv, NEW c \in CPUs, FlushSelf(c)
  PROVE  IInv'
<1>1. cpu' \in [CPUs -> CPUState]
  <2>1. Append(cpu[c].work_list, [kind |-> "safe", from |-> c]) \in Seq(WorkItem)
    BY ListTypes DEF IInv, TypeOK, Threads
  <2>2. cpu' =
        [cpu EXCEPT ![c].work_list = Append(cpu[c].work_list, [kind |-> "safe", from |-> c])]
    BY DEF FlushSelf, WorkItem
  <2> QED  BY <2>1, <2>2, ListTypes DEF IInv, TypeOK
<1> USE ThreadsAssumption, RequestsAssumption
    DEF IInv, FlushSelf, WorkItem, At, Go, exclVars, kickVars, otherVars, Threads
<1>2. ToCome' = ToCome \cup ({c}) /\ Kicked' = Kicked \cup ({c})
  <2>1. ({c}) \in SUBSET CPUs  BY DEF TypeOK
  <2> QED  BY <2>1, NewKicks
<1>3. TypeOK'
  <2>1. to_flush' \in [CPUs -> SUBSET CPUs] /\ running' \in BOOLEAN
    BY DEF TypeOK
  <2>2. /\ kicks' \in [Threads -> SUBSET CPUs] /\ half' \in [Threads -> CPUs \cup {None}]
        /\ \A u \in Threads : half'[u] \in kicks'[u] \cup {None}
    BY DEF TypeOK, KicksInPlace, KickLocations
  <2>3. /\ pc' \in [Threads -> CpuLocations \cup MainLocations]
        /\ pc'[Main] \in MainLocations /\ \A d \in CPUs : pc'[d] \in CpuLocations
    BY DEF TypeOK, GuestLocations, CpuLocations, MainLocations
  <2> QED  BY <1>1, <2>1, <2>2, <2>3 DEF TypeOK, CPUState
<1> USE DEF TypeOK, CPUState
<1>4. BqlAsserts'  BY DEF BqlAsserts, BqlLocations
<1>5. KicksInPlace'  BY DEF KicksInPlace, KickLocations
<1>6. StopsUnlessRunning'  BY DEF StopsUnlessRunning, Listed
<1>7. StoppedInPlace'  BY DEF StoppedInPlace, StoppedLocations
<1>8. PausedInPlace'
  BY DEF PausedInPlace, all_vcpus_paused, Listed, BqlAsserts, BqlLocations
<1>9. WorkAnnounced'  BY <1>2 DEF WorkAnnounced, RunLocations
<1>10. StopAnnounced'  BY <1>2 DEF StopAnnounced, RunLocations
<1>11. BlockInterrupted'  BY <1>2 DEF BlockInterrupted, BlockLocations, Asked
<1>12. HaltRight'  BY <1>2 DEF HaltRight, NothingAsked, Waiting, BqlAsserts, BqlLocations
<1> QED  BY <1>3, <1>4, <1>5, <1>6, <1>7, <1>8, <1>9, <1>10, <1>11, <1>12

\* Queueing work that the caller waits for.
LEMMA Step_run_on_cpu ==
  ASSUME IInv, NEW t \in Threads, NEW c \in CPUs, run_on_cpu(t, c)
  PROVE  IInv'
<1>1. cpu' \in [CPUs -> CPUState]
  <2>1. Append(cpu[c].work_list, [kind |-> "sync", from |-> t]) \in Seq(WorkItem)
    BY ListTypes DEF IInv, TypeOK, run_on_cpu, queue_work_on_cpu, WorkItem, Listed
  <2>2. cpu' =
        [cpu EXCEPT ![c].work_list = Append(cpu[c].work_list, [kind |-> "sync", from |-> t])]
    BY DEF run_on_cpu, queue_work_on_cpu, WorkItem, Listed
  <2> QED  BY <2>1, <2>2, ListTypes DEF IInv, TypeOK
<1> USE ThreadsAssumption, RequestsAssumption
    DEF IInv, run_on_cpu, queue_work_on_cpu, WorkItem, Listed, At, Go, exclVars,
        kickVars, otherVars, Threads
<1>2. ToCome' = ToCome \cup ({c}) /\ Kicked' = Kicked \cup ({c})
  <2>1. ({c}) \in SUBSET CPUs  BY DEF TypeOK
  <2> QED  BY <2>1, NewKicks
<1>3. TypeOK'
  <2>1. to_flush' \in [CPUs -> SUBSET CPUs] /\ running' \in BOOLEAN
    BY DEF TypeOK
  <2>2. /\ kicks' \in [Threads -> SUBSET CPUs] /\ half' \in [Threads -> CPUs \cup {None}]
        /\ \A u \in Threads : half'[u] \in kicks'[u] \cup {None}
    BY DEF TypeOK, KicksInPlace, KickLocations
  <2>3. /\ pc' \in [Threads -> CpuLocations \cup MainLocations]
        /\ pc'[Main] \in MainLocations /\ \A d \in CPUs : pc'[d] \in CpuLocations
    BY DEF TypeOK, GuestLocations, CpuLocations, MainLocations
  <2> QED  BY <1>1, <2>1, <2>2, <2>3 DEF TypeOK, CPUState
<1> USE DEF TypeOK, CPUState
<1>4. BqlAsserts'  BY DEF BqlAsserts, BqlLocations
<1>5. KicksInPlace'  BY DEF KicksInPlace, KickLocations
<1>6. StopsUnlessRunning'  BY DEF StopsUnlessRunning, Listed
<1>7. StoppedInPlace'  BY DEF StoppedInPlace, StoppedLocations
<1>8. PausedInPlace'
  BY DEF PausedInPlace, all_vcpus_paused, Listed, BqlAsserts, BqlLocations
<1>9. WorkAnnounced'  BY <1>2 DEF WorkAnnounced, RunLocations
<1>10. StopAnnounced'  BY <1>2 DEF StopAnnounced, RunLocations
<1>11. BlockInterrupted'  BY <1>2 DEF BlockInterrupted, BlockLocations, Asked
<1>12. HaltRight'  BY <1>2 DEF HaltRight, NothingAsked, Waiting, BqlAsserts, BqlLocations
<1> QED  BY <1>3, <1>4, <1>5, <1>6, <1>7, <1>8, <1>9, <1>10, <1>11, <1>12

\* The caller looks whether its work is done, or waits.
LEMMA Step_SyncCheck ==
  ASSUME IInv, NEW t \in Threads, SyncCheck(t)
  PROVE  IInv'
<1> USE ThreadsAssumption, RequestsAssumption
    DEF IInv, SyncCheck, CondWait, At, Go, exclVars, kickVars, otherVars, Threads
<1>1. cpu' \in [CPUs -> CPUState]  BY DEF TypeOK
<1>2. ToCome' = ToCome /\ Kicked' = Kicked  BY DEF ToCome, Kicked
<1>3. TypeOK'
  <2>1. to_flush' \in [CPUs -> SUBSET CPUs] /\ running' \in BOOLEAN
    BY DEF TypeOK
  <2>2. /\ kicks' \in [Threads -> SUBSET CPUs] /\ half' \in [Threads -> CPUs \cup {None}]
        /\ \A u \in Threads : half'[u] \in kicks'[u] \cup {None}
    BY DEF TypeOK, KicksInPlace, KickLocations
  <2>3. /\ pc' \in [Threads -> CpuLocations \cup MainLocations]
        /\ pc'[Main] \in MainLocations /\ \A d \in CPUs : pc'[d] \in CpuLocations
    BY DEF TypeOK, GuestLocations, CpuLocations, MainLocations
  <2> QED  BY <1>1, <2>1, <2>2, <2>3 DEF TypeOK, CPUState
<1> USE DEF TypeOK, CPUState
<1>4. BqlAsserts'  BY DEF BqlAsserts, BqlLocations
<1>5. KicksInPlace'  BY DEF KicksInPlace, KickLocations
<1>6. StopsUnlessRunning'  BY DEF StopsUnlessRunning, Listed
<1>7. StoppedInPlace'  BY DEF StoppedInPlace, StoppedLocations
<1>8. PausedInPlace'
  BY DEF PausedInPlace, all_vcpus_paused, Listed, BqlAsserts, BqlLocations
<1>9. WorkAnnounced'  BY <1>2 DEF WorkAnnounced, RunLocations
<1>10. StopAnnounced'  BY <1>2 DEF StopAnnounced, RunLocations
<1>11. BlockInterrupted'  BY <1>2 DEF BlockInterrupted, BlockLocations, Asked
<1>12. HaltRight'  BY <1>2 DEF HaltRight, NothingAsked, Waiting, BqlAsserts, BqlLocations
<1> QED  BY <1>3, <1>4, <1>5, <1>6, <1>7, <1>8, <1>9, <1>10, <1>11, <1>12

\* A look at the queue of work.
LEMMA Step_process_queued_cpu_work ==
  ASSUME IInv, NEW c \in CPUs, process_queued_cpu_work(c)
  PROVE  IInv'
<1> USE ThreadsAssumption, RequestsAssumption
    DEF IInv, process_queued_cpu_work, At, Go, exclVars, kickVars, otherVars, Threads
<1>1. cpu' \in [CPUs -> CPUState]  BY DEF TypeOK
<1>2. ToCome' = ToCome /\ Kicked' = Kicked  BY DEF ToCome, Kicked
<1>3. TypeOK'
  <2>1. to_flush' \in [CPUs -> SUBSET CPUs] /\ running' \in BOOLEAN
    BY DEF TypeOK
  <2>2. /\ kicks' \in [Threads -> SUBSET CPUs] /\ half' \in [Threads -> CPUs \cup {None}]
        /\ \A u \in Threads : half'[u] \in kicks'[u] \cup {None}
    BY DEF TypeOK, KicksInPlace, KickLocations
  <2>3. /\ pc' \in [Threads -> CpuLocations \cup MainLocations]
        /\ pc'[Main] \in MainLocations /\ \A d \in CPUs : pc'[d] \in CpuLocations
    BY DEF TypeOK, GuestLocations, CpuLocations, MainLocations
  <2> QED  BY <1>1, <2>1, <2>2, <2>3 DEF TypeOK, CPUState
<1> USE DEF TypeOK, CPUState
<1>4. BqlAsserts'  BY DEF BqlAsserts, BqlLocations
<1>5. KicksInPlace'  BY DEF KicksInPlace, KickLocations
<1>6. StopsUnlessRunning'  BY DEF StopsUnlessRunning, Listed
<1>7. StoppedInPlace'  BY DEF StoppedInPlace, StoppedLocations
<1>8. PausedInPlace'
  BY DEF PausedInPlace, all_vcpus_paused, Listed, BqlAsserts, BqlLocations
<1>9. WorkAnnounced'  BY <1>2 DEF WorkAnnounced, RunLocations
<1>10. StopAnnounced'  BY <1>2 DEF StopAnnounced, RunLocations
<1>11. BlockInterrupted'  BY <1>2 DEF BlockInterrupted, BlockLocations, Asked
<1>12. HaltRight'  BY <1>2 DEF HaltRight, NothingAsked, Waiting, BqlAsserts, BqlLocations
<1> QED  BY <1>3, <1>4, <1>5, <1>6, <1>7, <1>8, <1>9, <1>10, <1>11, <1>12

\* One item less.
LEMMA Step_RunWork ==
  ASSUME IInv, NEW c \in CPUs, RunWork(c)
  PROVE  IInv'
<1>1. cpu' \in [CPUs -> CPUState]
  <2>1. Tail(cpu[c].work_list) \in Seq(WorkItem)
    BY ListTypes DEF IInv, TypeOK, RunWork, WorkItem
  <2>2. cpu' = [cpu EXCEPT ![c].work_list = Tail(cpu[c].work_list)]
    BY DEF RunWork, WorkItem
  <2> QED  BY <2>1, <2>2, ListTypes DEF IInv, TypeOK
<1> USE ThreadsAssumption, RequestsAssumption
    DEF IInv, RunWork, WorkItem, At, Go, exclVars, kickVars, otherVars, Threads
<1>2. ToCome' = ToCome /\ Kicked' = Kicked  BY DEF ToCome, Kicked
<1>3. TypeOK'
  <2>1. to_flush' \in [CPUs -> SUBSET CPUs] /\ running' \in BOOLEAN
    BY DEF TypeOK
  <2>2. /\ kicks' \in [Threads -> SUBSET CPUs] /\ half' \in [Threads -> CPUs \cup {None}]
        /\ \A u \in Threads : half'[u] \in kicks'[u] \cup {None}
    BY DEF TypeOK, KicksInPlace, KickLocations
  <2>3. /\ pc' \in [Threads -> CpuLocations \cup MainLocations]
        /\ pc'[Main] \in MainLocations /\ \A d \in CPUs : pc'[d] \in CpuLocations
    BY DEF TypeOK, GuestLocations, CpuLocations, MainLocations
  <2> QED  BY <1>1, <2>1, <2>2, <2>3 DEF TypeOK, CPUState
<1> USE DEF TypeOK, CPUState
<1>4. BqlAsserts'  BY DEF BqlAsserts, BqlLocations
<1>5. KicksInPlace'  BY DEF KicksInPlace, KickLocations
<1>6. StopsUnlessRunning'  BY DEF StopsUnlessRunning, Listed
<1>7. StoppedInPlace'  BY DEF StoppedInPlace, StoppedLocations
<1>8. PausedInPlace'
  BY DEF PausedInPlace, all_vcpus_paused, Listed, BqlAsserts, BqlLocations
<1>9. WorkAnnounced'  BY <1>2 DEF WorkAnnounced, RunLocations
<1>10. StopAnnounced'  BY <1>2 DEF StopAnnounced, RunLocations
<1>11. BlockInterrupted'  BY <1>2 DEF BlockInterrupted, BlockLocations, Asked
<1>12. HaltRight'  BY <1>2 DEF HaltRight, NothingAsked, Waiting, BqlAsserts, BqlLocations
<1> QED  BY <1>3, <1>4, <1>5, <1>6, <1>7, <1>8, <1>9, <1>10, <1>11, <1>12

\* One item less, to be run outside the BQL.
LEMMA Step_RunSafeWork ==
  ASSUME IInv, NEW c \in CPUs, RunSafeWork(c)
  PROVE  IInv'
<1>1. cpu' \in [CPUs -> CPUState]
  <2>1. Tail(cpu[c].work_list) \in Seq(WorkItem)
    BY ListTypes DEF IInv, TypeOK, RunSafeWork, WorkItem
  <2>2. cpu' = [cpu EXCEPT ![c].work_list = Tail(cpu[c].work_list)]
    BY DEF RunSafeWork, WorkItem
  <2> QED  BY <2>1, <2>2, ListTypes DEF IInv, TypeOK
<1> USE ThreadsAssumption, RequestsAssumption
    DEF IInv, RunSafeWork, WorkItem, At, Go, exclVars, kickVars, otherVars, Threads
<1>2. ToCome' = ToCome /\ Kicked' = Kicked  BY DEF ToCome, Kicked
<1>3. TypeOK'
  <2>1. to_flush' \in [CPUs -> SUBSET CPUs] /\ running' \in BOOLEAN
    BY DEF TypeOK
  <2>2. /\ kicks' \in [Threads -> SUBSET CPUs] /\ half' \in [Threads -> CPUs \cup {None}]
        /\ \A u \in Threads : half'[u] \in kicks'[u] \cup {None}
    BY DEF TypeOK, KicksInPlace, KickLocations
  <2>3. /\ pc' \in [Threads -> CpuLocations \cup MainLocations]
        /\ pc'[Main] \in MainLocations /\ \A d \in CPUs : pc'[d] \in CpuLocations
    BY DEF TypeOK, GuestLocations, CpuLocations, MainLocations
  <2> QED  BY <1>1, <2>1, <2>2, <2>3 DEF TypeOK, CPUState
<1> USE DEF TypeOK, CPUState
<1>4. BqlAsserts'  BY DEF BqlAsserts, BqlLocations
<1>5. KicksInPlace'  BY DEF KicksInPlace, KickLocations
<1>6. StopsUnlessRunning'  BY DEF StopsUnlessRunning, Listed
<1>7. StoppedInPlace'  BY DEF StoppedInPlace, StoppedLocations
<1>8. PausedInPlace'
  BY DEF PausedInPlace, all_vcpus_paused, Listed, BqlAsserts, BqlLocations
<1>9. WorkAnnounced'  BY <1>2 DEF WorkAnnounced, RunLocations
<1>10. StopAnnounced'  BY <1>2 DEF StopAnnounced, RunLocations
<1>11. BlockInterrupted'  BY <1>2 DEF BlockInterrupted, BlockLocations, Asked
<1>12. HaltRight'  BY <1>2 DEF HaltRight, NothingAsked, Waiting, BqlAsserts, BqlLocations
<1> QED  BY <1>3, <1>4, <1>5, <1>6, <1>7, <1>8, <1>9, <1>10, <1>11, <1>12

\* The queue is empty: the callers of run_on_cpu are woken.
LEMMA Step_WorkDone ==
  ASSUME IInv, NEW c \in CPUs, WorkDone(c)
  PROVE  IInv'
<1> USE ThreadsAssumption, RequestsAssumption
    DEF IInv, WorkDone, Waiting, At, Go, exclVars, kickVars, otherVars, Threads
<1>1. cpu' \in [CPUs -> CPUState]  BY DEF TypeOK
<1>2. ToCome' = ToCome /\ Kicked' = Kicked  BY DEF ToCome, Kicked
<1>3. TypeOK'
  <2>1. to_flush' \in [CPUs -> SUBSET CPUs] /\ running' \in BOOLEAN
    BY DEF TypeOK
  <2>2. /\ kicks' \in [Threads -> SUBSET CPUs] /\ half' \in [Threads -> CPUs \cup {None}]
        /\ \A u \in Threads : half'[u] \in kicks'[u] \cup {None}
    BY DEF TypeOK, KicksInPlace, KickLocations
  <2>3. /\ pc' \in [Threads -> CpuLocations \cup MainLocations]
        /\ pc'[Main] \in MainLocations /\ \A d \in CPUs : pc'[d] \in CpuLocations
    BY DEF TypeOK, GuestLocations, CpuLocations, MainLocations
  <2> QED  BY <1>1, <2>1, <2>2, <2>3 DEF TypeOK, CPUState
<1> USE DEF TypeOK, CPUState
<1>4. BqlAsserts'  BY DEF BqlAsserts, BqlLocations
<1>5. KicksInPlace'  BY DEF KicksInPlace, KickLocations
<1>6. StopsUnlessRunning'  BY DEF StopsUnlessRunning, Listed
<1>7. StoppedInPlace'  BY DEF StoppedInPlace, StoppedLocations
<1>8. PausedInPlace'
  BY DEF PausedInPlace, all_vcpus_paused, Listed, BqlAsserts, BqlLocations
<1>9. WorkAnnounced'  BY <1>2 DEF WorkAnnounced, RunLocations
<1>10. StopAnnounced'  BY <1>2 DEF StopAnnounced, RunLocations
<1>11. BlockInterrupted'  BY <1>2 DEF BlockInterrupted, BlockLocations, Asked
<1>12. HaltRight'  BY <1>2 DEF HaltRight, NothingAsked, Waiting, BqlAsserts, BqlLocations
<1> QED  BY <1>3, <1>4, <1>5, <1>6, <1>7, <1>8, <1>9, <1>10, <1>11, <1>12

\* Announcing an exclusive section kicks the vCPUs in guest code.
LEMMA Step_start_exclusive ==
  ASSUME IInv, NEW c \in CPUs, start_exclusive(c)
  PROVE  IInv'
<1> USE ThreadsAssumption, RequestsAssumption
    DEF IInv, start_exclusive, AfterStart, SectionPending, At, Go, exclVars, kickVars,
        otherVars, Threads
<1>1. cpu' \in [CPUs -> CPUState]  BY DEF TypeOK
<1>0. kicks[c] = {}  BY DEF KicksInPlace, KickLocations
<1>2. ToCome' = ToCome \cup (sharers) /\ Kicked' = Kicked \cup (sharers)
  <2>1. (sharers) \in SUBSET CPUs  BY DEF TypeOK
  <2> QED  BY <1>0, <2>1, NewKicks
<1>3. TypeOK'
  <2>1. to_flush' \in [CPUs -> SUBSET CPUs] /\ running' \in BOOLEAN
    BY DEF TypeOK
  <2>2. /\ kicks' \in [Threads -> SUBSET CPUs] /\ half' \in [Threads -> CPUs \cup {None}]
        /\ \A u \in Threads : half'[u] \in kicks'[u] \cup {None}
    BY DEF TypeOK, KicksInPlace, KickLocations
  <2>3. /\ pc' \in [Threads -> CpuLocations \cup MainLocations]
        /\ pc'[Main] \in MainLocations /\ \A d \in CPUs : pc'[d] \in CpuLocations
    BY DEF TypeOK, GuestLocations, CpuLocations, MainLocations
  <2> QED  BY <1>1, <2>1, <2>2, <2>3 DEF TypeOK, CPUState
<1> USE DEF TypeOK, CPUState
<1>4. BqlAsserts'  BY DEF BqlAsserts, BqlLocations
<1>5. KicksInPlace'  BY DEF KicksInPlace, KickLocations
<1>6. StopsUnlessRunning'  BY DEF StopsUnlessRunning, Listed
<1>7. StoppedInPlace'  BY DEF StoppedInPlace, StoppedLocations
<1>8. PausedInPlace'
  BY DEF PausedInPlace, all_vcpus_paused, Listed, BqlAsserts, BqlLocations
<1>9. WorkAnnounced'  BY <1>2 DEF WorkAnnounced, RunLocations
<1>10. StopAnnounced'  BY <1>2 DEF StopAnnounced, RunLocations
<1>11. BlockInterrupted'  BY <1>2 DEF BlockInterrupted, BlockLocations, Asked
<1>12. HaltRight'  BY <1>2 DEF HaltRight, NothingAsked, Waiting, BqlAsserts, BqlLocations
<1> QED  BY <1>3, <1>4, <1>5, <1>6, <1>7, <1>8, <1>9, <1>10, <1>11, <1>12

\* The section begins.
LEMMA Step_SectionEntered ==
  ASSUME IInv, NEW c \in CPUs, SectionEntered(c)
  PROVE  IInv'
<1> USE ThreadsAssumption, RequestsAssumption
    DEF IInv, SectionEntered, AfterAcquire, Excl!Acquire, At, Go, exclVars, kickVars,
        otherVars, Threads
<1>1. cpu' \in [CPUs -> CPUState]  BY DEF TypeOK
<1>2. ToCome' = ToCome /\ Kicked' = Kicked  BY DEF ToCome, Kicked
<1>3. TypeOK'
  <2>1. to_flush' \in [CPUs -> SUBSET CPUs] /\ running' \in BOOLEAN
    BY DEF TypeOK
  <2>2. /\ kicks' \in [Threads -> SUBSET CPUs] /\ half' \in [Threads -> CPUs \cup {None}]
        /\ \A u \in Threads : half'[u] \in kicks'[u] \cup {None}
    BY DEF TypeOK, KicksInPlace, KickLocations
  <2>3. /\ pc' \in [Threads -> CpuLocations \cup MainLocations]
        /\ pc'[Main] \in MainLocations /\ \A d \in CPUs : pc'[d] \in CpuLocations
    BY DEF TypeOK, GuestLocations, CpuLocations, MainLocations
  <2> QED  BY <1>1, <2>1, <2>2, <2>3 DEF TypeOK, CPUState
<1> USE DEF TypeOK, CPUState
<1>4. BqlAsserts'  BY DEF BqlAsserts, BqlLocations
<1>5. KicksInPlace'  BY DEF KicksInPlace, KickLocations
<1>6. StopsUnlessRunning'  BY DEF StopsUnlessRunning, Listed
<1>7. StoppedInPlace'  BY DEF StoppedInPlace, StoppedLocations
<1>8. PausedInPlace'
  BY DEF PausedInPlace, all_vcpus_paused, Listed, BqlAsserts, BqlLocations
<1>9. WorkAnnounced'  BY <1>2 DEF WorkAnnounced, RunLocations
<1>10. StopAnnounced'  BY <1>2 DEF StopAnnounced, RunLocations
<1>11. BlockInterrupted'  BY <1>2 DEF BlockInterrupted, BlockLocations, Asked
<1>12. HaltRight'  BY <1>2 DEF HaltRight, NothingAsked, Waiting, BqlAsserts, BqlLocations
<1> QED  BY <1>3, <1>4, <1>5, <1>6, <1>7, <1>8, <1>9, <1>10, <1>11, <1>12

\* The section ends.
LEMMA Step_end_exclusive ==
  ASSUME IInv, NEW c \in CPUs, end_exclusive(c)
  PROVE  IInv'
<1> USE ThreadsAssumption, RequestsAssumption
    DEF IInv, end_exclusive, AfterEnd, Excl!Release, At, Go, exclVars, kickVars,
        otherVars, Threads
<1>1. cpu' \in [CPUs -> CPUState]  BY DEF TypeOK
<1>2. ToCome' = ToCome /\ Kicked' = Kicked  BY DEF ToCome, Kicked
<1>3. TypeOK'
  <2>1. to_flush' \in [CPUs -> SUBSET CPUs] /\ running' \in BOOLEAN
    BY DEF TypeOK
  <2>2. /\ kicks' \in [Threads -> SUBSET CPUs] /\ half' \in [Threads -> CPUs \cup {None}]
        /\ \A u \in Threads : half'[u] \in kicks'[u] \cup {None}
    BY DEF TypeOK, KicksInPlace, KickLocations
  <2>3. /\ pc' \in [Threads -> CpuLocations \cup MainLocations]
        /\ pc'[Main] \in MainLocations /\ \A d \in CPUs : pc'[d] \in CpuLocations
    BY DEF TypeOK, GuestLocations, CpuLocations, MainLocations
  <2> QED  BY <1>1, <2>1, <2>2, <2>3 DEF TypeOK, CPUState
<1> USE DEF TypeOK, CPUState
<1>4. BqlAsserts'  BY DEF BqlAsserts, BqlLocations
<1>5. KicksInPlace'  BY DEF KicksInPlace, KickLocations
<1>6. StopsUnlessRunning'  BY DEF StopsUnlessRunning, Listed
<1>7. StoppedInPlace'  BY DEF StoppedInPlace, StoppedLocations
<1>8. PausedInPlace'
  BY DEF PausedInPlace, all_vcpus_paused, Listed, BqlAsserts, BqlLocations
<1>9. WorkAnnounced'  BY <1>2 DEF WorkAnnounced, RunLocations
<1>10. StopAnnounced'  BY <1>2 DEF StopAnnounced, RunLocations
<1>11. BlockInterrupted'  BY <1>2 DEF BlockInterrupted, BlockLocations, Asked
<1>12. HaltRight'  BY <1>2 DEF HaltRight, NothingAsked, Waiting, BqlAsserts, BqlLocations
<1> QED  BY <1>3, <1>4, <1>5, <1>6, <1>7, <1>8, <1>9, <1>10, <1>11, <1>12

\* EXCP_ATOMIC drops the BQL.
LEMMA Step_ExcpAtomic ==
  ASSUME IInv, NEW c \in CPUs, ExcpAtomic(c)
  PROVE  IInv'
<1> USE ThreadsAssumption, RequestsAssumption
    DEF IInv, ExcpAtomic, At, Go, exclVars, kickVars, otherVars, Threads
<1>1. cpu' \in [CPUs -> CPUState]  BY DEF TypeOK
<1>2. ToCome' = ToCome /\ Kicked' = Kicked  BY DEF ToCome, Kicked
<1>3. TypeOK'
  <2>1. to_flush' \in [CPUs -> SUBSET CPUs] /\ running' \in BOOLEAN
    BY DEF TypeOK
  <2>2. /\ kicks' \in [Threads -> SUBSET CPUs] /\ half' \in [Threads -> CPUs \cup {None}]
        /\ \A u \in Threads : half'[u] \in kicks'[u] \cup {None}
    BY DEF TypeOK, KicksInPlace, KickLocations
  <2>3. /\ pc' \in [Threads -> CpuLocations \cup MainLocations]
        /\ pc'[Main] \in MainLocations /\ \A d \in CPUs : pc'[d] \in CpuLocations
    BY DEF TypeOK, GuestLocations, CpuLocations, MainLocations
  <2> QED  BY <1>1, <2>1, <2>2, <2>3 DEF TypeOK, CPUState
<1> USE DEF TypeOK, CPUState
<1>4. BqlAsserts'  BY DEF BqlAsserts, BqlLocations
<1>5. KicksInPlace'  BY DEF KicksInPlace, KickLocations
<1>6. StopsUnlessRunning'  BY DEF StopsUnlessRunning, Listed
<1>7. StoppedInPlace'  BY DEF StoppedInPlace, StoppedLocations
<1>8. PausedInPlace'
  BY DEF PausedInPlace, all_vcpus_paused, Listed, BqlAsserts, BqlLocations
<1>9. WorkAnnounced'  BY <1>2 DEF WorkAnnounced, RunLocations
<1>10. StopAnnounced'  BY <1>2 DEF StopAnnounced, RunLocations
<1>11. BlockInterrupted'  BY <1>2 DEF BlockInterrupted, BlockLocations, Asked
<1>12. HaltRight'  BY <1>2 DEF HaltRight, NothingAsked, Waiting, BqlAsserts, BqlLocations
<1> QED  BY <1>3, <1>4, <1>5, <1>6, <1>7, <1>8, <1>9, <1>10, <1>11, <1>12

\* Into guest code.
LEMMA Step_cpu_exec_start ==
  ASSUME IInv, NEW c \in CPUs, cpu_exec_start(c)
  PROVE  IInv'
<1> USE ThreadsAssumption, RequestsAssumption
    DEF IInv, cpu_exec_start, SectionPending, Excl!Enter, At, Go, exclVars, kickVars,
        otherVars, Threads
<1>1. cpu' \in [CPUs -> CPUState]  BY DEF TypeOK
<1>2. ToCome' = ToCome /\ Kicked' = Kicked  BY DEF ToCome, Kicked
<1>3. TypeOK'
  <2>1. to_flush' \in [CPUs -> SUBSET CPUs] /\ running' \in BOOLEAN
    BY DEF TypeOK
  <2>2. /\ kicks' \in [Threads -> SUBSET CPUs] /\ half' \in [Threads -> CPUs \cup {None}]
        /\ \A u \in Threads : half'[u] \in kicks'[u] \cup {None}
    BY DEF TypeOK, KicksInPlace, KickLocations
  <2>3. /\ pc' \in [Threads -> CpuLocations \cup MainLocations]
        /\ pc'[Main] \in MainLocations /\ \A d \in CPUs : pc'[d] \in CpuLocations
    BY DEF TypeOK, GuestLocations, CpuLocations, MainLocations
  <2> QED  BY <1>1, <2>1, <2>2, <2>3 DEF TypeOK, CPUState
<1> USE DEF TypeOK, CPUState
<1>4. BqlAsserts'  BY DEF BqlAsserts, BqlLocations
<1>5. KicksInPlace'  BY DEF KicksInPlace, KickLocations
<1>6. StopsUnlessRunning'  BY DEF StopsUnlessRunning, Listed
<1>7. StoppedInPlace'  BY DEF StoppedInPlace, StoppedLocations
<1>8. PausedInPlace'
  BY DEF PausedInPlace, all_vcpus_paused, Listed, BqlAsserts, BqlLocations
<1>9. WorkAnnounced'  BY <1>2 DEF WorkAnnounced, RunLocations
<1>10. StopAnnounced'  BY <1>2 DEF StopAnnounced, RunLocations
<1>11. BlockInterrupted'  BY <1>2 DEF BlockInterrupted, BlockLocations, Asked
<1>12. HaltRight'  BY <1>2 DEF HaltRight, NothingAsked, Waiting, BqlAsserts, BqlLocations
<1> QED  BY <1>3, <1>4, <1>5, <1>6, <1>7, <1>8, <1>9, <1>10, <1>11, <1>12

\* A halted vCPU leaves again.
LEMMA Step_cpu_handle_halt ==
  ASSUME IInv, NEW c \in CPUs, cpu_handle_halt(c)
  PROVE  IInv'
<1>1. ASSUME cpu[c].halted /\ ~cpu[c].has_work PROVE IInv'
  <2>1. /\ pc[c] = "exec_entry" /\ pc' = [pc EXCEPT ![c] = "exec_lock"]
        /\ UNCHANGED cpu /\ sharers' = sharers \ {c}
        /\ UNCHANGED <<bql, done, kicks, half, to_flush, running, paused, requests, owner>>
        /\ UNCHANGED asleep
      BY <1>1
      DEF cpu_handle_halt, LeaveGuest, Excl!Leave, At, Go, exclVars, kickVars, otherVars
  <2>2. cpu' \in [CPUs -> CPUState]  BY <2>1 DEF IInv, TypeOK
  <2>3. ToCome' = ToCome /\ Kicked' = Kicked  BY <2>1 DEF ToCome, Kicked
  <2> HIDE <1>1
  <2> USE ThreadsAssumption DEF IInv, Threads
  <2>4. TypeOK'
    BY <2>1, <2>2 DEF TypeOK, CPUState, GuestLocations, CpuLocations, MainLocations
  <2> USE DEF TypeOK, CPUState
  <2>5. BqlAsserts'  BY <2>1 DEF BqlAsserts, BqlLocations
  <2>6. KicksInPlace' /\ StopsUnlessRunning'
    BY <2>1 DEF KicksInPlace, KickLocations, StopsUnlessRunning, Listed
  <2>7. StoppedInPlace'  BY <2>1 DEF StoppedInPlace, StoppedLocations
  <2>8. PausedInPlace'  BY <2>1 DEF PausedInPlace, all_vcpus_paused, Listed
  <2>9. WorkAnnounced'  BY <2>1, <2>3 DEF WorkAnnounced, RunLocations
  <2>10. StopAnnounced'  BY <2>1, <2>3 DEF StopAnnounced, RunLocations
  <2>11. BlockInterrupted'  BY <2>1, <2>3 DEF BlockInterrupted, BlockLocations, Asked
  <2>12. HaltRight'  BY <2>1, <2>3 DEF HaltRight, NothingAsked
  <2> QED  BY <2>4, <2>5, <2>6, <2>7, <2>8, <2>9, <2>10, <2>11, <2>12
<1>2. ASSUME ~(cpu[c].halted /\ ~cpu[c].has_work) PROVE IInv'
  <2>1. /\ pc[c] = "exec_entry" /\ pc' = [pc EXCEPT ![c] = "handle"]
        /\ cpu' = [cpu EXCEPT ![c].halted = FALSE] /\ UNCHANGED sharers
        /\ UNCHANGED <<bql, done, kicks, half, to_flush, running, paused, requests, owner>>
        /\ UNCHANGED asleep
      BY <1>2
      DEF cpu_handle_halt, LeaveGuest, Excl!Leave, At, Go, exclVars, kickVars, otherVars
  <2>2. cpu' \in [CPUs -> CPUState]  BY <2>1, FlagTypes DEF IInv, TypeOK
  <2>3. ToCome' = ToCome /\ Kicked' = Kicked  BY <2>1 DEF ToCome, Kicked
  <2> HIDE <1>2
  <2> USE ThreadsAssumption DEF IInv, Threads
  <2>4. TypeOK'
    BY <2>1, <2>2 DEF TypeOK, CPUState, GuestLocations, CpuLocations, MainLocations
  <2> USE DEF TypeOK, CPUState
  <2>5. BqlAsserts'  BY <2>1 DEF BqlAsserts, BqlLocations
  <2>6. KicksInPlace' /\ StopsUnlessRunning'
    BY <2>1 DEF KicksInPlace, KickLocations, StopsUnlessRunning, Listed
  <2>7. StoppedInPlace'  BY <2>1 DEF StoppedInPlace, StoppedLocations
  <2>8. PausedInPlace'  BY <2>1 DEF PausedInPlace, all_vcpus_paused, Listed
  <2>9. WorkAnnounced'  BY <2>1, <2>3 DEF WorkAnnounced, RunLocations
  <2>10. StopAnnounced'  BY <2>1, <2>3 DEF StopAnnounced, RunLocations
  <2>11. BlockInterrupted'  BY <2>1, <2>3 DEF BlockInterrupted, BlockLocations, Asked
  <2>12. HaltRight'  BY <2>1, <2>3 DEF HaltRight, NothingAsked
  <2> QED  BY <2>4, <2>5, <2>6, <2>7, <2>8, <2>9, <2>10, <2>11, <2>12
<1> QED  BY <1>1, <1>2

\* Clearing icount_decr.u16.high: exit_request is looked at after it.
LEMMA Step_cpu_handle_interrupt ==
  ASSUME IInv, NEW c \in CPUs, cpu_handle_interrupt(c)
  PROVE  IInv'
<1>1. cpu' \in [CPUs -> CPUState]  BY FlagTypes DEF IInv, TypeOK, cpu_handle_interrupt
<1> USE ThreadsAssumption, RequestsAssumption
    DEF IInv, cpu_handle_interrupt, At, Go, exclVars, kickVars, otherVars, Threads
<1>2. ToCome' = ToCome /\ Kicked' = Kicked  BY DEF ToCome, Kicked
<1>3. TypeOK'
  <2>1. to_flush' \in [CPUs -> SUBSET CPUs] /\ running' \in BOOLEAN
    BY DEF TypeOK
  <2>2. /\ kicks' \in [Threads -> SUBSET CPUs] /\ half' \in [Threads -> CPUs \cup {None}]
        /\ \A u \in Threads : half'[u] \in kicks'[u] \cup {None}
    BY DEF TypeOK, KicksInPlace, KickLocations
  <2>3. /\ pc' \in [Threads -> CpuLocations \cup MainLocations]
        /\ pc'[Main] \in MainLocations /\ \A d \in CPUs : pc'[d] \in CpuLocations
    BY DEF TypeOK, GuestLocations, CpuLocations, MainLocations
  <2> QED  BY <1>1, <2>1, <2>2, <2>3 DEF TypeOK, CPUState
<1> USE DEF TypeOK, CPUState
<1>4. BqlAsserts'  BY DEF BqlAsserts, BqlLocations
<1>5. KicksInPlace'  BY DEF KicksInPlace, KickLocations
<1>6. StopsUnlessRunning'  BY DEF StopsUnlessRunning, Listed
<1>7. StoppedInPlace'  BY DEF StoppedInPlace, StoppedLocations
<1>8. PausedInPlace'
  BY DEF PausedInPlace, all_vcpus_paused, Listed, BqlAsserts, BqlLocations
<1>9. WorkAnnounced'  BY <1>2 DEF WorkAnnounced, RunLocations
<1>10. StopAnnounced'  BY <1>2 DEF StopAnnounced, RunLocations
<1>11. BlockInterrupted'  BY <1>2 DEF BlockInterrupted, BlockLocations, Asked
<1>12. HaltRight'  BY <1>2 DEF HaltRight, NothingAsked, Waiting, BqlAsserts, BqlLocations
<1> QED  BY <1>3, <1>4, <1>5, <1>6, <1>7, <1>8, <1>9, <1>10, <1>11, <1>12

\* An interrupt is delivered.
LEMMA Step_DeliverIrq ==
  ASSUME IInv, NEW c \in CPUs, DeliverIrq(c)
  PROVE  IInv'
<1>1. cpu' \in [CPUs -> CPUState]
  <2>1. PICK b \in BOOLEAN : cpu' = [cpu EXCEPT ![c].has_work = b]
    BY DEF DeliverIrq, IInv, TypeOK, CPUState
  <2> QED  BY <2>1, FlagTypes DEF IInv, TypeOK
<1> USE ThreadsAssumption, RequestsAssumption
    DEF IInv, DeliverIrq, At, Go, exclVars, kickVars, otherVars, Threads
<1>2. ToCome' = ToCome /\ Kicked' = Kicked  BY DEF ToCome, Kicked
<1>3. TypeOK'
  <2>1. to_flush' \in [CPUs -> SUBSET CPUs] /\ running' \in BOOLEAN
    BY DEF TypeOK
  <2>2. /\ kicks' \in [Threads -> SUBSET CPUs] /\ half' \in [Threads -> CPUs \cup {None}]
        /\ \A u \in Threads : half'[u] \in kicks'[u] \cup {None}
    BY DEF TypeOK, KicksInPlace, KickLocations
  <2>3. /\ pc' \in [Threads -> CpuLocations \cup MainLocations]
        /\ pc'[Main] \in MainLocations /\ \A d \in CPUs : pc'[d] \in CpuLocations
    BY DEF TypeOK, GuestLocations, CpuLocations, MainLocations
  <2> QED  BY <1>1, <2>1, <2>2, <2>3 DEF TypeOK, CPUState
<1> USE DEF TypeOK, CPUState
<1>4. BqlAsserts'  BY DEF BqlAsserts, BqlLocations
<1>5. KicksInPlace'  BY DEF KicksInPlace, KickLocations
<1>6. StopsUnlessRunning'  BY DEF StopsUnlessRunning, Listed
<1>7. StoppedInPlace'  BY DEF StoppedInPlace, StoppedLocations
<1>8. PausedInPlace'
  BY DEF PausedInPlace, all_vcpus_paused, Listed, BqlAsserts, BqlLocations
<1>9. WorkAnnounced'  BY <1>2 DEF WorkAnnounced, RunLocations
<1>10. StopAnnounced'  BY <1>2 DEF StopAnnounced, RunLocations
<1>11. BlockInterrupted'  BY <1>2 DEF BlockInterrupted, BlockLocations, Asked
<1>12. HaltRight'  BY <1>2 DEF HaltRight, NothingAsked, Waiting, BqlAsserts, BqlLocations
<1> QED  BY <1>3, <1>4, <1>5, <1>6, <1>7, <1>8, <1>9, <1>10, <1>11, <1>12

\* An interrupt halts the vCPU.
LEMMA Step_IrqHalt ==
  ASSUME IInv, NEW c \in CPUs, IrqHalt(c)
  PROVE  IInv'
<1>1. cpu' \in [CPUs -> CPUState]
  <2>1. cpu \in [CPUs -> CPUState] BY DEF IInv, TypeOK
  <2> QED  BY <2>1, FlagTypes DEF IrqHalt, CPUState
<1> USE ThreadsAssumption, RequestsAssumption
    DEF IInv, IrqHalt, LeaveGuest, Excl!Leave, At, Go, exclVars, kickVars, otherVars, Threads
<1>2. ToCome' = ToCome /\ Kicked' = Kicked  BY DEF ToCome, Kicked
<1>3. TypeOK'
  <2>1. to_flush' \in [CPUs -> SUBSET CPUs] /\ running' \in BOOLEAN
    BY DEF TypeOK
  <2>2. /\ kicks' \in [Threads -> SUBSET CPUs] /\ half' \in [Threads -> CPUs \cup {None}]
        /\ \A u \in Threads : half'[u] \in kicks'[u] \cup {None}
    BY DEF TypeOK, KicksInPlace, KickLocations
  <2>3. /\ pc' \in [Threads -> CpuLocations \cup MainLocations]
        /\ pc'[Main] \in MainLocations /\ \A d \in CPUs : pc'[d] \in CpuLocations
    BY DEF TypeOK, GuestLocations, CpuLocations, MainLocations
  <2> QED  BY <1>1, <2>1, <2>2, <2>3 DEF TypeOK, CPUState
<1> USE DEF TypeOK, CPUState
<1>4. BqlAsserts'  BY DEF BqlAsserts, BqlLocations
<1>5. KicksInPlace'  BY DEF KicksInPlace, KickLocations
<1>6. StopsUnlessRunning'  BY DEF StopsUnlessRunning, Listed
<1>7. StoppedInPlace'  BY DEF StoppedInPlace, StoppedLocations
<1>8. PausedInPlace'
  BY DEF PausedInPlace, all_vcpus_paused, Listed, BqlAsserts, BqlLocations
<1>9. WorkAnnounced'  BY <1>2 DEF WorkAnnounced, RunLocations
<1>10. StopAnnounced'  BY <1>2 DEF StopAnnounced, RunLocations
<1>11. BlockInterrupted'  BY <1>2 DEF BlockInterrupted, BlockLocations, Asked
<1>12. HaltRight'  BY <1>2 DEF HaltRight, NothingAsked, Waiting, BqlAsserts, BqlLocations
<1> QED  BY <1>3, <1>4, <1>5, <1>6, <1>7, <1>8, <1>9, <1>10, <1>11, <1>12

\* An interrupt resets the vCPU.
LEMMA Step_IrqReset ==
  ASSUME IInv, NEW c \in CPUs, IrqReset(c)
  PROVE  IInv'
<1>1. cpu' \in [CPUs -> CPUState]
  <2>1. cpu \in [CPUs -> CPUState] BY DEF IInv, TypeOK
  <2> QED  BY <2>1, FlagTypes DEF IrqReset, CPUState
<1> USE ThreadsAssumption, RequestsAssumption
    DEF IInv, IrqReset, At, Go, exclVars, kickVars, otherVars, Threads
<1>2. ToCome' = ToCome /\ Kicked' = Kicked  BY DEF ToCome, Kicked
<1>3. TypeOK'
  <2>1. to_flush' \in [CPUs -> SUBSET CPUs] /\ running' \in BOOLEAN
    BY DEF TypeOK
  <2>2. /\ kicks' \in [Threads -> SUBSET CPUs] /\ half' \in [Threads -> CPUs \cup {None}]
        /\ \A u \in Threads : half'[u] \in kicks'[u] \cup {None}
    BY DEF TypeOK, KicksInPlace, KickLocations
  <2>3. /\ pc' \in [Threads -> CpuLocations \cup MainLocations]
        /\ pc'[Main] \in MainLocations /\ \A d \in CPUs : pc'[d] \in CpuLocations
    BY DEF TypeOK, GuestLocations, CpuLocations, MainLocations
  <2> QED  BY <1>1, <2>1, <2>2, <2>3 DEF TypeOK, CPUState
<1> USE DEF TypeOK, CPUState
<1>4. BqlAsserts'  BY DEF BqlAsserts, BqlLocations
<1>5. KicksInPlace'  BY DEF KicksInPlace, KickLocations
<1>6. StopsUnlessRunning'  BY DEF StopsUnlessRunning, Listed
<1>7. StoppedInPlace'  BY DEF StoppedInPlace, StoppedLocations
<1>8. PausedInPlace'
  BY DEF PausedInPlace, all_vcpus_paused, Listed, BqlAsserts, BqlLocations
<1>9. WorkAnnounced'  BY <1>2 DEF WorkAnnounced, RunLocations
<1>10. StopAnnounced'  BY <1>2 DEF StopAnnounced, RunLocations
<1>11. BlockInterrupted'  BY <1>2 DEF BlockInterrupted, BlockLocations, Asked
<1>12. HaltRight'  BY <1>2 DEF HaltRight, NothingAsked, Waiting, BqlAsserts, BqlLocations
<1> QED  BY <1>3, <1>4, <1>5, <1>6, <1>7, <1>8, <1>9, <1>10, <1>11, <1>12

\* exit_request is looked at: if it is clear, a kick is still to come.
LEMMA Step_CheckExitRequest ==
  ASSUME IInv, NEW c \in CPUs, CheckExitRequest(c)
  PROVE  IInv'
<1>1. ASSUME cpu[c].exit_request PROVE IInv'
  <2>1. /\ pc[c] = "check" /\ pc' = [pc EXCEPT ![c] = "exec_lock"]
        /\ cpu' = [cpu EXCEPT ![c].exit_request = FALSE] /\ sharers' = sharers \ {c}
        /\ UNCHANGED <<bql, done, kicks, half, to_flush, running, paused, requests, owner>>
        /\ UNCHANGED asleep
      BY <1>1
      DEF CheckExitRequest, LeaveGuest, Excl!Leave, At, Go, exclVars, kickVars, otherVars
  <2>2. cpu' \in [CPUs -> CPUState]  BY <2>1, FlagTypes DEF IInv, TypeOK
  <2>3. ToCome' = ToCome /\ Kicked' = Kicked  BY <2>1 DEF ToCome, Kicked
  <2> HIDE <1>1
  <2> USE ThreadsAssumption DEF IInv, Threads
  <2>4. TypeOK'
    BY <2>1, <2>2 DEF TypeOK, CPUState, GuestLocations, CpuLocations, MainLocations
  <2> USE DEF TypeOK, CPUState
  <2>5. BqlAsserts'  BY <2>1 DEF BqlAsserts, BqlLocations
  <2>6. KicksInPlace' /\ StopsUnlessRunning'
    BY <2>1 DEF KicksInPlace, KickLocations, StopsUnlessRunning, Listed
  <2>7. StoppedInPlace'  BY <2>1 DEF StoppedInPlace, StoppedLocations
  <2>8. PausedInPlace'  BY <2>1 DEF PausedInPlace, all_vcpus_paused, Listed
  <2>9. WorkAnnounced'  BY <2>1, <2>3 DEF WorkAnnounced, RunLocations
  <2>10. StopAnnounced'  BY <2>1, <2>3 DEF StopAnnounced, RunLocations
  <2>11. BlockInterrupted'  BY <2>1, <2>3 DEF BlockInterrupted, BlockLocations, Asked
  <2>12. HaltRight'  BY <2>1, <2>3 DEF HaltRight, NothingAsked
  <2> QED  BY <2>4, <2>5, <2>6, <2>7, <2>8, <2>9, <2>10, <2>11, <2>12
<1>2. ASSUME ~cpu[c].exit_request PROVE IInv'
  <2>1. /\ pc[c] = "check" /\ pc' = [pc EXCEPT ![c] = "tb"]
        /\ ~cpu[c].exit_request /\ UNCHANGED <<cpu, sharers>>
        /\ UNCHANGED <<bql, done, kicks, half, to_flush, running, paused, requests, owner>>
        /\ UNCHANGED asleep
      BY <1>2
      DEF CheckExitRequest, LeaveGuest, Excl!Leave, At, Go, exclVars, kickVars, otherVars
  <2>2. cpu' \in [CPUs -> CPUState]  BY <2>1 DEF IInv, TypeOK
  <2>3. ToCome' = ToCome /\ Kicked' = Kicked  BY <2>1 DEF ToCome, Kicked
  <2> HIDE <1>2
  <2> USE ThreadsAssumption DEF IInv, Threads
  <2>4. TypeOK'
    BY <2>1, <2>2 DEF TypeOK, CPUState, GuestLocations, CpuLocations, MainLocations
  <2> USE DEF TypeOK, CPUState
  <2>5. BqlAsserts'  BY <2>1 DEF BqlAsserts, BqlLocations
  <2>6. KicksInPlace' /\ StopsUnlessRunning'
    BY <2>1 DEF KicksInPlace, KickLocations, StopsUnlessRunning, Listed
  <2>7. StoppedInPlace'  BY <2>1 DEF StoppedInPlace, StoppedLocations
  <2>8. PausedInPlace'  BY <2>1 DEF PausedInPlace, all_vcpus_paused, Listed
  <2>9. WorkAnnounced'  BY <2>1, <2>3 DEF WorkAnnounced, RunLocations
  <2>10. StopAnnounced'  BY <2>1, <2>3 DEF StopAnnounced, RunLocations
  <2>11. BlockInterrupted'
    BY <2>1, <2>3 DEF BlockInterrupted, BlockLocations, Asked, WorkAnnounced,
             StopAnnounced, RunLocations, ToCome, Kicked
  <2>12. HaltRight'  BY <2>1, <2>3 DEF HaltRight, NothingAsked
  <2> QED  BY <2>4, <2>5, <2>6, <2>7, <2>8, <2>9, <2>10, <2>11, <2>12
<1> QED  BY <1>1, <1>2

\* A block ends.
LEMMA Step_TbExit ==
  ASSUME IInv, NEW c \in CPUs, TbExit(c)
  PROVE  IInv'
<1> USE ThreadsAssumption, RequestsAssumption
    DEF IInv, TbExit, At, Go, exclVars, kickVars, otherVars, Threads
<1>1. cpu' \in [CPUs -> CPUState]  BY DEF TypeOK
<1>2. ToCome' = ToCome /\ Kicked' = Kicked  BY DEF ToCome, Kicked
<1>3. TypeOK'
  <2>1. to_flush' \in [CPUs -> SUBSET CPUs] /\ running' \in BOOLEAN
    BY DEF TypeOK
  <2>2. /\ kicks' \in [Threads -> SUBSET CPUs] /\ half' \in [Threads -> CPUs \cup {None}]
        /\ \A u \in Threads : half'[u] \in kicks'[u] \cup {None}
    BY DEF TypeOK, KicksInPlace, KickLocations
  <2>3. /\ pc' \in [Threads -> CpuLocations \cup MainLocations]
        /\ pc'[Main] \in MainLocations /\ \A d \in CPUs : pc'[d] \in CpuLocations
    BY DEF TypeOK, GuestLocations, CpuLocations, MainLocations
  <2> QED  BY <1>1, <2>1, <2>2, <2>3 DEF TypeOK, CPUState
<1> USE DEF TypeOK, CPUState
<1>4. BqlAsserts'  BY DEF BqlAsserts, BqlLocations
<1>5. KicksInPlace'  BY DEF KicksInPlace, KickLocations
<1>6. StopsUnlessRunning'  BY DEF StopsUnlessRunning, Listed
<1>7. StoppedInPlace'  BY DEF StoppedInPlace, StoppedLocations
<1>8. PausedInPlace'
  BY DEF PausedInPlace, all_vcpus_paused, Listed, BqlAsserts, BqlLocations
<1>9. WorkAnnounced'  BY <1>2 DEF WorkAnnounced, RunLocations
<1>10. StopAnnounced'  BY <1>2 DEF StopAnnounced, RunLocations
<1>11. BlockInterrupted'  BY <1>2 DEF BlockInterrupted, BlockLocations, Asked
<1>12. HaltRight'  BY <1>2 DEF HaltRight, NothingAsked, Waiting, BqlAsserts, BqlLocations
<1> QED  BY <1>3, <1>4, <1>5, <1>6, <1>7, <1>8, <1>9, <1>10, <1>11, <1>12

\* The guest halts.
LEMMA Step_GuestHalt ==
  ASSUME IInv, NEW c \in CPUs, GuestHalt(c)
  PROVE  IInv'
<1>1. cpu' \in [CPUs -> CPUState]  BY FlagTypes DEF IInv, TypeOK, GuestHalt
<1> USE ThreadsAssumption, RequestsAssumption
    DEF IInv, GuestHalt, LeaveGuest, Excl!Leave, At, Go, exclVars, kickVars, otherVars,
        Threads
<1>2. ToCome' = ToCome /\ Kicked' = Kicked  BY DEF ToCome, Kicked
<1>3. TypeOK'
  <2>1. to_flush' \in [CPUs -> SUBSET CPUs] /\ running' \in BOOLEAN
    BY DEF TypeOK
  <2>2. /\ kicks' \in [Threads -> SUBSET CPUs] /\ half' \in [Threads -> CPUs \cup {None}]
        /\ \A u \in Threads : half'[u] \in kicks'[u] \cup {None}
    BY DEF TypeOK, KicksInPlace, KickLocations
  <2>3. /\ pc' \in [Threads -> CpuLocations \cup MainLocations]
        /\ pc'[Main] \in MainLocations /\ \A d \in CPUs : pc'[d] \in CpuLocations
    BY DEF TypeOK, GuestLocations, CpuLocations, MainLocations
  <2> QED  BY <1>1, <2>1, <2>2, <2>3 DEF TypeOK, CPUState
<1> USE DEF TypeOK, CPUState
<1>4. BqlAsserts'  BY DEF BqlAsserts, BqlLocations
<1>5. KicksInPlace'  BY DEF KicksInPlace, KickLocations
<1>6. StopsUnlessRunning'  BY DEF StopsUnlessRunning, Listed
<1>7. StoppedInPlace'  BY DEF StoppedInPlace, StoppedLocations
<1>8. PausedInPlace'
  BY DEF PausedInPlace, all_vcpus_paused, Listed, BqlAsserts, BqlLocations
<1>9. WorkAnnounced'  BY <1>2 DEF WorkAnnounced, RunLocations
<1>10. StopAnnounced'  BY <1>2 DEF StopAnnounced, RunLocations
<1>11. BlockInterrupted'  BY <1>2 DEF BlockInterrupted, BlockLocations, Asked
<1>12. HaltRight'  BY <1>2 DEF HaltRight, NothingAsked, Waiting, BqlAsserts, BqlLocations
<1> QED  BY <1>3, <1>4, <1>5, <1>6, <1>7, <1>8, <1>9, <1>10, <1>11, <1>12

\* The guest meets an atomic instruction.
LEMMA Step_GuestAtomic ==
  ASSUME IInv, NEW c \in CPUs, GuestAtomic(c)
  PROVE  IInv'
<1> USE ThreadsAssumption, RequestsAssumption
    DEF IInv, GuestAtomic, LeaveGuest, Excl!Leave, At, Go, exclVars, kickVars, otherVars,
        Threads
<1>1. cpu' \in [CPUs -> CPUState]  BY DEF TypeOK
<1>2. ToCome' = ToCome /\ Kicked' = Kicked  BY DEF ToCome, Kicked
<1>3. TypeOK'
  <2>1. to_flush' \in [CPUs -> SUBSET CPUs] /\ running' \in BOOLEAN
    BY DEF TypeOK
  <2>2. /\ kicks' \in [Threads -> SUBSET CPUs] /\ half' \in [Threads -> CPUs \cup {None}]
        /\ \A u \in Threads : half'[u] \in kicks'[u] \cup {None}
    BY DEF TypeOK, KicksInPlace, KickLocations
  <2>3. /\ pc' \in [Threads -> CpuLocations \cup MainLocations]
        /\ pc'[Main] \in MainLocations /\ \A d \in CPUs : pc'[d] \in CpuLocations
    BY DEF TypeOK, GuestLocations, CpuLocations, MainLocations
  <2> QED  BY <1>1, <2>1, <2>2, <2>3 DEF TypeOK, CPUState
<1> USE DEF TypeOK, CPUState
<1>4. BqlAsserts'  BY DEF BqlAsserts, BqlLocations
<1>5. KicksInPlace'  BY DEF KicksInPlace, KickLocations
<1>6. StopsUnlessRunning'  BY DEF StopsUnlessRunning, Listed
<1>7. StoppedInPlace'  BY DEF StoppedInPlace, StoppedLocations
<1>8. PausedInPlace'
  BY DEF PausedInPlace, all_vcpus_paused, Listed, BqlAsserts, BqlLocations
<1>9. WorkAnnounced'  BY <1>2 DEF WorkAnnounced, RunLocations
<1>10. StopAnnounced'  BY <1>2 DEF StopAnnounced, RunLocations
<1>11. BlockInterrupted'  BY <1>2 DEF BlockInterrupted, BlockLocations, Asked
<1>12. HaltRight'  BY <1>2 DEF HaltRight, NothingAsked, Waiting, BqlAsserts, BqlLocations
<1> QED  BY <1>3, <1>4, <1>5, <1>6, <1>7, <1>8, <1>9, <1>10, <1>11, <1>12

\* The guest meets a breakpoint.
LEMMA Step_GuestDebug ==
  ASSUME IInv, NEW c \in CPUs, GuestDebug(c)
  PROVE  IInv'
<1> USE ThreadsAssumption, RequestsAssumption
    DEF IInv, GuestDebug, LeaveGuest, Excl!Leave, At, Go, exclVars, kickVars, otherVars,
        Threads
<1>1. cpu' \in [CPUs -> CPUState]  BY DEF TypeOK
<1>2. ToCome' = ToCome /\ Kicked' = Kicked  BY DEF ToCome, Kicked
<1>3. TypeOK'
  <2>1. to_flush' \in [CPUs -> SUBSET CPUs] /\ running' \in BOOLEAN
    BY DEF TypeOK
  <2>2. /\ kicks' \in [Threads -> SUBSET CPUs] /\ half' \in [Threads -> CPUs \cup {None}]
        /\ \A u \in Threads : half'[u] \in kicks'[u] \cup {None}
    BY DEF TypeOK, KicksInPlace, KickLocations
  <2>3. /\ pc' \in [Threads -> CpuLocations \cup MainLocations]
        /\ pc'[Main] \in MainLocations /\ \A d \in CPUs : pc'[d] \in CpuLocations
    BY DEF TypeOK, GuestLocations, CpuLocations, MainLocations
  <2> QED  BY <1>1, <2>1, <2>2, <2>3 DEF TypeOK, CPUState
<1> USE DEF TypeOK, CPUState
<1>4. BqlAsserts'  BY DEF BqlAsserts, BqlLocations
<1>5. KicksInPlace'  BY DEF KicksInPlace, KickLocations
<1>6. StopsUnlessRunning'  BY DEF StopsUnlessRunning, Listed
<1>7. StoppedInPlace'  BY DEF StoppedInPlace, StoppedLocations
<1>8. PausedInPlace'
  BY DEF PausedInPlace, all_vcpus_paused, Listed, BqlAsserts, BqlLocations
<1>9. WorkAnnounced'  BY <1>2 DEF WorkAnnounced, RunLocations
<1>10. StopAnnounced'  BY <1>2 DEF StopAnnounced, RunLocations
<1>11. BlockInterrupted'  BY <1>2 DEF BlockInterrupted, BlockLocations, Asked
<1>12. HaltRight'  BY <1>2 DEF HaltRight, NothingAsked, Waiting, BqlAsserts, BqlLocations
<1> QED  BY <1>3, <1>4, <1>5, <1>6, <1>7, <1>8, <1>9, <1>10, <1>11, <1>12

\* The guest accesses a device.
LEMMA Step_GuestMmio ==
  ASSUME IInv, NEW c \in CPUs, GuestMmio(c)
  PROVE  IInv'
<1> USE ThreadsAssumption, RequestsAssumption
    DEF IInv, GuestMmio, At, Go, exclVars, kickVars, otherVars, Threads
<1>1. cpu' \in [CPUs -> CPUState]  BY DEF TypeOK
<1>2. ToCome' = ToCome /\ Kicked' = Kicked  BY DEF ToCome, Kicked
<1>3. TypeOK'
  <2>1. to_flush' \in [CPUs -> SUBSET CPUs] /\ running' \in BOOLEAN
    BY DEF TypeOK
  <2>2. /\ kicks' \in [Threads -> SUBSET CPUs] /\ half' \in [Threads -> CPUs \cup {None}]
        /\ \A u \in Threads : half'[u] \in kicks'[u] \cup {None}
    BY DEF TypeOK, KicksInPlace, KickLocations
  <2>3. /\ pc' \in [Threads -> CpuLocations \cup MainLocations]
        /\ pc'[Main] \in MainLocations /\ \A d \in CPUs : pc'[d] \in CpuLocations
    BY DEF TypeOK, GuestLocations, CpuLocations, MainLocations
  <2> QED  BY <1>1, <2>1, <2>2, <2>3 DEF TypeOK, CPUState
<1> USE DEF TypeOK, CPUState
<1>4. BqlAsserts'  BY DEF BqlAsserts, BqlLocations
<1>5. KicksInPlace'  BY DEF KicksInPlace, KickLocations
<1>6. StopsUnlessRunning'  BY DEF StopsUnlessRunning, Listed
<1>7. StoppedInPlace'  BY DEF StoppedInPlace, StoppedLocations
<1>8. PausedInPlace'
  BY DEF PausedInPlace, all_vcpus_paused, Listed, BqlAsserts, BqlLocations
<1>9. WorkAnnounced'  BY <1>2 DEF WorkAnnounced, RunLocations
<1>10. StopAnnounced'  BY <1>2 DEF StopAnnounced, RunLocations
<1>11. BlockInterrupted'  BY <1>2 DEF BlockInterrupted, BlockLocations, Asked
<1>12. HaltRight'  BY <1>2 DEF HaltRight, NothingAsked, Waiting, BqlAsserts, BqlLocations
<1> QED  BY <1>3, <1>4, <1>5, <1>6, <1>7, <1>8, <1>9, <1>10, <1>11, <1>12

\* Only a vCPU that is not to stop goes on to guest code.
LEMMA Step_LoopTop ==
  ASSUME IInv, NEW c \in CPUs, LoopTop(c)
  PROVE  IInv'
<1> USE ThreadsAssumption, RequestsAssumption
    DEF IInv, LoopTop, cpu_can_run, cpu_is_stopped, At, Go, exclVars, kickVars,
        otherVars, Threads
<1>1. cpu' \in [CPUs -> CPUState]  BY DEF TypeOK
<1>2. ToCome' = ToCome /\ Kicked' = Kicked  BY DEF ToCome, Kicked
<1>3. TypeOK'
  <2>1. to_flush' \in [CPUs -> SUBSET CPUs] /\ running' \in BOOLEAN
    BY DEF TypeOK
  <2>2. /\ kicks' \in [Threads -> SUBSET CPUs] /\ half' \in [Threads -> CPUs \cup {None}]
        /\ \A u \in Threads : half'[u] \in kicks'[u] \cup {None}
    BY DEF TypeOK, KicksInPlace, KickLocations
  <2>3. /\ pc' \in [Threads -> CpuLocations \cup MainLocations]
        /\ pc'[Main] \in MainLocations /\ \A d \in CPUs : pc'[d] \in CpuLocations
    BY DEF TypeOK, GuestLocations, CpuLocations, MainLocations
  <2> QED  BY <1>1, <2>1, <2>2, <2>3 DEF TypeOK, CPUState
<1> USE DEF TypeOK, CPUState
<1>4. BqlAsserts'
  <2>1. \/ bql' = None /\ pc' = [pc EXCEPT ![c] = "exec_start"]
        \/ bql' = bql /\ pc' = [pc EXCEPT ![c] = "reset"]
    OBVIOUS
  <2>2. pc[c] \in BqlLocations  BY DEF BqlLocations
  <2> HIDE DEF LoopTop
  <2>3. CASE bql' = None /\ pc' = [pc EXCEPT ![c] = "exec_start"]
    BY <2>2, <2>3 DEF BqlAsserts, BqlLocations
  <2>4. CASE bql' = bql /\ pc' = [pc EXCEPT ![c] = "reset"]
    BY <2>2, <2>4 DEF BqlAsserts, BqlLocations
  <2> QED  BY <2>1, <2>3, <2>4
<1>5. KicksInPlace'  BY DEF KicksInPlace, KickLocations
<1>6. StopsUnlessRunning'  BY DEF StopsUnlessRunning, Listed
<1>7. StoppedInPlace'  BY DEF StoppedInPlace, StoppedLocations
<1>8. PausedInPlace'
  BY DEF PausedInPlace, all_vcpus_paused, Listed, BqlAsserts, BqlLocations
<1>9. WorkAnnounced'  BY <1>2 DEF WorkAnnounced, RunLocations
<1>10. StopAnnounced'  BY <1>2 DEF StopAnnounced, RunLocations
<1>11. BlockInterrupted'  BY <1>2 DEF BlockInterrupted, BlockLocations, Asked
<1>12. HaltRight'  BY <1>2 DEF HaltRight, NothingAsked, Waiting, BqlAsserts, BqlLocations
<1> QED  BY <1>3, <1>4, <1>5, <1>6, <1>7, <1>8, <1>9, <1>10, <1>11, <1>12

\* A vCPU that met a breakpoint stops itself.
LEMMA Step_cpu_handle_guest_debug ==
  ASSUME IInv, NEW c \in CPUs, cpu_handle_guest_debug(c)
  PROVE  IInv'
<1>1. cpu' \in [CPUs -> CPUState]  BY FlagTypes DEF IInv, TypeOK, cpu_handle_guest_debug
<1> USE ThreadsAssumption, RequestsAssumption
    DEF IInv, cpu_handle_guest_debug, At, Go, exclVars, kickVars, otherVars, Threads
<1>2. ToCome' = ToCome /\ Kicked' = Kicked  BY DEF ToCome, Kicked
<1>3. TypeOK'
  <2>1. to_flush' \in [CPUs -> SUBSET CPUs] /\ running' \in BOOLEAN
    BY DEF TypeOK
  <2>2. /\ kicks' \in [Threads -> SUBSET CPUs] /\ half' \in [Threads -> CPUs \cup {None}]
        /\ \A u \in Threads : half'[u] \in kicks'[u] \cup {None}
    BY DEF TypeOK, KicksInPlace, KickLocations
  <2>3. /\ pc' \in [Threads -> CpuLocations \cup MainLocations]
        /\ pc'[Main] \in MainLocations /\ \A d \in CPUs : pc'[d] \in CpuLocations
    BY DEF TypeOK, GuestLocations, CpuLocations, MainLocations
  <2> QED  BY <1>1, <2>1, <2>2, <2>3 DEF TypeOK, CPUState
<1> USE DEF TypeOK, CPUState
<1>4. BqlAsserts'  BY DEF BqlAsserts, BqlLocations
<1>5. KicksInPlace'  BY DEF KicksInPlace, KickLocations
<1>6. StopsUnlessRunning'  BY DEF StopsUnlessRunning, Listed
<1>7. StoppedInPlace'  BY DEF StoppedInPlace, StoppedLocations
<1>8. PausedInPlace'
  BY DEF PausedInPlace, all_vcpus_paused, Listed, BqlAsserts, BqlLocations
<1>9. WorkAnnounced'  BY <1>2 DEF WorkAnnounced, RunLocations
<1>10. StopAnnounced'  BY <1>2 DEF StopAnnounced, RunLocations
<1>11. BlockInterrupted'  BY <1>2 DEF BlockInterrupted, BlockLocations, Asked
<1>12. HaltRight'  BY <1>2 DEF HaltRight, NothingAsked, Waiting, BqlAsserts, BqlLocations
<1> QED  BY <1>3, <1>4, <1>5, <1>6, <1>7, <1>8, <1>9, <1>10, <1>11, <1>12

\* exit_request is cleared before the queue is looked at.
LEMMA Step_ResetExitRequest ==
  ASSUME IInv, NEW c \in CPUs, ResetExitRequest(c)
  PROVE  IInv'
<1>1. cpu' \in [CPUs -> CPUState]  BY FlagTypes DEF IInv, TypeOK, ResetExitRequest
<1> USE ThreadsAssumption, RequestsAssumption
    DEF IInv, ResetExitRequest, At, Go, exclVars, kickVars, otherVars, Threads
<1>2. ToCome' = ToCome /\ Kicked' = Kicked  BY DEF ToCome, Kicked
<1>3. TypeOK'
  <2>1. to_flush' \in [CPUs -> SUBSET CPUs] /\ running' \in BOOLEAN
    BY DEF TypeOK
  <2>2. /\ kicks' \in [Threads -> SUBSET CPUs] /\ half' \in [Threads -> CPUs \cup {None}]
        /\ \A u \in Threads : half'[u] \in kicks'[u] \cup {None}
    BY DEF TypeOK, KicksInPlace, KickLocations
  <2>3. /\ pc' \in [Threads -> CpuLocations \cup MainLocations]
        /\ pc'[Main] \in MainLocations /\ \A d \in CPUs : pc'[d] \in CpuLocations
    BY DEF TypeOK, GuestLocations, CpuLocations, MainLocations
  <2> QED  BY <1>1, <2>1, <2>2, <2>3 DEF TypeOK, CPUState
<1> USE DEF TypeOK, CPUState
<1>4. BqlAsserts'  BY DEF BqlAsserts, BqlLocations
<1>5. KicksInPlace'  BY DEF KicksInPlace, KickLocations
<1>6. StopsUnlessRunning'  BY DEF StopsUnlessRunning, Listed
<1>7. StoppedInPlace'  BY DEF StoppedInPlace, StoppedLocations
<1>8. PausedInPlace'
  BY DEF PausedInPlace, all_vcpus_paused, Listed, BqlAsserts, BqlLocations
<1>9. WorkAnnounced'  BY <1>2 DEF WorkAnnounced, RunLocations
<1>10. StopAnnounced'  BY <1>2 DEF StopAnnounced, RunLocations
<1>11. BlockInterrupted'  BY <1>2 DEF BlockInterrupted, BlockLocations, Asked
<1>12. HaltRight'  BY <1>2 DEF HaltRight, NothingAsked, Waiting, BqlAsserts, BqlLocations
<1> QED  BY <1>3, <1>4, <1>5, <1>6, <1>7, <1>8, <1>9, <1>10, <1>11, <1>12

\* The idle check.
LEMMA Step_qemu_wait_io_event ==
  ASSUME IInv, NEW c \in CPUs, qemu_wait_io_event(c)
  PROVE  IInv'
<1> USE ThreadsAssumption, RequestsAssumption
    DEF IInv, qemu_wait_io_event, cpu_thread_is_idle, cpu_is_stopped, At, Go, exclVars,
        kickVars,
        otherVars, Threads
<1>1. cpu' \in [CPUs -> CPUState]  BY DEF TypeOK
<1>2. ToCome' = ToCome /\ Kicked' = Kicked  BY DEF ToCome, Kicked
<1>3. TypeOK'
  <2>1. to_flush' \in [CPUs -> SUBSET CPUs] /\ running' \in BOOLEAN
    BY DEF TypeOK
  <2>2. /\ kicks' \in [Threads -> SUBSET CPUs] /\ half' \in [Threads -> CPUs \cup {None}]
        /\ \A u \in Threads : half'[u] \in kicks'[u] \cup {None}
    BY DEF TypeOK, KicksInPlace, KickLocations
  <2>3. /\ pc' \in [Threads -> CpuLocations \cup MainLocations]
        /\ pc'[Main] \in MainLocations /\ \A d \in CPUs : pc'[d] \in CpuLocations
    BY DEF TypeOK, GuestLocations, CpuLocations, MainLocations
  <2> QED  BY <1>1, <2>1, <2>2, <2>3 DEF TypeOK, CPUState
<1> USE DEF TypeOK, CPUState
<1>4. BqlAsserts'  BY DEF BqlAsserts, BqlLocations
<1>5. KicksInPlace'  BY DEF KicksInPlace, KickLocations
<1>6. StopsUnlessRunning'  BY DEF StopsUnlessRunning, Listed
<1>7. StoppedInPlace'  BY DEF StoppedInPlace, StoppedLocations
<1>8. PausedInPlace'
  BY DEF PausedInPlace, all_vcpus_paused, Listed, BqlAsserts, BqlLocations
<1>9. WorkAnnounced'  BY <1>2 DEF WorkAnnounced, RunLocations
<1>10. StopAnnounced'  BY <1>2 DEF StopAnnounced, RunLocations
<1>11. BlockInterrupted'  BY <1>2 DEF BlockInterrupted, BlockLocations, Asked
<1>12. HaltRight'
  BY <1>2 DEF StopsUnlessRunning, Listed, HaltRight, NothingAsked, Waiting, BqlAsserts,
        BqlLocations
<1> QED  BY <1>3, <1>4, <1>5, <1>6, <1>7, <1>8, <1>9, <1>10, <1>11, <1>12

\* Going to sleep: nothing was asked since the idle check.
LEMMA Step_HaltWait ==
  ASSUME IInv, NEW c \in CPUs, HaltWait(c)
  PROVE  IInv'
<1> USE ThreadsAssumption, RequestsAssumption
    DEF IInv, HaltWait, CondWait, At, Go, exclVars, kickVars, otherVars, Threads
<1>1. cpu' \in [CPUs -> CPUState]  BY DEF TypeOK
<1>2. ToCome' = ToCome /\ Kicked' = Kicked  BY DEF ToCome, Kicked
<1>3. TypeOK'
  <2>1. to_flush' \in [CPUs -> SUBSET CPUs] /\ running' \in BOOLEAN
    BY DEF TypeOK
  <2>2. /\ kicks' \in [Threads -> SUBSET CPUs] /\ half' \in [Threads -> CPUs \cup {None}]
        /\ \A u \in Threads : half'[u] \in kicks'[u] \cup {None}
    BY DEF TypeOK, KicksInPlace, KickLocations
  <2>3. /\ pc' \in [Threads -> CpuLocations \cup MainLocations]
        /\ pc'[Main] \in MainLocations /\ \A d \in CPUs : pc'[d] \in CpuLocations
    BY DEF TypeOK, GuestLocations, CpuLocations, MainLocations
  <2> QED  BY <1>1, <2>1, <2>2, <2>3 DEF TypeOK, CPUState
<1> USE DEF TypeOK, CPUState
<1>4. BqlAsserts'  BY DEF BqlAsserts, BqlLocations
<1>5. KicksInPlace'  BY DEF KicksInPlace, KickLocations
<1>6. StopsUnlessRunning'  BY DEF StopsUnlessRunning, Listed
<1>7. StoppedInPlace'  BY DEF StoppedInPlace, StoppedLocations
<1>8. PausedInPlace'
  BY DEF PausedInPlace, all_vcpus_paused, Listed, BqlAsserts, BqlLocations
<1>9. WorkAnnounced'  BY <1>2 DEF WorkAnnounced, RunLocations
<1>10. StopAnnounced'  BY <1>2 DEF StopAnnounced, RunLocations
<1>11. BlockInterrupted'  BY <1>2 DEF BlockInterrupted, BlockLocations, Asked
<1>12. HaltRight'  BY <1>2 DEF HaltRight, NothingAsked, Waiting, BqlAsserts, BqlLocations
<1> QED  BY <1>3, <1>4, <1>5, <1>6, <1>7, <1>8, <1>9, <1>10, <1>11, <1>12

\* A vCPU that was asked to stop is stopped.
LEMMA Step_qemu_wait_io_event_common ==
  ASSUME IInv, NEW c \in CPUs, qemu_wait_io_event_common(c)
  PROVE  IInv'
<1>1. ASSUME cpu[c].stop PROVE IInv'
  <2>1. /\ pc[c] = "common" /\ pc' = [pc EXCEPT ![c] = "work_first"]
        /\ cpu' = [cpu EXCEPT ![c].stop = FALSE, ![c].stopped = TRUE]
        /\ asleep' \subseteq asleep
        /\ UNCHANGED <<bql, done, kicks, half, to_flush, running, paused, requests, owner>>
        /\ UNCHANGED sharers
    BY <1>1 DEF qemu_wait_io_event_common, At, Go, exclVars, kickVars, otherVars
  <2>2. cpu' \in [CPUs -> CPUState]  BY <2>1, FlagTypes DEF IInv, TypeOK
  <2>3. ToCome' = ToCome /\ Kicked' = Kicked  BY <2>1 DEF ToCome, Kicked
  <2> HIDE <1>1
  <2> USE ThreadsAssumption DEF IInv, Threads
  <2>4. TypeOK'
    BY <2>1, <2>2 DEF TypeOK, CPUState, GuestLocations, CpuLocations, MainLocations
  <2> USE DEF TypeOK, CPUState
  <2>5. BqlAsserts'  BY <2>1 DEF BqlAsserts, BqlLocations
  <2>6. KicksInPlace' /\ StopsUnlessRunning'
    BY <2>1 DEF KicksInPlace, KickLocations, StopsUnlessRunning, Listed
  <2>7. StoppedInPlace'  BY <2>1 DEF StoppedInPlace, StoppedLocations
  <2>8. PausedInPlace'  BY <2>1 DEF PausedInPlace, all_vcpus_paused, Listed
  <2>9. WorkAnnounced'  BY <2>1, <2>3 DEF WorkAnnounced, RunLocations
  <2>10. StopAnnounced'  BY <2>1, <2>3 DEF StopAnnounced, RunLocations
  <2>11. BlockInterrupted'  BY <2>1, <2>3 DEF BlockInterrupted, BlockLocations, Asked
  <2>12. HaltRight'  BY <2>1, <2>3 DEF HaltRight, NothingAsked
  <2> QED  BY <2>4, <2>5, <2>6, <2>7, <2>8, <2>9, <2>10, <2>11, <2>12
<1>2. ASSUME ~cpu[c].stop PROVE IInv'
  <2>1. /\ pc[c] = "common" /\ pc' = [pc EXCEPT ![c] = "work_first"]
        /\ UNCHANGED <<cpu, asleep>>
        /\ UNCHANGED <<bql, done, kicks, half, to_flush, running, paused, requests, owner>>
        /\ UNCHANGED sharers
    BY <1>2 DEF qemu_wait_io_event_common, At, Go, exclVars, kickVars, otherVars
  <2>2. cpu' \in [CPUs -> CPUState]  BY <2>1 DEF IInv, TypeOK
  <2>3. ToCome' = ToCome /\ Kicked' = Kicked  BY <2>1 DEF ToCome, Kicked
  <2> HIDE <1>2
  <2> USE ThreadsAssumption DEF IInv, Threads
  <2>4. TypeOK'
    BY <2>1, <2>2 DEF TypeOK, CPUState, GuestLocations, CpuLocations, MainLocations
  <2> USE DEF TypeOK, CPUState
  <2>5. BqlAsserts'  BY <2>1 DEF BqlAsserts, BqlLocations
  <2>6. KicksInPlace' /\ StopsUnlessRunning'
    BY <2>1 DEF KicksInPlace, KickLocations, StopsUnlessRunning, Listed
  <2>7. StoppedInPlace'  BY <2>1 DEF StoppedInPlace, StoppedLocations
  <2>8. PausedInPlace'  BY <2>1 DEF PausedInPlace, all_vcpus_paused, Listed
  <2>9. WorkAnnounced'  BY <2>1, <2>3 DEF WorkAnnounced, RunLocations
  <2>10. StopAnnounced'  BY <2>1, <2>3 DEF StopAnnounced, RunLocations
  <2>11. BlockInterrupted'  BY <2>1, <2>3 DEF BlockInterrupted, BlockLocations, Asked
  <2>12. HaltRight'  BY <2>1, <2>3 DEF HaltRight, NothingAsked
  <2> QED  BY <2>4, <2>5, <2>6, <2>7, <2>8, <2>9, <2>10, <2>11, <2>12
<1> QED  BY <1>1, <1>2

\* The end of the loop, and of the thread of an unplugged vCPU.
LEMMA Step_LoopEnd ==
  ASSUME IInv, NEW c \in CPUs, LoopEnd(c)
  PROVE  IInv'
<1> USE ThreadsAssumption, RequestsAssumption
    DEF IInv, LoopEnd, cpu_can_run, cpu_is_stopped, At, Go, exclVars, kickVars,
        otherVars, Threads
<1>1. cpu' \in [CPUs -> CPUState]  BY DEF TypeOK
<1>2. ToCome' = ToCome /\ Kicked' = Kicked  BY DEF ToCome, Kicked
<1>3. TypeOK'
  <2>1. to_flush' \in [CPUs -> SUBSET CPUs] /\ running' \in BOOLEAN
    BY DEF TypeOK
  <2>2. /\ kicks' \in [Threads -> SUBSET CPUs] /\ half' \in [Threads -> CPUs \cup {None}]
        /\ \A u \in Threads : half'[u] \in kicks'[u] \cup {None}
    BY DEF TypeOK, KicksInPlace, KickLocations
  <2>3. /\ pc' \in [Threads -> CpuLocations \cup MainLocations]
        /\ pc'[Main] \in MainLocations /\ \A d \in CPUs : pc'[d] \in CpuLocations
    BY DEF TypeOK, GuestLocations, CpuLocations, MainLocations
  <2> QED  BY <1>1, <2>1, <2>2, <2>3 DEF TypeOK, CPUState
<1> USE DEF TypeOK, CPUState
<1>4. BqlAsserts'
  <2>1. \/ bql' = None /\ pc' = [pc EXCEPT ![c] = "dead"]
        \/ bql' = bql /\ pc' = [pc EXCEPT ![c] = "loop"]
    OBVIOUS
  <2>2. pc[c] \in BqlLocations  BY DEF BqlLocations
  <2> HIDE DEF LoopEnd
  <2>3. CASE bql' = None /\ pc' = [pc EXCEPT ![c] = "dead"]
    BY <2>2, <2>3 DEF BqlAsserts, BqlLocations
  <2>4. CASE bql' = bql /\ pc' = [pc EXCEPT ![c] = "loop"]
    BY <2>2, <2>4 DEF BqlAsserts, BqlLocations
  <2> QED  BY <2>1, <2>3, <2>4
<1>5. KicksInPlace'  BY DEF KicksInPlace, KickLocations
<1>6. StopsUnlessRunning'  BY DEF StopsUnlessRunning, Listed
<1>7. StoppedInPlace'  BY DEF StoppedInPlace, StoppedLocations
<1>8. PausedInPlace'
  BY DEF PausedInPlace, all_vcpus_paused, Listed, BqlAsserts, BqlLocations
<1>9. WorkAnnounced'  BY <1>2 DEF WorkAnnounced, RunLocations
<1>10. StopAnnounced'  BY <1>2 DEF StopAnnounced, RunLocations
<1>11. BlockInterrupted'  BY <1>2 DEF BlockInterrupted, BlockLocations, Asked
<1>12. HaltRight'  BY <1>2 DEF HaltRight, NothingAsked, Waiting, BqlAsserts, BqlLocations
<1> QED  BY <1>3, <1>4, <1>5, <1>6, <1>7, <1>8, <1>9, <1>10, <1>11, <1>12

\* An interrupt for another vCPU comes with a kick.
LEMMA Step_cpu_interrupt ==
  ASSUME IInv, NEW t \in Threads, NEW c \in CPUs, cpu_interrupt(t, c)
  PROVE  IInv'
<1>1. cpu' \in [CPUs -> CPUState]
  <2>1. cpu \in [CPUs -> CPUState] BY DEF IInv, TypeOK
  <2> QED  BY <2>1, FlagTypes DEF cpu_interrupt, Listed, CPUState
<1> USE ThreadsAssumption, RequestsAssumption
    DEF IInv, cpu_interrupt, Listed, At, Go, exclVars, kickVars, otherVars, Threads
<1>2. ToCome' = ToCome \cup ({c} \ {t}) /\ Kicked' = Kicked \cup ({c} \ {t})
  <2>1. ({c} \ {t}) \in SUBSET CPUs  BY DEF TypeOK
  <2> QED  BY <2>1, NewKicks
<1>3. TypeOK'
  <2>1. to_flush' \in [CPUs -> SUBSET CPUs] /\ running' \in BOOLEAN
    BY DEF TypeOK
  <2>2. /\ kicks' \in [Threads -> SUBSET CPUs] /\ half' \in [Threads -> CPUs \cup {None}]
        /\ \A u \in Threads : half'[u] \in kicks'[u] \cup {None}
    BY DEF TypeOK, KicksInPlace, KickLocations
  <2>3. /\ pc' \in [Threads -> CpuLocations \cup MainLocations]
        /\ pc'[Main] \in MainLocations /\ \A d \in CPUs : pc'[d] \in CpuLocations
    BY DEF TypeOK, GuestLocations, CpuLocations, MainLocations
  <2> QED  BY <1>1, <2>1, <2>2, <2>3 DEF TypeOK, CPUState
<1> USE DEF TypeOK, CPUState
<1>4. BqlAsserts'  BY DEF BqlAsserts, BqlLocations
<1>5. KicksInPlace'  BY DEF KicksInPlace, KickLocations
<1>6. StopsUnlessRunning'  BY DEF StopsUnlessRunning, Listed
<1>7. StoppedInPlace'  BY DEF StoppedInPlace, StoppedLocations
<1>8. PausedInPlace'
  BY DEF PausedInPlace, all_vcpus_paused, Listed, BqlAsserts, BqlLocations
<1>9. WorkAnnounced'  BY <1>2 DEF WorkAnnounced, RunLocations
<1>10. StopAnnounced'  BY <1>2 DEF StopAnnounced, RunLocations
<1>11. BlockInterrupted'  BY <1>2 DEF BlockInterrupted, BlockLocations, Asked
<1>12. HaltRight'  BY <1>2 DEF HaltRight, NothingAsked, Waiting, BqlAsserts, BqlLocations
<1> QED  BY <1>3, <1>4, <1>5, <1>6, <1>7, <1>8, <1>9, <1>10, <1>11, <1>12

\* A vCPU asks itself to stop.
LEMMA Step_cpu_stop_current ==
  ASSUME IInv, NEW c \in CPUs, cpu_stop_current(c)
  PROVE  IInv'
<1>1. cpu' \in [CPUs -> CPUState]
  <2>1. cpu \in [CPUs -> CPUState] BY DEF IInv, TypeOK
  <2> QED  BY <2>1, FlagTypes DEF cpu_stop_current, CPUState
<1> USE ThreadsAssumption, RequestsAssumption
    DEF IInv, cpu_stop_current, At, Go, exclVars, kickVars, otherVars, Threads
<1>2. ToCome' = ToCome /\ Kicked' = Kicked  BY DEF ToCome, Kicked
<1>3. TypeOK'
  <2>1. to_flush' \in [CPUs -> SUBSET CPUs] /\ running' \in BOOLEAN
    BY DEF TypeOK
  <2>2. /\ kicks' \in [Threads -> SUBSET CPUs] /\ half' \in [Threads -> CPUs \cup {None}]
        /\ \A u \in Threads : half'[u] \in kicks'[u] \cup {None}
    BY DEF TypeOK, KicksInPlace, KickLocations
  <2>3. /\ pc' \in [Threads -> CpuLocations \cup MainLocations]
        /\ pc'[Main] \in MainLocations /\ \A d \in CPUs : pc'[d] \in CpuLocations
    BY DEF TypeOK, GuestLocations, CpuLocations, MainLocations
  <2> QED  BY <1>1, <2>1, <2>2, <2>3 DEF TypeOK, CPUState
<1> USE DEF TypeOK, CPUState
<1>4. BqlAsserts'  BY DEF BqlAsserts, BqlLocations
<1>5. KicksInPlace'  BY DEF KicksInPlace, KickLocations
<1>6. StopsUnlessRunning'  BY DEF StopsUnlessRunning, Listed
<1>7. StoppedInPlace'  BY DEF StoppedInPlace, StoppedLocations
<1>8. PausedInPlace'
  BY DEF PausedInPlace, all_vcpus_paused, Listed, BqlAsserts, BqlLocations
<1>9. WorkAnnounced'  BY <1>2 DEF WorkAnnounced, RunLocations
<1>10. StopAnnounced'  BY <1>2 DEF StopAnnounced, RunLocations
<1>11. BlockInterrupted'  BY <1>2 DEF BlockInterrupted, BlockLocations, Asked
<1>12. HaltRight'  BY <1>2 DEF HaltRight, NothingAsked, Waiting, BqlAsserts, BqlLocations
<1> QED  BY <1>3, <1>4, <1>5, <1>6, <1>7, <1>8, <1>9, <1>10, <1>11, <1>12

\* All vCPUs are asked to stop, with their kicks to come.
LEMMA Step_pause_all_vcpus ==
  ASSUME IInv, pause_all_vcpus, running' \in BOOLEAN
  PROVE  IInv'
<1>1. cpu' \in [CPUs -> CPUState]
  <2>1. ASSUME NEW d \in CPUs PROVE cpu'[d] \in CPUState
    BY <2>1 DEF IInv, TypeOK, pause_all_vcpus, Listed, CPUState, WorkItem, Threads
  <2>2. cpu' = [d \in CPUs |-> cpu'[d]]  BY DEF pause_all_vcpus
  <2> QED  BY <2>1, <2>2
<1> USE ThreadsAssumption, RequestsAssumption
    DEF IInv, pause_all_vcpus, Listed, At, Go, exclVars, kickVars, otherVars, Threads
<1>2. ToCome' = ToCome \cup (Listed) /\ Kicked' = Kicked \cup (Listed)
  <2>1. (Listed) \in SUBSET CPUs  BY DEF TypeOK
  <2> QED  BY <2>1, NewKicks
<1>3. TypeOK'
  <2>1. to_flush' \in [CPUs -> SUBSET CPUs] /\ running' \in BOOLEAN
    BY DEF TypeOK
  <2>2. /\ kicks' \in [Threads -> SUBSET CPUs] /\ half' \in [Threads -> CPUs \cup {None}]
        /\ \A u \in Threads : half'[u] \in kicks'[u] \cup {None}
    BY DEF TypeOK, KicksInPlace, KickLocations
  <2>3. /\ pc' \in [Threads -> CpuLocations \cup MainLocations]
        /\ pc'[Main] \in MainLocations /\ \A d \in CPUs : pc'[d] \in CpuLocations
    BY DEF TypeOK, GuestLocations, CpuLocations, MainLocations
  <2> QED  BY <1>1, <2>1, <2>2, <2>3 DEF TypeOK, CPUState
<1> USE DEF TypeOK, CPUState
<1>4. BqlAsserts'  BY DEF BqlAsserts, BqlLocations
<1>5. KicksInPlace'  BY DEF KicksInPlace, KickLocations
<1>6. StopsUnlessRunning'  BY DEF StopsUnlessRunning, Listed
<1>7. StoppedInPlace'  BY DEF StoppedInPlace, StoppedLocations
<1>8. PausedInPlace'
  BY DEF PausedInPlace, all_vcpus_paused, Listed, BqlAsserts, BqlLocations
<1>9. WorkAnnounced'  BY <1>2 DEF WorkAnnounced, RunLocations
<1>10. StopAnnounced'  BY <1>2 DEF StopAnnounced, RunLocations
<1>11. BlockInterrupted'  BY <1>2 DEF BlockInterrupted, BlockLocations, Asked
<1>12. HaltRight'  BY <1>2 DEF HaltRight, NothingAsked, Waiting, BqlAsserts, BqlLocations
<1> QED  BY <1>3, <1>4, <1>5, <1>6, <1>7, <1>8, <1>9, <1>10, <1>11, <1>12

\* All are stopped, or the main thread waits.
LEMMA Step_PauseCheck ==
  ASSUME IInv, PauseCheck
  PROVE  IInv'
<1> USE ThreadsAssumption, RequestsAssumption
    DEF IInv, PauseCheck, CondWait, all_vcpus_paused, Listed, At, Go, exclVars, kickVars,
        otherVars, Threads
<1>1. cpu' \in [CPUs -> CPUState]  BY DEF TypeOK
<1>2. ToCome' = ToCome /\ Kicked' = Kicked  BY DEF ToCome, Kicked
<1>3. TypeOK'
  <2>1. to_flush' \in [CPUs -> SUBSET CPUs] /\ running' \in BOOLEAN
    BY DEF TypeOK
  <2>2. /\ kicks' \in [Threads -> SUBSET CPUs] /\ half' \in [Threads -> CPUs \cup {None}]
        /\ \A u \in Threads : half'[u] \in kicks'[u] \cup {None}
    BY DEF TypeOK, KicksInPlace, KickLocations
  <2>3. /\ pc' \in [Threads -> CpuLocations \cup MainLocations]
        /\ pc'[Main] \in MainLocations /\ \A d \in CPUs : pc'[d] \in CpuLocations
    BY DEF TypeOK, GuestLocations, CpuLocations, MainLocations
  <2> QED  BY <1>1, <2>1, <2>2, <2>3 DEF TypeOK, CPUState
<1> USE DEF TypeOK, CPUState
<1>4. BqlAsserts'  BY DEF BqlAsserts, BqlLocations
<1>5. KicksInPlace'  BY DEF KicksInPlace, KickLocations
<1>6. StopsUnlessRunning'  BY DEF StopsUnlessRunning, Listed
<1>7. StoppedInPlace'  BY DEF StoppedInPlace, StoppedLocations
<1>8. PausedInPlace'
  BY DEF PausedInPlace, all_vcpus_paused, Listed, BqlAsserts, BqlLocations
<1>9. WorkAnnounced'  BY <1>2 DEF WorkAnnounced, RunLocations
<1>10. StopAnnounced'  BY <1>2 DEF StopAnnounced, RunLocations
<1>11. BlockInterrupted'  BY <1>2 DEF BlockInterrupted, BlockLocations, Asked
<1>12. HaltRight'  BY <1>2 DEF HaltRight, NothingAsked, Waiting, BqlAsserts, BqlLocations
<1> QED  BY <1>3, <1>4, <1>5, <1>6, <1>7, <1>8, <1>9, <1>10, <1>11, <1>12

\* The main thread kicks again.
LEMMA Step_PauseWoken ==
  ASSUME IInv, PauseWoken
  PROVE  IInv'
<1> USE ThreadsAssumption, RequestsAssumption
    DEF IInv, PauseWoken, Listed, At, Go, exclVars, kickVars, otherVars, Threads
<1>1. cpu' \in [CPUs -> CPUState]  BY DEF TypeOK
<1>2. ToCome' = ToCome \cup (Listed) /\ Kicked' = Kicked \cup (Listed)
  <2>1. (Listed) \in SUBSET CPUs  BY DEF TypeOK
  <2> QED  BY <2>1, NewKicks
<1>3. TypeOK'
  <2>1. to_flush' \in [CPUs -> SUBSET CPUs] /\ running' \in BOOLEAN
    BY DEF TypeOK
  <2>2. /\ kicks' \in [Threads -> SUBSET CPUs] /\ half' \in [Threads -> CPUs \cup {None}]
        /\ \A u \in Threads : half'[u] \in kicks'[u] \cup {None}
    BY DEF TypeOK, KicksInPlace, KickLocations
  <2>3. /\ pc' \in [Threads -> CpuLocations \cup MainLocations]
        /\ pc'[Main] \in MainLocations /\ \A d \in CPUs : pc'[d] \in CpuLocations
    BY DEF TypeOK, GuestLocations, CpuLocations, MainLocations
  <2> QED  BY <1>1, <2>1, <2>2, <2>3 DEF TypeOK, CPUState
<1> USE DEF TypeOK, CPUState
<1>4. BqlAsserts'  BY DEF BqlAsserts, BqlLocations
<1>5. KicksInPlace'  BY DEF KicksInPlace, KickLocations
<1>6. StopsUnlessRunning'  BY DEF StopsUnlessRunning, Listed
<1>7. StoppedInPlace'  BY DEF StoppedInPlace, StoppedLocations
<1>8. PausedInPlace'
  BY DEF PausedInPlace, all_vcpus_paused, Listed, BqlAsserts, BqlLocations
<1>9. WorkAnnounced'  BY <1>2 DEF WorkAnnounced, RunLocations
<1>10. StopAnnounced'  BY <1>2 DEF StopAnnounced, RunLocations
<1>11. BlockInterrupted'  BY <1>2 DEF BlockInterrupted, BlockLocations, Asked
<1>12. HaltRight'  BY <1>2 DEF HaltRight, NothingAsked, Waiting, BqlAsserts, BqlLocations
<1> QED  BY <1>3, <1>4, <1>5, <1>6, <1>7, <1>8, <1>9, <1>10, <1>11, <1>12

\* pause_all_vcpus returns.
LEMMA Step_PauseReturn ==
  ASSUME IInv, PauseReturn
  PROVE  IInv'
<1> USE ThreadsAssumption, RequestsAssumption
    DEF IInv, PauseReturn, all_vcpus_paused, Listed, At, Go, exclVars, kickVars,
        otherVars, Threads
<1>1. cpu' \in [CPUs -> CPUState]  BY DEF TypeOK
<1>2. ToCome' = ToCome /\ Kicked' = Kicked  BY DEF ToCome, Kicked
<1>3. TypeOK'
  <2>1. to_flush' \in [CPUs -> SUBSET CPUs] /\ running' \in BOOLEAN
    BY DEF TypeOK
  <2>2. /\ kicks' \in [Threads -> SUBSET CPUs] /\ half' \in [Threads -> CPUs \cup {None}]
        /\ \A u \in Threads : half'[u] \in kicks'[u] \cup {None}
    BY DEF TypeOK, KicksInPlace, KickLocations
  <2>3. /\ pc' \in [Threads -> CpuLocations \cup MainLocations]
        /\ pc'[Main] \in MainLocations /\ \A d \in CPUs : pc'[d] \in CpuLocations
    BY DEF TypeOK, GuestLocations, CpuLocations, MainLocations
  <2> QED  BY <1>1, <2>1, <2>2, <2>3 DEF TypeOK, CPUState
<1> USE DEF TypeOK, CPUState
<1>4. BqlAsserts'  BY DEF BqlAsserts, BqlLocations
<1>5. KicksInPlace'  BY DEF KicksInPlace, KickLocations
<1>6. StopsUnlessRunning'  BY DEF StopsUnlessRunning, Listed
<1>7. StoppedInPlace'  BY DEF StoppedInPlace, StoppedLocations
<1>8. PausedInPlace'
  BY DEF PausedInPlace, all_vcpus_paused, Listed, BqlAsserts, BqlLocations
<1>9. WorkAnnounced'  BY <1>2 DEF WorkAnnounced, RunLocations
<1>10. StopAnnounced'  BY <1>2 DEF StopAnnounced, RunLocations
<1>11. BlockInterrupted'  BY <1>2 DEF BlockInterrupted, BlockLocations, Asked
<1>12. HaltRight'  BY <1>2 DEF HaltRight, NothingAsked, Waiting, BqlAsserts, BqlLocations
<1> QED  BY <1>3, <1>4, <1>5, <1>6, <1>7, <1>8, <1>9, <1>10, <1>11, <1>12

\* All vCPUs may run again, with their kicks to come.
LEMMA Step_ResumeAll ==
  ASSUME IInv, ResumeAll, running' = TRUE
  PROVE  IInv'
<1>1. cpu' \in [CPUs -> CPUState]
  <2>1. ASSUME NEW d \in CPUs PROVE cpu'[d] \in CPUState
    BY <2>1 DEF IInv, TypeOK, ResumeAll, Listed, CPUState, WorkItem, Threads
  <2>2. cpu' = [d \in CPUs |-> cpu'[d]]  BY DEF ResumeAll
  <2> QED  BY <2>1, <2>2
<1> USE ThreadsAssumption, RequestsAssumption
    DEF IInv, ResumeAll, Listed, At, Go, exclVars, kickVars, otherVars, Threads
<1>2. ToCome' = ToCome \cup (Listed) /\ Kicked' = Kicked \cup (Listed)
  <2>1. (Listed) \in SUBSET CPUs  BY DEF TypeOK
  <2> QED  BY <2>1, NewKicks
<1>kept. \A d \in CPUs : /\ cpu'[d].work_list = cpu[d].work_list
                         /\ cpu'[d].stopped => cpu[d].stopped
  <2>1. ASSUME NEW d \in CPUs
        PROVE  cpu'[d] = [cpu[d] EXCEPT !.stop = FALSE, !.stopped = FALSE]
               \/ cpu'[d] = cpu[d]
    OBVIOUS
  <2>2. \A d \in CPUs : cpu[d] \in CPUState  BY DEF TypeOK
  <2> HIDE DEF ResumeAll
  <2> QED  BY <2>1, <2>2 DEF CPUState
<1>3. TypeOK'
  <2>1. to_flush' \in [CPUs -> SUBSET CPUs] /\ running' \in BOOLEAN
    BY DEF TypeOK
  <2>2. /\ kicks' \in [Threads -> SUBSET CPUs] /\ half' \in [Threads -> CPUs \cup {None}]
        /\ \A u \in Threads : half'[u] \in kicks'[u] \cup {None}
    BY DEF TypeOK, KicksInPlace, KickLocations
  <2>3. /\ pc' \in [Threads -> CpuLocations \cup MainLocations]
        /\ pc'[Main] \in MainLocations /\ \A d \in CPUs : pc'[d] \in CpuLocations
    BY DEF TypeOK, GuestLocations, CpuLocations, MainLocations
  <2> QED  BY <1>1, <2>1, <2>2, <2>3 DEF TypeOK, CPUState
<1> USE DEF TypeOK, CPUState
<1>4. BqlAsserts'  BY DEF BqlAsserts, BqlLocations
<1>5. KicksInPlace'  BY DEF KicksInPlace, KickLocations
<1>6. StopsUnlessRunning'  BY DEF StopsUnlessRunning, Listed
<1>7. StoppedInPlace'  BY <1>kept DEF StoppedInPlace, StoppedLocations
<1>8. PausedInPlace'
  BY DEF PausedInPlace, all_vcpus_paused, Listed, BqlAsserts, BqlLocations
<1>9. WorkAnnounced'  BY <1>2 DEF WorkAnnounced, RunLocations
<1>10. StopAnnounced'  BY <1>2 DEF StopAnnounced, RunLocations
<1>11. BlockInterrupted'  BY <1>2 DEF BlockInterrupted, BlockLocations, Asked
<1>12. HaltRight'  BY <1>2 DEF HaltRight, NothingAsked, Waiting, BqlAsserts, BqlLocations
<1> QED  BY <1>3, <1>4, <1>5, <1>6, <1>7, <1>8, <1>9, <1>10, <1>11, <1>12

\* A vCPU is asked to stop for good.
LEMMA Step_cpu_remove_sync ==
  ASSUME IInv, NEW c \in CPUs, cpu_remove_sync(c)
  PROVE  IInv'
<1>1. cpu' \in [CPUs -> CPUState]
  <2>1. cpu \in [CPUs -> CPUState] BY DEF IInv, TypeOK
  <2> QED  BY <2>1, FlagTypes DEF cpu_remove_sync, Listed, CPUState
<1> USE ThreadsAssumption, RequestsAssumption
    DEF IInv, cpu_remove_sync, Listed, At, Go, exclVars, kickVars, otherVars, Threads
<1>2. ToCome' = ToCome \cup ({c}) /\ Kicked' = Kicked \cup ({c})
  <2>1. ({c}) \in SUBSET CPUs  BY DEF TypeOK
  <2> QED  BY <2>1, NewKicks
<1>3. TypeOK'
  <2>1. to_flush' \in [CPUs -> SUBSET CPUs] /\ running' \in BOOLEAN
    BY DEF TypeOK
  <2>2. /\ kicks' \in [Threads -> SUBSET CPUs] /\ half' \in [Threads -> CPUs \cup {None}]
        /\ \A u \in Threads : half'[u] \in kicks'[u] \cup {None}
    BY DEF TypeOK, KicksInPlace, KickLocations
  <2>3. /\ pc' \in [Threads -> CpuLocations \cup MainLocations]
        /\ pc'[Main] \in MainLocations /\ \A d \in CPUs : pc'[d] \in CpuLocations
    BY DEF TypeOK, GuestLocations, CpuLocations, MainLocations
  <2> QED  BY <1>1, <2>1, <2>2, <2>3 DEF TypeOK, CPUState
<1> USE DEF TypeOK, CPUState
<1>4. BqlAsserts'  BY DEF BqlAsserts, BqlLocations
<1>5. KicksInPlace'  BY DEF KicksInPlace, KickLocations
<1>6. StopsUnlessRunning'  BY DEF StopsUnlessRunning, Listed
<1>7. StoppedInPlace'  BY DEF StoppedInPlace, StoppedLocations
<1>8. PausedInPlace'
  BY DEF PausedInPlace, all_vcpus_paused, Listed, BqlAsserts, BqlLocations
<1>9. WorkAnnounced'  BY <1>2 DEF WorkAnnounced, RunLocations
<1>10. StopAnnounced'  BY <1>2 DEF StopAnnounced, RunLocations
<1>11. BlockInterrupted'  BY <1>2 DEF BlockInterrupted, BlockLocations, Asked
<1>12. HaltRight'  BY <1>2 DEF HaltRight, NothingAsked, Waiting, BqlAsserts, BqlLocations
<1> QED  BY <1>3, <1>4, <1>5, <1>6, <1>7, <1>8, <1>9, <1>10, <1>11, <1>12

\* The main thread drops the BQL to join the thread.
LEMMA Step_RemoveUnlock ==
  ASSUME IInv, RemoveUnlock
  PROVE  IInv'
<1> USE ThreadsAssumption, RequestsAssumption
    DEF IInv, RemoveUnlock, At, Go, exclVars, kickVars, otherVars, Threads
<1>1. cpu' \in [CPUs -> CPUState]  BY DEF TypeOK
<1>2. ToCome' = ToCome /\ Kicked' = Kicked  BY DEF ToCome, Kicked
<1>3. TypeOK'
  <2>1. to_flush' \in [CPUs -> SUBSET CPUs] /\ running' \in BOOLEAN
    BY DEF TypeOK
  <2>2. /\ kicks' \in [Threads -> SUBSET CPUs] /\ half' \in [Threads -> CPUs \cup {None}]
        /\ \A u \in Threads : half'[u] \in kicks'[u] \cup {None}
    BY DEF TypeOK, KicksInPlace, KickLocations
  <2>3. /\ pc' \in [Threads -> CpuLocations \cup MainLocations]
        /\ pc'[Main] \in MainLocations /\ \A d \in CPUs : pc'[d] \in CpuLocations
    BY DEF TypeOK, GuestLocations, CpuLocations, MainLocations
  <2> QED  BY <1>1, <2>1, <2>2, <2>3 DEF TypeOK, CPUState
<1> USE DEF TypeOK, CPUState
<1>4. BqlAsserts'  BY DEF BqlAsserts, BqlLocations
<1>5. KicksInPlace'  BY DEF KicksInPlace, KickLocations
<1>6. StopsUnlessRunning'  BY DEF StopsUnlessRunning, Listed
<1>7. StoppedInPlace'  BY DEF StoppedInPlace, StoppedLocations
<1>8. PausedInPlace'
  BY DEF PausedInPlace, all_vcpus_paused, Listed, BqlAsserts, BqlLocations
<1>9. WorkAnnounced'  BY <1>2 DEF WorkAnnounced, RunLocations
<1>10. StopAnnounced'  BY <1>2 DEF StopAnnounced, RunLocations
<1>11. BlockInterrupted'  BY <1>2 DEF BlockInterrupted, BlockLocations, Asked
<1>12. HaltRight'  BY <1>2 DEF HaltRight, NothingAsked, Waiting, BqlAsserts, BqlLocations
<1> QED  BY <1>3, <1>4, <1>5, <1>6, <1>7, <1>8, <1>9, <1>10, <1>11, <1>12

\* The thread has ended.
LEMMA Step_RemoveJoined ==
  ASSUME IInv, RemoveJoined
  PROVE  IInv'
<1> USE ThreadsAssumption, RequestsAssumption
    DEF IInv, RemoveJoined, Listed, At, Go, exclVars, kickVars, otherVars, Threads
<1>1. cpu' \in [CPUs -> CPUState]  BY DEF TypeOK
<1>2. ToCome' = ToCome /\ Kicked' = Kicked  BY DEF ToCome, Kicked
<1>3. TypeOK'
  <2>1. to_flush' \in [CPUs -> SUBSET CPUs] /\ running' \in BOOLEAN
    BY DEF TypeOK
  <2>2. /\ kicks' \in [Threads -> SUBSET CPUs] /\ half' \in [Threads -> CPUs \cup {None}]
        /\ \A u \in Threads : half'[u] \in kicks'[u] \cup {None}
    BY DEF TypeOK, KicksInPlace, KickLocations
  <2>3. /\ pc' \in [Threads -> CpuLocations \cup MainLocations]
        /\ pc'[Main] \in MainLocations /\ \A d \in CPUs : pc'[d] \in CpuLocations
    BY DEF TypeOK, GuestLocations, CpuLocations, MainLocations
  <2> QED  BY <1>1, <2>1, <2>2, <2>3 DEF TypeOK, CPUState
<1> USE DEF TypeOK, CPUState
<1>4. BqlAsserts'  BY DEF BqlAsserts, BqlLocations
<1>5. KicksInPlace'  BY DEF KicksInPlace, KickLocations
<1>6. StopsUnlessRunning'  BY DEF StopsUnlessRunning, Listed
<1>7. StoppedInPlace'  BY DEF StoppedInPlace, StoppedLocations
<1>8. PausedInPlace'
  BY DEF PausedInPlace, all_vcpus_paused, Listed, BqlAsserts, BqlLocations
<1>9. WorkAnnounced'  BY <1>2 DEF WorkAnnounced, RunLocations
<1>10. StopAnnounced'  BY <1>2 DEF StopAnnounced, RunLocations
<1>11. BlockInterrupted'  BY <1>2 DEF BlockInterrupted, BlockLocations, Asked
<1>12. HaltRight'  BY <1>2 DEF HaltRight, NothingAsked, Waiting, BqlAsserts, BqlLocations
<1> QED  BY <1>3, <1>4, <1>5, <1>6, <1>7, <1>8, <1>9, <1>10, <1>11, <1>12

-----------------------------------------------------------------------------
\* The machine starts with nothing asked and nobody kicked.
LEMMA InitIInv == Init => IInv
<1> SUFFICES ASSUME Init PROVE IInv  OBVIOUS
<1> USE ThreadsAssumption, RequestsAssumption DEF Init, Excl!Init, Threads
<1>1. cpu \in [CPUs -> CPUState]
  <2>1. <<>> \in Seq(WorkItem)  OBVIOUS
  <2> QED  BY <2>1 DEF CPUState
<1>2. TypeOK  BY <1>1 DEF TypeOK, GuestLocations, CpuLocations, MainLocations
<1>3. BqlAsserts /\ KicksInPlace /\ StopsUnlessRunning
  BY DEF BqlAsserts, BqlLocations, KicksInPlace, StopsUnlessRunning, Listed
<1>4. StoppedInPlace /\ PausedInPlace
  BY DEF StoppedInPlace, StoppedLocations, PausedInPlace, all_vcpus_paused, Listed
<1>5. WorkAnnounced /\ StopAnnounced /\ BlockInterrupted /\ HaltRight
  BY DEF WorkAnnounced, StopAnnounced, BlockInterrupted, BlockLocations, RunLocations,
        HaltRight
<1> QED  BY <1>2, <1>3, <1>4, <1>5 DEF IInv

\* A stuttering step changes nothing that IInv speaks of.
LEMMA StutterIInv == IInv /\ UNCHANGED vars => IInv'
<1> SUFFICES ASSUME IInv, UNCHANGED vars PROVE IInv'  OBVIOUS
<1> USE DEF vars, IInv
<1>1. /\ TypeOK' /\ BqlAsserts' /\ KicksInPlace' /\ StopsUnlessRunning'
      /\ StoppedInPlace' /\ PausedInPlace'
  BY DEF TypeOK, BqlAsserts, KicksInPlace, StopsUnlessRunning, StoppedInPlace, PausedInPlace,
         all_vcpus_paused, Listed
<1>2. ToCome' = ToCome /\ Kicked' = Kicked  BY DEF ToCome, Kicked
<1>3. WorkAnnounced' /\ StopAnnounced' /\ BlockInterrupted' /\ HaltRight'
  BY <1>2 DEF WorkAnnounced, StopAnnounced, BlockInterrupted, Asked, HaltRight, NothingAsked
<1> QED  BY <1>1, <1>3

\* Every step of Next is one of the actions above.
LEMMA NextIInv == IInv /\ [Next]_vars => IInv'
<1> SUFFICES ASSUME IInv, [Next]_vars PROVE IInv'  OBVIOUS
<1>1. CASE UNCHANGED vars  BY <1>1, StutterIInv
<1>2. ASSUME NEW c \in CPUs, VcpuStep(c) PROVE IInv'
  BY <1>2, Step_RunWork, Step_RunSafeWork, Step_WorkDone, Step_process_queued_cpu_work,
     Step_start_exclusive, Step_SectionEntered, Step_end_exclusive, Step_ExcpAtomic,
     Step_cpu_exec_start, Step_cpu_handle_halt, Step_cpu_handle_interrupt, Step_DeliverIrq,
     Step_IrqHalt, Step_IrqReset, Step_CheckExitRequest, Step_flush_all_helper,
     Step_FlushVisitedAll, Step_FlushSelf, Step_LoopTop, Step_cpu_handle_guest_debug,
     Step_ResetExitRequest,
     Step_qemu_wait_io_event, Step_HaltWait, Step_qemu_wait_io_event_common, Step_LoopEnd
  DEF VcpuStep
<1>3. ASSUME NEW c \in CPUs, GuestStep(c) \/ cpu_stop_current(c) PROVE IInv'
  BY <1>3, Step_TbExit, Step_GuestHalt, Step_GuestDebug, Step_GuestAtomic, Step_GuestMmio,
     Step_tlb_flush_all_cpus_synced, Step_cpu_stop_current
  DEF GuestStep
<1>4. ASSUME NEW t \in Threads,
             \/ ThreadStep(t) \/ qemu_mutex_lock_iothread(t) \/ Request(t)
             \/ qemu_mutex_unlock_iothread(t) \/ SpuriousWakeup(t)
      PROVE  IInv'
  BY <1>4, Step_KickExit, Step_KickIcount, Step_SyncCheck, Step_qemu_mutex_lock_iothread,
     Step_qemu_mutex_unlock_iothread, Step_SpuriousWakeup, Step_async_run_on_cpu,
     Step_async_safe_run_on_cpu, Step_run_on_cpu, Step_cpu_interrupt
  DEF ThreadStep, Request
<1>5. CASE MainStep \/ PauseLock \/ MainRequest
  BY <1>5, Step_PauseCheck, Step_RemoveUnlock, Step_RemoveJoined, Step_PauseWoken,
     Step_PauseReturn, Step_pause_all_vcpus, Step_ResumeAll, Step_cpu_remove_sync
  DEF MainStep, PauseLock, MainRequest, PauseForReset, do_vm_stop, resume_all_vcpus, vm_start,
      IInv, TypeOK
<1> QED  BY <1>1, <1>2, <1>3, <1>4, <1>5 DEF Next

-----------------------------------------------------------------------------
(* Theorems *)

\* IInv holds in every reachable state.
THEOREM Invariance == Spec => []IInv
BY InitIInv, NextIInv, PTL DEF Spec

\* The assertions of qemu_mutex_lock_iothread_impl and of
\* qemu_mutex_unlock_iothread never fail, and every flag and list of a vCPU
\* keeps its type.
THEOREM MachineCorrect == Spec => []MachineConsistent
<1>1. IInv => MachineConsistent  BY DEF IInv, MachineConsistent
<1> QED  BY <1>1, Invariance, PTL

\* No vCPU is in guest code between pause_all_vcpus and resume_all_vcpus.
THEOREM PauseSafe == Spec => []PausedMeansStopped
<1>1. IInv => PausedMeansStopped
  BY DEF IInv, PausedMeansStopped, PausedInPlace, StoppedInPlace, all_vcpus_paused, Listed,
         StoppedLocations, GuestLocations
<1> QED  BY <1>1, Invariance, PTL

\* A block that runs past a request is about to be interrupted, and a vCPU that
\* sleeps on halt_cond past a request made with the BQL held is about to be woken.
THEOREM KicksCorrect == Spec => []KicksHonoured
<1>1. ASSUME IInv PROVE GuestIsInterrupted
  BY <1>1 DEF IInv, GuestIsInterrupted, BlockInterrupted, BlockLocations, Asked, Kicked
<1>2. ASSUME IInv PROVE SleepsOnlyWhenIdle
  <2>1. ASSUME NEW c \in Waiting("halt_wait")
        PROVE  c \in CPUs /\ pc[c] = "halt_wait" /\ c \in asleep
    BY <1>2, <2>1, ThreadsAssumption DEF Waiting, IInv, TypeOK, MainLocations, Threads
  <2> QED  BY <1>2, <2>1 DEF SleepsOnlyWhenIdle, IInv, HaltRight, NothingAsked, ToCome
<1> QED  BY <1>1, <1>2, Invariance, PTL DEF KicksHonoured

\* Only CheckExitRequest leads from the look at exit_request to a block.
LEMMA OnlyCheckEnters ==
  ASSUME TypeOK, Next, NEW c \in CPUs, pc[c] = "check", pc'[c] = "tb"
  PROVE  CheckExitRequest(c)
<1> USE ThreadsAssumption DEF TypeOK, At, Go, Threads
<1>1. ASSUME NEW d \in CPUs, VcpuStep(d) PROVE CheckExitRequest(d) \/ pc'[c] = pc[c]
  <2>1. CASE \/ RunWork(d) \/ RunSafeWork(d) \/ WorkDone(d) \/ process_queued_cpu_work(d)
             \/ ExcpAtomic(d)
    BY <2>1 DEF RunWork, RunSafeWork, WorkDone, process_queued_cpu_work, ExcpAtomic
  <2>2. CASE start_exclusive(d) \/ SectionEntered(d) \/ end_exclusive(d)
      BY <2>2
      DEF start_exclusive, SectionEntered, end_exclusive, AfterStart, AfterAcquire, AfterEnd
  <2>3. CASE cpu_exec_start(d) \/ cpu_handle_halt(d) \/ cpu_handle_interrupt(d) \/ DeliverIrq(d)
                             \/ IrqHalt(d) \/ IrqReset(d)
    BY <2>3 DEF cpu_exec_start, cpu_handle_halt, cpu_handle_interrupt, DeliverIrq, IrqHalt,
                IrqReset, LeaveGuest
  <2>4. CASE \/ flush_all_helper(d) \/ FlushVisitedAll(d) \/ FlushSelf(d) \/ LoopTop(d)
             \/ cpu_handle_guest_debug(d) \/ ResetExitRequest(d) \/ qemu_wait_io_event(d)
    BY <2>4 DEF flush_all_helper, FlushVisitedAll, FlushSelf, LoopTop, cpu_handle_guest_debug,
                ResetExitRequest, qemu_wait_io_event
  <2>5. CASE HaltWait(d) \/ qemu_wait_io_event_common(d) \/ LoopEnd(d)
    BY <2>5 DEF HaltWait, CondWait, qemu_wait_io_event_common, LoopEnd
  <2> QED  BY <1>1, <2>1, <2>2, <2>3, <2>4, <2>5 DEF VcpuStep
<1>2. ASSUME NEW d \in CPUs, GuestStep(d) \/ cpu_stop_current(d) PROVE pc'[c] = pc[c]
    BY <1>2
    DEF GuestStep, TbExit, GuestHalt, GuestDebug, GuestAtomic, GuestMmio,
        tlb_flush_all_cpus_synced,
              cpu_stop_current, LeaveGuest
<1>3. ASSUME NEW t \in Threads,
ThreadStep(t) \/ qemu_mutex_lock_iothread(t) \/ SpuriousWakeup(t)
                                \/ qemu_mutex_unlock_iothread(t)
      PROVE  pc'[c] = pc[c]
  BY <1>3 DEF ThreadStep, KickExit, KickIcount, SyncCheck, CondWait, SpuriousWakeup,
              qemu_mutex_lock_iothread, AfterLock, qemu_mutex_unlock_iothread
<1>4. ASSUME NEW t \in Threads, Request(t) PROVE pc'[c] = pc[c]
  BY <1>4 DEF Request, async_run_on_cpu, async_safe_run_on_cpu, run_on_cpu, cpu_interrupt
<1>5. CASE MainStep \/ PauseLock \/ MainRequest
    BY <1>5
    DEF MainStep, PauseCheck, CondWait, RemoveUnlock, RemoveJoined, PauseLock, PauseWoken,
              PauseReturn, MainRequest, PauseForReset, do_vm_stop, pause_all_vcpus,
              resume_all_vcpus, vm_start, ResumeAll, cpu_remove_sync
<1>6. \A d \in CPUs : CheckExitRequest(d) => d = c \/ pc'[c] = pc[c]
  BY DEF CheckExitRequest, LeaveGuest
<1> HIDE DEF TypeOK
<1> QED  BY <1>1, <1>2, <1>3, <1>4, <1>5, <1>6 DEF Next

\* Guest code is not entered with work queued that its sender has finished
\* queueing: cpu_handle_interrupt reads exit_request after the kick set it.
THEOREM WorkBeforeGuestCode == Spec => NoGuestCodeBeforeWork
<1>1. ASSUME IInv, Next, NEW c \in CPUs, pc[c] = "check", pc'[c] = "tb"
      PROVE  cpu[c].work_list = <<>> \/ \E t \in Threads : c \in kicks[t]
  <2>1. CheckExitRequest(c)  BY <1>1, OnlyCheckEnters DEF IInv
  <2>2. ~cpu[c].exit_request
      BY <1>1, <2>1, ThreadsAssumption
      DEF CheckExitRequest, LeaveGuest, Go, IInv, TypeOK, Threads
  <2> QED  BY <1>1, <2>2 DEF IInv, WorkAnnounced, RunLocations, ToCome
<1>2. IInv /\ [Next]_vars =>
        [\A c \in CPUs : pc[c] = "check" /\ pc'[c] = "tb" =>
           cpu[c].work_list = <<>> \/ \E t \in Threads : c \in kicks[t]]_vars
  BY <1>1
<1> QED  BY <1>2, Invariance, PTL DEF Spec, NoGuestCodeBeforeWork
=============================================================================
