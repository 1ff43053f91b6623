------------------------ MODULE CpuExclusiveProofs ------------------------
(***************************************************************************)
(* Proofs about CpuExclusive for every finite set of vCPUs.  IInv is       *)
(* inductive; ExclusiveSection, NoLostWakeup, UniqueIndex and the          *)
(* refinement of ExclusiveAccess follow from it.                           *)
(***************************************************************************)
EXTENDS CpuExclusive, FiniteSetTheorems, TLAPS

\* The marked CPUs are a finite set: their number is a natural number, and it
\* is 0 only when no CPU is marked.
LEMMA WaitedFinite ==
  /\ IsFiniteSet(Waited)
  /\ Cardinality(Waited) \in Nat
  /\ Cardinality(Waited) = 0 <=> Waited = {}
<1>1. Waited \in SUBSET CPUs  BY DEF Waited
<1>2. IsFiniteSet(Waited)  BY <1>1, CPUsAssumption, FS_Subset
<1> QED  BY <1>2, FS_CardinalityType, FS_EmptySet

\* Marking one more CPU adds one to their number.
LEMMA WaitedAdd ==
  ASSUME TypeOK, NEW d \in CPUs, ~has_waiter[d],
         has_waiter' = [has_waiter EXCEPT ![d] = TRUE]
  PROVE  Cardinality(Waited') = Cardinality(Waited) + 1
<1>1. Waited' = Waited \cup {d} /\ d \notin Waited  BY DEF Waited, TypeOK
<1> QED  BY <1>1, WaitedFinite, FS_AddElement

\* Unmarking a CPU (cpu_exec_end) subtracts one, and there was one to subtract.
LEMMA WaitedRemove ==
  ASSUME TypeOK, NEW d \in CPUs, has_waiter[d],
         has_waiter' = [has_waiter EXCEPT ![d] = FALSE]
  PROVE  /\ Cardinality(Waited') = Cardinality(Waited) - 1
         /\ Cardinality(Waited) > 0
<1>1. Waited' = Waited \ {d} /\ d \in Waited  BY DEF Waited, TypeOK
<1> QED  BY <1>1, WaitedFinite, FS_RemoveElement

LEMMA InitIInv == Init => IInv
<1> SUFFICES ASSUME Init PROVE IInv  OBVIOUS
<1>1. TypeOK  BY DEF Init, TypeOK, Locations, UNASSIGNED_CPU_INDEX
<1> QED  BY <1>1, CPUsAssumption DEF Init, IInv, OneAnnounced, Announced, LockedWhileScanning,
         RunningMeans, WaitedMeans, CountedWaiters, ScannedMeans, SleepersMean,
         NoLostWakeup, ExclusiveSection, UNASSIGNED_CPU_INDEX

\* Plugging a CPU in: it is listed and outside guest code.
LEMMA Step_cpu_list_add ==
  ASSUME IInv, NEW c \in CPUs, cpu_list_add(c)
  PROVE  IInv'
<1> USE CPUsAssumption DEF IInv, cpu_list_add, cpu_get_free_index, Go, listVars, scanVars, TypeOK,
                     Locations, UNASSIGNED_CPU_INDEX
<1>1. TypeOK'  BY IndexAssumption
<1>2. OneAnnounced'  BY DEF OneAnnounced, Announced
<1>3. LockedWhileScanning'  BY DEF LockedWhileScanning
<1>4. RunningMeans'  BY DEF RunningMeans
<1>5. WaitedMeans'  BY DEF WaitedMeans, OneAnnounced, Announced, RunningMeans
<1>6. CountedWaiters'  BY DEF CountedWaiters, OneAnnounced, Announced, Waited
<1>7. ScannedMeans'
  BY DEF ScannedMeans, OneAnnounced, Announced, WaitedMeans, cpus, RunningMeans
<1>8. SleepersMean'
  BY DEF SleepersMean, NoLostWakeup, AwaitingCond, AwaitingResume, OneAnnounced,
                          Announced, CountedWaiters
<1>9. ExclusiveSection'
  BY DEF ExclusiveSection, OneAnnounced, Announced, ScannedMeans, WaitedMeans
<1> QED  BY <1>1, <1>2, <1>3, <1>4, <1>5, <1>6, <1>7, <1>8, <1>9

\* Unplugging a CPU that is outside guest code.
LEMMA Step_cpu_list_remove ==
  ASSUME IInv, NEW c \in CPUs, cpu_list_remove(c)
  PROVE  IInv'
<1> USE CPUsAssumption DEF IInv, cpu_list_remove, Go, listVars, scanVars, TypeOK,
                     Locations, UNASSIGNED_CPU_INDEX
<1>1. TypeOK'  OBVIOUS
<1>2. OneAnnounced'  BY DEF OneAnnounced, Announced
<1>3. LockedWhileScanning'  BY DEF LockedWhileScanning
<1>4. RunningMeans'  BY DEF RunningMeans
<1>5. WaitedMeans'  BY DEF WaitedMeans, OneAnnounced, Announced, RunningMeans
<1>6. CountedWaiters'  BY DEF CountedWaiters, OneAnnounced, Announced, Waited
<1>7. ScannedMeans'
  BY DEF ScannedMeans, OneAnnounced, Announced, WaitedMeans, cpus, RunningMeans
<1>8. SleepersMean'
  BY DEF SleepersMean, NoLostWakeup, AwaitingCond, AwaitingResume, OneAnnounced,
                          Announced, CountedWaiters
<1>9. ExclusiveSection'
  BY DEF ExclusiveSection, OneAnnounced, Announced, ScannedMeans, WaitedMeans
<1> QED  BY <1>1, <1>2, <1>3, <1>4, <1>5, <1>6, <1>7, <1>8, <1>9

\* A wakeup nobody sent only shrinks the set of sleepers.
LEMMA Step_SpuriousWakeup ==
  ASSUME IInv, NEW c \in CPUs, SpuriousWakeup(c)
  PROVE  IInv'
<1> USE CPUsAssumption DEF IInv, SpuriousWakeup, Go, listVars, scanVars, TypeOK,
                     Locations, UNASSIGNED_CPU_INDEX
<1>1. TypeOK'  OBVIOUS
<1>2. OneAnnounced'  BY DEF OneAnnounced, Announced
<1>3. LockedWhileScanning'  BY DEF LockedWhileScanning
<1>4. RunningMeans'  BY DEF RunningMeans
<1>5. WaitedMeans'  BY DEF WaitedMeans, OneAnnounced, Announced, RunningMeans
<1>6. CountedWaiters'  BY DEF CountedWaiters, OneAnnounced, Announced, Waited
<1>7. ScannedMeans'
  BY DEF ScannedMeans, OneAnnounced, Announced, WaitedMeans, cpus, RunningMeans
<1>8. SleepersMean'
  BY DEF SleepersMean, NoLostWakeup, AwaitingCond, AwaitingResume, OneAnnounced,
                          Announced, CountedWaiters
<1>9. ExclusiveSection'
  BY DEF ExclusiveSection, OneAnnounced, Announced, ScannedMeans, WaitedMeans
<1> QED  BY <1>1, <1>2, <1>3, <1>4, <1>5, <1>6, <1>7, <1>8, <1>9

\* start_exclusive: wait for the other section, or announce this one.  When
\* nobody was announced no CPU is marked, so the count starts right at 0.
LEMMA Step_start_exclusive ==
  ASSUME IInv, NEW c \in CPUs, start_exclusive(c)
  PROVE  IInv'
<1> USE CPUsAssumption DEF IInv, start_exclusive, AfterIdle, Go, listVars, scanVars, TypeOK,
                     Locations, UNASSIGNED_CPU_INDEX
<1>0. pending_cpus = 0 => Waited = {}
  BY DEF Waited, WaitedMeans, OneAnnounced, Announced
<1>1. TypeOK'  BY DEF cpus
<1>2. OneAnnounced'  BY DEF OneAnnounced, Announced
<1>3. LockedWhileScanning'  BY DEF LockedWhileScanning
<1>4. RunningMeans'  BY DEF RunningMeans
<1>5. WaitedMeans'  BY DEF WaitedMeans, OneAnnounced, Announced, RunningMeans
<1>6. CountedWaiters'
  BY <1>0, WaitedFinite DEF CountedWaiters, OneAnnounced, Announced, Waited
<1>7. ScannedMeans'
  BY DEF ScannedMeans, OneAnnounced, Announced, WaitedMeans, cpus, RunningMeans
<1>8. SleepersMean'
  BY DEF SleepersMean, NoLostWakeup, AwaitingCond, AwaitingResume, OneAnnounced,
                          Announced, CountedWaiters
<1>9. ExclusiveSection'
  BY DEF ExclusiveSection, OneAnnounced, Announced, ScannedMeans, WaitedMeans
<1> QED  BY <1>1, <1>2, <1>3, <1>4, <1>5, <1>6, <1>7, <1>8, <1>9

\* The same after a wakeup on exclusive_resume.
LEMMA Step_RetryExclusive ==
  ASSUME IInv, NEW c \in CPUs, RetryExclusive(c)
  PROVE  IInv'
<1> USE CPUsAssumption DEF IInv, RetryExclusive, AfterIdle, Go, listVars, scanVars, TypeOK,
                     Locations, UNASSIGNED_CPU_INDEX
<1>0. pending_cpus = 0 => Waited = {}
  BY DEF Waited, WaitedMeans, OneAnnounced, Announced
<1>1. TypeOK'  BY DEF cpus
<1>2. OneAnnounced'  BY DEF OneAnnounced, Announced
<1>3. LockedWhileScanning'  BY DEF LockedWhileScanning
<1>4. RunningMeans'  BY DEF RunningMeans
<1>5. WaitedMeans'  BY DEF WaitedMeans, OneAnnounced, Announced, RunningMeans
<1>6. CountedWaiters'
  BY <1>0, WaitedFinite DEF CountedWaiters, OneAnnounced, Announced, Waited
<1>7. ScannedMeans'
  BY DEF ScannedMeans, OneAnnounced, Announced, WaitedMeans, cpus, RunningMeans
<1>8. SleepersMean'
  BY DEF SleepersMean, NoLostWakeup, AwaitingCond, AwaitingResume, OneAnnounced,
                          Announced, CountedWaiters
<1>9. ExclusiveSection'
  BY DEF ExclusiveSection, OneAnnounced, Announced, ScannedMeans, WaitedMeans
<1> QED  BY <1>1, <1>2, <1>3, <1>4, <1>5, <1>6, <1>7, <1>8, <1>9

\* The scan is complete: every CPU in guest code is marked and counted, so a
\* count of 0 means that the section may start.
LEMMA Step_ScanDone ==
  ASSUME IInv, NEW c \in CPUs, ScanDone(c)
  PROVE  IInv'
<1> USE CPUsAssumption DEF IInv, ScanDone, Go, listVars, scanVars, TypeOK,
                     Locations, UNASSIGNED_CPU_INDEX
<1>0. running_cpus = 0 => \A d \in CPUs : ~has_waiter[d]
  BY WaitedFinite DEF Waited, CountedWaiters
<1>1. TypeOK'  OBVIOUS
<1>2. OneAnnounced'  BY DEF OneAnnounced, Announced
<1>3. LockedWhileScanning'  BY DEF LockedWhileScanning
<1>4. RunningMeans'  BY DEF RunningMeans
<1>5. WaitedMeans'
  BY <1>0 DEF WaitedMeans, OneAnnounced, Announced, CountedWaiters
<1>6. CountedWaiters'  BY DEF CountedWaiters, OneAnnounced, Announced, Waited
<1>7. ScannedMeans'
  BY DEF ScannedMeans, OneAnnounced, Announced, WaitedMeans, cpus, RunningMeans
<1>8. SleepersMean'
  BY DEF SleepersMean, NoLostWakeup, AwaitingCond, AwaitingResume, OneAnnounced,
                          Announced, CountedWaiters
<1>9. ExclusiveSection'
  BY <1>0 DEF ExclusiveSection, OneAnnounced, Announced, ScannedMeans
<1> QED  BY <1>1, <1>2, <1>3, <1>4, <1>5, <1>6, <1>7, <1>8, <1>9

\* pending_cpus = 1 means that every marked CPU has left.
LEMMA Step_ExclusiveCondWoken ==
  ASSUME IInv, NEW c \in CPUs, ExclusiveCondWoken(c)
  PROVE  IInv'
<1> USE CPUsAssumption DEF IInv, ExclusiveCondWoken, Go, listVars, scanVars, TypeOK,
                     Locations, UNASSIGNED_CPU_INDEX
<1>0. pending_cpus <= 1 => \A d \in CPUs : ~has_waiter[d]
  BY WaitedFinite DEF Waited, CountedWaiters
<1>1. TypeOK'  OBVIOUS
<1>2. OneAnnounced'  BY DEF OneAnnounced, Announced
<1>3. LockedWhileScanning'  BY DEF LockedWhileScanning
<1>4. RunningMeans'  BY DEF RunningMeans
<1>5. WaitedMeans'
  BY <1>0 DEF WaitedMeans, OneAnnounced, Announced, CountedWaiters
<1>6. CountedWaiters'  BY DEF CountedWaiters, OneAnnounced, Announced, Waited
<1>7. ScannedMeans'
  BY DEF ScannedMeans, OneAnnounced, Announced, WaitedMeans, cpus, RunningMeans
<1>8. SleepersMean'
  BY DEF SleepersMean, NoLostWakeup, AwaitingCond, AwaitingResume, OneAnnounced,
                          Announced, CountedWaiters
<1>9. ExclusiveSection'
  BY <1>0 DEF ExclusiveSection, OneAnnounced, Announced, ScannedMeans
<1> QED  BY <1>1, <1>2, <1>3, <1>4, <1>5, <1>6, <1>7, <1>8, <1>9

\* end_exclusive: no CPU is marked, and all who wait to resume are woken.
LEMMA Step_end_exclusive ==
  ASSUME IInv, NEW c \in CPUs, end_exclusive(c)
  PROVE  IInv'
<1> USE CPUsAssumption DEF IInv, end_exclusive, Go, listVars, scanVars, TypeOK,
                     Locations, UNASSIGNED_CPU_INDEX
<1>1. TypeOK'  OBVIOUS
<1>2. OneAnnounced'  BY DEF OneAnnounced, Announced
<1>3. LockedWhileScanning'  BY DEF LockedWhileScanning
<1>4. RunningMeans'  BY DEF RunningMeans
<1>5. WaitedMeans'  BY DEF WaitedMeans, OneAnnounced, Announced, RunningMeans
<1>6. CountedWaiters'  BY DEF CountedWaiters, OneAnnounced, Announced, Waited
<1>7. ScannedMeans'
  BY DEF ScannedMeans, OneAnnounced, Announced, WaitedMeans, cpus, RunningMeans
<1>8. SleepersMean'
  BY DEF SleepersMean, NoLostWakeup, AwaitingCond, AwaitingResume, OneAnnounced,
                          Announced, CountedWaiters
<1>9. ExclusiveSection'
  BY DEF ExclusiveSection, OneAnnounced, Announced, ScannedMeans, WaitedMeans
<1> QED  BY <1>1, <1>2, <1>3, <1>4, <1>5, <1>6, <1>7, <1>8, <1>9

\* cpu_exec_start sets running before it looks at pending_cpus.
LEMMA Step_cpu_exec_start ==
  ASSUME IInv, NEW c \in CPUs, cpu_exec_start(c)
  PROVE  IInv'
<1> USE CPUsAssumption DEF IInv, cpu_exec_start, Go, listVars, scanVars, TypeOK,
                     Locations, UNASSIGNED_CPU_INDEX
<1>1. TypeOK'  OBVIOUS
<1>2. OneAnnounced'  BY DEF OneAnnounced, Announced
<1>3. LockedWhileScanning'  BY DEF LockedWhileScanning
<1>4. RunningMeans'  BY DEF RunningMeans
<1>5. WaitedMeans'  BY DEF WaitedMeans, OneAnnounced, Announced, RunningMeans
<1>6. CountedWaiters'  BY DEF CountedWaiters, OneAnnounced, Announced, Waited
<1>7. ScannedMeans'
  BY DEF ScannedMeans, OneAnnounced, Announced, WaitedMeans, cpus, RunningMeans
<1>8. SleepersMean'
  BY DEF SleepersMean, NoLostWakeup, AwaitingCond, AwaitingResume, OneAnnounced,
                          Announced, CountedWaiters
<1>9. ExclusiveSection'
  BY DEF ExclusiveSection, OneAnnounced, Announced, ScannedMeans, WaitedMeans
<1> QED  BY <1>1, <1>2, <1>3, <1>4, <1>5, <1>6, <1>7, <1>8, <1>9

\* The fast path enters guest code only when nobody is announced.
LEMMA Step_StartReadPending ==
  ASSUME IInv, NEW c \in CPUs, StartReadPending(c)
  PROVE  IInv'
<1> USE CPUsAssumption DEF IInv, StartReadPending, Go, listVars, scanVars, TypeOK,
                     Locations, UNASSIGNED_CPU_INDEX
<1>1. TypeOK'  OBVIOUS
<1>2. OneAnnounced'  BY DEF OneAnnounced, Announced
<1>3. LockedWhileScanning'  BY DEF LockedWhileScanning
<1>4. RunningMeans'  BY DEF RunningMeans
<1>5. WaitedMeans'  BY DEF WaitedMeans, OneAnnounced, Announced, RunningMeans
<1>6. CountedWaiters'  BY DEF CountedWaiters, OneAnnounced, Announced, Waited
<1>7. ScannedMeans'
  BY DEF ScannedMeans, OneAnnounced, Announced, WaitedMeans, cpus, RunningMeans
<1>8. SleepersMean'
  BY DEF SleepersMean, NoLostWakeup, AwaitingCond, AwaitingResume, OneAnnounced,
                          Announced, CountedWaiters
<1>9. ExclusiveSection'
  BY DEF ExclusiveSection, OneAnnounced, Announced, ScannedMeans, WaitedMeans
<1> QED  BY <1>1, <1>2, <1>3, <1>4, <1>5, <1>6, <1>7, <1>8, <1>9

\* The slow path enters guest code only when marked or nobody is announced.
LEMMA Step_StartLocked ==
  ASSUME IInv, NEW c \in CPUs, StartLocked(c)
  PROVE  IInv'
<1> USE CPUsAssumption DEF IInv, StartLocked, ExecIdle, Go, listVars, scanVars, TypeOK,
                     Locations, UNASSIGNED_CPU_INDEX
<1>1. TypeOK'  OBVIOUS
<1>2. OneAnnounced'  BY DEF OneAnnounced, Announced
<1>3. LockedWhileScanning'  BY DEF LockedWhileScanning
<1>4. RunningMeans'  BY DEF RunningMeans
<1>5. WaitedMeans'  BY DEF WaitedMeans, OneAnnounced, Announced, RunningMeans
<1>6. CountedWaiters'  BY DEF CountedWaiters, OneAnnounced, Announced, Waited
<1>7. ScannedMeans'
  BY DEF ScannedMeans, OneAnnounced, Announced, WaitedMeans, cpus, RunningMeans
<1>8. SleepersMean'
  BY DEF SleepersMean, NoLostWakeup, AwaitingCond, AwaitingResume, OneAnnounced,
                          Announced, CountedWaiters
<1>9. ExclusiveSection'
  BY DEF ExclusiveSection, OneAnnounced, Announced, ScannedMeans, WaitedMeans
<1> QED  BY <1>1, <1>2, <1>3, <1>4, <1>5, <1>6, <1>7, <1>8, <1>9

\* The same after a wakeup on exclusive_resume.
LEMMA Step_RetryExec ==
  ASSUME IInv, NEW c \in CPUs, RetryExec(c)
  PROVE  IInv'
<1> USE CPUsAssumption DEF IInv, RetryExec, ExecIdle, Go, listVars, scanVars, TypeOK,
                     Locations, UNASSIGNED_CPU_INDEX
<1>1. TypeOK'  OBVIOUS
<1>2. OneAnnounced'  BY DEF OneAnnounced, Announced
<1>3. LockedWhileScanning'  BY DEF LockedWhileScanning
<1>4. RunningMeans'  BY DEF RunningMeans
<1>5. WaitedMeans'  BY DEF WaitedMeans, OneAnnounced, Announced, RunningMeans
<1>6. CountedWaiters'  BY DEF CountedWaiters, OneAnnounced, Announced, Waited
<1>7. ScannedMeans'
  BY DEF ScannedMeans, OneAnnounced, Announced, WaitedMeans, cpus, RunningMeans
<1>8. SleepersMean'
  BY DEF SleepersMean, NoLostWakeup, AwaitingCond, AwaitingResume, OneAnnounced,
                          Announced, CountedWaiters
<1>9. ExclusiveSection'
  BY DEF ExclusiveSection, OneAnnounced, Announced, ScannedMeans, WaitedMeans
<1> QED  BY <1>1, <1>2, <1>3, <1>4, <1>5, <1>6, <1>7, <1>8, <1>9

\* cpu_exec_end: a marked CPU keeps its mark until it has the lock.
LEMMA Step_cpu_exec_end ==
  ASSUME IInv, NEW c \in CPUs, cpu_exec_end(c)
  PROVE  IInv'
<1> USE CPUsAssumption DEF IInv, cpu_exec_end, Go, listVars, scanVars, TypeOK,
                     Locations, UNASSIGNED_CPU_INDEX
<1>1. TypeOK'  OBVIOUS
<1>2. OneAnnounced'  BY DEF OneAnnounced, Announced
<1>3. LockedWhileScanning'  BY DEF LockedWhileScanning
<1>4. RunningMeans'  BY DEF RunningMeans
<1>5. WaitedMeans'  BY DEF WaitedMeans, OneAnnounced, Announced, RunningMeans
<1>6. CountedWaiters'  BY DEF CountedWaiters, OneAnnounced, Announced, Waited
<1>7. ScannedMeans'
  BY DEF ScannedMeans, OneAnnounced, Announced, WaitedMeans, cpus, RunningMeans
<1>8. SleepersMean'
  BY DEF SleepersMean, NoLostWakeup, AwaitingCond, AwaitingResume, OneAnnounced,
                          Announced, CountedWaiters
<1>9. ExclusiveSection'
  BY DEF ExclusiveSection, OneAnnounced, Announced, ScannedMeans, WaitedMeans
<1> QED  BY <1>1, <1>2, <1>3, <1>4, <1>5, <1>6, <1>7, <1>8, <1>9

\* The fast path of cpu_exec_end is not taken by a marked CPU.
LEMMA Step_EndReadPending ==
  ASSUME IInv, NEW c \in CPUs, EndReadPending(c)
  PROVE  IInv'
<1> USE CPUsAssumption DEF IInv, EndReadPending, Go, listVars, scanVars, TypeOK,
                     Locations, UNASSIGNED_CPU_INDEX
<1>1. TypeOK'  OBVIOUS
<1>2. OneAnnounced'  BY DEF OneAnnounced, Announced
<1>3. LockedWhileScanning'  BY DEF LockedWhileScanning
<1>4. RunningMeans'  BY DEF RunningMeans
<1>5. WaitedMeans'  BY DEF WaitedMeans, OneAnnounced, Announced, RunningMeans
<1>6. CountedWaiters'  BY DEF CountedWaiters, OneAnnounced, Announced, Waited
<1>7. ScannedMeans'
  BY DEF ScannedMeans, OneAnnounced, Announced, WaitedMeans, cpus, RunningMeans
<1>8. SleepersMean'
  BY DEF SleepersMean, NoLostWakeup, AwaitingCond, AwaitingResume, OneAnnounced,
                          Announced, CountedWaiters
<1>9. ExclusiveSection'
  BY DEF ExclusiveSection, OneAnnounced, Announced, ScannedMeans, WaitedMeans
<1> QED  BY <1>1, <1>2, <1>3, <1>4, <1>5, <1>6, <1>7, <1>8, <1>9

\* A marked CPU gives up its mark and its share of pending_cpus together; the
\* last one wakes the waiter.
LEMMA Step_EndLocked ==
  ASSUME IInv, NEW c \in CPUs, EndLocked(c)
  PROVE  IInv'
<1> USE CPUsAssumption DEF IInv, EndLocked, Go, listVars, scanVars, TypeOK,
                     Locations, UNASSIGNED_CPU_INDEX
<1>0. \/ /\ has_waiter[c] /\ pending_cpus > 1
         /\ Cardinality(Waited') = Cardinality(Waited) - 1
      \/ ~has_waiter[c] /\ Waited' = Waited
  <2>1. CASE has_waiter[c]
    <3>1. \E o \in CPUs : pc[o] = "excl_wait"
      BY <2>1 DEF WaitedMeans, LockedWhileScanning
    <3>2. /\ Cardinality(Waited') = Cardinality(Waited) - 1
          /\ Cardinality(Waited) > 0
      BY <2>1, WaitedRemove
    <3> QED  BY <2>1, <3>1, <3>2, WaitedFinite DEF CountedWaiters
  <2>2. CASE ~has_waiter[c]  BY <2>2 DEF Waited
  <2> QED  BY <2>1, <2>2
<1>1. TypeOK'  
  <2>1. pending_cpus' \in Nat  BY <1>0
  <2>2. asleep' \subseteq CPUs  BY <1>0
  <2> QED  BY <2>1, <2>2
<1>2. OneAnnounced'  BY <1>0 DEF OneAnnounced, Announced
<1>3. LockedWhileScanning'  BY DEF LockedWhileScanning
<1>4. RunningMeans'  BY DEF RunningMeans
<1>5. WaitedMeans'  BY DEF WaitedMeans, OneAnnounced, Announced, RunningMeans
<1>6. CountedWaiters'
  BY <1>0, WaitedFinite DEF CountedWaiters, OneAnnounced, Announced, LockedWhileScanning
<1>7. ScannedMeans'
  BY DEF ScannedMeans, OneAnnounced, Announced, WaitedMeans, cpus, RunningMeans
<1>8. SleepersMean'
  BY <1>0 DEF SleepersMean, NoLostWakeup, AwaitingCond, AwaitingResume, OneAnnounced, Announced
<1>9. ExclusiveSection'
  BY DEF ExclusiveSection, OneAnnounced, Announced, ScannedMeans, WaitedMeans
<1> QED  BY <1>1, <1>2, <1>3, <1>4, <1>5, <1>6, <1>7, <1>8, <1>9

\* CPU_FOREACH visits d: a running CPU gets its mark and is counted once.
LEMMA Step_ScanCpu ==
  ASSUME IInv, NEW c \in CPUs, NEW d \in CPUs, ScanCpu(c, d)
  PROVE  IInv'
<1> USE CPUsAssumption DEF IInv, ScanCpu, Go, listVars, scanVars, TypeOK,
                     Locations, UNASSIGNED_CPU_INDEX
<1>0. \/ /\ running_cpus' = running_cpus + 1
         /\ Cardinality(Waited') = Cardinality(Waited) + 1
      \/ running_cpus' = running_cpus /\ Waited' = Waited
  <2>1. CASE running[d]
    <3>1. ~has_waiter[d]  BY DEF ScannedMeans
    <3>2. has_waiter' = [has_waiter EXCEPT ![d] = TRUE]  BY <2>1
    <3>3. Cardinality(Waited') = Cardinality(Waited) + 1
      BY <3>1, <3>2, WaitedAdd
    <3> QED  BY <2>1, <3>3
  <2>2. CASE ~running[d]  BY <2>2 DEF Waited
  <2> QED  BY <2>1, <2>2
<1>1. TypeOK'  OBVIOUS
<1>2. OneAnnounced'  BY DEF OneAnnounced, Announced
<1>3. LockedWhileScanning'  BY DEF LockedWhileScanning
<1>4. RunningMeans'  BY DEF RunningMeans
<1>5. WaitedMeans'  BY DEF WaitedMeans, OneAnnounced, Announced, RunningMeans
<1>6. CountedWaiters'
  BY <1>0, WaitedFinite DEF CountedWaiters, OneAnnounced, Announced
<1>7. ScannedMeans'
  BY DEF ScannedMeans, OneAnnounced, Announced, RunningMeans
<1>8. SleepersMean'
  BY DEF SleepersMean, NoLostWakeup, AwaitingCond, AwaitingResume, OneAnnounced,
                          Announced, CountedWaiters
<1>9. ExclusiveSection'
  BY DEF ExclusiveSection, OneAnnounced, Announced, ScannedMeans, WaitedMeans
<1> QED  BY <1>1, <1>2, <1>3, <1>4, <1>5, <1>6, <1>7, <1>8, <1>9

-----------------------------------------------------------------------------
(* The invariant of every behaviour, and what follows from it *)

\* IInv is inductive: every action of every vCPU thread preserves it.
LEMMA NextIInv == IInv /\ [Next]_vars => IInv'
<1> SUFFICES ASSUME IInv, [Next]_vars PROVE IInv'  OBVIOUS
<1>1. CASE UNCHANGED vars
  BY <1>1 DEF vars, IInv, TypeOK, OneAnnounced, Announced, LockedWhileScanning,
       RunningMeans, WaitedMeans, CountedWaiters, Waited, ScannedMeans,
       SleepersMean, NoLostWakeup, AwaitingCond, AwaitingResume, ExclusiveSection
<1>2. ASSUME NEW c \in CPUs, NEW d \in CPUs, ScanCpu(c, d) PROVE IInv'
  BY <1>2, Step_ScanCpu
<1>3. CASE Next
  BY <1>2, <1>3, Step_cpu_list_add, Step_cpu_list_remove, Step_start_exclusive,
     Step_RetryExclusive, Step_ScanDone, Step_ExclusiveCondWoken,
     Step_end_exclusive, Step_cpu_exec_start, Step_StartReadPending,
     Step_StartLocked, Step_RetryExec, Step_cpu_exec_end, Step_EndReadPending,
     Step_EndLocked, Step_SpuriousWakeup
  DEF Next
<1> QED  BY <1>1, <1>3

\* IInv holds in every reachable state, for every finite set of vCPUs.
THEOREM Invariance == Spec => []IInv
<1> QED  BY InitIInv, NextIInv, PTL DEF Spec

\* The variables keep their types; in particular pending_cpus never goes
\* negative, although cpu_exec_end decrements it without looking.
THEOREM TypeCorrect == Spec => []TypeOK
<1>1. IInv => TypeOK  BY DEF IInv
<1> QED  BY <1>1, Invariance, PTL

\* start_exclusive's contract: no vCPU is in guest code while a thread is in
\* its exclusive section, and there is at most one such thread.
THEOREM ExclusiveSectionSafe == Spec => []ExclusiveSection
<1>1. IInv => ExclusiveSection  BY DEF IInv
<1> QED  BY <1>1, Invariance, PTL

\* A thread sleeps on exclusive_cond or exclusive_resume only while somebody
\* is going to signal it: no wakeup is lost.
THEOREM NoWakeupLost == Spec => []NoLostWakeup
<1>1. IInv => NoLostWakeup  BY DEF IInv, SleepersMean
<1> QED  BY <1>1, Invariance, PTL

\* cpu_list_add gives the new CPU an index above all others, and no other
\* action assigns one.
LEMMA NextUniqueIndex == IInv /\ UniqueIndex /\ [Next]_vars => UniqueIndex'
<1> SUFFICES ASSUME IInv, UniqueIndex, [Next]_vars PROVE UniqueIndex'  OBVIOUS
<1>1. TypeOK  BY DEF IInv
<1>2. CASE UNCHANGED cpu_index  BY <1>2 DEF UniqueIndex, cpus
<1>3. ASSUME NEW c \in CPUs, cpu_list_add(c) PROVE UniqueIndex'
  <2>1. PICK n \in 0..MaxCpuIndex :
          cpu_get_free_index(n) /\ cpu_index' = [cpu_index EXCEPT ![c] = n]
    BY <1>3 DEF cpu_list_add
  <2> QED  BY <1>1, <2>1 DEF UniqueIndex, cpus, cpu_get_free_index, TypeOK
<1>4. ASSUME NEW c \in CPUs, cpu_list_remove(c) PROVE UniqueIndex'
  BY <1>1, <1>4 DEF cpu_list_remove, UniqueIndex, cpus, TypeOK
<1>5. ASSUME Next, \A d \in CPUs : ~cpu_list_add(d) /\ ~cpu_list_remove(d)
      PROVE  UNCHANGED cpu_index
  BY <1>5 DEF Next, start_exclusive, RetryExclusive, AfterIdle, ScanCpu, ScanDone,
     ExclusiveCondWoken, end_exclusive, cpu_exec_start, StartReadPending,
     StartLocked, RetryExec, ExecIdle, cpu_exec_end, EndReadPending, EndLocked,
     SpuriousWakeup, listVars
<1> QED  BY <1>2, <1>3, <1>4, <1>5 DEF Next, vars

\* Two listed CPUs never share a cpu_index, whatever was plugged and
\* unplugged before: qemu_get_cpu(index) is well defined.
THEOREM IndexUnique == Spec => []UniqueIndex
<1>1. Init => UniqueIndex  BY DEF Init, UniqueIndex, cpus
<1> QED  BY <1>1, NextUniqueIndex, Invariance, PTL DEF Spec

-----------------------------------------------------------------------------
(* Refinement of ExclusiveAccess *)

\* A step that moves no thread into or out of guest code or an exclusive
\* section is a stutter of ExclusiveAccess.
LEMMA Stutter ==
  ASSUME \A d \in CPUs : /\ pc[d] = "exec" <=> pc'[d] = "exec"
                         /\ pc[d] = "exclusive" <=> pc'[d] = "exclusive"
  PROVE  UNCHANGED <<Executing, ExclusiveOwner>>
<1>1. Executing' = Executing  BY DEF Executing
<1>2. \A d \in CPUs : (pc[d] = "exclusive") = (pc'[d] = "exclusive")  OBVIOUS
<1>3. ExclusiveOwner' = ExclusiveOwner  BY <1>2 DEF ExclusiveOwner
<1> QED  BY <1>1, <1>3

\* A vCPU thread that enters guest code takes shared access: nobody is in an
\* exclusive section then.
LEMMA EnterStep ==
  ASSUME IInv, IInv', NEW c \in CPUs, pc[c] \in {"start_read", "start_lock", "start_idle"},
         pc' = [pc EXCEPT ![c] = "exec"]
  PROVE  Access!Enter(c)
<1>1. Executing' = Executing \cup {c} /\ c \notin Executing
  BY DEF Executing, IInv, TypeOK
<1>2. pc'[c] = "exec"  BY DEF IInv, TypeOK
<1>3. \A d \in CPUs : pc'[d] # "exclusive"  BY <1>2 DEF IInv, ExclusiveSection
<1>4. \A d \in CPUs : pc[d] # "exclusive"  BY <1>3 DEF IInv, TypeOK
<1>5. ExclusiveOwner = NoCpu  BY <1>4 DEF ExclusiveOwner
<1>6. ExclusiveOwner' = NoCpu  BY <1>3 DEF ExclusiveOwner
<1> QED  BY <1>1, <1>5, <1>6 DEF Access!Enter

\* cpu_exec_end gives shared access up.
LEMMA LeaveStep ==
  ASSUME IInv, IInv', NEW c \in CPUs, cpu_exec_end(c)
  PROVE  Access!Leave(c)
<1>1. pc[c] = "exec" /\ pc' = [pc EXCEPT ![c] = "end_read"]
  BY DEF cpu_exec_end, Go
<1>2. Executing' = Executing \ {c} /\ c \in Executing
  BY <1>1 DEF Executing, IInv, TypeOK
<1>3. \A d \in CPUs : pc[d] # "exclusive"  BY <1>1 DEF IInv, ExclusiveSection
<1>4. \A d \in CPUs : pc'[d] # "exclusive"  BY <1>1, <1>3 DEF IInv, TypeOK
<1>5. ExclusiveOwner = NoCpu  BY <1>3 DEF ExclusiveOwner
<1>6. ExclusiveOwner' = NoCpu  BY <1>4 DEF ExclusiveOwner
<1> QED  BY <1>2, <1>5, <1>6 DEF Access!Leave

\* A thread that enters its exclusive section finds no sharer and no owner.
LEMMA AcquireStep ==
  ASSUME IInv, IInv', NEW c \in CPUs, pc[c] \in {"excl_scan", "excl_wait"},
         pc' = [pc EXCEPT ![c] = "exclusive"]
  PROVE  Access!Acquire(c)
<1>1. pc'[c] = "exclusive"  BY DEF IInv, TypeOK
<1>2. ExclusiveOwner' = c
  <2>1. \A d \in CPUs : pc'[d] = "exclusive" <=> d = c
    BY <1>1 DEF IInv, ExclusiveSection
  <2> QED  BY <2>1 DEF ExclusiveOwner
<1>3. \A d \in CPUs : pc[d] # "exclusive"
  BY DEF IInv, OneAnnounced, Announced
<1>4. ExclusiveOwner = NoCpu  BY <1>3 DEF ExclusiveOwner
<1>5. \A d \in CPUs : pc'[d] # "exec"  BY <1>1 DEF IInv, ExclusiveSection
<1>6. Executing' = {}  BY <1>5 DEF Executing
<1>7. Executing = {}  BY <1>5 DEF Executing, IInv, TypeOK
<1> QED  BY <1>2, <1>4, <1>6, <1>7 DEF Access!Acquire

\* end_exclusive gives exclusive access up.
LEMMA ReleaseStep ==
  ASSUME IInv, NEW c \in CPUs, end_exclusive(c)
  PROVE  Access!Release(c)
<1>1. pc[c] = "exclusive" /\ pc' = [pc EXCEPT ![c] = "outside"]
  BY DEF end_exclusive, Go
<1>2. \A d \in CPUs : pc[d] = "exclusive" <=> d = c
  BY <1>1 DEF IInv, ExclusiveSection
<1>3. ExclusiveOwner = c  BY <1>2 DEF ExclusiveOwner
<1>4. \A d \in CPUs : pc'[d] # "exclusive"  BY <1>1, <1>2 DEF IInv, TypeOK
<1>5. ExclusiveOwner' = NoCpu  BY <1>4 DEF ExclusiveOwner
<1>6. Executing' = Executing  BY <1>1 DEF Executing, IInv, TypeOK
<1> QED  BY <1>3, <1>5, <1>6 DEF Access!Release

\* Every step of the protocol is a step of ExclusiveAccess or a stutter.
LEMMA NextAccess ==
  IInv /\ IInv' /\ [Next]_vars => [Access!Next]_(Access!vars)
<1> SUFFICES ASSUME IInv, IInv', [Next]_vars
             PROVE  Access!Next \/ UNCHANGED <<Executing, ExclusiveOwner>>
  BY DEF Access!vars
<1> USE DEF Go
<1>1. CASE UNCHANGED vars  BY <1>1, Stutter DEF vars
<1>2. ASSUME NEW c \in CPUs, NEW loc \in Locations,
             pc[c] \notin {"exec", "exclusive"}, loc \notin {"exec", "exclusive"},
             pc' = [pc EXCEPT ![c] = loc]
      PROVE  UNCHANGED <<Executing, ExclusiveOwner>>
  BY <1>2, Stutter DEF IInv, TypeOK
<1>3. ASSUME NEW c \in CPUs, cpu_list_add(c) \/ cpu_list_remove(c) \/ start_exclusive(c)
               \/ RetryExclusive(c) \/ cpu_exec_start(c) \/ EndReadPending(c) \/ EndLocked(c)
      PROVE  UNCHANGED <<Executing, ExclusiveOwner>>
  BY <1>2, <1>3 DEF cpu_list_add, cpu_list_remove, start_exclusive, RetryExclusive, AfterIdle,
       cpu_exec_start, EndReadPending, EndLocked, Locations
<1>4. ASSUME NEW c \in CPUs, SpuriousWakeup(c) \/ \E d \in CPUs : ScanCpu(c, d)
      PROVE  UNCHANGED <<Executing, ExclusiveOwner>>
  BY <1>4, Stutter DEF SpuriousWakeup, ScanCpu
<1>5. ASSUME NEW c \in CPUs, ScanDone(c) \/ ExclusiveCondWoken(c)
      PROVE  Access!Acquire(c) \/ UNCHANGED <<Executing, ExclusiveOwner>>
  BY <1>2, <1>5, AcquireStep, Stutter DEF ScanDone, ExclusiveCondWoken, Locations
<1>6. ASSUME NEW c \in CPUs, StartReadPending(c) \/ StartLocked(c) \/ RetryExec(c)
      PROVE  Access!Enter(c) \/ UNCHANGED <<Executing, ExclusiveOwner>>
  BY <1>2, <1>6, EnterStep DEF StartReadPending, StartLocked, RetryExec, ExecIdle, Locations
<1>7. CASE Next
  BY <1>3, <1>4, <1>5, <1>6, <1>7, LeaveStep, ReleaseStep DEF Next, Access!Next
<1> QED  BY <1>1, <1>7

\* cpu_exec_start/end and start/end_exclusive implement shared and exclusive
\* access to guest execution, for every finite set of vCPUs.
THEOREM RefinesAccess == Spec => ImplementsAccess
<1>1. Init => Access!Init
  BY DEF Init, Access!Init, Executing, ExclusiveOwner
<1> QED  BY <1>1, Invariance, NextAccess, PTL DEF Spec, ImplementsAccess, Access!Spec
=============================================================================
