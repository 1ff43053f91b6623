----------------------------- MODULE RcuProofs -----------------------------
(***************************************************************************)
(* Proofs about Rcu for every set of threads, every width of unsigned int  *)
(* and both algorithms.  RcuInv is inductive; that synchronize_rcu waits   *)
(* for the open sections, and is woken, follows from it, and holds when    *)
(* the call_rcu thread and its queue are added.                            *)
(***************************************************************************)
EXTENDS CallRcu, SequencesExt, FiniteSetTheorems, SequenceTheorems, TLAPS

-----------------------------------------------------------------------------
(* What the list operations do to the elements of a queue and to its being *)
(* free of duplicates                                                      *)

\* Appending (enqueue).
LEMMA QueueAppend ==
  ASSUME NEW S, NEW q \in Seq(S), NEW c \in S
  PROVE  /\ Append(q, c) \in Seq(S)
         /\ Append(q, c) # <<>>
         /\ ToSet(Append(q, c)) = ToSet(q) \cup {c}
         /\ Head(Append(q, c)) = IF q = <<>> THEN c ELSE Head(q)
         /\ IsInjective(q) /\ c \notin ToSet(q) => IsInjective(Append(q, c))
<1> DEFINE r == Append(q, c)
<1>1. r \in Seq(S) /\ r # <<>> /\ Len(r) = Len(q) + 1
      /\ (\A i \in 1..Len(q) : r[i] = q[i]) /\ r[Len(q) + 1] = c
  BY AppendProperties
<1>2. DOMAIN q = 1..Len(q) /\ DOMAIN r = 1..(Len(q) + 1) /\ Len(q) \in Nat
  BY <1>1, LenProperties
<1> HIDE DEF r
<1>3. ToSet(r) = ToSet(q) \cup {c}  BY <1>1, <1>2 DEF ToSet
<1>4. IsInjective(q) /\ c \notin ToSet(q) => IsInjective(r)
  BY <1>1, <1>2 DEF ToSet, IsInjective
<1> QED  BY <1>1, <1>3, <1>4, HeadTailAppend DEF r

\* Taking the first element off (try_dequeue).
LEMMA QueueTail ==
  ASSUME NEW S, NEW q \in Seq(S), q # <<>>
  PROVE  /\ Head(q) \in ToSet(q)
         /\ Head(q) \in S
         /\ Tail(q) \in Seq(S)
         /\ IsInjective(q) => /\ IsInjective(Tail(q))
                              /\ ToSet(Tail(q)) = ToSet(q) \ {Head(q)}
<1> DEFINE t == Tail(q)
<1>1. /\ Head(q) \in S /\ t \in Seq(S)
      /\ Len(t) = Len(q) - 1 /\ \A i \in 1..Len(t) : t[i] = q[i + 1]
  BY HeadTailProperties
<1>2. DOMAIN q = 1..Len(q) /\ DOMAIN t = 1..(Len(q) - 1) /\ Len(q) \in Nat \ {0}
  BY <1>1, LenProperties, EmptySeq
<1>3. Head(q) = q[1]  OBVIOUS
<1> HIDE DEF t
<1>4. Head(q) \in ToSet(q)  BY <1>2, <1>3 DEF ToSet
<1>5. ASSUME IsInjective(q) PROVE IsInjective(t)
  <2>1. ASSUME NEW i \in 1..(Len(q) - 1), NEW j \in 1..(Len(q) - 1), t[i] = t[j]
        PROVE  i = j
    <3>1. i + 1 \in DOMAIN q /\ j + 1 \in DOMAIN q /\ q[i + 1] = q[j + 1]
      BY <1>1, <1>2, <2>1
    <3>2. i + 1 = j + 1  BY <1>5, <3>1 DEF IsInjective
    <3> QED  BY <3>2
  <2> QED  BY <1>2, <2>1 DEF IsInjective
<1>6. ASSUME IsInjective(q) PROVE ToSet(t) = ToSet(q) \ {Head(q)}
  <2>1. ASSUME NEW i \in 1..(Len(q) - 1) PROVE t[i] \in ToSet(q) \ {q[1]}
    BY <1>1, <1>2, <1>6, <2>1 DEF IsInjective, ToSet
  <2>2. ASSUME NEW i \in 1..Len(q), q[i] # q[1] PROVE q[i] \in ToSet(t)
    <3>1. i - 1 \in 1..(Len(q) - 1) /\ q[i] = t[i - 1]  BY <1>1, <1>2, <2>2
    <3> QED  BY <3>1, <1>2 DEF ToSet
  <2> QED  BY <1>2, <1>3, <2>1, <2>2 DEF ToSet
<1> QED  BY <1>1, <1>4, <1>5, <1>6 DEF t

\* rcu_gp_ctr is odd and an unsigned int has an even number of values, so what
\* rcu_read_lock keeps of the counter is odd: never 0, which means "no section".
LEMMA Truncated ==
  ASSUME NEW x \in Nat, x % 2 = 1
  PROVE  /\ x % UIntRange \in 0..(UIntRange - 1)
         /\ x % UIntRange # 0
         /\ x % UIntRange <= x
<1>1. UIntRange \in Nat /\ UIntRange > 0 /\ UIntRange % 2 = 0  BY UIntAssumption
<1>2. x % UIntRange \in 0..(UIntRange - 1)  BY <1>1
<1>3. x = UIntRange * (x \div UIntRange) + (x % UIntRange) /\ x \div UIntRange \in Nat
  BY <1>1
<1>4. PICK k \in Nat : UIntRange = 2 * k  BY <1>1
<1>5. x % UIntRange # 0
  <2> SUFFICES ASSUME x % UIntRange = 0 PROVE FALSE  OBVIOUS
  <2> DEFINE q == x \div UIntRange
  <2>1. q \in Nat /\ x = (2 * k) * q  BY <1>3, <1>4
  <2> HIDE DEF q
  <2> DEFINE m == k * q
  <2>2. m \in Nat /\ x = 2 * m  BY <2>1, <1>4
  <2> HIDE DEF m
  <2> QED  BY <2>2
<1>6. x % UIntRange <= x  BY <1>1
<1> QED  BY <1>2, <1>5, <1>6

LEMMA InitRcuInv == RcuInit => RcuInv
  BY UIntAssumption, BoundsAssumption DEF RcuInit, RcuInv, RcuTypeOK, OneUpdater,
        SectionsAreMarked, Inside,
     QsreadersInUse, CounterAhead, Awaited, WakeupsAccounted, GracePeriod,
           SyncLocations,
     WalkLocations, ReadLocations, AfterFlip, RCU_GP_LOCKED

\* A thread that registers joins the registry while it is not being walked.
LEMMA Step_rcu_register_thread ==
  ASSUME RcuInv, NEW t \in Threads, rcu_register_thread(t)
  PROVE  RcuInv'
<1> USE SizesAssumption, UIntAssumption, BoundsAssumption DEF RcuInv,
      rcu_register_thread, Go, Inside, Registered, RegistryUnlocked,
      readerVars, syncVars, SyncLocations, WalkLocations, ReadLocations, RcuTypeOK,
      RCU_GP_LOCKED, RCU_GP_CTR
<1>1. RcuTypeOK'  OBVIOUS
<1>2. OneUpdater'  BY DEF OneUpdater
<1>3. SectionsAreMarked'  BY DEF SectionsAreMarked
<1>4. QsreadersInUse'  BY DEF QsreadersInUse, AfterFlip, OneUpdater
<1>5. CounterAhead'  BY DEF CounterAhead
<1>6. Awaited'
  BY DEF Awaited, OneUpdater, SectionsAreMarked, QsreadersInUse, CounterAhead,
     AfterFlip, Ongoing
<1>7. WakeupsAccounted'
  BY DEF WakeupsAccounted, WillWake, OneUpdater, SectionsAreMarked, Ongoing
<1>8. GracePeriod'
  BY DEF GracePeriod, Awaited, OneUpdater, AfterFlip, SectionsAreMarked,
     QsreadersInUse
<1> QED  BY <1>1, <1>2, <1>3, <1>4, <1>5, <1>6, <1>7, <1>8

\* A thread that unregisters is in no section, so nobody waits for it.
LEMMA Step_rcu_unregister_thread ==
  ASSUME RcuInv, NEW t \in Threads, rcu_unregister_thread(t)
  PROVE  RcuInv'
<1> USE SizesAssumption, UIntAssumption, BoundsAssumption DEF RcuInv,
      rcu_unregister_thread, Go, Inside, Registered, RegistryUnlocked,
      readerVars, syncVars, SyncLocations, WalkLocations, ReadLocations, RcuTypeOK,
      RCU_GP_LOCKED, RCU_GP_CTR
<1>1. RcuTypeOK'  OBVIOUS
<1>2. OneUpdater'  BY DEF OneUpdater
<1>3. SectionsAreMarked'  BY DEF SectionsAreMarked
<1>4. QsreadersInUse'  BY DEF QsreadersInUse, AfterFlip, OneUpdater
<1>5. CounterAhead'  BY DEF CounterAhead
<1>6. Awaited'
  BY DEF Awaited, OneUpdater, SectionsAreMarked, QsreadersInUse, CounterAhead,
     AfterFlip, Ongoing
<1>7. WakeupsAccounted'
  BY DEF WakeupsAccounted, WillWake, OneUpdater, SectionsAreMarked, Ongoing
<1>8. GracePeriod'
  BY DEF GracePeriod, Awaited, OneUpdater, AfterFlip, SectionsAreMarked,
     QsreadersInUse
<1> QED  BY <1>1, <1>2, <1>3, <1>4, <1>5, <1>6, <1>7, <1>8

\* rcu_read_lock notes a value of rcu_gp_ctr that is not 0.
LEMMA Step_rcu_read_lock ==
  ASSUME RcuInv, NEW t \in Threads, rcu_read_lock(t)
  PROVE  RcuInv'
<1> USE SizesAssumption, UIntAssumption, BoundsAssumption DEF RcuInv, rcu_read_lock,
      Go, Inside, Registered, RegistryUnlocked,
      readerVars, syncVars, SyncLocations, WalkLocations, ReadLocations, RcuTypeOK,
      RCU_GP_LOCKED, RCU_GP_CTR
<1>1. RcuTypeOK'  BY Truncated
<1>2. OneUpdater'  BY DEF OneUpdater
<1>3. SectionsAreMarked'
  <2> SUFFICES ASSUME NEW r \in Threads PROVE SectionsAreMarked!(r)'
    BY DEF SectionsAreMarked
  <2>1. CASE r = t /\ depth[t] > 0
    <3>1. t \in Inside /\ depth'[t] > 0 /\ pc' = pc  BY <2>1
    <3>2. t \in Inside'  BY <3>1
    <3> QED  BY <2>1, <3>1, <3>2 DEF SectionsAreMarked
  <2>2. CASE r = t /\ depth[t] = 0
    <3>1. t \notin Inside /\ pc'[t] = "lock"  BY <2>2
    <3>2. t \notin Inside'  BY <3>1
    <3>3. rcu_gp_ctr % UIntRange # 0  BY Truncated
    <3>4. snap'[t] # 0  BY <2>2, <3>3
    <3> QED  BY <2>2, <3>1, <3>2, <3>4 DEF SectionsAreMarked
  <2>3. CASE r # t  BY <2>3 DEF SectionsAreMarked
  <2> QED  BY <2>1, <2>2, <2>3
<1>4. QsreadersInUse'  BY DEF QsreadersInUse, AfterFlip, OneUpdater
<1>5. CounterAhead'  BY Truncated DEF CounterAhead
<1>6. Awaited'
  BY DEF Awaited, OneUpdater, SectionsAreMarked, QsreadersInUse, CounterAhead,
     AfterFlip, Ongoing
<1>7. WakeupsAccounted'
  BY DEF WakeupsAccounted, WillWake, OneUpdater, SectionsAreMarked, Ongoing
<1>8. GracePeriod'
  BY DEF GracePeriod, Awaited, OneUpdater, AfterFlip, SectionsAreMarked,
     QsreadersInUse
<1> QED  BY <1>1, <1>2, <1>3, <1>4, <1>5, <1>6, <1>7, <1>8

\* A new section is not among those to wait for.
LEMMA Step_StoreCtr ==
  ASSUME RcuInv, NEW t \in Threads, StoreCtr(t)
  PROVE  RcuInv'
<1> USE SizesAssumption, UIntAssumption, BoundsAssumption DEF RcuInv, StoreCtr, Go,
      Inside, Registered, RegistryUnlocked,
      readerVars, syncVars, SyncLocations, WalkLocations, ReadLocations, RcuTypeOK,
      RCU_GP_LOCKED, RCU_GP_CTR
<1>1. RcuTypeOK'  OBVIOUS
<1>2. OneUpdater'  BY DEF OneUpdater
<1>3. SectionsAreMarked'
  <2> SUFFICES ASSUME NEW r \in Threads PROVE SectionsAreMarked!(r)'
    BY DEF SectionsAreMarked
  <2>1. CASE r = t
    <3>1. depth[t] > 0 /\ snap[t] # 0
      BY DEF SectionsAreMarked
    <3>2. t \in Inside' /\ ctr'[t] # 0 /\ pc'[t] = "run"  BY <3>1
    <3> QED  BY <2>1, <3>2 DEF SectionsAreMarked
  <2>2. CASE r # t  BY <2>2 DEF SectionsAreMarked
  <2> QED  BY <2>1, <2>2
<1>4. QsreadersInUse'  BY DEF QsreadersInUse, AfterFlip, OneUpdater
<1>5. CounterAhead'  BY DEF CounterAhead
<1>6. Awaited'
  BY DEF Awaited, OneUpdater, SectionsAreMarked, QsreadersInUse, CounterAhead,
     AfterFlip, Ongoing
<1>7. WakeupsAccounted'
  BY DEF WakeupsAccounted, WillWake, OneUpdater, SectionsAreMarked, Ongoing
<1>8. GracePeriod'
  BY DEF GracePeriod, Awaited, OneUpdater, AfterFlip, SectionsAreMarked,
     QsreadersInUse
<1> QED  BY <1>1, <1>2, <1>3, <1>4, <1>5, <1>6, <1>7, <1>8

\* The end of a section.
LEMMA Step_rcu_read_unlock ==
  ASSUME RcuInv, NEW t \in Threads, rcu_read_unlock(t)
  PROVE  RcuInv'
<1> USE SizesAssumption, UIntAssumption, BoundsAssumption DEF RcuInv, rcu_read_unlock,
      Go, Inside, Registered, RegistryUnlocked,
      readerVars, syncVars, SyncLocations, WalkLocations, ReadLocations, RcuTypeOK,
      RCU_GP_LOCKED, RCU_GP_CTR
<1>1. RcuTypeOK'  OBVIOUS
<1>2. OneUpdater'  BY DEF OneUpdater
<1>3. SectionsAreMarked'  BY DEF SectionsAreMarked
<1>4. QsreadersInUse'  BY DEF QsreadersInUse, AfterFlip, OneUpdater
<1>5. CounterAhead'  BY DEF CounterAhead
<1>6. Awaited'
  BY DEF Awaited, OneUpdater, SectionsAreMarked, QsreadersInUse, CounterAhead,
     AfterFlip, Ongoing
<1>7. WakeupsAccounted'
  BY DEF WakeupsAccounted, WillWake, OneUpdater, SectionsAreMarked, Ongoing
<1>8. GracePeriod'
  BY DEF GracePeriod, Awaited, OneUpdater, AfterFlip, SectionsAreMarked,
     QsreadersInUse
<1> QED  BY <1>1, <1>2, <1>3, <1>4, <1>5, <1>6, <1>7, <1>8

\* A reader that finds waiting set goes on to wake the updater.
LEMMA Step_ReadWaiting ==
  ASSUME RcuInv, NEW t \in Threads, ReadWaiting(t)
  PROVE  RcuInv'
<1> USE SizesAssumption, UIntAssumption, BoundsAssumption DEF RcuInv, ReadWaiting, Go,
      Inside, Registered, RegistryUnlocked,
      readerVars, syncVars, SyncLocations, WalkLocations, ReadLocations, RcuTypeOK,
      RCU_GP_LOCKED, RCU_GP_CTR
<1>1. RcuTypeOK'  OBVIOUS
<1>2. OneUpdater'  BY DEF OneUpdater
<1>3. SectionsAreMarked'  BY DEF SectionsAreMarked
<1>4. QsreadersInUse'  BY DEF QsreadersInUse, AfterFlip, OneUpdater
<1>5. CounterAhead'  BY DEF CounterAhead
<1>6. Awaited'
  BY DEF Awaited, OneUpdater, SectionsAreMarked, QsreadersInUse, CounterAhead,
     AfterFlip, Ongoing
<1>7. WakeupsAccounted'
  BY DEF WakeupsAccounted, WillWake, OneUpdater, SectionsAreMarked, Ongoing
<1>8. GracePeriod'
  BY DEF GracePeriod, Awaited, OneUpdater, AfterFlip, SectionsAreMarked,
     QsreadersInUse
<1> QED  BY <1>1, <1>2, <1>3, <1>4, <1>5, <1>6, <1>7, <1>8

\* It resets waiting, and still has to set the event.
LEMMA Step_ClearWaiting ==
  ASSUME RcuInv, NEW t \in Threads, ClearWaiting(t)
  PROVE  RcuInv'
<1> USE SizesAssumption, UIntAssumption, BoundsAssumption DEF RcuInv, ClearWaiting,
      Go, Inside, Registered, RegistryUnlocked,
      readerVars, syncVars, SyncLocations, WalkLocations, ReadLocations, RcuTypeOK,
      RCU_GP_LOCKED, RCU_GP_CTR
<1>1. RcuTypeOK'  OBVIOUS
<1>2. OneUpdater'  BY DEF OneUpdater
<1>3. SectionsAreMarked'  BY DEF SectionsAreMarked
<1>4. QsreadersInUse'  BY DEF QsreadersInUse, AfterFlip, OneUpdater
<1>5. CounterAhead'  BY DEF CounterAhead
<1>6. Awaited'
  BY DEF Awaited, OneUpdater, SectionsAreMarked, QsreadersInUse, CounterAhead,
     AfterFlip, Ongoing
<1>7. WakeupsAccounted'
  BY DEF WakeupsAccounted, WillWake, OneUpdater, SectionsAreMarked, Ongoing
<1>8. GracePeriod'
  BY DEF GracePeriod, Awaited, OneUpdater, AfterFlip, SectionsAreMarked,
     QsreadersInUse
<1> QED  BY <1>1, <1>2, <1>3, <1>4, <1>5, <1>6, <1>7, <1>8

\* It sets the event.
LEMMA Step_WakeUpdater ==
  ASSUME RcuInv, NEW t \in Threads, WakeUpdater(t)
  PROVE  RcuInv'
<1> USE SizesAssumption, UIntAssumption, BoundsAssumption DEF RcuInv, WakeUpdater, Go,
      Inside, Registered, RegistryUnlocked,
      readerVars, syncVars, SyncLocations, WalkLocations, ReadLocations, RcuTypeOK,
      RCU_GP_LOCKED, RCU_GP_CTR
<1>1. RcuTypeOK'  OBVIOUS
<1>2. OneUpdater'  BY DEF OneUpdater
<1>3. SectionsAreMarked'  BY DEF SectionsAreMarked
<1>4. QsreadersInUse'  BY DEF QsreadersInUse, AfterFlip, OneUpdater
<1>5. CounterAhead'  BY DEF CounterAhead
<1>6. Awaited'
  BY DEF Awaited, OneUpdater, SectionsAreMarked, QsreadersInUse, CounterAhead,
     AfterFlip, Ongoing
<1>7. WakeupsAccounted'
  BY DEF WakeupsAccounted, WillWake, OneUpdater, SectionsAreMarked, Ongoing
<1>8. GracePeriod'
  BY DEF GracePeriod, Awaited, OneUpdater, AfterFlip, SectionsAreMarked,
     QsreadersInUse
<1> QED  BY <1>1, <1>2, <1>3, <1>4, <1>5, <1>6, <1>7, <1>8

\* A grace period begins; without registered threads no section is open.
LEMMA Step_synchronize_rcu ==
  ASSUME RcuInv, NEW t \in Threads, synchronize_rcu(t)
  PROVE  RcuInv'
<1> USE SizesAssumption, UIntAssumption, BoundsAssumption DEF RcuInv, synchronize_rcu,
      Go, Inside, Registered, RegistryUnlocked,
      readerVars, syncVars, SyncLocations, WalkLocations, ReadLocations, RcuTypeOK,
      RCU_GP_LOCKED, RCU_GP_CTR
<1>1. RcuTypeOK'  OBVIOUS
<1>2. OneUpdater'  BY DEF OneUpdater
<1>3. SectionsAreMarked'  BY DEF SectionsAreMarked
<1>4. QsreadersInUse'  BY DEF QsreadersInUse, AfterFlip, OneUpdater
<1>5. CounterAhead'  BY DEF CounterAhead
<1>6. Awaited'
  BY DEF Awaited, OneUpdater, SectionsAreMarked, QsreadersInUse, CounterAhead,
     AfterFlip, Ongoing
<1>7. WakeupsAccounted'
  BY DEF WakeupsAccounted, WillWake, OneUpdater, SectionsAreMarked, Ongoing
<1>8. GracePeriod'
  BY DEF GracePeriod, Awaited, OneUpdater, AfterFlip, SectionsAreMarked,
     QsreadersInUse
<1> QED  BY <1>1, <1>2, <1>3, <1>4, <1>5, <1>6, <1>7, <1>8

\* The counter moves away from the value of the sections to wait for.
LEMMA Step_FlipCtr ==
  ASSUME RcuInv, NEW t \in Threads, FlipCtr(t)
  PROVE  RcuInv'
<1> USE SizesAssumption, UIntAssumption, BoundsAssumption DEF RcuInv, FlipCtr, Go,
      Inside, Registered, RegistryUnlocked,
      readerVars, syncVars, SyncLocations, WalkLocations, ReadLocations, RcuTypeOK,
      RCU_GP_LOCKED, RCU_GP_CTR, FlipParity
<1>1. RcuTypeOK'  OBVIOUS
<1>2. OneUpdater'  BY DEF OneUpdater
<1>3. SectionsAreMarked'  BY DEF SectionsAreMarked
<1>4. QsreadersInUse'  BY DEF QsreadersInUse, AfterFlip, OneUpdater
<1>5. CounterAhead'  BY DEF CounterAhead
<1>6. Awaited'
  BY DEF Awaited, OneUpdater, SectionsAreMarked, QsreadersInUse, CounterAhead,
     AfterFlip, Ongoing
<1>7. WakeupsAccounted'
  BY DEF WakeupsAccounted, WillWake, OneUpdater, SectionsAreMarked, Ongoing
<1>8. GracePeriod'
  BY DEF GracePeriod, Awaited, OneUpdater, AfterFlip, SectionsAreMarked,
     QsreadersInUse
<1> QED  BY <1>1, <1>2, <1>3, <1>4, <1>5, <1>6, <1>7, <1>8

\* A walk begins with the event reset.
LEMMA Step_ResetEvent ==
  ASSUME RcuInv, NEW t \in Threads, ResetEvent(t)
  PROVE  RcuInv'
<1> USE SizesAssumption, UIntAssumption, BoundsAssumption DEF RcuInv, ResetEvent, Go,
      Inside, Registered, RegistryUnlocked,
      readerVars, syncVars, SyncLocations, WalkLocations, ReadLocations, RcuTypeOK,
      RCU_GP_LOCKED, RCU_GP_CTR
<1>1. RcuTypeOK'  OBVIOUS
<1>2. OneUpdater'  BY DEF OneUpdater
<1>3. SectionsAreMarked'  BY DEF SectionsAreMarked
<1>4. QsreadersInUse'  BY DEF QsreadersInUse, AfterFlip, OneUpdater
<1>5. CounterAhead'  BY DEF CounterAhead
<1>6. Awaited'
  BY DEF Awaited, OneUpdater, SectionsAreMarked, QsreadersInUse, CounterAhead,
     AfterFlip, Ongoing
<1>7. WakeupsAccounted'
  BY DEF WakeupsAccounted, WillWake, OneUpdater, SectionsAreMarked, Ongoing
<1>8. GracePeriod'
  BY DEF GracePeriod, Awaited, OneUpdater, AfterFlip, SectionsAreMarked,
     QsreadersInUse
<1> QED  BY <1>1, <1>2, <1>3, <1>4, <1>5, <1>6, <1>7, <1>8

\* The first walk sets waiting.
LEMMA Step_MarkReader ==
  ASSUME RcuInv, NEW t \in Threads, MarkReader(t)
  PROVE  RcuInv'
<1> USE SizesAssumption, UIntAssumption, BoundsAssumption DEF RcuInv, MarkReader, Go,
      Inside, Registered, RegistryUnlocked,
      readerVars, syncVars, SyncLocations, WalkLocations, ReadLocations, RcuTypeOK,
      RCU_GP_LOCKED, RCU_GP_CTR
<1>1. RcuTypeOK'  OBVIOUS
<1>2. OneUpdater'  BY DEF OneUpdater
<1>3. SectionsAreMarked'  BY DEF SectionsAreMarked
<1>4. QsreadersInUse'  BY DEF QsreadersInUse, AfterFlip, OneUpdater
<1>5. CounterAhead'  BY DEF CounterAhead
<1>6. Awaited'
  BY DEF Awaited, OneUpdater, SectionsAreMarked, QsreadersInUse, CounterAhead,
     AfterFlip, Ongoing
<1>7. WakeupsAccounted'
  BY DEF WakeupsAccounted, WillWake, OneUpdater, SectionsAreMarked, Ongoing
<1>8. GracePeriod'
  BY DEF GracePeriod, Awaited, OneUpdater, AfterFlip, SectionsAreMarked,
     QsreadersInUse
<1> QED  BY <1>1, <1>2, <1>3, <1>4, <1>5, <1>6, <1>7, <1>8

\* The first walk is over.
LEMMA Step_AllMarked ==
  ASSUME RcuInv, NEW t \in Threads, AllMarked(t)
  PROVE  RcuInv'
<1> USE SizesAssumption, UIntAssumption, BoundsAssumption DEF RcuInv, AllMarked, Go,
      Inside, Registered, RegistryUnlocked,
      readerVars, syncVars, SyncLocations, WalkLocations, ReadLocations, RcuTypeOK,
      RCU_GP_LOCKED, RCU_GP_CTR
<1>1. RcuTypeOK'  OBVIOUS
<1>2. OneUpdater'  BY DEF OneUpdater
<1>3. SectionsAreMarked'  BY DEF SectionsAreMarked
<1>4. QsreadersInUse'  BY DEF QsreadersInUse, AfterFlip, OneUpdater
<1>5. CounterAhead'  BY DEF CounterAhead
<1>6. Awaited'
  BY DEF Awaited, OneUpdater, SectionsAreMarked, QsreadersInUse, CounterAhead,
     AfterFlip, Ongoing
<1>7. WakeupsAccounted'
  BY DEF WakeupsAccounted, WillWake, OneUpdater, SectionsAreMarked, Ongoing
<1>8. GracePeriod'
  BY DEF GracePeriod, Awaited, OneUpdater, AfterFlip, SectionsAreMarked,
     QsreadersInUse
<1> QED  BY <1>1, <1>2, <1>3, <1>4, <1>5, <1>6, <1>7, <1>8

\* The second walk keeps the readers that are ongoing.
LEMMA Step_CheckReader ==
  ASSUME RcuInv, NEW t \in Threads, NEW r \in Threads, CheckReader(t, r)
  PROVE  RcuInv'
<1> USE SizesAssumption, UIntAssumption, BoundsAssumption DEF RcuInv, CheckReader, Go,
      Inside, Registered, RegistryUnlocked,
      readerVars, syncVars, SyncLocations, WalkLocations, ReadLocations, RcuTypeOK,
      RCU_GP_LOCKED, RCU_GP_CTR
<1>1. RcuTypeOK'  OBVIOUS
<1>2. OneUpdater'  BY DEF OneUpdater
<1>3. SectionsAreMarked'  BY DEF SectionsAreMarked
<1>4. QsreadersInUse'  BY DEF QsreadersInUse, AfterFlip, OneUpdater
<1>5. CounterAhead'  BY DEF CounterAhead
<1>6. Awaited'
  BY DEF Awaited, OneUpdater, SectionsAreMarked, QsreadersInUse, CounterAhead,
     AfterFlip, Ongoing
<1>7. WakeupsAccounted'
  BY DEF WakeupsAccounted, WillWake, OneUpdater, SectionsAreMarked, Ongoing
<1>8. GracePeriod'
  BY DEF GracePeriod, Awaited, OneUpdater, AfterFlip, SectionsAreMarked,
     QsreadersInUse
<1> QED  BY <1>1, <1>2, <1>3, <1>4, <1>5, <1>6, <1>7, <1>8

\* The reader that was moved away is no longer waited for.
LEMMA Step_ResetWaiting ==
  ASSUME RcuInv, NEW t \in Threads, ResetWaiting(t)
  PROVE  RcuInv'
<1> USE SizesAssumption, UIntAssumption, BoundsAssumption DEF RcuInv, ResetWaiting,
      Go, Inside, Registered, RegistryUnlocked,
      readerVars, syncVars, SyncLocations, WalkLocations, ReadLocations, RcuTypeOK,
      RCU_GP_LOCKED, RCU_GP_CTR
<1>1. RcuTypeOK'  OBVIOUS
<1>2. OneUpdater'  BY DEF OneUpdater
<1>3. SectionsAreMarked'  BY DEF SectionsAreMarked
<1>4. QsreadersInUse'  BY DEF QsreadersInUse, AfterFlip, OneUpdater
<1>5. CounterAhead'  BY DEF CounterAhead
<1>6. Awaited'
  BY DEF Awaited, OneUpdater, SectionsAreMarked, QsreadersInUse, CounterAhead,
     AfterFlip, Ongoing
<1>7. WakeupsAccounted'
  BY DEF WakeupsAccounted, WillWake, OneUpdater, SectionsAreMarked, Ongoing
<1>8. GracePeriod'
  BY DEF GracePeriod, Awaited, OneUpdater, AfterFlip, SectionsAreMarked,
     QsreadersInUse
<1> QED  BY <1>1, <1>2, <1>3, <1>4, <1>5, <1>6, <1>7, <1>8

\* The updater waits, or a wait_for_readers is over.
LEMMA Step_AllChecked ==
  ASSUME RcuInv, NEW t \in Threads, AllChecked(t)
  PROVE  RcuInv'
<1> USE SizesAssumption, UIntAssumption, BoundsAssumption DEF RcuInv, AllChecked, Go,
      Inside, Registered, RegistryUnlocked,
      readerVars, syncVars, SyncLocations, WalkLocations, ReadLocations, RcuTypeOK,
      RCU_GP_LOCKED, RCU_GP_CTR
<1>1. RcuTypeOK'  OBVIOUS
<1>2. OneUpdater'  BY DEF OneUpdater
<1>3. SectionsAreMarked'  BY DEF SectionsAreMarked
<1>4. QsreadersInUse'  BY DEF QsreadersInUse, AfterFlip, OneUpdater
<1>5. CounterAhead'  BY DEF CounterAhead
<1>6. Awaited'
  BY DEF Awaited, OneUpdater, SectionsAreMarked, QsreadersInUse, CounterAhead,
     AfterFlip, Ongoing
<1>7. WakeupsAccounted'
  BY DEF WakeupsAccounted, WillWake, OneUpdater, SectionsAreMarked, Ongoing
<1>8. GracePeriod'
  BY DEF GracePeriod, Awaited, OneUpdater, AfterFlip, SectionsAreMarked,
     QsreadersInUse
<1> QED  BY <1>1, <1>2, <1>3, <1>4, <1>5, <1>6, <1>7, <1>8

\* The updater is woken.
LEMMA Step_EventWait ==
  ASSUME RcuInv, NEW t \in Threads, EventWait(t)
  PROVE  RcuInv'
<1> USE SizesAssumption, UIntAssumption, BoundsAssumption DEF RcuInv, EventWait, Go,
      Inside, Registered, RegistryUnlocked,
      readerVars, syncVars, SyncLocations, WalkLocations, ReadLocations, RcuTypeOK,
      RCU_GP_LOCKED, RCU_GP_CTR
<1>1. RcuTypeOK'  OBVIOUS
<1>2. OneUpdater'  BY DEF OneUpdater
<1>3. SectionsAreMarked'  BY DEF SectionsAreMarked
<1>4. QsreadersInUse'  BY DEF QsreadersInUse, AfterFlip, OneUpdater
<1>5. CounterAhead'  BY DEF CounterAhead
<1>6. Awaited'
  BY DEF Awaited, OneUpdater, SectionsAreMarked, QsreadersInUse, CounterAhead,
     AfterFlip, Ongoing
<1>7. WakeupsAccounted'
  BY DEF WakeupsAccounted, WillWake, OneUpdater, SectionsAreMarked, Ongoing
<1>8. GracePeriod'
  BY DEF GracePeriod, Awaited, OneUpdater, AfterFlip, SectionsAreMarked,
     QsreadersInUse
<1> QED  BY <1>1, <1>2, <1>3, <1>4, <1>5, <1>6, <1>7, <1>8

\* The grace period is over.
LEMMA Step_SyncReturn ==
  ASSUME RcuInv, NEW t \in Threads, SyncReturn(t)
  PROVE  RcuInv'
<1> USE SizesAssumption, UIntAssumption, BoundsAssumption DEF RcuInv, SyncReturn, Go,
      Inside, Registered, RegistryUnlocked,
      readerVars, syncVars, SyncLocations, WalkLocations, ReadLocations, RcuTypeOK,
      RCU_GP_LOCKED, RCU_GP_CTR
<1>1. RcuTypeOK'  OBVIOUS
<1>2. OneUpdater'  BY DEF OneUpdater
<1>3. SectionsAreMarked'  BY DEF SectionsAreMarked
<1>4. QsreadersInUse'  BY DEF QsreadersInUse, AfterFlip, OneUpdater
<1>5. CounterAhead'  BY DEF CounterAhead
<1>6. Awaited'
  BY DEF Awaited, OneUpdater, SectionsAreMarked, QsreadersInUse, CounterAhead,
     AfterFlip, Ongoing, GracePeriod
<1>7. WakeupsAccounted'
  BY DEF WakeupsAccounted, WillWake, OneUpdater, SectionsAreMarked, Ongoing
<1>8. GracePeriod'
  BY DEF GracePeriod, Awaited, OneUpdater, AfterFlip, SectionsAreMarked,
     QsreadersInUse
<1> QED  BY <1>1, <1>2, <1>3, <1>4, <1>5, <1>6, <1>7, <1>8

LEMMA NextRcuInv == RcuInv /\ [RcuNext]_rcuVars => RcuInv'
<1> SUFFICES ASSUME RcuInv, [RcuNext]_rcuVars PROVE RcuInv'  OBVIOUS
<1>1. CASE UNCHANGED rcuVars
  BY <1>1 DEF RcuInv, rcuVars, readerVars, syncVars, RcuTypeOK, OneUpdater,
        SectionsAreMarked,
       Inside, Registered, QsreadersInUse, CounterAhead, Awaited, WakeupsAccounted,
       WillWake, Ongoing, GracePeriod
<1>2. ASSUME NEW t \in Threads, ReadStep(t)  PROVE RcuInv'
  BY <1>2, Step_StoreCtr, Step_ReadWaiting, Step_ClearWaiting, Step_WakeUpdater DEF
        ReadStep
<1>3. ASSUME NEW t \in Threads, SyncStep(t)  PROVE RcuInv'
  BY <1>3, Step_FlipCtr, Step_ResetEvent, Step_MarkReader, Step_AllMarked,
        Step_CheckReader,
     Step_ResetWaiting, Step_AllChecked, Step_EventWait, Step_SyncReturn DEF SyncStep
<1>4. ASSUME NEW t \in Threads, RcuRequest(t)  PROVE RcuInv'
  BY <1>4, Step_rcu_register_thread, Step_rcu_unregister_thread, Step_rcu_read_lock,
     Step_rcu_read_unlock, Step_synchronize_rcu DEF RcuRequest
<1> QED  BY <1>1, <1>2, <1>3, <1>4 DEF RcuNext

\* RcuInv holds in every reachable state, for every set of threads, every even
\* width of unsigned int and both sizes of unsigned long.
THEOREM RcuInvariance == RcuSpec => []RcuInv
  BY InitRcuInv, NextRcuInv, PTL DEF RcuSpec

\* synchronize_rcu returns only after the sections that were open at its call.
THEOREM GracePeriodSafe == RcuSpec => []GracePeriod
<1>1. RcuInv => GracePeriod  BY DEF RcuInv
<1> QED  BY <1>1, RcuInvariance, PTL

\* A synchronize_rcu that waits is going to be woken by a reader.
THEOREM NoSyncWakeupLost == RcuSpec => []WaitIsWoken
<1>1. RcuInv => WaitIsWoken  BY DEF RcuInv, WakeupsAccounted, WaitIsWoken
<1> QED  BY <1>1, RcuInvariance, PTL

\* A step of the queue or of the call_rcu thread is a step of Rcu or leaves its
\* variables alone.
LEMMA NextOfCallRcu == [Next]_vars => [RcuNext]_rcuVars
<1> SUFFICES ASSUME [Next]_vars PROVE RcuNext \/ UNCHANGED rcuVars  OBVIOUS
<1>1. CASE UNCHANGED vars  BY <1>1 DEF vars
<1>2. ASSUME NEW t \in Threads, ReadStep(t) \/ SyncStep(t) \/ RcuRequest(t)
      PROVE  RcuNext
  BY <1>2 DEF RcuNext
<1>3. ASSUME NEW t \in Threads, ProducerStep(t) \/ \E x \in Nodes : call_rcu1(t, x)
      PROVE  UNCHANGED rcuVars
  BY <1>3 DEF ProducerStep, Link, IncCount, SetReady, call_rcu1
<1>4. ASSUME ConsumerStep
      PROVE  RcuRequest(CallThread) \/ UNCHANGED rcuVars
  BY <1>4 DEF ConsumerStep, ReadCount, ResetReady, RecheckCount, AwaitReady, SubCount,
       WaitGracePeriod, try_dequeue, DequeueReset, DequeueWait, Callback, RcuRequest
<1>5. ASSUME NEW t \in Threads, RcuCall(t)  PROVE RcuRequest(t)
  BY <1>5 DEF RcuCall, RcuRequest
<1>6. CASE Next
  BY <1>2, <1>3, <1>4, <1>5, <1>6, CallThreadAssumption DEF Next, ThreadStep
<1> QED  BY <1>1, <1>6

\* call_rcu1 and the call_rcu thread use RCU as it is specified.
THEOREM CallRcuUsesRcu == Spec => RcuSpec
<1>1. Init => RcuInit  BY DEF Init
<1> QED  BY <1>1, NextOfCallRcu, PTL DEF Spec, RcuSpec

\* With the queue and the call_rcu thread, too, synchronize_rcu waits for the
\* sections that were open at its call, and a waiting one is going to be woken.
THEOREM CallRcuGracePeriod == Spec => [](GracePeriod /\ WaitIsWoken)
  BY CallRcuUsesRcu, GracePeriodSafe, NoSyncWakeupLost, PTL

-----------------------------------------------------------------------------
(* The queue of call_rcu1 and the call_rcu thread *)

\* Nodes whose link is still to be made.
Linkers == {t \in Threads : qpc[t] = "link"}

\* Threads in call_rcu1 whose node is in the queue and not in rcu_call_count.
Uncounted == {t \in Threads \ {CallThread} : qpc[t] \in {"link", "count"}}

\* The call_rcu thread has subtracted n from rcu_call_count; it still has to
\* take Left nodes off the queue, and runs the callback of those in Called.
Busy == {"sync", "dequeue", "dqreset", "dqwait", "link", "call"}
Left ==
  IF qpc[CallThread] = "call" THEN n - 1 ELSE IF qpc[CallThread] \in Busy THEN n ELSE 0
Called == IF qpc[CallThread] = "call" THEN {node[CallThread]} ELSE {}

\* Where threads can be, and what n is there.
LoopRight ==
  /\ \A t \in Threads \ {CallThread} : qpc[t] \in QueueLocations
  /\ qpc[CallThread] \in LoopLocations
  /\ qpc[CallThread] \in Busy \cup {"sub"} => n > 0
  /\ qpc[CallThread] = "sub" => n <= rcu_call_count

\* q is what the linked list holds from head to tail, links still to be made
\* included: the dummy and every node given to call_rcu1, each once.
Chain(q) ==
  /\ q # <<>> /\ IsInjective(q)
  /\ q[1] = head /\ q[Len(q)] = tail
  /\ ToSet(q) = {Dummy} \cup (queued \ Called)
  /\ next[tail] = NULL
  /\ \A i \in 1..(Len(q) - 1) :
       next[q[i]] = NULL => \E t \in Linkers : node[t] = q[i + 1]
  /\ \A i \in 1..(Len(q) - 1) : next[q[i]] # NULL => next[q[i]] = q[i + 1]
  /\ \A t \in Linkers :
       \E i \in 1..(Len(q) - 1) :
         old_tail[t] = q[i] /\ node[t] = q[i + 1] /\ next[q[i]] = NULL
  /\ \A t, u \in Linkers : node[t] = node[u] => t = u

\* The nodes of the queue are those that are counted, that are about to be
\* counted, and that the call_rcu thread has taken off the count.
Counted(q) == Len(q) = 1 + rcu_call_count + Cardinality(Uncounted) + Left

\* The place of the i-th element among the nodes other than the dummy.
Rank(q, i) == IF \E j \in 1..(i - 1) : q[j] = Dummy THEN i - 1 ELSE i

\* The sections that a node to be taken off may wait for are those that
\* synchronize_rcu still waits for.
Covered(q) ==
  qpc[CallThread] \in Busy \ {"sync"} =>
    \A i \in DOMAIN q :
      q[i] # Dummy /\ Rank(q, i) <= Left => open[q[i]] \subseteq before[CallThread]

Queue == \E q \in Seq(AllNodes) : Chain(q) /\ Counted(q) /\ Covered(q)

\* A section that is open since before call_rcu1 of a node is open; none is
\* left of those before the node whose callback runs.
OpenRight ==
  /\ \A x \in Nodes : open[x] \subseteq Inside
  /\ qpc[CallThread] = "call" =>
       node[CallThread] \in queued /\ open[node[CallThread]] = {}

\* The call_rcu thread sleeps only when a thread in call_rcu1 will wake it or
\* there is nothing to do.
SleepRight ==
  ~rcu_call_ready_event =>
    /\ qpc[CallThread] = "await" =>
         rcu_call_count = 0 \/ \E t \in Threads : qpc[t] = "ready"
    /\ qpc[CallThread] = "dqwait" =>
         \E t \in Threads : qpc[t] \in {"link", "count", "ready"}

CallInv == TypeOK /\ LoopRight /\ Queue /\ OpenRight /\ SleepRight

\* The parts of a queue that the steps below change.
LEMMA QueueElements ==
  ASSUME NEW q \in Seq(AllNodes)
  PROVE  /\ Len(q) \in Nat /\ DOMAIN q = 1..Len(q)
         /\ \A i \in 1..Len(q) : q[i] \in AllNodes /\ q[i] \in ToSet(q)
         /\ \A y \in ToSet(q) : \E i \in 1..Len(q) : q[i] = y
         /\ q # <<>> <=> Len(q) > 0
BY LenProperties, EmptySeq, ElementOfSeq DEF ToSet

LEMMA UncountedFinite ==
  IsFiniteSet(Uncounted) /\ Cardinality(Uncounted) \in Nat
<1>1. Uncounted \in SUBSET Threads  BY DEF Uncounted
<1> QED  BY <1>1, CallThreadAssumption, FS_Subset, FS_CardinalityType

LEMMA UncountedFiniteNext ==
  (IsFiniteSet(Uncounted) /\ Cardinality(Uncounted) \in Nat)'
BY UncountedFinite, PTL

LEMMA NodesFacts == Dummy \notin Nodes /\ NULL \notin AllNodes /\ Nodes \subseteq AllNodes
                    /\ Dummy \in AllNodes
BY NodesAssumption DEF AllNodes

\* Left is a number, and there is something left before a dequeue.
LEMMA LeftNat == LoopRight /\ TypeOK => Left \in Nat
BY DEF LoopRight, TypeOK, Left, Busy

\* The list in memory, in a step that changes neither it nor the links to be made.
LEMMA ChainSame ==
  ASSUME NEW q \in Seq(AllNodes), Chain(q),
         UNCHANGED queueVars, Linkers' = Linkers,
         \A t \in Linkers : node'[t] = node[t] /\ old_tail'[t] = old_tail[t],
         (queued \ Called)' = queued \ Called
  PROVE  Chain(q)'
<1>1. head' = head /\ tail' = tail /\ next' = next  BY DEF queueVars
<1>2. /\ q # <<>> /\ IsInjective(q) /\ q[1] = head' /\ q[Len(q)] = tail'
      /\ ToSet(q) = {Dummy} \cup (queued \ Called)' /\ next'[tail'] = NULL
  BY <1>1 DEF Chain
<1>3. \A i \in 1..(Len(q) - 1) :
        /\ next'[q[i]] = NULL => \E t \in Linkers' : node'[t] = q[i + 1]
        /\ next'[q[i]] # NULL => next'[q[i]] = q[i + 1]
  BY <1>1 DEF Chain
<1>4. \A t \in Linkers' :
        \E i \in 1..(Len(q) - 1) :
          old_tail'[t] = q[i] /\ node'[t] = q[i + 1] /\ next'[q[i]] = NULL
  BY <1>1 DEF Chain
<1>5. \A t, u \in Linkers' : node'[t] = node'[u] => t = u  BY DEF Chain
<1> QED  BY <1>2, <1>3, <1>4, <1>5 DEF Chain

\* The same nodes are left to be taken off, and they wait for no more sections.
LEMMA CoveredSame ==
  ASSUME NEW q \in Seq(AllNodes), Chain(q), Covered(q), TypeOK,
         qpc'[CallThread] \in Busy \ {"sync"} =>
           qpc[CallThread] \in Busy \ {"sync"} /\ Left' = Left,
         \A x \in Nodes : open[x] \subseteq before[CallThread] =>
                            open'[x] \subseteq before'[CallThread]
  PROVE  Covered(q)'
<1> SUFFICES ASSUME (qpc[CallThread] \in Busy \ {"sync"})',
                    NEW i \in DOMAIN q, q[i] # Dummy, Rank(q, i) <= Left'
             PROVE  open'[q[i]] \subseteq before'[CallThread]
  BY DEF Covered, Rank
<1>1. open[q[i]] \subseteq before[CallThread]  BY DEF Covered
<1>2. q[i] \in Nodes  BY QueueElements DEF AllNodes
<1> QED  BY <1>1, <1>2

LEMMA InitCallInv == Init => CallInv
<1> SUFFICES ASSUME Init PROVE CallInv  OBVIOUS
<1> USE DEF Init
<1>1. TypeOK
  <2>1. RcuTypeOK  BY InitRcuInv DEF RcuInv
  <2> QED  BY <2>1, NodesFacts DEF TypeOK, QueueLocations, LoopLocations
<1>2. LoopRight
  BY CallThreadAssumption DEF LoopRight, QueueLocations, LoopLocations, Busy
<1>3. Queue
  <2> DEFINE q == <<Dummy>>
  <2>1. q \in Seq(AllNodes) /\ q # <<>> /\ Len(q) = 1 /\ q[1] = Dummy /\ DOMAIN q = {1}
    BY NodesFacts
  <2>2. ToSet(q) = {Dummy} /\ IsInjective(q)  BY <2>1 DEF ToSet, IsInjective
  <2> HIDE DEF q
  <2>3. Linkers = {} /\ Uncounted = {} /\ Called = {} /\ Left = 0
    BY CallThreadAssumption DEF Linkers, Uncounted, Called, Left, Busy
  <2>4. Chain(q)  BY <2>1, <2>2, <2>3, NodesFacts DEF Chain
  <2>5. Counted(q)  BY <2>1, <2>3, FS_EmptySet DEF Counted
  <2>6. Covered(q)  BY CallThreadAssumption DEF Covered, Busy
  <2> QED  BY <2>1, <2>4, <2>5, <2>6 DEF Queue
<1>4. OpenRight /\ SleepRight
  BY CallThreadAssumption DEF OpenRight, SleepRight
<1> QED  BY <1>1, <1>2, <1>3, <1>4 DEF CallInv

\* A step of Rcu alone: a section that is waited for stays open, or has ended.
LEMMA Step_Rcu ==
  ASSUME CallInv, RcuInv, RcuInv',
         UNCHANGED <<queueVars, eventVars, localVars, queued>>,
         \A x \in Nodes :
           /\ open'[x] \subseteq Threads /\ open'[x] \subseteq open[x]
           /\ open'[x] \subseteq Inside'
           /\ open[x] \subseteq before[CallThread] => open'[x] \subseteq before'[CallThread],
         open' \in [Nodes -> SUBSET Threads]
  PROVE  CallInv'
<1> USE DEF CallInv, localVars
<1>1. TypeOK'  BY DEF TypeOK, RcuInv, queueVars, eventVars
<1>2. LoopRight'  BY DEF LoopRight, eventVars
<1>3. /\ Linkers' = Linkers /\ Uncounted' = Uncounted /\ Called' = Called /\ Left' = Left
  BY DEF Linkers, Uncounted, Called, Left
<1>4. Queue'
  <2>1. PICK q \in Seq(AllNodes) : Chain(q) /\ Counted(q) /\ Covered(q)  BY DEF Queue
  <2>2. Chain(q)'  BY <1>3, <2>1, ChainSame
  <2>3. Counted(q)'  BY <1>3, <2>1 DEF Counted, eventVars
  <2>4. Covered(q)'  BY <1>3, <2>1, CoveredSame
  <2> QED  BY <2>2, <2>3, <2>4 DEF Queue
<1>5. OpenRight'
  <2>1. qpc[CallThread] = "call" => node[CallThread] \in Nodes
    BY DEF OpenRight, TypeOK
  <2> QED  BY <2>1 DEF OpenRight
<1>6. SleepRight'  BY DEF SleepRight, eventVars
<1> QED  BY <1>1, <1>2, <1>4, <1>5, <1>6

LEMMA Step_ThreadRcu ==
  ASSUME CallInv, RcuInv, RcuInv', NEW t \in Threads,
         ReadStep(t) \/ SyncStep(t), UNCHANGED callVars
  PROVE  CallInv'
<1>1. before' = before /\ depth' = depth
      /\ \A u \in Threads : pc[u] # "lock" => pc'[u] # "lock"
  BY DEF ReadStep, SyncStep, StoreCtr, ReadWaiting, ClearWaiting, WakeUpdater, FlipCtr,
         ResetEvent, MarkReader, AllMarked, CheckReader, ResetWaiting, AllChecked, EventWait,
         SyncReturn, Go, readerVars, RcuInv, RcuTypeOK
<1>2. Inside \subseteq Inside'  BY <1>1 DEF Inside
<1>3. open' = open /\ UNCHANGED <<queueVars, eventVars, localVars, queued>>  BY DEF callVars
<1>4. open \in [Nodes -> SUBSET Threads] /\ \A x \in Nodes : open[x] \subseteq Inside
  BY DEF CallInv, TypeOK, OpenRight
<1> QED  BY <1>1, <1>2, <1>3, <1>4, Step_Rcu

LEMMA Step_RcuCall ==
  ASSUME CallInv, RcuInv, RcuInv', NEW t \in Threads, RcuCall(t)
  PROVE  CallInv'
<1>1. open' = [x \in Nodes |-> open[x] \cap Inside']
      /\ UNCHANGED <<queueVars, eventVars, localVars, queued>>
  BY DEF RcuCall
<1>2. open \in [Nodes -> SUBSET Threads]  BY DEF CallInv, TypeOK
<1>3. before[CallThread] \cap Inside' \subseteq before'[CallThread]
  <2>1. CASE t = CallThread
    BY <2>1 DEF RcuCall, rcu_register_thread
  <2>2. CASE t # CallThread
    <3>1. RcuRequest(t)  BY <2>2 DEF RcuCall
    <3>2. CASE rcu_register_thread(t) \/ rcu_unregister_thread(t) \/ rcu_read_lock(t)
      BY <3>2 DEF rcu_register_thread, rcu_unregister_thread, rcu_read_lock
    <3>3. CASE rcu_read_unlock(t)
      <4>1. CASE depth[t] > 1  BY <3>3, <4>1 DEF rcu_read_unlock
      <4>2. CASE ~(depth[t] > 1)
        <5>1. before'[CallThread] = before[CallThread] \ {t}
          BY <3>3, <4>2, CallThreadAssumption DEF rcu_read_unlock
        <5>2. t \notin Inside'
          BY <3>3, <4>2 DEF rcu_read_unlock, Inside, RcuInv, RcuTypeOK
        <5> QED  BY <5>1, <5>2
      <4> QED  BY <4>1, <4>2
    <3>4. CASE synchronize_rcu(t)
      BY <2>2, <3>4, CallThreadAssumption DEF synchronize_rcu, RcuInv, RcuTypeOK
    <3> QED  BY <3>1, <3>2, <3>3, <3>4 DEF RcuRequest
  <2> QED  BY <2>1, <2>2
<1>4. Inside' \subseteq Threads  BY DEF Inside
<1> QED  BY <1>1, <1>2, <1>3, <1>4, Step_Rcu

\* call_rcu1 puts a node behind all others: it is not one of those left to be
\* taken off after the current grace period.
LEMMA Step_call_rcu1 ==
  ASSUME CallInv, RcuInv, NEW t \in Threads, NEW x \in Nodes, call_rcu1(t, x)
  PROVE  CallInv'
<1> USE DEF CallInv, call_rcu1, enqueue, QGo, eventVars
<1>0. /\ qpc \in [Threads -> QueueLocations \cup LoopLocations]
      /\ node \in [Threads -> AllNodes \cup {NULL}]
      /\ old_tail \in [Threads -> AllNodes \cup {NULL}]
      /\ next \in [AllNodes -> AllNodes \cup {NULL}] /\ tail \in AllNodes
      /\ open \in [Nodes -> SUBSET Threads] /\ queued \subseteq Nodes
      /\ t # CallThread /\ qpc[t] = "none" /\ x \in AllNodes /\ x # Dummy
      /\ CallThread \in Threads
  BY NodesFacts, CallThreadAssumption DEF TypeOK
<1>1. qpc'[CallThread] = qpc[CallThread] /\ node'[CallThread] = node[CallThread]
      /\ qpc'[t] = "link" /\ node'[t] = x /\ old_tail'[t] = tail
      /\ \A u \in Threads \ {t} : /\ qpc'[u] = qpc[u] /\ node'[u] = node[u]
                                  /\ old_tail'[u] = old_tail[u]
  BY <1>0
<1>2. TypeOK'
  <2>1. open' \in [Nodes -> SUBSET Threads]  BY <1>0 DEF Inside
  <2>2. RcuTypeOK'
    BY DEF TypeOK, RcuTypeOK, rcuVars, readerVars, syncVars
  <2> QED  BY <1>0, <2>1, <2>2, NodesFacts DEF TypeOK, QueueLocations
<1>3. LoopRight'  BY <1>0, <1>1 DEF LoopRight, QueueLocations
<1>4. /\ Linkers' = Linkers \cup {t} /\ Uncounted' = Uncounted \cup {t}
      /\ t \notin Uncounted /\ t \notin Linkers
      /\ Called' = Called /\ Left' = Left
  <2>1. Linkers' = Linkers \cup {t} /\ t \notin Linkers  BY <1>0, <1>1 DEF Linkers
  <2>2. Uncounted' = Uncounted \cup {t} /\ t \notin Uncounted
    BY <1>0, <1>1 DEF Uncounted
  <2>3. Called' = Called /\ Left' = Left  BY <1>1 DEF Called, Left
  <2> QED  BY <2>1, <2>2, <2>3
<1>5. Queue'
  <2>1. PICK q \in Seq(AllNodes) : Chain(q) /\ Counted(q) /\ Covered(q)  BY DEF Queue
  <2> DEFINE r == Append(q, x)
  <2>2. /\ r \in Seq(AllNodes) /\ r # <<>> /\ Len(r) = Len(q) + 1
        /\ (\A i \in 1..Len(q) : r[i] = q[i]) /\ r[Len(q) + 1] = x
        /\ ToSet(r) = ToSet(q) \cup {x}
    BY <1>0, AppendProperties, QueueAppend
  <2>3. x \notin ToSet(q) /\ IsInjective(r)
    <3>1. x \notin ToSet(q)  BY <1>0, <2>1 DEF Chain
    <3> QED  BY <1>0, <2>1, <3>1, QueueAppend DEF Chain
  <2>4. /\ Len(q) \in Nat /\ Len(q) > 0 /\ DOMAIN q = 1..Len(q)
        /\ \A i \in 1..Len(q) : q[i] \in AllNodes /\ q[i] \in ToSet(q) /\ q[i] # x
    BY <2>1, <2>3, QueueElements DEF Chain
  <2>5. /\ \A i \in 1..Len(q) : next'[q[i]] = next[q[i]]
        /\ next'[x] = NULL
    BY <1>0, <2>4
  <2> HIDE DEF r
  <2>6. Chain(r)'
    <3>1. r # <<>> /\ IsInjective(r) /\ r[1] = head' /\ r[Len(r)] = tail'
          /\ next'[tail'] = NULL
      BY <2>1, <2>2, <2>3, <2>4, <2>5 DEF Chain
    <3>2. ToSet(r) = {Dummy} \cup (queued' \ Called')
      <4>1. x \notin Called  BY <1>0 DEF Called, OpenRight
      <4> QED  BY <1>4, <2>1, <2>2, <4>1 DEF Chain
    <3>3. ASSUME NEW i \in 1..Len(q)
          PROVE  /\ next'[r[i]] = NULL => \E u \in Linkers' : node'[u] = r[i + 1]
                 /\ next'[r[i]] # NULL => next'[r[i]] = r[i + 1]
      <4>1. CASE i = Len(q)
        <5>1. r[i] = tail /\ r[i + 1] = x /\ next'[r[i]] = NULL
          BY <2>1, <2>2, <2>4, <2>5, <4>1 DEF Chain
        <5> QED  BY <1>1, <1>4, <5>1
      <4>2. CASE i # Len(q)
        <5>0. Len(q) \in Nat  BY <2>4
        <5>1. i \in 1..(Len(q) - 1) /\ i + 1 \in 1..Len(q)  BY <4>2, <5>0
        <5>2. r[i] = q[i] /\ r[i + 1] = q[i + 1] /\ next'[r[i]] = next[q[i]]
          BY <2>2, <2>5, <5>1
        <5>3. \A u \in Linkers : node'[u] = node[u] /\ u \in Linkers'
          BY <1>1, <1>4 DEF Linkers
        <5>4. /\ next[q[i]] = NULL => \E u \in Linkers : node[u] = q[i + 1]
              /\ next[q[i]] # NULL => next[q[i]] = q[i + 1]
          BY <2>1, <5>1 DEF Chain
        <5> QED  BY <5>2, <5>3, <5>4
      <4> QED  BY <4>1, <4>2
    <3>4. ASSUME NEW u \in Linkers'
          PROVE  \E i \in 1..Len(q) : /\ old_tail'[u] = r[i] /\ node'[u] = r[i + 1]
                                      /\ next'[r[i]] = NULL
      <4>1. CASE u = t
        <5>1. Len(q) \in 1..Len(q) /\ r[Len(q)] = tail /\ next'[r[Len(q)]] = NULL
          BY <2>1, <2>2, <2>4, <2>5 DEF Chain
        <5> QED  BY <1>1, <2>2, <4>1, <5>1
      <4>2. CASE u # t
        <5>1. u \in Linkers /\ u \in Threads  BY <1>4, <4>2 DEF Linkers
        <5>2. PICK i \in 1..(Len(q) - 1) :
                old_tail[u] = q[i] /\ node[u] = q[i + 1] /\ next[q[i]] = NULL
          BY <2>1, <5>1 DEF Chain
        <5>3. i \in 1..Len(q) /\ i + 1 \in 1..Len(q)  BY <2>4
        <5> QED  BY <1>1, <2>2, <2>5, <4>2, <5>1, <5>2, <5>3
      <4> QED  BY <4>1, <4>2
    <3>5. ASSUME NEW u \in Linkers', NEW v \in Linkers', node'[u] = node'[v]
          PROVE  u = v
      <4>1. \A w \in Linkers : node[w] \in ToSet(q)
        <5> SUFFICES ASSUME NEW w \in Linkers PROVE node[w] \in ToSet(q)  OBVIOUS
        <5>1. PICK i \in 1..(Len(q) - 1) : node[w] = q[i + 1]  BY <2>1 DEF Chain
        <5>2. i + 1 \in 1..Len(q)  BY <2>4
        <5> QED  BY <2>4, <5>1, <5>2
      <4>2. \A w \in Linkers : node'[w] = node[w]  BY <1>1, <1>4 DEF Linkers
      <4> QED  BY <1>1, <1>4, <2>1, <2>3, <3>5, <4>1, <4>2 DEF Chain
    <3>6. Len(r) - 1 = Len(q)  BY <2>2, <2>4
    <3> QED  BY <3>1, <3>2, <3>3, <3>4, <3>5, <3>6 DEF Chain
  <2>7. Counted(r)'
    <3>1. Cardinality(Uncounted') = Cardinality(Uncounted) + 1
      BY <1>4, UncountedFinite, FS_AddElement
    <3>2. Left \in Nat /\ rcu_call_count \in Nat  BY LeftNat DEF TypeOK
    <3> QED  BY <1>4, <2>1, <2>2, <2>4, <3>1, <3>2, UncountedFinite DEF Counted
  <2>8. Covered(r)'
    <3>1. SUFFICES ASSUME (qpc[CallThread] \in Busy \ {"sync"})',
                          NEW i \in DOMAIN r, r[i] # Dummy, Rank(r, i) <= Left'
                   PROVE  open'[r[i]] \subseteq before'[CallThread]
      BY DEF Covered, Rank
    <3>2. i \in 1..(Len(q) + 1)  BY <2>2, LenProperties
    <3>3. Left \in Nat /\ rcu_call_count \in Nat /\ Cardinality(Uncounted) \in Nat
      BY LeftNat, UncountedFinite DEF TypeOK
    <3>4. Left < Len(q)  BY <2>1, <2>4, <3>3 DEF Counted
    <3>5. i # Len(q) + 1
      <4> SUFFICES ASSUME i = Len(q) + 1 PROVE FALSE  OBVIOUS
      <4>1. PICK j \in 1..Len(q) : q[j] = Dummy
        BY <2>1, QueueElements DEF Chain
      <4>2. j \in 1..(i - 1) /\ r[j] = Dummy  BY <2>2, <2>4, <4>1
      <4>3. Rank(r, i) = i - 1  BY <4>2 DEF Rank
      <4>4. i - 1 = Len(q)  BY <2>4
      <4> QED  BY <1>4, <2>4, <3>1, <3>3, <3>4, <4>3, <4>4
    <3>6. i \in 1..Len(q) /\ r[i] = q[i]  BY <2>2, <2>4, <3>2, <3>5
    <3>7. Rank(r, i) = Rank(q, i)
      <4>1. \A j \in 1..(i - 1) : j \in 1..Len(q) /\ r[j] = q[j]  BY <2>2, <2>4, <3>6
      <4> QED  BY <4>1 DEF Rank
    <3>8. open[q[i]] \subseteq before[CallThread]
      BY <1>1, <1>4, <2>1, <2>4, <3>1, <3>6, <3>7 DEF Covered
    <3>9. q[i] \in Nodes /\ q[i] # x  BY <2>4, <3>1, <3>6 DEF AllNodes
    <3>10. open'[q[i]] = open[q[i]] /\ before' = before
      BY <1>0, <3>9 DEF rcuVars
    <3> QED  BY <3>6, <3>8, <3>10
  <2> QED  BY <2>2, <2>6, <2>7, <2>8 DEF Queue
<1>6. OpenRight'
  <2>1. Inside' = Inside  BY DEF Inside, rcuVars, readerVars
  <2> QED  BY <1>0, <1>1, <2>1 DEF OpenRight
<1>7. SleepRight'
  BY <1>0, <1>1 DEF SleepRight
<1> QED  BY <1>2, <1>3, <1>5, <1>6, <1>7

\* A step that leaves the list and the nodes in hand alone.
LEMMA QuietQueue ==
  ASSUME CallInv,
         UNCHANGED <<rcuVars, queueVars, node, old_tail, queued, open>>,
         Linkers' = Linkers, qpc'[CallThread] = "call" <=> qpc[CallThread] = "call",
         rcu_call_count' + Cardinality(Uncounted') + Left'
           = rcu_call_count + Cardinality(Uncounted) + Left,
         rcu_call_count' \in Nat, Left' \in Nat,
         qpc'[CallThread] \in Busy \ {"sync"} =>
           qpc[CallThread] \in Busy \ {"sync"} /\ Left' = Left
  PROVE  Queue' /\ OpenRight' /\ RcuTypeOK'
<1> USE DEF CallInv
<1>0. Called' = Called /\ before' = before /\ Inside' = Inside
  BY DEF Called, rcuVars, readerVars, Inside
<1>1. PICK q \in Seq(AllNodes) : Chain(q) /\ Counted(q) /\ Covered(q)  BY DEF Queue
<1>2. Chain(q)'  BY <1>0, <1>1, ChainSame
<1>3. Counted(q)'
  <2>1. Left \in Nat /\ rcu_call_count \in Nat /\ Cardinality(Uncounted) \in Nat
        /\ Cardinality(Uncounted') \in Nat
    BY LeftNat, UncountedFinite, UncountedFiniteNext DEF TypeOK
  <2> DEFINE a == Cardinality(Uncounted)
             b == Cardinality(Uncounted')
  <2>2. Len(q) = 1 + rcu_call_count + a + Left  BY <1>1 DEF Counted
  <2>3. rcu_call_count' + b + Left' = rcu_call_count + a + Left  OBVIOUS
  <2> HIDE DEF a, b
  <2>4. a \in Nat /\ b \in Nat  BY <2>1 DEF a, b
  <2>5. \A u, v, x, y \in Nat :
          u + a + v = x + b + y => 1 + u + a + v = 1 + x + b + y
    BY <2>4
  <2>6. Len(q) = 1 + rcu_call_count' + b + Left'
    BY <2>1, <2>2, <2>3, <2>5
  <2> QED  BY <2>6 DEF Counted, b
<1>4. Covered(q)'  BY <1>0, <1>1, CoveredSame
<1>5. OpenRight'  BY <1>0 DEF OpenRight
<1>6. RcuTypeOK'  BY DEF TypeOK, RcuTypeOK, rcuVars, readerVars, syncVars
<1> QED  BY <1>1, <1>2, <1>3, <1>4, <1>5, <1>6 DEF Queue

LEMMA Step_IncCount ==
  ASSUME CallInv, NEW t \in Threads, IncCount(t)
  PROVE  CallInv'
<1> USE DEF CallInv, IncCount, QGo, restVars
<1>0. /\ qpc \in [Threads -> QueueLocations \cup LoopLocations] /\ qpc[t] = "count"
      /\ t # CallThread /\ CallThread \in Threads /\ rcu_call_count \in Nat
  BY CallThreadAssumption DEF TypeOK, LoopRight, LoopLocations
<1>1. qpc'[t] = "ready" /\ \A u \in Threads \ {t} : qpc'[u] = qpc[u]  BY <1>0
<1>2. Linkers' = Linkers /\ Left' = Left  BY <1>0, <1>1 DEF Linkers, Left
<1>3. Uncounted' = Uncounted \ {t} /\ t \in Uncounted  BY <1>0, <1>1 DEF Uncounted
<1>4. Cardinality(Uncounted') = Cardinality(Uncounted) - 1
  BY <1>3, UncountedFinite, FS_RemoveElement
<1>5. Left \in Nat /\ Cardinality(Uncounted) \in Nat  BY LeftNat, UncountedFinite
<1>6. rcu_call_count' + Cardinality(Uncounted') + Left'
        = rcu_call_count + Cardinality(Uncounted) + Left
  BY <1>0, <1>2, <1>4, <1>5
<1>7. Queue' /\ OpenRight' /\ RcuTypeOK'
  <2>1. rcu_call_count' \in Nat /\ Left' \in Nat  BY <1>0, <1>2, <1>5
  <2> QED  BY <1>0, <1>1, <1>2, <1>6, <2>1, QuietQueue
<1>8. TypeOK'  BY <1>0, <1>7 DEF TypeOK, QueueLocations, queueVars
<1>9. LoopRight'  BY <1>0, <1>1 DEF LoopRight, QueueLocations, TypeOK
<1>10. SleepRight'  BY <1>0, <1>1 DEF SleepRight
<1> QED  BY <1>7, <1>8, <1>9, <1>10

LEMMA Step_SetReady ==
  ASSUME CallInv, NEW t \in Threads, SetReady(t)
  PROVE  CallInv'
<1> USE DEF CallInv, SetReady, QGo, restVars
<1>0. /\ qpc \in [Threads -> QueueLocations \cup LoopLocations] /\ qpc[t] = "ready"
      /\ t # CallThread /\ CallThread \in Threads /\ rcu_call_count \in Nat
  BY CallThreadAssumption DEF TypeOK, LoopRight, LoopLocations
<1>1. qpc'[t] = "none" /\ \A u \in Threads \ {t} : qpc'[u] = qpc[u]  BY <1>0
<1>2. Linkers' = Linkers /\ Left' = Left /\ Uncounted' = Uncounted
  BY <1>0, <1>1 DEF Linkers, Left, Uncounted
<1>3. Queue' /\ OpenRight' /\ RcuTypeOK'
  <2>1. Left \in Nat  BY LeftNat
  <2> QED  BY <1>0, <1>1, <1>2, <2>1, QuietQueue
<1>4. TypeOK'  BY <1>0, <1>3 DEF TypeOK, QueueLocations, queueVars
<1>5. LoopRight'  BY <1>0, <1>1 DEF LoopRight, QueueLocations
<1>6. SleepRight'  BY DEF SleepRight
<1> QED  BY <1>3, <1>4, <1>5, <1>6

\* A step of the call_rcu thread from one location of its loop to another, with
\* the list left alone.
LEMMA QuietLoop ==
  ASSUME CallInv, qpc[CallThread] \notin {"call", "link"},
         NEW loc \in LoopLocations \ {"call", "link"}, QGo(CallThread, loc),
         UNCHANGED <<rcuVars, queueVars, node, old_tail, queued, open>>,
         rcu_call_count' \in Nat, n' \in Nat, attempt' \in {1, 2},
         rcu_call_ready_event' \in BOOLEAN,
         loc \in Busy => rcu_call_count' = (rcu_call_count + Left) - n',
         loc \notin Busy => rcu_call_count' = rcu_call_count + Left,
         loc \in Busy \ {"sync"} => qpc[CallThread] \in Busy \ {"sync"} /\ n' = n
  PROVE  /\ TypeOK' /\ Queue' /\ OpenRight'
         /\ qpc'[CallThread] = loc
         /\ \A t \in Threads \ {CallThread} : qpc'[t] = qpc[t]
<1> USE DEF CallInv, QGo
<1>0. /\ qpc \in [Threads -> QueueLocations \cup LoopLocations]
      /\ CallThread \in Threads /\ rcu_call_count \in Nat /\ n \in Nat
  BY CallThreadAssumption DEF TypeOK
<1>1. qpc'[CallThread] = loc /\ \A t \in Threads \ {CallThread} : qpc'[t] = qpc[t]
  BY <1>0
<1>2. Linkers' = Linkers /\ Uncounted' = Uncounted
  BY <1>0, <1>1 DEF Linkers, Uncounted
<1>3. Left' = (IF loc \in Busy THEN n' ELSE 0) /\ Left' \in Nat  BY <1>1 DEF Left
<1>4. loc \in Busy \ {"sync"} => Left' = Left  BY <1>3 DEF Left
<1>5. rcu_call_count' + Cardinality(Uncounted') + Left'
        = rcu_call_count + Cardinality(Uncounted) + Left
  <2>1. Cardinality(Uncounted) \in Nat /\ Left \in Nat  BY UncountedFinite, LeftNat
  <2>2. CASE loc \in Busy
    <3>1. Left' = n' /\ Uncounted' = Uncounted  BY <1>2, <1>3, <2>2
    <3>2. rcu_call_count' + Cardinality(Uncounted) + n'
            = rcu_call_count + Cardinality(Uncounted) + Left
      BY <1>0, <2>1, <2>2
    <3> QED  BY <3>1, <3>2
  <2>3. CASE loc \notin Busy
    <3>1. Left' = 0 /\ Uncounted' = Uncounted  BY <1>2, <1>3, <2>3
    <3>2. rcu_call_count' + Cardinality(Uncounted) + 0
            = rcu_call_count + Cardinality(Uncounted) + Left
      BY <1>0, <2>1, <2>3
    <3> QED  BY <3>1, <3>2
  <2> QED  BY <2>2, <2>3
<1>6. Queue' /\ OpenRight' /\ RcuTypeOK'
  BY <1>1, <1>2, <1>3, <1>4, <1>5, QuietQueue
<1>7. TypeOK'
  <2>1. qpc' \in [Threads -> QueueLocations \cup LoopLocations]  BY <1>0
  <2> QED  BY <1>6, <2>1 DEF TypeOK, queueVars
<1> QED  BY <1>1, <1>6, <1>7

\* The count is read before the grace period: what it counts is in the queue.
LEMMA Step_ReadCount ==
  ASSUME CallInv, ReadCount
  PROVE  CallInv'
<1> USE DEF CallInv, ReadCount, At, eventVars
<1> DEFINE loc == IF rcu_call_count = 0 THEN "reset" ELSE "sub"
<1>0. loc \in LoopLocations \ {"call", "link"} /\ loc \notin Busy /\ loc \notin {"await", "dqwait"}
      /\ (loc = "sub" => rcu_call_count # 0) /\ QGo(CallThread, loc)
  BY DEF LoopLocations, Busy
<1> HIDE DEF loc
<1>1. Left = 0 /\ rcu_call_count \in Nat /\ n' = rcu_call_count
      /\ rcu_call_count' = rcu_call_count /\ rcu_call_ready_event' \in BOOLEAN
      /\ attempt' \in {1, 2}
  BY DEF Left, Busy, TypeOK
<1>2. rcu_call_count' = rcu_call_count + Left  BY <1>1
<1>3. /\ TypeOK' /\ Queue' /\ OpenRight'
      /\ qpc'[CallThread] = loc
      /\ \A t \in Threads \ {CallThread} : qpc'[t] = qpc[t]
  BY <1>0, <1>1, <1>2, QuietLoop DEF Busy
<1>4. LoopRight'  BY <1>0, <1>1, <1>3 DEF LoopRight
<1>5. SleepRight'  BY <1>0, <1>3 DEF SleepRight
<1> QED  BY <1>3, <1>4, <1>5

LEMMA Step_ResetReady ==
  ASSUME CallInv, ResetReady
  PROVE  CallInv'
<1> USE DEF CallInv, ResetReady, At, restVars
<1> DEFINE loc == "recheck"
<1>0. loc \in LoopLocations \ {"call", "link"} /\ loc \notin Busy
      /\ loc \notin {"await", "dqwait", "sub"} /\ QGo(CallThread, loc)
  BY DEF LoopLocations, Busy
<1> HIDE DEF loc
<1>1. Left = 0 /\ rcu_call_count \in Nat /\ n' \in Nat
      /\ rcu_call_count' = rcu_call_count /\ rcu_call_ready_event' \in BOOLEAN
      /\ attempt' \in {1, 2}
  BY DEF Left, Busy, TypeOK
<1>2. rcu_call_count' = rcu_call_count + Left  BY <1>1
<1>3. /\ TypeOK' /\ Queue' /\ OpenRight'
      /\ qpc'[CallThread] = loc
      /\ \A t \in Threads \ {CallThread} : qpc'[t] = qpc[t]
  BY <1>0, <1>1, <1>2, QuietLoop
<1>4. LoopRight'  BY <1>0, <1>1, <1>3 DEF LoopRight
<1>5. SleepRight'  BY <1>0, <1>3 DEF SleepRight
<1> QED  BY <1>3, <1>4, <1>5

\* The thread goes to sleep on what it reads after it has reset the event.
LEMMA Step_RecheckCount ==
  ASSUME CallInv, RecheckCount
  PROVE  CallInv'
<1> USE DEF CallInv, RecheckCount, At, restVars, eventVars
<1> DEFINE loc == IF rcu_call_count = 0 THEN "await" ELSE "top"
<1>0. loc \in LoopLocations \ {"call", "link"} /\ loc \notin Busy
      /\ loc \notin {"dqwait", "sub"} /\ QGo(CallThread, loc)
      /\ (loc = "await" => rcu_call_count = 0)
  BY DEF LoopLocations, Busy
<1> HIDE DEF loc
<1>1. Left = 0 /\ rcu_call_count \in Nat /\ n' \in Nat
      /\ rcu_call_count' = rcu_call_count /\ rcu_call_ready_event' \in BOOLEAN
      /\ attempt' \in {1, 2}
  BY DEF Left, Busy, TypeOK
<1>2. rcu_call_count' = rcu_call_count + Left  BY <1>1
<1>3. /\ TypeOK' /\ Queue' /\ OpenRight'
      /\ qpc'[CallThread] = loc
      /\ \A t \in Threads \ {CallThread} : qpc'[t] = qpc[t]
  BY <1>0, <1>1, <1>2, QuietLoop
<1>4. LoopRight'  BY <1>0, <1>1, <1>3 DEF LoopRight
<1>5. SleepRight'  BY <1>0, <1>1, <1>3 DEF SleepRight
<1> QED  BY <1>3, <1>4, <1>5

LEMMA Step_AwaitReady ==
  ASSUME CallInv, AwaitReady
  PROVE  CallInv'
<1> USE DEF CallInv, AwaitReady, At, restVars, eventVars
<1> DEFINE loc == "top"
<1>0. loc \in LoopLocations \ {"call", "link"} /\ loc \notin Busy
      /\ loc \notin {"await", "dqwait", "sub"} /\ QGo(CallThread, loc)
  BY DEF LoopLocations, Busy
<1> HIDE DEF loc
<1>1. Left = 0 /\ rcu_call_count \in Nat /\ n' \in Nat
      /\ rcu_call_count' = rcu_call_count /\ rcu_call_ready_event' \in BOOLEAN
      /\ attempt' \in {1, 2}
  BY DEF Left, Busy, TypeOK
<1>2. rcu_call_count' = rcu_call_count + Left  BY <1>1
<1>3. /\ TypeOK' /\ Queue' /\ OpenRight'
      /\ qpc'[CallThread] = loc
      /\ \A t \in Threads \ {CallThread} : qpc'[t] = qpc[t]
  BY <1>0, <1>1, <1>2, QuietLoop
<1>4. LoopRight'  BY <1>0, <1>1, <1>3 DEF LoopRight
<1>5. SleepRight'  BY <1>0, <1>3 DEF SleepRight
<1> QED  BY <1>3, <1>4, <1>5

LEMMA Step_SubCount ==
  ASSUME CallInv, SubCount
  PROVE  CallInv'
<1> USE DEF CallInv, SubCount, At, restVars
<1> DEFINE loc == "sync"
<1>0. loc \in LoopLocations \ {"call", "link"} /\ loc \in Busy /\ loc \notin Busy \ {"sync"}
      /\ loc \notin {"await", "dqwait", "sub"} /\ QGo(CallThread, loc)
  BY DEF LoopLocations, Busy
<1> HIDE DEF loc
<1>1. Left = 0 /\ rcu_call_count \in Nat /\ n \in Nat /\ n' = n
      /\ rcu_call_count' = rcu_call_count - n /\ rcu_call_ready_event' \in BOOLEAN
      /\ attempt' \in {1, 2} /\ n > 0 /\ n <= rcu_call_count
  BY DEF Left, Busy, TypeOK, LoopRight
<1>2. rcu_call_count' = (rcu_call_count + Left) - n' /\ rcu_call_count' \in Nat  BY <1>1
<1>3. /\ TypeOK' /\ Queue' /\ OpenRight'
      /\ qpc'[CallThread] = loc
      /\ \A t \in Threads \ {CallThread} : qpc'[t] = qpc[t]
  BY <1>0, <1>1, <1>2, QuietLoop
<1>4. LoopRight'  BY <1>0, <1>1, <1>3 DEF LoopRight
<1>5. SleepRight'  BY <1>0, <1>3 DEF SleepRight
<1> QED  BY <1>3, <1>4, <1>5

\* The steps between two attempts of try_dequeue.
LEMMA Step_Retry ==
  ASSUME CallInv, DequeueReset \/ DequeueWait
  PROVE  CallInv'
<1> USE DEF CallInv, At, restVars, eventVars
<1> DEFINE loc == "dequeue"
<1>0. loc \in LoopLocations \ {"call", "link"} /\ loc \in Busy
      /\ loc \notin {"await", "dqwait", "sub"} /\ QGo(CallThread, loc)
  BY DEF LoopLocations, Busy, DequeueReset, DequeueWait
<1>a. qpc[CallThread] \in {"dqreset", "dqwait"}  BY DEF DequeueReset, DequeueWait
<1> HIDE DEF loc
<1>b. UNCHANGED <<rcuVars, queueVars, rcu_call_count, node, old_tail, n, queued, open>>
  BY DEF DequeueReset, DequeueWait
<1>1. Left = n /\ rcu_call_count \in Nat /\ n \in Nat /\ n' = n
      /\ rcu_call_count' = rcu_call_count /\ n > 0
  BY <1>a, <1>b DEF Left, Busy, TypeOK, LoopRight
<1>2. rcu_call_count' = (rcu_call_count + Left) - n'  BY <1>1
<1>c. rcu_call_ready_event' \in BOOLEAN /\ attempt' \in {1, 2}
  BY DEF TypeOK, DequeueReset, DequeueWait
<1>3. /\ TypeOK' /\ Queue' /\ OpenRight'
      /\ qpc'[CallThread] = loc
      /\ \A t \in Threads \ {CallThread} : qpc'[t] = qpc[t]
  <2>1. qpc[CallThread] \in Busy \ {"sync"} /\ qpc[CallThread] \notin {"call", "link"}
    BY <1>a DEF Busy
  <2> QED  BY <1>0, <1>b, <1>1, <1>2, <1>c, <2>1, QuietLoop
<1>4. LoopRight'  BY <1>0, <1>1, <1>3 DEF LoopRight
<1>5. SleepRight'  BY <1>0, <1>3 DEF SleepRight
<1> QED  BY <1>3, <1>4, <1>5

\* The link from the old tail is made: by a producer, or for the dummy.
LEMMA Step_Link ==
  ASSUME CallInv, NEW t \in Threads, Link(t)
  PROVE  CallInv'
<1> USE DEF CallInv, Link, eventVars
<1> DEFINE loc == IF t = CallThread THEN "dequeue" ELSE "count"
<1>0. /\ qpc \in [Threads -> QueueLocations \cup LoopLocations]
      /\ node \in [Threads -> AllNodes \cup {NULL}]
      /\ old_tail \in [Threads -> AllNodes \cup {NULL}]
      /\ next \in [AllNodes -> AllNodes \cup {NULL}]
      /\ CallThread \in Threads /\ qpc[t] = "link" /\ t \in Linkers
  BY CallThreadAssumption DEF TypeOK, Linkers
<1>1. /\ loc \in {"dequeue", "count"} /\ (t = CallThread <=> loc = "dequeue")
      /\ qpc' = [qpc EXCEPT ![t] = loc]
  BY DEF QGo
<1> HIDE DEF loc
<1>2. /\ qpc'[t] = loc
      /\ \A u \in Threads \ {t} : /\ qpc'[u] = qpc[u] /\ node'[u] = node[u]
                                  /\ old_tail'[u] = old_tail[u]
  BY <1>0, <1>1
<1>3. Linkers' = Linkers \ {t}  BY <1>0, <1>1, <1>2 DEF Linkers
<1>4. Uncounted' = Uncounted  BY <1>0, <1>1, <1>2 DEF Uncounted
<1>5. Called' = Called /\ Left' = Left
  <2>1. CASE t = CallThread
    <3>1. qpc'[CallThread] = "dequeue" /\ qpc[CallThread] = "link" /\ n' = n
      BY <1>0, <1>1, <1>2, <2>1
    <3> QED  BY <3>1 DEF Called, Left, Busy
  <2>2. CASE t # CallThread
    <3>1. qpc'[CallThread] = qpc[CallThread] /\ node'[CallThread] = node[CallThread] /\ n' = n
      BY <1>0, <1>2, <2>2
    <3> QED  BY <3>1 DEF Called, Left
  <2> QED  BY <2>1, <2>2
<1>6. PICK q \in Seq(AllNodes) : Chain(q) /\ Counted(q) /\ Covered(q)  BY DEF Queue
<1>7. PICK i \in 1..(Len(q) - 1) :
        old_tail[t] = q[i] /\ node[t] = q[i + 1] /\ next[q[i]] = NULL
  BY <1>0, <1>6 DEF Chain
<1>8. /\ Len(q) \in Nat /\ Len(q) > 0 /\ DOMAIN q = 1..Len(q)
      /\ (\A k \in 1..Len(q) : q[k] \in AllNodes)
      /\ \A k, m \in 1..Len(q) : q[k] = q[m] => k = m
  BY <1>6, QueueElements DEF Chain, IsInjective
<1>9. /\ i \in 1..Len(q) /\ i + 1 \in 1..Len(q) /\ i # Len(q)
      /\ q[i] \in AllNodes /\ q[i + 1] \in AllNodes
  <2>1. i \in 1..Len(q) /\ i + 1 \in 1..Len(q) /\ i # Len(q)
    <3>1. Len(q) \in Nat  BY <1>8
    <3> QED  BY <3>1
  <2> QED  BY <1>8, <2>1
<1>10. next' = [next EXCEPT ![q[i]] = q[i + 1]]  BY <1>7
<1>11. /\ next'[q[i]] = q[i + 1] /\ q[i + 1] # NULL
       /\ \A k \in 1..Len(q) : k # i => next'[q[k]] = next[q[k]]
  <2>1. \A k \in 1..Len(q) : k # i => q[k] # q[i]  BY <1>8, <1>9
  <2> QED  BY <1>0, <1>8, <1>9, <1>10, <2>1, NodesFacts
<1>12. TypeOK'
  <2>1. RcuTypeOK'  BY DEF TypeOK, RcuTypeOK, rcuVars, readerVars, syncVars
  <2>2. loc \in QueueLocations \cup LoopLocations  BY <1>1 DEF QueueLocations, LoopLocations
  <2>3. next' \in [AllNodes -> AllNodes \cup {NULL}]  BY <1>0, <1>9, <1>10
  <2> QED  BY <1>0, <1>1, <2>1, <2>2, <2>3 DEF TypeOK
<1>13. LoopRight'
  BY <1>0, <1>1, <1>2 DEF LoopRight, QueueLocations, LoopLocations, Busy
<1>14. Chain(q)'
  <2>1. /\ q # <<>> /\ IsInjective(q) /\ q[1] = head' /\ q[Len(q)] = tail'
        /\ ToSet(q) = {Dummy} \cup (queued' \ Called')
    BY <1>5, <1>6 DEF Chain
  <2>2. next'[tail'] = NULL
    <3>1. q[Len(q)] = tail /\ Len(q) \in 1..Len(q) /\ next[tail] = NULL
      BY <1>6, <1>8 DEF Chain
    <3> QED  BY <1>9, <1>11, <3>1
  <2>3. ASSUME NEW k \in 1..(Len(q) - 1)
        PROVE  /\ next'[q[k]] = NULL => \E u \in Linkers' : node'[u] = q[k + 1]
               /\ next'[q[k]] # NULL => next'[q[k]] = q[k + 1]
    <3>1. k \in 1..Len(q) /\ k + 1 \in 1..Len(q)  BY <1>8
    <3>2. CASE k = i  BY <1>11, <3>2
    <3>3. CASE k # i
      <4>1. next'[q[k]] = next[q[k]]  BY <1>11, <3>1, <3>3
      <4>2. q[k + 1] # q[i + 1]
        <5>1. k + 1 # i + 1  BY <1>9, <3>1, <3>3
        <5> QED  BY <1>8, <1>9, <3>1, <5>1
      <4>3. ASSUME next[q[k]] = NULL
            PROVE  \E u \in Linkers' : node'[u] = q[k + 1]
        <5>1. PICK u \in Linkers : node[u] = q[k + 1]  BY <1>6, <4>3 DEF Chain
        <5>2. u # t /\ u \in Threads  BY <1>7, <4>2, <5>1 DEF Linkers
        <5> QED  BY <1>2, <1>3, <5>1, <5>2
      <4>4. next[q[k]] # NULL => next[q[k]] = q[k + 1]  BY <1>6 DEF Chain
      <4> QED  BY <4>1, <4>3, <4>4
    <3> QED  BY <3>2, <3>3
  <2>4. ASSUME NEW u \in Linkers'
        PROVE  \E k \in 1..(Len(q) - 1) :
                 old_tail'[u] = q[k] /\ node'[u] = q[k + 1] /\ next'[q[k]] = NULL
    <3>1. u \in Linkers /\ u # t /\ u \in Threads  BY <1>3 DEF Linkers
    <3>2. PICK k \in 1..(Len(q) - 1) :
            old_tail[u] = q[k] /\ node[u] = q[k + 1] /\ next[q[k]] = NULL
      BY <1>6, <3>1 DEF Chain
    <3>3. node[u] # node[t]  BY <1>0, <1>6, <3>1 DEF Chain
    <3>4. k # i /\ k \in 1..Len(q)  BY <1>7, <1>8, <3>2, <3>3
    <3> QED  BY <1>2, <1>11, <3>1, <3>2, <3>4
  <2>5. ASSUME NEW u \in Linkers', NEW v \in Linkers', node'[u] = node'[v]
        PROVE  u = v
    <3>1. u \in Linkers /\ u # t /\ u \in Threads /\ v \in Linkers /\ v # t /\ v \in Threads
      BY <1>3 DEF Linkers
    <3> QED  BY <1>2, <1>6, <2>5, <3>1 DEF Chain
  <2> QED  BY <2>1, <2>2, <2>3, <2>4, <2>5 DEF Chain
<1>15. Counted(q)'  BY <1>4, <1>5, <1>6 DEF Counted
<1>16. Covered(q)'
  <2>1. before' = before  BY DEF rcuVars
  <2>2. qpc'[CallThread] \in Busy \ {"sync"} => qpc[CallThread] \in Busy \ {"sync"}
    BY <1>0, <1>2 DEF Busy
  <2> QED  BY <1>5, <1>6, <2>1, <2>2, CoveredSame
<1>17. OpenRight'
  <2>1. Inside' = Inside  BY DEF Inside, rcuVars, readerVars
  <2> QED  BY <1>0, <1>1, <1>2, <2>1 DEF OpenRight
<1>18. SleepRight'
  BY <1>0, <1>1, <1>2 DEF SleepRight
<1> QED  BY <1>6, <1>12, <1>13, <1>14, <1>15, <1>16, <1>17, <1>18 DEF Queue

\* The grace period begins: whoever is in a section now is waited for, and every
\* section that a queued node may wait for is one of these.
LEMMA Step_WaitGracePeriod ==
  ASSUME CallInv, RcuInv, RcuInv', WaitGracePeriod
  PROVE  CallInv'
<1> USE DEF CallInv, WaitGracePeriod, At, eventVars, QGo
<1>0. /\ qpc \in [Threads -> QueueLocations \cup LoopLocations]
      /\ CallThread \in Threads /\ qpc[CallThread] = "sync"
      /\ before \in [Threads -> SUBSET Threads]
  BY CallThreadAssumption DEF TypeOK, RcuTypeOK
<1>1. /\ qpc'[CallThread] = "dequeue"
      /\ \A u \in Threads \ {CallThread} : qpc'[u] = qpc[u]
  BY <1>0
<1>2. before'[CallThread] = Inside  BY <1>0 DEF synchronize_rcu
<1>3. Inside' = Inside
  <2>1. pc[CallThread] = "run" /\ depth' = depth /\ depth[CallThread] = 0
        /\ \E L : pc \in [Threads -> L]
    BY DEF synchronize_rcu, readerVars, TypeOK, RcuTypeOK
  <2>2. PICK l \in {"return", "flip"} : pc' = [pc EXCEPT ![CallThread] = l]
    BY DEF synchronize_rcu, Go
  <2> QED  BY <1>0, <2>1, <2>2 DEF Inside
<1>4. Linkers' = Linkers /\ Uncounted' = Uncounted /\ Called' = Called /\ Left' = Left
  <2>1. Linkers' = Linkers /\ Uncounted' = Uncounted  BY <1>0, <1>1 DEF Linkers, Uncounted
  <2> QED  BY <1>0, <1>1, <2>1 DEF Called, Left, Busy
<1>5. TypeOK'
  <2>1. qpc' \in [Threads -> QueueLocations \cup LoopLocations]
    BY <1>0 DEF LoopLocations
  <2> QED  BY <2>1 DEF TypeOK, RcuInv, queueVars
<1>6. LoopRight'  BY <1>0, <1>1 DEF LoopRight, Busy, LoopLocations
<1>7. Queue'
  <2>1. PICK q \in Seq(AllNodes) : Chain(q) /\ Counted(q) /\ Covered(q)  BY DEF Queue
  <2>2. Chain(q)'  BY <1>4, <2>1, ChainSame
  <2>3. Counted(q)'  BY <1>4, <2>1 DEF Counted
  <2>4. Covered(q)'
    <3>1. SUFFICES ASSUME NEW i \in DOMAIN q, q[i] # Dummy
                   PROVE  open'[q[i]] \subseteq before'[CallThread]
      BY DEF Covered
    <3>2. q[i] \in Nodes  BY <3>1, QueueElements DEF AllNodes
    <3> QED  BY <1>2, <3>2 DEF OpenRight
  <2> QED  BY <2>2, <2>3, <2>4 DEF Queue
<1>8. OpenRight'  BY <1>1, <1>3 DEF OpenRight
<1>9. SleepRight'  BY <1>1 DEF SleepRight
<1> QED  BY <1>5, <1>6, <1>7, <1>8, <1>9

\* The callback runs on a node that is in the queue no more.
LEMMA Step_Callback ==
  ASSUME CallInv, RcuInv', Callback
  PROVE  CallInv'
<1> USE DEF CallInv, Callback, At, eventVars, QGo
<1> DEFINE loc == IF n = 1 THEN "top" ELSE "dequeue"
           x == node[CallThread]
<1>0. /\ qpc \in [Threads -> QueueLocations \cup LoopLocations]
      /\ node \in [Threads -> AllNodes \cup {NULL}]
      /\ next \in [AllNodes -> AllNodes \cup {NULL}]
      /\ CallThread \in Threads /\ qpc[CallThread] = "call"
      /\ x \in queued /\ x \in Nodes /\ x \in AllNodes /\ x # Dummy
      /\ n \in Nat /\ n > 0
  BY CallThreadAssumption, NodesFacts DEF TypeOK, OpenRight, LoopRight, Busy
<1>1. /\ loc \in {"top", "dequeue"} /\ (loc = "top" <=> n = 1)
      /\ qpc' = [qpc EXCEPT ![CallThread] = loc]
  OBVIOUS
<1>2. next' = [next EXCEPT ![x] = NULL] /\ queued' = queued \ {x}
      /\ node' = [node EXCEPT ![CallThread] = NULL]
  OBVIOUS
<1>3. Called = {x}  BY <1>0 DEF Called
<1> HIDE DEF loc, x
<1>4. /\ qpc'[CallThread] = loc
      /\ \A u \in Threads \ {CallThread} : qpc'[u] = qpc[u] /\ node'[u] = node[u]
  BY <1>0, <1>1, <1>2
<1>5. Linkers' = Linkers /\ Uncounted' = Uncounted /\ Called' = {}
  <2>1. Linkers' = Linkers  BY <1>0, <1>1, <1>4 DEF Linkers
  <2>2. Uncounted' = Uncounted  BY <1>0, <1>1, <1>4 DEF Uncounted
  <2>3. Called' = {}  BY <1>1, <1>4 DEF Called
  <2> QED  BY <2>1, <2>2, <2>3
<1>6. Left = n - 1 /\ Left' = n - 1
  <2>1. Left = n - 1  BY <1>0 DEF Left
  <2>2. CASE n = 1
    <3>1. loc = "top"  BY <1>1, <2>2
    <3>2. Left' = 0  BY <1>4, <3>1 DEF Left, Busy
    <3> QED  BY <2>1, <2>2, <3>2
  <2>3. CASE n # 1
    <3>1. loc = "dequeue"  BY <1>1, <2>3
    <3>2. Left' = n'  BY <1>4, <3>1 DEF Left, Busy
    <3> QED  BY <2>1, <3>2
  <2> QED  BY <2>2, <2>3
<1>7. TypeOK'
  <2>1. qpc' \in [Threads -> QueueLocations \cup LoopLocations]
    BY <1>0, <1>1 DEF LoopLocations
  <2>2. next' \in [AllNodes -> AllNodes \cup {NULL}]
        /\ node' \in [Threads -> AllNodes \cup {NULL}] /\ queued' \subseteq Nodes
    BY <1>0, <1>2 DEF TypeOK
  <2>3. n' \in Nat  BY <1>0
  <2> QED  BY <2>1, <2>2, <2>3 DEF TypeOK, RcuInv
<1>8. LoopRight'
  <2>1. loc = "dequeue" => n' > 0  BY <1>0, <1>1
  <2> QED  BY <1>1, <1>4, <2>1 DEF LoopRight, LoopLocations, Busy
<1>9. Queue'
  <2>1. PICK q \in Seq(AllNodes) : Chain(q) /\ Counted(q) /\ Covered(q)  BY DEF Queue
  <2>2. x \notin ToSet(q)  BY <1>0, <1>3, <2>1 DEF Chain
  <2>3. /\ Len(q) \in Nat /\ Len(q) > 0
        /\ \A i \in 1..Len(q) : q[i] \in AllNodes /\ next'[q[i]] = next[q[i]]
    BY <1>0, <1>2, <2>1, <2>2, QueueElements DEF Chain
  <2>4. \A u \in Linkers : node'[u] = node[u] /\ u # CallThread
    BY <1>0, <1>4 DEF Linkers
  <2>5. Chain(q)'
    <3>1. /\ q # <<>> /\ IsInjective(q) /\ q[1] = head' /\ q[Len(q)] = tail'
      BY <2>1 DEF Chain
    <3>2. ToSet(q) = {Dummy} \cup (queued' \ Called')
      BY <1>0, <1>2, <1>3, <1>5, <2>1 DEF Chain
    <3>3. next'[tail'] = NULL
      <4>1. Len(q) \in 1..Len(q)  BY <2>3
      <4> QED  BY <2>1, <2>3, <4>1 DEF Chain
    <3>4. \A i \in 1..(Len(q) - 1) : next'[q[i]] = next[q[i]]
      <4>1. \A i \in 1..(Len(q) - 1) : i \in 1..Len(q)  BY <2>3
      <4> QED  BY <2>3, <4>1
    <3>5. \A i \in 1..(Len(q) - 1) :
            /\ next'[q[i]] = NULL => \E u \in Linkers' : node'[u] = q[i + 1]
            /\ next'[q[i]] # NULL => next'[q[i]] = q[i + 1]
      BY <1>5, <2>1, <2>4, <3>4 DEF Chain
    <3>6. \A u \in Linkers' :
            \E i \in 1..(Len(q) - 1) :
              old_tail'[u] = q[i] /\ node'[u] = q[i + 1] /\ next'[q[i]] = NULL
      BY <1>5, <2>1, <2>4, <3>4 DEF Chain
    <3>7. \A u, v \in Linkers' : node'[u] = node'[v] => u = v
      BY <1>5, <2>1, <2>4 DEF Chain
    <3> QED  BY <3>1, <3>2, <3>3, <3>5, <3>6, <3>7 DEF Chain
  <2>6. Counted(q)'  BY <1>5, <1>6, <2>1 DEF Counted
  <2>7. Covered(q)'
    <3>1. before' = before  BY DEF rcuVars
    <3>2. qpc[CallThread] \in Busy \ {"sync"}  BY <1>0 DEF Busy
    <3> QED  BY <1>6, <2>1, <3>1, <3>2, CoveredSame
  <2> QED  BY <2>5, <2>6, <2>7 DEF Queue
<1>10. OpenRight'
  <2>1. Inside' = Inside  BY DEF Inside, rcuVars, readerVars
  <2> QED  BY <1>1, <1>4, <2>1 DEF OpenRight
<1>11. SleepRight'  BY <1>1, <1>4 DEF SleepRight
<1> QED  BY <1>7, <1>8, <1>9, <1>10, <1>11

\* The head, and what is behind it, when the call_rcu thread looks for a node.
LEMMA DequeueFacts ==
  ASSUME CallInv, At("dequeue"), NEW q \in Seq(AllNodes), Chain(q), Counted(q)
  PROVE  /\ Len(q) \in Nat /\ Len(q) >= 2 /\ DOMAIN q = 1..Len(q)
         /\ head = q[1] /\ tail = q[Len(q)]
         /\ \A i \in 1..Len(q) : q[i] \in AllNodes /\ q[i] \in ToSet(q)
         /\ \A i, j \in 1..Len(q) : q[i] = q[j] => i = j
         /\ ToSet(q) = {Dummy} \cup queued
         /\ Left = n /\ n \in Nat /\ n > 0
         /\ next[head] = NULL => Linkers # {}
         /\ next[head] # NULL => next[head] = q[2]
<1> USE DEF CallInv, At
<1>1. Left = n /\ n \in Nat /\ n > 0 /\ Called = {} /\ rcu_call_count \in Nat
  BY DEF Left, Called, LoopRight, TypeOK, Busy
<1>2. Len(q) \in Nat /\ DOMAIN q = 1..Len(q)
      /\ \A i \in 1..Len(q) : q[i] \in AllNodes /\ q[i] \in ToSet(q)
  BY QueueElements
<1>3. Len(q) >= 2  BY <1>1, <1>2, UncountedFinite DEF Counted
<1>4. 1 \in 1..(Len(q) - 1)
  <2>1. Len(q) \in Nat /\ Len(q) >= 2  BY <1>2, <1>3
  <2> QED  BY <2>1
<1>5. \A i, j \in 1..Len(q) : q[i] = q[j] => i = j  BY <1>2 DEF Chain, IsInjective
<1>6. head = q[1] /\ tail = q[Len(q)] /\ ToSet(q) = {Dummy} \cup queued  BY <1>1 DEF Chain
<1>7. next[q[1]] = NULL => Linkers # {}  BY <1>4 DEF Chain
<1>8. next[q[1]] # NULL => next[q[1]] = q[2]
  <2>1. next[q[1]] # NULL => next[q[1]] = q[1 + 1]  BY <1>4 DEF Chain
  <2> QED  BY <2>1
<1> QED  BY <1>1, <1>2, <1>3, <1>5, <1>6, <1>7, <1>8

\* The head is not linked yet: the thread whose link is missing will wake us.
LEMMA Step_DequeueNothing ==
  ASSUME CallInv, try_dequeue, next[head] = NULL
  PROVE  CallInv'
<1> USE DEF CallInv, eventVars
<1> DEFINE loc == IF attempt = 1 THEN "dqreset" ELSE "dqwait"
<1>0. loc \in LoopLocations \ {"call", "link"} /\ loc \in Busy /\ loc # "await" /\ loc # "sub"
  BY DEF LoopLocations, Busy
<1>1. QGo(CallThread, loc) /\ At("dequeue")
      /\ UNCHANGED <<rcuVars, queueVars, node, old_tail, n, attempt, queued, open, eventVars>>
  BY DEF try_dequeue
<1> HIDE DEF loc
<1>2. PICK q \in Seq(AllNodes) : Chain(q) /\ Counted(q) /\ Covered(q)  BY DEF Queue
<1>3. Left = n /\ n \in Nat /\ n > 0 /\ Linkers # {}  BY <1>1, <1>2, DequeueFacts
<1>4. rcu_call_count \in Nat /\ rcu_call_ready_event \in BOOLEAN /\ attempt \in {1, 2}
  BY DEF TypeOK
<1>5. rcu_call_count' = (rcu_call_count + Left) - n'  BY <1>1, <1>3, <1>4
<1>6. /\ TypeOK' /\ Queue' /\ OpenRight'
      /\ qpc'[CallThread] = loc
      /\ \A t \in Threads \ {CallThread} : qpc'[t] = qpc[t]
  <2>1. qpc[CallThread] \in Busy \ {"sync"} /\ qpc[CallThread] \notin {"call", "link"}
    BY <1>1 DEF Busy, At
  <2> QED  BY <1>0, <1>1, <1>3, <1>4, <1>5, <2>1, QuietLoop
<1>7. LoopRight'  BY <1>0, <1>1, <1>3, <1>6 DEF LoopRight
<1>8. SleepRight'
  <2>1. PICK t \in Threads : qpc[t] = "link"  BY <1>3 DEF Linkers
  <2>2. t # CallThread  BY <1>1, <2>1 DEF At
  <2>3. qpc'[t] = "link"  BY <1>6, <2>1, <2>2
  <2> QED  BY <1>0, <1>6, <2>3 DEF SleepRight
<1> QED  BY <1>6, <1>7, <1>8

\* The dummy is taken off the head and put at the tail: the others keep their
\* order and their rank.
LEMMA Step_DequeueDummy ==
  ASSUME CallInv, RcuInv', try_dequeue, next[head] # NULL, head = Dummy
  PROVE  CallInv'
<1> USE DEF CallInv, eventVars
<1>1. /\ At("dequeue") /\ qpc[CallThread] = "dequeue"
      /\ qpc' = [qpc EXCEPT ![CallThread] = "link"]
      /\ head' = next[head] /\ tail' = Dummy
      /\ next' = [next EXCEPT ![Dummy] = NULL]
      /\ old_tail' = [old_tail EXCEPT ![CallThread] = tail]
      /\ node' = [node EXCEPT ![CallThread] = Dummy]
      /\ UNCHANGED <<rcuVars, eventVars, n, attempt, queued, open>>
  BY DEF try_dequeue, enqueue, QGo, At
<1>0. /\ qpc \in [Threads -> QueueLocations \cup LoopLocations]
      /\ node \in [Threads -> AllNodes \cup {NULL}]
      /\ old_tail \in [Threads -> AllNodes \cup {NULL}]
      /\ next \in [AllNodes -> AllNodes \cup {NULL}] /\ tail \in AllNodes
      /\ CallThread \in Threads /\ Dummy \in AllNodes
  BY CallThreadAssumption, NodesFacts DEF TypeOK
<1>2. PICK q \in Seq(AllNodes) : Chain(q) /\ Counted(q) /\ Covered(q)  BY DEF Queue
<1>3. /\ Len(q) \in Nat /\ Len(q) >= 2 /\ DOMAIN q = 1..Len(q)
      /\ q[1] = Dummy /\ tail = q[Len(q)] /\ next[Dummy] = q[2]
      /\ (\A i \in 1..Len(q) : q[i] \in AllNodes /\ q[i] \in ToSet(q))
      /\ (\A i, j \in 1..Len(q) : q[i] = q[j] => i = j)
      /\ ToSet(q) = {Dummy} \cup queued
      /\ Left = n /\ n \in Nat /\ n > 0
  BY <1>1, <1>2, DequeueFacts
<1>4. /\ qpc'[CallThread] = "link" /\ node'[CallThread] = Dummy
      /\ old_tail'[CallThread] = tail
      /\ \A u \in Threads \ {CallThread} : /\ qpc'[u] = qpc[u] /\ node'[u] = node[u]
                                           /\ old_tail'[u] = old_tail[u]
  BY <1>0, <1>1
<1>5. Linkers' = Linkers \cup {CallThread} /\ CallThread \notin Linkers
  BY <1>0, <1>1, <1>4 DEF Linkers
<1>6. Uncounted' = Uncounted  BY <1>0, <1>4 DEF Uncounted
<1>7. Called = {} /\ Called' = {} /\ Left' = Left
  BY <1>1, <1>4 DEF Called, Left, Busy
<1> DEFINE N == Len(q)
           r == Append(Tail(q), Dummy)
<1>8. N \in Nat /\ N >= 2 /\ N - 1 \in 1..N /\ N \in 1..N /\ 1 \in 1..N /\ 2 \in 1..N
      /\ \A i \in 1..(N - 1) : i \in 1..N /\ i + 1 \in 1..N /\ i + 1 # 1
  <2>1. N \in Nat /\ N >= 2  BY <1>3
  <2> HIDE DEF N
  <2> QED  BY <2>1
<1>9. /\ r \in Seq(AllNodes) /\ Len(r) = N /\ r # <<>>
      /\ (\A i \in 1..(N - 1) : r[i] = q[i + 1]) /\ r[N] = Dummy
      /\ ToSet(r) = ToSet(q) /\ IsInjective(r)
  <2> DEFINE t == Tail(q)
  <2>1. q # <<>> /\ IsInjective(q) /\ Head(q) = Dummy  BY <1>2, <1>3 DEF Chain
  <2>2. t \in Seq(AllNodes) /\ Len(t) = N - 1 /\ \A i \in 1..(N - 1) : t[i] = q[i + 1]
    BY <2>1, HeadTailProperties
  <2>3. IsInjective(t) /\ ToSet(t) = ToSet(q) \ {Dummy}  BY <2>1, QueueTail
  <2> HIDE DEF t
  <2>4. /\ r \in Seq(AllNodes) /\ r # <<>> /\ ToSet(r) = ToSet(t) \cup {Dummy}
        /\ IsInjective(r)
    <3>1. r = Append(t, Dummy)  BY DEF t
    <3>2. Dummy \notin ToSet(t)  BY <2>3
    <3> HIDE DEF r
    <3> QED  BY <1>0, <2>2, <2>3, <3>1, <3>2, QueueAppend
  <2>5. Len(r) = Len(t) + 1 /\ (\A i \in 1..Len(t) : r[i] = t[i]) /\ r[Len(t) + 1] = Dummy
    BY <1>0, <2>2, AppendProperties DEF t
  <2>6. (N - 1) + 1 = N  BY <1>8
  <2>7. Dummy \in ToSet(q)  BY <1>3
  <2> QED  BY <2>2, <2>3, <2>4, <2>5, <2>6, <2>7
<1> HIDE DEF N, r
<1>10. /\ next'[Dummy] = NULL
       /\ \A i \in 1..N : q[i] # Dummy => next'[q[i]] = next[q[i]]
  BY <1>0, <1>1, <1>3 DEF N
<1>11. \A i \in 1..N : i # 1 => q[i] # Dummy
  BY <1>3, <1>8 DEF N
<1>12. Chain(r)'
  <2>1. r[1] = head' /\ r[Len(r)] = tail' /\ next'[tail'] = NULL
    <3>1. 1 \in 1..(N - 1)  BY <1>8
    <3>2. r[1] = q[1 + 1]  BY <1>9, <3>1
    <3> QED  BY <1>1, <1>3, <1>9, <1>10, <3>2
  <2>2. ToSet(r) = {Dummy} \cup (queued' \ Called')  BY <1>1, <1>3, <1>7, <1>9
  <2>3. ASSUME NEW i \in 1..(N - 1)
        PROVE  /\ next'[r[i]] = NULL => \E u \in Linkers' : node'[u] = r[i + 1]
               /\ next'[r[i]] # NULL => next'[r[i]] = r[i + 1]
    <3>1. r[i] = q[i + 1] /\ i + 1 \in 1..N /\ next'[r[i]] = next[q[i + 1]]
      BY <1>8, <1>9, <1>10, <1>11
    <3>2. CASE i = N - 1
      <4>1. i + 1 = N  BY <1>8, <3>2
      <4>2. next'[r[i]] = NULL
        BY <1>2, <1>3, <3>1, <4>1 DEF Chain, N
      <4> QED  BY <1>4, <1>5, <1>9, <4>1, <4>2
    <3>3. CASE i # N - 1
      <4>1. i + 1 \in 1..(N - 1) /\ (i + 1) + 1 \in 1..N  BY <1>8, <3>3
      <4>2. r[i + 1] = q[(i + 1) + 1]  BY <1>9, <4>1
      <4>3. /\ next[q[i + 1]] = NULL => \E u \in Linkers : node[u] = q[(i + 1) + 1]
            /\ next[q[i + 1]] # NULL => next[q[i + 1]] = q[(i + 1) + 1]
        BY <1>2, <4>1 DEF Chain, N
      <4>4. \A u \in Linkers : u \in Linkers' /\ node'[u] = node[u]
        BY <1>4, <1>5 DEF Linkers
      <4> QED  BY <3>1, <4>2, <4>3, <4>4
    <3> QED  BY <3>2, <3>3
  <2>4. \A u \in Linkers :
          \E j \in 2..(N - 1) : old_tail[u] = q[j] /\ node[u] = q[j + 1] /\ next[q[j]] = NULL
    <3> SUFFICES ASSUME NEW u \in Linkers
                 PROVE  \E j \in 2..(N - 1) : /\ old_tail[u] = q[j] /\ node[u] = q[j + 1]
                                              /\ next[q[j]] = NULL
      OBVIOUS
    <3>1. PICK j \in 1..(N - 1) : old_tail[u] = q[j] /\ node[u] = q[j + 1] /\ next[q[j]] = NULL
      BY <1>2 DEF Chain, N
    <3>2. j # 1  BY <1>3, <3>1
    <3>3. j \in 2..(N - 1)  BY <1>8, <3>2
    <3> QED  BY <3>1, <3>3
  <2>5. ASSUME NEW u \in Linkers'
        PROVE  \E i \in 1..(N - 1) :
                 old_tail'[u] = r[i] /\ node'[u] = r[i + 1] /\ next'[r[i]] = NULL
    <3>1. CASE u = CallThread
      <4>1. N - 1 \in 1..(N - 1) /\ (N - 1) + 1 = N  BY <1>8
      <4>2. r[N - 1] = tail /\ r[(N - 1) + 1] = Dummy  BY <1>3, <1>9, <4>1 DEF N
      <4>3. next'[r[N - 1]] = NULL
        <5>1. next[q[N]] = NULL /\ q[N] = tail  BY <1>2 DEF Chain, N
        <5>2. N # 1  BY <1>8
        <5> QED  BY <1>8, <1>10, <1>11, <4>2, <5>1, <5>2
      <4> QED  BY <1>4, <3>1, <4>1, <4>2, <4>3
    <3>2. CASE u # CallThread
      <4>1. u \in Linkers /\ u \in Threads  BY <1>5, <3>2 DEF Linkers
      <4>2. PICK j \in 2..(N - 1) :
              old_tail[u] = q[j] /\ node[u] = q[j + 1] /\ next[q[j]] = NULL
        BY <2>4, <4>1
      <4>3. j - 1 \in 1..(N - 1) /\ (j - 1) + 1 = j /\ j \in 1..(N - 1) /\ j \in 1..N /\ j # 1
        BY <1>8
      <4>4. r[j - 1] = q[j] /\ r[(j - 1) + 1] = q[j + 1]  BY <1>9, <4>3
      <4>5. next'[r[j - 1]] = NULL  BY <1>10, <1>11, <4>2, <4>3, <4>4
      <4>6. old_tail'[u] = old_tail[u] /\ node'[u] = node[u]  BY <1>4, <3>2, <4>1
      <4> QED  BY <4>2, <4>3, <4>4, <4>5, <4>6
    <3> QED  BY <3>1, <3>2
  <2>6. ASSUME NEW u \in Linkers', NEW v \in Linkers', node'[u] = node'[v]
        PROVE  u = v
    <3>1. \A w \in Linkers : node[w] # Dummy
      <4> SUFFICES ASSUME NEW w \in Linkers PROVE node[w] # Dummy  OBVIOUS
      <4>1. PICK j \in 2..(N - 1) : node[w] = q[j + 1]  BY <2>4
      <4>2. j + 1 \in 1..N /\ j + 1 # 1  BY <1>8
      <4> QED  BY <1>11, <4>1, <4>2
    <3>2. \A w \in Linkers : node'[w] = node[w]  BY <1>4, <1>5 DEF Linkers
    <3> QED  BY <1>2, <1>4, <1>5, <2>6, <3>1, <3>2 DEF Chain
  <2> QED  BY <1>9, <2>1, <2>2, <2>3, <2>5, <2>6 DEF Chain
<1>13. Counted(r)'  BY <1>1, <1>2, <1>6, <1>7, <1>9 DEF Counted, N
<1>14. Covered(r)'
  <2>1. SUFFICES ASSUME NEW i \in DOMAIN r, r[i] # Dummy, Rank(r, i) <= Left'
                 PROVE  open'[r[i]] \subseteq before'[CallThread]
    BY DEF Covered, Rank
  <2>2. i \in 1..N  BY <1>9, <2>1, LenProperties
  <2>3. i \in 1..(N - 1) /\ i # N
    <3>1. i # N  BY <1>9, <2>1
    <3> QED  BY <1>8, <2>2, <3>1
  <2>4. r[i] = q[i + 1] /\ i + 1 \in 1..N  BY <1>8, <1>9, <2>3
  <2>5. Rank(r, i) = i
    <3>1. \A j \in 1..(i - 1) : j \in 1..(N - 1)  BY <1>8, <2>3
    <3>2. \A j \in 1..(i - 1) : r[j] # Dummy  BY <1>8, <1>9, <1>11, <3>1
    <3> QED  BY <3>2 DEF Rank
  <2>6. Rank(q, i + 1) = i
    <3>1. (i + 1) - 1 = i /\ 1 \in 1..i  BY <1>8, <2>3
    <3>2. 1 \in 1..((i + 1) - 1) /\ q[1] = Dummy  BY <1>3, <3>1
    <3> QED  BY <3>1, <3>2 DEF Rank
  <2>7. i <= Left  BY <1>7, <2>1, <2>5
  <2>8. qpc[CallThread] \in Busy \ {"sync"}  BY <1>1 DEF Busy
  <2>9. open[q[i + 1]] \subseteq before[CallThread]
    BY <1>2, <1>3, <2>1, <2>4, <2>6, <2>7, <2>8 DEF Covered, N
  <2>10. before' = before /\ open' = open  BY <1>1 DEF rcuVars
  <2> QED  BY <2>4, <2>9, <2>10
<1>15. TypeOK'
  <2>1. qpc' \in [Threads -> QueueLocations \cup LoopLocations]
    BY <1>0, <1>1 DEF LoopLocations
  <2>2. head' \in AllNodes  BY <1>1, <1>3, <1>8 DEF N
  <2>3. next' \in [AllNodes -> AllNodes \cup {NULL}]
        /\ node' \in [Threads -> AllNodes \cup {NULL}]
        /\ old_tail' \in [Threads -> AllNodes \cup {NULL}] /\ tail' \in AllNodes
    BY <1>0, <1>1
  <2> QED  BY <1>1, <2>1, <2>2, <2>3 DEF TypeOK, RcuInv
<1>16. LoopRight'  BY <1>1, <1>3, <1>4 DEF LoopRight, LoopLocations, Busy
<1>17. OpenRight'
  <2>1. Inside' = Inside  BY <1>1 DEF Inside, rcuVars, readerVars
  <2> QED  BY <1>1, <1>4, <2>1 DEF OpenRight
<1>18. SleepRight'  BY <1>4 DEF SleepRight
<1> QED  BY <1>9, <1>12, <1>13, <1>14, <1>15, <1>16, <1>17, <1>18 DEF Queue

\* A node is taken off: it is the first of those left, so its sections have ended.
LEMMA Step_DequeueNode ==
  ASSUME CallInv, RcuInv, RcuInv', try_dequeue, next[head] # NULL, head # Dummy
  PROVE  CallInv'
<1> USE DEF CallInv, eventVars
<1>1. /\ At("dequeue") /\ qpc[CallThread] = "dequeue" /\ pc[CallThread] = "run"
      /\ qpc' = [qpc EXCEPT ![CallThread] = "call"]
      /\ head' = next[head]
      /\ node' = [node EXCEPT ![CallThread] = head]
      /\ UNCHANGED <<tail, next, old_tail>>
      /\ UNCHANGED <<rcuVars, eventVars, n, attempt, queued, open>>
  BY DEF try_dequeue, QGo, At
<1>0. /\ qpc \in [Threads -> QueueLocations \cup LoopLocations]
      /\ node \in [Threads -> AllNodes \cup {NULL}]
      /\ CallThread \in Threads /\ head \in AllNodes
  BY CallThreadAssumption DEF TypeOK
<1>2. PICK q \in Seq(AllNodes) : Chain(q) /\ Counted(q) /\ Covered(q)  BY DEF Queue
<1>3. /\ Len(q) \in Nat /\ Len(q) >= 2 /\ DOMAIN q = 1..Len(q)
      /\ q[1] = head /\ tail = q[Len(q)] /\ next[q[1]] = q[2]
      /\ (\A i \in 1..Len(q) : q[i] \in AllNodes /\ q[i] \in ToSet(q))
      /\ (\A i, j \in 1..Len(q) : q[i] = q[j] => i = j)
      /\ ToSet(q) = {Dummy} \cup queued
      /\ Left = n /\ n \in Nat /\ n > 0
  BY <1>1, <1>2, DequeueFacts
<1>4. /\ qpc'[CallThread] = "call" /\ node'[CallThread] = head
      /\ \A u \in Threads \ {CallThread} : qpc'[u] = qpc[u] /\ node'[u] = node[u]
  BY <1>0, <1>1
<1>5. Linkers' = Linkers /\ CallThread \notin Linkers
  BY <1>0, <1>1, <1>4 DEF Linkers
<1>6. Uncounted' = Uncounted  BY <1>0, <1>4 DEF Uncounted
<1>7. Called' = {head} /\ Left' = n - 1
  BY <1>1, <1>4 DEF Called, Left
<1> DEFINE N == Len(q)
           r == Tail(q)
<1>8. N \in Nat /\ N >= 2 /\ N - 1 \in 1..N /\ N \in 1..N /\ 1 \in 1..N /\ 2 \in 1..N
      /\ 1 \in 1..(N - 1)
      /\ \A i \in 1..(N - 1) : i \in 1..N /\ i + 1 \in 1..N /\ i + 1 # 1
  <2>1. N \in Nat /\ N >= 2  BY <1>3
  <2> HIDE DEF N
  <2> QED  BY <2>1
<1>9. /\ r \in Seq(AllNodes) /\ Len(r) = N - 1 /\ r # <<>>
      /\ (\A i \in 1..(N - 1) : r[i] = q[i + 1])
      /\ ToSet(r) = ToSet(q) \ {head} /\ IsInjective(r)
  <2>1. q # <<>> /\ IsInjective(q) /\ Head(q) = head  BY <1>2, <1>3 DEF Chain
  <2>2. r \in Seq(AllNodes) /\ Len(r) = N - 1 /\ \A i \in 1..(N - 1) : r[i] = q[i + 1]
    BY <2>1, HeadTailProperties
  <2>3. IsInjective(r) /\ ToSet(r) = ToSet(q) \ {head}  BY <2>1, QueueTail
  <2> HIDE DEF r, N
  <2>4. r # <<>>  BY <1>8, <2>2, QueueElements
  <2> QED  BY <2>2, <2>3, <2>4
<1> HIDE DEF N, r
<1>10. head \in queued /\ head \in Nodes  BY <1>3, <1>8 DEF N, TypeOK
<1>11. \A u \in Linkers : node'[u] = node[u]  BY <1>4, <1>5 DEF Linkers
<1>12. Chain(r)'
  <2>1. r[1] = head'
    <3>1. r[1] = q[1 + 1]  BY <1>8, <1>9
    <3> QED  BY <1>1, <1>3, <3>1
  <2>2. r[Len(r)] = tail'
    <3>1. N - 1 \in 1..(N - 1) /\ (N - 1) + 1 = N  BY <1>8
    <3> QED  BY <1>1, <1>3, <1>9, <3>1 DEF N
  <2>3. ToSet(r) = {Dummy} \cup (queued' \ Called')  BY <1>1, <1>3, <1>7, <1>9
  <2>4. next'[tail'] = NULL  BY <1>1, <1>2 DEF Chain
  <2>5. ASSUME NEW i \in 1..(N - 2)
        PROVE  /\ next'[r[i]] = NULL => \E u \in Linkers' : node'[u] = r[i + 1]
               /\ next'[r[i]] # NULL => next'[r[i]] = r[i + 1]
    <3>1. i \in 1..(N - 1) /\ i + 1 \in 1..(N - 1)  BY <1>8
    <3>2. r[i] = q[i + 1] /\ r[i + 1] = q[(i + 1) + 1]  BY <1>9, <3>1
    <3>3. /\ next[q[i + 1]] = NULL => \E u \in Linkers : node[u] = q[(i + 1) + 1]
          /\ next[q[i + 1]] # NULL => next[q[i + 1]] = q[(i + 1) + 1]
      BY <1>2, <3>1 DEF Chain, N
    <3> QED  BY <1>1, <1>5, <1>11, <3>2, <3>3
  <2>6. ASSUME NEW u \in Linkers'
        PROVE  \E i \in 1..(N - 2) :
                 old_tail'[u] = r[i] /\ node'[u] = r[i + 1] /\ next'[r[i]] = NULL
    <3>1. u \in Linkers  BY <1>5
    <3>2. PICK j \in 1..(N - 1) : old_tail[u] = q[j] /\ node[u] = q[j + 1] /\ next[q[j]] = NULL
      BY <1>2, <3>1 DEF Chain, N
    <3>3. j # 1
      <4>1. q[2] # NULL  BY <1>3, <1>8, NodesFacts DEF N
      <4> QED  BY <1>3, <3>2, <4>1
    <3>4. j - 1 \in 1..(N - 2) /\ j - 1 \in 1..(N - 1) /\ (j - 1) + 1 = j
      BY <1>8, <3>3
    <3>5. r[j - 1] = q[j] /\ r[(j - 1) + 1] = q[j + 1]  BY <1>9, <3>4
    <3> QED  BY <1>1, <1>11, <3>1, <3>2, <3>4, <3>5
  <2>7. \A u, v \in Linkers' : node'[u] = node'[v] => u = v
    BY <1>2, <1>5, <1>11 DEF Chain
  <2>8. Len(r) - 1 = N - 2  BY <1>8, <1>9
  <2> QED  BY <1>9, <2>1, <2>2, <2>3, <2>4, <2>5, <2>6, <2>7, <2>8 DEF Chain
<1>13. Counted(r)'
  <2>1. Cardinality(Uncounted) \in Nat /\ rcu_call_count \in Nat  BY UncountedFinite DEF TypeOK
  <2>2. N = 1 + rcu_call_count + Cardinality(Uncounted) + n  BY <1>2, <1>3 DEF Counted, N
  <2>3. N - 1 = 1 + rcu_call_count + Cardinality(Uncounted) + (n - 1)
    BY <1>3, <2>1, <2>2
  <2> QED  BY <1>1, <1>6, <1>7, <1>9, <2>3 DEF Counted
<1>14. qpc[CallThread] \in Busy \ {"sync"} /\ before' = before /\ open' = open
  BY <1>1 DEF Busy, rcuVars
<1>15. Covered(r)'
  <2>1. SUFFICES ASSUME NEW i \in DOMAIN r, r[i] # Dummy, Rank(r, i) <= Left'
                 PROVE  open'[r[i]] \subseteq before'[CallThread]
    BY DEF Covered, Rank
  <2>2. i \in 1..(N - 1)  BY <1>9, <2>1, LenProperties
  <2>3. r[i] = q[i + 1] /\ i + 1 \in 1..N  BY <1>8, <1>9, <2>2
  <2>4. (\E j \in 1..(i - 1) : r[j] = Dummy) <=> (\E j \in 1..i : q[j] = Dummy)
    <3>1. ASSUME NEW j \in 1..(i - 1), r[j] = Dummy  PROVE \E k \in 1..i : q[k] = Dummy
      <4>1. j \in 1..(N - 1) /\ j + 1 \in 1..i  BY <1>8, <2>2
      <4> QED  BY <1>9, <3>1, <4>1
    <3>2. ASSUME NEW j \in 1..i, q[j] = Dummy  PROVE \E k \in 1..(i - 1) : r[k] = Dummy
      <4>1. j # 1  BY <1>3, <3>2
      <4>2. j - 1 \in 1..(i - 1) /\ j - 1 \in 1..(N - 1) /\ (j - 1) + 1 = j
        BY <1>8, <2>2, <4>1
      <4>3. r[j - 1] = q[j]  BY <1>9, <4>2
      <4> QED  BY <3>2, <4>2, <4>3
    <3> QED  BY <3>1, <3>2
  <2>5. Rank(q, i + 1) <= n
    <3>0. (i + 1) - 1 = i /\ i \in Nat /\ n \in Nat  BY <1>3, <2>2
    <3>1. CASE \E j \in 1..i : q[j] = Dummy
      <4>1. Rank(q, i + 1) = i  BY <3>0, <3>1 DEF Rank
      <4>2. Rank(r, i) = i - 1  BY <2>4, <3>1 DEF Rank
      <4>3. i - 1 <= n - 1  BY <1>7, <2>1, <4>2
      <4> QED  BY <3>0, <4>1, <4>3
    <3>2. CASE ~\E j \in 1..i : q[j] = Dummy
      <4>1. Rank(q, i + 1) = i + 1  BY <3>0, <3>2 DEF Rank
      <4>2. Rank(r, i) = i  BY <2>4, <3>2 DEF Rank
      <4>3. i <= n - 1  BY <1>7, <2>1, <4>2
      <4> QED  BY <3>0, <4>1, <4>3
    <3> QED  BY <3>1, <3>2
  <2>6. open[q[i + 1]] \subseteq before[CallThread]
    BY <1>2, <1>3, <1>14, <2>1, <2>3, <2>5 DEF Covered, N
  <2> QED  BY <1>14, <2>3, <2>6
<1>16. open[head] = {}
  <2>1. Rank(q, 1) = 1  BY DEF Rank
  <2>2. Rank(q, 1) <= Left  BY <1>3, <2>1
  <2>3. 1 \in DOMAIN q /\ q[1] # Dummy  BY <1>3
  <2>4. open[q[1]] \subseteq before[CallThread]
    BY <1>2, <1>14, <2>2, <2>3 DEF Covered
  <2>5. before[CallThread] = {}
    BY <1>0, <1>1 DEF RcuInv, Awaited, SyncLocations, WalkLocations
  <2> QED  BY <1>3, <2>4, <2>5
<1>17. TypeOK'
  <2>1. qpc' \in [Threads -> QueueLocations \cup LoopLocations]
    BY <1>0, <1>1 DEF LoopLocations
  <2>2. head' \in AllNodes  BY <1>1, <1>3, <1>8 DEF N
  <2>3. node' \in [Threads -> AllNodes \cup {NULL}]  BY <1>0, <1>1
  <2> QED  BY <1>1, <2>1, <2>2, <2>3 DEF TypeOK, RcuInv
<1>18. LoopRight'  BY <1>1, <1>3, <1>4 DEF LoopRight, LoopLocations, Busy
<1>19. OpenRight'
  <2>1. Inside' = Inside  BY <1>1 DEF Inside, rcuVars, readerVars
  <2> QED  BY <1>1, <1>4, <1>10, <1>16, <2>1 DEF OpenRight
<1>20. SleepRight'  BY <1>4 DEF SleepRight
<1> QED  BY <1>9, <1>12, <1>13, <1>15, <1>17, <1>18, <1>19, <1>20 DEF Queue

\* A step that changes nothing.
LEMMA Step_CallStutter ==
  ASSUME CallInv, UNCHANGED vars
  PROVE  CallInv'
<1> USE DEF CallInv, vars, callVars, localVars, eventVars
<1>0. UNCHANGED <<rcuVars, queueVars, node, old_tail, queued, open, qpc, n, attempt,
                  rcu_call_count, rcu_call_ready_event>>
  OBVIOUS
<1>1. Linkers' = Linkers /\ Uncounted' = Uncounted /\ Left' = Left
  BY <1>0 DEF Linkers, Uncounted, Left
<1>2. Left \in Nat /\ rcu_call_count \in Nat  BY LeftNat DEF TypeOK
<1>3. Queue' /\ OpenRight' /\ RcuTypeOK'  BY <1>0, <1>1, <1>2, QuietQueue
<1>4. TypeOK'  BY <1>0, <1>3 DEF TypeOK, queueVars
<1>5. LoopRight' /\ SleepRight'  BY <1>0 DEF LoopRight, SleepRight
<1> QED  BY <1>3, <1>4, <1>5

LEMMA NextCallInv ==
  ASSUME CallInv, RcuInv, RcuInv', [Next]_vars
  PROVE  CallInv'
<1>1. CASE UNCHANGED vars  BY <1>1, Step_CallStutter
<1>2. ASSUME NEW t \in Threads, RcuCall(t)  PROVE CallInv'  BY <1>2, Step_RcuCall
<1>3. ASSUME NEW t \in Threads, NEW x \in Nodes, call_rcu1(t, x)  PROVE CallInv'
  BY <1>3, Step_call_rcu1
<1>4. ASSUME NEW t \in Threads, ReadStep(t) \/ SyncStep(t), UNCHANGED callVars
      PROVE  CallInv'
  BY <1>4, Step_ThreadRcu
<1>5. ASSUME NEW t \in Threads, ProducerStep(t)  PROVE CallInv'
  BY <1>5, Step_Link, Step_IncCount, Step_SetReady DEF ProducerStep
<1>6. ASSUME ConsumerStep  PROVE CallInv'
  <2>1. CASE try_dequeue
    BY <2>1, Step_DequeueNothing, Step_DequeueDummy, Step_DequeueNode
  <2> QED  BY <1>6, <2>1, Step_ReadCount, Step_ResetReady, Step_RecheckCount,
              Step_AwaitReady, Step_SubCount, Step_WaitGracePeriod, Step_Retry,
              Step_Callback DEF ConsumerStep
<1> QED  BY <1>1, <1>2, <1>3, <1>4, <1>5, <1>6 DEF Next, ThreadStep

\* The queue holds every node given to call_rcu1 once, as many as are counted,
\* about to be counted or in the hands of the call_rcu thread, and the first of
\* them wait for no section but those that synchronize_rcu waits for.
THEOREM CallInvariance == Spec => []CallInv
<1>1. Init => CallInv  BY InitCallInv
<1>2. CallInv /\ RcuInv /\ RcuInv' /\ [Next]_vars => CallInv'  BY NextCallInv
<1>3. Spec => []RcuInv  BY CallRcuUsesRcu, RcuInvariance, PTL
<1> QED  BY <1>1, <1>2, <1>3, PTL DEF Spec

\* However producers race to queue and to count their nodes, the call_rcu thread
\* runs a callback only when all sections open at its call_rcu1 have ended.
THEOREM CallbacksCorrect == Spec => []CallbackAfterGracePeriod
<1>1. CallInv => CallbackAfterGracePeriod
  BY DEF CallInv, OpenRight, CallbackAfterGracePeriod
<1> QED  BY <1>1, CallInvariance, PTL

\* try_dequeue never comes to the abort() of an empty queue, and the call_rcu
\* thread sleeps only when nothing is queued or a thread in call_rcu1 wakes it.
THEOREM QueueCorrect == Spec => []QueueConsistent
<1>1. CallInv => QueueConsistent
  <2> SUFFICES ASSUME CallInv PROVE QueueConsistent  OBVIOUS
  <2> USE DEF CallInv
  <2>1. PICK q \in Seq(AllNodes) : Chain(q) /\ Counted(q) /\ Covered(q)  BY DEF Queue
  <2>2. NeverEmpty
    <3> SUFFICES ASSUME At("dequeue") PROVE ~(head = Dummy /\ tail = Dummy)
      BY DEF NeverEmpty
    <3>1. /\ Len(q) \in Nat /\ Len(q) >= 2 /\ head = q[1] /\ tail = q[Len(q)]
          /\ \A i, j \in 1..Len(q) : q[i] = q[j] => i = j
      BY <2>1, DequeueFacts
    <3>2. 1 \in 1..Len(q) /\ Len(q) \in 1..Len(q) /\ Len(q) # 1  BY <3>1
    <3> QED  BY <3>1, <3>2
  <2>3. SleepIsWoken
    <3> SUFFICES ASSUME qpc[CallThread] \in {"await", "dqwait"}, ~rcu_call_ready_event,
                        ~\E t \in Threads : qpc[t] \in {"link", "count", "ready"}
                 PROVE  qpc[CallThread] = "await" /\ rcu_call_count = 0 /\ queued = {}
      BY DEF SleepIsWoken
    <3>1. qpc[CallThread] = "await" /\ rcu_call_count = 0  BY DEF SleepRight
    <3>2. Uncounted = {}  BY DEF Uncounted
    <3>3. Left = 0 /\ Called = {}  BY <3>1 DEF Left, Called, Busy
    <3>4. Len(q) = 1  BY <2>1, <3>1, <3>2, <3>3, FS_EmptySet DEF Counted
    <3>5. ToSet(q) = {q[1]}  BY <3>4, QueueElements
    <3>6. queued \subseteq Nodes /\ ToSet(q) = {Dummy} \cup queued
      BY <2>1, <3>3 DEF Chain, TypeOK
    <3> QED  BY <3>1, <3>5, <3>6, NodesFacts
  <2> QED  BY <2>2, <2>3 DEF QueueConsistent
<1> QED  BY <1>1, CallInvariance, PTL
=============================================================================
