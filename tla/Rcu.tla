-------------------------------- MODULE Rcu --------------------------------
(***************************************************************************)
(* Read-copy-update (util/rcu.c, include/qemu/rcu.h): read-side critical   *)
(* sections, thread registration, and synchronize_rcu, which waits for the *)
(* sections that are open when it is called.                               *)
(*                                                                         *)
(* A step is one atomic access.  The barriers at rcu_reader.ctr, waiting   *)
(* and rcu_gp_ctr make them sequentially consistent.  rcu_registry_lock is *)
(* held by synchronize_rcu except while it waits; everybody else holds it  *)
(* for one step.  A QemuEvent is a flag that qemu_event_wait waits for.    *)
(***************************************************************************)
EXTENDS Integers, FiniteSets

CONSTANTS
  Threads,
  LongSizes,   \* possible values of sizeof(unsigned long): 4, 8
  UIntRange,   \* the number of values of an unsigned int, 2^32 in the code
  MaxGp,       \* bound on rcu_gp_ctr where it is not a parity
  MaxDepth     \* bound on the nesting of read-side critical sections

RCU_GP_LOCKED == 1
RCU_GP_CTR == 2

ASSUME SizesAssumption == LongSizes \subseteq {4, 8}
ASSUME UIntAssumption == UIntRange \in Nat /\ UIntRange >= 4 /\ UIntRange % 2 = 0
ASSUME BoundsAssumption == MaxGp \in Nat /\ MaxDepth \in Nat \ {0}

VARIABLES
  long,        \* sizeof(rcu_gp_ctr), fixed by the build
  rcu_gp_ctr,
  ctr, waiting, depth,    \* struct rcu_reader_data of each thread
  registry,
  qsreaders,   \* the list of that name in wait_for_readers
  rcu_gp_event,
  pc,          \* where a thread is
  snap,        \* the value of rcu_gp_ctr that rcu_read_lock has read
  todo,        \* readers that the current walk of the registry has yet to visit
  cur,         \* the reader that the walk has just moved to qsreaders
  phase,       \* first or second wait_for_readers of synchronize_rcu
  before       \* history: the sections open since before a synchronize_rcu

readerVars == <<ctr, waiting, depth, snap>>
syncVars == <<rcu_gp_ctr, registry, qsreaders, todo, cur, phase>>
rcuVars == <<long, readerVars, syncVars, rcu_gp_event, pc, before>>

ReadLocations == {"lock", "unlocked", "waiting", "wake"}
WalkLocations == {"flip", "reset", "mark", "check", "unwait"}
SyncLocations == WalkLocations \cup {"wait", "return"}

RcuTypeOK ==
  /\ long \in LongSizes
  /\ rcu_gp_ctr \in Nat /\ rcu_gp_ctr % 2 = 1
  /\ ctr \in [Threads -> 0..(UIntRange - 1)]
  /\ waiting \in [Threads -> BOOLEAN]
  /\ depth \in [Threads -> 0..MaxDepth]
  /\ registry \subseteq Threads /\ qsreaders \subseteq Threads
  /\ rcu_gp_event \in BOOLEAN
  /\ pc \in [Threads -> {"run"} \cup ReadLocations \cup SyncLocations]
  /\ snap \in [Threads -> 0..(UIntRange - 1)]
  /\ todo \subseteq Threads /\ cur \subseteq Threads
  /\ phase \in {1, 2}
  /\ before \in [Threads -> SUBSET Threads]

RcuInit ==
  /\ long \in LongSizes
  /\ rcu_gp_ctr = RCU_GP_LOCKED
  /\ ctr = [t \in Threads |-> 0]
  /\ waiting = [t \in Threads |-> FALSE]
  /\ depth = [t \in Threads |-> 0]
  /\ registry = {} /\ qsreaders = {}
  /\ rcu_gp_event = TRUE
  /\ pc = [t \in Threads |-> "run"]
  /\ snap = [t \in Threads |-> 0]
  /\ todo = {} /\ cur = {} /\ phase = 1
  /\ before = [t \in Threads |-> {}]

Go(t, loc) == pc' = [pc EXCEPT ![t] = loc]

\* Threads inside a read-side critical section.
Inside == {t \in Threads : depth[t] > 0 /\ pc[t] # "lock"}
RegistryUnlocked == \A t \in Threads : pc[t] \notin WalkLocations
Registered == registry \cup qsreaders

-----------------------------------------------------------------------------
(* Readers *)

rcu_register_thread(t) ==
  /\ pc[t] = "run" /\ t \notin Registered
  /\ RegistryUnlocked
  /\ registry' = registry \cup {t}
  /\ UNCHANGED <<long, readerVars, rcu_gp_ctr, qsreaders, todo, cur, phase,
                 rcu_gp_event, pc, before>>

\* The thread leaves the list it is on, which may be qsreaders.
rcu_unregister_thread(t) ==
  /\ pc[t] = "run" /\ depth[t] = 0 /\ t \in Registered
  /\ RegistryUnlocked
  /\ registry' = registry \ {t} /\ qsreaders' = qsreaders \ {t}
  /\ UNCHANGED <<long, readerVars, rcu_gp_ctr, todo, cur, phase, rcu_gp_event, pc,
                 before>>

\* The outermost rcu_read_lock reads rcu_gp_ctr into an unsigned int.
rcu_read_lock(t) ==
  /\ pc[t] = "run" /\ t \in Registered /\ depth[t] < MaxDepth
  /\ depth' = [depth EXCEPT ![t] = @ + 1]
  /\ IF depth[t] > 0
       THEN UNCHANGED <<snap, pc>>
       ELSE snap' = [snap EXCEPT ![t] = rcu_gp_ctr % UIntRange] /\ Go(t, "lock")
  /\ UNCHANGED <<long, ctr, waiting, syncVars, rcu_gp_event, before>>

StoreCtr(t) ==
  /\ pc[t] = "lock"
  /\ ctr' = [ctr EXCEPT ![t] = snap[t]]
  /\ snap' = [snap EXCEPT ![t] = 0]
  /\ Go(t, "run")
  /\ UNCHANGED <<long, waiting, depth, syncVars, rcu_gp_event, before>>

rcu_read_unlock(t) ==
  /\ pc[t] = "run" /\ depth[t] > 0
  /\ depth' = [depth EXCEPT ![t] = @ - 1]
  /\ IF depth[t] > 1
       THEN UNCHANGED <<ctr, pc, before>>
       ELSE /\ ctr' = [ctr EXCEPT ![t] = 0]
            /\ Go(t, "unlocked")
            /\ before' = [u \in Threads |-> before[u] \ {t}]
  /\ UNCHANGED <<long, waiting, snap, syncVars, rcu_gp_event>>

ReadWaiting(t) ==
  /\ pc[t] = "unlocked"
  /\ Go(t, IF waiting[t] THEN "waiting" ELSE "run")
  /\ UNCHANGED <<long, readerVars, syncVars, rcu_gp_event, before>>

ClearWaiting(t) ==
  /\ pc[t] = "waiting"
  /\ waiting' = [waiting EXCEPT ![t] = FALSE]
  /\ Go(t, "wake")
  /\ UNCHANGED <<long, ctr, depth, snap, syncVars, rcu_gp_event, before>>

WakeUpdater(t) ==
  /\ pc[t] = "wake"
  /\ rcu_gp_event' = TRUE
  /\ Go(t, "run")
  /\ UNCHANGED <<long, readerVars, syncVars, before>>

-----------------------------------------------------------------------------
(* synchronize_rcu *)

Ongoing(r) == ctr[r] # 0 /\ ctr[r] # rcu_gp_ctr

\* Both locks are taken; with nobody registered there is nothing to wait for.
synchronize_rcu(t) ==
  /\ pc[t] = "run" /\ depth[t] = 0
  /\ \A u \in Threads : pc[u] \notin SyncLocations
  /\ long = 8 => rcu_gp_ctr + RCU_GP_CTR <= MaxGp
  /\ before' = [before EXCEPT ![t] = Inside]
  /\ Go(t, IF registry = {} THEN "return" ELSE "flip")
  /\ phase' = 1
  /\ UNCHANGED <<long, readerVars, rcu_gp_ctr, registry, qsreaders, todo, cur,
                 rcu_gp_event>>

\* rcu_gp_ctr ^ RCU_GP_CTR, where the counter is a parity.
FlipParity == IF rcu_gp_ctr = RCU_GP_LOCKED THEN RCU_GP_LOCKED + RCU_GP_CTR
              ELSE RCU_GP_LOCKED

FlipCtr(t) ==
  /\ pc[t] = "flip"
  /\ rcu_gp_ctr' = IF long < 8 THEN FlipParity ELSE rcu_gp_ctr + RCU_GP_CTR
  /\ Go(t, "reset")
  /\ UNCHANGED <<long, readerVars, registry, qsreaders, todo, cur, phase,
                 rcu_gp_event, before>>

ResetEvent(t) ==
  /\ pc[t] = "reset"
  /\ rcu_gp_event' = FALSE
  /\ todo' = registry
  /\ Go(t, "mark")
  /\ UNCHANGED <<long, readerVars, rcu_gp_ctr, registry, qsreaders, cur, phase, before>>

MarkReader(t) ==
  /\ pc[t] = "mark"
  /\ \E r \in todo :
       /\ waiting' = [waiting EXCEPT ![r] = TRUE]
       /\ todo' = todo \ {r}
  /\ UNCHANGED <<long, ctr, depth, snap, rcu_gp_ctr, registry, qsreaders, cur, phase,
                 rcu_gp_event, pc, before>>

AllMarked(t) ==
  /\ pc[t] = "mark" /\ todo = {}
  /\ todo' = registry
  /\ Go(t, "check")
  /\ UNCHANGED <<long, readerVars, rcu_gp_ctr, registry, qsreaders, cur, phase,
                 rcu_gp_event, before>>

\* A reader that is not ongoing goes to qsreaders; its waiting is reset next.
CheckReader(t, r) ==
  /\ pc[t] = "check"
  /\ r \in todo
  /\ todo' = todo \ {r}
  /\ IF Ongoing(r)
       THEN UNCHANGED <<registry, qsreaders, cur, pc>>
       ELSE /\ registry' = registry \ {r}
            /\ qsreaders' = qsreaders \cup {r}
            /\ cur' = {r} /\ Go(t, "unwait")
  /\ UNCHANGED <<long, readerVars, rcu_gp_ctr, phase, rcu_gp_event, before>>

ResetWaiting(t) ==
  /\ pc[t] = "unwait"
  /\ waiting' = [r \in Threads |-> r \notin cur /\ waiting[r]]
  /\ cur' = {}
  /\ Go(t, "check")
  /\ UNCHANGED <<long, ctr, depth, snap, rcu_gp_ctr, registry, qsreaders, todo, phase,
                 rcu_gp_event, before>>

MutOnePhase(t) ==
  /\ pc[t] = "check" /\ todo = {}
  /\ IF registry # {}
       THEN Go(t, "wait") /\ UNCHANGED <<registry, qsreaders>>
       ELSE registry' = qsreaders /\ qsreaders' = {} /\ Go(t, "return")
  /\ UNCHANGED <<long, readerVars, rcu_gp_ctr, todo, cur, phase, rcu_gp_event, before>>

MutResetBeforeWait(t) ==
  /\ pc[t] = "check" /\ todo = {}
  /\ IF registry # {}
       THEN Go(t, "wait") /\ rcu_gp_event' = FALSE /\ UNCHANGED <<registry, qsreaders>>
       ELSE /\ registry' = qsreaders /\ qsreaders' = {}
            /\ Go(t, "return") /\ UNCHANGED rcu_gp_event
  /\ UNCHANGED <<long, readerVars, rcu_gp_ctr, todo, cur, phase, before>>

\* wait_for_readers waits, or ends and puts the readers back.
AllChecked(t) ==
  /\ pc[t] = "check" /\ todo = {}
  /\ IF registry # {}
       THEN Go(t, "wait") /\ UNCHANGED <<registry, qsreaders, phase>>
       ELSE /\ registry' = qsreaders /\ qsreaders' = {}
            /\ IF long < 8 /\ phase = 1
                 THEN Go(t, "flip") /\ phase' = 2
                 ELSE Go(t, "return") /\ UNCHANGED phase
  /\ UNCHANGED <<long, readerVars, rcu_gp_ctr, todo, cur, rcu_gp_event, before>>

EventWait(t) ==
  /\ pc[t] = "wait"
  /\ rcu_gp_event
  /\ Go(t, "reset")
  /\ UNCHANGED <<long, readerVars, syncVars, rcu_gp_event, before>>

SyncReturn(t) ==
  /\ pc[t] = "return"
  /\ Go(t, "run")
  /\ UNCHANGED <<long, readerVars, syncVars, rcu_gp_event, before>>

-----------------------------------------------------------------------------
ReadStep(t) == StoreCtr(t) \/ ReadWaiting(t) \/ ClearWaiting(t) \/ WakeUpdater(t)

SyncStep(t) ==
  \/ FlipCtr(t) \/ ResetEvent(t) \/ MarkReader(t) \/ AllMarked(t)
  \/ \E r \in Threads : CheckReader(t, r)
  \/ ResetWaiting(t) \/ AllChecked(t) \/ EventWait(t) \/ SyncReturn(t)

RcuRequest(t) ==
  \/ rcu_register_thread(t) \/ rcu_unregister_thread(t)
  \/ rcu_read_lock(t) \/ rcu_read_unlock(t) \/ synchronize_rcu(t)

RcuNext == \E t \in Threads : ReadStep(t) \/ SyncStep(t) \/ RcuRequest(t)
RcuSpec == RcuInit /\ [][RcuNext]_rcuVars

-----------------------------------------------------------------------------
(* Properties *)

\* synchronize_rcu returns only when every read-side critical section that was
\* open when it was called has ended, whatever value of rcu_gp_ctr the readers
\* had seen, and whether or not the counter has outgrown an unsigned int.
GracePeriod == \A t \in Threads : pc[t] = "return" => before[t] = {}

\* A reader that will set rcu_gp_event.
WillWake(r) ==
  \/ waiting[r] /\ (Ongoing(r) \/ pc[r] = "unlocked")
  \/ pc[r] \in {"waiting", "wake"}

\* When synchronize_rcu waits, some reader still has to set rcu_gp_event: it is in
\* a section with `waiting` set, or in rcu_read_unlock and about to look at it.
WaitIsWoken ==
  \A t \in Threads : pc[t] = "wait" /\ ~rcu_gp_event =>
    \E r \in registry : WillWake(r)

\* The parts of the inductive invariant.  AfterFlip is where synchronize_rcu is once
\* it has changed rcu_gp_ctr and until wait_for_readers ends.
AfterFlip == {"reset", "mark", "check", "unwait", "wait"}

OneUpdater ==
  \A t, u \in Threads : pc[t] \in SyncLocations /\ pc[u] \in SyncLocations => t = u

SectionsAreMarked ==
  \A r \in Threads :
    /\ ctr[r] = 0 <=> r \notin Inside
    /\ pc[r] = "lock" => snap[r] # 0 /\ depth[r] > 0
    /\ depth[r] > 0 => r \in Registered
    /\ pc[r] \notin {"run", "lock"} => depth[r] = 0

QsreadersInUse == qsreaders # {} => \E t \in Threads : pc[t] \in AfterFlip

\* Values that readers hold are not ahead of a counter that only grows.
CounterAhead ==
  long = 8 => \A r \in Threads : ctr[r] <= rcu_gp_ctr /\ snap[r] <= rcu_gp_ctr

\* The sections to wait for are in the registry while they are seen as ongoing;
\* the first of two phases leaves those with the current parity, which the
\* second one, or a counter that grows, sees as ongoing.
Awaited ==
  \A t \in Threads :
    /\ before[t] \subseteq Inside
    /\ pc[t] \notin SyncLocations => before[t] = {}
    /\ pc[t] \in AfterFlip => \A r \in before[t] :
         /\ ctr[r] # rcu_gp_ctr => r \in registry
         /\ long = 8 \/ phase = 2 => ctr[r] # rcu_gp_ctr
    /\ pc[t] = "flip" /\ phase = 2 => \A r \in before[t] : ctr[r] = rcu_gp_ctr
    /\ long = 8 => phase = 1 \/ pc[t] \notin {"flip"} \cup AfterFlip

WakeupsAccounted ==
  \A t \in Threads : ~rcu_gp_event =>
    /\ pc[t] = "mark" => \A r \in registry \ todo : waiting[r] \/ pc[r] = "wake"
    /\ pc[t] \in {"check", "unwait"} => \A r \in registry :
         /\ waiting[r] \/ pc[r] = "wake"
         /\ r \notin todo => WillWake(r)
    /\ pc[t] = "unwait" => cur \cap registry = {}
    /\ pc[t] = "wait" => \E r \in registry : WillWake(r)

\* Together with the types they are preserved by every step.
RcuInv ==
  /\ RcuTypeOK /\ OneUpdater /\ SectionsAreMarked /\ QsreadersInUse
  /\ CounterAhead /\ Awaited /\ WakeupsAccounted /\ GracePeriod

\* synchronize_rcu returns, however often threads enter new sections, as long as
\* rcu_gp_ctr fits the unsigned int that rcu_read_lock keeps it in. Beyond that
\* every section looks ongoing, and readers that re-enter can hold it up.
SyncReturns ==
  \A t \in Threads :
    pc[t] \in SyncLocations \ {"flip"} /\ rcu_gp_ctr < UIntRange ~> pc[t] = "run"
=============================================================================
