------------------------------ MODULE CallRcu ------------------------------
(***************************************************************************)
(* call_rcu1 and the call_rcu thread (util/rcu.c), over Rcu: a lock-free   *)
(* queue with many producers, its counter, and the thread that waits for a *)
(* grace period and runs the callbacks.                                    *)
(*                                                                         *)
(* The pauses in which the thread lets callbacks pile up only delay its    *)
(* reading of rcu_call_count.  The BQL, which it holds while it runs them, *)
(* is left out.  A callback only frees its object: one that also calls     *)
(* call_rcu1 or reads under rcu_read_lock does it between two steps of the *)
(* call_rcu thread's own, as one more thread of Threads might.             *)
(***************************************************************************)
EXTENDS Rcu

CONSTANTS
  CallThread,  \* the thread that runs call_rcu_thread
  Nodes,       \* struct rcu_head of the objects to be reclaimed
  Dummy, NULL

ASSUME CallThreadAssumption == CallThread \in Threads /\ IsFiniteSet(Threads)
ASSUME NodesAssumption == Dummy \notin Nodes /\ NULL \notin Nodes /\ Dummy # NULL

VARIABLES
  head, tail,  \* tail is the node whose next it points to
  next,
  rcu_call_count,
  rcu_call_ready_event,
  qpc,         \* where a thread is in call_rcu1, or the call_rcu thread in its loop
  node,        \* the node it is working on
  old_tail,
  n,           \* call_rcu thread: callbacks to run after this grace period
  attempt,     \* call_rcu thread: try_dequeue before or after resetting the event
  queued,      \* nodes given to call_rcu1 whose callback has not returned
  open         \* history: sections open since before call_rcu1 of a node

queueVars == <<head, tail, next>>
eventVars == <<rcu_call_count, rcu_call_ready_event>>
localVars == <<qpc, node, old_tail, n, attempt>>
restVars == <<node, old_tail, n, attempt, queued, open>>
callVars == <<queueVars, eventVars, localVars, queued, open>>
vars == <<rcuVars, callVars>>

AllNodes == Nodes \cup {Dummy}
QueueLocations == {"none", "link", "count", "ready"}
LoopLocations == {"top", "reset", "recheck", "await", "sub", "sync", "dequeue",
                  "dqreset", "dqwait", "link", "call"}

TypeOK ==
  /\ RcuTypeOK
  /\ head \in AllNodes /\ tail \in AllNodes
  /\ next \in [AllNodes -> AllNodes \cup {NULL}]
  /\ rcu_call_count \in Nat /\ n \in Nat
  /\ rcu_call_ready_event \in BOOLEAN
  /\ qpc \in [Threads -> QueueLocations \cup LoopLocations]
  /\ node \in [Threads -> AllNodes \cup {NULL}]
  /\ old_tail \in [Threads -> AllNodes \cup {NULL}]
  /\ attempt \in {1, 2}
  /\ queued \subseteq Nodes
  /\ open \in [Nodes -> SUBSET Threads]

\* The call_rcu thread registers itself and enters its loop.
Init ==
  /\ RcuInit
  /\ head = Dummy /\ tail = Dummy
  /\ next = [x \in AllNodes |-> NULL]
  /\ rcu_call_count = 0 /\ rcu_call_ready_event = FALSE
  /\ qpc = [t \in Threads |-> IF t = CallThread THEN "top" ELSE "none"]
  /\ node = [t \in Threads |-> NULL] /\ old_tail = [t \in Threads |-> NULL]
  /\ n = 0 /\ attempt = 1
  /\ queued = {}
  /\ open = [x \in Nodes |-> {}]

At(loc) == qpc[CallThread] = loc /\ pc[CallThread] = "run" /\ CallThread \in Registered
QGo(t, loc) == qpc' = [qpc EXCEPT ![t] = loc]

-----------------------------------------------------------------------------
(* Producers *)

\* enqueue: swing the tail; the link from the old tail is made next.
enqueue(t, x) ==
  /\ next' = [next EXCEPT ![x] = NULL]
  /\ old_tail' = [old_tail EXCEPT ![t] = tail]
  /\ tail' = x
  /\ node' = [node EXCEPT ![t] = x]
  /\ QGo(t, "link")

call_rcu1(t, x) ==
  /\ t # CallThread /\ qpc[t] = "none" /\ pc[t] = "run"
  /\ x \in Nodes \ queued
  /\ enqueue(t, x)
  /\ queued' = queued \cup {x}
  /\ open' = [open EXCEPT ![x] = Inside]
  /\ UNCHANGED <<rcuVars, head, eventVars, n, attempt>>

Link(t) ==
  /\ qpc[t] = "link"
  /\ next' = [next EXCEPT ![old_tail[t]] = node[t]]
  /\ old_tail' = [old_tail EXCEPT ![t] = NULL]
  /\ node' = [node EXCEPT ![t] = NULL]
  /\ QGo(t, IF t = CallThread THEN "dequeue" ELSE "count")
  /\ UNCHANGED <<rcuVars, head, tail, eventVars, n, attempt, queued, open>>

IncCount(t) ==
  /\ qpc[t] = "count"
  /\ rcu_call_count' = rcu_call_count + 1
  /\ QGo(t, "ready")
  /\ UNCHANGED <<rcuVars, queueVars, rcu_call_ready_event, restVars>>

SetReady(t) ==
  /\ qpc[t] = "ready"
  /\ rcu_call_ready_event' = TRUE
  /\ QGo(t, "none")
  /\ UNCHANGED <<rcuVars, queueVars, rcu_call_count, restVars>>

-----------------------------------------------------------------------------
(* call_rcu_thread *)

ReadCount ==
  /\ At("top")
  /\ n' = rcu_call_count
  /\ QGo(CallThread, IF rcu_call_count = 0 THEN "reset" ELSE "sub")
  /\ UNCHANGED <<rcuVars, queueVars, eventVars, node, old_tail, attempt, queued, open>>

ResetReady ==
  /\ At("reset")
  /\ rcu_call_ready_event' = FALSE
  /\ QGo(CallThread, "recheck")
  /\ UNCHANGED <<rcuVars, queueVars, rcu_call_count, restVars>>

MutNoRecheck ==
  /\ At("recheck")
  /\ QGo(CallThread, "await")
  /\ UNCHANGED <<rcuVars, queueVars, eventVars, restVars>>

RecheckCount ==
  /\ At("recheck")
  /\ QGo(CallThread, IF rcu_call_count = 0 THEN "await" ELSE "top")
  /\ UNCHANGED <<rcuVars, queueVars, eventVars, restVars>>

AwaitReady ==
  /\ At("await")
  /\ rcu_call_ready_event
  /\ QGo(CallThread, "top")
  /\ UNCHANGED <<rcuVars, queueVars, eventVars, restVars>>

MutKeepCount ==
  /\ At("sub")
  /\ QGo(CallThread, "sync")
  /\ UNCHANGED <<rcuVars, queueVars, eventVars, restVars>>

SubCount ==
  /\ At("sub")
  /\ rcu_call_count' = rcu_call_count - n
  /\ QGo(CallThread, "sync")
  /\ UNCHANGED <<rcuVars, queueVars, rcu_call_ready_event, restVars>>

WaitGracePeriod ==
  /\ At("sync")
  /\ synchronize_rcu(CallThread)
  /\ QGo(CallThread, "dequeue")
  /\ attempt' = 1
  /\ UNCHANGED <<queueVars, eventVars, node, old_tail, n, queued, open>>

\* try_dequeue: nothing if the head is not linked yet; the dummy goes to the tail.
try_dequeue ==
  /\ At("dequeue")
  /\ IF next[head] = NULL
       THEN /\ QGo(CallThread, IF attempt = 1 THEN "dqreset" ELSE "dqwait")
            /\ UNCHANGED <<queueVars, node, old_tail>>
       ELSE /\ head' = next[head]
            /\ IF head = Dummy
                 THEN enqueue(CallThread, Dummy)
                 ELSE /\ node' = [node EXCEPT ![CallThread] = head]
                      /\ QGo(CallThread, "call")
                      /\ UNCHANGED <<tail, next, old_tail>>
  /\ UNCHANGED <<rcuVars, eventVars, n, attempt, queued, open>>

DequeueReset ==
  /\ At("dqreset")
  /\ rcu_call_ready_event' = FALSE
  /\ attempt' = 2
  /\ QGo(CallThread, "dequeue")
  /\ UNCHANGED <<rcuVars, queueVars, rcu_call_count, node, old_tail, n, queued, open>>

DequeueWait ==
  /\ At("dqwait")
  /\ rcu_call_ready_event
  /\ attempt' = 1
  /\ QGo(CallThread, "dequeue")
  /\ UNCHANGED <<rcuVars, queueVars, eventVars, node, old_tail, n, queued, open>>

MutDrain ==
  /\ At("call")
  /\ n' = n - 1 + rcu_call_count
  /\ rcu_call_count' = 0
  /\ queued' = queued \ {node[CallThread]}
  /\ next' = [next EXCEPT ![node[CallThread]] = NULL]
  /\ node' = [node EXCEPT ![CallThread] = NULL]
  /\ attempt' = 1
  /\ QGo(CallThread, IF n' = 0 THEN "top" ELSE "dequeue")
  /\ UNCHANGED <<rcuVars, head, tail, rcu_call_ready_event, old_tail, open>>

\* node->func(node); the object is gone, and its rcu_head may be used again.
Callback ==
  /\ At("call")
  /\ n' = n - 1
  /\ queued' = queued \ {node[CallThread]}
  /\ next' = [next EXCEPT ![node[CallThread]] = NULL]
  /\ node' = [node EXCEPT ![CallThread] = NULL]
  /\ attempt' = 1
  /\ QGo(CallThread, IF n = 1 THEN "top" ELSE "dequeue")
  /\ UNCHANGED <<rcuVars, head, tail, eventVars, old_tail, open>>

-----------------------------------------------------------------------------
\* Read-side sections and synchronize_rcu of threads that are not in call_rcu1.
RcuCall(t) ==
  /\ IF t = CallThread THEN rcu_register_thread(t)
     ELSE qpc[t] = "none" /\ RcuRequest(t)
  /\ open' = [x \in Nodes |-> open[x] \cap Inside']
  /\ UNCHANGED <<queueVars, eventVars, localVars, queued>>

ProducerStep(t) == Link(t) \/ IncCount(t) \/ SetReady(t)

ConsumerStep ==
  \/ ReadCount \/ ResetReady \/ RecheckCount \/ AwaitReady \/ SubCount
  \/ WaitGracePeriod \/ try_dequeue \/ DequeueReset \/ DequeueWait \/ Callback

\* What a thread does in a call it has begun.
ThreadStep(t) ==
  \/ (ReadStep(t) \/ SyncStep(t)) /\ UNCHANGED callVars
  \/ ProducerStep(t)
  \/ t = CallThread /\ ConsumerStep

Next ==
  \E t \in Threads :
    \/ ThreadStep(t) \/ RcuCall(t)
    \/ \E x \in Nodes : call_rcu1(t, x)

Spec == Init /\ [][Next]_vars

\* Threads run, sections end, and a mutex goes to a thread that waits for it.
EndSection(t, d) ==
  /\ depth[t] = d /\ qpc[t] = "none"
  /\ rcu_read_unlock(t)
  /\ open' = [x \in Nodes |-> open[x] \cap Inside']
  /\ UNCHANGED <<queueVars, eventVars, localVars, queued>>

FairSpec ==
  /\ Spec
  /\ \A t \in Threads : WF_vars(ThreadStep(t))
  /\ \A t \in Threads \ {CallThread} : \A d \in 1..MaxDepth : SF_vars(EndSection(t, d))
  /\ SF_vars(WaitGracePeriod) /\ SF_vars(RcuCall(CallThread))

-----------------------------------------------------------------------------
(* Properties *)

\* A callback runs only when every read-side critical section that was open at
\* its call_rcu1 has ended, although rcu_call_count does not count the nodes in
\* the order in which they are queued.
CallbackAfterGracePeriod ==
  qpc[CallThread] = "call" => open[node[CallThread]] = {}

\* try_dequeue never meets an empty queue (where it calls abort): there are at
\* least as many nodes as callbacks to run.
NeverEmpty ==
  At("dequeue") => ~(head = Dummy /\ tail = Dummy)

\* The call_rcu thread does not sleep while a node is queued, counted and
\* announced.
SleepIsWoken ==
  qpc[CallThread] \in {"await", "dqwait"} /\ ~rcu_call_ready_event =>
    \/ \E t \in Threads : qpc[t] \in {"link", "count", "ready"}
    \/ qpc[CallThread] = "await" /\ rcu_call_count = 0 /\ queued = {}

\* The queue is well-formed, filled and attended to in every state.
QueueConsistent == TypeOK /\ NeverEmpty /\ SleepIsWoken

\* Every callback runs, as long as grace periods end and the bound on
\* rcu_gp_ctr allows another one.
CallbackRuns ==
  \A x \in Nodes : x \in queued ~> x \notin queued \/ (long = 8 /\ rcu_gp_ctr >= MaxGp)

\* Grace periods end, for synchronize_rcu and for the callbacks of call_rcu1.
GracePeriodsEnd == SyncReturns /\ CallbackRuns
=============================================================================
