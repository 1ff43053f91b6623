----------------------------- MODULE AioProofs -----------------------------
(***************************************************************************)
(* Proofs about AioContext for any threads, bottom halves, coroutines and  *)
(* calls, and any depth of nested loops.  IInv is inductive;               *)
(* ListsConsistent, SleepsOnlyIfNotified and CoroutineOnce follow from it. *)
(***************************************************************************)
EXTENDS AioContext, FiniteSetTheorems, SequenceTheorems, TLAPS

-----------------------------------------------------------------------------
(* What the list operations do to the elements of a queue and to its being *)
(* free of duplicates                                                      *)

\* Taking the first element off (aio_bh_dequeue, co_schedule_bh_cb).
LEMMA QueueTail ==
  ASSUME NEW S, NEW q \in Seq(S), q # <<>>
  PROVE  /\ Head(q) \in ToSet(q)
         /\ Head(q) \in S
         /\ Tail(q) \in Seq(S)
         /\ IsInjective(q) => /\ IsInjective(Tail(q))
                              /\ ToSet(Tail(q)) = ToSet(q) \ {Head(q)}
<1> DEFINE t == Tail(q)
<1>1. /\ Head(q) \in S /\ t \in Seq(S)
      /\ Len(t) = Len(q) - 1 /\ \A i \in 1..Len(t) : t[i] = q[i + 1]
  BY HeadTailProperties
<1>2. DOMAIN q = 1..Len(q) /\ DOMAIN t = 1..(Len(q) - 1) /\ Len(q) \in Nat \ {0}
  BY <1>1, LenProperties, EmptySeq
<1>3. Head(q) = q[1]  OBVIOUS
<1> HIDE DEF t
<1>4. Head(q) \in ToSet(q)  BY <1>2, <1>3 DEF ToSet
<1>5. ASSUME IsInjective(q) PROVE IsInjective(t)
  <2>1. ASSUME NEW i \in 1..(Len(q) - 1), NEW j \in 1..(Len(q) - 1), t[i] = t[j]
        PROVE  i = j
    <3>1. i + 1 \in DOMAIN q /\ j + 1 \in DOMAIN q /\ q[i + 1] = q[j + 1]
      BY <1>1, <1>2, <2>1
    <3>2. i + 1 = j + 1  BY <1>5, <3>1 DEF IsInjective
    <3> QED  BY <3>2
  <2> QED  BY <1>2, <2>1 DEF IsInjective
<1>6. ASSUME IsInjective(q) PROVE ToSet(t) = ToSet(q) \ {Head(q)}
  <2>1. ASSUME NEW i \in 1..(Len(q) - 1) PROVE t[i] \in ToSet(q) \ {q[1]}
    BY <1>1, <1>2, <1>6, <2>1 DEF IsInjective, ToSet
  <2>2. ASSUME NEW i \in 1..Len(q), q[i] # q[1] PROVE q[i] \in ToSet(t)
    <3>1. i - 1 \in 1..(Len(q) - 1) /\ q[i] = t[i - 1]  BY <1>1, <1>2, <2>2
    <3> QED  BY <3>1, <1>2 DEF ToSet
  <2> QED  BY <1>2, <1>3, <2>1, <2>2 DEF ToSet
<1> QED  BY <1>1, <1>4, <1>5, <1>6 DEF t

\* Inserting at the head (QSLIST_INSERT_HEAD_ATOMIC).
LEMMA QueuePush ==
  ASSUME NEW S, NEW q \in Seq(S), NEW c \in S
  PROVE  /\ <<c>> \o q \in Seq(S)
         /\ <<c>> \o q # <<>>
         /\ ToSet(<<c>> \o q) = ToSet(q) \cup {c}
         /\ IsInjective(q) /\ c \notin ToSet(q) => IsInjective(<<c>> \o q)
<1> DEFINE r == <<c>> \o q
<1>1. <<c>> \in Seq(S) /\ Len(<<c>>) = 1 /\ <<c>>[1] = c  OBVIOUS
<1>2. /\ r \in Seq(S) /\ Len(r) = Len(q) + 1 /\ Len(q) \in Nat
      /\ DOMAIN q = 1..Len(q) /\ DOMAIN r = 1..(Len(q) + 1)
  BY <1>1, ConcatProperties, LenProperties
<1>3. \A i \in 1..(Len(q) + 1) : r[i] = IF i = 1 THEN c ELSE q[i - 1]
  BY <1>1, <1>2, ConcatProperties
<1> HIDE DEF r
<1>4. r # <<>>  BY <1>2, EmptySeq
<1>5. ToSet(r) = ToSet(q) \cup {c}
  <2>1. ASSUME NEW i \in 1..(Len(q) + 1) PROVE r[i] \in ToSet(q) \cup {c}
    <3>1. CASE i = 1  BY <1>3, <3>1
    <3>2. CASE i # 1
      <4>1. i - 1 \in 1..Len(q) /\ r[i] = q[i - 1]  BY <1>2, <1>3, <3>2
      <4> QED  BY <1>2, <4>1 DEF ToSet
    <3> QED  BY <3>1, <3>2
  <2>2. ASSUME NEW i \in 1..Len(q) PROVE q[i] \in ToSet(r)
    <3>1. i + 1 \in 1..(Len(q) + 1) /\ r[i + 1] = q[i]  BY <1>2, <1>3
    <3> QED  BY <1>2, <3>1 DEF ToSet
  <2>3. c \in ToSet(r)
    <3>1. 1 \in 1..(Len(q) + 1) /\ r[1] = c  BY <1>2, <1>3
    <3> QED  BY <1>2, <3>1 DEF ToSet
  <2> QED  BY <1>2, <2>1, <2>2, <2>3 DEF ToSet
<1>6. ASSUME IsInjective(q), c \notin ToSet(q) PROVE IsInjective(r)
  <2>1. ASSUME NEW i \in 2..(Len(q) + 1) PROVE r[i] = q[i - 1] /\ i - 1 \in DOMAIN q
    BY <1>2, <1>3
  <2>2. ASSUME NEW i \in 2..(Len(q) + 1) PROVE r[i] # r[1]
    <3>1. r[1] = c  BY <1>2, <1>3
    <3>2. r[i] \in ToSet(q)  BY <2>1 DEF ToSet
    <3> QED  BY <1>6, <3>1, <3>2
  <2>3. ASSUME NEW i \in 2..(Len(q) + 1), NEW j \in 2..(Len(q) + 1), r[i] = r[j] PROVE i = j
    <3>1. i - 1 = j - 1  BY <1>6, <2>1, <2>3 DEF IsInjective
    <3> QED  BY <3>1
  <2>4. ASSUME NEW i \in 1..(Len(q) + 1), NEW j \in 1..(Len(q) + 1), r[i] = r[j] PROVE i = j
    <3>1. CASE i = 1 /\ j = 1  BY <3>1
    <3>2. CASE i = 1 /\ j # 1
      <4>1. j \in 2..(Len(q) + 1)  BY <1>2, <3>2
      <4> QED  BY <2>2, <2>4, <3>2, <4>1
    <3>3. CASE i # 1 /\ j = 1
      <4>1. i \in 2..(Len(q) + 1)  BY <1>2, <3>3
      <4> QED  BY <2>2, <2>4, <3>3, <4>1
    <3>4. CASE i # 1 /\ j # 1
      <4>1. i \in 2..(Len(q) + 1) /\ j \in 2..(Len(q) + 1)  BY <1>2, <3>4
      <4> QED  BY <2>3, <2>4, <4>1
    <3> QED  BY <3>1, <3>2, <3>3, <3>4
  <2> QED  BY <1>2, <2>4 DEF IsInjective
<1> QED  BY <1>2, <1>4, <1>5, <1>6 DEF r

\* Reversing (the straight list of co_schedule_bh_cb).
LEMMA QueueReverse ==
  ASSUME NEW S, NEW q \in Seq(S)
  PROVE  /\ Reverse(q) \in Seq(S)
         /\ ToSet(Reverse(q)) = ToSet(q)
         /\ IsInjective(q) => IsInjective(Reverse(q))
<1> DEFINE r == Reverse(q)
<1>1. Len(q) \in Nat /\ DOMAIN q = 1..Len(q) /\ q \in [1..Len(q) -> S]  BY LenProperties
<1>2. /\ r \in [1..Len(q) -> S]
      /\ \A i \in 1..Len(q) : r[i] = q[Len(q) - i + 1] /\ Len(q) - i + 1 \in 1..Len(q)
  BY <1>1 DEF Reverse
<1>3. r \in Seq(S)  BY <1>1, <1>2, SeqDef
<1>4. DOMAIN r = 1..Len(q)  BY <1>2
<1> HIDE DEF r
<1>5. ToSet(r) = ToSet(q)
  <2>1. ASSUME NEW i \in 1..Len(q) PROVE q[i] \in ToSet(r)
    <3>1. Len(q) - i + 1 \in 1..Len(q) /\ r[Len(q) - i + 1] = q[i]
      BY <1>1, <1>2
    <3> QED  BY <1>4, <3>1 DEF ToSet
  <2>2. ASSUME NEW i \in 1..Len(q) PROVE r[i] \in ToSet(q)
    BY <1>1, <1>2 DEF ToSet
  <2> QED  BY <1>1, <1>4, <2>1, <2>2 DEF ToSet
<1>6. ASSUME IsInjective(q) PROVE IsInjective(r)
  <2>1. ASSUME NEW i \in 1..Len(q), NEW j \in 1..Len(q), r[i] = r[j] PROVE i = j
    <3>1. Len(q) - i + 1 = Len(q) - j + 1  BY <1>1, <1>2, <1>6, <2>1 DEF IsInjective
    <3> QED  BY <1>1, <3>1
  <2> QED  BY <1>4, <2>1 DEF IsInjective
<1> QED  BY <1>3, <1>5, <1>6 DEF r

\* How often an element occurs in a queue without duplicates.
LEMMA QueueCount ==
  ASSUME NEW S, NEW q \in Seq(S), IsInjective(q), NEW c
  PROVE  Cardinality({i \in DOMAIN q : q[i] = c}) = IF c \in ToSet(q) THEN 1 ELSE 0
<1> DEFINE I == {i \in DOMAIN q : q[i] = c}
<1>1. CASE c \in ToSet(q)
  <2>1. PICK i \in DOMAIN q : q[i] = c  BY <1>1 DEF ToSet
  <2>2. I = {i}  BY <2>1 DEF IsInjective
  <2>3. Cardinality({i}) = 1  BY FS_Singleton
  <2>4. Cardinality(I) = 1  BY <2>2, <2>3
  <2> QED  BY <1>1, <2>4
<1>2. CASE c \notin ToSet(q)
  <2>1. I = {}  BY <1>2 DEF ToSet
  <2> QED  BY <1>2, <2>1, FS_EmptySet
<1> QED  BY <1>1, <1>2

-----------------------------------------------------------------------------
(* The inductive invariant *)

\* An operation holds a bottom half, or a coroutine, only on the way to a list.
OpsRight ==
  \A t \in Threads :
    /\ op[t].pc = "insert" <=> op[t].bh # NoBH
    /\ op[t].pc = "co_insert" <=> op[t].co # NoBH

\* The callers of a nested loop are in callbacks of the program's bottom halves.
NestedInCallbacks ==
  \A i \in DOMAIN frames : i # Len(frames) => frames[i].pc = "call" /\ frames[i].bh # CoBH

\* What a call of the loop knows at its place.
FrameRight(f) ==
  /\ f.pc \in {"and", "call", "enter", "coroutine", "free"} <=> f.bh # NoBH
  /\ f.pc \in {"enter", "coroutine"} => f.bh = CoBH
  /\ f.bhflags # {} => f.pc \in {"call", "free"}
  /\ f.pc \in {"me", "list", "slices", "deadline", "unme", "accept", "clear", "check"} =>
       f.blocking
  /\ f.loop = "gsource" => f.blocking
  /\ ~f.blocking => f.timeout = 0
  /\ f.pc = "check" => f.loop = "gsource"
FramesRight ==
  \A i \in DOMAIN frames : FrameRight(frames[i]) /\ (frames[i].loop = "gsource" => i = 1)

\* The home thread calls from outside the loop, from callbacks and from coroutines.
HomeRight ==
  op[Home] # NoOp =>
    frames = <<>> \/ (Top.pc = "call" /\ Top.bh # CoBH) \/ Top.pc = "coroutine"

\* notify_me says that the innermost loop may block.  The bit of the GSource
\* stays set when aio_ctx_check is skipped.
Announced == {"list", "slices", "deadline", "try_poll", "wait", "unme"}
MayBlock == frames # <<>> /\ Top.blocking /\ Top.pc \in Announced
NotifyMeRight ==
  /\ notify_me \in 0..3
  /\ notify_me >= 2 <=> MayBlock /\ Top.loop = "poll"
  /\ MayBlock => notify_me # 0

\* What the flags of a bottom half say of it.
FlagsRight ==
  /\ CoBH \in alive
  /\ \A b \in AllBHs :
       /\ "SCHEDULED" \in flags[b] => "PENDING" \in flags[b]
       /\ "PENDING" \in flags[b] => b \in alive
       /\ "ONESHOT" \in flags[b] => b \in Oneshots
       /\ "DELETED" \in flags[b] => b \in BHs

\* A bottom half that a call of the loop will free is allocated, is not queued
\* and cannot be queued again, and no other call will free it.
ToFree(f) == f.bhflags # {}
FreedOnce ==
  /\ \A i \in DOMAIN frames : ToFree(frames[i]) =>
       /\ frames[i].bh \in alive
       /\ "PENDING" \notin flags[frames[i].bh]
       /\ frames[i].bh \in Oneshots \/ "DELETED" \in flags[frames[i].bh]
  /\ \A i, j \in DOMAIN frames :
       ToFree(frames[i]) /\ ToFree(frames[j]) /\ frames[i].bh = frames[j].bh => i = j

\* Where the bottom halves with BH_PENDING are: on the list, on the slices, in
\* the hands of the threads that insert them and of aio_bh_dequeue.
Inserters == {t \in Threads : op[t].pc = "insert"}
Inserted == {op[t].bh : t \in Inserters}
InHand == IF frames # <<>> /\ Top.pc = "and" THEN {Top.bh} ELSE {}
SlicesInjective(s) ==
  \A i, k \in DOMAIN s : \A j \in DOMAIN s[i], l \in DOMAIN s[k] :
    s[i][j] = s[k][l] => i = k /\ j = l
QueuedOnce ==
  /\ IsInjective(bh_list) /\ SlicesInjective(bh_slices)
  /\ \A t, u \in Inserters : op[t].bh = op[u].bh => t = u
  /\ ToSet(bh_list) \cap SliceBHs = {}
  /\ ToSet(bh_list) \cap Inserted = {}
  /\ ToSet(bh_list) \cap InHand = {}
  /\ SliceBHs \cap Inserted = {}
  /\ SliceBHs \cap InHand = {}
  /\ Inserted \cap InHand = {}
QueuedIfPending ==
  ToSet(bh_list) \cup SliceBHs \cup Inserted \cup InHand
    = {b \in AllBHs : "PENDING" \in flags[b]}

\* What the home thread has looked at without finding a reason not to sleep
\* either has none, or the one who gave it one will set the notifier.
Woken == notifier \/ \E t \in Others : op[t].pc \in {"insert", "notify", "set"}
AsleepSoFar(loc) == frames # <<>> /\ Top.pc = loc /\ Top.timeout = 2
SleepRight ==
  /\ AsleepSoFar("slices") => Woken \/ \A b \in ToSet(bh_list) : ~Runnable(b)
  /\ AsleepSoFar("deadline") => Woken \/ \A b \in AllBHs : ~Runnable(b)
  /\ AsleepSoFar("try_poll") \/ AsleepSoFar("wait") =>
       Woken \/ (~timer /\ \A b \in AllBHs : ~Runnable(b))

\* Where the scheduled coroutines are.
CoCallers == {t \in Threads : op[t].pc = "co_insert"}
CoCalled == {op[t].co : t \in CoCallers}
CoroutinesOnce ==
  /\ IsInjective(co_list) /\ IsInjective(straight)
  /\ \A t, u \in CoCallers : op[t].co = op[u].co => t = u
  /\ ToSet(co_list) \cap ToSet(straight) = {}
  /\ ToSet(co_list) \cap CoCalled = {}
  /\ ToSet(straight) \cap CoCalled = {}
  /\ ToSet(co_list) \cup ToSet(straight) \cup CoCalled = scheduled
\* co_schedule_bh_cb is entered by one call of the loop at a time.
StraightInPlace == straight # <<>> => frames # <<>> /\ Top.pc \in {"enter", "coroutine"}
\* The bottom half that takes the list is scheduled, or is about to be or to run.
ListTaken ==
  co_list # <<>> =>
    \/ "SCHEDULED" \in flags[CoBH]
    \/ \E t \in Threads : op[t].pc = "co_bh"
    \/ frames # <<>> /\ Top.pc = "call" /\ Top.bh = CoBH

IInv ==
  /\ TypeOK /\ OpsRight /\ NestedInCallbacks /\ FramesRight /\ HomeRight /\ NotifyMeRight
  /\ FlagsRight /\ FreedOnce /\ QueuedOnce /\ QueuedIfPending /\ SleepRight
  /\ CoroutinesOnce /\ StraightInPlace /\ ListTaken

-----------------------------------------------------------------------------
(* What the steps do to the calls of the loop and to the operations *)

\* Replacing the innermost call.
LEMMA SetTopEffect ==
  ASSUME frames \in Seq(Frame), frames # <<>>, NEW f \in Frame, SetTop(f)
  PROVE  /\ frames' \in Seq(Frame) /\ frames' # <<>> /\ Len(frames') = Len(frames)
         /\ DOMAIN frames' = DOMAIN frames /\ Len(frames) \in DOMAIN frames
         /\ Top' = f
         /\ \A i \in DOMAIN frames : i # Len(frames) => frames'[i] = frames[i]
<1>1. Len(frames) \in Nat \ {0} /\ DOMAIN frames = 1..Len(frames)
  BY LenProperties, EmptySeq
<1>2. frames' = [frames EXCEPT ![Len(frames)] = f]  BY DEF SetTop
<1>3. /\ frames' \in Seq(Frame) /\ Len(frames') = Len(frames)
  BY <1>1, <1>2, ExceptSeq
<1>4. DOMAIN frames' = DOMAIN frames  BY <1>2
<1>5. frames' # <<>>  BY <1>1, <1>3, EmptySeq
<1>6. frames'[Len(frames)] = f  BY <1>1, <1>2
<1> QED  BY <1>1, <1>2, <1>3, <1>4, <1>5, <1>6 DEF Top

\* The innermost call is one of the loop's calls.
LEMMA TopIsFrame ==
  ASSUME frames \in Seq(Frame), frames # <<>>
  PROVE  Top \in Frame /\ Len(frames) \in DOMAIN frames /\ Top = frames[Len(frames)]
<1>1. Len(frames) \in Nat \ {0} /\ DOMAIN frames = 1..Len(frames)
  BY LenProperties, EmptySeq
<1> QED  BY <1>1, ElementOfSeq DEF Top

\* Replacing the innermost call keeps what the invariant says of all calls.
LEMMA SetTopKeeps ==
  ASSUME IInv, frames # <<>>, NEW f \in Frame, SetTop(f), FrameRight(f),
         f.loop = Top.loop
  PROVE  NestedInCallbacks' /\ FramesRight'
<1> USE DEF IInv, TypeOK
<1>1. /\ Len(frames') = Len(frames) /\ DOMAIN frames' = DOMAIN frames
      /\ Len(frames) \in DOMAIN frames /\ frames'[Len(frames)] = f
      /\ \A i \in DOMAIN frames : i # Len(frames) => frames'[i] = frames[i]
      /\ Top = frames[Len(frames)]
  BY SetTopEffect, TopIsFrame DEF Top
<1>2. NestedInCallbacks'  BY <1>1 DEF NestedInCallbacks
<1>3. FramesRight'
  <2> SUFFICES ASSUME NEW i \in DOMAIN frames
               PROVE  FrameRight(frames'[i]) /\ (frames'[i].loop = "gsource" => i = 1)
    BY <1>1 DEF FramesRight, FrameRight
  <2> QED  BY <1>1 DEF FramesRight
<1> QED  BY <1>2, <1>3

\* So does it keep what is to be freed, if it knows of the same bottom half.
LEMMA SetTopFreedOnce ==
  ASSUME IInv, frames # <<>>, NEW f \in Frame, SetTop(f),
         f.bh = Top.bh, f.bhflags = Top.bhflags, UNCHANGED <<flags, alive>>
  PROVE  FreedOnce'
<1> USE DEF IInv, TypeOK
<1>1. /\ Len(frames') = Len(frames) /\ DOMAIN frames' = DOMAIN frames
      /\ Len(frames) \in DOMAIN frames /\ frames'[Len(frames)] = f
      /\ \A i \in DOMAIN frames : i # Len(frames) => frames'[i] = frames[i]
      /\ Top = frames[Len(frames)]
  BY SetTopEffect, TopIsFrame DEF Top
<1>2. \A i \in DOMAIN frames : /\ frames'[i].bh = frames[i].bh
                               /\ frames'[i].bhflags = frames[i].bhflags
  BY <1>1
<1> QED  BY <1>1, <1>2 DEF FreedOnce, ToFree

\* The queues, if a step touches neither them nor the flags.
LEMMA QueuesSame ==
  ASSUME IInv, UNCHANGED <<flags, bh_list, bh_slices, op>>, InHand' = InHand
  PROVE  QueuedOnce' /\ QueuedIfPending'
<1>1. Inserters' = Inserters /\ Inserted' = Inserted /\ SliceBHs' = SliceBHs
  BY DEF Inserters, Inserted, SliceBHs
<1> QED  BY <1>1 DEF IInv, QueuedOnce, QueuedIfPending

\* The coroutines, if a step does not touch them.
LEMMA CoroutinesSame ==
  ASSUME IInv, UNCHANGED <<coVars, op>>
  PROVE  CoroutinesOnce'
<1>1. CoCallers' = CoCallers /\ CoCalled' = CoCalled  BY DEF CoCallers, CoCalled
<1> QED  BY <1>1 DEF IInv, CoroutinesOnce, coVars

\* A step of the innermost call that touches no queue.
LEMMA TopStep ==
  ASSUME IInv, frames # <<>>, op[Home] = NoOp, Top.pc # "and",
         NEW f \in Frame, SetTop(f), FrameRight(f), f.pc # "and",
         f.loop = Top.loop, f.bh = Top.bh, f.bhflags = Top.bhflags,
         UNCHANGED <<bhVars, op, coVars>>,
         notified' \in BOOLEAN, notifier' \in BOOLEAN, timer' \in BOOLEAN,
         NotifyMeRight', SleepRight', StraightInPlace', ListTaken'
  PROVE  IInv'
<1>1. frames' \in Seq(Frame) /\ frames' # <<>> /\ Top' = f
  BY SetTopEffect DEF IInv, TypeOK
<1>2. TypeOK'
  <2>1. notify_me' \in 0..(2 * MaxDepth + 1)  BY DepthAssumption DEF NotifyMeRight
  <2> QED  BY <1>1, <2>1 DEF IInv, TypeOK, bhVars, coVars
<1>3. NestedInCallbacks' /\ FramesRight'  BY SetTopKeeps
<1>4. FreedOnce'  BY SetTopFreedOnce DEF bhVars
<1>5. InHand' = InHand  BY <1>1 DEF InHand
<1>6. QueuedOnce' /\ QueuedIfPending'  BY <1>5, QueuesSame DEF bhVars
<1>7. CoroutinesOnce'  BY CoroutinesSame
<1>8. OpsRight' /\ HomeRight' /\ FlagsRight'
  BY DEF IInv, OpsRight, HomeRight, FlagsRight, bhVars
<1> QED  BY <1>2, <1>3, <1>4, <1>6, <1>7, <1>8 DEF IInv

\* Moving the innermost call on, with another timeout or another verdict.
LEMMA FrameMoved ==
  ASSUME NEW g \in Frame, NEW loc \in FrameLocations, NEW tm \in Timeouts, NEW r \in BOOLEAN
  PROVE  /\ [g EXCEPT !.pc = loc] \in Frame
         /\ [g EXCEPT !.timeout = tm, !.pc = loc] \in Frame
         /\ [g EXCEPT !.pc = loc, !.timeout = tm, !.ready = r] \in Frame
         /\ [g EXCEPT !.pc = loc, !.ready = r] \in Frame
BY DEF Frame

\* aio_compute_bh_timeout says that the thread may sleep only if nothing on the
\* list is to be run.
LEMMA BhTimeout ==
  ASSUME NEW S, NEW tm \in Timeouts
  PROVE  /\ aio_compute_bh_timeout(S, tm) \in Timeouts
         /\ aio_compute_bh_timeout(S, tm) = 2 => tm = 2 /\ \A b \in S : ~Runnable(b)
<1> DEFINE runnable == {b \in S : Runnable(b)}
<1>1. CASE \E b \in runnable : "IDLE" \notin flags[b]
  BY <1>1 DEF aio_compute_bh_timeout, Timeouts
<1>2. CASE ~(\E b \in runnable : "IDLE" \notin flags[b]) /\ runnable # {}
  BY <1>2 DEF aio_compute_bh_timeout, Timeouts
<1>3. CASE runnable = {}
  BY <1>3 DEF aio_compute_bh_timeout, Timeouts
<1> QED  BY <1>1, <1>2, <1>3

-----------------------------------------------------------------------------
(* The steps of the innermost call *)

\* notify_me, as the innermost call announces that it may block.
LEMMA Step_SetNotifyMe == ASSUME IInv, SetNotifyMe PROVE IInv'
<1> DEFINE f == [Top EXCEPT !.pc = "list"]
<1>1. frames # <<>> /\ Top.pc = "me" /\ op[Home] = NoOp /\ SetTop(f)
  BY DEF SetNotifyMe, At, Go
<1>2. Top \in Frame /\ FrameRight(Top) /\ (Top.loop = "gsource" => 1 = Len(frames))
  BY <1>1, TopIsFrame DEF IInv, TypeOK, FramesRight
<1>3. f \in Frame  BY <1>2, FrameMoved DEF FrameLocations, Timeouts
<1>4. FrameRight(f) /\ f.pc = "list" /\ f.loop = Top.loop /\ f.bh = Top.bh
      /\ f.bhflags = Top.bhflags /\ f.blocking
  BY <1>1, <1>2 DEF FrameRight, Frame
<1>5. frames' # <<>> /\ Top' = f  BY <1>1, <1>3, SetTopEffect DEF IInv, TypeOK
<1> HIDE DEF f
<1>6. NotifyMeRight'
  <2>1. ~MayBlock /\ MayBlock'  BY <1>1, <1>4, <1>5 DEF MayBlock, Announced
  <2>2. notify_me \in {0, 1}  BY <2>1 DEF IInv, NotifyMeRight
  <2>3. Top.loop \in {"poll", "gsource"}  BY <1>2 DEF Frame
  <2> QED  BY <1>4, <1>5, <2>1, <2>2, <2>3 DEF NotifyMeRight, SetNotifyMe
<1>7. SleepRight'  BY <1>4, <1>5 DEF SleepRight, AsleepSoFar
<1>8. StraightInPlace' /\ ListTaken'
  BY <1>1, <1>4, <1>5 DEF IInv, StraightInPlace, ListTaken, SetNotifyMe, bhVars, coVars
<1> QED  BY <1>1, <1>3, <1>4, <1>6, <1>7, <1>8, TopStep DEF SetNotifyMe, IInv, TypeOK

\* The look at the list.
LEMMA Step_ComputeList == ASSUME IInv, ComputeList PROVE IInv'
<1> DEFINE tm == aio_compute_bh_timeout(ToSet(bh_list), Top.timeout)
           f == [Top EXCEPT !.timeout = tm, !.pc = IF tm = 0 THEN "try_poll" ELSE "slices"]
<1>1. frames # <<>> /\ Top.pc = "list" /\ op[Home] = NoOp /\ SetTop(f)
  BY DEF ComputeList, At
<1>2. Top \in Frame /\ FrameRight(Top)
  BY <1>1, TopIsFrame DEF IInv, TypeOK, FramesRight
<1>3. tm \in Timeouts /\ (tm = 2 => \A b \in ToSet(bh_list) : ~Runnable(b))
  BY <1>2, BhTimeout DEF Frame
<1> HIDE DEF tm
<1>4. f \in Frame  BY <1>2, <1>3, FrameMoved DEF FrameLocations
<1>5. /\ FrameRight(f) /\ f.pc = IF tm = 0 THEN "try_poll" ELSE "slices"
      /\ f.loop = Top.loop /\ f.bh = Top.bh
      /\ f.bhflags = Top.bhflags /\ f.blocking /\ f.timeout = tm /\ Top.blocking
  BY <1>1, <1>2 DEF FrameRight, Frame
<1>6. frames' # <<>> /\ Top' = f  BY <1>1, <1>4, SetTopEffect DEF IInv, TypeOK
<1> HIDE DEF f
<1>7. NotifyMeRight'
  BY <1>1, <1>5, <1>6 DEF IInv, NotifyMeRight, MayBlock, Announced, ComputeList, notifyVars
<1>8. SleepRight'
  BY <1>3, <1>5, <1>6
  DEF SleepRight, AsleepSoFar, Woken, Runnable, ComputeList, bhVars, notifyVars
<1>9. StraightInPlace' /\ ListTaken'
  BY <1>1, <1>5, <1>6 DEF IInv, StraightInPlace, ListTaken, ComputeList, bhVars, coVars
<1> QED
  BY <1>1, <1>4, <1>5, <1>7, <1>8, <1>9, TopStep
  DEF ComputeList, IInv, TypeOK, notifyVars

\* The look at the timers.
LEMMA Step_ComputeDeadline == ASSUME IInv, ComputeDeadline PROVE IInv'
<1> DEFINE f == [Top EXCEPT !.timeout = IF timer THEN 0 ELSE @, !.pc = "try_poll"]
<1>1. frames # <<>> /\ Top.pc = "deadline" /\ op[Home] = NoOp /\ SetTop(f)
  BY DEF ComputeDeadline, At, Go
<1>2. Top \in Frame /\ FrameRight(Top)
  BY <1>1, TopIsFrame DEF IInv, TypeOK, FramesRight
<1>3. f \in Frame
  <2>1. (IF timer THEN 0 ELSE Top.timeout) \in Timeouts  BY <1>2 DEF Frame, Timeouts
  <2> QED  BY <1>2, <2>1, FrameMoved DEF FrameLocations
<1>4. /\ FrameRight(f) /\ f.loop = Top.loop /\ f.bh = Top.bh /\ f.bhflags = Top.bhflags
      /\ f.blocking = Top.blocking /\ f.pc = "try_poll"
      /\ f.timeout = (IF timer THEN 0 ELSE Top.timeout)
  BY <1>1, <1>2 DEF FrameRight, Frame
<1>5. frames' # <<>> /\ Top' = f  BY <1>1, <1>3, SetTopEffect DEF IInv, TypeOK
<1> HIDE DEF f
<1>6. NotifyMeRight'
  BY <1>1, <1>4, <1>5
  DEF IInv, NotifyMeRight, MayBlock, Announced, FrameRight, ComputeDeadline, notifyVars
<1>7. SleepRight'
  BY <1>1, <1>4, <1>5
  DEF IInv, SleepRight, AsleepSoFar, Woken, Runnable, ComputeDeadline, bhVars, notifyVars
<1>8. StraightInPlace' /\ ListTaken'
  BY <1>1, <1>4, <1>5 DEF IInv, StraightInPlace, ListTaken, ComputeDeadline, bhVars, coVars
<1> QED
  BY <1>1, <1>3, <1>4, <1>6, <1>7, <1>8, TopStep
  DEF ComputeDeadline, IInv, TypeOK, notifyVars

\* glib polls, or dispatches at once.
LEMMA Step_aio_ctx_prepare == ASSUME IInv, aio_ctx_prepare PROVE IInv'
<1> DEFINE f == [Top EXCEPT !.pc = IF Top.timeout = 0 THEN "move" ELSE "wait"]
<1>1. frames # <<>> /\ Top.pc = "try_poll" /\ op[Home] = NoOp /\ SetTop(f)
  BY DEF aio_ctx_prepare, At, Go
<1>2. Top \in Frame /\ FrameRight(Top)
  BY <1>1, TopIsFrame DEF IInv, TypeOK, FramesRight
<1>3. f \in Frame  BY <1>2, FrameMoved DEF FrameLocations, Timeouts
<1>4. /\ FrameRight(f) /\ f.loop = Top.loop /\ f.bh = Top.bh /\ f.bhflags = Top.bhflags
      /\ f.blocking = Top.blocking /\ f.pc \in {"move", "wait"}
      /\ Top.loop = "gsource" /\ f.timeout = Top.timeout
  BY <1>1, <1>2 DEF FrameRight, Frame, aio_ctx_prepare
<1>5. frames' # <<>> /\ Top' = f  BY <1>1, <1>3, SetTopEffect DEF IInv, TypeOK
<1> HIDE DEF f
<1>6. NotifyMeRight'
  BY <1>1, <1>4, <1>5
  DEF IInv, NotifyMeRight, MayBlock, Announced, FrameRight, aio_ctx_prepare, notifyVars
<1>7. SleepRight'
  BY <1>1, <1>4, <1>5
  DEF IInv, SleepRight, AsleepSoFar, Woken, Runnable, aio_ctx_prepare, bhVars, notifyVars
<1>8. StraightInPlace' /\ ListTaken'
  BY <1>1, <1>4, <1>5 DEF IInv, StraightInPlace, ListTaken, aio_ctx_prepare, bhVars, coVars
<1> QED
  BY <1>1, <1>3, <1>4, <1>6, <1>7, <1>8, TopStep
  DEF aio_ctx_prepare, IInv, TypeOK, notifyVars

\* Another descriptor ends the wait.
LEMMA Step_OtherFdReady == ASSUME IInv, OtherFdReady PROVE IInv'
<1> DEFINE f == [Top EXCEPT !.pc = IF Top.blocking THEN "unme" ELSE "move", !.timeout = 0,
                          !.ready = Top.loop = "gsource" /\ TRUE]
<1>1. frames # <<>> /\ Top.pc = "wait" /\ op[Home] = NoOp /\ SetTop(f)
  BY DEF OtherFdReady, WaitOver, At
<1>2. Top \in Frame /\ FrameRight(Top)
  BY <1>1, TopIsFrame DEF IInv, TypeOK, FramesRight
<1>3. f \in Frame
  <2>1. (Top.loop = "gsource" /\ TRUE) \in BOOLEAN /\ 0 \in Timeouts  BY DEF Timeouts
  <2> QED  BY <1>2, <2>1, FrameMoved DEF FrameLocations
<1>4. /\ FrameRight(f) /\ f.loop = Top.loop /\ f.bh = Top.bh /\ f.bhflags = Top.bhflags
      /\ f.blocking = Top.blocking /\ f.pc = IF Top.blocking THEN "unme" ELSE "move"
  BY <1>1, <1>2 DEF FrameRight, Frame
<1>5. frames' # <<>> /\ Top' = f  BY <1>1, <1>3, SetTopEffect DEF IInv, TypeOK
<1> HIDE DEF f
<1>6. NotifyMeRight'
  BY <1>1, <1>4, <1>5
  DEF IInv, NotifyMeRight, MayBlock, Announced, FrameRight, OtherFdReady, notifyVars
<1>7. SleepRight'
  BY <1>4, <1>5 DEF SleepRight, AsleepSoFar
<1>8. StraightInPlace' /\ ListTaken'
  BY <1>1, <1>4, <1>5 DEF IInv, StraightInPlace, ListTaken, OtherFdReady, bhVars, coVars
<1> QED
  BY <1>1, <1>3, <1>4, <1>6, <1>7, <1>8, TopStep
  DEF OtherFdReady, IInv, TypeOK, notifyVars

\* The notifier or the timeout ends the wait.
LEMMA Step_WaitNotified == ASSUME IInv, WaitNotified PROVE IInv'
<1> DEFINE f == [Top EXCEPT !.pc = IF Top.blocking THEN "unme" ELSE "move", !.timeout = 0,
                          !.ready = Top.loop = "gsource" /\ notifier]
<1>1. frames # <<>> /\ Top.pc = "wait" /\ op[Home] = NoOp /\ SetTop(f)
  BY DEF WaitNotified, WaitOver, At
<1>2. Top \in Frame /\ FrameRight(Top)
  BY <1>1, TopIsFrame DEF IInv, TypeOK, FramesRight
<1>3. f \in Frame
  <2>1. (Top.loop = "gsource" /\ notifier) \in BOOLEAN /\ 0 \in Timeouts  BY DEF Timeouts
  <2> QED  BY <1>2, <2>1, FrameMoved DEF FrameLocations
<1>4. /\ FrameRight(f) /\ f.loop = Top.loop /\ f.bh = Top.bh /\ f.bhflags = Top.bhflags
      /\ f.blocking = Top.blocking /\ f.pc = IF Top.blocking THEN "unme" ELSE "move"
  BY <1>1, <1>2 DEF FrameRight, Frame
<1>5. frames' # <<>> /\ Top' = f  BY <1>1, <1>3, SetTopEffect DEF IInv, TypeOK
<1> HIDE DEF f
<1>6. NotifyMeRight'
  BY <1>1, <1>4, <1>5
  DEF IInv, NotifyMeRight, MayBlock, Announced, FrameRight, WaitNotified, notifyVars
<1>7. SleepRight'
  BY <1>4, <1>5 DEF SleepRight, AsleepSoFar
<1>8. StraightInPlace' /\ ListTaken'
  BY <1>1, <1>4, <1>5 DEF IInv, StraightInPlace, ListTaken, WaitNotified, bhVars, coVars
<1> QED
  BY <1>1, <1>3, <1>4, <1>6, <1>7, <1>8, TopStep
  DEF WaitNotified, IInv, TypeOK, notifyVars

\* The wait is over.
LEMMA Step_ClearNotifyMe == ASSUME IInv, ClearNotifyMe PROVE IInv'
<1> DEFINE f == [Top EXCEPT !.pc = "accept"]
<1>1. frames # <<>> /\ Top.pc = "unme" /\ op[Home] = NoOp /\ SetTop(f)
  BY DEF ClearNotifyMe, At, Go
<1>2. Top \in Frame /\ FrameRight(Top)
  BY <1>1, TopIsFrame DEF IInv, TypeOK, FramesRight
<1>3. f \in Frame  BY <1>2, FrameMoved DEF FrameLocations, Timeouts
<1>4. /\ FrameRight(f) /\ f.loop = Top.loop /\ f.bh = Top.bh /\ f.bhflags = Top.bhflags
      /\ f.blocking = Top.blocking /\ f.pc = "accept" /\ Top.blocking
  BY <1>1, <1>2 DEF FrameRight, Frame
<1>5. frames' # <<>> /\ Top' = f  BY <1>1, <1>3, SetTopEffect DEF IInv, TypeOK
<1> HIDE DEF f
<1>6. NotifyMeRight'
  <2>1. MayBlock /\ ~MayBlock'  BY <1>1, <1>4, <1>5 DEF MayBlock, Announced
  <2>2. Top.loop \in {"poll", "gsource"}  BY <1>2 DEF Frame
  <2>3. notify_me \in 1..3 /\ (notify_me >= 2 <=> Top.loop = "poll")
    BY <2>1 DEF IInv, NotifyMeRight
  <2> QED  BY <2>1, <2>2, <2>3 DEF NotifyMeRight, ClearNotifyMe
<1>7. SleepRight'
  BY <1>4, <1>5 DEF SleepRight, AsleepSoFar
<1>8. StraightInPlace' /\ ListTaken'
  BY <1>1, <1>4, <1>5 DEF IInv, StraightInPlace, ListTaken, ClearNotifyMe, bhVars, coVars
<1> QED
  BY <1>1, <1>3, <1>4, <1>6, <1>7, <1>8, TopStep
  DEF ClearNotifyMe, IInv, TypeOK, notifyVars

\* The flag `notified` is cleared before the notifier.
LEMMA Step_aio_notify_accept == ASSUME IInv, aio_notify_accept PROVE IInv'
<1> DEFINE f == [Top EXCEPT !.pc = IF notified THEN "clear" ELSE AfterAccept]
<1>1. frames # <<>> /\ Top.pc = "accept" /\ op[Home] = NoOp /\ SetTop(f)
  BY DEF aio_notify_accept, At, Go
<1>2. Top \in Frame /\ FrameRight(Top)
  BY <1>1, TopIsFrame DEF IInv, TypeOK, FramesRight
<1>3. f \in Frame  BY <1>2, FrameMoved DEF FrameLocations, Timeouts, AfterAccept
<1>4. /\ FrameRight(f) /\ f.loop = Top.loop /\ f.bh = Top.bh /\ f.bhflags = Top.bhflags
      /\ f.blocking = Top.blocking /\ f.pc \in {"clear", "check", "move"}
  BY <1>1, <1>2 DEF FrameRight, Frame, AfterAccept
<1>5. frames' # <<>> /\ Top' = f  BY <1>1, <1>3, SetTopEffect DEF IInv, TypeOK
<1> HIDE DEF f
<1>6. NotifyMeRight'
  BY <1>1, <1>4, <1>5
  DEF IInv, NotifyMeRight, MayBlock, Announced, FrameRight, aio_notify_accept, notifyVars
<1>7. SleepRight'
  BY <1>4, <1>5 DEF SleepRight, AsleepSoFar
<1>8. StraightInPlace' /\ ListTaken'
  BY <1>1, <1>4, <1>5
  DEF IInv, StraightInPlace, ListTaken, aio_notify_accept, bhVars, coVars
<1> QED
  BY <1>1, <1>3, <1>4, <1>6, <1>7, <1>8, TopStep
  DEF aio_notify_accept, IInv, TypeOK, notifyVars

\* The notifier is cleared.
LEMMA Step_TestAndClear == ASSUME IInv, TestAndClear PROVE IInv'
<1> DEFINE f == [Top EXCEPT !.pc = AfterAccept]
<1>1. frames # <<>> /\ Top.pc = "clear" /\ op[Home] = NoOp /\ SetTop(f)
  BY DEF TestAndClear, At, Go
<1>2. Top \in Frame /\ FrameRight(Top)
  BY <1>1, TopIsFrame DEF IInv, TypeOK, FramesRight
<1>3. f \in Frame  BY <1>2, FrameMoved DEF FrameLocations, Timeouts, AfterAccept
<1>4. /\ FrameRight(f) /\ f.loop = Top.loop /\ f.bh = Top.bh /\ f.bhflags = Top.bhflags
      /\ f.blocking = Top.blocking /\ f.pc \in {"check", "move"}
  BY <1>1, <1>2 DEF FrameRight, Frame, AfterAccept
<1>5. frames' # <<>> /\ Top' = f  BY <1>1, <1>3, SetTopEffect DEF IInv, TypeOK
<1> HIDE DEF f
<1>6. NotifyMeRight'
  BY <1>1, <1>4, <1>5
  DEF IInv, NotifyMeRight, MayBlock, Announced, FrameRight, TestAndClear, notifyVars
<1>7. SleepRight'
  BY <1>4, <1>5 DEF SleepRight, AsleepSoFar
<1>8. StraightInPlace' /\ ListTaken'
  BY <1>1, <1>4, <1>5 DEF IInv, StraightInPlace, ListTaken, TestAndClear, bhVars, coVars
<1> QED
  BY <1>1, <1>3, <1>4, <1>6, <1>7, <1>8, TopStep
  DEF TestAndClear, IInv, TypeOK, notifyVars

\* A callback returns.
LEMMA Step_CallbackReturns == ASSUME IInv, CallbackReturns PROVE IInv'
<1> DEFINE f == [Top EXCEPT !.pc = "free"]
<1>1. frames # <<>> /\ Top.pc = "call" /\ op[Home] = NoOp /\ SetTop(f)
  BY DEF CallbackReturns, InCallback, At, Go
<1>2. Top \in Frame /\ FrameRight(Top)
  BY <1>1, TopIsFrame DEF IInv, TypeOK, FramesRight
<1>3. f \in Frame  BY <1>2, FrameMoved DEF FrameLocations, Timeouts
<1>4. /\ FrameRight(f) /\ f.loop = Top.loop /\ f.bh = Top.bh /\ f.bhflags = Top.bhflags
      /\ f.blocking = Top.blocking /\ f.pc = "free" /\ Top.bh # CoBH
  BY <1>1, <1>2 DEF FrameRight, Frame, CallbackReturns, InCallback
<1>5. frames' # <<>> /\ Top' = f  BY <1>1, <1>3, SetTopEffect DEF IInv, TypeOK
<1> HIDE DEF f
<1>6. NotifyMeRight'
  BY <1>1, <1>4, <1>5
  DEF IInv, NotifyMeRight, MayBlock, Announced, FrameRight, CallbackReturns, notifyVars
<1>7. SleepRight'
  BY <1>4, <1>5 DEF SleepRight, AsleepSoFar
<1>8. StraightInPlace' /\ ListTaken'
  BY <1>1, <1>4, <1>5 DEF IInv, StraightInPlace, ListTaken, CallbackReturns, bhVars, coVars
<1> QED
  BY <1>1, <1>3, <1>4, <1>6, <1>7, <1>8, TopStep
  DEF CallbackReturns, IInv, TypeOK, notifyVars

\* A coroutine yields or terminates.
LEMMA Step_CoYield == ASSUME IInv, CoYield PROVE IInv'
<1> DEFINE f == [Top EXCEPT !.pc = "enter"]
<1>1. frames # <<>> /\ Top.pc = "coroutine" /\ op[Home] = NoOp /\ SetTop(f)
  BY DEF CoYield, At, Go
<1>2. Top \in Frame /\ FrameRight(Top)
  BY <1>1, TopIsFrame DEF IInv, TypeOK, FramesRight
<1>3. f \in Frame  BY <1>2, FrameMoved DEF FrameLocations, Timeouts
<1>4. /\ FrameRight(f) /\ f.loop = Top.loop /\ f.bh = Top.bh /\ f.bhflags = Top.bhflags
      /\ f.blocking = Top.blocking /\ f.pc = "enter"
  BY <1>1, <1>2 DEF FrameRight, Frame
<1>5. frames' # <<>> /\ Top' = f  BY <1>1, <1>3, SetTopEffect DEF IInv, TypeOK
<1> HIDE DEF f
<1>6. NotifyMeRight'
  BY <1>1, <1>4, <1>5
  DEF IInv, NotifyMeRight, MayBlock, Announced, FrameRight, CoYield, notifyVars
<1>7. SleepRight'
  BY <1>4, <1>5 DEF SleepRight, AsleepSoFar
<1>8. StraightInPlace' /\ ListTaken'
  BY <1>1, <1>4, <1>5 DEF IInv, StraightInPlace, ListTaken, CoYield, bhVars, coVars
<1> QED
  BY <1>1, <1>3, <1>4, <1>6, <1>7, <1>8, TopStep
  DEF CoYield, IInv, TypeOK, notifyVars

\* A bottom half that is to run is on a list, or the thread that inserts it has
\* yet to call aio_notify.
LEMMA RunnableQueued ==
  ASSUME IInv, op[Home] = NoOp, ~(frames # <<>> /\ Top.pc = "and"),
         NEW b \in AllBHs, Runnable(b)
  PROVE  b \in ToSet(bh_list) \cup SliceBHs \/ Woken
<1>1. "PENDING" \in flags[b]  BY DEF IInv, FlagsRight, Runnable
<1>2. InHand = {}  BY DEF InHand
<1>3. b \in ToSet(bh_list) \cup SliceBHs \cup Inserted
  BY <1>1, <1>2 DEF IInv, QueuedIfPending
<1>4. ASSUME b \in Inserted PROVE Woken
  <2>1. PICK t \in Threads : op[t].pc = "insert"  BY <1>4 DEF Inserted, Inserters
  <2>2. t \in Others  BY <2>1 DEF Threads, NoOp
  <2> QED  BY <2>1, <2>2 DEF Woken
<1> QED  BY <1>3, <1>4

\* The look at the slices of the calls under way.
LEMMA Step_ComputeSlices == ASSUME IInv, ComputeSlices PROVE IInv'
<1> DEFINE tm == aio_compute_bh_timeout(SliceBHs, Top.timeout)
           f == [Top EXCEPT !.timeout = tm, !.pc = IF tm = 0 THEN "try_poll" ELSE "deadline"]
<1>1. frames # <<>> /\ Top.pc = "slices" /\ op[Home] = NoOp /\ SetTop(f)
  BY DEF ComputeSlices, At
<1>2. Top \in Frame /\ FrameRight(Top)
  BY <1>1, TopIsFrame DEF IInv, TypeOK, FramesRight
<1>3. tm \in Timeouts /\ (tm = 2 => Top.timeout = 2 /\ \A b \in SliceBHs : ~Runnable(b))
  BY <1>2, BhTimeout DEF Frame
<1> HIDE DEF tm
<1>4. f \in Frame  BY <1>2, <1>3, FrameMoved DEF FrameLocations
<1>5. /\ FrameRight(f) /\ f.pc = IF tm = 0 THEN "try_poll" ELSE "deadline"
      /\ f.loop = Top.loop /\ f.bh = Top.bh
      /\ f.bhflags = Top.bhflags /\ f.blocking /\ f.timeout = tm /\ Top.blocking
  BY <1>1, <1>2 DEF FrameRight, Frame
<1>6. frames' # <<>> /\ Top' = f  BY <1>1, <1>4, SetTopEffect DEF IInv, TypeOK
<1> HIDE DEF f
<1>7. NotifyMeRight'
  BY <1>1, <1>5, <1>6
  DEF IInv, NotifyMeRight, MayBlock, Announced, ComputeSlices, notifyVars
<1>8. SleepRight'
  <2>1. ASSUME tm = 2 PROVE Woken \/ \A b \in AllBHs : ~Runnable(b)
    <3>1. Woken \/ \A b \in ToSet(bh_list) : ~Runnable(b)
      BY <1>1, <1>3, <2>1 DEF IInv, SleepRight, AsleepSoFar
    <3> QED  BY <1>1, <1>3, <2>1, <3>1, RunnableQueued
  <2> QED
    BY <1>5, <1>6, <2>1
    DEF SleepRight, AsleepSoFar, Woken, Runnable, ComputeSlices, bhVars, notifyVars
<1>9. StraightInPlace' /\ ListTaken'
  BY <1>1, <1>5, <1>6 DEF IInv, StraightInPlace, ListTaken, ComputeSlices, bhVars, coVars
<1> QED
  BY <1>1, <1>4, <1>5, <1>7, <1>8, <1>9, TopStep DEF ComputeSlices, IInv, TypeOK, notifyVars

\* Userspace polling may end the wait before it begins.
LEMMA Step_try_poll_mode == ASSUME IInv, try_poll_mode PROVE IInv'
<1>1. frames # <<>> /\ Top.pc = "try_poll" /\ op[Home] = NoOp /\ Top.loop = "poll"
  BY DEF try_poll_mode, At
<1>2. PICK tm \in Timeouts : /\ SetTop([Top EXCEPT !.timeout = tm, !.pc = "wait"])
                             /\ tm \in {0, Top.timeout}
  <2>1. Top \in Frame  BY <1>1, TopIsFrame DEF IInv, TypeOK
  <2>2. CASE Go("wait")
    <3>1. [Top EXCEPT !.timeout = Top.timeout, !.pc = "wait"] = [Top EXCEPT !.pc = "wait"]
      BY <2>1 DEF Frame
    <3> QED  BY <2>1, <2>2, <3>1 DEF Go, Frame
  <2>3. CASE SetTop([Top EXCEPT !.timeout = 0, !.pc = "wait"])  BY <2>3 DEF Timeouts
  <2> QED  BY <2>2, <2>3 DEF try_poll_mode
<1> DEFINE f == [Top EXCEPT !.timeout = tm, !.pc = "wait"]
<1>3. Top \in Frame /\ FrameRight(Top)
  BY <1>1, TopIsFrame DEF IInv, TypeOK, FramesRight
<1>4. f \in Frame  BY <1>3, FrameMoved DEF FrameLocations
<1>5. /\ FrameRight(f) /\ f.loop = Top.loop /\ f.bh = Top.bh /\ f.bhflags = Top.bhflags
      /\ f.blocking = Top.blocking /\ f.pc = "wait" /\ f.timeout = tm
  BY <1>1, <1>2, <1>3 DEF FrameRight, Frame
<1>6. frames' # <<>> /\ Top' = f  BY <1>1, <1>2, <1>4, SetTopEffect DEF IInv, TypeOK
<1>7. SetTop(f)  BY <1>2
<1> HIDE DEF f
<1>8. NotifyMeRight'
  BY <1>1, <1>5, <1>6
  DEF IInv, NotifyMeRight, MayBlock, Announced, FrameRight, try_poll_mode, notifyVars
<1>9. SleepRight'
  BY <1>1, <1>2, <1>5, <1>6
  DEF IInv, SleepRight, AsleepSoFar, Woken, Runnable, try_poll_mode, bhVars, notifyVars
<1>10. StraightInPlace' /\ ListTaken'
  BY <1>1, <1>5, <1>6 DEF IInv, StraightInPlace, ListTaken, try_poll_mode, bhVars, coVars
<1> QED
  BY <1>1, <1>4, <1>5, <1>7, <1>8, <1>9, <1>10, TopStep
  DEF try_poll_mode, IInv, TypeOK, notifyVars

-----------------------------------------------------------------------------
(* The beginning and the end of the calls of the loop *)

\* The calls of the loop change, nothing else does, and nothing is at hand.
LEMMA CallsChange ==
  ASSUME IInv, UNCHANGED <<bhVars, notifyVars, op, coVars>>, timer' \in BOOLEAN,
         ~(frames # <<>> /\ Top.pc = "and"), ~MayBlock, straight = <<>>,
         frames' \in Seq(Frame), NestedInCallbacks', FramesRight', HomeRight', FreedOnce',
         ~(frames' # <<>> /\ Top'.pc = "and"), ~MayBlock',
         frames # <<>> => ~(Top.pc = "call" /\ Top.bh = CoBH),
         frames' # <<>> => Top'.pc \notin {"slices", "deadline", "wait"},
         frames' # <<>> /\ Top'.pc = "try_poll" => Top'.timeout = 0
  PROVE  IInv'
<1>1. TypeOK'  BY DEF IInv, TypeOK, bhVars, notifyVars, coVars
<1>2. OpsRight' /\ FlagsRight'  BY DEF IInv, OpsRight, FlagsRight, bhVars
<1>3. NotifyMeRight'  BY DEF IInv, NotifyMeRight, notifyVars
<1>4. InHand' = InHand  BY DEF InHand
<1>5. QueuedOnce' /\ QueuedIfPending'  BY <1>4, QueuesSame DEF bhVars
<1>6. SleepRight'  BY DEF SleepRight, AsleepSoFar
<1>7. CoroutinesOnce'  BY CoroutinesSame
<1>8. StraightInPlace' /\ ListTaken'
  BY DEF IInv, StraightInPlace, ListTaken, bhVars, coVars
<1> QED  BY <1>1, <1>2, <1>3, <1>5, <1>6, <1>7, <1>8 DEF IInv

\* What a new call of the loop starts with.
LEMMA NewFrameRight ==
  ASSUME NEW l \in {"poll", "gsource"}, NEW b \in BOOLEAN, l = "gsource" => b
  PROVE  /\ NewFrame(l, b) \in Frame /\ FrameRight(NewFrame(l, b))
         /\ NewFrame(l, b).loop = l /\ NewFrame(l, b).bhflags = {}
         /\ NewFrame(l, b).pc \in {"me", "try_poll"}
         /\ NewFrame(l, b).pc = "try_poll" => ~NewFrame(l, b).blocking /\ NewFrame(l, b).timeout = 0
BY DEF NewFrame, Frame, FrameRight, FrameLocations, Timeouts

\* A call of aio_poll, from the loop of the thread or nested in a callback.
LEMMA Step_aio_poll == ASSUME IInv, NEW b \in BOOLEAN, aio_poll(b) PROVE IInv'
<1> DEFINE f == NewFrame("poll", b)
<1>1. /\ op[Home] = NoOp
      /\ frames = <<>> \/ (Top.pc = "call" /\ Top.bh # CoBH)
      /\ frames' = Append(frames, f) /\ UNCHANGED <<bhVars, notifyVars, timer, op, coVars>>
  BY DEF aio_poll, Free, InCallback, At
<1>2. /\ f \in Frame /\ FrameRight(f) /\ f.loop = "poll" /\ f.bhflags = {}
      /\ f.pc \in {"me", "try_poll"} /\ (f.pc = "try_poll" => ~f.blocking /\ f.timeout = 0)
  BY NewFrameRight
<1> HIDE DEF f
<1>3. frames \in Seq(Frame) /\ Len(frames) \in Nat /\ DOMAIN frames = 1..Len(frames)
  BY LenProperties DEF IInv, TypeOK
<1>4. /\ frames' \in Seq(Frame) /\ Len(frames') = Len(frames) + 1 /\ frames' # <<>>
      /\ DOMAIN frames' = 1..(Len(frames) + 1)
      /\ \A i \in 1..Len(frames) : frames'[i] = frames[i]
      /\ frames'[Len(frames) + 1] = f /\ Top' = f
  <2>1. /\ frames' \in Seq(Frame) /\ Len(frames') = Len(frames) + 1
        /\ \A i \in 1..Len(frames) : frames'[i] = frames[i]
        /\ frames'[Len(frames) + 1] = f
    BY <1>1, <1>2, <1>3, AppendProperties
  <2> QED  BY <1>3, <2>1, LenProperties, EmptySeq DEF Top
<1>5. NestedInCallbacks'
  <2> SUFFICES ASSUME NEW i \in 1..Len(frames)
               PROVE  frames[i].pc = "call" /\ frames[i].bh # CoBH
    BY <1>3, <1>4 DEF NestedInCallbacks
  <2>1. CASE i = Len(frames)
    <3>1. frames # <<>> /\ Top = frames[i]  BY <1>3, <2>1, EmptySeq DEF Top
    <3> QED  BY <1>1, <3>1
  <2>2. CASE i # Len(frames)  BY <1>3, <2>2 DEF IInv, NestedInCallbacks
  <2> QED  BY <2>1, <2>2
<1>6. FramesRight'
  <2>1. ASSUME NEW i \in 1..Len(frames)
        PROVE  FrameRight(frames[i]) /\ (frames[i].loop = "gsource" => i = 1)
    BY <1>3 DEF IInv, FramesRight
  <2>2. ASSUME NEW i \in DOMAIN frames'
        PROVE  FrameRight(frames'[i]) /\ (frames'[i].loop = "gsource" => i = 1)
    BY <1>2, <1>3, <1>4, <2>1
  <2> QED  BY <2>2 DEF FramesRight, FrameRight
<1>7. FreedOnce'
  <2>1. ASSUME NEW i \in DOMAIN frames', frames'[i].bhflags # {}
        PROVE  i \in DOMAIN frames /\ frames'[i] = frames[i]
    BY <1>2, <1>3, <1>4, <2>1
  <2>2. UNCHANGED <<flags, alive>>  BY <1>1 DEF bhVars
  <2> QED  BY <2>1, <2>2 DEF IInv, FreedOnce, ToFree
<1>8. ~(frames # <<>> /\ Top.pc = "and") /\ ~MayBlock /\ straight = <<>>
  BY <1>1 DEF MayBlock, Announced, IInv, StraightInPlace
<1>9. ~(Top'.pc = "and") /\ ~MayBlock'  BY <1>2, <1>4 DEF MayBlock, Announced
<1>10. HomeRight'  BY <1>1 DEF HomeRight
<1>11. timer' \in BOOLEAN  BY <1>1 DEF IInv, TypeOK
<1> QED  BY <1>1, <1>2, <1>4, <1>5, <1>6, <1>7, <1>8, <1>9, <1>10, <1>11, CallsChange

\* An iteration of the glib main loop.
LEMMA Step_GlibIteration == ASSUME IInv, GlibIteration PROVE IInv'
<1> DEFINE f == NewFrame("gsource", TRUE)
<1>1. /\ op[Home] = NoOp /\ frames = <<>> /\ frames' = <<f>>
      /\ UNCHANGED <<bhVars, notifyVars, timer, op, coVars>>
  BY DEF GlibIteration
<1>2. /\ f \in Frame /\ FrameRight(f) /\ f.bhflags = {}
      /\ f.pc \in {"me", "try_poll"} /\ (f.pc = "try_poll" => ~f.blocking /\ f.timeout = 0)
  BY NewFrameRight
<1> HIDE DEF f
<1>3. /\ frames' \in Seq(Frame) /\ Len(frames') = 1 /\ DOMAIN frames' = {1}
      /\ frames'[1] = f /\ Top' = f /\ frames' # <<>>
  BY <1>1, <1>2 DEF Top
<1>4. NestedInCallbacks'  BY <1>3 DEF NestedInCallbacks
<1>5. FramesRight'  BY <1>2, <1>3 DEF FramesRight, FrameRight
<1>6. FreedOnce'  BY <1>2, <1>3 DEF FreedOnce, ToFree
<1>7. ~MayBlock /\ straight = <<>>  BY <1>1 DEF MayBlock, IInv, StraightInPlace
<1>8. ~(Top'.pc = "and") /\ ~MayBlock'  BY <1>2, <1>3 DEF MayBlock, Announced
<1>9. HomeRight'  BY <1>1 DEF HomeRight
<1>10. timer' \in BOOLEAN  BY <1>1 DEF IInv, TypeOK
<1> QED  BY <1>1, <1>2, <1>3, <1>4, <1>5, <1>6, <1>7, <1>8, <1>9, <1>10, CallsChange

\* aio_ctx_check dispatches, or the iteration ends.
LEMMA Step_aio_ctx_check == ASSUME IInv, aio_ctx_check PROVE IInv'
<1> DEFINE f == [Top EXCEPT !.pc = "move", !.ready = FALSE]
<1>1. /\ frames # <<>> /\ Top.pc = "check" /\ op[Home] = NoOp
      /\ SetTop(f) \/ frames' = <<>>
      /\ UNCHANGED <<bhVars, notifyVars, timer, op, coVars>>
  BY DEF aio_ctx_check, At
<1>2. Top \in Frame /\ FrameRight(Top)
  BY <1>1, TopIsFrame DEF IInv, TypeOK, FramesRight
<1>3. f \in Frame  BY <1>2, FrameMoved DEF FrameLocations, Timeouts
<1>4. /\ FrameRight(f) /\ f.loop = Top.loop /\ f.bh = Top.bh /\ f.bhflags = Top.bhflags
      /\ f.blocking = Top.blocking /\ f.pc = "move"
  BY <1>1, <1>2 DEF FrameRight, Frame
<1>5. ~MayBlock /\ straight = <<>>  BY <1>1 DEF MayBlock, Announced, IInv, StraightInPlace
<1> HIDE DEF f
<1>6. CASE SetTop(f)
  <2>1. frames' # <<>> /\ Top' = f  BY <1>1, <1>3, <1>6, SetTopEffect DEF IInv, TypeOK
  <2>2. NotifyMeRight'
    BY <1>1, <1>4, <1>5, <2>1 DEF IInv, NotifyMeRight, MayBlock, Announced, notifyVars
  <2>3. SleepRight'  BY <1>4, <2>1 DEF SleepRight, AsleepSoFar
  <2>4. StraightInPlace' /\ ListTaken'
    BY <1>1, <1>4, <2>1 DEF IInv, StraightInPlace, ListTaken, bhVars, coVars
  <2> QED
    BY <1>1, <1>3, <1>4, <1>6, <2>2, <2>3, <2>4, TopStep DEF IInv, TypeOK, notifyVars
<1>7. CASE frames' = <<>>
  <2>1. frames' \in Seq(Frame) /\ DOMAIN frames' = {}  BY <1>7
  <2>2. NestedInCallbacks' /\ FramesRight' /\ FreedOnce' /\ HomeRight' /\ ~MayBlock'
    BY <1>7, <2>1 DEF NestedInCallbacks, FramesRight, FreedOnce, HomeRight, MayBlock
  <2>3. timer' \in BOOLEAN  BY <1>1 DEF IInv, TypeOK
  <2> QED  BY <1>1, <1>5, <1>7, <2>1, <2>2, <2>3, CallsChange
<1> QED  BY <1>1, <1>6, <1>7

\* The slices are used up, and the call of the loop returns to its caller.
LEMMA Step_EndOfLoop == ASSUME IInv, EndOfLoop PROVE IInv'
<1>1. /\ frames # <<>> /\ Top.pc = "loop" /\ op[Home] = NoOp /\ timer' = FALSE
      /\ frames' = Front(frames) /\ UNCHANGED <<bhVars, notifyVars, op, coVars>>
  BY DEF EndOfLoop, At
<1> DEFINE m == Len(frames) - 1
<1>2. /\ frames \in Seq(Frame) /\ Len(frames) \in Nat \ {0} /\ m \in Nat
      /\ DOMAIN frames = 1..Len(frames)
  BY <1>1, LenProperties, EmptySeq DEF IInv, TypeOK
<1>3. /\ frames' \in Seq(Frame) /\ Len(frames') = m
      /\ \A i \in 1..m : frames'[i] = frames[i]
  BY <1>1, <1>2, SubSeqProperties DEF Front
<1>4. DOMAIN frames' = 1..m  BY <1>3, LenProperties
<1>5. \A i \in 1..m : i \in DOMAIN frames /\ i # Len(frames)
  <2>1. m \in Nat /\ Len(frames) = m + 1 /\ DOMAIN frames = 1..Len(frames)  BY <1>2
  <2> HIDE DEF m
  <2> QED  BY <2>1
<1> HIDE DEF m
<1>6. \A i \in 1..m : frames[i].pc = "call" /\ frames[i].bh # CoBH
  BY <1>5 DEF IInv, NestedInCallbacks
<1>7. ASSUME frames' # <<>> PROVE Top'.pc = "call" /\ Top'.bh # CoBH
  <2>1. m \in 1..m  BY <1>2, <1>3, <1>7, EmptySeq
  <2> QED  BY <1>3, <1>6, <2>1 DEF Top
<1>8. NestedInCallbacks'  BY <1>3, <1>4, <1>6 DEF NestedInCallbacks
<1>9. FramesRight'
  <2>1. ASSUME NEW i \in 1..m
        PROVE  FrameRight(frames'[i]) /\ (frames'[i].loop = "gsource" => i = 1)
    BY <1>3, <1>5 DEF IInv, FramesRight
  <2> QED  BY <1>4, <2>1 DEF FramesRight, FrameRight
<1>10. FreedOnce'
  <2>1. UNCHANGED <<flags, alive>>  BY <1>1 DEF bhVars
  <2> QED  BY <1>3, <1>4, <1>5, <2>1 DEF IInv, FreedOnce, ToFree
<1>11. ~MayBlock /\ straight = <<>> /\ HomeRight' /\ ~MayBlock'
  BY <1>1, <1>7 DEF MayBlock, Announced, IInv, StraightInPlace, HomeRight
<1> QED  BY <1>1, <1>3, <1>7, <1>8, <1>9, <1>10, <1>11, CallsChange

-----------------------------------------------------------------------------
(* The slices *)

\* The elements of a list of lists.
Elements(s) == UNION {ToSet(s[i]) : i \in DOMAIN s}

\* Adding a list at the end.
LEMMA SlicesAppend ==
  ASSUME NEW T, NEW s \in Seq(Seq(T)), NEW q \in Seq(T)
  PROVE  /\ Append(s, q) \in Seq(Seq(T))
         /\ Elements(Append(s, q)) = Elements(s) \cup ToSet(q)
         /\ SlicesInjective(s) /\ IsInjective(q) /\ Elements(s) \cap ToSet(q) = {} =>
              SlicesInjective(Append(s, q))
<1> DEFINE r == Append(s, q)
           n == Len(s)
<1>1. /\ r \in Seq(Seq(T)) /\ Len(r) = n + 1
      /\ (\A i \in 1..n : r[i] = s[i]) /\ r[n + 1] = q
  BY AppendProperties
<1>2. n \in Nat /\ DOMAIN s = 1..n /\ DOMAIN r = 1..(n + 1)  BY <1>1, LenProperties
<1> HIDE DEF r, n
<1>3. Elements(r) = Elements(s) \cup ToSet(q)
  <2>1. \A i \in 1..(n + 1) : i \in 1..n \/ i = n + 1  BY <1>2
  <2>2. n + 1 \in 1..(n + 1) /\ \A i \in 1..n : i \in 1..(n + 1)  BY <1>2
  <2> QED  BY <1>1, <1>2, <2>1, <2>2 DEF Elements
<1>4. ASSUME SlicesInjective(s), IsInjective(q), Elements(s) \cap ToSet(q) = {}
      PROVE  SlicesInjective(r)
  <2> SUFFICES ASSUME NEW i \in 1..(n + 1), NEW k \in 1..(n + 1),
                      NEW j \in DOMAIN r[i], NEW l \in DOMAIN r[k], r[i][j] = r[k][l]
               PROVE  i = k /\ j = l
    BY <1>2 DEF SlicesInjective
  <2>1. (i \in 1..n \/ i = n + 1) /\ (k \in 1..n \/ k = n + 1)  BY <1>2
  <2>2. CASE i \in 1..n /\ k \in 1..n
    <3>1. r[i] = s[i] /\ r[k] = s[k] /\ i \in DOMAIN s /\ k \in DOMAIN s
      BY <1>1, <1>2, <2>2
    <3>2. j \in DOMAIN s[i] /\ l \in DOMAIN s[k] /\ s[i][j] = s[k][l]  BY <3>1
    <3> QED  BY <1>4, <3>1, <3>2 DEF SlicesInjective
  <2>3. CASE i = n + 1 /\ k = n + 1  BY <1>1, <1>4, <2>3 DEF IsInjective
  <2>4. CASE i \in 1..n /\ k = n + 1
    <3>1. r[i][j] \in Elements(s)  BY <1>1, <1>2, <2>4 DEF Elements, ToSet
    <3>2. r[k][l] \in ToSet(q)  BY <1>1, <2>4 DEF ToSet
    <3> QED  BY <1>4, <3>1, <3>2
  <2>5. CASE i = n + 1 /\ k \in 1..n
    <3>1. r[k][l] \in Elements(s)  BY <1>1, <1>2, <2>5 DEF Elements, ToSet
    <3>2. r[i][j] \in ToSet(q)  BY <1>1, <2>5 DEF ToSet
    <3> QED  BY <1>4, <3>1, <3>2
  <2> QED  BY <2>1, <2>2, <2>3, <2>4, <2>5
<1> QED  BY <1>1, <1>3, <1>4 DEF r

\* Dropping an empty list at the head.
LEMMA SlicesDrop ==
  ASSUME NEW T, NEW s \in Seq(Seq(T)), s # <<>>, Head(s) = <<>>
  PROVE  /\ Tail(s) \in Seq(Seq(T))
         /\ Elements(Tail(s)) = Elements(s)
         /\ SlicesInjective(s) => SlicesInjective(Tail(s))
<1> DEFINE r == Tail(s)
           n == Len(s)
<1>1. /\ r \in Seq(Seq(T)) /\ Len(r) = n - 1 /\ \A i \in 1..Len(r) : r[i] = s[i + 1]
  BY HeadTailProperties
<1>2. n \in Nat \ {0} /\ DOMAIN s = 1..n /\ DOMAIN r = 1..(n - 1)
  BY <1>1, LenProperties, EmptySeq
<1>3. s[1] = <<>>  OBVIOUS
<1> HIDE DEF r, n
<1>4. \A i \in 1..(n - 1) : i + 1 \in 1..n /\ r[i] = s[i + 1]  BY <1>1, <1>2
<1>5. Elements(r) = Elements(s)
  <2>1. ToSet(s[1]) = {}  BY <1>3 DEF ToSet
  <2>2. ASSUME NEW i \in 1..n, i # 1 PROVE i - 1 \in 1..(n - 1) /\ r[i - 1] = s[i]
    <3>1. i - 1 \in 1..(n - 1) /\ (i - 1) + 1 = i  BY <1>2, <2>2
    <3> QED  BY <1>4, <3>1
  <2>3. ASSUME NEW x \in Elements(s) PROVE x \in Elements(r)
    <3>1. PICK i \in 1..n : x \in ToSet(s[i])  BY <1>2, <2>3 DEF Elements
    <3> QED  BY <1>2, <2>1, <2>2, <3>1 DEF Elements
  <2>4. ASSUME NEW x \in Elements(r) PROVE x \in Elements(s)
    BY <1>2, <1>4, <2>4 DEF Elements
  <2> QED  BY <2>3, <2>4
<1>6. ASSUME SlicesInjective(s) PROVE SlicesInjective(r)
  <2> SUFFICES ASSUME NEW i \in 1..(n - 1), NEW k \in 1..(n - 1),
                      NEW j \in DOMAIN r[i], NEW l \in DOMAIN r[k], r[i][j] = r[k][l]
               PROVE  i = k /\ j = l
    BY <1>2 DEF SlicesInjective
  <2>1. /\ r[i] = s[i + 1] /\ r[k] = s[k + 1]
        /\ i + 1 \in DOMAIN s /\ k + 1 \in DOMAIN s
    BY <1>2, <1>4
  <2>2. j \in DOMAIN s[i + 1] /\ l \in DOMAIN s[k + 1] /\ s[i + 1][j] = s[k + 1][l]
    BY <2>1
  <2>3. i + 1 = k + 1 /\ j = l  BY <1>6, <2>1, <2>2 DEF SlicesInjective
  <2> QED  BY <2>3
<1> QED  BY <1>1, <1>5, <1>6 DEF r

\* Taking the first element off the list at the head.
LEMMA SlicesTake ==
  ASSUME NEW T, NEW s \in Seq(Seq(T)), s # <<>>, Head(s) # <<>>, SlicesInjective(s)
  PROVE  /\ <<Tail(Head(s))>> \o Tail(s) \in Seq(Seq(T))
         /\ Head(Head(s)) \in Elements(s) /\ Head(Head(s)) \in T
         /\ SlicesInjective(<<Tail(Head(s))>> \o Tail(s))
         /\ Elements(<<Tail(Head(s))>> \o Tail(s)) = Elements(s) \ {Head(Head(s))}
<1> DEFINE q == Tail(Head(s))
           r == <<q>> \o Tail(s)
           n == Len(s)
           x == Head(Head(s))
<1>1. /\ Tail(s) \in Seq(Seq(T)) /\ Len(Tail(s)) = n - 1
      /\ \A i \in 1..(n - 1) : Tail(s)[i] = s[i + 1]
  BY HeadTailProperties
<1>2. n \in Nat \ {0} /\ DOMAIN s = 1..n  BY LenProperties, EmptySeq
<1>3. Head(s) = s[1] /\ s[1] \in Seq(T) /\ 1 \in 1..n  BY <1>2, HeadTailProperties
<1>4. IsInjective(s[1])  BY <1>2, <1>3 DEF SlicesInjective, IsInjective
<1>5. /\ x \in ToSet(s[1]) /\ x \in T /\ q \in Seq(T)
      /\ IsInjective(q) /\ ToSet(q) = ToSet(s[1]) \ {x}
  BY <1>3, <1>4, QueueTail
<1>6. Len(q) = Len(s[1]) - 1 /\ x = s[1][1] /\ \A j \in 1..Len(q) : q[j] = s[1][j + 1]
  BY <1>3, HeadTailProperties
<1>7. /\ DOMAIN q = 1..Len(q) /\ DOMAIN s[1] = 1..Len(s[1])
      /\ Len(q) \in Nat /\ Len(s[1]) \in Nat
  BY <1>3, <1>5, LenProperties
<1> HIDE DEF q, x
<1>8. /\ r \in Seq(Seq(T)) /\ Len(r) = n
      /\ \A i \in 1..n : r[i] = IF i = 1 THEN q ELSE s[i]
  <2>1. <<q>> \in Seq(Seq(T)) /\ Len(<<q>>) = 1 /\ <<q>>[1] = q  BY <1>5
  <2>2. /\ r \in Seq(Seq(T)) /\ Len(r) = 1 + (n - 1)
        /\ \A i \in 1..(1 + (n - 1)) : r[i] = IF i <= 1 THEN <<q>>[i] ELSE Tail(s)[i - 1]
    BY <1>1, <2>1, ConcatProperties
  <2>3. 1 + (n - 1) = n  BY <1>2
  <2> HIDE DEF r, n
  <2>4. ASSUME NEW i \in 1..n PROVE r[i] = IF i = 1 THEN q ELSE s[i]
    <3>1. CASE i = 1  BY <2>1, <2>2, <2>3, <3>1
    <3>2. CASE i # 1
      <4>1. ~(i <= 1) /\ i - 1 \in 1..(n - 1) /\ (i - 1) + 1 = i  BY <1>2, <3>2
      <4>2. r[i] = Tail(s)[i - 1]  BY <2>2, <2>3, <4>1
      <4>3. Tail(s)[i - 1] = s[(i - 1) + 1]  BY <1>1, <4>1
      <4> QED  BY <3>2, <4>1, <4>2, <4>3
    <3> QED  BY <3>1, <3>2
  <2> QED  BY <2>2, <2>3, <2>4
<1>9. DOMAIN r = 1..n  BY <1>8, LenProperties
<1> HIDE DEF r, n
<1>10. x \in Elements(s)  BY <1>2, <1>3, <1>5 DEF Elements
\* Every element of r is one of s at a place that depends on its place in r.
<1>11. ASSUME NEW i \in 1..n, NEW j \in DOMAIN r[i]
       PROVE  /\ i # 1 => j \in DOMAIN s[i] /\ r[i][j] = s[i][j]
              /\ i = 1 => /\ j + 1 \in DOMAIN s[1] /\ r[i][j] = s[1][j + 1] /\ j \in Nat
                          /\ j + 1 # 1
  <2>1. CASE i # 1  BY <1>8, <2>1
  <2>2. CASE i = 1
    <3>1. j \in 1..Len(q) /\ r[i] = q  BY <1>7, <1>8, <2>2
    <3>2. j + 1 \in 1..Len(s[1]) /\ j \in Nat /\ j + 1 # 1  BY <1>6, <1>7, <3>1
    <3> QED  BY <1>6, <1>7, <2>2, <3>1, <3>2
  <2> QED  BY <2>1, <2>2
<1>12. SlicesInjective(r)
  <2> SUFFICES ASSUME NEW i \in 1..n, NEW k \in 1..n,
                      NEW j \in DOMAIN r[i], NEW l \in DOMAIN r[k], r[i][j] = r[k][l]
               PROVE  i = k /\ j = l
    BY <1>9 DEF SlicesInjective
  <2>1. CASE i # 1 /\ k # 1
    <3>1. j \in DOMAIN s[i] /\ l \in DOMAIN s[k] /\ s[i][j] = s[k][l]  BY <1>11, <2>1
    <3>2. i \in DOMAIN s /\ k \in DOMAIN s  BY <1>2
    <3> QED  BY <3>1, <3>2 DEF SlicesInjective
  <2>2. CASE i = 1 /\ k # 1
    <3>1. j + 1 \in DOMAIN s[1] /\ l \in DOMAIN s[k] /\ s[1][j + 1] = s[k][l]
      BY <1>11, <2>2
    <3> QED  BY <1>2, <1>3, <2>2, <3>1 DEF SlicesInjective
  <2>3. CASE i # 1 /\ k = 1
    <3>1. j \in DOMAIN s[i] /\ l + 1 \in DOMAIN s[1] /\ s[i][j] = s[1][l + 1]
      BY <1>11, <2>3
    <3> QED  BY <1>2, <1>3, <2>3, <3>1 DEF SlicesInjective
  <2>4. CASE i = 1 /\ k = 1
    <3>1. r[i] = q  BY <1>8, <2>4
    <3> QED  BY <1>5, <2>4, <3>1 DEF IsInjective
  <2> QED  BY <2>1, <2>2, <2>3, <2>4
<1>13. Elements(r) = Elements(s) \ {x}
  <2>1. ASSUME NEW y \in Elements(r) PROVE y \in Elements(s) /\ y # x
    <3>1. PICK i \in 1..n : y \in ToSet(r[i])  BY <1>9, <2>1 DEF Elements
    <3>2. CASE i = 1
      <4>1. y \in ToSet(s[1]) \ {x}  BY <1>5, <1>8, <3>1, <3>2
      <4> QED  BY <1>2, <1>3, <4>1 DEF Elements
    <3>3. CASE i # 1
      <4>1. PICK j \in DOMAIN s[i] : s[i][j] = y  BY <1>8, <3>1, <3>3 DEF ToSet
      <4>2. y # s[1][1]
        <5>1. 1 \in DOMAIN s[1]  BY <1>3, <1>7, EmptySeq
        <5> QED  BY <1>2, <1>3, <3>3, <4>1, <5>1 DEF SlicesInjective
      <4> QED  BY <1>2, <1>6, <4>1, <4>2 DEF Elements, ToSet
    <3> QED  BY <3>2, <3>3
  <2>2. ASSUME NEW y \in Elements(s), y # x PROVE y \in Elements(r)
    <3>1. PICK i \in 1..n : y \in ToSet(s[i])  BY <1>2, <2>2 DEF Elements
    <3>2. y \in ToSet(r[i])  BY <1>5, <1>8, <2>2, <3>1
    <3> QED  BY <1>9, <3>1, <3>2 DEF Elements
  <2> QED  BY <1>10, <2>1, <2>2
<1> QED  BY <1>5, <1>8, <1>10, <1>12, <1>13 DEF r, q, x

-----------------------------------------------------------------------------
(* aio_bh_poll *)

\* Where a call of the loop is in aio_bh_poll.
PollLocations == {"move", "loop", "and", "call", "enter", "coroutine", "free"}

\* A step of aio_bh_poll, of which only the queues and the coroutines matter.
LEMMA PollStep ==
  ASSUME IInv, frames # <<>>, op[Home] = NoOp, Top.pc \in PollLocations,
         NEW f \in Frame, SetTop(f), FrameRight(f), f.pc \in PollLocations,
         f.loop = Top.loop, UNCHANGED <<calls, notifyVars, timer, op>>,
         flags' \in [AllBHs -> SUBSET Flags], alive' \subseteq AllBHs,
         bh_list' \in Seq(AllBHs), bh_slices' \in Seq(Seq(AllBHs)),
         scheduled' \subseteq Coroutines, co_list' \in Seq(Coroutines),
         straight' \in Seq(Coroutines),
         FlagsRight', FreedOnce', QueuedOnce', QueuedIfPending', CoroutinesOnce',
         StraightInPlace', ListTaken'
  PROVE  IInv'
<1>1. frames' \in Seq(Frame) /\ frames' # <<>> /\ Top' = f
  BY SetTopEffect DEF IInv, TypeOK
<1>2. TypeOK'  BY <1>1 DEF IInv, TypeOK, notifyVars
<1>3. NestedInCallbacks' /\ FramesRight'  BY SetTopKeeps
<1>4. NotifyMeRight'
  <2>1. ~MayBlock /\ ~MayBlock'  BY <1>1 DEF MayBlock, Announced, PollLocations
  <2> QED  BY <2>1 DEF IInv, NotifyMeRight, notifyVars
<1>5. OpsRight' /\ HomeRight'  BY DEF IInv, OpsRight, HomeRight
<1>6. SleepRight'  BY <1>1 DEF SleepRight, AsleepSoFar, PollLocations
<1> QED  BY <1>2, <1>3, <1>4, <1>5, <1>6 DEF IInv

\* The list becomes the newest slice.
LEMMA Step_MoveToSlice == ASSUME IInv, MoveToSlice PROVE IInv'
<1> DEFINE f == [Top EXCEPT !.pc = "loop"]
<1>1. /\ frames # <<>> /\ Top.pc = "move" /\ op[Home] = NoOp /\ SetTop(f)
      /\ bh_slices' = Append(bh_slices, bh_list) /\ bh_list' = <<>>
      /\ UNCHANGED <<calls, flags, alive, notifyVars, timer, op, coVars>>
  BY DEF MoveToSlice, At, Go
<1>2. Top \in Frame /\ FrameRight(Top)
  BY <1>1, TopIsFrame DEF IInv, TypeOK, FramesRight
<1>3. f \in Frame  BY <1>2, FrameMoved DEF FrameLocations, Timeouts
<1>4. /\ FrameRight(f) /\ f.loop = Top.loop /\ f.bh = Top.bh /\ f.bhflags = Top.bhflags
      /\ f.pc = "loop"
  BY <1>1, <1>2 DEF FrameRight, Frame
<1>5. frames' # <<>> /\ Top' = f  BY <1>1, <1>3, SetTopEffect DEF IInv, TypeOK
<1> HIDE DEF f
<1>6. FreedOnce'  BY <1>1, <1>3, <1>4, SetTopFreedOnce
<1>7. /\ bh_slices' \in Seq(Seq(AllBHs)) /\ SliceBHs' = SliceBHs \cup ToSet(bh_list)
      /\ SlicesInjective(bh_slices')
  <2>1. SliceBHs = Elements(bh_slices) /\ SliceBHs' = Elements(bh_slices')
    BY DEF SliceBHs, Elements
  <2>2. /\ bh_slices \in Seq(Seq(AllBHs)) /\ bh_list \in Seq(AllBHs) /\ IsInjective(bh_list)
        /\ SlicesInjective(bh_slices) /\ Elements(bh_slices) \cap ToSet(bh_list) = {}
    BY <2>1 DEF IInv, TypeOK, QueuedOnce
  <2> QED  BY <1>1, <2>1, <2>2, SlicesAppend
<1>8. bh_list' \in Seq(AllBHs) /\ ToSet(bh_list') = {} /\ IsInjective(bh_list')
  BY <1>1 DEF ToSet, IsInjective
<1>9. InHand = {} /\ InHand' = {}  BY <1>1, <1>4, <1>5 DEF InHand
<1>10. Inserters' = Inserters /\ Inserted' = Inserted  BY <1>1 DEF Inserters, Inserted
<1>11. QueuedOnce'  BY <1>1, <1>7, <1>8, <1>9, <1>10 DEF IInv, QueuedOnce
<1>12. QueuedIfPending'
  BY <1>1, <1>7, <1>8, <1>9, <1>10 DEF IInv, QueuedIfPending
<1>13. CoroutinesOnce'  BY <1>1, CoroutinesSame
<1>14. StraightInPlace' /\ ListTaken' /\ FlagsRight'
  BY <1>1, <1>4, <1>5 DEF IInv, StraightInPlace, ListTaken, FlagsRight, coVars
<1> QED
  BY <1>1, <1>3, <1>4, <1>6, <1>7, <1>8, <1>11, <1>12, <1>13, <1>14, PollStep
  DEF PollLocations, IInv, TypeOK, coVars

\* The next bottom half of the oldest slice is taken, or the slice is empty.
LEMMA Step_RemoveHead == ASSUME IInv, RemoveHead PROVE IInv'
<1>1. /\ frames # <<>> /\ Top.pc = "loop" /\ op[Home] = NoOp /\ bh_slices # <<>>
      /\ UNCHANGED <<calls, flags, alive, bh_list, notifyVars, timer, op, coVars>>
  BY DEF RemoveHead, At
<1>2. Top \in Frame /\ FrameRight(Top) /\ bh_slices \in Seq(Seq(AllBHs))
  BY <1>1, TopIsFrame DEF IInv, TypeOK, FramesRight
<1>3. Inserters' = Inserters /\ Inserted' = Inserted  BY <1>1 DEF Inserters, Inserted
<1>4. InHand = {}  BY <1>1 DEF InHand
<1>5. CASE Head(bh_slices) = <<>>
  <2>1. bh_slices' = Tail(bh_slices) /\ UNCHANGED frames  BY <1>5 DEF RemoveHead
  <2>2. /\ bh_slices' \in Seq(Seq(AllBHs)) /\ SliceBHs' = SliceBHs
        /\ SlicesInjective(bh_slices')
    <3>1. SliceBHs = Elements(bh_slices) /\ SliceBHs' = Elements(bh_slices')
      BY DEF SliceBHs, Elements
    <3>2. SlicesInjective(bh_slices)  BY DEF IInv, QueuedOnce
    <3> QED  BY <1>1, <1>2, <1>5, <2>1, <3>1, <3>2, SlicesDrop
  <2>3. TypeOK' /\ OpsRight' /\ NestedInCallbacks' /\ FramesRight' /\ HomeRight'
    BY <1>1, <2>1, <2>2
    DEF IInv, TypeOK, OpsRight, NestedInCallbacks, FramesRight, HomeRight, Top,
        notifyVars, coVars
  <2>4. NotifyMeRight' /\ FlagsRight' /\ FreedOnce' /\ SleepRight'
    BY <1>1, <2>1
    DEF IInv, NotifyMeRight, MayBlock, Top, FlagsRight, FreedOnce, SleepRight, AsleepSoFar,
        notifyVars
  <2>5. QueuedOnce' /\ QueuedIfPending'
    <3>1. InHand' = InHand  BY <2>1 DEF InHand, Top
    <3> QED  BY <1>1, <1>3, <2>2, <3>1 DEF IInv, QueuedOnce, QueuedIfPending
  <2>6. CoroutinesOnce' /\ StraightInPlace' /\ ListTaken'
    BY <1>1, <2>1, CoroutinesSame DEF IInv, StraightInPlace, ListTaken, Top, coVars
  <2> QED  BY <2>3, <2>4, <2>5, <2>6 DEF IInv
<1>6. CASE Head(bh_slices) # <<>>
  <2> DEFINE x == Head(Head(bh_slices))
             f == [Top EXCEPT !.pc = "and", !.bh = x]
  <2>1. bh_slices' = <<Tail(Head(bh_slices))>> \o Tail(bh_slices) /\ SetTop(f)
    BY <1>6 DEF RemoveHead
  <2>2. /\ bh_slices' \in Seq(Seq(AllBHs)) /\ x \in AllBHs
        /\ x \in SliceBHs /\ SliceBHs' = SliceBHs \ {x} /\ SlicesInjective(bh_slices')
    <3>1. SliceBHs = Elements(bh_slices) /\ SliceBHs' = Elements(bh_slices')
      BY DEF SliceBHs, Elements
    <3>2. SlicesInjective(bh_slices)  BY DEF IInv, QueuedOnce
    <3> QED  BY <1>1, <1>2, <1>6, <2>1, <3>1, <3>2, SlicesTake
  <2> HIDE DEF x
  <2>3. x # NoBH  BY <2>2, NamesAssumption
  <2>4. f \in Frame  BY <1>2, <2>2 DEF Frame, FrameLocations
  <2>5. /\ FrameRight(f) /\ f.loop = Top.loop /\ f.bh = x /\ f.bhflags = {}
        /\ f.pc = "and" /\ Top.bhflags = {}
    BY <1>1, <1>2, <2>3 DEF FrameRight, Frame
  <2>6. /\ frames' # <<>> /\ Top' = f /\ Len(frames') = Len(frames)
        /\ DOMAIN frames' = DOMAIN frames /\ frames'[Len(frames)] = f
        /\ \A i \in DOMAIN frames : i # Len(frames) => frames'[i] = frames[i]
    BY <1>1, <2>1, <2>4, SetTopEffect DEF IInv, TypeOK, Top
  <2> HIDE DEF f
  <2>7. InHand' = {x}  BY <2>5, <2>6 DEF InHand
  <2>8. QueuedOnce'  BY <1>1, <1>3, <1>4, <2>2, <2>7 DEF IInv, QueuedOnce
  <2>9. QueuedIfPending'
    BY <1>1, <1>3, <1>4, <2>2, <2>7 DEF IInv, QueuedIfPending
  <2>10. FreedOnce'
    <3>1. \A i \in DOMAIN frames' : frames'[i].bhflags # {} => frames'[i] = frames[i]
      BY <2>5, <2>6
    <3> QED  BY <1>1, <2>6, <3>1 DEF IInv, FreedOnce, ToFree
  <2>11. CoroutinesOnce' /\ StraightInPlace' /\ ListTaken' /\ FlagsRight'
    BY <1>1, <2>5, <2>6, CoroutinesSame
    DEF IInv, StraightInPlace, ListTaken, FlagsRight, coVars
  <2> QED
    BY <1>1, <2>1, <2>2, <2>4, <2>5, <2>8, <2>9, <2>10, <2>11, PollStep
    DEF PollLocations, IInv, TypeOK, coVars
<1> QED  BY <1>5, <1>6

\* aio_bh_dequeue clears the flags of the bottom half at hand.
LEMMA Step_aio_bh_dequeue == ASSUME IInv, aio_bh_dequeue PROVE IInv'
<1> DEFINE x == Top.bh
           fl == flags[x] \cap {"DELETED", "ONESHOT"}
           f == [Top EXCEPT !.pc = IF Runnable(Top.bh) THEN "call" ELSE "free",
                            !.bhflags = flags[Top.bh] \cap {"DELETED", "ONESHOT"}]
<1>1. /\ frames # <<>> /\ Top.pc = "and" /\ op[Home] = NoOp /\ SetTop(f)
      /\ flags' = [flags EXCEPT ![x] = @ \ {"PENDING", "SCHEDULED", "IDLE"}]
      /\ UNCHANGED <<calls, alive, bh_list, bh_slices, notifyVars, timer, op, coVars>>
  BY DEF aio_bh_dequeue, At
<1>2. Top \in Frame /\ FrameRight(Top) /\ flags \in [AllBHs -> SUBSET Flags]
  BY <1>1, TopIsFrame DEF IInv, TypeOK, FramesRight
<1>3. x \in AllBHs /\ x # NoBH  BY <1>1, <1>2 DEF FrameRight, Frame
<1>4. InHand = {x}  BY <1>1 DEF InHand
<1>5. "PENDING" \in flags[x]  BY <1>4 DEF IInv, QueuedIfPending
<1>6. f \in Frame  BY <1>2, <1>3 DEF Frame, FrameLocations, Flags
<1>7. /\ FrameRight(f) /\ f.loop = Top.loop /\ f.bh = x /\ f.bhflags = fl
      /\ f.pc \in {"call", "free"} /\ (Runnable(x) <=> f.pc = "call")
  BY <1>1, <1>2, <1>3 DEF FrameRight, Frame
<1>8. /\ frames' # <<>> /\ Top' = f /\ Len(frames') = Len(frames)
      /\ DOMAIN frames' = DOMAIN frames /\ frames'[Len(frames)] = f
      /\ \A i \in DOMAIN frames : i # Len(frames) => frames'[i] = frames[i]
  BY <1>1, <1>6, SetTopEffect DEF IInv, TypeOK, Top
<1> HIDE DEF x, f
<1>9. /\ flags' \in [AllBHs -> SUBSET Flags]
      /\ flags'[x] = flags[x] \ {"PENDING", "SCHEDULED", "IDLE"}
      /\ \A b \in AllBHs : b # x => flags'[b] = flags[b]
  BY <1>1, <1>2, <1>3
<1>10. FlagsRight'  BY <1>1, <1>9 DEF IInv, FlagsRight
<1>11. FreedOnce'
  <2>1. \A i \in DOMAIN frames : i # Len(frames) /\ frames[i].bhflags # {} => frames[i].bh # x
    BY <1>5 DEF IInv, FreedOnce, ToFree
  <2>2. ASSUME NEW i \in DOMAIN frames, frames'[i].bhflags # {}
        PROVE  /\ frames'[i].bh \in alive /\ "PENDING" \notin flags'[frames'[i].bh]
               /\ frames'[i].bh \in Oneshots \/ "DELETED" \in flags'[frames'[i].bh]
    <3>1. CASE i = Len(frames)
      <4>1. frames'[i].bh = x /\ fl # {}  BY <1>7, <1>8, <2>2, <3>1
      <4>2. x \in alive  BY <1>3, <1>5 DEF IInv, FlagsRight
      <4>3. x \in Oneshots \/ "DELETED" \in flags[x]  BY <1>3, <4>1 DEF IInv, FlagsRight
      <4> QED  BY <1>9, <4>1, <4>2, <4>3
    <3>2. CASE i # Len(frames)
      <4>1. frames'[i] = frames[i] /\ frames[i].bh # x  BY <1>8, <2>1, <2>2, <3>2
      <4>2. /\ frames[i].bh \in alive /\ "PENDING" \notin flags[frames[i].bh]
            /\ frames[i].bh \in Oneshots \/ "DELETED" \in flags[frames[i].bh]
        BY <2>2, <4>1 DEF IInv, FreedOnce, ToFree
      <4>3. frames[i].bh \in AllBHs  BY <4>2 DEF IInv, TypeOK
      <4> QED  BY <1>9, <4>1, <4>2, <4>3
    <3> QED  BY <3>1, <3>2
  <2>3. ASSUME NEW i \in DOMAIN frames, NEW j \in DOMAIN frames,
               frames'[i].bhflags # {}, frames'[j].bhflags # {},
               frames'[i].bh = frames'[j].bh
        PROVE  i = j
    <3>1. CASE i = Len(frames) \/ j = Len(frames)
      BY <1>7, <1>8, <2>1, <2>3, <3>1
    <3>2. CASE i # Len(frames) /\ j # Len(frames)
      BY <1>8, <2>3, <3>2 DEF IInv, FreedOnce, ToFree
    <3> QED  BY <3>1, <3>2
  <2> QED  BY <1>1, <1>8, <2>2, <2>3 DEF FreedOnce, ToFree
<1>12. InHand' = {}  BY <1>7, <1>8 DEF InHand
<1>13. /\ Inserters' = Inserters /\ Inserted' = Inserted /\ SliceBHs' = SliceBHs
  BY <1>1 DEF Inserters, Inserted, SliceBHs
<1>14. QueuedOnce'  BY <1>1, <1>12, <1>13 DEF IInv, QueuedOnce
<1>15. QueuedIfPending'
  <2>1. {b \in AllBHs : "PENDING" \in flags'[b]} = {b \in AllBHs : "PENDING" \in flags[b]} \ {x}
    BY <1>9
  <2>2. x \notin ToSet(bh_list) \cup SliceBHs \cup Inserted
    BY <1>4 DEF IInv, QueuedOnce
  <2> QED  BY <1>1, <1>4, <1>12, <1>13, <2>1, <2>2 DEF IInv, QueuedIfPending
<1>16. CoroutinesOnce' /\ StraightInPlace'
  BY <1>1, CoroutinesSame DEF IInv, StraightInPlace, coVars
<1>17. ListTaken'
  <2>1. x = CoBH /\ "SCHEDULED" \in flags[CoBH] => Runnable(x)
    BY <1>3, NamesAssumption DEF Runnable, IInv, FlagsRight
  <2>2. x # CoBH => flags'[CoBH] = flags[CoBH]  BY <1>9 DEF AllBHs
  <2> QED  BY <1>1, <1>7, <1>8, <2>1, <2>2 DEF IInv, ListTaken, coVars
<1> QED
  BY <1>1, <1>6, <1>7, <1>9, <1>10, <1>11, <1>14, <1>15, <1>16, <1>17, PollStep
  DEF PollLocations, IInv, TypeOK, coVars

\* A deleted or one-shot bottom half is freed.
LEMMA Step_FreeBH == ASSUME IInv, FreeBH PROVE IInv'
<1> DEFINE x == Top.bh
           f == [Top EXCEPT !.pc = "loop", !.bh = NoBH, !.bhflags = {}]
<1>1. /\ frames # <<>> /\ Top.pc = "free" /\ op[Home] = NoOp /\ SetTop(f)
      /\ alive' = IF Top.bhflags # {} THEN alive \ {x} ELSE alive
      /\ UNCHANGED <<calls, flags, bh_list, bh_slices, notifyVars, timer, op, coVars>>
  BY DEF FreeBH, At
<1>2. Top \in Frame /\ FrameRight(Top) /\ Len(frames) \in DOMAIN frames
      /\ Top = frames[Len(frames)]
  BY <1>1, TopIsFrame DEF IInv, TypeOK, FramesRight
<1>3. f \in Frame  BY <1>2 DEF Frame, FrameLocations
<1>4. /\ FrameRight(f) /\ f.loop = Top.loop /\ f.bhflags = {} /\ f.pc = "loop"
  BY <1>1, <1>2 DEF FrameRight, Frame
<1>5. /\ frames' # <<>> /\ Top' = f /\ Len(frames') = Len(frames)
      /\ DOMAIN frames' = DOMAIN frames /\ frames'[Len(frames)] = f
      /\ \A i \in DOMAIN frames : i # Len(frames) => frames'[i] = frames[i]
  BY <1>1, <1>3, SetTopEffect DEF IInv, TypeOK, Top
<1> HIDE DEF x, f
<1>6. ASSUME Top.bhflags # {}
      PROVE  "PENDING" \notin flags[x] /\ x # CoBH
  <2>1. /\ "PENDING" \notin flags[x] /\ x \in alive
        /\ x \in Oneshots \/ "DELETED" \in flags[x]
    BY <1>2, <1>6 DEF IInv, FreedOnce, ToFree, x
  <2>2. CoBH \notin Oneshots /\ "DELETED" \notin flags[CoBH]
    BY NamesAssumption DEF IInv, FlagsRight, AllBHs
  <2> QED  BY <2>1, <2>2
<1>7. FlagsRight'  BY <1>1, <1>6 DEF IInv, FlagsRight
<1>8. FreedOnce'
  <2>1. ASSUME NEW i \in DOMAIN frames, frames'[i].bhflags # {}
        PROVE  i # Len(frames) /\ frames'[i] = frames[i] /\ frames[i].bh \in alive'
    <3>1. i # Len(frames) /\ frames'[i] = frames[i]  BY <1>4, <1>5, <2>1
    <3>2. frames[i].bh \in alive  BY <2>1, <3>1 DEF IInv, FreedOnce, ToFree
    <3>3. Top.bhflags # {} => frames[i].bh # x
      BY <1>2, <2>1, <3>1 DEF IInv, FreedOnce, ToFree, x
    <3> QED  BY <1>1, <3>1, <3>2, <3>3
  <2> QED  BY <1>1, <1>5, <2>1 DEF IInv, FreedOnce, ToFree
<1>9. InHand' = InHand  BY <1>1, <1>4, <1>5 DEF InHand
<1>10. QueuedOnce' /\ QueuedIfPending'  BY <1>1, <1>9, QueuesSame
<1>11. CoroutinesOnce' /\ StraightInPlace' /\ ListTaken'
  BY <1>1, <1>4, <1>5, CoroutinesSame DEF IInv, StraightInPlace, ListTaken, coVars
<1> QED
  BY <1>1, <1>3, <1>4, <1>7, <1>8, <1>10, <1>11, PollStep
  DEF PollLocations, IInv, TypeOK, coVars

\* co_schedule_bh_cb takes the list of coroutines.
LEMMA Step_CoTakeList == ASSUME IInv, CoTakeList PROVE IInv'
<1> DEFINE f == [Top EXCEPT !.pc = "enter"]
<1>1. /\ frames # <<>> /\ Top.pc = "call" /\ Top.bh = CoBH /\ op[Home] = NoOp /\ SetTop(f)
      /\ co_list' = <<>> /\ straight' = Reverse(co_list)
      /\ UNCHANGED <<bhVars, notifyVars, timer, op, scheduled>>
  BY DEF CoTakeList, At, Go
<1>2. Top \in Frame /\ FrameRight(Top) /\ co_list \in Seq(Coroutines)
  BY <1>1, TopIsFrame DEF IInv, TypeOK, FramesRight
<1>3. f \in Frame  BY <1>2, FrameMoved DEF FrameLocations, Timeouts
<1>4. Top.bhflags = {}
  <2>1. CoBH \notin Oneshots /\ "DELETED" \notin flags[CoBH]
    BY NamesAssumption DEF IInv, FlagsRight, AllBHs
  <2>2. Len(frames) \in DOMAIN frames /\ Top = frames[Len(frames)]
    BY <1>1, TopIsFrame DEF IInv, TypeOK
  <2> QED  BY <1>1, <2>1, <2>2 DEF IInv, FreedOnce, ToFree
<1>5. /\ FrameRight(f) /\ f.loop = Top.loop /\ f.bh = Top.bh /\ f.bhflags = Top.bhflags
      /\ f.pc = "enter"
  BY <1>1, <1>2, <1>4 DEF FrameRight, Frame
<1>6. frames' # <<>> /\ Top' = f  BY <1>1, <1>3, SetTopEffect DEF IInv, TypeOK
<1> HIDE DEF f
<1>7. FreedOnce'  BY <1>1, <1>3, <1>5, SetTopFreedOnce DEF bhVars
<1>8. InHand' = InHand  BY <1>1, <1>5, <1>6 DEF InHand
<1>9. QueuedOnce' /\ QueuedIfPending'  BY <1>1, <1>8, QueuesSame DEF bhVars
<1>10. /\ straight' \in Seq(Coroutines) /\ ToSet(straight') = ToSet(co_list)
       /\ IsInjective(straight')
  BY <1>1, <1>2, QueueReverse DEF IInv, CoroutinesOnce
<1>11. co_list' \in Seq(Coroutines) /\ ToSet(co_list') = {} /\ IsInjective(co_list')
  BY <1>1 DEF ToSet, IsInjective
<1>12. CoroutinesOnce'
  <2>1. CoCallers' = CoCallers /\ CoCalled' = CoCalled  BY <1>1 DEF CoCallers, CoCalled
  <2>2. straight = <<>>  BY <1>1 DEF IInv, StraightInPlace
  <2>3. ToSet(straight) = {}  BY <2>2 DEF ToSet
  <2> QED  BY <1>1, <1>10, <1>11, <2>1, <2>3 DEF IInv, CoroutinesOnce
<1>13. StraightInPlace' /\ ListTaken' /\ FlagsRight'
  BY <1>1, <1>5, <1>6 DEF IInv, StraightInPlace, ListTaken, FlagsRight, bhVars
<1> QED
  BY <1>1, <1>3, <1>5, <1>7, <1>9, <1>10, <1>11, <1>12, <1>13, PollStep
  DEF PollLocations, IInv, TypeOK, bhVars

\* The next coroutine is entered.
LEMMA Step_CoEnter == ASSUME IInv, CoEnter PROVE IInv'
<1> DEFINE loc == IF straight = <<>> THEN "free" ELSE "coroutine"
           f == [Top EXCEPT !.pc = loc]
<1>1. /\ frames # <<>> /\ Top.pc = "enter" /\ op[Home] = NoOp /\ SetTop(f)
      /\ straight = <<>> => UNCHANGED <<scheduled, straight>>
      /\ straight # <<>> => /\ scheduled' = scheduled \ {Head(straight)}
                            /\ straight' = Tail(straight)
      /\ UNCHANGED <<bhVars, notifyVars, timer, op, co_list>>
  BY DEF CoEnter, At, Go
<1>2. Top \in Frame /\ FrameRight(Top) /\ straight \in Seq(Coroutines)
  BY <1>1, TopIsFrame DEF IInv, TypeOK, FramesRight
<1>3. f \in Frame  BY <1>2, FrameMoved DEF FrameLocations, Timeouts
<1>4. /\ FrameRight(f) /\ f.loop = Top.loop /\ f.bh = Top.bh /\ f.bhflags = Top.bhflags
      /\ f.pc = loc
  BY <1>1, <1>2 DEF FrameRight, Frame
<1>5. frames' # <<>> /\ Top' = f  BY <1>1, <1>3, SetTopEffect DEF IInv, TypeOK
<1> HIDE DEF f
<1>6. FreedOnce'  BY <1>1, <1>3, <1>4, SetTopFreedOnce DEF bhVars
<1>7. InHand' = InHand  BY <1>1, <1>4, <1>5 DEF InHand
<1>8. QueuedOnce' /\ QueuedIfPending'  BY <1>1, <1>7, QueuesSame DEF bhVars
<1>9. CoCallers' = CoCallers /\ CoCalled' = CoCalled  BY <1>1 DEF CoCallers, CoCalled
<1>10. CoroutinesOnce' /\ straight' \in Seq(Coroutines) /\ scheduled' \subseteq Coroutines
  <2>1. CASE straight = <<>>
    BY <1>1, <1>2, <1>9, <2>1 DEF IInv, TypeOK, CoroutinesOnce
  <2>2. CASE straight # <<>>
    <3>1. /\ Head(straight) \in ToSet(straight) /\ straight' \in Seq(Coroutines)
          /\ IsInjective(straight') /\ ToSet(straight') = ToSet(straight) \ {Head(straight)}
      <4>1. IsInjective(straight)  BY DEF IInv, CoroutinesOnce
      <4>2. straight' = Tail(straight)  BY <1>1, <2>2
      <4> QED  BY <1>2, <2>2, <4>1, <4>2, QueueTail
    <3> QED  BY <1>1, <1>9, <2>2, <3>1 DEF IInv, TypeOK, CoroutinesOnce
  <2> QED  BY <2>1, <2>2
<1>11. StraightInPlace' /\ ListTaken' /\ FlagsRight'
  BY <1>1, <1>4, <1>5 DEF IInv, StraightInPlace, ListTaken, FlagsRight, bhVars
<1> QED
  BY <1>1, <1>3, <1>4, <1>6, <1>8, <1>10, <1>11, PollStep
  DEF PollLocations, IInv, TypeOK, bhVars

-----------------------------------------------------------------------------
(* The calls that threads make *)

\* A thread that is in a call, or may make one, is not the one that goes to sleep.
LEMMA CallerPlace ==
  ASSUME IInv, NEW t \in Threads, op[t] # NoOp \/ Free(t)
  PROVE  /\ t = Home => \/ frames = <<>>
                        \/ Top.pc = "call" /\ Top.bh # CoBH
                        \/ Top.pc = "coroutine"
         /\ t = Home => ~(\E loc \in {"slices", "deadline", "try_poll", "wait"} : AsleepSoFar(loc))
         /\ t # Home => t \in Others
<1>1. t = Home => \/ frames = <<>>
                  \/ Top.pc = "call" /\ Top.bh # CoBH
                  \/ Top.pc = "coroutine"
  BY DEF IInv, HomeRight, Free, InCallback, At
<1> QED  BY <1>1 DEF AsleepSoFar, Threads

\* What the next place of a thread in its call says of the threads in calls.
OpMoved(t, loc, b, co) ==
  /\ op' \in [Threads -> [pc : OpLocations, bh : AllBHs \cup {NoBH},
                          co : Coroutines \cup {NoBH}]]
  /\ OpsRight' /\ HomeRight'
  /\ op'[t].pc = loc /\ \A u \in Threads : u # t => op'[u] = op[u]
  /\ Inserted' = (Inserted \ {op[t].bh}) \cup ({b} \ {NoBH})
  /\ b \notin Inserted => \A u, v \in Inserters' : op'[u].bh = op'[v].bh => u = v
  /\ CoCalled' = (CoCalled \ {op[t].co}) \cup ({co} \ {NoBH})
  /\ co \notin CoCalled => \A u, v \in CoCallers' : op'[u].co = op'[v].co => u = v

\* A thread moves on in its operation to location loc, with bottom half b and coroutine co.
LEMMA OpEffect ==
  ASSUME IInv, NEW t \in Threads, op[t] # NoOp \/ Free(t), UNCHANGED frames,
         NEW loc \in OpLocations, NEW b \in AllBHs \cup {NoBH},
         NEW co \in Coroutines \cup {NoBH},
         op' = [op EXCEPT ![t] = [pc |-> loc, bh |-> b, co |-> co]],
         loc = "insert" <=> b # NoBH, loc = "co_insert" <=> co # NoBH
  PROVE  OpMoved(t, loc, b, co)
<1>1. /\ op'[t].pc = loc /\ op'[t].bh = b /\ op'[t].co = co
      /\ \A u \in Threads : u # t => op'[u] = op[u]
  BY DEF IInv, TypeOK
<1>2. op' \in [Threads -> [pc : OpLocations, bh : AllBHs \cup {NoBH},
                           co : Coroutines \cup {NoBH}]]
  BY DEF IInv, TypeOK
<1>3. OpsRight'  BY <1>1 DEF IInv, OpsRight
<1>4. HomeRight'
  <2>1. CASE t = Home  BY <2>1, CallerPlace DEF HomeRight, Top
  <2>2. CASE t # Home  BY <1>1, <2>2 DEF IInv, HomeRight, Top, Threads
  <2> QED  BY <2>1, <2>2
<1>5. \A u \in Threads : u \in Inserters' <=> (u \in Inserters /\ u # t) \/ (u = t /\ b # NoBH)
  BY <1>1 DEF Inserters
<1>6. \A u \in Threads : u \in CoCallers' <=> (u \in CoCallers /\ u # t) \/ (u = t /\ co # NoBH)
  BY <1>1 DEF CoCallers
<1>7. /\ \A u \in Inserters : u \in Threads /\ op[u].bh # NoBH
      /\ \A u \in Inserters' : u \in Threads
      /\ t \notin Inserters => op[t].bh = NoBH
      /\ \A u, v \in Inserters : op[u].bh = op[v].bh => u = v
  BY DEF Inserters, IInv, OpsRight, QueuedOnce
<1>8. /\ \A u \in CoCallers : u \in Threads /\ op[u].co # NoBH
      /\ \A u \in CoCallers' : u \in Threads
      /\ t \notin CoCallers => op[t].co = NoBH
      /\ \A u, v \in CoCallers : op[u].co = op[v].co => u = v
  BY DEF CoCallers, IInv, OpsRight, CoroutinesOnce
<1>9. Inserted' = (Inserted \ {op[t].bh}) \cup ({b} \ {NoBH})
  <2>1. ASSUME NEW u \in Inserters'
        PROVE  op'[u].bh \in (Inserted \ {op[t].bh}) \cup ({b} \ {NoBH})
    <3>1. CASE u = t  BY <1>1, <1>5, <3>1
    <3>2. CASE u # t
      <4>1. u \in Inserters /\ op'[u] = op[u]  BY <1>1, <1>5, <1>7, <3>2
      <4>2. op[u].bh # op[t].bh  BY <1>7, <3>2, <4>1
      <4> QED  BY <4>1, <4>2 DEF Inserted
    <3> QED  BY <3>1, <3>2
  <2>2. ASSUME NEW u \in Inserters, op[u].bh # op[t].bh
        PROVE  u \in Inserters' /\ op'[u].bh = op[u].bh
    BY <1>1, <1>5, <1>7, <2>2
  <2>3. b # NoBH => t \in Inserters' /\ op'[t].bh = b  BY <1>1, <1>5
  <2> QED  BY <2>1, <2>2, <2>3 DEF Inserted
<1>10. CoCalled' = (CoCalled \ {op[t].co}) \cup ({co} \ {NoBH})
  <2>1. ASSUME NEW u \in CoCallers'
        PROVE  op'[u].co \in (CoCalled \ {op[t].co}) \cup ({co} \ {NoBH})
    <3>1. CASE u = t  BY <1>1, <1>6, <3>1
    <3>2. CASE u # t
      <4>1. u \in CoCallers /\ op'[u] = op[u]  BY <1>1, <1>6, <1>8, <3>2
      <4>2. op[u].co # op[t].co  BY <1>8, <3>2, <4>1
      <4> QED  BY <4>1, <4>2 DEF CoCalled
    <3> QED  BY <3>1, <3>2
  <2>2. ASSUME NEW u \in CoCallers, op[u].co # op[t].co
        PROVE  u \in CoCallers' /\ op'[u].co = op[u].co
    BY <1>1, <1>6, <1>8, <2>2
  <2>3. co # NoBH => t \in CoCallers' /\ op'[t].co = co  BY <1>1, <1>6
  <2> QED  BY <2>1, <2>2, <2>3 DEF CoCalled
<1>11. ASSUME b \notin Inserted, NEW u \in Inserters', NEW v \in Inserters',
              op'[u].bh = op'[v].bh
       PROVE  u = v
  <2>1. \A w \in Inserters : op[w].bh # b  BY <1>11 DEF Inserted
  <2> QED  BY <1>1, <1>5, <1>7, <1>11, <2>1
<1>12. ASSUME co \notin CoCalled, NEW u \in CoCallers', NEW v \in CoCallers',
              op'[u].co = op'[v].co
       PROVE  u = v
  <2>1. \A w \in CoCallers : op[w].co # co  BY <1>12 DEF CoCalled
  <2> QED  BY <1>1, <1>6, <1>8, <1>12, <2>1
<1> QED  BY <1>1, <1>2, <1>3, <1>4, <1>9, <1>10, <1>11, <1>12 DEF OpMoved

\* The same for a thread that holds neither a bottom half nor a coroutine.
LEMMA OpFrom ==
  ASSUME IInv, NEW t \in Threads, op[t] # NoOp \/ Free(t), UNCHANGED frames,
         op[t].bh = NoBH, op[t].co = NoBH,
         NEW loc \in OpLocations, NEW b \in AllBHs \cup {NoBH}, SetOp(t, loc, b),
         loc = "insert" <=> b # NoBH, loc # "co_insert"
  PROVE  /\ op' \in [Threads -> [pc : OpLocations, bh : AllBHs \cup {NoBH},
                                 co : Coroutines \cup {NoBH}]]
         /\ OpsRight' /\ HomeRight'
         /\ op'[t].pc = loc /\ \A u \in Threads : u # t => op'[u] = op[u]
         /\ Inserted' = Inserted \cup ({b} \ {NoBH}) /\ CoCalled' = CoCalled
         /\ b \notin Inserted => \A u, v \in Inserters' : op'[u].bh = op'[v].bh => u = v
         /\ \A u, v \in CoCallers' : op'[u].co = op'[v].co => u = v
<1>1. PICK co \in Coroutines \cup {NoBH} : co = NoBH  OBVIOUS
<1>2. /\ op' = [op EXCEPT ![t] = [pc |-> loc, bh |-> b, co |-> co]]
      /\ loc = "co_insert" <=> co # NoBH
  BY <1>1 DEF SetOp
<1>3. OpMoved(t, loc, b, co)  BY <1>2, OpEffect
<1>4. NoBH \notin Inserted /\ NoBH \notin CoCalled
  BY DEF Inserted, Inserters, CoCalled, CoCallers, IInv, OpsRight
<1> QED  BY <1>1, <1>3, <1>4 DEF OpMoved

\* A step of a call, of which only the queues, the flags, the coroutines and
\* the sleep of the home thread matter.
LEMMA CallStep ==
  ASSUME IInv, UNCHANGED <<calls, frames, bh_slices, notify_me, straight>>,
         op' \in [Threads -> [pc : OpLocations, bh : AllBHs \cup {NoBH},
                              co : Coroutines \cup {NoBH}]],
         OpsRight', HomeRight',
         flags' \in [AllBHs -> SUBSET Flags], alive' \subseteq AllBHs,
         bh_list' \in Seq(AllBHs), notified' \in BOOLEAN, notifier' \in BOOLEAN,
         timer' \in BOOLEAN, scheduled' \subseteq Coroutines, co_list' \in Seq(Coroutines),
         FlagsRight', FreedOnce', QueuedOnce', QueuedIfPending', SleepRight',
         CoroutinesOnce', ListTaken'
  PROVE  IInv'
<1>1. TypeOK'  BY DEF IInv, TypeOK
<1>2. NestedInCallbacks' /\ FramesRight'  BY DEF IInv, NestedInCallbacks, FramesRight
<1>3. NotifyMeRight' /\ StraightInPlace'
  BY DEF IInv, NotifyMeRight, MayBlock, Top, StraightInPlace
<1> QED  BY <1>1, <1>2, <1>3 DEF IInv

\* The sleep of the home thread is disturbed by no one who will set the notifier.
LEMMA CallerWakes ==
  ASSUME IInv, NEW t \in Threads, op[t] # NoOp \/ Free(t), UNCHANGED frames,
         t # Home => Woken'
  PROVE  SleepRight'
<1>1. CASE t = Home  BY <1>1, CallerPlace DEF SleepRight, AsleepSoFar, Top
<1>2. CASE t # Home  BY <1>2 DEF SleepRight
<1> QED  BY <1>1, <1>2

\* Nor by one that gives it no new reason to stay awake.
LEMMA SleepSame ==
  ASSUME IInv, UNCHANGED <<frames, timer, bh_list>>, Woken => Woken',
         \A b \in AllBHs : Runnable(b)' => Runnable(b)
  PROVE  SleepRight'
<1>1. ToSet(bh_list) \subseteq AllBHs
  BY ElementOfSeq, LenProperties DEF ToSet, IInv, TypeOK
<1>2. \A loc : AsleepSoFar(loc)' <=> AsleepSoFar(loc)  BY DEF AsleepSoFar, Top
<1> QED  BY <1>1, <1>2 DEF IInv, SleepRight, AsleepSoFar, Top

\* The steps of aio_notify touch no queue.
LEMMA NotifyQueues ==
  ASSUME IInv, NEW t \in Threads, op[t].pc \in {"notify", "set", "flag"},
         NEW loc \in {"none", "set", "flag"},
         SetOp(t, loc, NoBH), UNCHANGED <<bhVars, frames, timer, coVars, notify_me>>,
         notified' \in BOOLEAN, notifier' \in BOOLEAN, SleepRight'
  PROVE  IInv'
<1>1. op[t] # NoOp /\ op[t].bh = NoBH /\ op[t].co = NoBH
  BY DEF NoOp, IInv, OpsRight
<1>2. loc \in OpLocations /\ loc # "insert" /\ loc # "co_insert"  BY DEF OpLocations
<1>3. NoBH \notin Inserted  BY DEF Inserted, Inserters, IInv, OpsRight
<1>4. /\ op' \in [Threads -> [pc : OpLocations, bh : AllBHs \cup {NoBH},
                              co : Coroutines \cup {NoBH}]]
      /\ OpsRight' /\ HomeRight' /\ op'[t].pc = loc
      /\ \A u \in Threads : u # t => op'[u] = op[u]
      /\ Inserted' = Inserted /\ CoCalled' = CoCalled
      /\ \A u, v \in Inserters' : op'[u].bh = op'[v].bh => u = v
      /\ \A u, v \in CoCallers' : op'[u].co = op'[v].co => u = v
  <2>1. /\ op' \in [Threads -> [pc : OpLocations, bh : AllBHs \cup {NoBH},
                                co : Coroutines \cup {NoBH}]]
        /\ OpsRight' /\ HomeRight' /\ op'[t].pc = loc
        /\ \A u \in Threads : u # t => op'[u] = op[u]
        /\ Inserted' = Inserted \cup ({NoBH} \ {NoBH}) /\ CoCalled' = CoCalled
        /\ NoBH \notin Inserted => \A u, v \in Inserters' : op'[u].bh = op'[v].bh => u = v
        /\ \A u, v \in CoCallers' : op'[u].co = op'[v].co => u = v
    BY <1>1, <1>2, OpFrom
  <2> QED  BY <1>3, <2>1
<1>5. InHand' = InHand /\ SliceBHs' = SliceBHs  BY DEF InHand, Top, SliceBHs, bhVars
<1>6. QueuedOnce' /\ QueuedIfPending'
  BY <1>4, <1>5 DEF IInv, QueuedOnce, QueuedIfPending, bhVars
<1>7. CoroutinesOnce'  BY <1>4 DEF IInv, CoroutinesOnce, coVars
<1>8. FlagsRight' /\ FreedOnce'  BY DEF IInv, FlagsRight, FreedOnce, bhVars
<1>9. ListTaken'  BY <1>4 DEF IInv, ListTaken, Top, bhVars, coVars
<1> QED
  BY <1>4, <1>6, <1>7, <1>8, <1>9, CallStep DEF IInv, TypeOK, bhVars, coVars

\* aio_notify reads notify_me.
LEMMA Step_NotifyRead == ASSUME IInv, NEW t \in Threads, NotifyRead(t) PROVE IInv'
<1> DEFINE loc == IF notify_me # 0 THEN "set" ELSE "none"
<1>1. /\ op[t].pc = "notify" /\ SetOp(t, loc, NoBH)
      /\ UNCHANGED <<bhVars, notifyVars, timer, frames, coVars>>
  BY DEF NotifyRead
<1>2. op[t] # NoOp  BY <1>1 DEF NoOp
<1>3. op'[t].pc = loc /\ loc \in {"none", "set", "flag"}  BY <1>1 DEF SetOp, IInv, TypeOK
<1>4. SleepRight'
  <2>1. CASE notify_me # 0
    <3>1. t # Home => Woken'  BY <1>2, <1>3, <2>1, CallerPlace DEF Woken
    <3> QED  BY <1>1, <1>2, <3>1, CallerWakes
  <2>2. CASE notify_me = 0
    <3>1. ~MayBlock  BY <2>2 DEF IInv, NotifyMeRight
    <3>2. ASSUME frames # <<>>, Top.timeout = 2 PROVE Top.blocking
      BY <3>2, TopIsFrame DEF IInv, TypeOK, FramesRight, FrameRight
    <3> QED
      BY <1>1, <3>1, <3>2 DEF SleepRight, AsleepSoFar, MayBlock, Announced, Top
  <2> QED  BY <2>1, <2>2
<1> QED  BY <1>1, <1>3, <1>4, NotifyQueues DEF notifyVars, IInv, TypeOK

\* It sets the notifier.
LEMMA Step_NotifySet == ASSUME IInv, NEW t \in Threads, NotifySet(t) PROVE IInv'
<1>1. /\ op[t].pc = "set" /\ SetOp(t, "flag", NoBH) /\ notifier' = TRUE
      /\ UNCHANGED <<bhVars, notify_me, notified, timer, frames, coVars>>
  BY DEF NotifySet
<1>2. SleepRight'  BY <1>1 DEF SleepRight, Woken
<1> QED  BY <1>1, <1>2, NotifyQueues DEF IInv, TypeOK

\* It says so.
LEMMA Step_NotifyFlag == ASSUME IInv, NEW t \in Threads, NotifyFlag(t) PROVE IInv'
<1>1. /\ op[t].pc = "flag" /\ SetOp(t, "none", NoBH) /\ notified' = TRUE
      /\ UNCHANGED <<bhVars, notify_me, notifier, timer, frames, coVars>>
  BY DEF NotifyFlag
<1>2. \A u \in Threads : u # t => op'[u] = op[u]  BY <1>1 DEF SetOp, IInv, TypeOK
<1>3. Woken => Woken'  BY <1>1, <1>2 DEF Woken, Threads
<1>4. SleepRight'  BY <1>1, <1>3, SleepSame DEF Runnable, bhVars
<1> QED  BY <1>1, <1>4, NotifyQueues DEF IInv, TypeOK

\* aio_bh_enqueue of a bottom half that may be scheduled.
LEMMA EnqueueStep ==
  ASSUME IInv, NEW t \in Threads, op[t].pc = "co_bh" \/ Free(t),
         NEW b \in BHs \cup {CoBH}, Usable(b), NEW new \in SUBSET Flags,
         "ONESHOT" \notin new, "DELETED" \in new => b \in BHs,
         op[t].pc = "co_bh" => b = CoBH /\ "SCHEDULED" \in new,
         aio_bh_enqueue(t, b, new),
         UNCHANGED <<calls, alive, bh_list, bh_slices, notifyVars, timer, frames, coVars>>
  PROVE  IInv'
<1>1. /\ op[t] # NoOp \/ Free(t)
      /\ op[t].bh = NoBH /\ op[t].co = NoBH
  BY DEF NoOp, Free, IInv, OpsRight
<1>2. b \in AllBHs /\ b # NoBH /\ b \in alive /\ "DELETED" \notin flags[b]
  BY NamesAssumption DEF AllBHs, Usable
<1>3. /\ flags' \in [AllBHs -> SUBSET Flags]
      /\ flags'[b] = flags[b] \cup {"PENDING"} \cup new
      /\ \A c \in AllBHs : c # b => flags'[c] = flags[c]
  <2>1. /\ flags \in [AllBHs -> SUBSET Flags]
        /\ flags' = [flags EXCEPT ![b] = flags[b] \cup {"PENDING"} \cup new]
    BY DEF IInv, TypeOK, aio_bh_enqueue
  <2>2. flags[b] \cup {"PENDING"} \cup new \in SUBSET Flags  BY <1>2, <2>1 DEF Flags
  <2> QED  BY <1>2, <2>1, <2>2
<1>4. FlagsRight'  BY <1>2, <1>3 DEF IInv, FlagsRight
<1>5. FreedOnce'
  <2>1. b \notin Oneshots  BY NamesAssumption
  <2>2. ASSUME NEW i \in DOMAIN frames, frames[i].bhflags # {}
        PROVE  frames[i].bh # b /\ frames[i].bh \in AllBHs
    BY <1>2, <2>1, <2>2 DEF IInv, FreedOnce, ToFree, TypeOK
  <2> QED  BY <1>3, <2>2 DEF IInv, FreedOnce, ToFree
<1>6. /\ InHand' = InHand /\ SliceBHs' = SliceBHs
      /\ {c \in AllBHs : "PENDING" \in flags'[c]}
           = {c \in AllBHs : "PENDING" \in flags[c]} \cup {b}
  BY <1>2, <1>3 DEF InHand, Top, SliceBHs
<1>7. PICK loc \in {"notify", "insert"} :
        /\ SetOp(t, loc, IF loc = "insert" THEN b ELSE NoBH)
        /\ loc = "insert" <=> "PENDING" \notin flags[b]
  BY DEF aio_bh_enqueue
<1> DEFINE c == IF loc = "insert" THEN b ELSE NoBH
<1>8. /\ op' \in [Threads -> [pc : OpLocations, bh : AllBHs \cup {NoBH},
                              co : Coroutines \cup {NoBH}]]
      /\ OpsRight' /\ HomeRight' /\ op'[t].pc = loc
      /\ \A u \in Threads : u # t => op'[u] = op[u]
      /\ Inserted' = Inserted \cup ({c} \ {NoBH}) /\ CoCalled' = CoCalled
      /\ c \notin Inserted => \A u, v \in Inserters' : op'[u].bh = op'[v].bh => u = v
      /\ \A u, v \in CoCallers' : op'[u].co = op'[v].co => u = v
  <2>1. /\ loc \in OpLocations /\ loc # "co_insert" /\ c \in AllBHs \cup {NoBH}
        /\ loc = "insert" <=> c # NoBH
    BY <1>2 DEF OpLocations
  <2>2. SetOp(t, loc, c)  BY <1>7
  <2> HIDE DEF c
  <2> QED  BY <1>1, <2>1, <2>2, OpFrom
<1>9. NoBH \notin Inserted  BY DEF Inserted, Inserters, IInv, OpsRight
<1>10. QueuedOnce' /\ QueuedIfPending'
  <2>1. CASE loc = "insert"
    <3>1. b \notin ToSet(bh_list) \cup SliceBHs \cup Inserted \cup InHand
      BY <1>7, <2>1 DEF IInv, QueuedIfPending
    <3>2. Inserted' = Inserted \cup {b}
          /\ \A u, v \in Inserters' : op'[u].bh = op'[v].bh => u = v
      BY <1>2, <1>8, <2>1, <3>1
    <3>3. QueuedOnce'  BY <1>6, <3>1, <3>2 DEF IInv, QueuedOnce
    <3>4. QueuedIfPending'  BY <1>6, <3>2 DEF IInv, QueuedIfPending
    <3> QED  BY <3>3, <3>4
  <2>2. CASE loc = "notify"
    <3>1. Inserted' = Inserted /\ \A u, v \in Inserters' : op'[u].bh = op'[v].bh => u = v
      BY <1>8, <1>9, <2>2
    <3>2. {d \in AllBHs : "PENDING" \in flags'[d]} = {d \in AllBHs : "PENDING" \in flags[d]}
      BY <1>2, <1>6, <1>7, <2>2
    <3>3. QueuedOnce'  BY <1>6, <3>1 DEF IInv, QueuedOnce
    <3>4. QueuedIfPending'  BY <1>6, <3>1, <3>2 DEF IInv, QueuedIfPending
    <3> QED  BY <3>3, <3>4
  <2> QED  BY <2>1, <2>2
<1>11. SleepRight'
  <2>1. t # Home => Woken'  BY <1>1, <1>8, CallerPlace DEF Woken
  <2> QED  BY <1>1, <2>1, CallerWakes
<1>12. CoroutinesOnce'  BY <1>8 DEF IInv, CoroutinesOnce, coVars
<1>13. ListTaken'
  <2>1. "SCHEDULED" \in flags[CoBH] => "SCHEDULED" \in flags'[CoBH]  BY <1>3 DEF AllBHs
  <2>2. op[t].pc = "co_bh" => "SCHEDULED" \in flags'[CoBH]  BY <1>3
  <2>3. ASSUME NEW u \in Threads, op[u].pc = "co_bh"
        PROVE  op'[u].pc = "co_bh" \/ "SCHEDULED" \in flags'[CoBH]
    BY <1>8, <2>2, <2>3
  <2> QED  BY <2>1, <2>3 DEF IInv, ListTaken, Top, coVars
<1> QED
  BY <1>3, <1>4, <1>5, <1>8, <1>10, <1>11, <1>12, <1>13, CallStep
  DEF IInv, TypeOK, notifyVars, coVars

\* qemu_bh_schedule enqueues with BH_SCHEDULED.
LEMMA Step_qemu_bh_schedule ==
  ASSUME IInv, NEW t \in Threads, NEW b \in AllBHs, qemu_bh_schedule(t, b)
  PROVE  IInv'
<1>1. op[t].pc # "co_bh"  BY DEF qemu_bh_schedule, Free, NoOp
<1> QED  BY <1>1, EnqueueStep DEF qemu_bh_schedule, Flags

\* qemu_bh_schedule_idle enqueues with BH_SCHEDULED and BH_IDLE.
LEMMA Step_qemu_bh_schedule_idle ==
  ASSUME IInv, NEW t \in Threads, NEW b \in AllBHs, qemu_bh_schedule_idle(t, b)
  PROVE  IInv'
<1>1. op[t].pc # "co_bh"  BY DEF qemu_bh_schedule_idle, Free, NoOp
<1> QED  BY <1>1, EnqueueStep DEF qemu_bh_schedule_idle, Flags

\* qemu_bh_delete enqueues with BH_DELETED.
LEMMA Step_qemu_bh_delete ==
  ASSUME IInv, NEW t \in Threads, NEW b \in AllBHs, qemu_bh_delete(t, b)
  PROVE  IInv'
<1>1. op[t].pc # "co_bh"  BY DEF qemu_bh_delete, Free, NoOp
<1> QED  BY <1>1, EnqueueStep DEF qemu_bh_delete, Flags

\* The end of aio_co_schedule: the bottom half of the coroutine list is scheduled.
LEMMA Step_CoSchedule == ASSUME IInv, NEW t \in Threads, CoSchedule(t) PROVE IInv'
<1>1. Usable(CoBH)  BY NamesAssumption DEF Usable, IInv, FlagsRight, AllBHs
<1> QED  BY <1>1, EnqueueStep DEF CoSchedule, Flags

\* The bottom half goes to the head of the list.
LEMMA Step_InsertBH == ASSUME IInv, NEW t \in Threads, InsertBH(t) PROVE IInv'
<1>1. /\ op[t].pc = "insert" /\ bh_list' = <<op[t].bh>> \o bh_list
      /\ op' = [op EXCEPT ![t] = [pc |-> "notify", bh |-> NoBH, co |-> NoBH]]
      /\ UNCHANGED <<calls, flags, alive, bh_slices, notifyVars, timer, frames, coVars>>
  BY DEF InsertBH, SetOp
<1>2. PICK b \in AllBHs : b = op[t].bh  BY <1>1 DEF IInv, TypeOK, OpsRight
<1>3. op[t] # NoOp /\ op[t].co = NoBH /\ t \in Inserters /\ b \in Inserted
  BY <1>1, <1>2 DEF NoOp, IInv, OpsRight, Inserters, Inserted
<1>4. OpMoved(t, "notify", NoBH, NoBH)  BY <1>1, <1>3, OpEffect DEF OpLocations
<1>5. NoBH \notin Inserted /\ NoBH \notin CoCalled
  BY DEF Inserted, Inserters, CoCalled, CoCallers, IInv, OpsRight
<1>6. /\ op' \in [Threads -> [pc : OpLocations, bh : AllBHs \cup {NoBH},
                              co : Coroutines \cup {NoBH}]]
      /\ OpsRight' /\ HomeRight' /\ op'[t].pc = "notify"
      /\ \A u \in Threads : u # t => op'[u] = op[u]
      /\ Inserted' = Inserted \ {b} /\ CoCalled' = CoCalled
      /\ \A u, v \in Inserters' : op'[u].bh = op'[v].bh => u = v
      /\ \A u, v \in CoCallers' : op'[u].co = op'[v].co => u = v
  BY <1>2, <1>3, <1>4, <1>5 DEF OpMoved
<1>7. b \notin ToSet(bh_list) /\ IsInjective(bh_list) /\ bh_list \in Seq(AllBHs)
  BY <1>3 DEF IInv, QueuedOnce, TypeOK
<1>8. /\ bh_list' \in Seq(AllBHs) /\ ToSet(bh_list') = ToSet(bh_list) \cup {b}
      /\ IsInjective(bh_list')
  BY <1>1, <1>2, <1>7, QueuePush
<1>9. InHand' = InHand /\ SliceBHs' = SliceBHs  BY <1>1 DEF InHand, Top, SliceBHs
<1>10. QueuedOnce'  BY <1>1, <1>3, <1>6, <1>8, <1>9 DEF IInv, QueuedOnce
<1>11. QueuedIfPending'  BY <1>1, <1>3, <1>6, <1>8, <1>9 DEF IInv, QueuedIfPending
<1>12. SleepRight'
  <2>1. t # Home => Woken'  BY <1>3, <1>6, CallerPlace DEF Woken
  <2> QED  BY <1>1, <1>3, <2>1, CallerWakes
<1>13. CoroutinesOnce'  BY <1>1, <1>6 DEF IInv, CoroutinesOnce, coVars
<1>14. ListTaken'  BY <1>1, <1>6 DEF IInv, ListTaken, Top, coVars
<1>15. FlagsRight' /\ FreedOnce'  BY <1>1 DEF IInv, FlagsRight, FreedOnce
<1> QED
  BY <1>1, <1>6, <1>8, <1>10, <1>11, <1>12, <1>13, <1>14, <1>15, CallStep
  DEF IInv, TypeOK, notifyVars, coVars

\* qemu_bh_cancel only withdraws a reason to stay awake.
LEMMA Step_qemu_bh_cancel ==
  ASSUME IInv, NEW t \in Threads, NEW b \in AllBHs, qemu_bh_cancel(t, b)
  PROVE  IInv'
<1>1. /\ b \in BHs /\ flags' = [flags EXCEPT ![b] = @ \ {"SCHEDULED"}]
      /\ UNCHANGED <<calls, alive, bh_list, bh_slices, notifyVars, timer, op, frames, coVars>>
  BY DEF qemu_bh_cancel
<1>2. /\ flags' \in [AllBHs -> SUBSET Flags]
      /\ flags'[b] = flags[b] \ {"SCHEDULED"}
      /\ \A c \in AllBHs : c # b => flags'[c] = flags[c]
  BY <1>1 DEF IInv, TypeOK
<1>3. FlagsRight'  BY <1>1, <1>2 DEF IInv, FlagsRight
<1>4. FreedOnce'
  <2>1. \A i \in DOMAIN frames : frames[i].bhflags # {} => frames[i].bh \in AllBHs
    BY DEF IInv, FreedOnce, ToFree, TypeOK
  <2> QED  BY <1>1, <1>2, <2>1 DEF IInv, FreedOnce, ToFree
<1>5. /\ InHand' = InHand /\ SliceBHs' = SliceBHs
      /\ Inserters' = Inserters /\ Inserted' = Inserted
  BY <1>1 DEF InHand, Top, SliceBHs, Inserters, Inserted
<1>6. {c \in AllBHs : "PENDING" \in flags'[c]} = {c \in AllBHs : "PENDING" \in flags[c]}
  BY <1>2
<1>7. QueuedOnce'  BY <1>1, <1>5 DEF IInv, QueuedOnce
<1>8. QueuedIfPending'  BY <1>1, <1>5, <1>6 DEF IInv, QueuedIfPending
<1>9. SleepRight'
  <2>1. \A c \in AllBHs : Runnable(c)' => Runnable(c)  BY <1>2 DEF Runnable
  <2>2. Woken => Woken'  BY <1>1 DEF Woken, notifyVars
  <2> QED  BY <1>1, <2>1, <2>2, SleepSame
<1>10. CoroutinesOnce'  BY <1>1, CoroutinesSame
<1>11. ListTaken'
  <2>1. flags'[CoBH] = flags[CoBH]  BY <1>1, <1>2, NamesAssumption DEF AllBHs
  <2> QED  BY <1>1, <2>1 DEF IInv, ListTaken, Top, coVars
<1>12. OpsRight' /\ HomeRight'  BY <1>1 DEF IInv, OpsRight, HomeRight, Top
<1> QED
  BY <1>1, <1>2, <1>3, <1>4, <1>7, <1>8, <1>9, <1>10, <1>11, <1>12, CallStep
  DEF IInv, TypeOK, notifyVars, coVars

\* A bottom half that is not allocated is new to everyone.
LEMMA Unallocated ==
  ASSUME IInv, NEW b \in AllBHs, b \notin alive
  PROVE  /\ "PENDING" \notin flags[b] /\ "SCHEDULED" \notin flags[b]
         /\ b \notin ToSet(bh_list) \cup SliceBHs \cup Inserted \cup InHand
         /\ \A i \in DOMAIN frames : frames[i].bhflags # {} =>
              frames[i].bh # b /\ frames[i].bh \in AllBHs
<1>1. "PENDING" \notin flags[b] /\ "SCHEDULED" \notin flags[b]  BY DEF IInv, FlagsRight
<1>2. b \notin ToSet(bh_list) \cup SliceBHs \cup Inserted \cup InHand
  BY <1>1 DEF IInv, QueuedIfPending
<1>3. \A i \in DOMAIN frames : frames[i].bhflags # {} =>
        frames[i].bh # b /\ frames[i].bh \in AllBHs
  BY DEF IInv, FreedOnce, ToFree, TypeOK
<1> QED  BY <1>1, <1>2, <1>3

\* aio_bh_new.
LEMMA Step_aio_bh_new ==
  ASSUME IInv, NEW t \in Threads, NEW b \in AllBHs, aio_bh_new(t, b)
  PROVE  IInv'
<1>1. /\ b \in BHs /\ b \notin alive /\ alive' = alive \cup {b}
      /\ flags' = [flags EXCEPT ![b] = {}]
      /\ UNCHANGED <<calls, bh_list, bh_slices, notifyVars, timer, op, frames, coVars>>
  BY DEF aio_bh_new
<1>2. /\ flags' \in [AllBHs -> SUBSET Flags] /\ flags'[b] = {}
      /\ \A c \in AllBHs : c # b => flags'[c] = flags[c]
  BY <1>1 DEF IInv, TypeOK
<1>3. FlagsRight'  BY <1>1, <1>2 DEF IInv, FlagsRight
<1>4. FreedOnce'
  <2>1. \A i \in DOMAIN frames : frames[i].bhflags # {} =>
          frames[i].bh # b /\ frames[i].bh \in AllBHs
    BY <1>1, Unallocated
  <2> QED  BY <1>1, <1>2, <2>1 DEF IInv, FreedOnce, ToFree
<1>5. /\ InHand' = InHand /\ SliceBHs' = SliceBHs
      /\ Inserters' = Inserters /\ Inserted' = Inserted
  BY <1>1 DEF InHand, Top, SliceBHs, Inserters, Inserted
<1>6. {c \in AllBHs : "PENDING" \in flags'[c]} = {c \in AllBHs : "PENDING" \in flags[c]}
  BY <1>1, <1>2, Unallocated
<1>7. QueuedOnce'  BY <1>1, <1>5 DEF IInv, QueuedOnce
<1>8. QueuedIfPending'  BY <1>1, <1>5, <1>6 DEF IInv, QueuedIfPending
<1>9. SleepRight'
  <2>1. \A c \in AllBHs : Runnable(c)' => Runnable(c)  BY <1>2 DEF Runnable
  <2>2. Woken => Woken'  BY <1>1 DEF Woken, notifyVars
  <2> QED  BY <1>1, <2>1, <2>2, SleepSame
<1>10. CoroutinesOnce'  BY <1>1, CoroutinesSame
<1>11. ListTaken'
  <2>1. flags'[CoBH] = flags[CoBH]  BY <1>1, <1>2, NamesAssumption DEF AllBHs
  <2> QED  BY <1>1, <2>1 DEF IInv, ListTaken, Top, coVars
<1>12. OpsRight' /\ HomeRight'  BY <1>1 DEF IInv, OpsRight, HomeRight, Top
<1> QED
  BY <1>1, <1>2, <1>3, <1>4, <1>7, <1>8, <1>9, <1>10, <1>11, <1>12, CallStep
  DEF IInv, TypeOK, notifyVars, coVars

\* aio_bh_schedule_oneshot.
LEMMA Step_aio_bh_schedule_oneshot ==
  ASSUME IInv, NEW t \in Threads, NEW b \in AllBHs, aio_bh_schedule_oneshot(t, b)
  PROVE  IInv'
<1>1. /\ Free(t) /\ b \in Oneshots /\ b \notin alive /\ alive' = alive \cup {b}
      /\ flags' = [flags EXCEPT ![b] = {"PENDING", "SCHEDULED", "ONESHOT"}]
      /\ SetOp(t, "insert", b)
      /\ UNCHANGED <<calls, bh_list, bh_slices, notifyVars, timer, frames, coVars>>
  BY DEF aio_bh_schedule_oneshot
<1>2. /\ flags' \in [AllBHs -> SUBSET Flags] /\ flags'[b] = {"PENDING", "SCHEDULED", "ONESHOT"}
      /\ \A c \in AllBHs : c # b => flags'[c] = flags[c]
  BY <1>1 DEF IInv, TypeOK, Flags
<1>3. FlagsRight'  BY <1>1, <1>2 DEF IInv, FlagsRight
<1>4. FreedOnce'
  <2>1. \A i \in DOMAIN frames : frames[i].bhflags # {} =>
          frames[i].bh # b /\ frames[i].bh \in AllBHs
    BY <1>1, Unallocated
  <2> QED  BY <1>1, <1>2, <2>1 DEF IInv, FreedOnce, ToFree
<1>5. /\ op[t].bh = NoBH /\ op[t].co = NoBH /\ b # NoBH
      /\ b \notin ToSet(bh_list) \cup SliceBHs \cup Inserted \cup InHand
  BY <1>1, NamesAssumption, Unallocated DEF Free, NoOp
<1>6. /\ op' \in [Threads -> [pc : OpLocations, bh : AllBHs \cup {NoBH},
                              co : Coroutines \cup {NoBH}]]
      /\ OpsRight' /\ HomeRight' /\ op'[t].pc = "insert"
      /\ \A u \in Threads : u # t => op'[u] = op[u]
      /\ Inserted' = Inserted \cup {b} /\ CoCalled' = CoCalled
      /\ \A u, v \in Inserters' : op'[u].bh = op'[v].bh => u = v
      /\ \A u, v \in CoCallers' : op'[u].co = op'[v].co => u = v
  BY <1>1, <1>5, OpFrom DEF OpLocations
<1>7. /\ InHand' = InHand /\ SliceBHs' = SliceBHs
      /\ {c \in AllBHs : "PENDING" \in flags'[c]}
           = {c \in AllBHs : "PENDING" \in flags[c]} \cup {b}
  BY <1>1, <1>2 DEF InHand, Top, SliceBHs
<1>8. QueuedOnce'  BY <1>1, <1>5, <1>6, <1>7 DEF IInv, QueuedOnce
<1>9. QueuedIfPending'  BY <1>1, <1>6, <1>7 DEF IInv, QueuedIfPending
<1>10. SleepRight'
  <2>1. t # Home => Woken'  BY <1>1, <1>6, CallerPlace DEF Woken
  <2> QED  BY <1>1, <2>1, CallerWakes
<1>11. CoroutinesOnce'  BY <1>1, <1>6 DEF IInv, CoroutinesOnce, coVars
<1>12. ListTaken'
  <2>1. flags'[CoBH] = flags[CoBH]  BY <1>1, <1>2, NamesAssumption DEF AllBHs
  <2>2. op[t].pc # "co_bh"  BY <1>1 DEF Free, NoOp
  <2> QED  BY <1>1, <1>6, <2>1, <2>2 DEF IInv, ListTaken, Top, coVars
<1> QED
  BY <1>1, <1>2, <1>3, <1>4, <1>6, <1>8, <1>9, <1>10, <1>11, <1>12, CallStep
  DEF IInv, TypeOK, notifyVars, coVars

\* A timer that is due is announced like a bottom half.
LEMMA Step_aio_timerlist_notify ==
  ASSUME IInv, NEW t \in Threads, aio_timerlist_notify(t) PROVE IInv'
<1>1. /\ Free(t) /\ timer' = TRUE /\ SetOp(t, "notify", NoBH)
      /\ UNCHANGED <<bhVars, notifyVars, frames, coVars>>
  BY DEF aio_timerlist_notify
<1>2. op[t].bh = NoBH /\ op[t].co = NoBH /\ op[t].pc # "co_bh"  BY <1>1 DEF Free, NoOp
<1>3. NoBH \notin Inserted  BY DEF Inserted, Inserters, IInv, OpsRight
<1>4. /\ op' \in [Threads -> [pc : OpLocations, bh : AllBHs \cup {NoBH},
                              co : Coroutines \cup {NoBH}]]
      /\ OpsRight' /\ HomeRight' /\ op'[t].pc = "notify"
      /\ \A u \in Threads : u # t => op'[u] = op[u]
      /\ Inserted' = Inserted \cup ({NoBH} \ {NoBH}) /\ CoCalled' = CoCalled
      /\ \A u, v \in Inserters' : op'[u].bh = op'[v].bh => u = v
      /\ \A u, v \in CoCallers' : op'[u].co = op'[v].co => u = v
  BY <1>1, <1>2, <1>3, OpFrom DEF OpLocations
<1>5. InHand' = InHand /\ SliceBHs' = SliceBHs /\ Inserted' = Inserted
  BY <1>1, <1>4 DEF InHand, Top, SliceBHs, bhVars
<1>6. QueuedOnce' /\ QueuedIfPending'
  BY <1>1, <1>4, <1>5 DEF IInv, QueuedOnce, QueuedIfPending, bhVars
<1>7. SleepRight'
  <2>1. t # Home => Woken'  BY <1>1, <1>4, CallerPlace DEF Woken
  <2> QED  BY <1>1, <2>1, CallerWakes
<1>8. CoroutinesOnce'  BY <1>1, <1>4 DEF IInv, CoroutinesOnce, coVars
<1>9. ListTaken'  BY <1>1, <1>2, <1>4 DEF IInv, ListTaken, Top, bhVars, coVars
<1>10. FlagsRight' /\ FreedOnce'  BY <1>1 DEF IInv, FlagsRight, FreedOnce, bhVars
<1> QED
  BY <1>1, <1>4, <1>6, <1>7, <1>8, <1>9, <1>10, CallStep
  DEF IInv, TypeOK, bhVars, notifyVars, coVars

\* The steps of aio_co_schedule before it schedules the bottom half.
LEMMA CoQueues ==
  ASSUME IInv, NEW t \in Threads, op[t] # NoOp \/ Free(t), op[t].bh = NoBH,
         op[t].pc \in {"none", "co_insert"},
         NEW loc \in {"co_insert", "co_bh"}, NEW co \in Coroutines \cup {NoBH},
         OpMoved(t, loc, NoBH, co),
         UNCHANGED <<bhVars, notifyVars, timer, frames, straight>>,
         scheduled' \subseteq Coroutines, co_list' \in Seq(Coroutines),
         CoroutinesOnce', ListTaken'
  PROVE  IInv'
<1>1. NoBH \notin Inserted  BY DEF Inserted, Inserters, IInv, OpsRight
<1>2. /\ op' \in [Threads -> [pc : OpLocations, bh : AllBHs \cup {NoBH},
                              co : Coroutines \cup {NoBH}]]
      /\ OpsRight' /\ HomeRight' /\ op'[t].pc = loc
      /\ \A u \in Threads : u # t => op'[u] = op[u]
      /\ Inserted' = Inserted
      /\ \A u, v \in Inserters' : op'[u].bh = op'[v].bh => u = v
  BY <1>1 DEF OpMoved
<1>3. InHand' = InHand /\ SliceBHs' = SliceBHs
  BY DEF InHand, Top, SliceBHs, bhVars
<1>4. QueuedOnce' /\ QueuedIfPending'
  BY <1>2, <1>3 DEF IInv, QueuedOnce, QueuedIfPending, bhVars
<1>5. SleepRight'
  <2>1. Woken => Woken'  BY <1>2 DEF Woken, Threads, notifyVars
  <2> QED  BY <2>1, SleepSame DEF Runnable, bhVars
<1>6. FlagsRight' /\ FreedOnce'  BY DEF IInv, FlagsRight, FreedOnce, bhVars
<1> QED
  BY <1>2, <1>4, <1>5, <1>6, CallStep DEF IInv, TypeOK, bhVars, notifyVars

\* aio_co_schedule sets co->scheduled.
LEMMA Step_aio_co_schedule ==
  ASSUME IInv, NEW t \in Threads, NEW co \in Coroutines, aio_co_schedule(t, co)
  PROVE  IInv'
<1>1. /\ Free(t) /\ co \notin scheduled /\ scheduled' = scheduled \cup {co}
      /\ op' = [op EXCEPT ![t] = [pc |-> "co_insert", bh |-> NoBH, co |-> co]]
      /\ UNCHANGED <<bhVars, notifyVars, timer, frames, co_list, straight>>
  BY DEF aio_co_schedule
<1>2. /\ op[t].bh = NoBH /\ op[t].co = NoBH /\ op[t].pc = "none" /\ co # NoBH
  BY <1>1, NamesAssumption DEF Free, NoOp
<1>3. OpMoved(t, "co_insert", NoBH, co)
  <2>1. PICK b \in AllBHs \cup {NoBH} : b = NoBH  OBVIOUS
  <2>2. "co_insert" \in OpLocations  BY DEF OpLocations
  <2>3. OpMoved(t, "co_insert", b, co)  BY <1>1, <1>2, <2>1, <2>2, OpEffect
  <2> QED  BY <2>1, <2>3
<1>4. NoBH \notin CoCalled /\ co \notin CoCalled
  BY <1>1 DEF CoCalled, CoCallers, IInv, OpsRight, CoroutinesOnce
<1>5. CoCalled' = CoCalled \cup {co} /\ \A u, v \in CoCallers' : op'[u].co = op'[v].co => u = v
  BY <1>2, <1>3, <1>4 DEF OpMoved
<1>6. CoroutinesOnce'  BY <1>1, <1>5 DEF IInv, CoroutinesOnce
<1>7. ListTaken'
  <2>1. \A u \in Threads : op[u].pc = "co_bh" => op'[u].pc = "co_bh"
    BY <1>2, <1>3 DEF OpMoved
  <2> QED  BY <1>1, <2>1 DEF IInv, ListTaken, Top, bhVars
<1> QED  BY <1>1, <1>2, <1>3, <1>6, <1>7, CoQueues DEF IInv, TypeOK

\* The coroutine goes to the head of the list.
LEMMA Step_CoInsert == ASSUME IInv, NEW t \in Threads, CoInsert(t) PROVE IInv'
<1>1. /\ op[t].pc = "co_insert" /\ co_list' = <<op[t].co>> \o co_list
      /\ op' = [op EXCEPT ![t] = [pc |-> "co_bh", bh |-> NoBH, co |-> NoBH]]
      /\ UNCHANGED <<bhVars, notifyVars, timer, frames, scheduled, straight>>
  BY DEF CoInsert, SetOp
<1>2. PICK co \in Coroutines : co = op[t].co  BY <1>1 DEF IInv, TypeOK, OpsRight
<1>3. op[t] # NoOp /\ op[t].bh = NoBH /\ t \in CoCallers /\ co \in CoCalled
  BY <1>1, <1>2 DEF NoOp, IInv, OpsRight, CoCallers, CoCalled
<1>4. OpMoved(t, "co_bh", NoBH, NoBH)  BY <1>1, <1>3, OpEffect DEF OpLocations
<1>5. NoBH \notin CoCalled  BY DEF CoCalled, CoCallers, IInv, OpsRight
<1>6. /\ CoCalled' = CoCalled \ {co} /\ op'[t].pc = "co_bh"
      /\ \A u, v \in CoCallers' : op'[u].co = op'[v].co => u = v
  BY <1>2, <1>4, <1>5 DEF OpMoved
<1>7. co \notin ToSet(co_list) /\ IsInjective(co_list) /\ co_list \in Seq(Coroutines)
  BY <1>3 DEF IInv, CoroutinesOnce, TypeOK
<1>8. /\ co_list' \in Seq(Coroutines) /\ ToSet(co_list') = ToSet(co_list) \cup {co}
      /\ IsInjective(co_list')
  BY <1>1, <1>2, <1>7, QueuePush
<1>9. CoroutinesOnce'  BY <1>1, <1>3, <1>6, <1>8 DEF IInv, CoroutinesOnce
<1>10. ListTaken'  BY <1>6 DEF ListTaken
<1> QED  BY <1>1, <1>3, <1>4, <1>8, <1>9, <1>10, CoQueues DEF IInv, TypeOK

-----------------------------------------------------------------------------
\* aio_context_new leaves nothing queued and nobody in a call.
LEMMA InitIInv == Init => IInv
<1> SUFFICES ASSUME Init PROVE IInv  OBVIOUS
<1> USE DEF Init
<1>1. TypeOK
  <2>1. /\ <<>> \in Seq(AllBHs) /\ <<>> \in Seq(Seq(AllBHs)) /\ <<>> \in Seq(Frame)
        /\ <<>> \in Seq(Coroutines)
    OBVIOUS
  <2>2. NoOp \in [pc : OpLocations, bh : AllBHs \cup {NoBH}, co : Coroutines \cup {NoBH}]
    BY DEF NoOp, OpLocations
  <2>3. 0 \in 0..(2 * MaxDepth + 1)  BY DepthAssumption
  <2> QED  BY <2>1, <2>2, <2>3 DEF TypeOK, AllBHs
<1>2. \A t \in Threads : op[t].pc = "none" /\ op[t].bh = NoBH /\ op[t].co = NoBH
  BY DEF NoOp
<1>3. OpsRight /\ NestedInCallbacks /\ FramesRight /\ HomeRight /\ NotifyMeRight
  BY <1>2 DEF OpsRight, NestedInCallbacks, FramesRight, HomeRight, NotifyMeRight, MayBlock
<1>4. FlagsRight /\ FreedOnce  BY DEF FlagsRight, FreedOnce, AllBHs
<1>5. Inserters = {} /\ Inserted = {} /\ CoCallers = {} /\ CoCalled = {} /\ InHand = {}
  BY <1>2 DEF Inserters, Inserted, CoCallers, CoCalled, InHand
<1>6. ToSet(bh_list) = {} /\ SliceBHs = {} /\ ToSet(co_list) = {} /\ ToSet(straight) = {}
  BY DEF ToSet, SliceBHs
<1>7. QueuedOnce /\ QueuedIfPending
  BY <1>5, <1>6 DEF QueuedOnce, QueuedIfPending, IsInjective, SlicesInjective
<1>8. CoroutinesOnce /\ StraightInPlace /\ ListTaken /\ SleepRight
  BY <1>5, <1>6
  DEF CoroutinesOnce, StraightInPlace, ListTaken, SleepRight, AsleepSoFar, IsInjective
<1> QED  BY <1>1, <1>3, <1>4, <1>7, <1>8 DEF IInv

\* A stuttering step changes nothing that IInv speaks of.
LEMMA StutterIInv == IInv /\ UNCHANGED vars => IInv'
<1> SUFFICES ASSUME IInv, UNCHANGED vars PROVE IInv'  OBVIOUS
<1> USE DEF vars
<1>1. /\ InHand' = InHand /\ SliceBHs' = SliceBHs /\ Inserters' = Inserters
      /\ Inserted' = Inserted /\ CoCallers' = CoCallers /\ CoCalled' = CoCalled
  BY DEF InHand, Top, SliceBHs, Inserters, Inserted, CoCallers, CoCalled
<1>2. TypeOK' /\ OpsRight' /\ NestedInCallbacks' /\ FramesRight' /\ HomeRight'
  BY DEF IInv, TypeOK, OpsRight, NestedInCallbacks, FramesRight, HomeRight, Top
<1>3. NotifyMeRight' /\ FlagsRight' /\ FreedOnce' /\ SleepRight'
  BY DEF IInv, NotifyMeRight, MayBlock, Top, FlagsRight, FreedOnce, SleepRight, AsleepSoFar,
         Woken, Runnable
<1>4. QueuedOnce' /\ QueuedIfPending' /\ CoroutinesOnce'
  BY <1>1 DEF IInv, QueuedOnce, QueuedIfPending, CoroutinesOnce
<1>5. StraightInPlace' /\ ListTaken'  BY DEF IInv, StraightInPlace, ListTaken, Top
<1> QED  BY <1>2, <1>3, <1>4, <1>5 DEF IInv

\* Every step of Next is one of the steps above.
LEMMA NextIInv == IInv /\ [Next]_vars => IInv'
<1> SUFFICES ASSUME IInv, [Next]_vars PROVE IInv'  OBVIOUS
<1>1. CASE UNCHANGED vars  BY <1>1, StutterIInv
<1>2. ASSUME NEW t \in Threads, OpStep(t) PROVE IInv'
  BY <1>2, Step_InsertBH, Step_NotifyRead, Step_NotifySet, Step_NotifyFlag, Step_CoInsert,
     Step_CoSchedule
  DEF OpStep
<1>3. ASSUME NEW t \in Threads, Request(t) PROVE IInv'
  BY <1>3, Step_qemu_bh_schedule, Step_qemu_bh_schedule_idle, Step_qemu_bh_cancel,
     Step_qemu_bh_delete, Step_aio_bh_schedule_oneshot, Step_aio_bh_new,
     Step_aio_co_schedule, Step_aio_timerlist_notify
  DEF Request
<1>4. CASE LoopStep
  BY <1>4, Step_SetNotifyMe, Step_ComputeList, Step_ComputeSlices, Step_ComputeDeadline,
     Step_try_poll_mode, Step_aio_ctx_prepare, Step_WaitNotified, Step_ClearNotifyMe,
     Step_aio_notify_accept, Step_TestAndClear, Step_aio_ctx_check, Step_MoveToSlice,
     Step_RemoveHead, Step_aio_bh_dequeue, Step_CallbackReturns, Step_FreeBH,
     Step_CoTakeList, Step_CoEnter, Step_CoYield, Step_EndOfLoop
  DEF LoopStep
<1>5. CASE OtherFdReady \/ GlibIteration  BY <1>5, Step_OtherFdReady, Step_GlibIteration
<1>6. ASSUME NEW b \in BOOLEAN, aio_poll(b) PROVE IInv'  BY <1>6, Step_aio_poll
<1> QED  BY <1>1, <1>2, <1>3, <1>4, <1>5, <1>6 DEF Next

-----------------------------------------------------------------------------
(* Theorems *)

\* IInv holds in every reachable state.
THEOREM Invariance == Spec => []IInv
BY InitIInv, NextIInv, PTL DEF Spec

\* The home thread never sleeps past a bottom half or a timer that nobody is
\* about to announce (aio_poll and the GSource against aio_notify).
THEOREM NoLostWakeup == Spec => []SleepsOnlyIfNotified
<1>1. ASSUME IInv PROVE SleepsOnlyIfNotified
  BY <1>1 DEF IInv, SleepRight, AsleepSoFar, Woken, SleepsOnlyIfNotified, At
<1> QED  BY <1>1, Invariance, PTL

\* How many members a set has that can have one at most.
LEMMA OneOrNone ==
  ASSUME NEW S, NEW b \in BOOLEAN, \A x, y \in S : x = y, b <=> S # {}
  PROVE  Cardinality(S) = IF b THEN 1 ELSE 0
<1>1. CASE S = {}  BY <1>1, FS_EmptySet
<1>2. CASE S # {}
  <2>1. PICK x \in S : TRUE  BY <1>2
  <2>2. S = {x}  BY <2>1
  <2>3. Cardinality({x}) = 1  BY FS_Singleton
  <2> QED  BY <1>2, <2>2, <2>3
<1> QED  BY <1>1, <1>2

\* A bottom half with BH_PENDING is in one place, one without is in none.
LEMMA PlacesCounted == ASSUME IInv PROVE PendingMeansQueued
<1> SUFFICES ASSUME NEW b \in AllBHs
             PROVE  Occurrences(b) = IF b \in alive /\ "PENDING" \in flags[b] THEN 1 ELSE 0
  BY DEF PendingMeansQueued
<1> DEFINE A == {i \in DOMAIN bh_list : bh_list[i] = b}
           B == {p \in SlicePositions : bh_slices[p[1]][p[2]] = b}
           C == {t \in Threads : op[t].pc = "insert" /\ op[t].bh = b}
           D == {i \in DOMAIN frames : frames[i].pc = "and" /\ frames[i].bh = b}
<1>1. Cardinality(A) = IF b \in ToSet(bh_list) THEN 1 ELSE 0
  <2>1. \A x, y \in A : x = y  BY DEF IInv, QueuedOnce, IsInjective
  <2>2. b \in ToSet(bh_list) <=> A # {}  BY DEF ToSet
  <2> HIDE DEF A
  <2> QED  BY <2>1, <2>2, OneOrNone
<1>2. Cardinality(B) = IF b \in SliceBHs THEN 1 ELSE 0
  <2>1. ASSUME NEW x \in B, NEW y \in B PROVE x = y
    <3>1. PICK i \in DOMAIN bh_slices : x \in {i} \X DOMAIN bh_slices[i]
      BY DEF SlicePositions
    <3>2. PICK k \in DOMAIN bh_slices : y \in {k} \X DOMAIN bh_slices[k]
      BY DEF SlicePositions
    <3>3. /\ x = <<i, x[2]>> /\ x[2] \in DOMAIN bh_slices[i] /\ bh_slices[i][x[2]] = b
          /\ y = <<k, y[2]>> /\ y[2] \in DOMAIN bh_slices[k] /\ bh_slices[k][y[2]] = b
      BY <3>1, <3>2
    <3>4. i = k /\ x[2] = y[2]  BY <3>3 DEF IInv, QueuedOnce, SlicesInjective
    <3> QED  BY <3>3, <3>4
  <2>2. ASSUME b \in SliceBHs PROVE B # {}
    <3>1. PICK i \in DOMAIN bh_slices : b \in ToSet(bh_slices[i])  BY <2>2 DEF SliceBHs
    <3>2. PICK j \in DOMAIN bh_slices[i] : bh_slices[i][j] = b  BY <3>1 DEF ToSet
    <3>3. <<i, j>> \in SlicePositions /\ <<i, j>>[1] = i /\ <<i, j>>[2] = j
      BY DEF SlicePositions
    <3>4. <<i, j>> \in B  BY <3>2, <3>3
    <3> QED  BY <3>4
  <2>3. ASSUME B # {} PROVE b \in SliceBHs
    <3>1. PICK x \in B : TRUE  BY <2>3
    <3>2. PICK i \in DOMAIN bh_slices : x \in {i} \X DOMAIN bh_slices[i]
      BY <3>1 DEF SlicePositions
    <3>3. x[2] \in DOMAIN bh_slices[i] /\ bh_slices[i][x[2]] = b  BY <3>1, <3>2
    <3>4. b \in ToSet(bh_slices[i])  BY <3>3 DEF ToSet
    <3> QED  BY <3>4 DEF SliceBHs
  <2> HIDE DEF B
  <2> QED  BY <2>1, <2>2, <2>3, OneOrNone
<1>3. Cardinality(C) = IF b \in Inserted THEN 1 ELSE 0
  <2>1. \A x, y \in C : x = y  BY DEF IInv, QueuedOnce, Inserters
  <2>2. b \in Inserted <=> C # {}  BY DEF Inserted, Inserters
  <2> HIDE DEF C
  <2> QED  BY <2>1, <2>2, OneOrNone
<1>4. Cardinality(D) = IF b \in InHand THEN 1 ELSE 0
  <2>1. \A x \in D : x = Len(frames) /\ frames # <<>> /\ Top.pc = "and" /\ Top.bh = b
    BY DEF IInv, NestedInCallbacks, Top
  <2>2. frames # <<>> => Len(frames) \in DOMAIN frames /\ Top = frames[Len(frames)]
    BY TopIsFrame DEF IInv, TypeOK
  <2>3. b \in InHand <=> D # {}  BY <2>1, <2>2 DEF InHand
  <2> HIDE DEF D
  <2> QED  BY <2>1, <2>3, OneOrNone
<1>5. Occurrences(b) = Cardinality(A) + Cardinality(B) + Cardinality(C) + Cardinality(D)
  BY DEF Occurrences
<1> HIDE DEF A, B, C, D
<1>6. "PENDING" \in flags[b] => b \in alive  BY DEF IInv, FlagsRight
<1>7. b \in ToSet(bh_list) \/ b \in SliceBHs \/ b \in Inserted \/ b \in InHand
        <=> "PENDING" \in flags[b]
  BY DEF IInv, QueuedIfPending
<1>8. /\ ~(b \in ToSet(bh_list) /\ b \in SliceBHs) /\ ~(b \in ToSet(bh_list) /\ b \in Inserted)
      /\ ~(b \in ToSet(bh_list) /\ b \in InHand) /\ ~(b \in SliceBHs /\ b \in Inserted)
      /\ ~(b \in SliceBHs /\ b \in InHand) /\ ~(b \in Inserted /\ b \in InHand)
  BY DEF IInv, QueuedOnce
<1> QED  BY <1>1, <1>2, <1>3, <1>4, <1>5, <1>6, <1>7, <1>8

\* No bottom half is queued twice, lost or freed twice, whatever threads call
\* aio_bh_enqueue and however deep aio_poll nests in callbacks.
THEOREM ListsCorrect == Spec => []ListsConsistent
<1>1. ASSUME IInv PROVE ListsConsistent
  <2>1. TypeOK /\ PendingMeansQueued  BY <1>1, PlacesCounted DEF IInv
  <2>2. NoDoubleFree  BY <1>1 DEF IInv, FreedOnce, ToFree, NoDoubleFree
  <2> QED  BY <2>1, <2>2 DEF ListsConsistent
<1> QED  BY <1>1, Invariance, PTL

\* A scheduled coroutine is in one place only, is entered once, and while it is on
\* the list the bottom half that enters it is scheduled or about to run.
THEOREM CoroutinesCorrect == Spec => []CoroutineOnce
<1>1. ASSUME IInv, NEW co \in Coroutines
      PROVE  Cardinality({i \in DOMAIN co_list : co_list[i] = co})
               + Cardinality({i \in DOMAIN straight : straight[i] = co})
               + Cardinality({t \in Threads : op[t].co = co})
               = IF co \in scheduled THEN 1 ELSE 0
  <2> DEFINE C == {t \in Threads : op[t].co = co}
  <2>1. Cardinality({i \in DOMAIN co_list : co_list[i] = co})
          = IF co \in ToSet(co_list) THEN 1 ELSE 0
    BY <1>1, QueueCount DEF IInv, TypeOK, CoroutinesOnce
  <2>2. Cardinality({i \in DOMAIN straight : straight[i] = co})
          = IF co \in ToSet(straight) THEN 1 ELSE 0
    BY <1>1, QueueCount DEF IInv, TypeOK, CoroutinesOnce
  <2>3. Cardinality(C) = IF co \in CoCalled THEN 1 ELSE 0
    <3>1. \A t \in C : t \in CoCallers /\ op[t].co = co
      BY <1>1, NamesAssumption DEF IInv, OpsRight, CoCallers
    <3>2. \A t, u \in C : t = u  BY <1>1, <3>1 DEF IInv, CoroutinesOnce
    <3>3. co \in CoCalled <=> C # {}  BY <3>1 DEF CoCalled, CoCallers
    <3> HIDE DEF C
    <3> QED  BY <3>2, <3>3, OneOrNone
  <2> HIDE DEF C
  <2>4. co \in ToSet(co_list) \/ co \in ToSet(straight) \/ co \in CoCalled <=> co \in scheduled
    BY <1>1 DEF IInv, CoroutinesOnce
  <2>5. /\ ~(co \in ToSet(co_list) /\ co \in ToSet(straight))
        /\ ~(co \in ToSet(co_list) /\ co \in CoCalled)
        /\ ~(co \in ToSet(straight) /\ co \in CoCalled)
    BY <1>1 DEF IInv, CoroutinesOnce
  <2> QED  BY <2>1, <2>2, <2>3, <2>4, <2>5 DEF C
<1>2. ASSUME IInv, co_list # <<>>
      PROVE  \/ "SCHEDULED" \in flags[CoBH]
             \/ \E t \in Threads : op[t].pc = "co_bh"
             \/ \E i \in DOMAIN frames : frames[i].pc = "call" /\ frames[i].bh = CoBH
  <2>1. frames # <<>> => Len(frames) \in DOMAIN frames /\ Top = frames[Len(frames)]
    BY <1>2, TopIsFrame DEF IInv, TypeOK
  <2> QED  BY <1>2, <2>1 DEF IInv, ListTaken
<1>3. IInv => CoroutineOnce  BY <1>1, <1>2 DEF CoroutineOnce
<1> QED  BY <1>3, Invariance, PTL
=============================================================================
