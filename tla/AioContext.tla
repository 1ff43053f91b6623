----------------------------- MODULE AioContext -----------------------------
(***************************************************************************)
(* The event loop of one AioContext (util/async.c, aio_poll in             *)
(* util/aio-posix.c): bottom halves that any thread schedules, the flags   *)
(* and lists that hold them, the notifier that wakes the home thread, the  *)
(* home thread's aio_poll and GSource callbacks, nested from bottom        *)
(* halves, and the coroutines scheduled through co_schedule_bh.            *)
(*                                                                         *)
(* A step is one atomic access.  Atomics are taken to be sequentially      *)
(* consistent, which the barriers at the accesses to notify_me provide.    *)
(* File descriptors other than the notifier only end a wait; timers are a  *)
(* flag that says one is due.                                              *)
(***************************************************************************)
EXTENDS Integers, Sequences, FiniteSets, SequencesExt

CONSTANTS
  Home,        \* the home thread
  Others,      \* threads that only schedule
  BHs,         \* bottom halves made by aio_bh_new
  Oneshots,    \* those of aio_bh_schedule_oneshot
  CoBH,        \* ctx->co_schedule_bh
  NoBH,
  Coroutines,
  Scenarios,   \* the sets of calls a program makes on the context
  MaxDepth     \* how deep aio_poll may nest

Threads == {Home} \cup Others
AllBHs == BHs \cup Oneshots \cup {CoBH}

ASSUME NamesAssumption ==
  /\ Home \notin Others
  /\ NoBH \notin AllBHs \cup Coroutines
  /\ BHs \cap Oneshots = {} /\ CoBH \notin BHs \cup Oneshots

\* How the home thread runs the context, and what the threads ask of it.
Calls == {"poll", "gsource", "schedule", "idle", "cancel", "delete", "oneshot",
          "coroutine", "timer"}

ASSUME ScenariosAssumption == Scenarios \subseteq SUBSET Calls
ASSUME DepthAssumption == MaxDepth \in Nat \ {0}

VARIABLES
  calls,       \* the calls of this run; never changes
  flags,       \* QEMUBH::flags
  alive,       \* allocated bottom halves
  bh_list,     \* ctx->bh_list, newest first
  bh_slices,   \* ctx->bh_slice_list, the lists aio_bh_poll calls work on
  notify_me, notified,
  notifier,    \* the event notifier is set
  timer,       \* a timer of ctx->tlg is due
  op,          \* the aio_bh_enqueue or aio_notify a thread is in
  frames,      \* the nested event loop calls of the home thread, outermost first
  scheduled,   \* coroutines with co->scheduled set
  co_list,     \* ctx->scheduled_coroutines, newest first
  straight     \* those co_schedule_bh_cb has yet to enter

vars == <<calls, flags, alive, bh_list, bh_slices, notify_me, notified, notifier, timer,
          op, frames, scheduled, co_list, straight>>
bhVars == <<calls, flags, alive, bh_list, bh_slices>>
notifyVars == <<notify_me, notified, notifier>>
coVars == <<scheduled, co_list, straight>>

Flags == {"PENDING", "SCHEDULED", "DELETED", "ONESHOT", "IDLE"}
OpLocations == {"none", "insert", "notify", "set", "flag", "co_insert", "co_bh"}
FrameLocations ==
  {"me", "list", "slices", "deadline", "try_poll", "wait", "unme", "accept",
   "clear", "check", "move", "loop", "and", "call", "enter", "coroutine", "free"}
\* Timeouts: do not block, block for 10 ms, block for ever.
Timeouts == {0, 1, 2}

NoOp == [pc |-> "none", bh |-> NoBH, co |-> NoBH]
Frame == [pc : FrameLocations, loop : {"poll", "gsource"}, blocking : BOOLEAN,
          timeout : Timeouts, ready : BOOLEAN, bh : AllBHs \cup {NoBH},
          bhflags : SUBSET Flags]

TypeOK ==
  /\ calls \in Scenarios
  /\ flags \in [AllBHs -> SUBSET Flags]
  /\ alive \subseteq AllBHs
  /\ bh_list \in Seq(AllBHs)
  /\ bh_slices \in Seq(Seq(AllBHs))
  /\ notify_me \in 0..(2 * MaxDepth + 1)
  /\ notified \in BOOLEAN /\ notifier \in BOOLEAN /\ timer \in BOOLEAN
  /\ op \in [Threads -> [pc : OpLocations, bh : AllBHs \cup {NoBH},
                         co : Coroutines \cup {NoBH}]]
  /\ frames \in Seq(Frame)
  /\ scheduled \subseteq Coroutines
  /\ co_list \in Seq(Coroutines) /\ straight \in Seq(Coroutines)

\* aio_context_new, and aio_bh_new for every bottom half but the one-shot ones.
Init ==
  /\ calls \in Scenarios
  /\ flags = [b \in AllBHs |-> {}]
  /\ alive = BHs \cup {CoBH}
  /\ bh_list = <<>> /\ bh_slices = <<>>
  /\ notify_me = 0 /\ notified = FALSE /\ notifier = FALSE
  /\ timer = FALSE
  /\ op = [t \in Threads |-> NoOp]
  /\ frames = <<>>
  /\ scheduled = {} /\ co_list = <<>> /\ straight = <<>>

-----------------------------------------------------------------------------
(* Who may call what: another thread whenever it is not in a call, the     *)
(* home thread between two iterations of its loop, in a callback and in a  *)
(* coroutine that it has entered.                                          *)

Top == frames[Len(frames)]
At(loc) == frames # <<>> /\ Top.pc = loc /\ op[Home] = NoOp

\* The home thread is in the callback of a bottom half of the program.
InCallback == At("call") /\ Top.bh # CoBH

Free(t) ==
  /\ op[t] = NoOp
  /\ t = Home => frames = <<>> \/ InCallback \/ At("coroutine")

SetOp(t, loc, b) == op' = [op EXCEPT ![t] = [pc |-> loc, bh |-> b, co |-> NoBH]]

-----------------------------------------------------------------------------
(* Bottom halves *)

\* atomic_fetch_or; a bottom half that is not queued is inserted next.
aio_bh_enqueue(t, b, new_flags) ==
  /\ flags' = [flags EXCEPT ![b] = @ \cup {"PENDING"} \cup new_flags]
  /\ IF "PENDING" \in flags[b] THEN SetOp(t, "notify", NoBH) ELSE SetOp(t, "insert", b)

InsertBH(t) ==
  /\ op[t].pc = "insert"
  /\ bh_list' = <<op[t].bh>> \o bh_list
  /\ SetOp(t, "notify", NoBH)
  /\ UNCHANGED <<calls, flags, alive, bh_slices, notifyVars, timer, frames, coVars>>

\* A bottom half is not touched any more once its deletion has been requested.
Usable(b) == b \in alive /\ "DELETED" \notin flags[b]

qemu_bh_schedule(t, b) ==
  /\ "schedule" \in calls /\ Free(t)
  /\ b \in BHs /\ Usable(b)
  /\ aio_bh_enqueue(t, b, {"SCHEDULED"})
  /\ UNCHANGED <<calls, alive, bh_list, bh_slices, notifyVars, timer, frames, coVars>>

qemu_bh_schedule_idle(t, b) ==
  /\ "idle" \in calls /\ Free(t)
  /\ b \in BHs /\ Usable(b)
  /\ aio_bh_enqueue(t, b, {"SCHEDULED", "IDLE"})
  /\ UNCHANGED <<calls, alive, bh_list, bh_slices, notifyVars, timer, frames, coVars>>

qemu_bh_cancel(t, b) ==
  /\ "cancel" \in calls /\ Free(t)
  /\ b \in BHs /\ Usable(b)
  /\ flags' = [flags EXCEPT ![b] = @ \ {"SCHEDULED"}]
  /\ UNCHANGED <<calls, alive, bh_list, bh_slices, notifyVars, timer, op, frames, coVars>>

qemu_bh_delete(t, b) ==
  /\ "delete" \in calls /\ Free(t)
  /\ b \in BHs /\ Usable(b)
  /\ aio_bh_enqueue(t, b, {"DELETED"})
  /\ UNCHANGED <<calls, alive, bh_list, bh_slices, notifyVars, timer, frames, coVars>>

\* The bottom half gets its flags before anybody else knows of it.
aio_bh_schedule_oneshot(t, b) ==
  /\ "oneshot" \in calls /\ Free(t)
  /\ b \in Oneshots \ alive
  /\ alive' = alive \cup {b}
  /\ flags' = [flags EXCEPT ![b] = {"PENDING", "SCHEDULED", "ONESHOT"}]
  /\ SetOp(t, "insert", b)
  /\ UNCHANGED <<calls, bh_list, bh_slices, notifyVars, timer, frames, coVars>>

aio_bh_new(t, b) ==
  /\ Free(t)
  /\ b \in BHs \ alive
  /\ alive' = alive \cup {b}
  /\ flags' = [flags EXCEPT ![b] = {}]
  /\ UNCHANGED <<calls, bh_list, bh_slices, notifyVars, timer, op, frames, coVars>>

-----------------------------------------------------------------------------
(* aio_notify: read notify_me, set the notifier, then say so *)

MutSkipIfNotified(t) ==
  /\ op[t].pc = "notify"
  /\ SetOp(t, IF notify_me # 0 /\ ~notified THEN "set" ELSE "none", NoBH)
  /\ UNCHANGED <<bhVars, notifyVars, timer, frames, coVars>>

NotifyRead(t) ==
  /\ op[t].pc = "notify"
  /\ SetOp(t, IF notify_me # 0 THEN "set" ELSE "none", NoBH)
  /\ UNCHANGED <<bhVars, notifyVars, timer, frames, coVars>>

NotifySet(t) ==
  /\ op[t].pc = "set"
  /\ notifier' = TRUE
  /\ SetOp(t, "flag", NoBH)
  /\ UNCHANGED <<bhVars, notify_me, notified, timer, frames, coVars>>

NotifyFlag(t) ==
  /\ op[t].pc = "flag"
  /\ notified' = TRUE
  /\ SetOp(t, "none", NoBH)
  /\ UNCHANGED <<bhVars, notify_me, notifier, timer, frames, coVars>>

\* A thread arms a timer that is due and calls aio_timerlist_notify.
aio_timerlist_notify(t) ==
  /\ "timer" \in calls /\ Free(t)
  /\ ~timer
  /\ timer' = TRUE
  /\ SetOp(t, "notify", NoBH)
  /\ UNCHANGED <<bhVars, notifyVars, frames, coVars>>

-----------------------------------------------------------------------------
(* aio_co_schedule *)

\* aio_co_schedule aborts the program when the coroutine is scheduled already:
\* that it is not is the obligation of its callers, and a guard here.
aio_co_schedule(t, co) ==
  /\ "coroutine" \in calls /\ Free(t)
  /\ co \notin scheduled
  /\ scheduled' = scheduled \cup {co}
  /\ op' = [op EXCEPT ![t] = [pc |-> "co_insert", bh |-> NoBH, co |-> co]]
  /\ UNCHANGED <<bhVars, notifyVars, timer, frames, co_list, straight>>

CoInsert(t) ==
  /\ op[t].pc = "co_insert"
  /\ co_list' = <<op[t].co>> \o co_list
  /\ SetOp(t, "co_bh", NoBH)
  /\ UNCHANGED <<bhVars, notifyVars, timer, frames, scheduled, straight>>

CoSchedule(t) ==
  /\ op[t].pc = "co_bh"
  /\ aio_bh_enqueue(t, CoBH, {"SCHEDULED"})
  /\ UNCHANGED <<calls, alive, bh_list, bh_slices, notifyVars, timer, frames, coVars>>

-----------------------------------------------------------------------------
(* The home thread's loop *)

SetTop(f) == frames' = [frames EXCEPT ![Len(frames)] = f]
Go(loc) == SetTop([Top EXCEPT !.pc = loc])

NewFrame(loop, blocking) ==
  [pc |-> IF blocking THEN "me" ELSE "try_poll", loop |-> loop, blocking |-> blocking,
   timeout |-> IF blocking THEN 2 ELSE 0, ready |-> FALSE, bh |-> NoBH, bhflags |-> {}]

\* aio_poll is called by the thread's loop or in a callback, not in a coroutine.
aio_poll(blocking) ==
  /\ Free(Home) /\ ~At("coroutine")
  /\ Len(frames) < MaxDepth
  /\ frames = <<>> => "poll" \in calls
  /\ frames' = Append(frames, NewFrame("poll", blocking))
  /\ UNCHANGED <<bhVars, notifyVars, timer, op, coVars>>

\* An iteration of the glib main loop, up to aio_ctx_prepare.
GlibIteration ==
  /\ "gsource" \in calls
  /\ frames = <<>> /\ op[Home] = NoOp
  /\ frames' = <<NewFrame("gsource", TRUE)>>
  /\ UNCHANGED <<bhVars, notifyVars, timer, op, coVars>>

\* Announce that the thread may block, before looking at the lists.
SetNotifyMe ==
  /\ At("me")
  /\ notify_me' = IF Top.loop = "poll" THEN notify_me + 2
                  ELSE IF notify_me % 2 = 0 THEN notify_me + 1 ELSE notify_me
  /\ Go("list")
  /\ UNCHANGED <<bhVars, notified, notifier, timer, op, coVars>>

Runnable(b) == "SCHEDULED" \in flags[b] /\ "DELETED" \notin flags[b]

aio_compute_bh_timeout(queued, timeout) ==
  LET runnable == {b \in queued : Runnable(b)} IN
    IF \E b \in runnable : "IDLE" \notin flags[b] THEN 0
    ELSE IF runnable # {} THEN 1 ELSE timeout

\* The bottom halves on the slices of the aio_bh_poll calls under way.
SliceBHs == UNION {ToSet(bh_slices[i]) : i \in DOMAIN bh_slices}

\* aio_compute_timeout: the list, the slices of outer aio_bh_poll calls, timers.
ComputeList ==
  /\ At("list")
  /\ LET timeout == aio_compute_bh_timeout(ToSet(bh_list), Top.timeout) IN
       SetTop([Top EXCEPT !.timeout = timeout,
                          !.pc = IF timeout = 0 THEN "try_poll" ELSE "slices"])
  /\ UNCHANGED <<bhVars, notifyVars, timer, op, coVars>>

MutIgnoreSlices ==
  /\ At("slices")
  /\ Go("deadline")
  /\ UNCHANGED <<bhVars, notifyVars, timer, op, coVars>>

ComputeSlices ==
  /\ At("slices")
  /\ LET timeout == aio_compute_bh_timeout(SliceBHs, Top.timeout) IN
       SetTop([Top EXCEPT !.timeout = timeout,
                          !.pc = IF timeout = 0 THEN "try_poll" ELSE "deadline"])
  /\ UNCHANGED <<bhVars, notifyVars, timer, op, coVars>>

ComputeDeadline ==
  /\ At("deadline")
  /\ SetTop([Top EXCEPT !.timeout = IF timer THEN 0 ELSE @, !.pc = "try_poll"])
  /\ UNCHANGED <<bhVars, notifyVars, timer, op, coVars>>

\* With userspace polling, event_notifier_poll may find `notified` set first.
try_poll_mode ==
  /\ At("try_poll")
  /\ Top.loop = "poll"
  /\ \/ Go("wait")
     \/ /\ Top.blocking /\ notified
        /\ SetTop([Top EXCEPT !.timeout = 0, !.pc = "wait"])
  /\ UNCHANGED <<bhVars, notifyVars, timer, op, coVars>>

\* glib skips aio_ctx_check for a source that aio_ctx_prepare found ready.
aio_ctx_prepare ==
  /\ At("try_poll")
  /\ Top.loop = "gsource"
  /\ Go(IF Top.timeout = 0 THEN "move" ELSE "wait")
  /\ UNCHANGED <<bhVars, notifyVars, timer, op, coVars>>

\* The wait ends because the notifier is set, in time, or for another reason.
WaitOver(reason) ==
  /\ At("wait")
  /\ SetTop([Top EXCEPT !.pc = IF Top.blocking THEN "unme" ELSE "move",
                        !.timeout = 0,
                        !.ready = Top.loop = "gsource" /\ reason])

WaitNotified ==
  /\ notifier \/ (frames # <<>> /\ Top.timeout # 2)
  /\ WaitOver(notifier)
  /\ UNCHANGED <<bhVars, notifyVars, timer, op, coVars>>

OtherFdReady ==
  /\ WaitOver(TRUE)
  /\ UNCHANGED <<bhVars, notifyVars, timer, op, coVars>>

ClearNotifyMe ==
  /\ At("unme")
  /\ notify_me' = IF Top.loop = "poll" THEN notify_me - 2
                  ELSE IF notify_me % 2 = 1 THEN notify_me - 1 ELSE notify_me
  /\ Go("accept")
  /\ UNCHANGED <<bhVars, notified, notifier, timer, op, coVars>>

\* After the wait and its notifications are accounted for: aio_ctx_check decides
\* whether to dispatch, aio_poll always goes on.
AfterAccept == IF Top.loop = "gsource" THEN "check" ELSE "move"

aio_notify_accept ==
  /\ At("accept")
  /\ notified' = FALSE
  /\ Go(IF notified THEN "clear" ELSE AfterAccept)
  /\ UNCHANGED <<bhVars, notify_me, notifier, timer, op, coVars>>

TestAndClear ==
  /\ At("clear")
  /\ notifier' = FALSE
  /\ Go(AfterAccept)
  /\ UNCHANGED <<bhVars, notify_me, notified, timer, op, coVars>>

aio_ctx_check ==
  /\ At("check")
  /\ IF \/ Top.ready \/ timer
        \/ \E b \in ToSet(bh_list) \cup SliceBHs : Runnable(b)
       THEN SetTop([Top EXCEPT !.pc = "move", !.ready = FALSE])
       ELSE frames' = <<>>
  /\ UNCHANGED <<bhVars, notifyVars, timer, op, coVars>>

-----------------------------------------------------------------------------
(* aio_bh_poll *)

MoveToSlice ==
  /\ At("move")
  /\ bh_slices' = Append(bh_slices, bh_list)
  /\ bh_list' = <<>>
  /\ Go("loop")
  /\ UNCHANGED <<calls, flags, alive, notifyVars, timer, op, coVars>>

\* Take a bottom half off the oldest slice, which may be an outer call's.
RemoveHead ==
  /\ At("loop")
  /\ bh_slices # <<>>
  /\ LET slice == Head(bh_slices) IN
       IF slice = <<>>
         THEN bh_slices' = Tail(bh_slices) /\ UNCHANGED frames
         ELSE /\ bh_slices' = <<Tail(slice)>> \o Tail(bh_slices)
              /\ SetTop([Top EXCEPT !.pc = "and", !.bh = Head(slice)])
  /\ UNCHANGED <<calls, flags, alive, bh_list, notifyVars, timer, op, coVars>>

MutKeepPending ==
  /\ At("and")
  /\ flags' = [flags EXCEPT ![Top.bh] = @ \ {"SCHEDULED", "IDLE"}]
  /\ SetTop([Top EXCEPT !.pc = IF Runnable(Top.bh) THEN "call" ELSE "free",
                        !.bhflags = flags[Top.bh] \cap {"DELETED", "ONESHOT"}])
  /\ UNCHANGED <<calls, alive, bh_list, bh_slices, notifyVars, timer, op, coVars>>

\* atomic_fetch_and; then call it, or free it if it is deleted.
aio_bh_dequeue ==
  /\ At("and")
  /\ flags' = [flags EXCEPT ![Top.bh] = @ \ {"PENDING", "SCHEDULED", "IDLE"}]
  /\ SetTop([Top EXCEPT !.pc = IF Runnable(Top.bh) THEN "call" ELSE "free",
                        !.bhflags = flags[Top.bh] \cap {"DELETED", "ONESHOT"}])
  /\ UNCHANGED <<calls, alive, bh_list, bh_slices, notifyVars, timer, op, coVars>>

\* A callback returns; what it did was done by the actions above.
CallbackReturns ==
  /\ InCallback
  /\ Go("free")
  /\ UNCHANGED <<bhVars, notifyVars, timer, op, coVars>>

MutFreeByCurrentFlags ==
  /\ At("free")
  /\ alive' = IF flags[Top.bh] \cap {"DELETED", "ONESHOT"} # {}
                THEN alive \ {Top.bh} ELSE alive
  /\ SetTop([Top EXCEPT !.pc = "loop", !.bh = NoBH, !.bhflags = {}])
  /\ UNCHANGED <<calls, flags, bh_list, bh_slices, notifyVars, timer, op, coVars>>

FreeBH ==
  /\ At("free")
  /\ alive' = IF Top.bhflags # {} THEN alive \ {Top.bh} ELSE alive
  /\ SetTop([Top EXCEPT !.pc = "loop", !.bh = NoBH, !.bhflags = {}])
  /\ UNCHANGED <<calls, flags, bh_list, bh_slices, notifyVars, timer, op, coVars>>

\* co_schedule_bh_cb: take the whole list, then enter the coroutines in order.
CoTakeList ==
  /\ At("call") /\ Top.bh = CoBH
  /\ co_list' = <<>>
  /\ straight' = Reverse(co_list)
  /\ Go("enter")
  /\ UNCHANGED <<bhVars, notifyVars, timer, op, scheduled>>

MutStayScheduled ==
  /\ At("enter")
  /\ IF straight = <<>>
       THEN Go("free") /\ UNCHANGED straight
       ELSE straight' = Tail(straight) /\ Go("coroutine")
  /\ UNCHANGED <<bhVars, notifyVars, timer, op, scheduled, co_list>>

CoEnter ==
  /\ At("enter")
  /\ IF straight = <<>>
       THEN Go("free") /\ UNCHANGED <<scheduled, straight>>
       ELSE /\ scheduled' = scheduled \ {Head(straight)}
            /\ straight' = Tail(straight)
            /\ Go("coroutine")
  /\ UNCHANGED <<bhVars, notifyVars, timer, op, co_list>>

\* The coroutine yields or terminates.
CoYield ==
  /\ At("coroutine")
  /\ Go("enter")
  /\ UNCHANGED <<bhVars, notifyVars, timer, op, coVars>>

\* The slices are used up; the call ends with the timers.
EndOfLoop ==
  /\ At("loop")
  /\ bh_slices = <<>>
  /\ timer' = FALSE
  /\ frames' = Front(frames)
  /\ UNCHANGED <<bhVars, notifyVars, op, coVars>>

-----------------------------------------------------------------------------
\* What a thread does in the course of a call it has begun.
OpStep(t) ==
  \/ InsertBH(t) \/ NotifyRead(t) \/ NotifySet(t) \/ NotifyFlag(t)
  \/ CoInsert(t) \/ CoSchedule(t)

LoopStep ==
  \/ SetNotifyMe \/ ComputeList \/ ComputeSlices \/ ComputeDeadline
  \/ try_poll_mode \/ aio_ctx_prepare \/ WaitNotified \/ ClearNotifyMe
  \/ aio_notify_accept \/ TestAndClear \/ aio_ctx_check \/ MoveToSlice
  \/ RemoveHead \/ aio_bh_dequeue \/ CallbackReturns \/ FreeBH
  \/ CoTakeList \/ CoEnter \/ CoYield \/ EndOfLoop

\* Calls a thread may make.
Request(t) ==
  \/ \E b \in AllBHs :
       \/ qemu_bh_schedule(t, b) \/ qemu_bh_schedule_idle(t, b)
       \/ qemu_bh_cancel(t, b) \/ qemu_bh_delete(t, b)
       \/ aio_bh_schedule_oneshot(t, b) \/ aio_bh_new(t, b)
  \/ \E co \in Coroutines : aio_co_schedule(t, co)
  \/ aio_timerlist_notify(t)

\* The loop of the home thread: an IOThread calls aio_poll(ctx, true).
HomeLoop == frames = <<>> /\ (aio_poll(TRUE) \/ GlibIteration)

Next ==
  \/ \E t \in Threads : OpStep(t) \/ Request(t)
  \/ LoopStep \/ OtherFdReady \/ GlibIteration
  \/ \E blocking \in BOOLEAN : aio_poll(blocking)

Spec == Init /\ [][Next]_vars

\* Every thread runs, callbacks return, and the home thread keeps looping.
FairSpec ==
  /\ Spec
  /\ \A t \in Threads : WF_vars(OpStep(t))
  /\ SF_vars(LoopStep) /\ SF_vars(HomeLoop)

-----------------------------------------------------------------------------
(* Properties *)

SlicePositions == UNION {{i} \X DOMAIN bh_slices[i] : i \in DOMAIN bh_slices}
Occurrences(b) ==
  Cardinality({i \in DOMAIN bh_list : bh_list[i] = b})
    + Cardinality({p \in SlicePositions : bh_slices[p[1]][p[2]] = b})
    + Cardinality({t \in Threads : op[t].pc = "insert" /\ op[t].bh = b})
    + Cardinality({i \in DOMAIN frames : frames[i].pc = "and" /\ frames[i].bh = b})

\* BH_PENDING says that a bottom half is in exactly one list, or between the
\* flag and the list: it is never queued twice by concurrent calls of
\* aio_bh_enqueue and never lost by aio_bh_dequeue, and a freed one is in no list.
PendingMeansQueued ==
  \A b \in AllBHs :
    Occurrences(b) = IF b \in alive /\ "PENDING" \in flags[b] THEN 1 ELSE 0

\* aio_bh_poll frees a bottom half once, also when a nested aio_poll in its
\* callback has run in between.
NoDoubleFree ==
  \A i \in DOMAIN frames :
    frames[i].pc \in {"call", "free"} /\ frames[i].bhflags # {} => frames[i].bh \in alive

\* No bottom half is queued twice, lost or freed twice in any state that nested
\* loops and concurrent callers can reach.
ListsConsistent == TypeOK /\ PendingMeansQueued /\ NoDoubleFree

\* While the home thread sleeps without limit, whatever it should wake up for is
\* about to be announced: a thread that has queued a bottom half or armed a
\* timer has yet to read notify_me or to set the notifier.
SleepsOnlyIfNotified ==
  At("wait") /\ Top.timeout = 2 /\ ~notifier =>
    \/ \E t \in Others : op[t].pc \in {"insert", "notify", "set"}
    \/ ~timer /\ \A b \in AllBHs : ~Runnable(b)

\* A scheduled coroutine is in one place only and is entered once: on the list,
\* taken off it by co_schedule_bh_cb, or in the hands of aio_co_schedule; and
\* one that is on the list has the bottom half scheduled that will take it.
CoroutineOnce ==
  /\ \A co \in Coroutines :
       Cardinality({i \in DOMAIN co_list : co_list[i] = co})
         + Cardinality({i \in DOMAIN straight : straight[i] = co})
         + Cardinality({t \in Threads : op[t].co = co})
         = IF co \in scheduled THEN 1 ELSE 0
  /\ co_list # <<>> =>
       \/ "SCHEDULED" \in flags[CoBH]
       \/ \E t \in Threads : op[t].pc = "co_bh"
       \/ \E i \in DOMAIN frames : frames[i].pc = "call" /\ frames[i].bh = CoBH

\* A scheduled bottom half is run unless it is cancelled or deleted.
BhRuns == \A b \in AllBHs : Runnable(b) ~> ~Runnable(b)

\* A scheduled coroutine is entered.
CoroutineEntered == \A co \in Coroutines : co \in scheduled ~> co \notin scheduled

\* A timer that is due runs.
TimerRuns == timer ~> ~timer

\* Whatever is scheduled or due in the context is run by its home thread.
WorkRuns == BhRuns /\ CoroutineEntered /\ TimerRuns
=============================================================================
