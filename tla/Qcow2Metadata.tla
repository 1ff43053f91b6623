--------------------------- MODULE Qcow2Metadata ---------------------------
(***************************************************************************)
(* How a qcow2 image keeps its L2 tables and its refcounts consistent on a *)
(* disk that may lose, on a crash, whatever was written since the last     *)
(* flush (block/qcow2-cache.c and its callers in qcow2-cluster.c,          *)
(* qcow2-refcount.c and qcow2.c).                                          *)
(*                                                                         *)
(* L2 tables and refcount blocks are changed in two write-back caches.     *)
(* Cache c may have to be written after the other one (c->depends), or     *)
(* after a flush of the file (c->depends_on_flush).  With lazy refcounts   *)
(* the image is marked dirty in its header instead, and repaired when it   *)
(* is opened after a crash.                                                *)
(*                                                                         *)
(* Every guest cluster has a table of the L2 cache to itself, and every    *)
(* host cluster a refcount block: tables are written at different times.   *)
(* The metadata is changed under s->lock; `stack` holds the calls of the   *)
(* coroutine that has it, and every write and every flush of the file is a *)
(* step, which can fail; a write that fails may have reached the file.     *)
(* Guest data is written without the lock.                                 *)
(***************************************************************************)
EXTENDS Naturals, Sequences, FiniteSets

CONSTANTS
  Guest,       \* guest clusters
  Host,        \* host clusters for data
  None,        \* "not allocated"
  Cows,        \* how a write may treat the rest of its cluster, see Write
  MaxOps,      \* how many requests are made
  MaxFaults    \* how many writes and flushes fail

ASSUME ClustersAssumption ==
  IsFiniteSet(Guest) /\ IsFiniteSet(Host) /\ None \notin Host \cup Guest
ASSUME BoundsAssumption ==
  MaxOps \in Nat /\ MaxFaults \in Nat /\ Cows \subseteq {"none", "copy", "skip"}

VARIABLES
  lazy,        \* s->use_lazy_refcounts
  l2,          \* the L2 entry of a guest cluster, in the cache
  packed,      \* guest clusters whose entry is a compressed cluster
  refcount,    \* the refcount of a host cluster, in the cache
  header,      \* QCOW2_INCOMPAT_DIRTY in s->incompatible_features
  dirty,       \* the dirty tables of each cache
  depends,     \* whether c->depends is set; it can only be the other cache
  depends_on_flush,
  disk,        \* what the file holds, see Cell
  stack,       \* the calls of the holder of s->lock, outermost first
  ret,         \* what the call that has just returned said
  req,         \* the write request in flight for a guest cluster
  age,         \* history: whether a flush has covered the L2 entry
  unordered,   \* history: a failed qcow2_cache_set_dependency was ignored
  leaked,      \* history: a crash or an error may have left a cluster unused
  flushing,    \* whether bdrv_co_flush is flushing the file
  open,        \* "open", "closed" or, after an error, "failed"
  ops, faults  \* how many requests were made, how many writes failed

memory == <<l2, packed, refcount, header, dirty, depends, depends_on_flush>>
history == <<age, unordered, leaked>>
image == <<flushing, open>>
vars == <<lazy, memory, disk, stack, ret, req, history, image, ops, faults>>

Caches == {"l2", "refcount"}
Other(c) == IF c = "l2" THEN "refcount" ELSE "l2"

(***************************************************************************)
(* A place of the file: what it was last set to, and what it may hold      *)
(* after a crash.  A flush leaves only the former.  data[c] says whose     *)
(* data the host cluster c holds, in the part that its guest cluster's     *)
(* write did not cover.                                                    *)
(***************************************************************************)
Cell(v) == [last |-> v, maybe |-> {v}]

\* bdrv_pwrite: the host may keep what was written in a volatile cache.
Put(cell, v) == [last |-> v, maybe |-> cell.maybe \cup {v}]

Settle(f) == [x \in DOMAIN f |-> Cell(f[x].last)]

\* bdrv_co_flush of the file.  It is skipped when nothing was written since
\* the last one (flushed_gen = write_gen), and then there is nothing to settle.
Flushed ==
  [l2 |-> Settle(disk.l2), refcount |-> Settle(disk.refcount),
   data |-> Settle(disk.data), header |-> Cell(disk.header.last)]

\* No request; cow is history, of the last one that was linked.
Idle == [pc |-> "idle", host |-> None, cow |-> "none"]

\* qcow2_do_open has found a clean image with one compressed cluster, which
\* takes a host cluster, and has created the two caches.
Init ==
  \E g \in Guest, c \in Host :
    /\ lazy \in BOOLEAN
    /\ l2 = [x \in Guest |-> IF x = g THEN c ELSE None]
    /\ packed = {g}
    /\ refcount = [x \in Host |-> IF x = c THEN 1 ELSE 0]
    /\ header = FALSE
    /\ dirty = [x \in Caches |-> {}]
    /\ depends = [x \in Caches |-> FALSE]
    /\ depends_on_flush = [x \in Caches |-> FALSE]
    /\ disk = [l2 |-> [x \in Guest |-> Cell(l2[x])],
               refcount |-> [x \in Host |-> Cell(refcount[x])],
               data |-> [x \in Host |-> Cell(IF x = c THEN g ELSE None)],
               header |-> Cell(FALSE)]
    /\ stack = <<>> /\ ret = "none"
    /\ req = [x \in Guest |-> Idle]
    /\ age = [x \in Guest |-> "old"] /\ unordered = FALSE /\ leaked = FALSE
    /\ flushing = FALSE /\ open = "open" /\ ops = 0 /\ faults = 0

-----------------------------------------------------------------------------
(* Calls under s->lock.                                                   *)

Top == stack[Len(stack)]
Below == SubSeq(stack, 1, Len(stack) - 1)
In(fn) == stack # <<>> /\ Top.fn = fn

Goto(frame) == stack' = Append(Below, frame) /\ ret' = "none"
Call(frame, callee) == stack' = Below \o <<frame, callee>> /\ ret' = "none"
Return(r) == stack' = Below /\ ret' = IF Below = <<>> THEN "none" ELSE r

\* The first frame of a request that takes the lock.
Lock(frame) == stack = <<>> /\ stack' = <<frame>> /\ ret' = "none"

Fault == faults < MaxFaults /\ faults' = faults + 1
NoFault == UNCHANGED faults

CacheFlush(c, sync) ==
  [fn |-> "cache_flush", cache |-> c, left |-> dirty[c], failed |-> FALSE,
   sync |-> sync]
EntryFlush(c, t) ==
  [fn |-> "entry_flush", cache |-> c, table |-> t, ready |-> FALSE]
SetDependency(c) == [fn |-> "set_dependency", cache |-> c]

\* qcow2_cache_write, and qcow2_cache_flush when sync: writes all dirty
\* tables, going on after an error, then flushes the file if there was none.
qcow2_cache_flush ==
  /\ In("cache_flush")
  /\ LET failed == Top.failed \/ ret = "err"
     IN \/ \E t \in Top.left :
             /\ Call([Top EXCEPT !.left = @ \ {t}, !.failed = failed],
                     EntryFlush(Top.cache, t))
             /\ UNCHANGED disk /\ NoFault
        \/ /\ Top.left = {} /\ (failed \/ ~Top.sync)
           /\ Return(IF failed THEN "err" ELSE "ok")
           /\ UNCHANGED disk /\ NoFault
        \/ /\ Top.left = {} /\ ~failed /\ Top.sync
           /\ \/ disk' = Flushed /\ Return("ok") /\ NoFault
              \/ UNCHANGED disk /\ Return("err") /\ Fault
  /\ UNCHANGED <<lazy, memory, req, history, image, ops>>

\* The order that a table of a cache has to wait for: the flush of the other
\* cache, or of the file.
EntryFlushOrder ==
  /\ In("entry_flush") /\ ~Top.ready /\ ret # "err"
  /\ LET c == Top.cache
         ready == [Top EXCEPT !.ready = TRUE]
     IN \/ /\ depends[c] /\ ret = "none"
           /\ Call(Top, CacheFlush(Other(c), TRUE))
           /\ UNCHANGED <<depends, depends_on_flush, disk>> /\ NoFault
        \/ /\ depends[c] /\ ret = "ok"
           /\ depends' = [depends EXCEPT ![c] = FALSE]
           /\ depends_on_flush' = [depends_on_flush EXCEPT ![c] = FALSE]
           /\ Goto(ready) /\ UNCHANGED disk /\ NoFault
        \/ /\ ~depends[c] /\ depends_on_flush[c]
           /\ \/ /\ disk' = Flushed /\ Goto(ready) /\ NoFault
                 /\ depends_on_flush' = [depends_on_flush EXCEPT ![c] = FALSE]
              \/ /\ Return("err") /\ Fault
                 /\ UNCHANGED <<disk, depends_on_flush>>
           /\ UNCHANGED depends
        \/ /\ ~depends[c] /\ ~depends_on_flush[c]
           /\ Goto(ready)
           /\ UNCHANGED <<depends, depends_on_flush, disk>> /\ NoFault
  /\ UNCHANGED <<lazy, l2, packed, refcount, header, dirty, req, history, image,
                 ops>>

MutCleanAfterError ==
  /\ In("entry_flush") /\ (Top.ready \/ ret = "err")
  /\ LET c == Top.cache
         t == Top.table
         value == IF c = "l2" THEN l2[t] ELSE refcount[t]
     IN \/ /\ ret # "err"
           /\ disk' = [disk EXCEPT ![c][t] = Put(@, value)]
           /\ Return("ok") /\ NoFault
        \/ ret = "err" /\ Return("err") /\ UNCHANGED disk /\ NoFault
        \/ /\ ret # "err" /\ Return("err") /\ Fault
           /\ disk' \in {disk, [disk EXCEPT ![c][t] = Put(@, value)]}
  /\ dirty' = [dirty EXCEPT ![Top.cache] = @ \ {Top.table}]
  /\ UNCHANGED <<lazy, l2, packed, refcount, header, depends, depends_on_flush,
                 req, history, image, ops>>

\* The bdrv_pwrite of qcow2_cache_entry_flush, and its error returns.
EntryFlushWrite ==
  /\ In("entry_flush") /\ (Top.ready \/ ret = "err")
  /\ LET c == Top.cache
         t == Top.table
         value == IF c = "l2" THEN l2[t] ELSE refcount[t]
     IN \/ /\ ret # "err"
           /\ disk' = [disk EXCEPT ![c][t] = Put(@, value)]
           /\ dirty' = [dirty EXCEPT ![c] = @ \ {t}]
           /\ Return("ok") /\ NoFault
        \/ ret = "err" /\ Return("err") /\ UNCHANGED <<disk, dirty>> /\ NoFault
        \/ /\ ret # "err" /\ Return("err") /\ Fault
           /\ disk' \in {disk, [disk EXCEPT ![c][t] = Put(@, value)]}
           /\ UNCHANGED dirty
  /\ UNCHANGED <<lazy, l2, packed, refcount, header, depends, depends_on_flush,
                 req, history, image, ops>>

MutMutualDependency ==
  /\ In("set_dependency")
  /\ depends' = [depends EXCEPT ![Top.cache] = TRUE]
  /\ Return("ok")
  /\ UNCHANGED <<lazy, l2, packed, refcount, header, dirty, depends_on_flush,
                 disk, req, history, image, ops, faults>>

\* c is to be written after the other cache.  If that one waits for c, c is
\* flushed first, so that they never wait for each other.
qcow2_cache_set_dependency ==
  /\ In("set_dependency")
  /\ LET c == Top.cache
     IN \/ /\ depends[Other(c)] /\ ret = "none"
           /\ Call(Top, CacheFlush(c, TRUE))
           /\ UNCHANGED <<depends, depends_on_flush>>
        \/ /\ ret = "err" /\ Return("err")
           /\ UNCHANGED <<depends, depends_on_flush>>
        \/ /\ ~depends[Other(c)] \/ ret = "ok"
           /\ depends' = [x \in Caches |-> x = c]
           /\ depends_on_flush' = [depends_on_flush EXCEPT
                ![Other(c)] = @ /\ ~depends[Other(c)]]
           /\ Return("ok")
  /\ UNCHANGED <<lazy, l2, packed, refcount, header, dirty, disk, req, history,
                 image, ops, faults>>

\* qcow2_cache_do_get writes a table back to make room, whatever for.
Evict(c, t) ==
  /\ open = "open" /\ t \in dirty[c]
  /\ Lock(EntryFlush(c, t))
  /\ UNCHANGED <<lazy, memory, disk, req, history, image, ops, faults>>

-----------------------------------------------------------------------------
(* Requests.                                                              *)

NewOp == open = "open" /\ ops < MaxOps /\ ops' = ops + 1

\* update_refcount with decrease: the result of qcow2_cache_set_dependency
\* is not looked at.  An error loading the block leaks the cluster.
Free(c) == [fn |-> "free", host |-> c, at |-> "depend"]

update_refcount ==
  /\ In("free")
  /\ \/ /\ Top.at = "depend"
        /\ Call([Top EXCEPT !.at = "update"], SetDependency("refcount"))
        /\ UNCHANGED <<refcount, dirty, unordered, leaked>> /\ NoFault
     \/ /\ Top.at = "update"
        /\ unordered' = (unordered \/ ret = "err")
        /\ \/ /\ refcount' = [refcount EXCEPT ![Top.host] = @ - 1]
              /\ dirty' = [dirty EXCEPT !["refcount"] = @ \cup {Top.host}]
              /\ UNCHANGED leaked /\ NoFault
           \/ UNCHANGED <<refcount, dirty>> /\ leaked' = TRUE /\ Fault
        /\ Return("ok")
  /\ UNCHANGED <<lazy, l2, packed, header, depends, depends_on_flush, disk, req,
                 age, image, ops>>

\* qcow2_alloc_cluster_offset, in qcow2_co_pwritev_part: a cluster that is
\* not allocated, or that cannot be overwritten, gets a new host cluster.
Write(g, c, cow) ==
  /\ NewOp /\ stack = <<>>
  /\ req[g].pc = "idle" /\ refcount[c] = 0
  /\ l2[g] # None => (g \in packed \/ refcount[l2[g]] > 1)
  /\ refcount' = [refcount EXCEPT ![c] = 1]
  /\ dirty' = [dirty EXCEPT !["refcount"] = @ \cup {c}]
  /\ req' = [req EXCEPT ![g] = [pc |-> "data", host |-> c, cow |-> cow]]
  /\ UNCHANGED <<lazy, l2, packed, header, depends, depends_on_flush, disk,
                 stack, ret, history, image, faults>>

\* qcow2_co_pwritev_task, without the lock: handle_alloc_space zeroes the
\* cluster ("skip"), or perform_cow copies the rest of it ("copy"), or the
\* write covers all of it ("none").
WriteData(g) ==
  /\ req[g].pc = "data"
  /\ disk' = [disk EXCEPT !.data[req[g].host] = Put(@, g)]
  /\ req' = [req EXCEPT ![g].pc = "link"]
  /\ UNCHANGED <<lazy, memory, stack, ret, history, image, ops, faults>>

\* qcow2_alloc_cluster_abort, when the data could not be written.
WriteDataFails(g) ==
  /\ req[g].pc = "data" /\ Fault
  /\ disk' \in {disk, [disk EXCEPT !.data[req[g].host] = Put(@, g)]}
  /\ Lock(Free(req[g].host))
  /\ req' = [req EXCEPT ![g] = Idle]
  /\ UNCHANGED <<lazy, memory, history, image, ops>>

MutNoFlushAfterCow(g) ==
  /\ req[g].pc = "link"
  /\ Lock([fn |-> "link", guest |-> g, at |-> "header"])
  /\ req' = [req EXCEPT ![g].pc = "linking"]
  /\ UNCHANGED <<lazy, memory, disk, history, image, ops, faults>>

\* qcow2_alloc_cluster_link_l2 from the end of perform_cow.
LinkStart(g) ==
  /\ req[g].pc = "link"
  /\ Lock([fn |-> "link", guest |-> g, at |-> "header"])
  /\ req' = [req EXCEPT ![g].pc = "linking"]
  /\ depends_on_flush' = [depends_on_flush EXCEPT
       !["l2"] = @ \/ req[g].cow = "copy"]
  /\ UNCHANGED <<lazy, l2, packed, refcount, header, dirty, depends, disk,
                 history, image, ops, faults>>

At(fn, label) == In(fn) /\ Top.at = label
GoOn(label) == [Top EXCEPT !.at = label]

\* qcow2_mark_dirty: only when both steps succeed is the bit set in memory.
qcow2_mark_dirty ==
  /\ In("link") /\ Top.at \in {"header", "sync"}
  /\ \/ /\ Top.at = "header" /\ (~lazy \/ header)
        /\ Goto(GoOn("depend"))
        /\ UNCHANGED <<disk, header>> /\ NoFault
     \/ /\ Top.at = "header" /\ lazy /\ ~header
        /\ disk' = [disk EXCEPT !.header = Put(@, TRUE)]
        /\ Goto(GoOn("sync")) /\ UNCHANGED header /\ NoFault
     \/ /\ Top.at = "sync"
        /\ disk' = Flushed /\ header' = TRUE
        /\ Goto(GoOn("depend")) /\ NoFault
     \/ /\ Top.at = "sync" \/ (lazy /\ ~header)
        /\ disk' \in {disk, [disk EXCEPT !.header = Put(@, TRUE)]}
        /\ Goto(GoOn("depend")) /\ Fault
        /\ UNCHANGED header
  /\ UNCHANGED <<lazy, l2, packed, refcount, dirty, depends, depends_on_flush,
                 req, history, image, ops>>

MutLinkUnordered ==
  /\ At("link", "depend")
  /\ Goto(GoOn("table"))
  /\ UNCHANGED <<lazy, memory, disk, req, history, image, ops, faults>>

\* The new entry waits for the refcount, unless refcounts need not be
\* accurate; the result is not looked at.
LinkOrder ==
  /\ At("link", "depend")
  /\ IF ~header THEN Call(GoOn("table"), SetDependency("l2"))
                ELSE Goto(GoOn("table"))
  /\ UNCHANGED <<lazy, memory, disk, req, history, image, ops, faults>>

\* get_cluster_table may have to write another table back first.
LinkEvict ==
  /\ At("link", "table") /\ Top.guest \notin dirty["l2"]
  /\ unordered' = (unordered \/ ret = "err")
  /\ \E t \in dirty["l2"] : Call(GoOn("got"), EntryFlush("l2", t))
  /\ UNCHANGED <<lazy, memory, disk, req, age, leaked, image, ops, faults>>

\* The table is there: set the entry and free the old cluster.
LinkEntry ==
  /\ At("link", "table") \/ (At("link", "got") /\ ret = "ok")
  /\ LET g == Top.guest
     IN /\ l2' = [l2 EXCEPT ![g] = req[g].host]
        /\ packed' = packed \ {g}
        /\ dirty' = [dirty EXCEPT !["l2"] = @ \cup {g}]
        /\ age' = [age EXCEPT ![g] = "volatile"]
        /\ unordered' = (unordered \/ (Top.at = "table" /\ ret = "err"))
        /\ req' = [req EXCEPT ![g] = [Idle EXCEPT !.cow = req[g].cow]]
        /\ IF l2[g] = None THEN Return("ok") ELSE Goto(Free(l2[g]))
  /\ UNCHANGED <<lazy, refcount, header, depends, depends_on_flush, disk,
                 leaked, image, ops, faults>>

\* The table could not be loaded, because the one in its place could not be
\* written back or because the read failed: qcow2_alloc_cluster_abort.
LinkFails ==
  /\ \/ At("link", "got") /\ ret = "err" /\ NoFault
     \/ /\ At("link", "table") \/ (At("link", "got") /\ ret = "ok")
        /\ Top.guest \notin dirty["l2"] /\ Fault
  /\ unordered' = (unordered \/ (Top.at = "table" /\ ret = "err"))
  /\ Goto(Free(req[Top.guest].host))
  /\ req' = [req EXCEPT ![Top.guest] = Idle]
  /\ UNCHANGED <<lazy, memory, disk, age, leaked, image, ops>>

\* discard_in_l2_slice
Discard(g) ==
  /\ NewOp /\ l2[g] # None
  /\ Lock(Free(l2[g]))
  /\ l2' = [l2 EXCEPT ![g] = None]
  /\ packed' = packed \ {g}
  /\ dirty' = [dirty EXCEPT !["l2"] = @ \cup {g}]
  /\ age' = [age EXCEPT ![g] = "volatile"]
  /\ UNCHANGED <<lazy, refcount, header, depends, depends_on_flush, disk, req,
                 unordered, leaked, image, faults>>

-----------------------------------------------------------------------------
(* Flush and close.                                                       *)

Age(from, to) == [g \in Guest |-> IF age[g] = from THEN to ELSE age[g]]

\* qcow2_write_caches: the refcounts only if they have to be accurate.
WriteCaches(frame) ==
  \/ At(frame, "l2") /\ Call(GoOn("refcount"), CacheFlush("l2", FALSE))
  \/ /\ At(frame, "refcount") /\ ret # "err" /\ ~header
     /\ Call(GoOn("file"), CacheFlush("refcount", FALSE))
  \/ At(frame, "refcount") /\ ret # "err" /\ header /\ Goto(GoOn("file"))

\* qcow2_co_flush_to_os, called by bdrv_co_flush
FlushStart ==
  /\ NewOp /\ ~flushing
  /\ Lock([fn |-> "flush", at |-> "l2"])
  /\ age' = Age("volatile", "flushing")
  /\ UNCHANGED <<lazy, memory, disk, req, unordered, leaked, flushing, open,
                 faults>>

FlushCaches ==
  /\ \/ WriteCaches("flush") /\ UNCHANGED <<age, flushing>>
     \/ /\ At("flush", "file") /\ ret # "err"
        /\ Return("ok") /\ flushing' = TRUE /\ UNCHANGED age
     \/ /\ In("flush") /\ ret = "err"
        /\ Return("err") /\ age' = Age("flushing", "volatile")
        /\ UNCHANGED flushing
  /\ UNCHANGED <<lazy, memory, disk, req, unordered, leaked, open, ops, faults>>

\* bdrv_co_flush goes on to flush the file, without s->lock: what the guest
\* had written before its flush has become durable.
FlushFile ==
  /\ flushing /\ flushing' = FALSE
  /\ \/ disk' = Flushed /\ age' = Age("flushing", "durable") /\ NoFault
     \/ UNCHANGED disk /\ age' = Age("flushing", "volatile") /\ Fault
  /\ UNCHANGED <<lazy, memory, stack, ret, req, unordered, leaked, open, ops>>

\* qcow2_inactivate, from qcow2_close: flush both caches whatever happens,
\* and mark the image clean only if both could be.
CloseStart ==
  /\ open = "open" /\ ~flushing /\ \A g \in Guest : req[g].pc = "idle"
  /\ Lock([fn |-> "close", at |-> "start", failed |-> FALSE])
  /\ UNCHANGED <<lazy, memory, disk, req, history, image, ops, faults>>

MutLastResultOnly ==
  /\ In("close") /\ Top.at \in {"start", "flushed_l2", "flushed"}
  /\ LET frame == [Top EXCEPT !.failed = (ret = "err")]
         To(label) == [frame EXCEPT !.at = label]
     IN \/ /\ Top.at = "start"
           /\ Call(To("flushed_l2"), CacheFlush("l2", TRUE))
           /\ UNCHANGED <<header, open>>
        \/ /\ Top.at = "flushed_l2"
           /\ Call(To("flushed"), CacheFlush("refcount", TRUE))
           /\ UNCHANGED <<header, open>>
        \/ /\ Top.at = "flushed" /\ ~frame.failed /\ header
           /\ Goto(To("l2")) /\ header' = FALSE /\ UNCHANGED open
        \/ /\ Top.at = "flushed" /\ (frame.failed \/ ~header)
           /\ Return("ok") /\ UNCHANGED header
           /\ open' = IF frame.failed THEN "failed" ELSE "closed"
  /\ UNCHANGED <<lazy, l2, packed, refcount, dirty, depends, depends_on_flush,
                 disk, req, history, flushing, ops, faults>>

CloseFlush ==
  /\ In("close") /\ Top.at \in {"start", "flushed_l2", "flushed"}
  /\ LET frame == [Top EXCEPT !.failed = @ \/ ret = "err"]
         To(label) == [frame EXCEPT !.at = label]
     IN \/ /\ Top.at = "start"
           /\ Call(To("flushed_l2"), CacheFlush("l2", TRUE))
           /\ UNCHANGED <<header, open>>
        \/ /\ Top.at = "flushed_l2"
           /\ Call(To("flushed"), CacheFlush("refcount", TRUE))
           /\ UNCHANGED <<header, open>>
        \/ /\ Top.at = "flushed" /\ ~frame.failed /\ header
           /\ Goto(To("l2")) /\ header' = FALSE /\ UNCHANGED open
        \/ /\ Top.at = "flushed" /\ (frame.failed \/ ~header)
           /\ Return("ok") /\ UNCHANGED header
           /\ open' = IF frame.failed THEN "failed" ELSE "closed"
  /\ UNCHANGED <<lazy, l2, packed, refcount, dirty, depends, depends_on_flush,
                 disk, req, history, flushing, ops, faults>>

\* qcow2_mark_clean, after it has cleared the bit in memory: qcow2_flush_caches
\* and then the header.  qcow2_inactivate does not look at the result: an error
\* here leaves the image marked dirty, and the close is reported as a success.
qcow2_mark_clean ==
  /\ \/ WriteCaches("close") /\ UNCHANGED <<disk, open>> /\ NoFault
     \/ /\ At("close", "file") /\ ret # "err"
        /\ disk' = Flushed /\ Goto(GoOn("header"))
        /\ UNCHANGED open /\ NoFault
     \/ /\ At("close", "header")
        /\ disk' = [disk EXCEPT !.header = Put(@, FALSE)]
        /\ Return("ok") /\ open' = "closed" /\ NoFault
     \/ /\ In("close") /\ Top.at \in {"refcount", "file", "header"}
        /\ IF ret = "err" THEN NoFault ELSE Top.at # "refcount" /\ Fault
        /\ \/ UNCHANGED disk
           \/ /\ Top.at = "header"
              /\ disk' = [disk EXCEPT !.header = Put(@, FALSE)]
        /\ Return("ok") /\ open' = "closed"
  /\ UNCHANGED <<lazy, memory, req, history, flushing, ops>>

-----------------------------------------------------------------------------
(* A crash, and the next qcow2_do_open.                                   *)

References(f, c) == Cardinality({g \in Guest : f[g] = c})

\* Any of the values that may be on disk is.  A dirty image is repaired: its
\* refcounts are computed anew.  Nothing is assumed of the data.  There is no
\* restart after an ignored error lost the order, when nothing is promised.
Crash ==
  /\ open = "open" /\ ~unordered
  /\ \E entries \in {f \in [Guest -> Host \cup {None}] :
                       \A g \in Guest : f[g] \in disk.l2[g].maybe},
        counts \in {f \in [Host -> 0..Cardinality(Guest)] :
                      \A c \in Host : f[c] \in disk.refcount[c].maybe},
        bit \in disk.header.maybe :
       /\ l2' = entries
       /\ refcount' = IF bit THEN [c \in Host |-> References(entries, c)]
                             ELSE counts
       /\ disk' = [l2 |-> [g \in Guest |-> Cell(entries[g])],
                   refcount |-> [c \in Host |-> Cell(refcount'[c])],
                   data |-> [c \in Host |-> Cell(None)],
                   header |-> Cell(FALSE)]
  /\ packed' = {}
  /\ header' = FALSE
  /\ dirty' = [c \in Caches |-> {}]
  /\ depends' = [c \in Caches |-> FALSE]
  /\ depends_on_flush' = [c \in Caches |-> FALSE]
  /\ stack' = <<>> /\ ret' = "none"
  /\ req' = [g \in Guest |-> Idle]
  /\ age' = [g \in Guest |-> "old"]
  /\ leaked' = TRUE /\ flushing' = FALSE
  /\ UNCHANGED <<lazy, unordered, open, ops, faults>>

-----------------------------------------------------------------------------
\* The image is closed for good, or broken: nothing happens any more.
Next ==
  \/ qcow2_cache_flush \/ EntryFlushOrder \/ EntryFlushWrite
  \/ qcow2_cache_set_dependency
  \/ \E g \in Guest : Evict("l2", g)
  \/ \E c \in Host : Evict("refcount", c)
  \/ update_refcount
  \/ \E g \in Guest, c \in Host, cow \in Cows : Write(g, c, cow)
  \/ \E g \in Guest : WriteData(g) \/ WriteDataFails(g) \/ LinkStart(g)
                      \/ Discard(g)
  \/ qcow2_mark_dirty \/ LinkOrder \/ LinkEvict \/ LinkEntry \/ LinkFails
  \/ FlushStart \/ FlushCaches \/ FlushFile
  \/ CloseStart \/ CloseFlush \/ qcow2_mark_clean
  \/ Crash

Spec == Init /\ [][Next]_vars

-----------------------------------------------------------------------------
TypeOK ==
  /\ lazy \in BOOLEAN /\ header \in BOOLEAN
  /\ l2 \in [Guest -> Host \cup {None}] /\ packed \subseteq Guest
  /\ refcount \in [Host -> Nat]
  /\ dirty["l2"] \subseteq Guest /\ dirty["refcount"] \subseteq Host
  /\ depends \in [Caches -> BOOLEAN] /\ depends_on_flush \in [Caches -> BOOLEAN]
  /\ ret \in {"none", "ok", "err"}
  /\ req \in [Guest -> [pc: {"idle", "data", "link", "linking"},
                        host: Host \cup {None}, cow: Cows \cup {"none"}]]
  /\ age \in [Guest -> {"old", "volatile", "flushing", "durable"}]

\* Whenever the power goes, no L2 entry on disk refers to a cluster whose
\* refcount on disk is too small (a later allocation would hand it out
\* again), unless the dirty bit is on disk for certain or a failed
\* qcow2_cache_set_dependency was ignored before (unordered): the caches are
\* written in the order that depends and depends_on_flush ask for.
CrashSafe ==
  (FALSE \in disk.header.maybe /\ ~unordered) =>
    \A c \in Host : \A count \in disk.refcount[c].maybe :
      count >= Cardinality({g \in Guest : c \in disk.l2[g].maybe})

\* "refcount blocks must be flushed before the caller's L2 table updates"
\* (qcow2_alloc_bytes, of the call that asks for it; perform_cow says the same
\* of a new L2 entry), also when that call of qcow2_cache_set_dependency fails:
\* the cluster of an entry that may be on disk does not count as free there.
RefcountsFirst ==
  FALSE \in disk.header.maybe =>
    \A g \in Guest : l2[g] # None /\ l2[g] \in disk.l2[g].maybe =>
      0 \notin disk.refcount[l2[g]].maybe

\* Once g's new entry has been written, the rest of the cluster it points to
\* is on disk for certain.
RestOnDisk(g) ==
  (age[g] # "old" /\ l2[g] # None /\ g \notin dirty["l2"]) =>
    disk.data[l2[g]].maybe = {g}

\* "Before we update the L2 table to actually point to the new cluster, we
\* need to be sure that ... COW was handled" (perform_cow): the L2 entry is
\* not on disk before the part of the cluster that the guest did not write.
\* Not so after a failed qcow2_cache_set_dependency was ignored (unordered),
\* nor where lazy refcounts meet handle_alloc_space ("skip"): perform_cow
\* returns early and neither cache dependency orders the zeroes before the
\* L2 entry.
CopyBeforeLink ==
  \A g \in Guest :
    /\ req[g].pc = "idle" /\ ~unordered
    /\ req[g].cow = "copy" \/ (req[g].cow = "skip" /\ ~lazy)
    => RestOnDisk(g)

\* What was linked or discarded before a successful flush survives a crash.
FlushedIsDurable ==
  \A g \in Guest : age[g] = "durable" =>
    /\ disk.l2[g].maybe = {l2[g]}
    /\ l2[g] # None => disk.data[l2[g]].maybe = {g}

\* The caches never wait for each other, whatever order of allocations and
\* discards has made them depend: qcow2_cache_flush would call itself for ever.
DependenciesAcyclic == \E c \in Caches : ~depends[c]

\* The two caches are well-formed and can always be written.
CachesConsistent == TypeOK /\ DependenciesAcyclic

\* An image whose close reported no error holds what the caches held, has
\* exactly the refcounts its L2 tables account for, unless an earlier error
\* or crash had leaked a cluster, and, if no write or flush has failed at all,
\* is marked clean: an error in qcow2_mark_dirty or in qcow2_mark_clean, both
\* ignored, leaves the bit in the header.
CloseIsClean ==
  open = "closed" =>
    /\ \A g \in Guest : disk.l2[g] = Cell(l2[g])
    /\ \A c \in Host : /\ disk.refcount[c] = Cell(refcount[c])
                       /\ refcount[c] >= References(l2, c)
                       /\ refcount[c] = References(l2, c) \/ leaked
    /\ disk.header.last = FALSE \/ faults > 0
=============================================================================
