------------------------ MODULE Qcow2MetadataProofs ------------------------
(***************************************************************************)
(* Theorems about Qcow2Metadata: whatever order allocations, discards,     *)
(* evictions, flushes, errors and a crash come in, the metadata on disk    *)
(* can be trusted.                                                         *)
(***************************************************************************)
EXTENDS Qcow2Metadata, FiniteSetTheorems, SequenceTheorems, TLAPS

-----------------------------------------------------------------------------
(* The inductive invariant *)

Cells(S) == {x \in [last: S, maybe: SUBSET S] : x.last \in x.maybe}

DiskType ==
  disk \in [l2: [Guest -> Cells(Host \cup {None})], refcount: [Host -> Cells(Nat)],
            data: [Host -> Cells(Guest \cup {None})], header: Cells(BOOLEAN)]

Tables(c) == IF c = "l2" THEN Guest ELSE Host

CacheFrames == [fn: {"cache_flush"}, cache: Caches, left: SUBSET (Guest \cup Host),
                failed: BOOLEAN, sync: BOOLEAN]
EntryFrames == [fn: {"entry_flush"}, cache: Caches, table: Guest \cup Host, ready: BOOLEAN]
OrderFrames == [fn: {"set_dependency"}, cache: Caches]
FreeFrames == [fn: {"free"}, host: Host, at: {"depend", "update"}]
LinkFrames == [fn: {"link"}, guest: Guest, at: {"header", "sync", "depend", "table", "got"}]
FlushFrames == [fn: {"flush"}, at: {"l2", "refcount", "file"}]
CloseFrames == [fn: {"close"}, failed: BOOLEAN,
                at: {"start", "flushed_l2", "flushed", "l2", "refcount", "file", "header"}]
Frames == CacheFrames \cup EntryFrames \cup OrderFrames \cup FreeFrames \cup LinkFrames
            \cup FlushFrames \cup CloseFrames

\* Which call makes which, and where it is then.
Calls(f, g) ==
  \/ f.fn = "cache_flush" /\ g.fn = "entry_flush" /\ g.cache = f.cache
  \/ /\ f.fn = "entry_flush" /\ ~f.ready
     /\ g.fn = "cache_flush" /\ g.cache = Other(f.cache) /\ g.sync
  \/ f.fn = "set_dependency" /\ g.fn = "cache_flush" /\ g.cache = f.cache /\ g.sync
  \/ /\ f.fn = "free" /\ f.at = "update"
     /\ g.fn = "set_dependency" /\ g.cache = "refcount"
  \/ f.fn = "link" /\ f.at = "table" /\ g.fn = "set_dependency" /\ g.cache = "l2"
  \/ f.fn = "link" /\ f.at = "got" /\ g.fn = "entry_flush" /\ g.cache = "l2"
  \/ /\ f.fn \in {"flush", "close"} /\ g.fn = "cache_flush"
     /\ \/ f.at = "refcount" /\ g.cache = "l2"
        \/ f.at = "file" /\ g.cache = "refcount"
        \/ f.at = "flushed_l2" /\ g.cache = "l2" /\ g.sync
        \/ f.at = "flushed" /\ g.cache = "refcount" /\ g.sync

StackRight ==
  /\ stack \in Seq(Frames)
  /\ stack # <<>> => stack[1].fn \in {"entry_flush", "free", "link", "flush", "close"}
  /\ \A i \in 1..(Len(stack) - 1) : Calls(stack[i], stack[i + 1])
  /\ open # "open" => stack = <<>>

\* Cache c is on disk, for certain.
Synced(c) ==
  /\ dirty[c] = {}
  /\ c = "l2" => \A g \in Guest : disk.l2[g].maybe = {l2[g]}
  /\ c = "refcount" => \A h \in Host : disk.refcount[h].maybe = {refcount[h]}

\* Whatever data the L2 entries refer to is.
DataSynced ==
  \A g \in Guest :
    /\ req[g].pc = "linking" => disk.data[req[g].host].maybe = {g}
    /\ age[g] # "old" /\ l2[g] # None => disk.data[l2[g]].maybe = {g}

\* What a call knows, below others (last is FALSE) or when it goes on after one
\* that returned r.  t is the table that the call above it, if any, writes.
CacheFlushRight(f, last, r, t) ==
  /\ f.left \subseteq Tables(f.cache)
  /\ f.failed \/ (last /\ r = "err") \/ dirty[f.cache] \subseteq f.left \cup t
EntryFlushRight(f, last, r) ==
  /\ f.table \in Tables(f.cache)
  /\ f.ready => last /\ r = "none" /\ ~depends[f.cache] /\ ~depends_on_flush[f.cache]
  /\ last /\ r = "ok" => Synced(Other(f.cache)) /\ DataSynced
OrderRight(f, last, r) == last /\ r = "ok" => Synced(f.cache) /\ DataSynced
FreeRight(f, last, r) ==
  /\ f.at = "depend" => last
  /\ f.at = "update" /\ last => r \in {"ok", "err"} /\ (r = "ok" => depends["refcount"])
LinkRight(f, last, r) ==
  /\ req[f.guest].pc = "linking"
  /\ f.at \in {"header", "sync", "depend"} => last
  /\ f.at = "sync" => lazy /\ disk.header.last
  /\ f.at = "table" /\ last => (r = "ok" => depends["l2"]) /\ (r = "none" => header)
FlushRight(f, last, r) ==
  /\ ~flushing
  /\ f.at = "l2" => last
  /\ f.at = "refcount" /\ last /\ r # "err" => dirty["l2"] = {}
  /\ f.at = "file" /\ ~(last /\ r = "err") => dirty["l2"] = {}
CloseRight(f, last, r) ==
  /\ ~flushing /\ \A g \in Guest : req[g].pc = "idle"
  /\ f.at \in {"start", "l2", "header"} => last
  /\ f.at = "flushed_l2" /\ last /\ ~f.failed /\ r # "err" => Synced("l2")
  /\ f.at = "flushed" /\ ~f.failed => Synced("l2")
  /\ f.at = "flushed" /\ last /\ ~f.failed /\ r # "err" => Synced("refcount")
  /\ f.at \in {"l2", "refcount", "file", "header"} =>
       ~header /\ Synced("l2") /\ Synced("refcount")

FrameRight(f, last, r, t) ==
  /\ f.fn = "cache_flush" => CacheFlushRight(f, last, r, t)
  /\ f.fn = "entry_flush" => EntryFlushRight(f, last, r)
  /\ f.fn = "set_dependency" => OrderRight(f, last, r)
  /\ f.fn = "free" => FreeRight(f, last, r)
  /\ f.fn = "link" => LinkRight(f, last, r)
  /\ f.fn = "flush" => FlushRight(f, last, r)
  /\ f.fn = "close" => CloseRight(f, last, r)

TableAbove(i) ==
  IF i < Len(stack) /\ stack[i].fn = "cache_flush" THEN {stack[i + 1].table} ELSE {}
FramesRight ==
  \A i \in 1..Len(stack) : FrameRight(stack[i], i = Len(stack), ret, TableAbove(i))

Freeing(c) == stack # <<>> /\ stack[1].fn = "free" /\ stack[1].host = c
Linking(g) == stack # <<>> /\ stack[1].fn = "link" /\ stack[1].guest = g

\* g's new entry will be set, in an order that has been seen to.
Pledged(g) ==
  /\ Linking(g)
  /\ stack[1].at = "got" \/ (stack[1].at = "table" /\ Len(stack) = 1 /\ ret = "ok")

RequestsRight ==
  \A g \in Guest :
    /\ req[g].pc = "idle" <=> req[g].host = None
    /\ req[g].pc = "linking" <=> Linking(g)

\* The references to a host cluster: of L2 entries and of requests.
Users(c) == {g \in Guest : l2[g] = c \/ req[g].host = c}
Owed(c) == IF Freeing(c) THEN 1 ELSE 0

\* A cluster is counted for all that refer to it; one that a request has just
\* allocated belongs to it alone.
Accounted ==
  \A c \in Host :
    /\ refcount[c] >= Cardinality(Users(c)) + Owed(c)
    /\ leaked \/ refcount[c] = Cardinality(Users(c)) + Owed(c)
    /\ \A g \in Guest : req[g].host = c => Users(c) = {g} /\ l2[g] # c /\ ~Freeing(c)

\* What is not dirty was written.
Clean ==
  /\ \A g \in Guest \ dirty["l2"] : disk.l2[g].last = l2[g]
  /\ \A c \in Host \ dirty["refcount"] : disk.refcount[c].last = refcount[c]

\* The L2 entries that may refer to c: on disk, when the L2 cache has been
\* written, when the requests in flight have been linked.
MayUse(c) == {g \in Guest : c \in disk.l2[g].maybe}
WillUse(c) == {g \in Guest : c \in disk.l2[g].maybe \/ l2[g] = c \/ (Pledged(g) /\ req[g].host = c)}
Claims(c) == {g \in Guest : c \in disk.l2[g].maybe \/ l2[g] = c \/ req[g].host = c}

\* Unless one cache waits for the other, it may be written at any time.
Ordered == FALSE \in disk.header.maybe /\ ~unordered
L2Safe ==
  ~depends["l2"] => \A c \in Host : \A count \in disk.refcount[c].maybe :
                      count >= Cardinality(WillUse(c))
RefcountSafe ==
  ~depends["refcount"] => \A c \in Host : refcount[c] >= Cardinality(Claims(c))

OrderKept == Ordered => CrashSafe /\ L2Safe /\ RefcountSafe

HeaderRight ==
  /\ header => lazy /\ disk.header.maybe = {TRUE}
  /\ disk.header.last /\ ~header /\ open # "failed" =>
       \/ faults > 0
       \/ /\ stack # <<>>
          /\ \/ stack[1].fn = "link" /\ stack[1].at = "sync"
             \/ stack[1].fn = "close" /\ stack[1].at \in {"l2", "refcount", "file", "header"}

\* The data of a cluster is that of the guest cluster it is for.
DataRight ==
  \A g \in Guest :
    /\ req[g].pc \in {"link", "linking"} => disk.data[req[g].host].last = g
    /\ age[g] # "old" /\ l2[g] # None => disk.data[l2[g]].last = g

\* The rest of a cluster is on disk, or the L2 cache waits for it.
Awaited == depends_on_flush["l2"] \/ depends["l2"]
CopyRight ==
  ~unordered => \A g \in Guest :
    /\ /\ req[g].pc = "idle" /\ (req[g].cow = "copy" \/ (req[g].cow = "skip" /\ ~lazy))
       /\ age[g] # "old" /\ l2[g] # None
       => disk.data[l2[g]].maybe = {g} \/ (g \in dirty["l2"] /\ Awaited)
    /\ /\ req[g].pc = "linking"
       /\ req[g].cow = "copy" \/ (req[g].cow = "skip" /\ ~lazy /\ Pledged(g))
       => disk.data[req[g].host].maybe = {g} \/ Awaited

DurableRight ==
  \A g \in Guest :
    /\ age[g] = "durable" =>
         /\ disk.l2[g].maybe = {l2[g]}
         /\ l2[g] # None => disk.data[l2[g]].maybe = {g}
    /\ flushing /\ age[g] = "flushing" => disk.l2[g].last = l2[g]

ClosedRight ==
  /\ flushing \in BOOLEAN /\ open \in {"open", "closed", "failed"} /\ faults \in Nat
  /\ unordered \in BOOLEAN
  /\ dirty \in [Caches -> SUBSET (Guest \cup Host)]
  /\ open # "open" => ~flushing /\ \A g \in Guest : req[g].pc = "idle"
  /\ open = "closed" => ~header /\ Synced("l2") /\ Synced("refcount")

\* A call that has failed has met an error.
Sound(f) == f.fn = "cache_flush" => ~f.failed
NoErrors == ret # "err" /\ \A i \in 1..Len(stack) : Sound(stack[i])
ErrorsCounted == faults = 0 => NoErrors

IInv ==
  /\ TypeOK /\ DiskType /\ DependenciesAcyclic /\ StackRight /\ FramesRight
  /\ RequestsRight /\ Accounted /\ Clean /\ OrderKept /\ HeaderRight
  /\ DataRight /\ CopyRight /\ DurableRight /\ ClosedRight

-----------------------------------------------------------------------------
(* The stack of calls *)

\* The name of a call tells what its frame is.
LEMMA FrameFields ==
  ASSUME NEW f \in Frames
  PROVE  /\ f.fn \in {"cache_flush", "entry_flush", "set_dependency", "free", "link",
                      "flush", "close"}
         /\ f.fn = "cache_flush" <=> f \in CacheFrames
         /\ f.fn = "entry_flush" <=> f \in EntryFrames
         /\ f.fn = "set_dependency" <=> f \in OrderFrames
         /\ f.fn = "free" <=> f \in FreeFrames
         /\ f.fn = "link" <=> f \in LinkFrames
         /\ f.fn = "flush" <=> f \in FlushFrames
         /\ f.fn = "close" <=> f \in CloseFrames
BY DEF Frames, CacheFrames, EntryFrames, OrderFrames, FreeFrames, LinkFrames,
       FlushFrames, CloseFrames

\* The stack, its top and what is below.
LEMMA StackFacts ==
  ASSUME stack \in Seq(Frames), stack # <<>>
  PROVE  /\ Len(stack) \in Nat /\ Len(stack) >= 1 /\ Len(stack) \in 1..Len(stack)
         /\ 1 \in 1..Len(stack)
         /\ Top = stack[Len(stack)] /\ Top \in Frames
         /\ Below \in Seq(Frames) /\ Len(Below) = Len(stack) - 1
         /\ \A i \in 1..(Len(stack) - 1) : Below[i] = stack[i]
         /\ Below = <<>> <=> Len(stack) = 1
<1>1. Len(stack) \in Nat /\ Len(stack) >= 1  BY LenProperties, EmptySeq
<1>2. Len(stack) \in 1..Len(stack) /\ 1 \in 1..Len(stack)  BY <1>1
<1>3. Top = stack[Len(stack)] /\ Top \in Frames  BY <1>2, ElementOfSeq DEF Top
<1>4. /\ Below \in Seq(Frames) /\ Len(Below) = Len(stack) - 1
      /\ \A i \in 1..(Len(stack) - 1) : Below[i] = stack[i]
  <2>1. 1 \in Int /\ Len(stack) - 1 \in Int /\ \A i \in 1..(Len(stack) - 1) : stack[i] \in Frames
    <3>1. \A i \in 1..(Len(stack) - 1) : i \in 1..Len(stack)  BY <1>1
    <3> QED  BY <1>1, <3>1, ElementOfSeq
  <2>2. /\ Below \in Seq(Frames)
        /\ Len(Below) = IF 1 <= Len(stack) - 1 THEN Len(stack) - 1 - 1 + 1 ELSE 0
        /\ \A i \in 1..(Len(stack) - 1 - 1 + 1) : Below[i] = stack[1 + i - 1]
    BY <2>1, SubSeqProperties DEF Below
  <2>3. Len(stack) - 1 - 1 + 1 = Len(stack) - 1  BY <1>1
  <2>4. Len(Below) = Len(stack) - 1
    <3> DEFINE m == Len(stack)
    <3>1. m \in Nat /\ m >= 1 /\ Len(Below) = IF 1 <= m - 1 THEN m - 1 - 1 + 1 ELSE 0
      BY <1>1, <2>2
    <3> HIDE DEF m
    <3>2. (IF 1 <= m - 1 THEN m - 1 - 1 + 1 ELSE 0) = m - 1  BY <3>1
    <3>3. Len(Below) = m - 1  BY <3>1, <3>2
    <3> QED  BY <3>3 DEF m
  <2>5. \A i \in 1..(Len(stack) - 1) : 1 + i - 1 = i  BY <1>1
  <2> QED  BY <2>2, <2>3, <2>4, <2>5
<1>5. Below = <<>> <=> Len(stack) = 1  BY <1>1, <1>4, EmptySeq, LenProperties
<1> QED  BY <1>1, <1>2, <1>3, <1>4, <1>5

\* What Goto, Call, Return and Lock make of the stack.
LEMMA StackGoto ==
  ASSUME stack \in Seq(Frames), stack # <<>>, NEW f \in Frames, Goto(f)
  PROVE  /\ stack' \in Seq(Frames) /\ stack' # <<>> /\ Len(stack') = Len(stack)
         /\ \A i \in 1..(Len(stack) - 1) : stack'[i] = stack[i]
         /\ stack'[Len(stack)] = f /\ ret' = "none"
<1> DEFINE b == Below
<1>1. b \in Seq(Frames) /\ Len(b) = Len(stack) - 1 /\ Len(stack) \in Nat /\ Len(stack) >= 1
      /\ \A i \in 1..(Len(stack) - 1) : b[i] = stack[i]
  BY StackFacts
<1>2. stack' = Append(b, f) /\ ret' = "none"  BY DEF Goto
<1> HIDE DEF b
<1>3. /\ stack' \in Seq(Frames) /\ stack' # <<>> /\ Len(stack') = Len(b) + 1
      /\ (\A i \in 1..Len(b) : stack'[i] = b[i]) /\ stack'[Len(b) + 1] = f
  BY <1>1, <1>2, AppendProperties
<1>4. Len(b) + 1 = Len(stack)  BY <1>1
<1> QED  BY <1>1, <1>2, <1>3, <1>4

\* A call puts a frame on the stack.
LEMMA StackCall ==
  ASSUME stack \in Seq(Frames), stack # <<>>, NEW f \in Frames, NEW g \in Frames, Call(f, g)
  PROVE  /\ stack' \in Seq(Frames) /\ stack' # <<>> /\ Len(stack') = Len(stack) + 1
         /\ \A i \in 1..(Len(stack) - 1) : stack'[i] = stack[i]
         /\ stack'[Len(stack)] = f /\ stack'[Len(stack) + 1] = g /\ ret' = "none"
<1> DEFINE b == Below
           p == <<f, g>>
<1>1. b \in Seq(Frames) /\ Len(b) = Len(stack) - 1 /\ Len(stack) \in Nat /\ Len(stack) >= 1
      /\ \A i \in 1..(Len(stack) - 1) : b[i] = stack[i]
  BY StackFacts
<1>2. stack' = b \o p /\ ret' = "none"  BY DEF Call
<1>3. p \in Seq(Frames) /\ Len(p) = 2 /\ p[1] = f /\ p[2] = g  OBVIOUS
<1> HIDE DEF b, p
<1>4. /\ stack' \in Seq(Frames) /\ Len(stack') = Len(b) + Len(p)
      /\ \A i \in 1..(Len(b) + Len(p)) : stack'[i] = IF i <= Len(b) THEN b[i] ELSE p[i - Len(b)]
  BY <1>1, <1>2, <1>3, ConcatProperties
<1>5. Len(stack') = Len(stack) + 1  BY <1>1, <1>3, <1>4
<1>6. ASSUME NEW i \in 1..(Len(stack) - 1)  PROVE stack'[i] = stack[i]
  <2>1. i \in 1..(Len(b) + Len(p)) /\ i <= Len(b)  BY <1>1, <1>3
  <2> QED  BY <1>1, <1>4, <2>1
<1>7. stack'[Len(stack)] = f
  <2>1. Len(stack) \in 1..(Len(b) + Len(p)) /\ ~(Len(stack) <= Len(b)) /\ Len(stack) - Len(b) = 1
    BY <1>1, <1>3
  <2>2. stack'[Len(stack)] = p[Len(stack) - Len(b)]  BY <1>4, <2>1
  <2> QED  BY <1>3, <2>1, <2>2
<1>8. stack'[Len(stack) + 1] = g
  <2>1. /\ Len(stack) + 1 \in 1..(Len(b) + Len(p)) /\ ~(Len(stack) + 1 <= Len(b))
        /\ (Len(stack) + 1) - Len(b) = 2
    BY <1>1, <1>3
  <2>2. stack'[Len(stack) + 1] = p[(Len(stack) + 1) - Len(b)]  BY <1>4, <2>1
  <2> QED  BY <1>3, <2>1, <2>2
<1>9. stack' # <<>>
  <2>1. Len(stack') # 0  BY <1>1, <1>5
  <2> QED  BY <2>1, EmptySeq
<1> QED  BY <1>2, <1>4, <1>5, <1>6, <1>7, <1>8, <1>9

\* A return takes the top one away.
LEMMA StackReturn ==
  ASSUME stack \in Seq(Frames), stack # <<>>, NEW r, Return(r)
  PROVE  /\ stack' \in Seq(Frames) /\ Len(stack') = Len(stack) - 1
         /\ stack' = <<>> <=> Len(stack) = 1
         /\ \A i \in 1..(Len(stack) - 1) : stack'[i] = stack[i]
         /\ Len(stack) = 1 => ret' = "none"
         /\ Len(stack) # 1 => ret' = r
BY StackFacts DEF Return

\* The holder of the lock starts with one frame.
LEMMA StackLock ==
  ASSUME NEW f \in Frames, Lock(f)
  PROVE  /\ stack = <<>> /\ stack' \in Seq(Frames) /\ stack' # <<>> /\ Len(stack') = 1
         /\ stack'[1] = f /\ ret' = "none"
BY DEF Lock

\* What calls know while others run above them is still true after the step.
Keeps ==
  \A f \in Frames : \A t : FrameRight(f, FALSE, "none", t) => FrameRight(f, FALSE, "none", t)'

\* A call below others does not look at what was returned.
LEMMA LowerReturn ==
  ASSUME NEW f, NEW t, NEW r
  PROVE  FrameRight(f, FALSE, r, t) <=> FrameRight(f, FALSE, "none", t)
BY DEF FrameRight, CacheFlushRight, EntryFlushRight, OrderRight, FreeRight, LinkRight,
       FlushRight, CloseRight

\* Nor does it after the step.
LEMMA LowerReturnNext ==
  ASSUME NEW f, NEW t, NEW r
  PROVE  FrameRight(f, FALSE, r, t)' <=> FrameRight(f, FALSE, "none", t)'
BY DEF FrameRight, CacheFlushRight, EntryFlushRight, OrderRight, FreeRight, LinkRight,
       FlushRight, CloseRight

Bases == {"entry_flush", "free", "link", "flush", "close"}

\* The call on top, and the one it returns to.
LEMMA TopRight ==
  ASSUME StackRight, FramesRight, stack # <<>>
  PROVE  /\ FrameRight(Top, TRUE, ret, {}) /\ Top \in Frames /\ open = "open"
         /\ Len(stack) \in Nat /\ Len(stack) >= 1 /\ Top = stack[Len(stack)]
         /\ Len(stack) = 1 => Top.fn \in Bases
         /\ Len(stack) # 1 => Top.fn \in {"cache_flush", "entry_flush", "set_dependency"}
<1>1. /\ Len(stack) \in Nat /\ Len(stack) >= 1 /\ Len(stack) \in 1..Len(stack)
      /\ Top = stack[Len(stack)] /\ Top \in Frames
  BY StackFacts DEF StackRight
<1>2. TableAbove(Len(stack)) = {}  BY <1>1 DEF TableAbove
<1>3. FrameRight(Top, TRUE, ret, {})
  <2>1. FrameRight(stack[Len(stack)], Len(stack) = Len(stack), ret, TableAbove(Len(stack)))
    BY <1>1 DEF FramesRight
  <2>2. (Len(stack) = Len(stack)) = TRUE  OBVIOUS
  <2> QED  BY <1>1, <1>2, <2>1, <2>2
<1>4. ASSUME Len(stack) # 1
      PROVE  Top.fn \in {"cache_flush", "entry_flush", "set_dependency"}
  <2> DEFINE n == Len(stack)
  <2>1. n \in Nat /\ n >= 1 /\ n # 1  BY <1>1, <1>4
  <2>2. \A i \in 1..(n - 1) : Calls(stack[i], stack[i + 1])  BY DEF StackRight
  <2>3. Top = stack[n]  BY <1>1
  <2> HIDE DEF n
  <2>4. n - 1 \in 1..(n - 1) /\ (n - 1) + 1 = n  BY <2>1
  <2>5. Calls(stack[n - 1], Top)  BY <2>2, <2>3, <2>4
  <2> QED  BY <2>5 DEF Calls
<1> QED  BY <1>1, <1>3, <1>4 DEF StackRight, Bases

\* The calls below the top one, of which a step changes none.
LEMMA LowerRight ==
  ASSUME StackRight, FramesRight, stack # <<>>, NEW i \in 1..(Len(stack) - 1), NEW f, NEW t,
         f = stack[i], t = TableAbove(i)
  PROVE  /\ f \in Frames /\ Calls(f, stack[i + 1]) /\ FrameRight(f, FALSE, "none", t)
         /\ Keeps => FrameRight(f, FALSE, "none", t)'
<1>1. i \in 1..Len(stack) /\ (i = Len(stack)) = FALSE  BY StackFacts DEF StackRight
<1>2. FrameRight(stack[i], i = Len(stack), ret, TableAbove(i))  BY <1>1 DEF FramesRight
<1>3. FrameRight(f, FALSE, ret, t)  BY <1>1, <1>2
<1>4. FrameRight(f, FALSE, "none", t)  BY <1>3, LowerReturn
<1>5. f \in Frames /\ Calls(f, stack[i + 1])  BY <1>1, ElementOfSeq DEF StackRight
<1> QED  BY <1>4, <1>5 DEF Keeps

\* The call on top goes on.
LEMMA FramesGoto ==
  ASSUME StackRight, FramesRight, stack # <<>>, open' = open, Len(stack) = 1 \/ Keeps,
         NEW f \in Frames, Goto(f),
         \A x \in Frames : Calls(x, Top) => Calls(x, f),
         Len(stack) = 1 => f.fn \in Bases,
         Top.fn = "entry_flush" => f.table = Top.table,
         FrameRight(f, TRUE, "none", {})'
  PROVE  StackRight' /\ FramesRight'
<1> DEFINE n == Len(stack)
<1>0. stack \in Seq(Frames)  BY DEF StackRight
<1>1. n \in Nat /\ n >= 1 /\ Top = stack[n] /\ open = "open"
  BY <1>0, StackFacts, TopRight
<1>2. /\ stack' \in Seq(Frames) /\ stack' # <<>> /\ Len(stack') = n
      /\ \A i \in 1..(n - 1) : stack'[i] = stack[i]
      /\ stack'[n] = f /\ ret' = "none"
  BY <1>0, StackGoto
<1>3. ASSUME NEW i \in 1..(n - 1)
      PROVE  /\ stack[i] \in Frames /\ Calls(stack[i], stack[i + 1])
             /\ \A x, t : x = stack[i] /\ t = TableAbove(i) => FrameRight(x, FALSE, "none", t)'
  <2>1. n # 1  BY <1>1
  <2> QED  BY <2>1, LowerRight
<1> HIDE DEF n
<1>4. ASSUME NEW i \in 1..(n - 1)
      PROVE  /\ Calls(stack'[i], stack'[i + 1])
             /\ stack[i].fn = "cache_flush" => stack'[i + 1].table = stack[i + 1].table
  <2>1. CASE i = n - 1
    <3>1. i + 1 = n /\ stack'[i] = stack[i]  BY <1>1, <1>2, <2>1
    <3>2. stack[i + 1] = Top /\ stack'[i + 1] = f  BY <1>1, <1>2, <3>1
    <3>3. Calls(stack[i], Top) /\ stack[i] \in Frames  BY <1>3, <3>2
    <3>4. stack[i].fn = "cache_flush" => Top.fn = "entry_flush"  BY <3>3 DEF Calls
    <3> QED  BY <3>1, <3>2, <3>3, <3>4
  <2>2. CASE i # n - 1
    <3>1. i + 1 \in 1..(n - 1)  BY <1>1, <2>2
    <3> QED  BY <1>2, <1>3, <3>1
  <2> QED  BY <2>1, <2>2
<1>5. StackRight'
  <2>1. stack'[1].fn \in Bases
    <3>1. CASE n = 1  BY <1>2, <3>1 DEF n
    <3>2. CASE n # 1
      <4>1. 1 \in 1..(n - 1)  BY <1>1, <3>2
      <4> QED  BY <1>2, <4>1 DEF StackRight, Bases
    <3> QED  BY <3>1, <3>2
  <2>2. open' = "open"  BY <1>1
  <2> QED  BY <1>2, <1>4, <2>1, <2>2 DEF StackRight, Bases
<1>6. ASSUME NEW i \in 1..n
      PROVE  FrameRight(stack[i], i = Len(stack), ret, TableAbove(i))'
  <2>1. CASE i = n
    <3>1. stack'[i] = f /\ (i = Len(stack)') = TRUE /\ TableAbove(i)' = {}
      BY <1>1, <1>2, <2>1 DEF TableAbove
    <3> QED  BY <1>2, <3>1
  <2>2. CASE i # n
    <3>1. i \in 1..(n - 1) /\ i < n /\ (i = Len(stack)') = FALSE  BY <1>1, <1>2, <2>2
    <3>2. stack'[i] = stack[i] /\ TableAbove(i)' = TableAbove(i)
      BY <1>2, <1>4, <3>1 DEF TableAbove, n
    <3>3. \A x, t : x = stack'[i] /\ t = TableAbove(i)' => FrameRight(x, FALSE, "none", t)'
      BY <1>3, <3>1, <3>2
    <3> QED  BY <1>2, <3>1, <3>3
  <2> QED  BY <2>1, <2>2
<1> QED  BY <1>2, <1>5, <1>6 DEF FramesRight

\* The call on top makes another.
LEMMA FramesCall ==
  ASSUME StackRight, FramesRight, stack # <<>>, open' = open, Len(stack) = 1 \/ Keeps,
         NEW f \in Frames, NEW g \in Frames, Call(f, g), Calls(f, g),
         \A x \in Frames : Calls(x, Top) => Calls(x, f),
         Len(stack) = 1 => f.fn \in Bases,
         Top.fn = "entry_flush" => f.table = Top.table,
         NEW t, t = IF f.fn = "cache_flush" THEN {g.table} ELSE {},
         FrameRight(f, FALSE, "none", t)', FrameRight(g, TRUE, "none", {})'
  PROVE  StackRight' /\ FramesRight'
<1> DEFINE n == Len(stack)
<1>0. stack \in Seq(Frames)  BY DEF StackRight
<1>1. n \in Nat /\ n >= 1 /\ Top = stack[n] /\ open = "open"
  BY <1>0, StackFacts, TopRight
<1>2. /\ stack' \in Seq(Frames) /\ stack' # <<>> /\ Len(stack') = n + 1
      /\ \A i \in 1..(n - 1) : stack'[i] = stack[i]
      /\ stack'[n] = f /\ stack'[n + 1] = g /\ ret' = "none"
  BY <1>0, StackCall
<1>3. ASSUME NEW i \in 1..(n - 1)
      PROVE  /\ stack[i] \in Frames /\ Calls(stack[i], stack[i + 1])
             /\ \A x, s : x = stack[i] /\ s = TableAbove(i) => FrameRight(x, FALSE, "none", s)'
  <2>1. n # 1  BY <1>1
  <2> QED  BY <2>1, LowerRight
<1> HIDE DEF n
<1>4. ASSUME NEW i \in 1..(n - 1)
      PROVE  /\ Calls(stack'[i], stack'[i + 1])
             /\ stack[i].fn = "cache_flush" => stack'[i + 1].table = stack[i + 1].table
  <2>1. CASE i = n - 1
    <3>1. i + 1 = n /\ stack'[i] = stack[i]  BY <1>1, <1>2, <2>1
    <3>2. stack[i + 1] = Top /\ stack'[i + 1] = f  BY <1>1, <1>2, <3>1
    <3>3. Calls(stack[i], Top) /\ stack[i] \in Frames  BY <1>3, <3>2
    <3>4. stack[i].fn = "cache_flush" => Top.fn = "entry_flush"  BY <3>3 DEF Calls
    <3> QED  BY <3>1, <3>2, <3>3, <3>4
  <2>2. CASE i # n - 1
    <3>1. i + 1 \in 1..(n - 1)  BY <1>1, <2>2
    <3> QED  BY <1>2, <1>3, <3>1
  <2> QED  BY <2>1, <2>2
<1>5. StackRight'
  <2>1. stack'[1].fn \in Bases
    <3>1. CASE n = 1  BY <1>2, <3>1 DEF n
    <3>2. CASE n # 1
      <4>1. 1 \in 1..(n - 1)  BY <1>1, <3>2
      <4> QED  BY <1>2, <4>1 DEF StackRight, Bases
    <3> QED  BY <3>1, <3>2
  <2>2. open' = "open"  BY <1>1
  <2>3. \A i \in 1..((n + 1) - 1) : i \in 1..(n - 1) \/ i = n  BY <1>1
  <2>4. \A i \in 1..((n + 1) - 1) : Calls(stack'[i], stack'[i + 1])  BY <1>2, <1>4, <2>3
  <2> QED  BY <1>2, <2>1, <2>2, <2>4 DEF StackRight, Bases
<1>6. ASSUME NEW i \in 1..(n + 1)
      PROVE  FrameRight(stack[i], i = Len(stack), ret, TableAbove(i))'
  <2>1. CASE i = n + 1
    <3>1. stack'[i] = g /\ (i = Len(stack)') = TRUE /\ TableAbove(i)' = {}
      BY <1>1, <1>2, <2>1 DEF TableAbove
    <3> QED  BY <1>2, <3>1
  <2>2. CASE i = n
    <3>1. stack'[i] = f /\ i < Len(stack') /\ (i = Len(stack)') = FALSE /\ stack'[i + 1] = g
      BY <1>1, <1>2, <2>2
    <3>2. TableAbove(i)' = t  BY <3>1 DEF TableAbove
    <3> QED  BY <1>2, <3>1, <3>2
  <2>3. CASE i # n /\ i # n + 1
    <3>1. /\ i \in 1..(n - 1) /\ i < n /\ i < Len(stack') /\ (i = Len(stack)') = FALSE
      BY <1>1, <1>2, <2>3
    <3>2. stack'[i] = stack[i] /\ TableAbove(i)' = TableAbove(i)
      BY <1>2, <1>4, <3>1 DEF TableAbove, n
    <3>3. \A x, s : x = stack'[i] /\ s = TableAbove(i)' => FrameRight(x, FALSE, "none", s)'
      BY <1>3, <3>1, <3>2
    <3> QED  BY <1>2, <3>1, <3>3
  <2> QED  BY <2>1, <2>2, <2>3
<1> QED  BY <1>2, <1>5, <1>6 DEF FramesRight

\* The call on top returns.
LEMMA FramesReturn ==
  ASSUME StackRight, FramesRight, stack # <<>>, Len(stack) = 1 \/ open' = open,
         Len(stack) = 1 \/ Keeps,
         NEW r, Return(r),
         \A f \in Frames : \A t :
           /\ Calls(f, Top) /\ FrameRight(f, FALSE, "none", t)
           /\ f.fn = "cache_flush" => t = {Top.table}
           => FrameRight(f, TRUE, r, {})'
  PROVE  StackRight' /\ FramesRight'
<1> DEFINE n == Len(stack)
<1>0. stack \in Seq(Frames)  BY DEF StackRight
<1>1. n \in Nat /\ n >= 1 /\ Top = stack[n] /\ open = "open"
  BY <1>0, StackFacts, TopRight
<1>2. /\ stack' \in Seq(Frames) /\ Len(stack') = n - 1
      /\ stack' = <<>> <=> n = 1
      /\ \A i \in 1..(n - 1) : stack'[i] = stack[i]
      /\ n # 1 => ret' = r
  BY <1>0, StackReturn
<1>3. ASSUME NEW i \in 1..(n - 1)
      PROVE  /\ stack[i] \in Frames /\ Calls(stack[i], stack[i + 1])
             /\ \A x, s : x = stack[i] /\ s = TableAbove(i) =>
                            FrameRight(x, FALSE, "none", s) /\ FrameRight(x, FALSE, "none", s)'
  <2>1. n # 1  BY <1>1
  <2> QED  BY <2>1, LowerRight
<1>4. CASE n = 1
  <2>1. stack' = <<>> /\ Len(stack') = 0  BY <1>2, <1>4
  <2>2. StackRight'  BY <1>2, <2>1 DEF StackRight
  <2>3. FramesRight'  BY <2>1 DEF FramesRight
  <2> QED  BY <2>2, <2>3
<1>5. CASE n # 1
  <2> HIDE DEF n
  <2>1. n >= 2 /\ n - 1 \in 1..(n - 1) /\ (n - 1) + 1 = n  BY <1>1, <1>5
  <2>2. open' = open  BY <1>5 DEF n
  <2>3. StackRight'
    <3>1. stack'[1].fn \in Bases
      <4>1. 1 \in 1..(n - 1)  BY <1>1, <2>1
      <4>2. stack # <<>>  OBVIOUS
      <4> QED  BY <1>2, <4>1, <4>2 DEF StackRight, Bases
    <3>2. ASSUME NEW i \in 1..((n - 1) - 1)  PROVE Calls(stack'[i], stack'[i + 1])
      <4>1. i \in 1..(n - 1) /\ i + 1 \in 1..(n - 1)  BY <1>1, <2>1
      <4> QED  BY <1>2, <1>3, <4>1
    <3> QED  BY <1>1, <1>2, <2>2, <3>1, <3>2 DEF StackRight, Bases
  <2>4. ASSUME NEW i \in 1..(n - 1)
        PROVE  FrameRight(stack[i], i = Len(stack), ret, TableAbove(i))'
    <3>1. CASE i = n - 1
      <4>1. /\ stack'[i] = stack[i] /\ (i = Len(stack)') = TRUE /\ TableAbove(i)' = {}
            /\ i < n /\ i + 1 = n
        BY <1>1, <1>2, <2>1, <3>1 DEF TableAbove
      <4>2. stack[i].fn = "cache_flush" => TableAbove(i) = {Top.table}
        BY <1>1, <4>1 DEF TableAbove, n
      <4>3. Calls(stack[i], Top) /\ stack[i] \in Frames  BY <1>1, <1>3, <4>1
      <4>4. \A x : x = stack[i] => FrameRight(x, TRUE, r, {})'  BY <1>3, <4>2, <4>3
      <4> QED  BY <1>2, <1>5, <4>1, <4>4
    <3>2. CASE i # n - 1
      <4>1. /\ i < n /\ i < n - 1 /\ (i = Len(stack)') = FALSE /\ i + 1 \in 1..(n - 1)
        BY <1>1, <1>2, <3>2
      <4>2. stack'[i] = stack[i] /\ stack'[i + 1] = stack[i + 1]  BY <1>2, <4>1
      <4>3. TableAbove(i)' = TableAbove(i)  BY <1>2, <4>1, <4>2 DEF TableAbove, n
      <4>4. \A x, s : x = stack'[i] /\ s = TableAbove(i)' => FrameRight(x, FALSE, "none", s)'
        BY <1>3, <4>2, <4>3
      <4>5. \A x, s : x = stack'[i] /\ s = TableAbove(i)' => FrameRight(x, FALSE, r, s)'
        BY <4>4, LowerReturnNext
      <4> QED  BY <1>2, <1>5, <4>1, <4>5
    <3> QED  BY <3>1, <3>2
  <2> QED  BY <1>2, <2>3, <2>4 DEF FramesRight
<1> QED  BY <1>4, <1>5

\* A request takes the lock.
LEMMA FramesLock ==
  ASSUME StackRight, open' = open, open = "open", NEW f \in Frames, Lock(f), f.fn \in Bases,
         FrameRight(f, TRUE, "none", {})'
  PROVE  StackRight' /\ FramesRight'
<1>1. /\ stack' \in Seq(Frames) /\ stack' # <<>> /\ Len(stack') = 1
      /\ stack'[1] = f /\ ret' = "none"
  BY StackLock
<1>2. StackRight'  BY <1>1 DEF StackRight, Bases
<1>3. \A i \in 1..1 : i = 1  OBVIOUS
<1>4. TableAbove(1)' = {} /\ (1 = Len(stack)') = TRUE  BY <1>1 DEF TableAbove
<1>5. FrameRight(stack[1], 1 = Len(stack), ret, TableAbove(1))'  BY <1>1, <1>4
<1> QED  BY <1>1, <1>2, <1>3, <1>5 DEF FramesRight

\* A step that has nothing to do with the lock.
LEMMA FramesStay ==
  ASSUME StackRight, FramesRight, UNCHANGED <<stack, ret, open>>,
         stack = <<>> \/ (Keeps /\ \A f \in Frames : f = Top /\ FrameRight(f, TRUE, ret, {}) =>
                                     \A r : r = ret => FrameRight(f, TRUE, r, {})')
  PROVE  StackRight' /\ FramesRight'
<1>1. StackRight'  BY DEF StackRight
<1>2. CASE stack = <<>>
  <2>1. stack' = <<>> /\ Len(stack') = 0  BY <1>2
  <2> QED  BY <1>1, <2>1 DEF FramesRight
<1>3. CASE stack # <<>>
  <2> DEFINE n == Len(stack)
  <2>1. n \in Nat /\ n >= 1 /\ Top = stack[n] /\ Top \in Frames /\ FrameRight(Top, TRUE, ret, {})
    BY <1>3, TopRight
  <2>2. ASSUME NEW i \in 1..(n - 1)
        PROVE  /\ stack[i] \in Frames
               /\ \A x, s : x = stack[i] /\ s = TableAbove(i) => FrameRight(x, FALSE, "none", s)'
    BY <1>3, LowerRight
  <2>3. \A i : TableAbove(i)' = TableAbove(i)  BY DEF TableAbove
  <2>4. ASSUME NEW i \in 1..n
        PROVE  FrameRight(stack[i], i = Len(stack), ret, TableAbove(i))'
    <3>1. CASE i = n
      <4>1. stack'[i] = Top /\ (i = Len(stack)') = TRUE /\ TableAbove(i)' = {}
        BY <2>1, <3>1 DEF TableAbove
      <4>2. \A x, r : x = Top /\ r = ret' => FrameRight(x, TRUE, r, {})'  BY <1>3, <2>1
      <4> QED  BY <4>1, <4>2
    <3>2. CASE i # n
      <4>1. i \in 1..(n - 1) /\ (i = Len(stack)') = FALSE /\ stack'[i] = stack[i]
        BY <2>1, <3>2
      <4>2. \A x, s, r : x = stack'[i] /\ s = TableAbove(i)' => FrameRight(x, FALSE, r, s)'
        BY <2>2, <2>3, <4>1, LowerReturnNext
      <4> QED  BY <4>1, <4>2
    <3> QED  BY <3>1, <3>2
  <2> QED  BY <1>1, <2>4 DEF FramesRight
<1> QED  BY <1>1, <1>2, <1>3

\* What is enough for the calls below to know what they knew.
LEMMA KeepsLower ==
  ASSUME \A c \in Caches : dirty'[c] \subseteq dirty[c] /\ (Synced(c) => Synced(c)'),
         \A g \in Guest : req[g].pc = "linking" => req'[g].pc = "linking",
         (\A g \in Guest : req[g].pc = "idle") => \A g \in Guest : req'[g].pc = "idle",
         flushing' => flushing, header' => header
  PROVE  Keeps
<1> SUFFICES ASSUME NEW f \in Frames, NEW t, FrameRight(f, FALSE, "none", t)
             PROVE  FrameRight(f, FALSE, "none", t)'
  BY DEF Keeps
<1>0. "l2" \in Caches /\ "refcount" \in Caches  BY DEF Caches
<1>1. CASE f.fn = "cache_flush"
  <2>1. f.cache \in Caches  BY <1>1, FrameFields DEF CacheFrames
  <2> QED  BY <1>1, <2>1 DEF FrameRight, CacheFlushRight
<1>2. CASE f.fn \in {"entry_flush", "set_dependency", "free"}
  BY <1>2 DEF FrameRight, EntryFlushRight, OrderRight, FreeRight
<1>3. CASE f.fn = "link"
  <2>1. f.guest \in Guest  BY <1>3, FrameFields DEF LinkFrames
  <2> QED  BY <1>3, <2>1 DEF FrameRight, LinkRight
<1>4. CASE f.fn = "flush"
  BY <1>0, <1>4 DEF FrameRight, FlushRight
<1>5. CASE f.fn = "close"
  BY <1>0, <1>5 DEF FrameRight, CloseRight
<1> QED  BY <1>1, <1>2, <1>3, <1>4, <1>5, FrameFields

-----------------------------------------------------------------------------
(* The disk *)

Entries == Host \cup {None}
Owners == Guest \cup {None}

\* What places of the file hold.
LEMMA CellIn ==
  ASSUME NEW S
  PROVE  /\ \A x \in Cells(S) : x.last \in S /\ x.maybe \subseteq S /\ x.last \in x.maybe
         /\ \A v \in S : Cell(v) \in Cells(S) /\ Cell(v).last = v /\ Cell(v).maybe = {v}
         /\ \A x \in Cells(S), v \in S :
              Put(x, v) \in Cells(S) /\ Put(x, v).last = v /\ Put(x, v).maybe = x.maybe \cup {v}
BY DEF Cells, Cell, Put

\* The parts of the file.
LEMMA DiskFields ==
  ASSUME DiskType
  PROVE  /\ disk.l2 \in [Guest -> Cells(Entries)] /\ disk.refcount \in [Host -> Cells(Nat)]
         /\ disk.data \in [Host -> Cells(Owners)] /\ disk.header \in Cells(BOOLEAN)
BY DEF DiskType, Entries, Owners

\* What is on disk may be known better, and is not changed.
Settles(x, y) == y.last = x.last /\ y.maybe \subseteq x.maybe /\ x.last \in y.maybe
DiskSettles ==
  /\ \A g \in Guest : Settles(disk.l2[g], disk'.l2[g])
  /\ \A c \in Host : Settles(disk.refcount[c], disk'.refcount[c])
  /\ \A c \in Host : Settles(disk.data[c], disk'.data[c])
  /\ Settles(disk.header, disk'.header)

\* Nothing is written.
LEMMA DiskSame ==
  ASSUME DiskType, disk' = disk
  PROVE  DiskType' /\ DiskSettles
<1>1. DiskType'  BY DEF DiskType
<1>2. DiskSettles  BY DiskFields, CellIn DEF DiskSettles, Settles
<1> QED  BY <1>1, <1>2

\* A flush leaves what was last written.
LEMMA DiskFlushed ==
  ASSUME DiskType, disk' = Flushed
  PROVE  /\ DiskType' /\ DiskSettles
         /\ \A g \in Guest : disk'.l2[g].maybe = {disk.l2[g].last}
         /\ \A c \in Host : disk'.refcount[c].maybe = {disk.refcount[c].last}
         /\ \A c \in Host : disk'.data[c].maybe = {disk.data[c].last}
         /\ disk'.header.maybe = {disk.header.last}
<1>1. /\ disk'.l2 = Settle(disk.l2) /\ disk'.refcount = Settle(disk.refcount)
      /\ disk'.data = Settle(disk.data) /\ disk'.header = Cell(disk.header.last)
      /\ disk' = [l2 |-> disk'.l2, refcount |-> disk'.refcount, data |-> disk'.data,
                  header |-> disk'.header]
  BY DEF Flushed
<1>2. ASSUME NEW S, NEW D, NEW f \in [D -> Cells(S)]
      PROVE  /\ Settle(f) \in [D -> Cells(S)]
             /\ \A x \in D : Settle(f)[x].maybe = {f[x].last} /\ Settles(f[x], Settle(f)[x])
  <2>1. \A x \in D : f[x] \in Cells(S) /\ f[x].last \in S  BY CellIn
  <2>2. DOMAIN f = D /\ \A x \in D : Settle(f)[x] = Cell(f[x].last)  BY DEF Settle
  <2>3. \A x \in D : Cell(f[x].last) \in Cells(S)  BY <2>1, CellIn
  <2>4. Settle(f) \in [D -> Cells(S)]  BY <2>2, <2>3 DEF Settle
  <2> QED  BY <2>1, <2>2, <2>4, CellIn DEF Settles
<1>3. /\ disk'.l2 \in [Guest -> Cells(Entries)]
      /\ \A g \in Guest : disk'.l2[g].maybe = {disk.l2[g].last} /\ Settles(disk.l2[g], disk'.l2[g])
  BY <1>1, <1>2, DiskFields
<1>4. /\ disk'.refcount \in [Host -> Cells(Nat)]
      /\ \A c \in Host : /\ disk'.refcount[c].maybe = {disk.refcount[c].last}
                         /\ Settles(disk.refcount[c], disk'.refcount[c])
  BY <1>1, <1>2, DiskFields
<1>5. /\ disk'.data \in [Host -> Cells(Owners)]
      /\ \A c \in Host : /\ disk'.data[c].maybe = {disk.data[c].last}
                         /\ Settles(disk.data[c], disk'.data[c])
  BY <1>1, <1>2, DiskFields
<1>6. /\ disk'.header \in Cells(BOOLEAN) /\ disk'.header.maybe = {disk.header.last}
      /\ Settles(disk.header, disk'.header)
  BY <1>1, CellIn, DiskFields DEF Settles
<1>7. DiskType'  BY <1>1, <1>3, <1>4, <1>5, <1>6 DEF DiskType, Entries, Owners
<1> QED  BY <1>3, <1>4, <1>5, <1>6, <1>7 DEF DiskSettles

\* Every step that only flushes, or does not.
LEMMA DiskSettled ==
  ASSUME DiskType, disk' \in {disk, Flushed}
  PROVE  DiskType' /\ DiskSettles
BY DiskSame, DiskFlushed

\* qcow2_cache_entry_flush writes a table.
LEMMA DiskWriteL2 ==
  ASSUME DiskType, NEW g \in Guest, NEW v \in Entries,
         disk' = [disk EXCEPT !["l2"][g] = Put(@, v)]
  PROVE  /\ DiskType'
         /\ disk'.refcount = disk.refcount /\ disk'.data = disk.data /\ disk'.header = disk.header
         /\ disk'.l2[g].last = v /\ disk'.l2[g].maybe = disk.l2[g].maybe \cup {v}
         /\ \A x \in Guest \ {g} : disk'.l2[x] = disk.l2[x]
<1>1. disk.l2[g] \in Cells(Entries)  BY DiskFields
<1>2. /\ disk' = [disk EXCEPT !.l2 = [disk.l2 EXCEPT ![g] = Put(disk.l2[g], v)]]
  BY DEF DiskType
<1>3. /\ disk'.l2 = [disk.l2 EXCEPT ![g] = Put(disk.l2[g], v)]
      /\ disk'.refcount = disk.refcount /\ disk'.data = disk.data /\ disk'.header = disk.header
  BY <1>2 DEF DiskType
<1>4. Put(disk.l2[g], v) \in Cells(Entries)  BY <1>1, CellIn
<1>5. disk'.l2 \in [Guest -> Cells(Entries)]  BY <1>3, <1>4, DiskFields
<1>6. DiskType'  BY <1>2, <1>3, <1>5 DEF DiskType, Entries
<1> QED  BY <1>1, <1>3, <1>6, CellIn, DiskFields

\* The same for a refcount block.
LEMMA DiskWriteRefcount ==
  ASSUME DiskType, NEW c \in Host, NEW v \in Nat,
         disk' = [disk EXCEPT !["refcount"][c] = Put(@, v)]
  PROVE  /\ DiskType'
         /\ disk'.l2 = disk.l2 /\ disk'.data = disk.data /\ disk'.header = disk.header
         /\ disk'.refcount[c].last = v /\ disk'.refcount[c].maybe = disk.refcount[c].maybe \cup {v}
         /\ \A x \in Host \ {c} : disk'.refcount[x] = disk.refcount[x]
<1>1. disk.refcount[c] \in Cells(Nat)  BY DiskFields
<1>2. disk' = [disk EXCEPT !.refcount = [disk.refcount EXCEPT ![c] = Put(disk.refcount[c], v)]]
  BY DEF DiskType
<1>3. /\ disk'.refcount = [disk.refcount EXCEPT ![c] = Put(disk.refcount[c], v)]
      /\ disk'.l2 = disk.l2 /\ disk'.data = disk.data /\ disk'.header = disk.header
  BY <1>2 DEF DiskType
<1>4. Put(disk.refcount[c], v) \in Cells(Nat)  BY <1>1, CellIn
<1>5. disk'.refcount \in [Host -> Cells(Nat)]  BY <1>3, <1>4, DiskFields
<1>6. DiskType'  BY <1>2, <1>3, <1>5 DEF DiskType
<1> QED  BY <1>1, <1>3, <1>6, CellIn, DiskFields

\* The data of a request.
LEMMA DiskWriteData ==
  ASSUME DiskType, NEW c \in Host, NEW g \in Guest,
         disk' = [disk EXCEPT !.data[c] = Put(@, g)]
  PROVE  /\ DiskType'
         /\ disk'.l2 = disk.l2 /\ disk'.refcount = disk.refcount /\ disk'.header = disk.header
         /\ disk'.data[c].last = g
         /\ \A x \in Host \ {c} : disk'.data[x] = disk.data[x]
<1>1. disk.data[c] \in Cells(Owners) /\ g \in Owners  BY DiskFields DEF Owners
<1>2. disk' = [disk EXCEPT !.data = [disk.data EXCEPT ![c] = Put(disk.data[c], g)]]
  BY DEF DiskType
<1>3. /\ disk'.data = [disk.data EXCEPT ![c] = Put(disk.data[c], g)]
      /\ disk'.l2 = disk.l2 /\ disk'.refcount = disk.refcount /\ disk'.header = disk.header
  BY <1>2 DEF DiskType
<1>4. Put(disk.data[c], g) \in Cells(Owners)  BY <1>1, CellIn
<1>5. disk'.data \in [Host -> Cells(Owners)]  BY <1>3, <1>4, DiskFields
<1>6. DiskType'  BY <1>2, <1>3, <1>5 DEF DiskType, Owners
<1> QED  BY <1>1, <1>3, <1>6, CellIn, DiskFields

\* The dirty bit.
LEMMA DiskWriteHeader ==
  ASSUME DiskType, NEW v \in BOOLEAN, disk' = [disk EXCEPT !.header = Put(@, v)]
  PROVE  /\ DiskType'
         /\ disk'.l2 = disk.l2 /\ disk'.refcount = disk.refcount /\ disk'.data = disk.data
         /\ disk'.header.last = v /\ disk'.header.maybe = disk.header.maybe \cup {v}
<1>1. disk.header \in Cells(BOOLEAN)  BY DiskFields
<1>2. /\ disk'.header = Put(disk.header, v)
      /\ disk'.l2 = disk.l2 /\ disk'.refcount = disk.refcount /\ disk'.data = disk.data
  BY DEF DiskType
<1>3. Put(disk.header, v) \in Cells(BOOLEAN)  BY <1>1, CellIn
<1>4. DiskType'  BY <1>2, <1>3 DEF DiskType
<1> QED  BY <1>1, <1>2, <1>4, CellIn

-----------------------------------------------------------------------------
(* The order in which the caches are written *)

\* Counting guest clusters.
LEMMA CountMono ==
  ASSUME NEW S, NEW T, S \subseteq T, T \subseteq Guest
  PROVE  Cardinality(S) \in Nat /\ Cardinality(T) \in Nat /\ Cardinality(S) <= Cardinality(T)
<1>1. IsFiniteSet(T)  BY ClustersAssumption, FS_Subset
<1>2. IsFiniteSet(S) /\ Cardinality(S) <= Cardinality(T)  BY <1>1, FS_Subset
<1> QED  BY <1>1, <1>2, FS_CardinalityType

\* One guest cluster counts for one.
LEMMA CountOne == ASSUME NEW g PROVE Cardinality({g}) = 1
BY FS_Singleton

\* A set that counts for nothing is empty.
LEMMA CountNone == ASSUME NEW S, S \subseteq Guest, Cardinality(S) = 0 PROVE S = {}
<1>1. IsFiniteSet(S)  BY ClustersAssumption, FS_Subset
<1> QED  BY <1>1, FS_EmptySet

\* A count that is enough for a set of guest clusters is enough for a smaller one.
LEMMA Enough ==
  ASSUME NEW S, NEW T, S \subseteq T, T \subseteq Guest,
         NEW m \in Nat, NEW n \in Nat, n >= m, m >= Cardinality(T)
  PROVE  n >= Cardinality(S)
<1>1. Cardinality(S) \in Nat /\ Cardinality(T) \in Nat /\ Cardinality(S) <= Cardinality(T)
  BY CountMono
<1> QED  BY <1>1

\* What is on disk, what will be and what may be claimed, in this order.
LEMMA UseSets ==
  ASSUME NEW c
  PROVE  /\ MayUse(c) \subseteq WillUse(c) /\ WillUse(c) \subseteq Claims(c)
         /\ Claims(c) \subseteq Guest /\ Users(c) \subseteq Claims(c)
         /\ WillUse(c) \subseteq Guest /\ MayUse(c) \subseteq Guest /\ Users(c) \subseteq Guest
BY DEF MayUse, WillUse, Claims, Users

\* The same after a step.
LEMMA UseSetsNext ==
  ASSUME NEW c
  PROVE  /\ MayUse(c)' \subseteq WillUse(c)' /\ WillUse(c)' \subseteq Claims(c)'
         /\ Claims(c)' \subseteq Guest /\ Users(c)' \subseteq Claims(c)'
         /\ WillUse(c)' \subseteq Guest /\ MayUse(c)' \subseteq Guest /\ Users(c)' \subseteq Guest
BY DEF MayUse, WillUse, Claims, Users

-----------------------------------------------------------------------------
(* Steps of the calls that write the caches *)

InnerCalls == {"cache_flush", "entry_flush", "set_dependency"}

\* What none of these steps changes.
Inner ==
  /\ UNCHANGED <<lazy, l2, packed, refcount, header, req, age, unordered, leaked, flushing, open>>
  /\ faults' \in Nat /\ faults' >= faults

\* The request at the bottom of the stack stays where it is; when it goes on to
\* link a cluster, the L2 cache waits for the refcounts.
HeaderBase ==
  /\ stack # <<>>
  /\ \/ stack[1].fn = "link" /\ stack[1].at = "sync"
     \/ stack[1].fn = "close" /\ stack[1].at \in {"l2", "refcount", "file", "header"}
RequestKept ==
  /\ \A c : Freeing(c)' <=> Freeing(c)
  /\ \A g : Linking(g)' <=> Linking(g)
  /\ \A g : Pledged(g)' => Pledged(g) \/ depends'["l2"]
BaseKept == RequestKept /\ (HeaderBase => HeaderBase')

\* Arithmetic on the length of the stack.
LEMMA OneBelow == \A n \in Nat : n >= 1 /\ n # 1 => 1 \in 1..(n - 1)
OBVIOUS

\* The same, one level up.
LEMMA OneMore == \A n \in Nat : n - 1 = 1 => n = 1 + 1
OBVIOUS

\* The request at the bottom stays, when a call above it goes on ...
LEMMA BaseGoto ==
  ASSUME StackRight, FramesRight, stack # <<>>, Top.fn \in InnerCalls,
         NEW f \in Frames, f.fn = Top.fn, Goto(f)
  PROVE  BaseKept
<1>1. /\ stack \in Seq(Frames) /\ Len(stack) \in Nat /\ Len(stack) >= 1
      /\ Top = stack[Len(stack)] /\ (Len(stack) = 1 => Top.fn \in Bases)
  BY TopRight DEF StackRight
<1>2. /\ stack' # <<>> /\ Len(stack') = Len(stack) /\ ret' = "none"
      /\ \A i \in 1..(Len(stack) - 1) : stack'[i] = stack[i]
      /\ stack'[Len(stack)] = f
  BY <1>1, StackGoto
<1>3. CASE Len(stack) = 1
  <2>1. stack[1].fn = "entry_flush" /\ stack'[1].fn = "entry_flush"
    BY <1>1, <1>2, <1>3 DEF Bases, InnerCalls
  <2> QED  BY <2>1 DEF BaseKept, RequestKept, HeaderBase, Freeing, Linking, Pledged
<1>4. CASE Len(stack) # 1
  <2>1. 1 \in 1..(Len(stack) - 1)  BY <1>1, <1>4, OneBelow
  <2>2. stack'[1] = stack[1]  BY <1>2, <2>1
  <2> QED  BY <1>2, <1>4, <2>2 DEF BaseKept, RequestKept, HeaderBase, Freeing, Linking, Pledged
<1> QED  BY <1>3, <1>4

\* ... makes another ...
LEMMA BaseCall ==
  ASSUME StackRight, FramesRight, stack # <<>>, Top.fn \in InnerCalls,
         NEW f \in Frames, NEW g \in Frames, f.fn = Top.fn, Call(f, g)
  PROVE  BaseKept
<1>1. /\ stack \in Seq(Frames) /\ Len(stack) \in Nat /\ Len(stack) >= 1
      /\ Top = stack[Len(stack)] /\ (Len(stack) = 1 => Top.fn \in Bases)
  BY TopRight DEF StackRight
<1>2. /\ stack' # <<>> /\ Len(stack') = Len(stack) + 1 /\ ret' = "none"
      /\ \A i \in 1..(Len(stack) - 1) : stack'[i] = stack[i]
      /\ stack'[Len(stack)] = f
  BY <1>1, StackCall
<1>3. CASE Len(stack) = 1
  <2>1. stack[1].fn = "entry_flush" /\ stack'[1].fn = "entry_flush"
    BY <1>1, <1>2, <1>3 DEF Bases, InnerCalls
  <2> QED  BY <2>1 DEF BaseKept, RequestKept, HeaderBase, Freeing, Linking, Pledged
<1>4. CASE Len(stack) # 1
  <2>1. 1 \in 1..(Len(stack) - 1)  BY <1>1, <1>4, OneBelow
  <2>2. stack'[1] = stack[1]  BY <1>2, <2>1
  <2> QED  BY <1>2, <1>4, <2>2 DEF BaseKept, RequestKept, HeaderBase, Freeing, Linking, Pledged
<1> QED  BY <1>3, <1>4

\* ... or returns; only qcow2_cache_set_dependency tells it something.
LEMMA BaseReturn ==
  ASSUME StackRight, FramesRight, stack # <<>>, Top.fn \in InnerCalls, NEW r, Return(r),
         Top.fn = "set_dependency" /\ Top.cache = "l2" /\ r = "ok" => depends'["l2"]
  PROVE  BaseKept
<1>1. /\ stack \in Seq(Frames) /\ Len(stack) \in Nat /\ Len(stack) >= 1
      /\ Top = stack[Len(stack)] /\ (Len(stack) = 1 => Top.fn \in Bases)
  BY TopRight DEF StackRight
<1>2. /\ Len(stack') = Len(stack) - 1 /\ (stack' = <<>> <=> Len(stack) = 1)
      /\ \A i \in 1..(Len(stack) - 1) : stack'[i] = stack[i]
      /\ Len(stack) # 1 => ret' = r
  BY <1>1, StackReturn
<1>3. CASE Len(stack) = 1
  <2>1. stack[1].fn = "entry_flush" /\ stack' = <<>>
    BY <1>1, <1>2, <1>3 DEF Bases, InnerCalls
  <2> QED  BY <2>1 DEF BaseKept, RequestKept, HeaderBase, Freeing, Linking, Pledged
<1>4. CASE Len(stack) # 1
  <2>1. 1 \in 1..(Len(stack) - 1)  BY <1>1, <1>4, OneBelow
  <2>2. stack'[1] = stack[1] /\ stack' # <<>> /\ ret' = r  BY <1>2, <1>4, <2>1
  <2>3. ASSUME NEW g, Pledged(g)'  PROVE Pledged(g) \/ depends'["l2"]
    <3>1. CASE stack[1].at = "got"
      BY <2>2, <2>3, <3>1 DEF Pledged, Linking
    <3>2. CASE stack[1].at # "got"
      <4>1. stack[1].fn = "link" /\ stack[1].at = "table" /\ Len(stack') = 1 /\ r = "ok"
        BY <2>2, <2>3, <3>2 DEF Pledged, Linking
      <4>2. stack[1 + 1] = Top  BY <1>1, <1>2, <4>1, OneMore
      <4>3. Calls(stack[1], Top)  BY <2>1, <4>2 DEF StackRight
      <4>4. Top.fn = "set_dependency" /\ Top.cache = "l2"  BY <4>1, <4>3 DEF Calls
      <4> QED  BY <4>1, <4>4
    <3> QED  BY <3>1, <3>2
  <2> QED  BY <2>2, <2>3 DEF BaseKept, RequestKept, HeaderBase, Freeing, Linking
<1> QED  BY <1>3, <1>4

\* What is known to be on disk stays so.
LEMMA SyncedSettles ==
  ASSUME TypeOK, DiskType, DiskType', DiskSettles, UNCHANGED <<l2, refcount>>, NEW c \in Caches,
         Synced(c), dirty'[c] = dirty[c]
  PROVE  Synced(c)'
<1>1. ASSUME NEW x, NEW y, NEW v, Settles(x, y), x.maybe = {v}  PROVE y.maybe = {v}
  BY <1>1 DEF Settles
<1>2. ASSUME c = "l2", NEW g \in Guest  PROVE disk'.l2[g].maybe = {l2[g]}
  <2>1. Settles(disk.l2[g], disk'.l2[g]) /\ disk.l2[g].maybe = {l2[g]}
    BY <1>2 DEF Synced, DiskSettles
  <2> QED  BY <1>1, <2>1
<1>3. ASSUME c = "refcount", NEW h \in Host  PROVE disk'.refcount[h].maybe = {refcount[h]}
  <2>1. Settles(disk.refcount[h], disk'.refcount[h]) /\ disk.refcount[h].maybe = {refcount[h]}
    BY <1>3 DEF Synced, DiskSettles
  <2> QED  BY <1>1, <2>1
<1> QED  BY <1>2, <1>3 DEF Synced

\* The header and the request that is about to write it stay.
LEMMA HeaderStays ==
  ASSUME IInv, UNCHANGED <<lazy, header, open>>, faults' \in Nat, faults' >= faults,
         HeaderBase => HeaderBase', Settles(disk.header, disk'.header)
  PROVE  HeaderRight'
<1>1. header => lazy /\ disk'.header.maybe = {TRUE}
  BY DEF IInv, HeaderRight, Settles
<1>2. ASSUME disk'.header.last, ~header, open # "failed"  PROVE faults' > 0 \/ HeaderBase'
  <2>1. faults > 0 \/ HeaderBase  BY <1>2 DEF IInv, HeaderRight, HeaderBase, Settles
  <2>2. faults \in Nat  BY DEF IInv, ClosedRight
  <2> QED  BY <2>1, <2>2
<1> QED  BY <1>1, <1>2 DEF HeaderRight, HeaderBase

\* All of the invariant but the stack.
Rest ==
  /\ TypeOK /\ DiskType /\ DependenciesAcyclic /\ RequestsRight /\ Accounted
  /\ Clean /\ OrderKept /\ HeaderRight /\ DataRight /\ CopyRight /\ DurableRight /\ ClosedRight

\* Clusters that requests and entries refer to exist.
LEMMA HostsExist ==
  ASSUME TypeOK, RequestsRight, NEW g \in Guest
  PROVE  /\ req[g].pc # "idle" => req[g].host \in Host
         /\ l2[g] # None => l2[g] \in Host
         /\ req[g].pc \in {"idle", "data", "link", "linking"}
BY DEF TypeOK, RequestsRight

\* A flush brings the data with it.
LEMMA FlushedData ==
  ASSUME IInv, disk' = Flushed, UNCHANGED <<req, age, l2>>
  PROVE  DataSynced'
<1> SUFFICES ASSUME NEW g \in Guest
             PROVE  /\ req[g].pc = "linking" => disk'.data[req[g].host].maybe = {g}
                    /\ age[g] # "old" /\ l2[g] # None => disk'.data[l2[g]].maybe = {g}
  BY DEF DataSynced
<1>1. \A c \in Host : disk'.data[c].maybe = {disk.data[c].last}  BY DiskFlushed DEF IInv
<1>2. req[g].pc = "linking" => req[g].host \in Host /\ disk.data[req[g].host].last = g
  BY HostsExist DEF IInv, DataRight
<1>3. age[g] # "old" /\ l2[g] # None => l2[g] \in Host /\ disk.data[l2[g]].last = g
  BY HostsExist DEF IInv, DataRight
<1> QED  BY <1>1, <1>2, <1>3

\* The caches and the requests stay as they are; the file may be flushed, a cache
\* may cease to wait for what has happened, and the header may change.
Quiet == UNCHANGED <<lazy, l2, packed, refcount, dirty, req, unordered, leaked>>
AgeKept ==
  /\ age' \in [Guest -> {"old", "volatile", "flushing", "durable"}]
  /\ \A g \in Guest : age'[g] = "old" <=> age[g] = "old"
TablesSettle ==
  /\ \A g \in Guest : Settles(disk.l2[g], disk'.l2[g])
  /\ \A c \in Host : Settles(disk.refcount[c], disk'.refcount[c])
  /\ \A c \in Host : Settles(disk.data[c], disk'.data[c])
Quieted ==
  /\ TypeOK /\ DiskType /\ DependenciesAcyclic /\ RequestsRight /\ Accounted
  /\ Clean /\ OrderKept /\ DataRight /\ CopyRight /\ DurableRight

\* Requests and refcounts are left alone.
LEMMA RequestsStay ==
  ASSUME IInv, UNCHANGED <<l2, refcount, req, leaked>>, RequestKept
  PROVE  RequestsRight' /\ Accounted'
<1>1. RequestsRight'  BY DEF IInv, RequestKept, RequestsRight
<1>2. \A c : Users(c)' = Users(c) /\ Owed(c)' = Owed(c)  BY DEF RequestKept, Users, Owed
<1>3. Accounted'  BY <1>2 DEF IInv, RequestKept, Accounted
<1> QED  BY <1>1, <1>3

\* What is on disk for certain stays so.
LEMMA SettlesKnown ==
  ASSUME TablesSettle, NEW v
  PROVE  /\ \A g \in Guest : disk.l2[g].maybe = {v} => disk'.l2[g].maybe = {v}
         /\ \A c \in Host : disk.data[c].maybe = {v} => disk'.data[c].maybe = {v}
<1>1. ASSUME NEW g \in Guest, disk.l2[g].maybe = {v}  PROVE disk'.l2[g].maybe = {v}
  <2>1. Settles(disk.l2[g], disk'.l2[g])  BY DEF TablesSettle
  <2> QED  BY <1>1, <2>1 DEF Settles
<1>2. ASSUME NEW c \in Host, disk.data[c].maybe = {v}  PROVE disk'.data[c].maybe = {v}
  <2>1. Settles(disk.data[c], disk'.data[c])  BY DEF TablesSettle
  <2> QED  BY <1>2, <2>1 DEF Settles
<1> QED  BY <1>1, <1>2

\* Every reference is counted.
LEMMA UsersCounted ==
  ASSUME TypeOK, Accounted, NEW c \in Host
  PROVE  refcount[c] >= Cardinality(Users(c))
<1>1. Cardinality(Users(c)) \in Nat /\ Owed(c) \in Nat /\ refcount[c] \in Nat
  BY CountMono, UseSets DEF Owed, TypeOK
<1>2. refcount[c] >= Cardinality(Users(c)) + Owed(c)  BY DEF Accounted
<1> QED  BY <1>1, <1>2

\* A cache may cease to wait once the other one is on disk: it then holds all that
\* the order is about.
LEMMA OrderSettles ==
  ASSUME IInv, Quiet, RequestKept, DiskType', TablesSettle, Ordered' => Ordered,
         \A c \in Caches : depends[c] /\ ~depends'[c] => Synced(Other(c))
  PROVE  OrderKept'
<1>0. "l2" \in Caches /\ "refcount" \in Caches /\ Other("l2") = "refcount" /\ Other("refcount") = "l2"
  BY DEF Caches, Other
<1> SUFFICES ASSUME Ordered' PROVE CrashSafe' /\ L2Safe' /\ RefcountSafe'  BY DEF OrderKept
<1>1. Ordered /\ CrashSafe /\ L2Safe /\ RefcountSafe  BY DEF IInv, OrderKept
<1>2. \A c \in Host : /\ disk'.refcount[c].maybe \subseteq disk.refcount[c].maybe
                      /\ disk'.refcount[c].maybe \subseteq Nat /\ refcount[c] \in Nat
  BY DiskFields, CellIn DEF TablesSettle, Settles, IInv, TypeOK
<1>3. \A c : MayUse(c)' \subseteq MayUse(c) /\ Claims(c)' \subseteq Claims(c)
  BY DEF MayUse, Claims, TablesSettle, Settles, Quiet
<1>4. ~depends'["l2"] => \A c : WillUse(c)' \subseteq WillUse(c)
  BY DEF WillUse, TablesSettle, Settles, Quiet, RequestKept
<1>5. CrashSafe'
  <2> SUFFICES ASSUME NEW c \in Host, NEW count \in disk'.refcount[c].maybe
               PROVE  count >= Cardinality(MayUse(c)')
    BY DEF CrashSafe, MayUse
  <2>1. count >= Cardinality(MayUse(c))  BY <1>1, <1>2 DEF CrashSafe, MayUse, Ordered
  <2> QED  BY <1>2, <1>3, <2>1, Enough, UseSets
<1>6. L2Safe'
  <2> SUFFICES ASSUME ~depends'["l2"], NEW c \in Host, NEW count \in disk'.refcount[c].maybe
               PROVE  count >= Cardinality(WillUse(c)')
    BY DEF L2Safe
  <2>1. CASE ~depends["l2"]
    <3>1. count >= Cardinality(WillUse(c))  BY <1>1, <1>2, <2>1 DEF L2Safe
    <3> QED  BY <1>2, <1>4, <3>1, Enough, UseSets
  <2>2. CASE depends["l2"]
    <3>1. Synced("refcount")  BY <1>0, <2>2
    <3>2. count = refcount[c]  BY <1>2, <3>1 DEF Synced
    <3>3. ~depends["refcount"]  BY <2>2 DEF IInv, DependenciesAcyclic, Caches
    <3>4. refcount[c] >= Cardinality(Claims(c))  BY <1>1, <3>3 DEF RefcountSafe
    <3>5. WillUse(c)' \subseteq Claims(c)  BY <1>3, UseSetsNext
    <3> QED  BY <1>2, <3>2, <3>4, <3>5, Enough, UseSets
  <2> QED  BY <2>1, <2>2
<1>7. RefcountSafe'
  <2> SUFFICES ASSUME ~depends'["refcount"], NEW c \in Host
               PROVE  refcount[c] >= Cardinality(Claims(c)')
    BY DEF RefcountSafe, Quiet
  <2>1. CASE ~depends["refcount"]
    <3>1. refcount[c] >= Cardinality(Claims(c))  BY <1>1, <2>1 DEF RefcountSafe
    <3> QED  BY <1>2, <1>3, <3>1, Enough, UseSets
  <2>2. CASE depends["refcount"]
    <3>1. Synced("l2")  BY <1>0, <2>2
    <3>2. Claims(c) \subseteq Users(c)  BY <3>1 DEF Synced, Claims, Users
    <3>3. Users(c) \subseteq Guest /\ Claims(c)' \subseteq Users(c)  BY <1>3, <3>2, UseSets
    <3>4. refcount[c] >= Cardinality(Users(c))  BY UsersCounted DEF IInv
    <3> QED  BY <1>2, <3>3, <3>4, Enough
  <2> QED  BY <2>1, <2>2
<1> QED  BY <1>5, <1>6, <1>7

\* What the invariant says, but for the stack and the header, survives such a step.
LEMMA QuietStep ==
  ASSUME IInv, Quiet, RequestKept, AgeKept, DiskType', TablesSettle,
         ret' \in {"none", "ok", "err"}, header' \in BOOLEAN,
         depends' \in [Caches -> BOOLEAN], depends_on_flush' \in [Caches -> BOOLEAN],
         DependenciesAcyclic',
         (Ordered' => Ordered) \/ OrderKept',
         \A c \in Caches : depends[c] /\ ~depends'[c] => Synced(Other(c)),
         Awaited /\ ~Awaited' => DataSynced',
         DurableRight' \/ (age' = age /\ (flushing' => flushing \/ dirty["l2"] = {}))
  PROVE  Quieted'
<1>1. TypeOK'  BY DEF IInv, TypeOK, Quiet, AgeKept
<1>2. RequestsRight' /\ Accounted'  BY RequestsStay DEF Quiet
<1>3. Clean'  BY DEF IInv, Clean, Quiet, TablesSettle, Settles
<1>4. ASSUME NEW g \in Guest
      PROVE  /\ req[g].pc # "idle" => Settles(disk.data[req[g].host], disk'.data[req[g].host])
             /\ l2[g] # None => Settles(disk.data[l2[g]], disk'.data[l2[g]])
             /\ Settles(disk.l2[g], disk'.l2[g])
             /\ req[g].pc # "idle" => req[g].host \in Host
             /\ l2[g] # None => l2[g] \in Host
  BY HostsExist DEF IInv, TablesSettle
<1>5. DataRight'  BY <1>4 DEF IInv, DataRight, Quiet, AgeKept, Settles
<1>6. DurableRight'
  <2> SUFFICES ASSUME age' = age, flushing' => flushing \/ dirty["l2"] = {}, NEW g \in Guest
               PROVE  /\ age[g] = "durable" =>
                           /\ disk'.l2[g].maybe = {l2[g]}
                           /\ l2[g] # None => disk'.data[l2[g]].maybe = {g}
                      /\ flushing' /\ age[g] = "flushing" => disk'.l2[g].last = l2[g]
    BY DEF DurableRight, Quiet
  <2>1. age[g] = "durable" => /\ disk.l2[g].maybe = {l2[g]}
                              /\ l2[g] # None => disk.data[l2[g]].maybe = {g}
    BY DEF IInv, DurableRight
  <2>2. flushing' /\ age[g] = "flushing" => disk'.l2[g].last = l2[g]
    BY <1>4 DEF IInv, DurableRight, Clean, Settles
  <2>3. age[g] = "durable" => disk'.l2[g].maybe = {l2[g]}  BY <2>1, SettlesKnown
  <2>4. age[g] = "durable" /\ l2[g] # None => disk'.data[l2[g]].maybe = {g}
    BY <1>4, <2>1, SettlesKnown
  <2> QED  BY <2>2, <2>3, <2>4
<1>7. CopyRight'
  <2> SUFFICES ASSUME ~unordered, NEW g \in Guest
               PROVE  /\ /\ req[g].pc = "idle"
                         /\ req[g].cow = "copy" \/ (req[g].cow = "skip" /\ ~lazy)
                         /\ age[g] # "old" /\ l2[g] # None
                         => disk'.data[l2[g]].maybe = {g} \/ (g \in dirty["l2"] /\ Awaited')
                      /\ /\ req[g].pc = "linking"
                         /\ req[g].cow = "copy" \/ (req[g].cow = "skip" /\ ~lazy /\ Pledged(g)')
                         => disk'.data[req[g].host].maybe = {g} \/ Awaited'
    BY DEF CopyRight, Quiet, AgeKept
  <2>1. Awaited /\ ~Awaited' =>
          /\ req[g].pc = "linking" => disk'.data[req[g].host].maybe = {g}
          /\ age[g] # "old" /\ l2[g] # None => disk'.data[l2[g]].maybe = {g}
    BY DEF DataSynced, Quiet, AgeKept
  <2>2. ASSUME req[g].pc = "idle", req[g].cow = "copy" \/ (req[g].cow = "skip" /\ ~lazy),
               age[g] # "old", l2[g] # None
        PROVE  disk'.data[l2[g]].maybe = {g} \/ (g \in dirty["l2"] /\ Awaited')
    <3>1. disk.data[l2[g]].maybe = {g} \/ (g \in dirty["l2"] /\ Awaited)
      BY <2>2 DEF IInv, CopyRight
    <3>2. disk.data[l2[g]].maybe = {g} => disk'.data[l2[g]].maybe = {g}
      BY <1>4, <2>2, SettlesKnown
    <3> QED  BY <2>1, <2>2, <3>1, <3>2
  <2>3. ASSUME req[g].pc = "linking",
               req[g].cow = "copy" \/ (req[g].cow = "skip" /\ ~lazy /\ Pledged(g)')
        PROVE  disk'.data[req[g].host].maybe = {g} \/ Awaited'
    <3>1. CASE depends'["l2"]  BY <3>1 DEF Awaited
    <3>2. CASE ~depends'["l2"]
      <4>1. Pledged(g)' => Pledged(g)  BY <3>2 DEF RequestKept
      <4>2. disk.data[req[g].host].maybe = {g} \/ Awaited
        BY <2>3, <4>1 DEF IInv, CopyRight
      <4>3. disk.data[req[g].host].maybe = {g} => disk'.data[req[g].host].maybe = {g}
        BY <1>4, <2>3, SettlesKnown
      <4> QED  BY <2>1, <2>3, <4>2, <4>3
    <3> QED  BY <3>1, <3>2
  <2> QED  BY <2>2, <2>3
<1>8. OrderKept'  BY OrderSettles
<1> QED  BY <1>1, <1>2, <1>3, <1>5, <1>6, <1>7, <1>8 DEF Quieted

\* A step of the calls that writes nothing.
LEMMA EffectSettle ==
  ASSUME IInv, Inner, BaseKept, disk' \in {disk, Flushed}, dirty' = dirty,
         ret' \in {"none", "ok", "err"},
         depends' \in [Caches -> BOOLEAN], depends_on_flush' \in [Caches -> BOOLEAN],
         DependenciesAcyclic',
         \A c \in Caches : depends[c] /\ ~depends'[c] => Synced(Other(c)),
         Awaited /\ ~Awaited' => DataSynced'
  PROVE  Rest'
<1>1. DiskType' /\ DiskSettles /\ TablesSettle
  BY DiskSettled DEF IInv, DiskSettles, TablesSettle
<1>2. Quiet /\ header' \in BOOLEAN  BY DEF Quiet, Inner, IInv, TypeOK
<1>3. Ordered' => Ordered  BY <1>1 DEF Ordered, Inner, DiskSettles, Settles
<1>4. AgeKept  BY DEF AgeKept, Inner, IInv, TypeOK
<1>5. Quieted'  BY <1>1, <1>2, <1>3, <1>4, QuietStep DEF Inner, BaseKept
<1>6. HeaderRight'  BY <1>1, HeaderStays DEF DiskSettles, Inner, BaseKept
<1>7. ClosedRight'
  <2>1. open = "closed" => Synced("l2")' /\ Synced("refcount")'
    BY <1>1, SyncedSettles DEF IInv, ClosedRight, Inner, Caches
  <2> QED  BY <2>1 DEF IInv, ClosedRight, Inner
<1> QED  BY <1>5, <1>6, <1>7 DEF Rest, Quieted

\* A table of the L2 cache is written, when nothing has to be written before it.
LEMMA EffectWriteL2 ==
  ASSUME IInv, Inner, BaseKept, NEW t \in Guest,
         disk' = [disk EXCEPT !["l2"][t] = Put(@, l2[t])],
         dirty' \in {dirty, [dirty EXCEPT !["l2"] = @ \ {t}]},
         UNCHANGED <<depends, depends_on_flush>>, ~depends["l2"], ~depends_on_flush["l2"],
         ret' \in {"none", "ok", "err"}
  PROVE  /\ Rest'
         /\ \A c \in Caches : dirty'[c] \subseteq dirty[c] /\ (Synced(c) => Synced(c)')
<1>0. "l2" \in Caches /\ "refcount" \in Caches /\ Caches = {"l2", "refcount"}  BY DEF Caches
<1>1. l2[t] \in Entries /\ l2 \in [Guest -> Entries]  BY DEF IInv, TypeOK, Entries
<1>2. /\ DiskType'
      /\ disk'.refcount = disk.refcount /\ disk'.data = disk.data /\ disk'.header = disk.header
      /\ disk'.l2[t].last = l2[t] /\ disk'.l2[t].maybe = disk.l2[t].maybe \cup {l2[t]}
      /\ \A x \in Guest \ {t} : disk'.l2[x] = disk.l2[x]
  BY <1>1, DiskWriteL2 DEF IInv
<1>3. /\ dirty' \in [Caches -> SUBSET (Guest \cup Host)]
      /\ dirty["l2"] \ {t} \subseteq dirty'["l2"] /\ dirty'["l2"] \subseteq dirty["l2"]
      /\ dirty'["refcount"] = dirty["refcount"]
  BY <1>0 DEF IInv, ClosedRight
<1>4. TypeOK'  BY <1>3 DEF IInv, TypeOK, Inner
<1>5. DependenciesAcyclic'  BY DEF IInv, DependenciesAcyclic
<1>6. RequestsRight' /\ Accounted'  BY RequestsStay DEF Inner, BaseKept
<1>7. Clean'
  <2>1. \A g \in Guest \ dirty'["l2"] : disk'.l2[g].last = l2[g]
    BY <1>2, <1>3 DEF IInv, Clean
  <2> QED  BY <1>2, <1>3, <2>1 DEF IInv, Clean, Inner
<1>8. HeaderRight'
  <2>1. Settles(disk.header, disk'.header)  BY <1>2, DiskFields, CellIn DEF IInv, Settles
  <2> QED  BY <2>1, HeaderStays DEF Inner, BaseKept
<1>9. DataRight'  BY <1>2 DEF IInv, DataRight, Inner
<1>10. ASSUME NEW g \in Guest, disk.l2[g].maybe = {l2[g]}  PROVE disk'.l2[g].maybe = {l2[g]}
  BY <1>2, <1>10
<1>11. DurableRight'
  <2>1. ASSUME NEW g \in Guest, flushing, age[g] = "flushing"  PROVE disk'.l2[g].last = l2[g]
    BY <1>2, <2>1 DEF IInv, DurableRight
  <2>2. ASSUME NEW g \in Guest, age[g] = "durable"
        PROVE  disk'.l2[g].maybe = {l2[g]} /\ (l2[g] # None => disk'.data[l2[g]].maybe = {g})
    BY <1>2, <1>10, <2>2 DEF IInv, DurableRight
  <2> QED  BY <2>1, <2>2 DEF DurableRight, Inner
<1>12. \A c \in Caches : dirty'[c] \subseteq dirty[c] /\ (Synced(c) => Synced(c)')
  <2>1. Synced("l2") => Synced("l2")'  BY <1>3, <1>10 DEF Synced, Inner
  <2>2. Synced("refcount") => Synced("refcount")'  BY <1>2, <1>3 DEF Synced, Inner
  <2> QED  BY <1>0, <1>3, <2>1, <2>2
<1>13. ClosedRight'  BY <1>0, <1>3, <1>12 DEF IInv, ClosedRight, Inner
<1>14. CopyRight'
  <2>1. ~Awaited /\ Awaited' = Awaited  BY DEF Awaited
  <2>2. \A g : Pledged(g)' => Pledged(g)  BY DEF BaseKept, RequestKept
  <2> QED  BY <1>2, <2>1, <2>2 DEF IInv, CopyRight, Inner
<1>15. OrderKept'
  <2> SUFFICES ASSUME Ordered' PROVE CrashSafe' /\ L2Safe' /\ RefcountSafe'  BY DEF OrderKept
  <2>0. Ordered /\ L2Safe /\ RefcountSafe
    BY <1>2 DEF IInv, OrderKept, Ordered, Inner
  <2>1. \A c \in Host : disk.refcount[c].maybe \subseteq Nat /\ refcount[c] \in Nat
    BY DiskFields, CellIn DEF IInv, TypeOK
  <2>2. \A c, g : g \in Guest /\ c \in disk'.l2[g].maybe => c \in disk.l2[g].maybe \/ l2[g] = c
    BY <1>2
  <2>3. \A c : WillUse(c)' \subseteq WillUse(c)
    BY <2>2 DEF WillUse, Inner, BaseKept, RequestKept
  <2>4. \A c : Claims(c)' \subseteq Claims(c)
    BY <2>2 DEF Claims, Inner
  <2>5. ASSUME NEW c \in Host, NEW count \in disk'.refcount[c].maybe
        PROVE  count \in Nat /\ count >= Cardinality(WillUse(c))
    BY <1>2, <2>0, <2>1 DEF L2Safe
  <2>6. CrashSafe'
    <3> SUFFICES ASSUME NEW c \in Host, NEW count \in disk'.refcount[c].maybe
                 PROVE  count >= Cardinality(MayUse(c)')
      BY DEF CrashSafe, MayUse
    <3>1. MayUse(c)' \subseteq WillUse(c)  BY <2>3, UseSetsNext
    <3> QED  BY <2>5, <3>1, Enough, UseSets
  <2>7. L2Safe'
    <3> SUFFICES ASSUME NEW c \in Host, NEW count \in disk'.refcount[c].maybe
                 PROVE  count >= Cardinality(WillUse(c)')
      BY DEF L2Safe
    <3> QED  BY <2>3, <2>5, Enough, UseSets
  <2>8. RefcountSafe'
    <3> SUFFICES ASSUME ~depends["refcount"], NEW c \in Host
                 PROVE  refcount[c] >= Cardinality(Claims(c)')
      BY DEF RefcountSafe, Inner
    <3>1. refcount[c] >= Cardinality(Claims(c))  BY <2>0 DEF RefcountSafe
    <3> QED  BY <2>1, <2>4, <3>1, Enough, UseSets
  <2> QED  BY <2>6, <2>7, <2>8
<1> QED
  BY <1>2, <1>4, <1>5, <1>6, <1>7, <1>8, <1>9, <1>11, <1>12, <1>13, <1>14, <1>15 DEF Rest

\* A refcount block is.
LEMMA EffectWriteRefcount ==
  ASSUME IInv, Inner, BaseKept, NEW t \in Host,
         disk' = [disk EXCEPT !["refcount"][t] = Put(@, refcount[t])],
         dirty' \in {dirty, [dirty EXCEPT !["refcount"] = @ \ {t}]},
         UNCHANGED <<depends, depends_on_flush>>, ~depends["refcount"],
         ret' \in {"none", "ok", "err"}
  PROVE  /\ Rest'
         /\ \A c \in Caches : dirty'[c] \subseteq dirty[c] /\ (Synced(c) => Synced(c)')
<1>0. "l2" \in Caches /\ "refcount" \in Caches /\ Caches = {"l2", "refcount"}  BY DEF Caches
<1>1. refcount[t] \in Nat /\ refcount \in [Host -> Nat]  BY DEF IInv, TypeOK
<1>2. /\ DiskType'
      /\ disk'.l2 = disk.l2 /\ disk'.data = disk.data /\ disk'.header = disk.header
      /\ disk'.refcount[t].last = refcount[t]
      /\ disk'.refcount[t].maybe = disk.refcount[t].maybe \cup {refcount[t]}
      /\ \A x \in Host \ {t} : disk'.refcount[x] = disk.refcount[x]
  BY <1>1, DiskWriteRefcount DEF IInv
<1>3. /\ dirty' \in [Caches -> SUBSET (Guest \cup Host)]
      /\ dirty["refcount"] \ {t} \subseteq dirty'["refcount"] /\ dirty'["refcount"] \subseteq dirty["refcount"]
      /\ dirty'["l2"] = dirty["l2"]
  BY <1>0 DEF IInv, ClosedRight
<1>4. TypeOK'  BY <1>3 DEF IInv, TypeOK, Inner
<1>5. DependenciesAcyclic'  BY DEF IInv, DependenciesAcyclic
<1>6. RequestsRight' /\ Accounted'  BY RequestsStay DEF Inner, BaseKept
<1>7. Clean'
  <2>1. \A c \in Host \ dirty'["refcount"] : disk'.refcount[c].last = refcount[c]
    BY <1>2, <1>3 DEF IInv, Clean
  <2> QED  BY <1>2, <1>3, <2>1 DEF IInv, Clean, Inner
<1>8. HeaderRight'
  <2>1. Settles(disk.header, disk'.header)  BY <1>2, DiskFields, CellIn DEF IInv, Settles
  <2> QED  BY <2>1, HeaderStays DEF Inner, BaseKept
<1>9. DataRight'  BY <1>2 DEF IInv, DataRight, Inner
<1>10. ASSUME NEW c \in Host, disk.refcount[c].maybe = {refcount[c]}
       PROVE  disk'.refcount[c].maybe = {refcount[c]}
  BY <1>2, <1>10
<1>11. DurableRight'  BY <1>2 DEF IInv, DurableRight, Inner
<1>12. \A c \in Caches : dirty'[c] \subseteq dirty[c] /\ (Synced(c) => Synced(c)')
  <2>1. Synced("refcount") => Synced("refcount")'  BY <1>3, <1>10 DEF Synced, Inner
  <2>2. Synced("l2") => Synced("l2")'  BY <1>2, <1>3 DEF Synced, Inner
  <2> QED  BY <1>0, <1>3, <2>1, <2>2
<1>13. ClosedRight'  BY <1>0, <1>3, <1>12 DEF IInv, ClosedRight, Inner
<1>14. CopyRight'
  <2>1. Awaited' = Awaited /\ (depends'["l2"] => Awaited)  BY DEF Awaited
  <2>2. \A g : Pledged(g)' => Pledged(g) \/ Awaited  BY <2>1 DEF BaseKept, RequestKept
  <2> QED  BY <1>2, <1>3, <2>1, <2>2 DEF IInv, CopyRight, Inner
<1>15. OrderKept'
  <2> SUFFICES ASSUME Ordered' PROVE CrashSafe' /\ L2Safe' /\ RefcountSafe'  BY DEF OrderKept
  <2>0. Ordered /\ CrashSafe /\ L2Safe /\ RefcountSafe
    BY <1>2 DEF IInv, OrderKept, Ordered, Inner
  <2>1. \A c \in Host : disk.refcount[c].maybe \subseteq Nat /\ refcount[c] \in Nat
    BY DiskFields, CellIn DEF IInv, TypeOK
  <2>2. ASSUME NEW c \in Host, NEW count \in disk'.refcount[c].maybe
        PROVE  count \in Nat /\ (count \in disk.refcount[c].maybe \/ count = refcount[c])
    BY <1>2, <2>1
  <2>3. ~depends'["l2"] => \A c : WillUse(c)' \subseteq WillUse(c)
    BY <1>2 DEF WillUse, Inner, BaseKept, RequestKept
  <2>4. \A c : Claims(c)' = Claims(c) /\ MayUse(c)' = MayUse(c)
    BY <1>2 DEF Claims, MayUse, Inner
  <2>5. \A c \in Host : refcount[c] >= Cardinality(Claims(c))
    BY <2>0 DEF RefcountSafe
  <2>6. CrashSafe'
    <3> SUFFICES ASSUME NEW c \in Host, NEW count \in disk'.refcount[c].maybe
                 PROVE  count >= Cardinality(MayUse(c)')
      BY DEF CrashSafe, MayUse
    <3>1. CASE count \in disk.refcount[c].maybe
      BY <2>0, <2>4, <3>1 DEF CrashSafe, Ordered, MayUse
    <3>2. CASE count = refcount[c]
      <4>1. MayUse(c)' \subseteq Claims(c)  BY <2>4, UseSets
      <4> QED  BY <2>1, <2>5, <3>2, <4>1, Enough, UseSets
    <3> QED  BY <2>2, <3>1, <3>2
  <2>7. L2Safe'
    <3> SUFFICES ASSUME ~depends'["l2"], NEW c \in Host, NEW count \in disk'.refcount[c].maybe
                 PROVE  count >= Cardinality(WillUse(c)')
      BY DEF L2Safe
    <3>1. CASE count \in disk.refcount[c].maybe
      <4>1. count >= Cardinality(WillUse(c))  BY <2>0, <3>1 DEF L2Safe
      <4> QED  BY <2>2, <2>3, <4>1, Enough, UseSets
    <3>2. CASE count = refcount[c]
      <4>1. WillUse(c)' \subseteq Claims(c)  BY <2>3, UseSets
      <4> QED  BY <2>1, <2>5, <3>2, <4>1, Enough, UseSets
    <3> QED  BY <2>2, <3>1, <3>2
  <2>8. RefcountSafe'  BY <2>4, <2>5 DEF RefcountSafe, Inner
  <2> QED  BY <2>6, <2>7, <2>8
<1> QED
  BY <1>2, <1>4, <1>5, <1>6, <1>7, <1>8, <1>9, <1>11, <1>12, <1>13, <1>14, <1>15 DEF Rest

\* The invariant and its parts.
LEMMA WholeInvariant ==
  (IInv <=> Rest /\ StackRight /\ FramesRight) /\ (IInv' <=> Rest' /\ StackRight' /\ FramesRight')
BY DEF IInv, Rest

\* Calls below others do not mind a flush of the file.
LEMMA SettleKeeps ==
  ASSUME IInv, Inner, disk' \in {disk, Flushed}, dirty' = dirty
  PROVE  Keeps
<1>1. DiskType' /\ DiskSettles  BY DiskSettled DEF IInv
<1>2. \A c \in Caches : dirty'[c] \subseteq dirty[c] /\ (Synced(c) => Synced(c)')
  BY <1>1, SyncedSettles DEF IInv, Inner
<1> QED  BY <1>2, KeepsLower DEF Inner

\* What the caller learns when qcow2_cache_flush returns.
LEMMA CacheFlushReturns ==
  ASSUME Top.fn = "cache_flush", NEW c \in Caches, c = Top.cache, Keeps, NEW r \in {"ok", "err"},
         r = "ok" => dirty'[c] = {} /\ (Top.sync => Synced(c)' /\ DataSynced'),
         NEW f \in Frames, NEW t, Calls(f, Top), FrameRight(f, FALSE, "none", t)
  PROVE  FrameRight(f, TRUE, r, {})'
<1>1. FrameRight(f, FALSE, "none", t)'  BY DEF Keeps
<1>2. f.fn \in {"entry_flush", "set_dependency", "flush", "close"}  BY DEF Calls
<1>3. CASE f.fn = "entry_flush"
  <2>1. ~f.ready /\ Top.cache = Other(f.cache) /\ Top.sync  BY <1>3 DEF Calls
  <2>2. f.table \in Tables(f.cache)  BY <1>1, <1>3 DEF FrameRight, EntryFlushRight, Tables
  <2>3. r = "ok" => Synced(Other(f.cache))' /\ DataSynced'  BY <2>1
  <2>4. EntryFlushRight(f, TRUE, r)'  BY <2>1, <2>2, <2>3 DEF EntryFlushRight, Tables
  <2> QED  BY <1>3, <2>4 DEF FrameRight
<1>4. CASE f.fn = "set_dependency"
  <2>1. Top.cache = f.cache /\ Top.sync  BY <1>4 DEF Calls
  <2>2. OrderRight(f, TRUE, r)'  BY <2>1 DEF OrderRight
  <2> QED  BY <1>4, <2>2 DEF FrameRight
<1>5. CASE f.fn = "flush"
  <2>1. FlushRight(f, FALSE, "none")'  BY <1>1, <1>5 DEF FrameRight
  <2>2. f.at = "refcount" => Top.cache = "l2"  BY <1>5 DEF Calls
  <2>3. FlushRight(f, TRUE, r)'  BY <2>1, <2>2 DEF FlushRight
  <2> QED  BY <1>5, <2>3 DEF FrameRight
<1>6. CASE f.fn = "close"
  <2>1. CloseRight(f, FALSE, "none")'  BY <1>1, <1>6 DEF FrameRight
  <2>2. /\ f.at = "flushed_l2" => Top.cache = "l2" /\ Top.sync
        /\ f.at = "flushed" => Top.cache = "refcount" /\ Top.sync
    BY <1>6 DEF Calls
  <2>3. CloseRight(f, TRUE, r)'  BY <2>1, <2>2 DEF CloseRight
  <2> QED  BY <1>6, <2>3 DEF FrameRight
<1> QED  BY <1>2, <1>3, <1>4, <1>5, <1>6

\* When qcow2_cache_entry_flush does.
LEMMA EntryFlushReturns ==
  ASSUME Top.fn = "entry_flush", Keeps, NEW r \in {"ok", "err"},
         r = "ok" => dirty'[Top.cache] = dirty[Top.cache] \ {Top.table},
         NEW f \in Frames, NEW t, Calls(f, Top), FrameRight(f, FALSE, "none", t),
         f.fn = "cache_flush" => t = {Top.table}
  PROVE  FrameRight(f, TRUE, r, {})'
<1>1. FrameRight(f, FALSE, "none", t)'  BY DEF Keeps
<1>2. f.fn \in {"cache_flush", "link"}  BY DEF Calls
<1>3. CASE f.fn = "cache_flush"
  <2>1. f.cache = Top.cache /\ t = {Top.table}  BY <1>3 DEF Calls
  <2>2. f.left \subseteq Tables(f.cache) /\ (f.failed \/ dirty[f.cache] \subseteq f.left \cup t)
    BY <1>3 DEF FrameRight, CacheFlushRight
  <2>3. r # "err" => f.failed \/ dirty'[f.cache] \subseteq f.left  BY <2>1, <2>2
  <2>4. CacheFlushRight(f, TRUE, r, {})'  BY <2>2, <2>3 DEF CacheFlushRight, Tables
  <2> QED  BY <1>3, <2>4 DEF FrameRight
<1>4. CASE f.fn = "link"
  <2>1. f.at = "got"  BY <1>4 DEF Calls
  <2>2. LinkRight(f, TRUE, r)'  BY <1>1, <1>4, <2>1 DEF FrameRight, LinkRight
  <2> QED  BY <1>4, <2>2 DEF FrameRight
<1> QED  BY <1>2, <1>3, <1>4

\* When qcow2_cache_set_dependency does.
LEMMA SetDependencyReturns ==
  ASSUME Top.fn = "set_dependency", Keeps, NEW r \in {"ok", "err"}, r = "ok" => depends'[Top.cache],
         NEW f \in Frames, NEW t, Calls(f, Top), FrameRight(f, FALSE, "none", t)
  PROVE  FrameRight(f, TRUE, r, {})'
<1>1. FrameRight(f, FALSE, "none", t)'  BY DEF Keeps
<1>2. f.fn \in {"free", "link"}  BY DEF Calls
<1>3. CASE f.fn = "free"
  <2>1. f.at = "update" /\ Top.cache = "refcount"  BY <1>3 DEF Calls
  <2>2. FreeRight(f, TRUE, r)'  BY <2>1 DEF FreeRight
  <2> QED  BY <1>3, <2>2 DEF FrameRight
<1>4. CASE f.fn = "link"
  <2>1. f.at = "table" /\ Top.cache = "l2"  BY <1>4 DEF Calls
  <2>2. LinkRight(f, TRUE, r)'  BY <1>1, <1>4, <2>1 DEF FrameRight, LinkRight
  <2> QED  BY <1>4, <2>2 DEF FrameRight
<1> QED  BY <1>2, <1>3, <1>4

\* The frames of the calls are frames.
LEMMA NewFrames ==
  ASSUME IInv, NEW c \in Caches
  PROVE  /\ \A b \in BOOLEAN :
              /\ CacheFlush(c, b) \in Frames /\ CacheFlush(c, b).fn = "cache_flush"
              /\ CacheFlush(c, b).cache = c /\ CacheFlush(c, b).left = dirty[c]
              /\ CacheFlush(c, b).failed = FALSE /\ CacheFlush(c, b).sync = b
         /\ \A t \in Guest \cup Host :
              /\ EntryFlush(c, t) \in Frames /\ EntryFlush(c, t).fn = "entry_flush"
              /\ EntryFlush(c, t).cache = c /\ EntryFlush(c, t).table = t
              /\ EntryFlush(c, t).ready = FALSE
         /\ SetDependency(c) \in Frames /\ SetDependency(c).fn = "set_dependency"
         /\ SetDependency(c).cache = c
         /\ dirty[c] \subseteq Tables(c)
<1>1. dirty[c] \in SUBSET (Guest \cup Host)  BY DEF IInv, ClosedRight
<1>2. dirty[c] \subseteq Tables(c)  BY DEF IInv, TypeOK, Tables, Caches
<1>3. \A b \in BOOLEAN : CacheFlush(c, b) \in Frames
  BY <1>1 DEF CacheFlush, Frames, CacheFrames
<1>4. \A t \in Guest \cup Host : EntryFlush(c, t) \in Frames
  BY DEF EntryFlush, Frames, EntryFrames
<1>5. SetDependency(c) \in Frames  BY DEF SetDependency, Frames, OrderFrames
<1> QED  BY <1>2, <1>3, <1>4, <1>5 DEF CacheFlush, EntryFlush, SetDependency

\* A call that has just begun knows nothing.
LEMMA FreshFrame ==
  ASSUME IInv, NEW c \in Caches, NEW b \in BOOLEAN, NEW g, dirty' = dirty,
         g \in Frames,
         \/ g = CacheFlush(c, b)
         \/ g = SetDependency(c)
         \/ \E t \in Tables(c) : g = EntryFlush(c, t)
  PROVE  FrameRight(g, TRUE, "none", {})'
<1>1. CASE g = CacheFlush(c, b)
  <2>1. g.fn = "cache_flush" /\ g.cache = c /\ g.left = dirty[c]  BY <1>1 DEF CacheFlush
  <2>2. dirty[c] \subseteq Tables(c)  BY NewFrames
  <2>3. CacheFlushRight(g, TRUE, "none", {})'  BY <2>1, <2>2 DEF CacheFlushRight, Tables
  <2> QED  BY <2>1, <2>3 DEF FrameRight
<1>2. CASE g = SetDependency(c)
  <2>1. g.fn = "set_dependency"  BY <1>2, NewFrames
  <2> QED  BY <2>1 DEF FrameRight, OrderRight
<1>3. ASSUME NEW t \in Tables(c), g = EntryFlush(c, t)  PROVE FrameRight(g, TRUE, "none", {})'
  <2>1. t \in Guest \cup Host  BY DEF Tables
  <2>2. g.fn = "entry_flush" /\ g.cache = c /\ g.table = t /\ ~g.ready
    BY <1>3 DEF EntryFlush
  <2>3. EntryFlushRight(g, TRUE, "none")'  BY <2>2 DEF EntryFlushRight, Tables
  <2> QED  BY <2>2, <2>3 DEF FrameRight
<1> QED  BY <1>1, <1>2, <1>3

\* The steps of qcow2_cache_flush: a call that returns "ok" has left no dirty table.
LEMMA Step_qcow2_cache_flush ==
  ASSUME IInv, qcow2_cache_flush
  PROVE  IInv'
<1> DEFINE failed == Top.failed \/ ret = "err"
<1>1. StackRight /\ FramesRight /\ stack # <<>> /\ Top.fn = "cache_flush"
  BY DEF IInv, qcow2_cache_flush, In
<1>2. /\ Top \in CacheFrames /\ Top.cache \in Caches /\ Top.left \in SUBSET (Guest \cup Host)
      /\ Top.failed \in BOOLEAN /\ Top.sync \in BOOLEAN
  <2>1. Top \in CacheFrames  BY <1>1, TopRight, FrameFields
  <2> QED  BY <2>1 DEF CacheFrames
<1>3. Top.left \subseteq Tables(Top.cache) /\ (failed \/ dirty[Top.cache] \subseteq Top.left)
  BY <1>1, TopRight DEF FrameRight, CacheFlushRight
<1>4. Inner /\ dirty' = dirty /\ depends' = depends /\ depends_on_flush' = depends_on_flush
      /\ disk' \in {disk, Flushed}
  <2>1. faults \in Nat  BY DEF IInv, ClosedRight
  <2>2. faults' = faults \/ faults' = faults + 1  BY DEF qcow2_cache_flush, NoFault, Fault
  <2>3. faults' \in Nat /\ faults' >= faults  BY <2>1, <2>2
  <2> QED  BY <2>3 DEF qcow2_cache_flush, memory, history, image, Inner
<1>5. Keeps  BY <1>4, SettleKeeps
<1>6. ASSUME BaseKept, ret' \in {"none", "ok", "err"}  PROVE Rest'
  <2>1. DependenciesAcyclic'  BY <1>4 DEF IInv, DependenciesAcyclic
  <2>2. Awaited' = Awaited  BY <1>4 DEF Awaited
  <2>3. depends' \in [Caches -> BOOLEAN] /\ depends_on_flush' \in [Caches -> BOOLEAN]
    BY <1>4 DEF IInv, TypeOK
  <2> QED  BY <1>4, <1>6, <2>1, <2>2, <2>3, EffectSettle
<1>7. ASSUME NEW t \in Top.left,
             Call([Top EXCEPT !.left = @ \ {t}, !.failed = failed], EntryFlush(Top.cache, t))
      PROVE  IInv'
  <2>1. t \in Tables(Top.cache) /\ t \in Guest \cup Host  BY <1>2, <1>3
  <2>2. [Top EXCEPT !.left = @ \ {t}, !.failed = failed] \in Frames
    BY <1>2 DEF Frames, CacheFrames
  <2>3. PICK f \in Frames : f = [Top EXCEPT !.left = @ \ {t}, !.failed = failed]  BY <2>2
  <2>4. /\ f.fn = "cache_flush" /\ f.cache = Top.cache /\ f.left = Top.left \ {t}
        /\ f.failed = failed /\ f.sync = Top.sync
    BY <1>1, <1>2, <2>3 DEF CacheFrames
  <2>5. PICK c \in Caches : c = Top.cache  BY <1>2
  <2>6. PICK g \in Frames : g = EntryFlush(c, t)  BY <2>1, NewFrames
  <2>7. g.fn = "entry_flush" /\ g.cache = c /\ g.table = t  BY <2>6 DEF EntryFlush
  <2>8. Call(f, g)  BY <1>7, <2>3, <2>5, <2>6
  <2>9. ret' = "none"  BY <2>8 DEF Call
  <2>10. BaseKept  BY <1>1, <2>4, <2>8, BaseCall DEF InnerCalls
  <2>11. Calls(f, g) /\ \A x \in Frames : Calls(x, Top) => Calls(x, f)
    BY <1>1, <2>4, <2>5, <2>7 DEF Calls
  <2>12. FrameRight(g, TRUE, "none", {})'  BY <1>4, <2>1, <2>5, <2>6, FreshFrame
  <2>13. FrameRight(f, FALSE, "none", {t})'
    <3>1. f.left \subseteq Tables(f.cache) /\ (f.failed \/ dirty'[f.cache] \subseteq f.left \cup {t})
      BY <1>3, <1>4, <2>4
    <3>2. CacheFlushRight(f, FALSE, "none", {t})'  BY <3>1 DEF CacheFlushRight, Tables
    <3> QED  BY <2>4, <3>2 DEF FrameRight
  <2>14. /\ Top.fn = "entry_flush" => f.table = Top.table
         /\ Len(stack) = 1 => f.fn \in Bases
         /\ {t} = IF f.fn = "cache_flush" THEN {g.table} ELSE {}
    BY <1>1, <2>4, <2>7, TopRight
  <2>15. StackRight' /\ FramesRight'
    BY <1>1, <1>4, <1>5, <2>8, <2>11, <2>12, <2>13, <2>14, FramesCall DEF Inner
  <2> QED  BY <1>6, <2>9, <2>10, <2>15, WholeInvariant
<1>8. ASSUME NEW r \in {"ok", "err"}, Return(r), Top.left = {},
             r = "ok" => ~failed /\ (Top.sync => disk' = Flushed)
      PROVE  IInv'
  <2>1. PICK c \in Caches : c = Top.cache  BY <1>2
  <2>2. r = "ok" => dirty'[c] = {}  BY <1>3, <1>4, <1>8, <2>1
  <2>3. ASSUME r = "ok", Top.sync  PROVE Synced(c)' /\ DataSynced'
    <3>1. disk' = Flushed /\ dirty[c] = {}  BY <1>4, <1>8, <2>2, <2>3
    <3>2. DataSynced'  BY <1>4, <3>1, FlushedData DEF Inner
    <3>3. /\ \A g \in Guest : disk'.l2[g].maybe = {disk.l2[g].last}
          /\ \A h \in Host : disk'.refcount[h].maybe = {disk.refcount[h].last}
      BY <3>1, DiskFlushed DEF IInv
    <3>4. c = "l2" => \A g \in Guest : disk.l2[g].last = l2[g]  BY <3>1 DEF IInv, Clean
    <3>5. c = "refcount" => \A h \in Host : disk.refcount[h].last = refcount[h]
      BY <3>1 DEF IInv, Clean
    <3>6. Synced(c)'  BY <1>4, <3>1, <3>3, <3>4, <3>5 DEF Synced, Inner
    <3> QED  BY <3>2, <3>6
  <2>4. \A f \in Frames : \A t :
          Calls(f, Top) /\ FrameRight(f, FALSE, "none", t) => FrameRight(f, TRUE, r, {})'
    BY <1>1, <1>5, <2>1, <2>2, <2>3, CacheFlushReturns
  <2>5. StackRight' /\ FramesRight'
    BY <1>1, <1>4, <1>5, <1>8, <2>4, FramesReturn DEF Inner
  <2>6. BaseKept  BY <1>1, <1>8, BaseReturn DEF InnerCalls
  <2>7. ret' \in {"none", "ok", "err"}  BY <1>8 DEF Return
  <2> QED  BY <1>6, <2>5, <2>6, <2>7, WholeInvariant
<1>9. \/ \E t \in Top.left :
           Call([Top EXCEPT !.left = @ \ {t}, !.failed = failed], EntryFlush(Top.cache, t))
      \/ /\ Top.left = {} /\ (failed \/ ~Top.sync)
         /\ Return(IF failed THEN "err" ELSE "ok")
      \/ Top.left = {} /\ ~failed /\ Top.sync /\ disk' = Flushed /\ Return("ok")
      \/ Top.left = {} /\ ~failed /\ Top.sync /\ Return("err")
  BY DEF qcow2_cache_flush
<1>10. CASE Top.left = {} /\ (failed \/ ~Top.sync) /\ Return(IF failed THEN "err" ELSE "ok")
  <2>1. CASE failed  BY <1>8, <1>10, <2>1
  <2>2. CASE ~failed  BY <1>8, <1>10, <2>2
  <2> QED  BY <2>1, <2>2
<1> QED  BY <1>7, <1>8, <1>9, <1>10

\* What qcow2_cache_entry_flush waits for is on disk when it ceases to wait.
LEMMA Step_EntryFlushOrder ==
  ASSUME IInv, EntryFlushOrder
  PROVE  IInv'
<1>1. StackRight /\ FramesRight /\ stack # <<>> /\ Top.fn = "entry_flush" /\ ~Top.ready
      /\ ret \in {"none", "ok"}
  BY DEF IInv, TypeOK, EntryFlushOrder, In
<1>2. /\ Top \in EntryFrames /\ Top \in Frames /\ Top.cache \in Caches
      /\ Top.table \in Guest \cup Host /\ Other(Top.cache) \in Caches
  <2>1. Top \in EntryFrames /\ Top \in Frames  BY <1>1, TopRight, FrameFields
  <2> QED  BY <2>1 DEF EntryFrames, Caches, Other
<1>3. /\ Top.table \in Tables(Top.cache)
      /\ ret = "ok" => Synced(Other(Top.cache)) /\ DataSynced
  BY <1>1, TopRight DEF FrameRight, EntryFlushRight
<1>4. Inner /\ dirty' = dirty /\ disk' \in {disk, Flushed}
  <2>1. faults \in Nat  BY DEF IInv, ClosedRight
  <2>2. faults' = faults \/ faults' = faults + 1  BY DEF EntryFlushOrder, NoFault, Fault
  <2>3. faults' \in Nat /\ faults' >= faults  BY <2>1, <2>2
  <2> QED  BY <2>3 DEF EntryFlushOrder, history, image, Inner
<1>5. Keeps  BY <1>4, SettleKeeps
<1>6. PICK c \in Caches : c = Top.cache  BY <1>2
<1>7. depends \in [Caches -> BOOLEAN] /\ depends_on_flush \in [Caches -> BOOLEAN]
  BY DEF IInv, TypeOK
<1>8. ASSUME BaseKept, ret' \in {"none", "ok", "err"}, depends' = depends,
             depends_on_flush' \in [Caches -> BOOLEAN],
             depends_on_flush' = depends_on_flush \/ disk' = Flushed
      PROVE  Rest'
  <2>1. DependenciesAcyclic' /\ depends' \in [Caches -> BOOLEAN]
    BY <1>7, <1>8 DEF IInv, DependenciesAcyclic
  <2>2. Awaited /\ ~Awaited' => DataSynced'
    BY <1>4, <1>8, FlushedData DEF Awaited, Inner
  <2>3. \A x \in Caches : depends[x] /\ ~depends'[x] => Synced(Other(x))  BY <1>8
  <2> QED  BY <1>4, <1>8, <2>1, <2>2, <2>3, EffectSettle
<1>9. ASSUME Goto([Top EXCEPT !.ready = TRUE]), ~depends'[c], ~depends_on_flush'[c]
      PROVE  StackRight' /\ FramesRight' /\ BaseKept /\ ret' = "none"
  <2>1. [Top EXCEPT !.ready = TRUE] \in Frames  BY <1>2 DEF Frames, EntryFrames
  <2>2. PICK f \in Frames : f = [Top EXCEPT !.ready = TRUE]  BY <2>1
  <2>3. f.fn = "entry_flush" /\ f.cache = c /\ f.table = Top.table /\ f.ready
    BY <1>1, <1>2, <1>6, <2>2 DEF EntryFrames
  <2>4. Goto(f)  BY <1>9, <2>2
  <2>5. BaseKept  BY <1>1, <2>3, <2>4, BaseGoto DEF InnerCalls
  <2>6. FrameRight(f, TRUE, "none", {})'
    <3>1. f.table \in Tables(c)  BY <1>3, <1>6, <2>3
    <3>2. EntryFlushRight(f, TRUE, "none")'
      BY <1>9, <2>3, <3>1 DEF EntryFlushRight, Tables
    <3> QED  BY <2>3, <3>2 DEF FrameRight
  <2>7. \A x \in Frames : Calls(x, Top) => Calls(x, f)
    BY <1>1, <1>6, <2>3 DEF Calls
  <2>8. StackRight' /\ FramesRight'
    BY <1>1, <1>4, <1>5, <2>3, <2>4, <2>6, <2>7, FramesGoto DEF Inner, Bases
  <2> QED  BY <2>4, <2>5, <2>8 DEF Goto
<1>10. CASE depends[c] /\ ret = "none" /\ Call(Top, CacheFlush(Other(c), TRUE))
            /\ UNCHANGED <<depends, depends_on_flush>>
  <2>1. PICK d \in Caches : d = Other(c)  BY <1>2, <1>6
  <2>2. PICK g \in Frames : g = CacheFlush(d, TRUE)  BY <2>1, NewFrames
  <2>3. g.fn = "cache_flush" /\ g.cache = d /\ g.sync  BY <2>2 DEF CacheFlush
  <2>4. PICK f \in Frames : f = Top  BY <1>2
  <2>5. Call(f, g)  BY <1>10, <2>1, <2>2, <2>4
  <2>6. BaseKept  BY <1>1, <2>4, <2>5, BaseCall DEF InnerCalls
  <2>7. Calls(f, g) /\ \A x \in Frames : Calls(x, Top) => Calls(x, f)
    BY <1>1, <1>6, <2>1, <2>3, <2>4 DEF Calls
  <2>8. FrameRight(g, TRUE, "none", {})'  BY <1>4, <2>2, FreshFrame
  <2>9. FrameRight(f, FALSE, "none", {})'
    BY <1>1, <1>3, <2>4 DEF FrameRight, EntryFlushRight, Tables
  <2>10. {} = IF f.fn = "cache_flush" THEN {g.table} ELSE {}  BY <1>1, <2>4
  <2>11. StackRight' /\ FramesRight'
    BY <1>1, <1>4, <1>5, <2>4, <2>5, <2>7, <2>8, <2>9, <2>10, FramesCall DEF Inner, Bases
  <2>12. ret' = "none"  BY <2>5 DEF Call
  <2> QED  BY <1>7, <1>8, <1>10, <2>6, <2>11, <2>12, WholeInvariant
<1>11. CASE /\ depends[c] /\ ret = "ok" /\ Goto([Top EXCEPT !.ready = TRUE]) /\ disk' = disk
            /\ depends' = [depends EXCEPT ![c] = FALSE]
            /\ depends_on_flush' = [depends_on_flush EXCEPT ![c] = FALSE]
  <2>1. ~depends'[c] /\ ~depends_on_flush'[c]  BY <1>7, <1>11
  <2>2. StackRight' /\ FramesRight' /\ BaseKept /\ ret' = "none"  BY <1>9, <1>11, <2>1
  <2>3. /\ depends' \in [Caches -> BOOLEAN] /\ depends_on_flush' \in [Caches -> BOOLEAN]
        /\ DependenciesAcyclic'
    BY <1>7, <1>11, <2>1 DEF DependenciesAcyclic
  <2>4. \A x \in Caches : depends[x] /\ ~depends'[x] => Synced(Other(x))
    BY <1>3, <1>6, <1>7, <1>11
  <2>5. DataSynced'  BY <1>3, <1>4, <1>11 DEF DataSynced, Inner
  <2>6. Rest'  BY <1>4, <2>2, <2>3, <2>4, <2>5, EffectSettle
  <2> QED  BY <2>2, <2>6, WholeInvariant
<1>12. CASE /\ ~depends[c] /\ depends' = depends /\ disk' = Flushed
            /\ Goto([Top EXCEPT !.ready = TRUE])
            /\ depends_on_flush' = [depends_on_flush EXCEPT ![c] = FALSE]
  <2>1. ~depends'[c] /\ ~depends_on_flush'[c] /\ depends_on_flush' \in [Caches -> BOOLEAN]
    BY <1>7, <1>12
  <2>2. StackRight' /\ FramesRight' /\ BaseKept /\ ret' = "none"  BY <1>9, <1>12, <2>1
  <2> QED  BY <1>8, <1>12, <2>1, <2>2, WholeInvariant
<1>13. CASE Return("err") /\ UNCHANGED <<depends, depends_on_flush>>
  <2>1. \A f \in Frames : \A t :
          /\ Calls(f, Top) /\ FrameRight(f, FALSE, "none", t)
          /\ f.fn = "cache_flush" => t = {Top.table}
          => FrameRight(f, TRUE, "err", {})'
    BY <1>1, <1>5, EntryFlushReturns
  <2>2. StackRight' /\ FramesRight'
    BY <1>1, <1>4, <1>5, <1>13, <2>1, FramesReturn DEF Inner
  <2>3. BaseKept  BY <1>1, <1>13, BaseReturn DEF InnerCalls
  <2>4. ret' \in {"none", "ok", "err"}  BY <1>13 DEF Return
  <2> QED  BY <1>7, <1>8, <1>13, <2>2, <2>3, <2>4, WholeInvariant
<1>14. CASE /\ ~depends[c] /\ ~depends_on_flush[c] /\ UNCHANGED <<depends, depends_on_flush>>
            /\ Goto([Top EXCEPT !.ready = TRUE])
  <2>1. StackRight' /\ FramesRight' /\ BaseKept /\ ret' = "none"  BY <1>9, <1>14
  <2> QED  BY <1>7, <1>8, <1>14, <2>1, WholeInvariant
<1> QED  BY <1>6, <1>10, <1>11, <1>12, <1>13, <1>14 DEF EntryFlushOrder

\* It writes a table only when nothing has to be written before.
LEMMA Step_EntryFlushWrite ==
  ASSUME IInv, EntryFlushWrite
  PROVE  IInv'
<1>1. StackRight /\ FramesRight /\ stack # <<>> /\ Top.fn = "entry_flush"
  BY DEF IInv, EntryFlushWrite, In
<1>2. /\ Top \in EntryFrames /\ Top.cache \in Caches
      /\ Top.table \in Tables(Top.cache)
      /\ Top.ready => ~depends[Top.cache] /\ ~depends_on_flush[Top.cache]
  <2>1. Top \in EntryFrames  BY <1>1, TopRight, FrameFields
  <2> QED  BY <1>1, <2>1, TopRight DEF EntryFrames, FrameRight, EntryFlushRight
<1>3. Inner /\ UNCHANGED <<depends, depends_on_flush>>
  <2>1. faults \in Nat  BY DEF IInv, ClosedRight
  <2>2. faults' = faults \/ faults' = faults + 1  BY DEF EntryFlushWrite, NoFault, Fault
  <2>3. faults' \in Nat /\ faults' >= faults  BY <2>1, <2>2
  <2> QED  BY <2>3 DEF EntryFlushWrite, history, image, Inner
<1>4. PICK c \in Caches : c = Top.cache  BY <1>2
<1>5. ASSUME NEW r \in {"ok", "err"}, Return(r), Keeps,
             r = "ok" => dirty'[Top.cache] = dirty[Top.cache] \ {Top.table}
      PROVE  StackRight' /\ FramesRight'
  <2>1. \A f \in Frames : \A t :
          /\ Calls(f, Top) /\ FrameRight(f, FALSE, "none", t)
          /\ f.fn = "cache_flush" => t = {Top.table}
          => FrameRight(f, TRUE, r, {})'
    BY <1>1, <1>5, EntryFlushReturns
  <2> QED  BY <1>1, <1>3, <1>5, <2>1, FramesReturn DEF Inner
<1>6. ASSUME NEW r \in {"ok", "err"}, Return(r)
      PROVE  BaseKept /\ ret' \in {"none", "ok", "err"}
  <2>1. BaseKept  BY <1>1, <1>6, BaseReturn DEF InnerCalls
  <2> QED  BY <1>6, <2>1 DEF Return
<1>7. CASE Return("err") /\ UNCHANGED <<disk, dirty>>
  <2>1. Keeps  BY <1>3, <1>7, SettleKeeps
  <2>2. StackRight' /\ FramesRight'  BY <1>5, <1>7, <2>1
  <2>3. BaseKept /\ ret' \in {"none", "ok", "err"}  BY <1>6, <1>7
  <2>4. DependenciesAcyclic' /\ Awaited' = Awaited
    BY <1>3 DEF IInv, DependenciesAcyclic, Awaited
  <2>5. depends' \in [Caches -> BOOLEAN] /\ depends_on_flush' \in [Caches -> BOOLEAN]
    BY <1>3 DEF IInv, TypeOK
  <2>6. Rest'  BY <1>3, <1>7, <2>3, <2>4, <2>5, EffectSettle
  <2> QED  BY <2>2, <2>6, WholeInvariant
<1>8. ASSUME NEW r \in {"ok", "err"}, ret # "err", Return(r),
             disk' = [disk EXCEPT ![Top.cache][Top.table] =
                        Put(@, IF Top.cache = "l2" THEN l2[Top.table] ELSE refcount[Top.table])],
             dirty' = IF r = "ok" THEN [dirty EXCEPT ![Top.cache] = @ \ {Top.table}] ELSE dirty
      PROVE  IInv'
  <2>1. Top.ready  BY <1>8 DEF EntryFlushWrite
  <2>2. BaseKept /\ ret' \in {"none", "ok", "err"}  BY <1>6, <1>8
  <2>3. r = "ok" => dirty'[Top.cache] = dirty[Top.cache] \ {Top.table}
    BY <1>2, <1>8 DEF IInv, ClosedRight
  <2>4. Rest' /\ \A x \in Caches : dirty'[x] \subseteq dirty[x] /\ (Synced(x) => Synced(x)')
    <3>1. CASE Top.cache = "l2"
      <4>1. PICK t \in Guest : t = Top.table  BY <1>2, <3>1 DEF Tables
      <4>2. disk' = [disk EXCEPT !["l2"][t] = Put(@, l2[t])]  BY <1>8, <3>1, <4>1
      <4>3. dirty' \in {dirty, [dirty EXCEPT !["l2"] = @ \ {t}]}  BY <1>8, <3>1, <4>1
      <4>4. ~depends["l2"] /\ ~depends_on_flush["l2"]  BY <1>2, <2>1, <3>1
      <4> QED  BY <1>3, <2>2, <4>2, <4>3, <4>4, EffectWriteL2
    <3>2. CASE Top.cache = "refcount"
      <4>1. PICK t \in Host : t = Top.table  BY <1>2, <3>2 DEF Tables
      <4>2. disk' = [disk EXCEPT !["refcount"][t] = Put(@, refcount[t])]  BY <1>8, <3>2, <4>1
      <4>3. dirty' \in {dirty, [dirty EXCEPT !["refcount"] = @ \ {t}]}  BY <1>8, <3>2, <4>1
      <4>4. ~depends["refcount"]  BY <1>2, <2>1, <3>2
      <4> QED  BY <1>3, <2>2, <4>2, <4>3, <4>4, EffectWriteRefcount
    <3> QED  BY <1>2, <3>1, <3>2 DEF Caches
  <2>5. Keeps  BY <1>3, <2>4, KeepsLower DEF Inner
  <2>6. StackRight' /\ FramesRight'  BY <1>5, <1>8, <2>3, <2>5
  <2> QED  BY <2>4, <2>6, WholeInvariant
<1> DEFINE value == IF Top.cache = "l2" THEN l2[Top.table] ELSE refcount[Top.table]
<1>9. CASE /\ ret # "err" /\ disk' = [disk EXCEPT ![Top.cache][Top.table] = Put(@, value)]
           /\ Return("ok") /\ dirty' = [dirty EXCEPT ![Top.cache] = @ \ {Top.table}]
  BY <1>8, <1>9
<1>10. CASE /\ ret # "err" /\ disk' = [disk EXCEPT ![Top.cache][Top.table] = Put(@, value)]
            /\ Return("err") /\ UNCHANGED dirty
  BY <1>8, <1>10
<1> QED  BY <1>7, <1>9, <1>10 DEF EntryFlushWrite

\* A cache that the other one waits for is flushed before it is made to wait.
LEMMA Step_qcow2_cache_set_dependency ==
  ASSUME IInv, qcow2_cache_set_dependency
  PROVE  IInv'
<1>1. StackRight /\ FramesRight /\ stack # <<>> /\ Top.fn = "set_dependency"
  BY DEF IInv, qcow2_cache_set_dependency, In
<1>2. /\ Top \in OrderFrames /\ Top \in Frames /\ Top.cache \in Caches
      /\ ret = "ok" => Synced(Top.cache) /\ DataSynced
  <2>1. Top \in OrderFrames /\ Top \in Frames  BY <1>1, TopRight, FrameFields
  <2> QED  BY <1>1, <2>1, TopRight DEF OrderFrames, FrameRight, OrderRight
<1>3. Inner /\ UNCHANGED <<disk, dirty>>
  <2>1. faults \in Nat /\ faults >= faults  BY DEF IInv, ClosedRight
  <2> QED  BY <2>1 DEF qcow2_cache_set_dependency, history, image, Inner
<1>4. PICK c \in Caches : c = Top.cache  BY <1>2
<1>5. depends \in [Caches -> BOOLEAN] /\ depends_on_flush \in [Caches -> BOOLEAN]
      /\ Other(c) \in Caches /\ Other(Other(c)) = c /\ Other(c) # c
      /\ \A x \in Caches : x = c \/ x = Other(c)
  BY DEF IInv, TypeOK, Caches, Other
<1>6. Keeps  BY <1>3, SettleKeeps
<1>7. ASSUME BaseKept, ret' \in {"none", "ok", "err"}, UNCHANGED <<depends, depends_on_flush>>
      PROVE  Rest'
  <2>1. DependenciesAcyclic' /\ Awaited' = Awaited
    BY <1>7 DEF IInv, DependenciesAcyclic, Awaited
  <2> QED  BY <1>3, <1>5, <1>7, <2>1, EffectSettle
<1>8. ASSUME NEW r \in {"ok", "err"}, Return(r), r = "ok" => depends'[Top.cache]
      PROVE  StackRight' /\ FramesRight' /\ BaseKept /\ ret' \in {"none", "ok", "err"}
  <2>1. \A f \in Frames : \A t :
          Calls(f, Top) /\ FrameRight(f, FALSE, "none", t) => FrameRight(f, TRUE, r, {})'
    BY <1>1, <1>6, <1>8, SetDependencyReturns
  <2>2. StackRight' /\ FramesRight'
    BY <1>1, <1>3, <1>6, <1>8, <2>1, FramesReturn DEF Inner
  <2>3. BaseKept  BY <1>1, <1>8, BaseReturn DEF InnerCalls
  <2> QED  BY <1>8, <2>2, <2>3 DEF Return
<1>9. CASE Call(Top, CacheFlush(c, TRUE)) /\ UNCHANGED <<depends, depends_on_flush>>
  <2>1. PICK g \in Frames : g = CacheFlush(c, TRUE)  BY NewFrames
  <2>2. g.fn = "cache_flush" /\ g.cache = c /\ g.sync  BY <2>1 DEF CacheFlush
  <2>3. PICK f \in Frames : f = Top  BY <1>2
  <2>4. Call(f, g)  BY <1>9, <2>1, <2>3
  <2>5. BaseKept  BY <1>1, <2>3, <2>4, BaseCall DEF InnerCalls
  <2>6. Calls(f, g) /\ \A x \in Frames : Calls(x, Top) => Calls(x, f)
    BY <1>1, <1>4, <2>2, <2>3 DEF Calls
  <2>7. FrameRight(g, TRUE, "none", {})'  BY <1>3, <2>1, FreshFrame
  <2>8. FrameRight(f, FALSE, "none", {})'  BY <1>1, <2>3 DEF FrameRight, OrderRight
  <2>9. /\ {} = IF f.fn = "cache_flush" THEN {g.table} ELSE {}
        /\ Len(stack) = 1 => f.fn \in Bases
    BY <1>1, <2>3, TopRight
  <2>10. StackRight' /\ FramesRight'
    BY <1>1, <1>3, <1>6, <2>3, <2>4, <2>6, <2>7, <2>8, <2>9, FramesCall DEF Inner
  <2>11. ret' = "none"  BY <2>4 DEF Call
  <2> QED  BY <1>7, <1>9, <2>5, <2>10, <2>11, WholeInvariant
<1>10. CASE Return("err") /\ UNCHANGED <<depends, depends_on_flush>>
  <2>1. StackRight' /\ FramesRight' /\ BaseKept /\ ret' \in {"none", "ok", "err"}
    BY <1>8, <1>10
  <2> QED  BY <1>7, <1>10, <2>1, WholeInvariant
<1>11. CASE /\ ~depends[Other(c)] \/ ret = "ok"
            /\ depends' = [x \in Caches |-> x = c]
            /\ depends_on_flush' = [depends_on_flush EXCEPT
                 ![Other(c)] = @ /\ ~depends[Other(c)]]
            /\ Return("ok")
  <2>1. /\ depends' \in [Caches -> BOOLEAN] /\ depends_on_flush' \in [Caches -> BOOLEAN]
        /\ depends'[c] /\ ~depends'[Other(c)]
        /\ depends_on_flush'[c] = depends_on_flush[c]
        /\ ~depends[Other(c)] => depends_on_flush'[Other(c)] = depends_on_flush[Other(c)]
    BY <1>5, <1>11
  <2>2. StackRight' /\ FramesRight' /\ BaseKept /\ ret' \in {"none", "ok", "err"}
    BY <1>4, <1>8, <1>11, <2>1
  <2>3. DependenciesAcyclic'  BY <1>5, <2>1 DEF DependenciesAcyclic
  <2>4. \A x \in Caches : depends[x] /\ ~depends'[x] => Synced(Other(x))
    BY <1>2, <1>4, <1>5, <1>11, <2>1
  <2>5. Awaited /\ ~Awaited' => DataSynced'
    <3>1. CASE depends[Other(c)]
      <4>1. DataSynced  BY <1>2, <1>11, <3>1
      <4> QED  BY <1>3, <4>1 DEF DataSynced, Inner
    <3>2. CASE ~depends[Other(c)]
      <4>1. CASE c = "l2"  BY <2>1, <4>1 DEF Awaited
      <4>2. CASE c # "l2"
        <5>1. Other(c) = "l2"  BY <4>2 DEF Other, Caches
        <5> QED  BY <2>1, <3>2, <5>1 DEF Awaited
      <4> QED  BY <4>1, <4>2
    <3> QED  BY <3>1, <3>2
  <2>6. Rest'  BY <1>3, <2>1, <2>2, <2>3, <2>4, <2>5, EffectSettle
  <2> QED  BY <2>2, <2>6, WholeInvariant
<1> QED  BY <1>4, <1>9, <1>10, <1>11 DEF qcow2_cache_set_dependency

-----------------------------------------------------------------------------
(* Steps of the requests that leave caches and requests alone *)

\* A request runs with nothing below it.
LEMMA BaseTop ==
  ASSUME StackRight, FramesRight, stack # <<>>, Top.fn \notin InnerCalls
  PROVE  /\ stack \in Seq(Frames) /\ Len(stack) = 1 /\ stack[1] = Top /\ Top \in Frames
         /\ FrameRight(Top, TRUE, ret, {}) /\ open = "open" /\ Top.fn \in Bases
         /\ \A x : ~Calls(x, Top)
<1>1. \A x : ~Calls(x, Top)  BY DEF Calls, InnerCalls
<1> QED  BY <1>1, TopRight DEF InnerCalls, StackRight

\* The request itself goes on ...
LEMMA BaseGoes ==
  ASSUME StackRight, FramesRight, stack # <<>>, Top.fn \notin InnerCalls, open' = open,
         NEW f \in Frames, f.fn \in Bases, Goto(f), FrameRight(f, TRUE, "none", {})'
  PROVE  /\ StackRight' /\ FramesRight'
         /\ stack' # <<>> /\ Len(stack') = 1 /\ stack'[1] = f /\ ret' = "none"
<1>1. stack \in Seq(Frames) /\ Len(stack) = 1 /\ \A x : ~Calls(x, Top)  BY BaseTop
<1>2. stack' # <<>> /\ Len(stack') = 1 /\ stack'[1] = f /\ ret' = "none"
  BY <1>1, StackGoto
<1>3. Top.fn # "entry_flush"  BY DEF InnerCalls
<1>4. StackRight' /\ FramesRight'  BY <1>1, <1>3, FramesGoto
<1> QED  BY <1>2, <1>4

\* ... calls ...
LEMMA BaseCalls ==
  ASSUME StackRight, FramesRight, stack # <<>>, Top.fn \notin InnerCalls, open' = open,
         NEW f \in Frames, f.fn \in Bases, NEW g \in Frames, Call(f, g), Calls(f, g),
         FrameRight(f, FALSE, "none", {})', FrameRight(g, TRUE, "none", {})'
  PROVE  /\ StackRight' /\ FramesRight'
         /\ stack' # <<>> /\ Len(stack') = 2 /\ stack'[1] = f /\ ret' = "none"
<1>1. stack \in Seq(Frames) /\ Len(stack) = 1 /\ \A x : ~Calls(x, Top)  BY BaseTop
<1>2. stack' # <<>> /\ Len(stack') = 2 /\ stack'[1] = f /\ ret' = "none"
  BY <1>1, StackCall
<1>3. Top.fn # "entry_flush" /\ {} = IF f.fn = "cache_flush" THEN {g.table} ELSE {}
  BY DEF InnerCalls, Bases
<1>4. StackRight' /\ FramesRight'  BY <1>1, <1>3, FramesCall
<1> QED  BY <1>2, <1>4

\* ... or is finished.
LEMMA BaseReturns ==
  ASSUME StackRight, FramesRight, stack # <<>>, Top.fn \notin InnerCalls, NEW r, Return(r)
  PROVE  StackRight' /\ FramesRight' /\ stack' = <<>> /\ ret' = "none"
<1>1. stack \in Seq(Frames) /\ Len(stack) = 1 /\ \A x : ~Calls(x, Top)  BY BaseTop
<1>2. stack' = <<>> /\ ret' = "none"  BY <1>1, StackReturn
<1>3. StackRight' /\ FramesRight'  BY <1>1, FramesReturn
<1> QED  BY <1>2, <1>3

\* Requests that neither link nor free a cluster.
Plain(f) == f.fn \in {"entry_flush", "flush", "close"}

\* Such a request takes the lock.
LEMMA LockKept ==
  ASSUME NEW f \in Frames, Lock(f), Plain(f)
  PROVE  RequestKept /\ (HeaderBase => HeaderBase')
<1>1. stack = <<>> /\ stack' # <<>> /\ stack'[1] = f  BY StackLock
<1> QED  BY <1>1 DEF RequestKept, HeaderBase, Freeing, Linking, Pledged, Plain

\* Steps of such a request.
LEMMA PlainKept ==
  ASSUME stack # <<>>, Plain(stack[1]), stack' = <<>> \/ Plain(stack'[1])
  PROVE  RequestKept
BY DEF RequestKept, Freeing, Linking, Pledged, Plain

\* Failures are counted.
LEMMA FaultsCount ==
  ASSUME IInv, Fault \/ NoFault
  PROVE  faults' \in Nat /\ faults' >= faults /\ (Fault => faults' > 0)
<1>1. faults \in Nat  BY DEF IInv, ClosedRight
<1>2. faults' = faults + 1 \/ faults' = faults  BY DEF Fault, NoFault
<1>3. Fault => faults' = faults + 1  BY DEF Fault
<1> QED  BY <1>1, <1>2, <1>3

\* A step that changes nothing but the stack.
LEMMA EffectNone ==
  ASSUME IInv, Inner, BaseKept, UNCHANGED <<disk, dirty, depends, depends_on_flush>>,
         ret' \in {"none", "ok", "err"}
  PROVE  Rest'
<1>1. /\ DependenciesAcyclic' /\ Awaited' = Awaited
      /\ depends' \in [Caches -> BOOLEAN] /\ depends_on_flush' \in [Caches -> BOOLEAN]
  BY DEF IInv, TypeOK, DependenciesAcyclic, Awaited
<1> QED  BY <1>1, EffectSettle

\* A table is evicted while nobody has the lock.
LEMMA Step_Evict ==
  ASSUME IInv, NEW c \in Caches, NEW t, Evict(c, t)
  PROVE  IInv'
<1>1. open = "open" /\ t \in dirty[c] /\ Lock(EntryFlush(c, t))  BY DEF Evict
<1>2. Inner /\ UNCHANGED <<disk, dirty, depends, depends_on_flush>>
  <2>1. faults \in Nat /\ faults >= faults  BY DEF IInv, ClosedRight
  <2> QED  BY <2>1 DEF Evict, Inner, memory, history, image
<1>3. t \in Tables(c) /\ t \in Guest \cup Host  BY <1>1, NewFrames DEF Tables
<1>4. PICK f \in Frames : f = EntryFlush(c, t)  BY <1>3, NewFrames
<1>5. f.fn = "entry_flush"  BY <1>4 DEF EntryFlush
<1>6. FrameRight(f, TRUE, "none", {})'  BY <1>2, <1>3, <1>4, FreshFrame
<1>7. StackRight' /\ FramesRight'
  BY <1>1, <1>2, <1>4, <1>5, <1>6, FramesLock DEF IInv, Inner, Bases
<1>8. BaseKept /\ ret' = "none"  BY <1>1, <1>4, <1>5, LockKept, StackLock DEF BaseKept, Plain
<1> QED  BY <1>2, <1>7, <1>8, EffectNone, WholeInvariant

\* The image begins to be closed.
LEMMA Step_CloseStart ==
  ASSUME IInv, CloseStart
  PROVE  IInv'
<1>1. /\ open = "open" /\ ~flushing /\ (\A g \in Guest : req[g].pc = "idle")
      /\ Lock([fn |-> "close", at |-> "start", failed |-> FALSE])
  BY DEF CloseStart
<1>2. Inner /\ UNCHANGED <<disk, dirty, depends, depends_on_flush>>
  <2>1. faults \in Nat /\ faults >= faults  BY DEF IInv, ClosedRight
  <2> QED  BY <2>1 DEF CloseStart, Inner, memory, history, image
<1>3. PICK f \in Frames : f = [fn |-> "close", at |-> "start", failed |-> FALSE]
  BY DEF Frames, CloseFrames
<1>4. f.fn = "close" /\ f.at = "start"  BY <1>3
<1>5. FrameRight(f, TRUE, "none", {})'
  BY <1>1, <1>2, <1>4 DEF FrameRight, CloseRight, Inner
<1>6. StackRight' /\ FramesRight'
  BY <1>1, <1>2, <1>3, <1>4, <1>5, FramesLock DEF IInv, Inner, Bases
<1>7. BaseKept /\ ret' = "none"  BY <1>1, <1>3, <1>4, LockKept, StackLock DEF BaseKept, Plain
<1> QED  BY <1>2, <1>6, <1>7, EffectNone, WholeInvariant

\* The new entry is made to wait for the refcount, or the image is dirty.
LEMMA Step_LinkOrder ==
  ASSUME IInv, LinkOrder
  PROVE  IInv'
<1>1. StackRight /\ FramesRight /\ stack # <<>> /\ Top.fn = "link" /\ Top.at = "depend"
  BY DEF IInv, LinkOrder, At, In
<1>2. /\ Top \in LinkFrames /\ Top \in Frames /\ Top.guest \in Guest /\ Top.fn \notin InnerCalls
      /\ req[Top.guest].pc = "linking" /\ Len(stack) = 1 /\ stack[1] = Top
  <2>1. Top.fn \notin InnerCalls  BY <1>1 DEF InnerCalls
  <2>2. Top \in Frames /\ FrameRight(Top, TRUE, ret, {}) /\ Len(stack) = 1 /\ stack[1] = Top
    BY <1>1, <2>1, BaseTop
  <2>3. Top \in LinkFrames  BY <1>1, <2>2, FrameFields
  <2> QED  BY <1>1, <2>1, <2>2, <2>3 DEF LinkFrames, FrameRight, LinkRight
<1>3. Inner /\ UNCHANGED <<disk, dirty, depends, depends_on_flush>>
  <2>1. faults \in Nat /\ faults >= faults  BY DEF IInv, ClosedRight
  <2> QED  BY <2>1 DEF LinkOrder, Inner, memory, history, image
<1>4. GoOn("table") \in Frames  BY <1>2 DEF GoOn, Frames, LinkFrames
<1>5. PICK f \in Frames : f = GoOn("table")  BY <1>4
<1>6. f.fn = "link" /\ f.guest = Top.guest /\ f.at = "table"
  BY <1>1, <1>2, <1>5 DEF GoOn, LinkFrames
<1>7. CASE Call(f, SetDependency("l2"))
  <2>1. PICK g \in Frames : g = SetDependency("l2")  BY NewFrames DEF Caches
  <2>2. g.fn = "set_dependency" /\ g.cache = "l2"  BY <2>1 DEF SetDependency
  <2>3. Calls(f, g)  BY <1>6, <2>2 DEF Calls
  <2>4. FrameRight(f, FALSE, "none", {})'
    BY <1>2, <1>3, <1>6 DEF FrameRight, LinkRight, Inner
  <2>5. FrameRight(g, TRUE, "none", {})'  BY <1>3, <2>1, FreshFrame DEF Caches
  <2>6. /\ StackRight' /\ FramesRight'
        /\ stack' # <<>> /\ Len(stack') = 2 /\ stack'[1] = f /\ ret' = "none"
    BY <1>1, <1>2, <1>3, <1>6, <1>7, <2>1, <2>3, <2>4, <2>5, BaseCalls DEF Inner, Bases
  <2>7. BaseKept
    BY <1>1, <1>2, <1>6, <2>6 DEF BaseKept, RequestKept, HeaderBase, Freeing, Linking, Pledged
  <2> QED  BY <1>3, <2>6, <2>7, EffectNone, WholeInvariant
<1>8. CASE header /\ Goto(f)
  <2>1. FrameRight(f, TRUE, "none", {})'
    BY <1>2, <1>3, <1>6, <1>8 DEF FrameRight, LinkRight, Inner
  <2>2. /\ StackRight' /\ FramesRight'
        /\ stack' # <<>> /\ Len(stack') = 1 /\ stack'[1] = f /\ ret' = "none"
    BY <1>1, <1>2, <1>3, <1>6, <1>8, <2>1, BaseGoes DEF Inner, Bases
  <2>3. BaseKept
    BY <1>1, <1>2, <1>6, <2>2 DEF BaseKept, RequestKept, HeaderBase, Freeing, Linking, Pledged
  <2> QED  BY <1>3, <2>2, <2>3, EffectNone, WholeInvariant
<1> QED  BY <1>5, <1>7, <1>8 DEF LinkOrder

\* There is little to know of an open image.
LEMMA StaysOpen ==
  ASSUME IInv, open' = "open", flushing' \in BOOLEAN, faults' \in Nat, unordered' \in BOOLEAN,
         dirty' \in [Caches -> SUBSET (Guest \cup Host)]
  PROVE  ClosedRight'
BY DEF ClosedRight

\* Only the header is written.
LEMMA SameTables ==
  ASSUME DiskType, disk'.l2 = disk.l2, disk'.refcount = disk.refcount, disk'.data = disk.data
  PROVE  TablesSettle
BY DiskFields, CellIn DEF TablesSettle, Settles

\* No entry is changed or flushed.
LEMMA SameAge == IInv /\ age' = age => AgeKept
BY DEF IInv, TypeOK, AgeKept

\* The request on the stack.
LEMMA LinkTop ==
  ASSUME IInv, stack # <<>>, Top.fn = "link"
  PROVE  /\ StackRight /\ FramesRight /\ Top.fn \notin InnerCalls /\ Len(stack) = 1
         /\ stack[1] = Top /\ open = "open" /\ Top.guest \in Guest
         /\ Top.at \in {"header", "sync", "depend", "table", "got"}
         /\ LinkRight(Top, TRUE, ret)
         /\ \A a \in {"header", "sync", "depend", "table", "got"} :
              /\ GoOn(a) \in Frames /\ GoOn(a).fn = "link" /\ GoOn(a).guest = Top.guest
              /\ GoOn(a).at = a
<1>1. StackRight /\ FramesRight /\ Top.fn \notin InnerCalls  BY DEF IInv, InnerCalls
<1>2. /\ Top \in Frames /\ FrameRight(Top, TRUE, ret, {}) /\ Len(stack) = 1 /\ stack[1] = Top
      /\ open = "open"
  BY <1>1, BaseTop
<1>3. Top \in LinkFrames  BY <1>2, FrameFields
<1>4. \A a \in {"header", "sync", "depend", "table", "got"} :
        /\ GoOn(a) \in LinkFrames /\ GoOn(a).guest = Top.guest /\ GoOn(a).at = a
  BY <1>3 DEF GoOn, LinkFrames
<1>5. \A a \in {"header", "sync", "depend", "table", "got"} :
        GoOn(a) \in Frames /\ GoOn(a).fn = "link"
  BY <1>4 DEF Frames, LinkFrames
<1> QED  BY <1>1, <1>2, <1>3, <1>4, <1>5 DEF LinkFrames, FrameRight

\* A flush is on the stack.
LEMMA FlushTop ==
  ASSUME IInv, stack # <<>>, Top.fn = "flush"
  PROVE  /\ StackRight /\ FramesRight /\ Top.fn \notin InnerCalls /\ Len(stack) = 1
         /\ stack[1] = Top /\ open = "open" /\ FlushRight(Top, TRUE, ret)
         /\ \A a \in {"l2", "refcount", "file"} :
              GoOn(a) \in Frames /\ GoOn(a).fn = "flush" /\ GoOn(a).at = a
<1>1. StackRight /\ FramesRight /\ Top.fn \notin InnerCalls  BY DEF IInv, InnerCalls
<1>2. /\ Top \in Frames /\ FrameRight(Top, TRUE, ret, {}) /\ Len(stack) = 1 /\ stack[1] = Top
      /\ open = "open"
  BY <1>1, BaseTop
<1>3. Top \in FlushFrames  BY <1>2, FrameFields
<1>4. \A a \in {"l2", "refcount", "file"} : GoOn(a) \in FlushFrames /\ GoOn(a).at = a
  BY <1>3 DEF GoOn, FlushFrames
<1>5. \A a \in {"l2", "refcount", "file"} : GoOn(a) \in Frames /\ GoOn(a).fn = "flush"
  BY <1>4 DEF Frames, FlushFrames
<1> QED  BY <1>1, <1>2, <1>4, <1>5 DEF FrameRight

CloseLabels == {"start", "flushed_l2", "flushed", "l2", "refcount", "file", "header"}
LateLabels == {"l2", "refcount", "file", "header"}

\* A close is.
LEMMA CloseTop ==
  ASSUME IInv, stack # <<>>, Top.fn = "close"
  PROVE  /\ StackRight /\ FramesRight /\ Top.fn \notin InnerCalls /\ Len(stack) = 1
         /\ stack[1] = Top /\ open = "open" /\ CloseRight(Top, TRUE, ret)
         /\ Top \in CloseFrames /\ Top.failed \in BOOLEAN
         /\ \A a \in CloseLabels :
              /\ GoOn(a) \in Frames /\ GoOn(a).fn = "close" /\ GoOn(a).at = a
              /\ GoOn(a).failed = Top.failed
<1>1. StackRight /\ FramesRight /\ Top.fn \notin InnerCalls  BY DEF IInv, InnerCalls
<1>2. /\ Top \in Frames /\ FrameRight(Top, TRUE, ret, {}) /\ Len(stack) = 1 /\ stack[1] = Top
      /\ open = "open"
  BY <1>1, BaseTop
<1>3. Top \in CloseFrames  BY <1>2, FrameFields
<1>4. ASSUME NEW a \in CloseLabels
      PROVE  /\ GoOn(a) \in Frames /\ GoOn(a).fn = "close" /\ GoOn(a).at = a
             /\ GoOn(a).failed = Top.failed
  <2>1. GoOn(a) \in CloseFrames /\ GoOn(a).at = a /\ GoOn(a).failed = Top.failed
    BY <1>3 DEF GoOn, CloseFrames, CloseLabels
  <2> QED  BY <2>1 DEF Frames, CloseFrames
<1>5. Top.failed \in BOOLEAN  BY <1>3 DEF CloseFrames
<1> QED  BY <1>1, <1>2, <1>3, <1>4, <1>5 DEF FrameRight

\* The dirty bit is on disk before it is relied on.
LEMMA Step_qcow2_mark_dirty ==
  ASSUME IInv, qcow2_mark_dirty
  PROVE  IInv'
<1>1. stack # <<>> /\ Top.fn = "link" /\ Top.at \in {"header", "sync"}
  BY DEF qcow2_mark_dirty, In
<1>2. /\ StackRight /\ FramesRight /\ Top.fn \notin InnerCalls /\ Len(stack) = 1
      /\ stack[1] = Top /\ open = "open" /\ Top.guest \in Guest /\ LinkRight(Top, TRUE, ret)
  BY <1>1, LinkTop
<1>3. /\ UNCHANGED <<lazy, l2, packed, refcount, dirty, depends, depends_on_flush, req, age,
                     unordered, leaked, flushing, open>>
      /\ faults' \in Nat /\ faults' >= faults
  BY FaultsCount DEF qcow2_mark_dirty, history, image
<1>4. req[Top.guest].pc = "linking" /\ (Top.at = "sync" => lazy /\ disk.header.last)
  BY <1>2 DEF LinkRight
<1>5. ASSUME NEW a \in {"sync", "depend"}, Goto(GoOn(a)), a = "sync" => lazy /\ disk'.header.last
      PROVE  /\ StackRight' /\ FramesRight' /\ RequestKept /\ ret' = "none"
             /\ stack' # <<>> /\ stack'[1].fn = "link" /\ stack'[1].at = a
  <2>1. PICK f \in Frames : f = GoOn(a)  BY <1>1, LinkTop
  <2>2. f.fn = "link" /\ f.guest = Top.guest /\ f.at = a  BY <1>1, <2>1, LinkTop
  <2>3. FrameRight(f, TRUE, "none", {})'
    BY <1>3, <1>4, <1>5, <2>2 DEF FrameRight, LinkRight
  <2>4. /\ StackRight' /\ FramesRight'
        /\ stack' # <<>> /\ Len(stack') = 1 /\ stack'[1] = f /\ ret' = "none"
    BY <1>1, <1>2, <1>3, <1>5, <2>1, <2>2, <2>3, BaseGoes DEF Bases
  <2>5. RequestKept
    BY <1>1, <1>2, <2>2, <2>4 DEF RequestKept, Freeing, Linking, Pledged
  <2> QED  BY <2>2, <2>4, <2>5
<1>6. Quiet /\ AgeKept /\ DependenciesAcyclic' /\ Awaited' = Awaited
      /\ depends' \in [Caches -> BOOLEAN] /\ depends_on_flush' \in [Caches -> BOOLEAN]
  BY <1>3, SameAge DEF IInv, Quiet, DependenciesAcyclic, Awaited, TypeOK
<1>7. ClosedRight'  BY <1>2, <1>3, StaysOpen DEF IInv, ClosedRight
<1>8. ASSUME NEW a \in {"sync", "depend"}, Goto(GoOn(a)), a = "sync" => lazy /\ disk'.header.last,
             DiskType', TablesSettle, header' \in BOOLEAN, Ordered' => Ordered, HeaderRight'
      PROVE  IInv'
  <2>1. StackRight' /\ FramesRight' /\ RequestKept /\ ret' = "none"  BY <1>5, <1>8
  <2>2. Quieted'  BY <1>3, <1>6, <1>8, <2>1, QuietStep
  <2> QED  BY <1>7, <1>8, <2>1, <2>2, WholeInvariant DEF Rest, Quieted
<1>9. CASE /\ Top.at = "header" /\ (~lazy \/ header) /\ Goto(GoOn("depend"))
           /\ UNCHANGED <<disk, header>>
  <2>1. DiskType' /\ DiskSettles /\ TablesSettle  BY <1>9, DiskSame DEF IInv, DiskSettles, TablesSettle
  <2>2. Ordered' => Ordered  BY <1>3, <1>9 DEF Ordered
  <2>3. ~HeaderBase  BY <1>1, <1>2, <1>9 DEF HeaderBase
  <2>4. HeaderRight'  BY <1>3, <1>9, <2>1, <2>3, HeaderStays DEF DiskSettles
  <2> QED  BY <1>8, <1>9, <2>1, <2>2, <2>4 DEF IInv, TypeOK
<1>10. CASE /\ lazy /\ ~header /\ disk' = [disk EXCEPT !.header = Put(@, TRUE)]
            /\ Goto(GoOn("sync")) /\ UNCHANGED header
  <2>1. /\ DiskType' /\ disk'.l2 = disk.l2 /\ disk'.refcount = disk.refcount
        /\ disk'.data = disk.data /\ disk'.header.last = TRUE
        /\ disk'.header.maybe = disk.header.maybe \cup {TRUE}
    BY <1>10, DiskWriteHeader DEF IInv
  <2>2. TablesSettle  BY <2>1, SameTables DEF IInv
  <2>3. Ordered' => Ordered  BY <1>3, <2>1 DEF Ordered
  <2>4. HeaderRight'
    <3>1. stack' # <<>> /\ stack'[1].fn = "link" /\ stack'[1].at = "sync"  BY <1>5, <1>10, <2>1
    <3> QED  BY <1>10, <3>1 DEF HeaderRight
  <2> QED  BY <1>8, <1>10, <2>1, <2>2, <2>3, <2>4 DEF IInv, TypeOK
<1>11. CASE Top.at = "sync" /\ disk' = Flushed /\ header' = TRUE /\ Goto(GoOn("depend"))
  <2>1. DiskType' /\ DiskSettles /\ disk'.header.maybe = {disk.header.last}
    BY <1>11, DiskFlushed DEF IInv
  <2>2. disk'.header.maybe = {TRUE}
    BY <1>4, <1>11, <2>1, DiskFields, CellIn DEF IInv
  <2>3. TablesSettle /\ ~Ordered'  BY <2>1, <2>2 DEF DiskSettles, TablesSettle, Ordered
  <2>4. HeaderRight'  BY <1>3, <1>4, <1>11, <2>2 DEF HeaderRight
  <2> QED  BY <1>8, <1>11, <2>1, <2>3, <2>4
<1>12. CASE Goto(GoOn("depend")) /\ Fault /\ UNCHANGED <<disk, header>>
  <2>1. DiskType' /\ TablesSettle  BY <1>12, DiskSame DEF IInv, DiskSettles, TablesSettle
  <2>2. Ordered' => Ordered  BY <1>3, <1>12 DEF Ordered
  <2>3. faults' > 0  BY <1>12, FaultsCount
  <2>4. HeaderRight'  BY <1>3, <1>12, <2>3 DEF IInv, HeaderRight
  <2> QED  BY <1>8, <1>12, <2>1, <2>2, <2>4 DEF IInv, TypeOK
<1>13. CASE /\ Top.at = "sync" \/ (lazy /\ ~header)
            /\ disk' = [disk EXCEPT !.header = Put(@, TRUE)]
            /\ Goto(GoOn("depend")) /\ Fault /\ UNCHANGED header
  <2>1. /\ DiskType' /\ disk'.l2 = disk.l2 /\ disk'.refcount = disk.refcount
        /\ disk'.data = disk.data /\ disk'.header.maybe = disk.header.maybe \cup {TRUE}
    BY <1>13, DiskWriteHeader DEF IInv
  <2>2. TablesSettle  BY <2>1, SameTables DEF IInv
  <2>3. Ordered' => Ordered  BY <1>3, <2>1 DEF Ordered
  <2>4. faults' > 0  BY <1>13, FaultsCount
  <2>5. HeaderRight'  BY <1>3, <1>13, <2>1, <2>4 DEF IInv, HeaderRight
  <2> QED  BY <1>8, <1>13, <2>1, <2>2, <2>3, <2>5 DEF IInv, TypeOK
<1> QED  BY <1>9, <1>10, <1>11, <1>12, <1>13 DEF qcow2_mark_dirty

\* A flush changes what it covers, never an entry from before.
LEMMA AgeFields ==
  ASSUME IInv, NEW from, NEW to \in {"volatile", "flushing", "durable"}, from # "old",
         age' = Age(from, to)
  PROVE  /\ AgeKept
         /\ \A g \in Guest : age'[g] = IF age[g] = from THEN to ELSE age[g]
<1>1. /\ \A g \in Guest : age[g] \in {"old", "volatile", "flushing", "durable"}
      /\ age' = [g \in Guest |-> IF age[g] = from THEN to ELSE age[g]]
  BY DEF IInv, TypeOK, Age
<1> QED  BY <1>1 DEF AgeKept

\* qcow2_co_flush_to_os begins.
LEMMA Step_FlushStart ==
  ASSUME IInv, FlushStart
  PROVE  IInv'
<1>1. open = "open" /\ ~flushing /\ Lock([fn |-> "flush", at |-> "l2"])
      /\ age' = Age("volatile", "flushing")
  BY DEF FlushStart, NewOp
<1>2. UNCHANGED <<lazy, l2, packed, refcount, header, dirty, depends, depends_on_flush, disk, req,
                  unordered, leaked, flushing, open, faults>>
  BY DEF FlushStart, memory
<1>3. PICK f \in Frames : f = [fn |-> "flush", at |-> "l2"]  BY DEF Frames, FlushFrames
<1>4. f.fn = "flush" /\ f.at = "l2"  BY <1>3
<1>5. FrameRight(f, TRUE, "none", {})'  BY <1>1, <1>2, <1>4 DEF FrameRight, FlushRight
<1>6. StackRight' /\ FramesRight'
  BY <1>1, <1>2, <1>3, <1>4, <1>5, FramesLock DEF IInv, Bases
<1>7. RequestKept /\ (HeaderBase => HeaderBase') /\ ret' = "none"
  BY <1>1, <1>3, <1>4, LockKept, StackLock DEF Plain
<1>8. AgeKept /\ \A g \in Guest : age'[g] = IF age[g] = "volatile" THEN "flushing" ELSE age[g]
  BY <1>1, AgeFields
<1>9. DurableRight'
  <2>1. \A g \in Guest : age'[g] = "durable" => age[g] = "durable"  BY <1>8
  <2> QED  BY <1>1, <1>2, <2>1 DEF IInv, DurableRight
<1>10. DiskType' /\ DiskSettles /\ TablesSettle
  BY <1>2, DiskSame DEF IInv, DiskSettles, TablesSettle
<1>11. /\ Quiet /\ header' \in BOOLEAN /\ DependenciesAcyclic' /\ Awaited' = Awaited
       /\ depends' \in [Caches -> BOOLEAN] /\ depends_on_flush' \in [Caches -> BOOLEAN]
       /\ Ordered' = Ordered /\ faults \in Nat /\ faults >= faults
  BY <1>2 DEF IInv, Quiet, TypeOK, DependenciesAcyclic, Awaited, Ordered, ClosedRight
<1>12. Quieted'  BY <1>2, <1>7, <1>8, <1>9, <1>10, <1>11, QuietStep
<1>13. HeaderRight'  BY <1>2, <1>7, <1>10, <1>11, HeaderStays DEF DiskSettles
<1>14. ClosedRight'  BY <1>1, <1>2, StaysOpen DEF IInv, ClosedRight
<1> QED  BY <1>6, <1>12, <1>13, <1>14, WholeInvariant DEF Rest, Quieted

\* qcow2_write_caches, of a flush or of a close: only the stack changes.
LEMMA WriteCachesStep ==
  ASSUME IInv, NEW fn \in {"flush", "close"}, WriteCaches(fn), Inner,
         UNCHANGED <<disk, dirty, depends, depends_on_flush>>
  PROVE  IInv'
<1>1. stack # <<>> /\ Top.fn = fn /\ Top.at \in {"l2", "refcount"}
  BY DEF WriteCaches, At, In
<1>2. /\ StackRight /\ FramesRight /\ Top.fn \notin InnerCalls /\ Len(stack) = 1
      /\ stack[1] = Top /\ open = "open"
      /\ Top.fn = "flush" => FlushRight(Top, TRUE, ret)
      /\ Top.fn = "close" => CloseRight(Top, TRUE, ret)
      /\ \A a \in {"refcount", "file"} :
           GoOn(a) \in Frames /\ GoOn(a).fn = fn /\ GoOn(a).at = a
  BY <1>1, FlushTop, CloseTop DEF CloseLabels
<1>3. /\ Synced("l2") => Synced("l2")'
      /\ Synced("refcount") => Synced("refcount")'
  BY DEF Inner, Synced
<1>4. ASSUME NEW a \in {"refcount", "file"}, NEW last \in BOOLEAN, NEW f \in Frames, f = GoOn(a),
             fn = "flush" /\ a = "refcount" => ~last,
             fn = "flush" /\ a = "file" => dirty["l2"] = {}
      PROVE  f.fn = fn /\ f.at = a /\ FrameRight(f, last, "none", {})'
  <2>1. f.fn = fn /\ f.at = a  BY <1>2, <1>4
  <2>2. CASE fn = "flush"
    BY <1>1, <1>2, <1>4, <2>1, <2>2 DEF FrameRight, FlushRight, Inner
  <2>3. CASE fn = "close"
    <3>1. /\ ~flushing /\ (\A g \in Guest : req[g].pc = "idle")
          /\ ~header /\ Synced("l2") /\ Synced("refcount")
      BY <1>1, <1>2, <2>3 DEF CloseRight
    <3>2. /\ ~flushing' /\ (\A g \in Guest : req'[g].pc = "idle")
          /\ ~header' /\ Synced("l2")' /\ Synced("refcount")'
      BY <1>3, <3>1 DEF Inner
    <3> QED  BY <2>1, <2>3, <3>2 DEF FrameRight, CloseRight
  <2> QED  BY <2>1, <2>2, <2>3
<1>5. ASSUME NEW a \in {"refcount", "file"}, NEW c \in Caches, Call(GoOn(a), CacheFlush(c, FALSE)),
             a = "refcount" => c = "l2", a = "file" => c = "refcount",
             fn = "flush" /\ a = "file" => dirty["l2"] = {},
             fn = "close" => Top.at \in LateLabels
      PROVE  IInv'
  <2>1. PICK f \in Frames : f = GoOn(a)  BY <1>2
  <2>2. f.fn = fn /\ f.at = a /\ FrameRight(f, FALSE, "none", {})'  BY <1>4, <1>5, <2>1
  <2>3. PICK g \in Frames : g = CacheFlush(c, FALSE)  BY NewFrames
  <2>4. g.fn = "cache_flush" /\ g.cache = c  BY <2>3 DEF CacheFlush
  <2>5. Calls(f, g)  BY <1>5, <2>2, <2>4 DEF Calls
  <2>6. FrameRight(g, TRUE, "none", {})'  BY <2>3, FreshFrame
  <2>7. /\ StackRight' /\ FramesRight'
        /\ stack' # <<>> /\ Len(stack') = 2 /\ stack'[1] = f /\ ret' = "none"
    BY <1>1, <1>2, <1>5, <2>1, <2>2, <2>3, <2>5, <2>6, BaseCalls DEF Inner, Bases
  <2>8. RequestKept  BY <1>1, <1>2, <2>2, <2>7, PlainKept DEF Plain
  <2>9. HeaderBase => HeaderBase'  BY <1>1, <1>2, <2>2, <2>7 DEF HeaderBase
  <2> QED  BY <2>7, <2>8, <2>9, EffectNone, WholeInvariant DEF BaseKept
<1>6. CASE Top.at = "l2" /\ Call(GoOn("refcount"), CacheFlush("l2", FALSE))
  BY <1>5, <1>6 DEF Caches, LateLabels
<1>7. Top.at = "refcount" /\ ret # "err" /\ fn = "flush" => dirty["l2"] = {}
  BY <1>1, <1>2 DEF FlushRight
<1>8. CASE Top.at = "refcount" /\ ret # "err" /\ Call(GoOn("file"), CacheFlush("refcount", FALSE))
  BY <1>5, <1>7, <1>8 DEF Caches, LateLabels
<1>9. CASE Top.at = "refcount" /\ ret # "err" /\ Goto(GoOn("file"))
  <2>1. PICK f \in Frames : f = GoOn("file")  BY <1>2
  <2>2. f.fn = fn /\ f.at = "file" /\ FrameRight(f, TRUE, "none", {})'  BY <1>4, <1>7, <1>9, <2>1
  <2>3. /\ StackRight' /\ FramesRight'
        /\ stack' # <<>> /\ Len(stack') = 1 /\ stack'[1] = f /\ ret' = "none"
    BY <1>1, <1>2, <1>9, <2>1, <2>2, BaseGoes DEF Inner, Bases
  <2>4. RequestKept  BY <1>1, <1>2, <2>2, <2>3, PlainKept DEF Plain
  <2>5. HeaderBase => HeaderBase'  BY <1>1, <1>2, <2>2, <2>3 DEF HeaderBase
  <2> QED  BY <2>3, <2>4, <2>5, EffectNone, WholeInvariant DEF BaseKept
<1> QED  BY <1>6, <1>8, <1>9 DEF WriteCaches, At

\* It goes on to the file only when all L2 tables have been written.
LEMMA Step_FlushCaches ==
  ASSUME IInv, FlushCaches
  PROVE  IInv'
<1>0. faults \in Nat /\ faults >= faults  BY DEF IInv, ClosedRight
<1>1. UNCHANGED <<lazy, l2, packed, refcount, header, dirty, depends, depends_on_flush, disk, req,
                  unordered, leaked, open, faults>>
  BY DEF FlushCaches, memory
<1>2. CASE WriteCaches("flush") /\ UNCHANGED <<age, flushing>>
  BY <1>0, <1>1, <1>2, WriteCachesStep DEF Inner
<1>3. DiskType' /\ DiskSettles /\ TablesSettle
  BY <1>1, DiskSame DEF IInv, DiskSettles, TablesSettle
<1>4. /\ Quiet /\ header' \in BOOLEAN /\ DependenciesAcyclic' /\ Awaited' = Awaited
      /\ depends' \in [Caches -> BOOLEAN] /\ depends_on_flush' \in [Caches -> BOOLEAN]
      /\ Ordered' = Ordered /\ faults \in Nat /\ faults >= faults
  BY <1>1 DEF IInv, Quiet, TypeOK, DependenciesAcyclic, Awaited, Ordered, ClosedRight
<1>5. ASSUME In("flush"), NEW r, Return(r), AgeKept, flushing' \in BOOLEAN,
             DurableRight' \/ (age' = age /\ (flushing' => flushing \/ dirty["l2"] = {}))
      PROVE  IInv'
  <2>1. /\ StackRight /\ FramesRight /\ Top.fn \notin InnerCalls
        /\ stack[1] = Top /\ open = "open" /\ stack # <<>> /\ Top.fn = "flush"
    BY <1>5, FlushTop DEF In
  <2>2. StackRight' /\ FramesRight' /\ stack' = <<>> /\ ret' = "none"
    BY <1>5, <2>1, BaseReturns
  <2>3. RequestKept /\ ~HeaderBase  BY <2>1, <2>2, PlainKept DEF Plain, HeaderBase
  <2>4. Quieted'  BY <1>1, <1>3, <1>4, <1>5, <2>2, <2>3, QuietStep
  <2>5. HeaderRight'  BY <1>1, <1>3, <1>4, <2>3, HeaderStays DEF DiskSettles
  <2>6. ClosedRight'  BY <1>1, <1>5, <2>1, StaysOpen DEF IInv, ClosedRight
  <2> QED  BY <2>2, <2>4, <2>5, <2>6, WholeInvariant DEF Rest, Quieted
<1>6. CASE At("flush", "file") /\ ret # "err" /\ Return("ok") /\ flushing' = TRUE /\ UNCHANGED age
  <2>1. dirty["l2"] = {}  BY <1>6, FlushTop DEF At, In, FlushRight
  <2> QED  BY <1>5, <1>6, <2>1, SameAge DEF At
<1>7. CASE In("flush") /\ Return("err") /\ age' = Age("flushing", "volatile") /\ UNCHANGED flushing
  <2>1. AgeKept /\ \A g \in Guest : age'[g] = IF age[g] = "flushing" THEN "volatile" ELSE age[g]
    BY <1>7, AgeFields
  <2>2. \A g \in Guest : (age'[g] = "durable" => age[g] = "durable") /\ age'[g] # "flushing"
    BY <2>1
  <2>3. DurableRight'  BY <1>1, <2>2 DEF IInv, DurableRight
  <2> QED  BY <1>5, <1>7, <2>1, <2>3 DEF IInv, ClosedRight
<1> QED  BY <1>2, <1>6, <1>7 DEF FlushCaches

\* What is enough for a call on top to know what it knew, in a step without the lock.
LEMMA TopStays ==
  ASSUME TypeOK, UNCHANGED <<lazy, header, dirty, depends, depends_on_flush>>,
         \A c \in Caches : Synced(c) => Synced(c)', DataSynced => DataSynced',
         \A g \in Guest : /\ req[g].pc = "linking" => req'[g].pc = "linking"
                          /\ req[g].pc = "idle" => req'[g].pc = "idle",
         flushing' => flushing, disk'.header.last = disk.header.last
  PROVE  /\ Keeps
         /\ \A f \in Frames : \A r : FrameRight(f, TRUE, r, {}) => FrameRight(f, TRUE, r, {})'
<1>1. Keeps
  <2>1. \A c \in Caches : dirty'[c] \subseteq dirty[c]  OBVIOUS
  <2>2. (\A g \in Guest : req[g].pc = "idle") => \A g \in Guest : req'[g].pc = "idle"  OBVIOUS
  <2> QED  BY <2>1, <2>2, KeepsLower
<1>2. ASSUME NEW f \in Frames, NEW r, FrameRight(f, TRUE, r, {})  PROVE FrameRight(f, TRUE, r, {})'
  <2>0. "l2" \in Caches /\ "refcount" \in Caches  BY DEF Caches
  <2>1. ASSUME f.fn = "cache_flush"  PROVE CacheFlushRight(f, TRUE, r, {})'
    BY <1>2, <2>1 DEF FrameRight, CacheFlushRight
  <2>2. ASSUME f.fn = "entry_flush"  PROVE EntryFlushRight(f, TRUE, r)'
    <3>1. f.cache \in Caches /\ Other(f.cache) \in Caches
      BY <2>2, FrameFields DEF EntryFrames, Other, Caches
    <3> QED  BY <1>2, <2>2, <3>1 DEF FrameRight, EntryFlushRight
  <2>3. ASSUME f.fn = "set_dependency"  PROVE OrderRight(f, TRUE, r)'
    <3>1. f.cache \in Caches  BY <2>3, FrameFields DEF OrderFrames
    <3> QED  BY <1>2, <2>3, <3>1 DEF FrameRight, OrderRight
  <2>4. ASSUME f.fn = "free"  PROVE FreeRight(f, TRUE, r)'
    BY <1>2, <2>4 DEF FrameRight, FreeRight
  <2>5. ASSUME f.fn = "link"  PROVE LinkRight(f, TRUE, r)'
    <3>1. f.guest \in Guest  BY <2>5, FrameFields DEF LinkFrames
    <3> QED  BY <1>2, <2>5, <3>1 DEF FrameRight, LinkRight
  <2>6. ASSUME f.fn = "flush"  PROVE FlushRight(f, TRUE, r)'
    BY <1>2, <2>6 DEF FrameRight, FlushRight
  <2>7. ASSUME f.fn = "close"  PROVE CloseRight(f, TRUE, r)'
    BY <1>2, <2>0, <2>7 DEF FrameRight, CloseRight
  <2> QED  BY <2>1, <2>2, <2>3, <2>4, <2>5, <2>6, <2>7 DEF FrameRight
<1> QED  BY <1>1, <1>2

\* The flush of the file makes durable what was written before.
LEMMA Step_FlushFile ==
  ASSUME IInv, FlushFile
  PROVE  IInv'
<1>1. /\ UNCHANGED <<lazy, l2, packed, refcount, header, dirty, depends, depends_on_flush, stack,
                     ret, req, unordered, leaked, open>>
      /\ flushing /\ ~flushing' /\ flushing' \in BOOLEAN /\ disk' \in {disk, Flushed}
      /\ faults' \in Nat /\ faults' >= faults
  BY FaultsCount DEF FlushFile, memory
<1>2. DiskType' /\ DiskSettles /\ TablesSettle
  BY <1>1, DiskSettled DEF IInv, DiskSettles, TablesSettle
<1>3. /\ AgeKept
      /\ \/ UNCHANGED disk /\ \A g \in Guest : age'[g] = IF age[g] = "flushing" THEN "volatile" ELSE age[g]
         \/ disk' = Flushed /\ \A g \in Guest : age'[g] = IF age[g] = "flushing" THEN "durable" ELSE age[g]
  BY AgeFields DEF FlushFile
<1>4. open = "open"  BY <1>1 DEF IInv, ClosedRight
<1>5. /\ Quiet /\ header' \in BOOLEAN /\ DependenciesAcyclic' /\ Awaited' = Awaited
      /\ depends' \in [Caches -> BOOLEAN] /\ depends_on_flush' \in [Caches -> BOOLEAN]
      /\ ret' \in {"none", "ok", "err"}
      /\ Ordered' => Ordered
  BY <1>1, <1>2 DEF IInv, Quiet, TypeOK, DependenciesAcyclic, Awaited, Ordered, DiskSettles, Settles
<1>6. RequestKept /\ (HeaderBase => HeaderBase')
  BY <1>1 DEF RequestKept, HeaderBase, Freeing, Linking, Pledged
<1>7. DurableRight'
  <2> SUFFICES ASSUME NEW g \in Guest, age'[g] = "durable"
               PROVE  disk'.l2[g].maybe = {l2[g]} /\ (l2[g] # None => disk'.data[l2[g]].maybe = {g})
    BY <1>1 DEF DurableRight
  <2>1. l2[g] # None => l2[g] \in Host  BY HostsExist DEF IInv
  <2>2. CASE age[g] = "durable"
    <3>1. disk.l2[g].maybe = {l2[g]} /\ (l2[g] # None => disk.data[l2[g]].maybe = {g})
      BY <2>2 DEF IInv, DurableRight
    <3> QED  BY <1>2, <2>1, <3>1, SettlesKnown
  <2>3. CASE age[g] # "durable"
    <3>1. age[g] = "flushing" /\ disk' = Flushed  BY <1>3, <2>3
    <3>2. disk.l2[g].last = l2[g] /\ (l2[g] # None => disk.data[l2[g]].last = g)
      BY <1>1, <3>1 DEF IInv, DurableRight, DataRight
    <3>3. /\ disk'.l2[g].maybe = {disk.l2[g].last}
          /\ \A c \in Host : disk'.data[c].maybe = {disk.data[c].last}
      BY <3>1, DiskFlushed DEF IInv
    <3> QED  BY <2>1, <3>2, <3>3
  <2> QED  BY <2>2, <2>3
<1>8. Quieted'  BY <1>1, <1>2, <1>3, <1>5, <1>6, <1>7, QuietStep
<1>9. HeaderRight'  BY <1>1, <1>2, <1>6, HeaderStays DEF DiskSettles
<1>10. ClosedRight'  BY <1>1, <1>4, StaysOpen DEF IInv, ClosedRight
<1>11. \A c \in Caches : Synced(c) => Synced(c)'
  BY <1>1, <1>2, SyncedSettles DEF IInv
<1>12. DataSynced => DataSynced'
  <2> SUFFICES ASSUME DataSynced, NEW g \in Guest
               PROVE  /\ req[g].pc = "linking" => disk'.data[req[g].host].maybe = {g}
                      /\ age[g] # "old" /\ l2[g] # None => disk'.data[l2[g]].maybe = {g}
    BY <1>1, <1>3 DEF DataSynced, AgeKept
  <2>1. /\ req[g].pc = "linking" => req[g].host \in Host
        /\ l2[g] # None => l2[g] \in Host
    BY HostsExist DEF IInv
  <2> QED  BY <1>2, <2>1, SettlesKnown DEF DataSynced
<1>13. disk'.header.last = disk.header.last  BY <1>2 DEF DiskSettles, Settles
<1>14. /\ Keeps
       /\ \A f \in Frames : \A r : FrameRight(f, TRUE, r, {}) => FrameRight(f, TRUE, r, {})'
  BY <1>1, <1>11, <1>12, <1>13, TopStays DEF IInv
<1>15. StackRight' /\ FramesRight'  BY <1>1, <1>14, FramesStay DEF IInv
<1> QED  BY <1>8, <1>9, <1>10, <1>15, WholeInvariant DEF Rest, Quieted

\* Caches that are on disk stay so.
LEMMA SyncedSame ==
  ASSUME UNCHANGED <<l2, refcount, dirty>>, disk'.l2 = disk.l2, disk'.refcount = disk.refcount
  PROVE  /\ Synced("l2") => Synced("l2")'
         /\ Synced("refcount") => Synced("refcount")'
BY DEF Synced

\* When both caches are on disk, the image needs no dirty bit.
BothSynced == refcount \in [Host -> Nat] /\ Accounted /\ Synced("l2") /\ Synced("refcount")

\* The references on disk are then those in memory, and all are counted.
LEMMA SyncedOrdered == BothSynced => OrderKept
<1> SUFFICES ASSUME BothSynced PROVE OrderKept  OBVIOUS
<1>1. \A c : Claims(c) \subseteq Users(c)  BY DEF Claims, Users, BothSynced, Synced
<1>2. ASSUME NEW c \in Host
      PROVE  /\ refcount[c] \in Nat /\ Users(c) \subseteq Guest
             /\ refcount[c] >= Cardinality(Users(c))
             /\ disk.refcount[c].maybe = {refcount[c]}
  <2>1. refcount[c] \in Nat /\ Users(c) \subseteq Guest /\ disk.refcount[c].maybe = {refcount[c]}
    BY UseSets DEF BothSynced, Synced
  <2>2. Cardinality(Users(c)) \in Nat /\ Owed(c) \in Nat  BY <2>1, CountMono DEF Owed
  <2>3. refcount[c] >= Cardinality(Users(c)) + Owed(c)  BY DEF BothSynced, Accounted
  <2> QED  BY <2>1, <2>2, <2>3
<1>3. ASSUME NEW c \in Host, NEW S, S \subseteq Claims(c)  PROVE refcount[c] >= Cardinality(S)
  <2>1. S \subseteq Users(c)  BY <1>1, <1>3
  <2> QED  BY <1>2, <2>1, Enough
<1>4. \A c \in Host : /\ refcount[c] >= Cardinality(MayUse(c))
                      /\ refcount[c] >= Cardinality(WillUse(c))
                      /\ refcount[c] >= Cardinality(Claims(c))
  <2>1. \A c : /\ MayUse(c) \subseteq Claims(c) /\ WillUse(c) \subseteq Claims(c)
               /\ Claims(c) \subseteq Claims(c)
    BY UseSets
  <2> QED  BY <1>3, <2>1
<1>5. CrashSafe  BY <1>2, <1>4 DEF CrashSafe, MayUse
<1>6. L2Safe /\ RefcountSafe  BY <1>2, <1>4 DEF L2Safe, RefcountSafe
<1> QED  BY <1>5, <1>6 DEF OrderKept

\* The same after a step.
LEMMA SyncedOrderedNext == BothSynced' => OrderKept'
BY SyncedOrdered, PTL

\* Both caches are on disk when qcow2_inactivate goes on to clear the bit.
LEMMA Step_CloseFlush ==
  ASSUME IInv, CloseFlush
  PROVE  IInv'
<1>1. stack # <<>> /\ Top.fn = "close"  BY DEF CloseFlush, In
<1>2. /\ StackRight /\ FramesRight /\ Top.fn \notin InnerCalls /\ Len(stack) = 1
      /\ stack[1] = Top /\ open = "open" /\ CloseRight(Top, TRUE, ret) /\ Top.failed \in BOOLEAN
  BY <1>1, CloseTop
<1>3. PICK b \in BOOLEAN : b = (Top.failed \/ ret = "err")  OBVIOUS
<1>4. PICK h \in CloseFrames : h = [Top EXCEPT !.failed = @ \/ ret = "err"] /\ h.failed = b
  <2>1. Top \in CloseFrames  BY <1>1, CloseTop
  <2>2. PICK h : h = [Top EXCEPT !.failed = @ \/ ret = "err"]  OBVIOUS
  <2>3. h \in CloseFrames /\ h.failed = b  BY <1>3, <2>1, <2>2 DEF CloseFrames
  <2> QED  BY <2>2, <2>3, Zenon
<1>5. /\ UNCHANGED <<lazy, l2, packed, refcount, dirty, depends, depends_on_flush, disk, req, age,
                     unordered, leaked, flushing, faults>>
      /\ faults \in Nat /\ faults >= faults
  BY DEF CloseFlush, history, IInv, ClosedRight
<1>6. ~flushing /\ \A g \in Guest : req[g].pc = "idle"  BY <1>2 DEF CloseRight
<1>7. /\ Synced("l2") => Synced("l2")'
      /\ Synced("refcount") => Synced("refcount")'
  BY <1>5, SyncedSame
<1>8. /\ DiskType' /\ DiskSettles /\ TablesSettle
      /\ Quiet /\ DependenciesAcyclic' /\ Awaited' = Awaited /\ AgeKept
      /\ depends' \in [Caches -> BOOLEAN] /\ depends_on_flush' \in [Caches -> BOOLEAN]
      /\ Ordered' = Ordered
  <2>1. DiskType' /\ DiskSettles /\ TablesSettle
    BY <1>5, DiskSame DEF IInv, DiskSettles, TablesSettle
  <2>2. AgeKept  BY <1>5, SameAge
  <2> QED  BY <1>5, <2>1, <2>2 DEF IInv, Quiet, TypeOK, DependenciesAcyclic, Awaited, Ordered
<1>9. ASSUME NEW a \in {"flushed_l2", "flushed"}, NEW c \in Caches,
             a = "flushed_l2" => c = "l2",
             a = "flushed" => c = "refcount" /\ (~b => Synced("l2")),
             Call([h EXCEPT !.at = a], CacheFlush(c, TRUE)),
             UNCHANGED <<header, open>>, Top.at \in {"start", "flushed_l2"}
      PROVE  IInv'
  <2>0. a \in CloseLabels  BY DEF CloseLabels
  <2>1. PICK f : f = [h EXCEPT !.at = a]  OBVIOUS
  <2>2. f \in Frames /\ f.fn = "close" /\ f.at = a /\ f.failed = b
    <3>1. f \in CloseFrames /\ f.at = a /\ f.failed = b  BY <1>4, <2>0, <2>1 DEF CloseFrames, CloseLabels
    <3> QED  BY <3>1 DEF Frames, CloseFrames
  <2>3. PICK g \in Frames : g = CacheFlush(c, TRUE)  BY NewFrames
  <2>4. g.fn = "cache_flush" /\ g.cache = c /\ g.sync  BY <2>3 DEF CacheFlush
  <2>5. Calls(f, g)  BY <1>9, <2>2, <2>4 DEF Calls
  <2>6. FrameRight(f, FALSE, "none", {})'
    BY <1>5, <1>6, <1>7, <1>9, <2>2 DEF FrameRight, CloseRight
  <2>7. FrameRight(g, TRUE, "none", {})'  BY <1>5, <2>3, FreshFrame
  <2>8. /\ StackRight' /\ FramesRight'
        /\ stack' # <<>> /\ Len(stack') = 2 /\ stack'[1] = f /\ ret' = "none"
    BY <1>1, <1>2, <1>9, <2>1, <2>2, <2>3, <2>5, <2>6, <2>7, BaseCalls DEF Bases
  <2>9. RequestKept  BY <1>1, <1>2, <2>2, <2>8, PlainKept DEF Plain
  <2>10. ~HeaderBase  BY <1>1, <1>2, <1>9 DEF HeaderBase
  <2> QED  BY <1>5, <1>9, <2>8, <2>9, <2>10, EffectNone, WholeInvariant DEF BaseKept, Inner
<1>10. CASE /\ Top.at = "start"
           /\ Call([h EXCEPT !.at = "flushed_l2"], CacheFlush("l2", TRUE))
           /\ UNCHANGED <<header, open>>
  BY <1>9, <1>10 DEF Caches
<1>11. CASE /\ Top.at = "flushed_l2"
            /\ Call([h EXCEPT !.at = "flushed"], CacheFlush("refcount", TRUE))
            /\ UNCHANGED <<header, open>>
  <2>1. ~b => Synced("l2")  BY <1>2, <1>3, <1>11 DEF CloseRight
  <2> QED  BY <1>9, <1>11, <2>1 DEF Caches
<1>12. Top.at = "flushed" /\ ~b => Synced("l2") /\ Synced("refcount")
  BY <1>2, <1>3 DEF CloseRight
<1>13. CASE /\ Top.at = "flushed" /\ ~b /\ header
            /\ Goto([h EXCEPT !.at = "l2"]) /\ header' = FALSE
            /\ UNCHANGED open
  <2>0. "l2" \in CloseLabels  BY DEF CloseLabels
  <2>1. PICK f : f = [h EXCEPT !.at = "l2"]  OBVIOUS
  <2>2. f \in Frames /\ f.fn = "close" /\ f.at = "l2"
    <3>1. f \in CloseFrames /\ f.at = "l2"  BY <1>4, <2>0, <2>1 DEF CloseFrames, CloseLabels
    <3> QED  BY <3>1 DEF Frames, CloseFrames
  <2>3. FrameRight(f, TRUE, "none", {})'
    BY <1>5, <1>6, <1>7, <1>12, <1>13, <2>2 DEF FrameRight, CloseRight
  <2>4. /\ StackRight' /\ FramesRight'
        /\ stack' # <<>> /\ Len(stack') = 1 /\ stack'[1] = f /\ ret' = "none"
    BY <1>1, <1>2, <1>13, <2>1, <2>2, <2>3, BaseGoes DEF Bases
  <2>5. RequestKept  BY <1>1, <1>2, <2>2, <2>4, PlainKept DEF Plain
  <2>6. Quieted'  BY <1>5, <1>8, <1>13, <2>4, <2>5, QuietStep
  <2>7. HeaderRight'  BY <1>13, <2>2, <2>4 DEF HeaderRight
  <2>8. ClosedRight'  BY <1>2, <1>5, <1>13, StaysOpen DEF IInv, ClosedRight
  <2> QED  BY <2>4, <2>6, <2>7, <2>8, WholeInvariant DEF Rest, Quieted
<1>14. CASE /\ Top.at = "flushed" /\ (b \/ ~header) /\ Return("ok") /\ UNCHANGED header
            /\ open' = IF b THEN "failed" ELSE "closed"
  <2>1. StackRight' /\ FramesRight' /\ stack' = <<>> /\ ret' = "none"
    BY <1>1, <1>2, <1>14, BaseReturns
  <2>2. RequestKept  BY <1>1, <1>2, <2>1, PlainKept DEF Plain
  <2>3. Quieted'  BY <1>5, <1>8, <1>14, <2>1, <2>2, QuietStep DEF IInv, TypeOK
  <2>4. HeaderRight'
    <3>1. ~HeaderBase  BY <1>1, <1>2, <1>14 DEF HeaderBase
    <3>2. disk.header.last /\ ~header => faults > 0
      BY <1>2, <3>1 DEF IInv, HeaderRight, HeaderBase
    <3> QED  BY <1>5, <1>14, <3>2 DEF IInv, HeaderRight
  <2>5. ClosedRight'
    <3>1. open' = "closed" => ~header' /\ Synced("l2")' /\ Synced("refcount")'
      BY <1>7, <1>12, <1>14
    <3>2. open' \in {"open", "closed", "failed"} /\ open' # "open"  BY <1>14
    <3> QED  BY <1>5, <1>6, <3>1, <3>2 DEF IInv, ClosedRight
  <2> QED  BY <2>1, <2>3, <2>4, <2>5, WholeInvariant DEF Rest, Quieted
<1> QED  BY <1>4, <1>10, <1>11, <1>13, <1>14 DEF CloseFlush

\* They still are when it is cleared on disk.
LEMMA Step_qcow2_mark_clean ==
  ASSUME IInv, ErrorsCounted, qcow2_mark_clean
  PROVE  IInv'
<1>1. stack # <<>> /\ Top.fn = "close" /\ Top.at \in LateLabels
  BY DEF qcow2_mark_clean, WriteCaches, At, In, LateLabels
<1>2. /\ StackRight /\ FramesRight /\ Top.fn \notin InnerCalls /\ Len(stack) = 1
      /\ stack[1] = Top /\ open = "open" /\ CloseRight(Top, TRUE, ret)
  BY <1>1, CloseTop
<1>3. /\ UNCHANGED <<lazy, l2, packed, refcount, header, dirty, depends, depends_on_flush, req, age,
                     unordered, leaked, flushing>>
      /\ faults' \in Nat /\ faults' >= faults
  <2>1. Fault \/ NoFault  BY DEF qcow2_mark_clean
  <2> QED  BY <2>1, FaultsCount DEF qcow2_mark_clean, history, memory
<1>4. /\ ~flushing /\ (\A g \in Guest : req[g].pc = "idle")
      /\ ~header /\ Synced("l2") /\ Synced("refcount")
  BY <1>1, <1>2 DEF CloseRight, LateLabels
<1>5. /\ Quiet /\ DependenciesAcyclic' /\ Awaited' = Awaited /\ AgeKept /\ header' \in BOOLEAN
      /\ depends' \in [Caches -> BOOLEAN] /\ depends_on_flush' \in [Caches -> BOOLEAN]
  BY <1>3, SameAge DEF IInv, Quiet, TypeOK, DependenciesAcyclic, Awaited
<1>6. CASE WriteCaches("close") /\ UNCHANGED <<disk, open>>
  BY <1>3, <1>6, WriteCachesStep DEF Inner
<1>7. CASE disk' = Flushed /\ Goto(GoOn("header")) /\ UNCHANGED open
  <2>1. DiskType' /\ DiskSettles  BY <1>7, DiskFlushed DEF IInv
  <2>2. Synced("l2")' /\ Synced("refcount")'
    BY <1>3, <1>4, <2>1, SyncedSettles DEF IInv, Caches
  <2>3. PICK f \in Frames : f = GoOn("header")  BY <1>1, CloseTop DEF CloseLabels
  <2>4. f.fn = "close" /\ f.at = "header"  BY <1>1, <2>3, CloseTop DEF CloseLabels
  <2>5. FrameRight(f, TRUE, "none", {})'
    BY <1>3, <1>4, <2>2, <2>4 DEF FrameRight, CloseRight
  <2>6. /\ StackRight' /\ FramesRight'
        /\ stack' # <<>> /\ Len(stack') = 1 /\ stack'[1] = f /\ ret' = "none"
    BY <1>1, <1>2, <1>7, <2>3, <2>4, <2>5, BaseGoes DEF Bases
  <2>7. RequestKept  BY <1>1, <1>2, <2>4, <2>6, PlainKept DEF Plain
  <2>8. HeaderBase'  BY <2>4, <2>6 DEF HeaderBase
  <2> QED
    BY <1>3, <1>5, <1>7, <2>6, <2>7, <2>8, EffectSettle, WholeInvariant DEF BaseKept, Inner
<1>8. ASSUME Return("ok"), open' = "closed",
             \/ UNCHANGED disk
             \/ disk' = [disk EXCEPT !.header = Put(@, FALSE)],
             ~disk'.header.last \/ faults' > 0
      PROVE  IInv'
  <2>1. StackRight' /\ FramesRight' /\ stack' = <<>> /\ ret' = "none"
    BY <1>1, <1>2, <1>8, BaseReturns
  <2>2. RequestKept  BY <1>1, <1>2, <2>1, PlainKept DEF Plain
  <2>3. DiskType' /\ disk'.l2 = disk.l2 /\ disk'.refcount = disk.refcount /\ disk'.data = disk.data
    BY <1>8, DiskSame, DiskWriteHeader DEF IInv
  <2>4. TablesSettle  BY <2>3, SameTables DEF IInv
  <2>5. Accounted' /\ refcount' \in [Host -> Nat]  BY <1>3, <2>2, RequestsStay DEF IInv, TypeOK
  <2>6. Synced("l2")' /\ Synced("refcount")'  BY <1>3, <1>4, <2>3, SyncedSame
  <2>7. OrderKept'  BY <2>5, <2>6, SyncedOrderedNext DEF BothSynced
  <2>8. Quieted'  BY <1>3, <1>5, <2>1, <2>2, <2>3, <2>4, <2>7, QuietStep
  <2>9. HeaderRight'  BY <1>3, <1>4, <1>8 DEF HeaderRight
  <2>10. ClosedRight'  BY <1>3, <1>4, <1>8, <2>6 DEF IInv, ClosedRight
  <2> QED  BY <2>1, <2>8, <2>9, <2>10, WholeInvariant DEF Rest, Quieted
<1>9. CASE disk' = [disk EXCEPT !.header = Put(@, FALSE)] /\ Return("ok") /\ open' = "closed"
  <2>1. disk'.header.last = FALSE  BY <1>9, DiskWriteHeader DEF IInv
  <2> QED  BY <1>8, <1>9, <2>1
<1>10. CASE /\ Return("ok") /\ open' = "closed" /\ (ret = "err" \/ Fault)
            /\ UNCHANGED disk \/ disk' = [disk EXCEPT !.header = Put(@, FALSE)]
  <2>1. faults' > 0
    <3>1. CASE Fault  BY <3>1, FaultsCount
    <3>2. CASE ret = "err"
      <4>1. faults \in Nat /\ faults # 0  BY <3>2 DEF IInv, ClosedRight, ErrorsCounted, NoErrors
      <4> QED  BY <1>3, <4>1
    <3> QED  BY <1>10, <3>1, <3>2
  <2> QED  BY <1>8, <1>10, <2>1
<1> QED  BY <1>6, <1>7, <1>9, <1>10 DEF qcow2_mark_clean

-----------------------------------------------------------------------------
(* Steps that change what refers to a cluster, or its refcount *)

\* Nothing that counts for the order gets worse.
LEMMA OrderMono ==
  ASSUME IInv, disk'.l2 = disk.l2, disk'.refcount = disk.refcount, disk'.header = disk.header,
         UNCHANGED depends, unordered => unordered',
         Ordered' /\ ~depends["l2"] => \A c \in Host : WillUse(c)' \subseteq WillUse(c),
         \/ RefcountSafe'
         \/ Ordered' /\ ~depends["refcount"] =>
              refcount' = refcount /\ \A c \in Host : Claims(c)' \subseteq Claims(c)
  PROVE  OrderKept'
<1> SUFFICES ASSUME Ordered' PROVE CrashSafe' /\ L2Safe' /\ RefcountSafe'  BY DEF OrderKept
<1>0. CrashSafe /\ L2Safe /\ RefcountSafe /\ Ordered  BY DEF IInv, OrderKept, Ordered
<1>1. \A c \in Host : disk.refcount[c].maybe \subseteq Nat /\ refcount[c] \in Nat
  BY DiskFields, CellIn DEF IInv, TypeOK
<1>2. CrashSafe'  BY <1>0 DEF CrashSafe, Ordered
<1>3. L2Safe'
  <2> SUFFICES ASSUME ~depends["l2"], NEW c \in Host, NEW count \in disk.refcount[c].maybe
               PROVE  count >= Cardinality(WillUse(c)')
    BY DEF L2Safe
  <2>1. count >= Cardinality(WillUse(c))  BY <1>0 DEF L2Safe
  <2> QED  BY <1>1, <2>1, Enough, UseSets
<1>4. RefcountSafe'
  <2> SUFFICES ASSUME ~depends["refcount"], refcount' = refcount,
                      \A c \in Host : Claims(c)' \subseteq Claims(c), NEW c \in Host
               PROVE  refcount[c] >= Cardinality(Claims(c)')
    BY DEF RefcountSafe
  <2>1. refcount[c] >= Cardinality(Claims(c))  BY <1>0 DEF RefcountSafe
  <2> QED  BY <1>1, <2>1, Enough, UseSets
<1> QED  BY <1>2, <1>3, <1>4

\* When nobody has the lock.
LEMMA NoRequest ==
  ASSUME NEW c
  PROVE  /\ stack = <<>> => ~Freeing(c) /\ ~Linking(c) /\ ~Pledged(c) /\ ~HeaderBase
         /\ stack' = <<>> => ~Freeing(c)' /\ ~Linking(c)' /\ ~Pledged(c)' /\ ~HeaderBase'
BY DEF Freeing, Linking, Pledged, HeaderBase

\* A request that frees a cluster is on the stack.
LEMMA FreeTop ==
  ASSUME IInv, stack # <<>>, Top.fn = "free"
  PROVE  /\ StackRight /\ FramesRight /\ Top.fn \notin InnerCalls /\ Len(stack) = 1
         /\ stack[1] = Top /\ open = "open" /\ FreeRight(Top, TRUE, ret)
         /\ Top \in FreeFrames /\ Top.host \in Host
         /\ \A c : Freeing(c) <=> c = Top.host
         /\ \A g : ~Linking(g) /\ ~Pledged(g)
         /\ ~HeaderBase
<1>1. StackRight /\ FramesRight /\ Top.fn \notin InnerCalls  BY DEF IInv, InnerCalls
<1>2. /\ Top \in Frames /\ FrameRight(Top, TRUE, ret, {}) /\ Len(stack) = 1 /\ stack[1] = Top
      /\ open = "open"
  BY <1>1, BaseTop
<1>3. Top \in FreeFrames  BY <1>2, FrameFields
<1>4. \A c : Freeing(c) <=> c = Top.host  BY <1>2 DEF Freeing
<1>5. (\A g : ~Linking(g) /\ ~Pledged(g)) /\ ~HeaderBase
  BY <1>2 DEF Linking, Pledged, HeaderBase
<1> QED  BY <1>1, <1>2, <1>3, <1>4, <1>5 DEF FreeFrames, FrameRight

\* A refcount is decreased: the refcounts wait for the L2 tables, or order is lost.
LEMMA Step_update_refcount ==
  ASSUME IInv, update_refcount
  PROVE  IInv'
<1>1. stack # <<>> /\ Top.fn = "free"  BY DEF update_refcount, In
<1>2. /\ StackRight /\ FramesRight /\ Top.fn \notin InnerCalls /\ Len(stack) = 1
      /\ stack[1] = Top /\ open = "open" /\ FreeRight(Top, TRUE, ret)
      /\ Top \in FreeFrames /\ Top.host \in Host
      /\ (\A c : Freeing(c) <=> c = Top.host)
      /\ (\A g : ~Linking(g) /\ ~Pledged(g))
      /\ ~HeaderBase
  BY <1>1, FreeTop
<1>3. /\ UNCHANGED <<lazy, l2, packed, header, depends, depends_on_flush, disk, req, age, flushing,
                     open>>
      /\ faults' \in Nat /\ faults' >= faults
  <2>1. Fault \/ NoFault  BY DEF update_refcount
  <2> QED  BY <2>1, FaultsCount DEF update_refcount, image
<1>4. CASE /\ Top.at = "depend"
           /\ Call([Top EXCEPT !.at = "update"], SetDependency("refcount"))
           /\ UNCHANGED <<refcount, dirty, unordered, leaked>>
  <2>1. PICK f : f = [Top EXCEPT !.at = "update"]  OBVIOUS
  <2>2. f \in Frames /\ f.fn = "free" /\ f.at = "update" /\ f.host = Top.host
    <3>1. f \in FreeFrames /\ f.at = "update" /\ f.host = Top.host  BY <1>2, <2>1 DEF FreeFrames
    <3> QED  BY <3>1 DEF FreeFrames, Frames
  <2>3. PICK g \in Frames : g = SetDependency("refcount")  BY NewFrames DEF Caches
  <2>4. g.fn = "set_dependency" /\ g.cache = "refcount"  BY <2>3 DEF SetDependency
  <2>5. Calls(f, g)  BY <2>2, <2>4 DEF Calls
  <2>6. FrameRight(f, FALSE, "none", {})'  BY <2>2 DEF FrameRight, FreeRight
  <2>7. FrameRight(g, TRUE, "none", {})'  BY <1>4, <2>3, FreshFrame DEF Caches
  <2>8. /\ StackRight' /\ FramesRight'
        /\ stack' # <<>> /\ Len(stack') = 2 /\ stack'[1] = f /\ ret' = "none"
    BY <1>1, <1>2, <1>3, <1>4, <2>1, <2>2, <2>3, <2>5, <2>6, <2>7, BaseCalls DEF Bases
  <2>9. RequestKept
    BY <1>1, <1>2, <2>2, <2>8 DEF RequestKept, Freeing, Linking, Pledged
  <2> QED  BY <1>2, <1>3, <1>4, <2>8, <2>9, EffectNone, WholeInvariant DEF BaseKept, Inner
<1>5. CASE /\ Top.at = "update" /\ unordered' = (unordered \/ ret = "err") /\ Return("ok")
           /\ \/ /\ refcount' = [refcount EXCEPT ![Top.host] = @ - 1]
                 /\ dirty' = [dirty EXCEPT !["refcount"] = @ \cup {Top.host}]
                 /\ UNCHANGED leaked
              \/ UNCHANGED <<refcount, dirty>> /\ leaked' = TRUE
  <2>1. StackRight' /\ FramesRight' /\ stack' = <<>> /\ ret' = "none"
    BY <1>1, <1>2, <1>5, BaseReturns
  <2>2. /\ ret = "err" \/ depends["refcount"]
        /\ unordered' \in BOOLEAN /\ (unordered => unordered') /\ (ret = "err" => unordered')
    BY <1>2, <1>5 DEF FreeRight, IInv, ClosedRight
  <2>3. \A c : ~Freeing(c)' /\ ~Linking(c)' /\ ~Pledged(c)' /\ ~HeaderBase'
    BY <2>1, NoRequest
  <2>4. PICK h \in Host : h = Top.host  BY <1>2
  <2>5. ASSUME NEW c \in Host
        PROVE  /\ refcount[c] \in Nat /\ Users(c)' = Users(c) /\ Cardinality(Users(c)) \in Nat
               /\ Owed(c) = (IF c = h THEN 1 ELSE 0) /\ Owed(c)' = 0
               /\ refcount[c] >= Cardinality(Users(c)) + Owed(c)
               /\ leaked \/ refcount[c] = Cardinality(Users(c)) + Owed(c)
               /\ \A g \in Guest : req[g].host = c => Users(c) = {g} /\ l2[g] # c
    <3>1. Users(c)' = Users(c) /\ Users(c) \subseteq Guest  BY <1>3, UseSets DEF Users
    <3>2. Cardinality(Users(c)) \in Nat  BY <3>1, CountMono
    <3>3. Owed(c) = (IF c = h THEN 1 ELSE 0) /\ Owed(c)' = 0  BY <1>2, <2>3, <2>4 DEF Owed
    <3> QED  BY <3>1, <3>2, <3>3 DEF IInv, Accounted, TypeOK
  <2>6. /\ refcount' \in [Host -> Nat]
        /\ dirty' \in [Caches -> SUBSET (Guest \cup Host)]
        /\ dirty'["l2"] = dirty["l2"] /\ dirty'["refcount"] \subseteq Host
        /\ \A c \in Host : \/ refcount'[c] = refcount[c] /\ (c \in dirty["refcount"] => c \in dirty'["refcount"])
                           \/ c \in dirty'["refcount"]
        /\ \A c \in Host :
             /\ refcount'[c] >= Cardinality(Users(c))
             /\ leaked' \/ refcount'[c] = Cardinality(Users(c))
    <3>1. refcount \in [Host -> Nat] /\ dirty \in [Caches -> SUBSET (Guest \cup Host)]
          /\ dirty["refcount"] \subseteq Host
      BY DEF IInv, TypeOK, ClosedRight
    <3>2. CASE /\ refcount' = [refcount EXCEPT ![h] = @ - 1]
               /\ dirty' = [dirty EXCEPT !["refcount"] = @ \cup {h}] /\ UNCHANGED leaked
      <4>1. refcount[h] - 1 \in Nat  BY <2>5
      <4>2. refcount' \in [Host -> Nat]  BY <3>1, <3>2, <4>1
      <4>3. /\ dirty' \in [Caches -> SUBSET (Guest \cup Host)] /\ dirty'["l2"] = dirty["l2"]
            /\ dirty'["refcount"] = dirty["refcount"] \cup {h}
        BY <3>1, <3>2 DEF Caches
      <4>4. ASSUME NEW c \in Host
            PROVE  /\ refcount'[c] >= Cardinality(Users(c))
                   /\ leaked' \/ refcount'[c] = Cardinality(Users(c))
        <5>1. CASE c = h
          <6>1. refcount'[c] = refcount[c] - 1 /\ Owed(c) = 1  BY <2>5, <3>1, <3>2, <5>1
          <6>2. /\ refcount[c] \in Nat /\ Cardinality(Users(c)) \in Nat
                /\ refcount[c] >= Cardinality(Users(c)) + Owed(c)
                /\ leaked' \/ refcount[c] = Cardinality(Users(c)) + Owed(c)
            BY <2>5, <3>2
          <6> QED  BY <6>1, <6>2
        <5>2. CASE c # h
          <6>1. refcount'[c] = refcount[c] /\ Owed(c) = 0  BY <2>5, <3>1, <3>2, <5>2
          <6>2. /\ refcount[c] \in Nat /\ Cardinality(Users(c)) \in Nat
                /\ refcount[c] >= Cardinality(Users(c)) + Owed(c)
                /\ leaked' \/ refcount[c] = Cardinality(Users(c)) + Owed(c)
            BY <2>5, <3>2
          <6> QED  BY <6>1, <6>2
        <5> QED  BY <5>1, <5>2
      <4> QED  BY <3>1, <3>2, <4>2, <4>3, <4>4
    <3>3. CASE UNCHANGED <<refcount, dirty>> /\ leaked' = TRUE
      <4>1. ASSUME NEW c \in Host  PROVE refcount[c] >= Cardinality(Users(c))
        BY UsersCounted DEF IInv
      <4> QED  BY <3>1, <3>3, <4>1
    <3> QED  BY <1>5, <2>4, <3>2, <3>3
  <2>7. TypeOK'  BY <1>3, <2>1, <2>6 DEF IInv, TypeOK
  <2>8. DiskType' /\ DependenciesAcyclic'  BY <1>3, DiskSame DEF IInv, DependenciesAcyclic
  <2>9. RequestsRight'  BY <1>2, <1>3, <2>3 DEF IInv, RequestsRight
  <2>10. Accounted'
    <3> SUFFICES ASSUME NEW c \in Host
                 PROVE  /\ refcount'[c] >= Cardinality(Users(c)') + Owed(c)'
                        /\ leaked' \/ refcount'[c] = Cardinality(Users(c)') + Owed(c)'
                        /\ \A g \in Guest : req'[g].host = c =>
                             Users(c)' = {g} /\ l2'[g] # c /\ ~Freeing(c)'
      BY DEF Accounted
    <3>1. Users(c)' = Users(c) /\ Owed(c)' = 0 /\ Cardinality(Users(c)) + 0 = Cardinality(Users(c))
      BY <2>5
    <3> QED  BY <1>3, <2>3, <2>5, <2>6, <3>1
  <2>11. Clean'
    <3>1. \A c \in Host \ dirty'["refcount"] : disk.refcount[c].last = refcount'[c]
      BY <2>6 DEF IInv, Clean
    <3> QED  BY <1>3, <2>6, <3>1 DEF IInv, Clean
  <2>12. OrderKept'
    <3>1. Ordered' => depends["refcount"]  BY <2>2 DEF Ordered
    <3>2. \A c \in Host : WillUse(c)' \subseteq WillUse(c)  BY <1>3, <2>3 DEF WillUse
    <3> QED  BY <1>3, <2>2, <3>1, <3>2, OrderMono
  <2>13. HeaderRight'
    <3>1. Settles(disk.header, disk'.header)  BY <1>3, DiskSame DEF IInv, DiskSettles
    <3> QED  BY <1>2, <1>3, <3>1, HeaderStays
  <2>14. DataRight' /\ DurableRight'  BY <1>3 DEF IInv, DataRight, DurableRight
  <2>15. CopyRight'
    <3>1. Awaited' = Awaited  BY <1>3 DEF Awaited
    <3> QED  BY <1>3, <2>2, <2>3, <2>6, <3>1 DEF IInv, CopyRight
  <2>16. ClosedRight'  BY <1>2, <1>3, <2>2, <2>6, StaysOpen DEF IInv, ClosedRight
  <2> QED
    BY <2>1, <2>7, <2>8, <2>9, <2>10, <2>11, <2>12, <2>13, <2>14, <2>15, <2>16 DEF IInv
<1> QED  BY <1>4, <1>5 DEF update_refcount

\* A step without the lock, while nobody else has it.
LEMMA Step_Write ==
  ASSUME IInv, NEW g \in Guest, NEW c \in Host, NEW cow \in Cows, Write(g, c, cow)
  PROVE  IInv'
<1>1. /\ open = "open" /\ stack = <<>> /\ req[g].pc = "idle" /\ refcount[c] = 0
      /\ refcount' = [refcount EXCEPT ![c] = 1]
      /\ dirty' = [dirty EXCEPT !["refcount"] = @ \cup {c}]
      /\ req' = [req EXCEPT ![g] = [pc |-> "data", host |-> c, cow |-> cow]]
  BY DEF Write, NewOp
<1>2. UNCHANGED <<lazy, l2, packed, header, depends, depends_on_flush, disk, stack, ret, age,
                  unordered, leaked, flushing, open, faults>>
  BY DEF Write, history, image
<1>3. \A x : /\ ~Freeing(x) /\ ~Linking(x) /\ ~Pledged(x) /\ ~HeaderBase
             /\ ~Freeing(x)' /\ ~Linking(x)' /\ ~Pledged(x)' /\ ~HeaderBase'
  BY <1>1, <1>2, NoRequest
<1>4. /\ req' \in [Guest -> [pc: {"idle", "data", "link", "linking"},
                             host: Host \cup {None}, cow: Cows \cup {"none"}]]
      /\ req'[g].pc = "data" /\ req'[g].host = c
      /\ \A x \in Guest \ {g} : req'[x] = req[x]
  BY <1>1 DEF IInv, TypeOK
<1>5. /\ refcount' \in [Host -> Nat] /\ refcount'[c] = 1
      /\ \A x \in Host \ {c} : refcount'[x] = refcount[x]
  BY <1>1 DEF IInv, TypeOK
<1>6. /\ dirty' \in [Caches -> SUBSET (Guest \cup Host)] /\ dirty'["l2"] = dirty["l2"]
      /\ dirty'["refcount"] = dirty["refcount"] \cup {c}
  BY <1>1 DEF IInv, ClosedRight, Caches
<1>7. req[g].host = None /\ None \notin Host  BY <1>1, ClustersAssumption DEF IInv, RequestsRight
<1>8. Users(c) = {}
  <2>1. Cardinality(Users(c)) \in Nat /\ Owed(c) = 0 /\ Users(c) \subseteq Guest
    BY <1>3, CountMono, UseSets DEF Owed
  <2>2. 0 >= Cardinality(Users(c)) + Owed(c)  BY <1>1 DEF IInv, Accounted
  <2>3. Cardinality(Users(c)) = 0  BY <2>1, <2>2
  <2> QED  BY <2>1, <2>3, CountNone
<1>9. Users(c)' = {g} /\ l2[g] # c  BY <1>2, <1>4, <1>8 DEF Users
<1>10. ASSUME NEW x \in Host \ {c}  PROVE Users(x)' = Users(x)
  BY <1>2, <1>4, <1>7 DEF Users
<1>11. TypeOK'  BY <1>2, <1>4, <1>5, <1>6 DEF IInv, TypeOK
<1>12. DiskType' /\ DependenciesAcyclic'  BY <1>2, DiskSame DEF IInv, DependenciesAcyclic
<1>13. RequestsRight'  BY <1>3, <1>4, <1>7 DEF IInv, RequestsRight
<1>14. Accounted'
  <2> SUFFICES ASSUME NEW x \in Host
               PROVE  /\ refcount'[x] >= Cardinality(Users(x)') + Owed(x)'
                      /\ leaked' \/ refcount'[x] = Cardinality(Users(x)') + Owed(x)'
                      /\ \A k \in Guest : req'[k].host = x =>
                           Users(x)' = {k} /\ l2'[k] # x /\ ~Freeing(x)'
    BY DEF Accounted
  <2>1. Owed(x)' = 0 /\ Owed(x) = 0  BY <1>3 DEF Owed
  <2>2. CASE x = c
    <3>1. Cardinality(Users(x)') = 1  BY <1>9, <2>2, CountOne
    <3>2. ASSUME NEW k \in Guest, req'[k].host = x  PROVE k = g
      BY <1>4, <1>8, <2>2, <3>2 DEF Users
    <3> QED  BY <1>2, <1>3, <1>5, <1>9, <2>1, <2>2, <3>1, <3>2
  <2>3. CASE x # c
    <3>1. Users(x)' = Users(x) /\ refcount'[x] = refcount[x]  BY <1>5, <1>10, <2>3
    <3>2. \A k \in Guest : req'[k].host = x => req[k].host = x  BY <1>4, <2>3
    <3> QED  BY <1>2, <1>3, <2>1, <3>1, <3>2 DEF IInv, Accounted
  <2> QED  BY <2>2, <2>3
<1>15. Clean'
  <2>1. \A x \in Host \ dirty'["refcount"] : disk.refcount[x].last = refcount'[x]
    BY <1>5, <1>6 DEF IInv, Clean
  <2> QED  BY <1>2, <1>6, <2>1 DEF IInv, Clean
<1>16. OrderKept'
  <2>1. \A x \in Host : WillUse(x)' \subseteq WillUse(x)  BY <1>2, <1>3 DEF WillUse
  <2>2. Ordered' => RefcountSafe'
    <3> SUFFICES ASSUME Ordered', ~depends["refcount"], NEW x \in Host
                 PROVE  refcount'[x] >= Cardinality(Claims(x)')
      BY <1>2 DEF RefcountSafe
    <3>1. refcount[x] >= Cardinality(Claims(x))
      BY <1>2 DEF IInv, OrderKept, RefcountSafe, Ordered
    <3>2. CASE x = c
      <4>1. Cardinality(Claims(x)) \in Nat  BY CountMono, UseSets
      <4>2. Cardinality(Claims(x)) = 0  BY <1>1, <3>1, <3>2, <4>1
      <4>3. Claims(x) = {}  BY <4>2, CountNone, UseSets
      <4>4. Claims(x)' \subseteq {g}  BY <1>2, <1>4, <4>3 DEF Claims
      <4>5. {g} \subseteq Guest /\ Cardinality({g}) = 1  BY CountOne
      <4>6. 1 \in Nat /\ 1 >= 1  OBVIOUS
      <4> QED  BY <1>5, <3>2, <4>4, <4>5, <4>6, Enough
    <3>3. CASE x # c
      <4>1. Claims(x)' \subseteq Claims(x)  BY <1>2, <1>4, <3>3 DEF Claims
      <4>2. refcount'[x] = refcount[x] /\ refcount[x] \in Nat /\ refcount[x] >= refcount[x]
        BY <1>5, <3>3 DEF IInv, TypeOK
      <4> QED  BY <3>1, <4>1, <4>2, Enough, UseSets
    <3> QED  BY <3>2, <3>3
  <2> QED  BY <1>2, <2>1, <2>2, OrderMono DEF OrderKept
<1>17. HeaderRight'
  <2>1. Settles(disk.header, disk'.header)  BY <1>2, DiskSame DEF IInv, DiskSettles
  <2>2. faults \in Nat /\ faults >= faults  BY DEF IInv, ClosedRight
  <2> QED  BY <1>2, <1>3, <2>1, <2>2, HeaderStays
<1>18. DataRight' /\ DurableRight'  BY <1>2, <1>4 DEF IInv, DataRight, DurableRight
<1>19. CopyRight'
  <2>1. Awaited' = Awaited  BY <1>2 DEF Awaited
  <2> QED  BY <1>2, <1>3, <1>4, <1>6, <2>1 DEF IInv, CopyRight
<1>20. ClosedRight'  BY <1>1, <1>2, <1>6, StaysOpen DEF IInv, ClosedRight
<1>21. StackRight' /\ FramesRight'  BY <1>1, <1>2, FramesStay DEF IInv
<1> QED
  BY <1>11, <1>12, <1>13, <1>14, <1>15, <1>16, <1>17, <1>18, <1>19, <1>20, <1>21 DEF IInv

\* A request's cluster is nobody else's.
LEMMA OwnCluster ==
  ASSUME IInv, NEW g \in Guest, req[g].pc # "idle"
  PROVE  /\ open = "open" /\ req[g].host \in Host /\ Users(req[g].host) = {g}
         /\ ~Freeing(req[g].host)
         /\ \A x \in Guest : l2[x] # req[g].host
         /\ \A x \in Guest \ {g} : req[x].host # req[g].host
<1>1. open = "open"  BY DEF IInv, ClosedRight
<1>2. req[g].host \in Host  BY HostsExist DEF IInv
<1>3. PICK h \in Host : h = req[g].host  BY <1>2
<1>4. Users(h) = {g} /\ l2[g] # h /\ ~Freeing(h)  BY <1>3 DEF IInv, Accounted
<1>5. \A x \in Guest : (l2[x] = h \/ req[x].host = h) => x = g  BY <1>4 DEF Users
<1> QED  BY <1>1, <1>2, <1>3, <1>4, <1>5

\* The data of a request goes to a cluster that nobody else refers to.
LEMMA Step_WriteData ==
  ASSUME IInv, NEW g \in Guest, WriteData(g)
  PROVE  IInv'
<1>1. PICK h \in Host : h = req[g].host
  BY HostsExist DEF IInv, WriteData
<1>2. /\ req[g].pc = "data" /\ disk' = [disk EXCEPT !.data[h] = Put(@, g)]
      /\ req' = [req EXCEPT ![g].pc = "link"]
  BY <1>1 DEF WriteData
<1>3. UNCHANGED <<lazy, l2, packed, refcount, header, dirty, depends, depends_on_flush, stack, ret,
                  age, unordered, leaked, flushing, open, faults>>
  BY DEF WriteData, memory, history, image
<1>4. /\ open = "open" /\ Users(h) = {g} /\ (\A x \in Guest : l2[x] # h)
      /\ \A x \in Guest \ {g} : req[x].host # h
  BY <1>1, <1>2, OwnCluster
<1>5. /\ DiskType' /\ disk'.l2 = disk.l2 /\ disk'.refcount = disk.refcount
      /\ disk'.header = disk.header /\ disk'.data[h].last = g
      /\ \A x \in Host \ {h} : disk'.data[x] = disk.data[x]
  BY <1>2, DiskWriteData DEF IInv
<1>6. /\ req' \in [Guest -> [pc: {"idle", "data", "link", "linking"},
                             host: Host \cup {None}, cow: Cows \cup {"none"}]]
      /\ req'[g].pc = "link" /\ req'[g].host = h
      /\ \A x \in Guest \ {g} : req'[x] = req[x]
      /\ \A x \in Guest : req'[x].host = req[x].host
  BY <1>1, <1>2 DEF IInv, TypeOK
<1>7. ASSUME NEW x \in Guest
      PROVE  /\ l2[x] # None => disk'.data[l2[x]] = disk.data[l2[x]]
             /\ x # g /\ req[x].pc # "idle" => disk'.data[req[x].host] = disk.data[req[x].host]
  BY <1>4, <1>5, HostsExist DEF IInv
<1>8. \A x : /\ Freeing(x)' <=> Freeing(x)
             /\ Linking(x)' <=> Linking(x)
             /\ Pledged(x)' <=> Pledged(x)
  BY <1>3 DEF Freeing, Linking, Pledged
<1>9. TypeOK' /\ DependenciesAcyclic'  BY <1>3, <1>6 DEF IInv, TypeOK, DependenciesAcyclic
<1>10. RequestsRight'
  <2>1. req[g].host # None /\ ~Linking(g)  BY <1>2 DEF IInv, RequestsRight
  <2> QED  BY <1>1, <1>6, <1>8, <2>1 DEF IInv, RequestsRight
<1>11. Accounted'
  <2>1. \A c : Users(c)' = Users(c) /\ Owed(c)' = Owed(c)  BY <1>3, <1>6, <1>8 DEF Users, Owed
  <2> QED  BY <1>3, <1>6, <1>8, <2>1 DEF IInv, Accounted
<1>12. Clean'  BY <1>3, <1>5 DEF IInv, Clean
<1>13. OrderKept'
  <2>1. \A c \in Host : WillUse(c)' \subseteq WillUse(c) /\ Claims(c)' \subseteq Claims(c)
    BY <1>3, <1>5, <1>6, <1>8 DEF WillUse, Claims
  <2> QED  BY <1>3, <1>5, <2>1, OrderMono
<1>14. HeaderRight'
  <2>1. Settles(disk.header, disk'.header)  BY <1>5, DiskFields, CellIn DEF IInv, Settles
  <2>2. (HeaderBase => HeaderBase') /\ faults \in Nat /\ faults >= faults
    BY <1>3 DEF HeaderBase, IInv, ClosedRight
  <2> QED  BY <1>3, <2>1, <2>2, HeaderStays
<1>15. DataRight'  BY <1>3, <1>5, <1>6, <1>7 DEF IInv, DataRight
<1>16. DurableRight'  BY <1>3, <1>5, <1>7 DEF IInv, DurableRight
<1>17. CopyRight'
  <2>1. Awaited' = Awaited  BY <1>3 DEF Awaited
  <2> SUFFICES ASSUME ~unordered, NEW x \in Guest, x # g
               PROVE  /\ /\ req[x].pc = "idle"
                         /\ req[x].cow = "copy" \/ (req[x].cow = "skip" /\ ~lazy)
                         /\ age[x] # "old" /\ l2[x] # None
                         => disk'.data[l2[x]].maybe = {x} \/ (x \in dirty["l2"] /\ Awaited')
                      /\ /\ req[x].pc = "linking"
                         /\ req[x].cow = "copy" \/ (req[x].cow = "skip" /\ ~lazy /\ Pledged(x)')
                         => disk'.data[req[x].host].maybe = {x} \/ Awaited'
    BY <1>3, <1>6 DEF CopyRight
  <2> QED  BY <1>7, <1>8, <2>1 DEF IInv, CopyRight
<1>18. ClosedRight'  BY <1>3, <1>4, StaysOpen DEF IInv, ClosedRight
<1>19. StackRight' /\ FramesRight'
  <2>1. \A c \in Caches : Synced(c) => Synced(c)'  BY <1>3, <1>5 DEF Synced
  <2>2. DataSynced => DataSynced'  BY <1>3, <1>6, <1>7 DEF DataSynced
  <2>3. \A x \in Guest : /\ req[x].pc = "linking" => req'[x].pc = "linking"
                         /\ req[x].pc = "idle" => req'[x].pc = "idle"
    BY <1>2, <1>6
  <2>4. /\ Keeps
        /\ \A f \in Frames : \A r : FrameRight(f, TRUE, r, {}) => FrameRight(f, TRUE, r, {})'
    BY <1>3, <1>5, <2>1, <2>2, <2>3, TopStays DEF IInv
  <2> QED  BY <1>3, <2>4, FramesStay DEF IInv
<1> QED
  BY <1>5, <1>9, <1>10, <1>11, <1>12, <1>13, <1>14, <1>15, <1>16, <1>17, <1>18, <1>19 DEF IInv

\* g ceases to refer to o, if that is a cluster, which is going to be freed.
LEMMA AccountedFree ==
  ASSUME IInv, UNCHANGED <<refcount, leaked>>, NEW g \in Guest, NEW o,
         \A c \in Host : ~Freeing(c) /\ (Freeing(c)' <=> c = o),
         \A c \in Host : c # o => Users(c)' = Users(c),
         o \in Host => g \in Users(o) /\ Users(o)' = Users(o) \ {g},
         \A k \in Guest : \A c \in Host : req'[k].host = c =>
           req[k].host = c /\ c # o /\ l2'[k] # c
  PROVE  Accounted'
<1> SUFFICES ASSUME NEW c \in Host
             PROVE  /\ refcount[c] >= Cardinality(Users(c)') + Owed(c)'
                    /\ leaked \/ refcount[c] = Cardinality(Users(c)') + Owed(c)'
                    /\ \A k \in Guest : req'[k].host = c =>
                         Users(c)' = {k} /\ l2'[k] # c /\ ~Freeing(c)'
  BY DEF Accounted
<1>1. /\ refcount[c] \in Nat /\ Owed(c) = 0
      /\ refcount[c] >= Cardinality(Users(c)) + Owed(c)
      /\ leaked \/ refcount[c] = Cardinality(Users(c)) + Owed(c)
      /\ \A k \in Guest : req[k].host = c => Users(c) = {k}
  BY DEF IInv, Accounted, TypeOK, Owed
<1>2. Cardinality(Users(c)') + Owed(c)' = Cardinality(Users(c)) + Owed(c)
  <2>1. CASE c = o
    <3>1. IsFiniteSet(Users(c))  BY FS_Subset, ClustersAssumption, UseSets
    <3>2. Cardinality(Users(c)') = Cardinality(Users(c)) - 1
      BY <2>1, <3>1, FS_RemoveElement
    <3>3. Owed(c)' = 1 /\ Cardinality(Users(c)) \in Nat  BY <2>1, <3>1, FS_CardinalityType DEF Owed
    <3> QED  BY <1>1, <3>2, <3>3
  <2>2. CASE c # o  BY <1>1, <2>2 DEF Owed
  <2> QED  BY <2>1, <2>2
<1>3. ASSUME NEW k \in Guest, req'[k].host = c
      PROVE  Users(c)' = {k} /\ l2'[k] # c /\ ~Freeing(c)'
  BY <1>1, <1>3
<1> QED  BY <1>1, <1>2, <1>3

\* A cluster is about to be freed.
LEMMA FreeFrame ==
  ASSUME NEW c \in Host, NEW f, f = Free(c)
  PROVE  /\ f \in Frames /\ f.fn = "free" /\ f.host = c /\ f.fn \in Bases
         /\ FrameRight(f, TRUE, "none", {})'
<1>1. f \in FreeFrames /\ f.fn = "free" /\ f.at = "depend" /\ f.host = c  BY DEF Free, FreeFrames
<1>2. FrameRight(f, TRUE, "none", {})'  BY <1>1 DEF FrameRight, FreeRight
<1> QED  BY <1>1, <1>2 DEF Frames, Bases

\* The request at the bottom of the stack is to free c.
LEMMA FreeBase ==
  ASSUME NEW c \in Host, stack' # <<>>, stack'[1] = Free(c)
  PROVE  \A x : /\ Freeing(x)' <=> x = c
                /\ ~Linking(x)' /\ ~Pledged(x)' /\ ~HeaderBase'
BY DEF Free, Freeing, Linking, Pledged, HeaderBase

\* qcow2_alloc_cluster_abort: a request is given up, and its cluster freed.
LEMMA AbortStep ==
  ASSUME IInv, NEW g \in Guest, req[g].pc # "idle", req' = [req EXCEPT ![g] = Idle],
         UNCHANGED <<lazy, l2, packed, refcount, header, dirty, depends, depends_on_flush,
                     age, leaked, flushing, open>>,
         unordered' \in BOOLEAN, unordered => unordered',
         disk' = disk \/ disk' = [disk EXCEPT !.data[req[g].host] = Put(@, g)],
         faults' \in Nat, faults' >= faults, ret' = "none", ~HeaderBase,
         \A c : ~Freeing(c), \A x \in Guest \ {g} : ~Linking(x),
         stack' # <<>>, stack'[1] = Free(req[g].host)
  PROVE  Rest'
<1>1. PICK h \in Host : h = req[g].host  BY HostsExist DEF IInv
<1>2. /\ open = "open" /\ Users(h) = {g} /\ (\A x \in Guest : l2[x] # h)
      /\ \A x \in Guest \ {g} : req[x].host # h
  BY <1>1, OwnCluster
<1>3. \A x : /\ Freeing(x)' <=> x = h
             /\ ~Linking(x)' /\ ~Pledged(x)' /\ ~HeaderBase'
  BY <1>1, FreeBase
<1>4. /\ req' \in [Guest -> [pc: {"idle", "data", "link", "linking"},
                             host: Host \cup {None}, cow: Cows \cup {"none"}]]
      /\ req'[g].pc = "idle" /\ req'[g].host = None /\ req'[g].cow = "none"
      /\ \A x \in Guest \ {g} : req'[x] = req[x]
  BY DEF IInv, TypeOK, Idle
<1>5. None \notin Host  BY ClustersAssumption
<1>6. TypeOK' /\ DependenciesAcyclic'  BY <1>4 DEF IInv, TypeOK, DependenciesAcyclic
<1>7. /\ DiskType' /\ Settles(disk.header, disk'.header)
      /\ disk'.l2 = disk.l2 /\ disk'.refcount = disk.refcount /\ disk'.header = disk.header
      /\ \A x \in Host \ {h} : disk'.data[x] = disk.data[x]
  <2>1. CASE disk' = disk  BY <2>1, DiskSame DEF IInv, DiskSettles
  <2>2. CASE disk' = [disk EXCEPT !.data[h] = Put(@, g)]
    BY <2>2, DiskWriteData, DiskFields, CellIn DEF IInv, Settles
  <2> QED  BY <1>1, <2>1, <2>2
<1>16. ASSUME NEW x \in Guest
       PROVE  /\ l2[x] # None => disk'.data[l2[x]] = disk.data[l2[x]]
              /\ x # g /\ req[x].pc # "idle" => disk'.data[req[x].host] = disk.data[req[x].host]
  BY <1>2, <1>7, HostsExist DEF IInv
<1>8. RequestsRight'  BY <1>3, <1>4 DEF IInv, RequestsRight
<1>9. Accounted'
  <2>1. \A c \in Host : c # h => Users(c)' = Users(c)  BY <1>1, <1>4, <1>5 DEF Users
  <2>2. g \in Users(h) /\ Users(h)' = Users(h) \ {g}  BY <1>2, <1>4, <1>5 DEF Users
  <2>3. \A k \in Guest : \A c \in Host : req'[k].host = c =>
          req[k].host = c /\ c # h /\ l2'[k] # c
    <3> SUFFICES ASSUME NEW k \in Guest, NEW c \in Host, req'[k].host = c
                 PROVE  req[k].host = c /\ c # h /\ l2[k] # c
      OBVIOUS
    <3>1. k # g /\ req[k].host = c /\ c # h  BY <1>2, <1>4, <1>5
    <3> QED  BY <3>1 DEF IInv, Accounted
  <2> QED  BY <1>3, <2>1, <2>2, <2>3, AccountedFree
<1>10. Clean'  BY <1>7 DEF IInv, Clean
<1>11. OrderKept'
  <2>1. \A c \in Host : WillUse(c)' \subseteq WillUse(c)  BY <1>3, <1>7 DEF WillUse
  <2>2. \A c \in Host : Claims(c)' \subseteq Claims(c)  BY <1>4, <1>5, <1>7 DEF Claims
  <2> QED  BY <1>7, <2>1, <2>2, OrderMono
<1>12. HeaderRight'  BY <1>7, HeaderStays
<1>13. DataRight' /\ DurableRight'  BY <1>4, <1>7, <1>16 DEF IInv, DataRight, DurableRight
<1>14. CopyRight'
  <2>1. Awaited' = Awaited  BY DEF Awaited
  <2> SUFFICES ASSUME ~unordered, NEW x \in Guest, x # g
               PROVE  /\ /\ req[x].pc = "idle"
                         /\ req[x].cow = "copy" \/ (req[x].cow = "skip" /\ ~lazy)
                         /\ age[x] # "old" /\ l2[x] # None
                         => disk'.data[l2[x]].maybe = {x} \/ (x \in dirty["l2"] /\ Awaited')
                      /\ /\ req[x].pc = "linking"
                         /\ req[x].cow = "copy" \/ (req[x].cow = "skip" /\ ~lazy /\ Pledged(x)')
                         => disk'.data[req[x].host].maybe = {x} \/ Awaited'
    BY <1>4 DEF CopyRight
  <2> QED  BY <1>3, <1>16, <2>1 DEF IInv, CopyRight
<1>15. ClosedRight'  BY <1>2, StaysOpen DEF IInv, ClosedRight
<1> QED
  BY <1>6, <1>7, <1>8, <1>9, <1>10, <1>11, <1>12, <1>13, <1>14, <1>15 DEF Rest

\* The data could not be written.
LEMMA Step_WriteDataFails ==
  ASSUME IInv, NEW g \in Guest, WriteDataFails(g)
  PROVE  IInv'
<1>1. PICK h \in Host : h = req[g].host  BY HostsExist DEF IInv, WriteDataFails
<1>2. /\ req[g].pc = "data" /\ Fault /\ Lock(Free(h)) /\ req' = [req EXCEPT ![g] = Idle]
      /\ disk' = disk \/ disk' = [disk EXCEPT !.data[h] = Put(@, g)]
  BY <1>1 DEF WriteDataFails
<1>3. /\ UNCHANGED <<lazy, l2, packed, refcount, header, dirty, depends, depends_on_flush,
                     age, unordered, leaked, flushing, open>>
      /\ faults' \in Nat /\ faults' >= faults /\ unordered \in BOOLEAN
  BY <1>2, FaultsCount DEF WriteDataFails, memory, history, image, IInv, ClosedRight
<1>4. PICK f \in Frames : f = Free(h) /\ f.fn \in Bases /\ FrameRight(f, TRUE, "none", {})'
  BY FreeFrame
<1>5. stack = <<>> /\ stack' # <<>> /\ stack'[1] = f /\ ret' = "none"  BY <1>2, <1>4, StackLock
<1>6. open = "open"  BY <1>2, OwnCluster
<1>7. StackRight' /\ FramesRight'  BY <1>2, <1>3, <1>4, <1>6, FramesLock DEF IInv
<1>8. \A c : ~Freeing(c) /\ ~Linking(c) /\ ~HeaderBase  BY <1>5, NoRequest
<1>9. Rest'  BY <1>1, <1>2, <1>3, <1>4, <1>5, <1>8, AbortStep
<1> QED  BY <1>7, <1>9, WholeInvariant

\* A request that links a cluster is on the stack.
LEMMA LinkBase ==
  ASSUME IInv, stack # <<>>, Top.fn = "link"
  PROVE  /\ \A c : ~Freeing(c) /\ (Linking(c) <=> c = Top.guest)
         /\ HeaderBase <=> Top.at = "sync"
         /\ Pledged(Top.guest) <=> Top.at = "got" \/ (Top.at = "table" /\ ret = "ok")
         /\ req[Top.guest].pc = "linking"
<1>1. Len(stack) = 1 /\ stack[1] = Top /\ LinkRight(Top, TRUE, ret)  BY LinkTop
<1> QED  BY <1>1 DEF Freeing, Linking, HeaderBase, Pledged, LinkRight

\* The table could not be loaded.
LEMMA Step_LinkFails ==
  ASSUME IInv, LinkFails
  PROVE  IInv'
<1>1. stack # <<>> /\ Top.fn = "link" /\ Top.at \in {"table", "got"}
  BY DEF LinkFails, At, In
<1>2. PICK g \in Guest : g = Top.guest  BY <1>1, LinkTop
<1>3. req[g].pc = "linking"  BY <1>1, <1>2, LinkBase
<1>4. PICK h \in Host : h = req[g].host  BY <1>3, HostsExist DEF IInv
<1>5. Goto(Free(h)) /\ req' = [req EXCEPT ![g] = Idle]  BY <1>2, <1>4 DEF LinkFails
<1>6. /\ UNCHANGED <<lazy, l2, packed, refcount, header, dirty, depends, depends_on_flush, disk,
                     age, leaked, flushing, open>>
      /\ faults' \in Nat /\ faults' >= faults
      /\ unordered' \in BOOLEAN /\ (unordered => unordered')
  <2>1. Fault \/ NoFault  BY DEF LinkFails
  <2>2. unordered' = (unordered \/ (Top.at = "table" /\ ret = "err")) /\ unordered \in BOOLEAN
    BY DEF LinkFails, IInv, ClosedRight
  <2> QED  BY <2>1, <2>2, FaultsCount DEF LinkFails, memory, image
<1>7. PICK f \in Frames : f = Free(h) /\ f.fn \in Bases /\ FrameRight(f, TRUE, "none", {})'
  BY FreeFrame
<1>8. /\ StackRight' /\ FramesRight'
      /\ stack' # <<>> /\ Len(stack') = 1 /\ stack'[1] = f /\ ret' = "none"
  BY <1>1, <1>5, <1>6, <1>7, LinkTop, BaseGoes
<1>9. /\ \A c : ~Freeing(c)
      /\ \A x \in Guest \ {g} : ~Linking(x)
      /\ ~HeaderBase
  BY <1>1, <1>2, LinkBase
<1>10. Rest'  BY <1>3, <1>4, <1>5, <1>6, <1>7, <1>8, <1>9, AbortStep
<1> QED  BY <1>8, <1>10, WholeInvariant

\* After perform_cow the L2 tables wait for a flush of the data it copied.
LEMMA Step_LinkStart ==
  ASSUME IInv, NEW g \in Guest, LinkStart(g)
  PROVE  IInv'
<1>1. /\ req[g].pc = "link" /\ Lock([fn |-> "link", guest |-> g, at |-> "header"])
      /\ req' = [req EXCEPT ![g].pc = "linking"]
      /\ depends_on_flush' = [depends_on_flush EXCEPT !["l2"] = @ \/ req[g].cow = "copy"]
  BY DEF LinkStart
<1>2. UNCHANGED <<lazy, l2, packed, refcount, header, dirty, depends, disk, age, unordered, leaked,
                  flushing, open, faults>>
  BY DEF LinkStart, history, image
<1>3. /\ req' \in [Guest -> [pc: {"idle", "data", "link", "linking"},
                             host: Host \cup {None}, cow: Cows \cup {"none"}]]
      /\ req'[g].pc = "linking" /\ req'[g].cow = req[g].cow
      /\ \A x \in Guest \ {g} : req'[x] = req[x]
      /\ \A x \in Guest : req'[x].host = req[x].host
  BY <1>1 DEF IInv, TypeOK
<1>4. /\ depends_on_flush' \in [Caches -> BOOLEAN]
      /\ depends_on_flush["l2"] \/ req[g].cow = "copy" => depends_on_flush'["l2"]
  BY <1>1 DEF IInv, TypeOK, Caches
<1>5. PICK f \in Frames : f = [fn |-> "link", guest |-> g, at |-> "header"]
  BY DEF Frames, LinkFrames
<1>6. f.fn = "link" /\ f.guest = g /\ f.at = "header"  BY <1>5
<1>7. FrameRight(f, TRUE, "none", {})'  BY <1>3, <1>6 DEF FrameRight, LinkRight
<1>8. /\ stack = <<>> /\ stack' # <<>> /\ stack'[1] = f /\ ret' = "none" /\ open = "open"
      /\ req[g].host \in Host
  BY <1>1, <1>5, StackLock, OwnCluster
<1>9. StackRight' /\ FramesRight'
  BY <1>1, <1>2, <1>5, <1>6, <1>7, <1>8, FramesLock DEF IInv, Bases
<1>10. \A x : /\ ~Freeing(x) /\ ~Linking(x) /\ ~HeaderBase
              /\ ~Freeing(x)' /\ (Linking(x)' <=> x = g) /\ ~Pledged(x)'
  <2>1. \A x : ~Freeing(x) /\ ~Linking(x) /\ ~HeaderBase  BY <1>8, NoRequest
  <2> QED  BY <1>6, <1>8, <2>1 DEF Freeing, Linking, Pledged
<1>11. TypeOK' /\ DependenciesAcyclic'
  BY <1>2, <1>3, <1>4, <1>8 DEF IInv, TypeOK, DependenciesAcyclic
<1>12. DiskType' /\ Settles(disk.header, disk'.header)  BY <1>2, DiskSame DEF IInv, DiskSettles
<1>13. RequestsRight'
  <2>1. req[g].host # None  BY <1>1 DEF IInv, RequestsRight
  <2> QED  BY <1>3, <1>10, <2>1 DEF IInv, RequestsRight
<1>14. Accounted'
  <2>1. \A c : Users(c)' = Users(c) /\ Owed(c)' = Owed(c)  BY <1>2, <1>3, <1>10 DEF Users, Owed
  <2> QED  BY <1>2, <1>3, <1>10, <2>1 DEF IInv, Accounted
<1>15. Clean'  BY <1>2 DEF IInv, Clean
<1>16. OrderKept'
  <2>1. \A c \in Host : WillUse(c)' \subseteq WillUse(c) /\ Claims(c)' \subseteq Claims(c)
    BY <1>2, <1>3, <1>10 DEF WillUse, Claims
  <2> QED  BY <1>2, <2>1, OrderMono
<1>17. HeaderRight'
  <2>1. faults \in Nat /\ faults >= faults  BY DEF IInv, ClosedRight
  <2> QED  BY <1>2, <1>10, <1>12, <2>1, HeaderStays
<1>18. DataRight' /\ DurableRight'  BY <1>1, <1>2, <1>3 DEF IInv, DataRight, DurableRight
<1>19. CopyRight'
  <2>1. Awaited \/ req[g].cow = "copy" => Awaited'  BY <1>2, <1>4 DEF Awaited
  <2>2. \A x \in Guest \ {g} : req[x].pc # "linking"  BY <1>10 DEF IInv, RequestsRight
  <2> QED  BY <1>2, <1>3, <1>10, <2>1, <2>2 DEF IInv, CopyRight
<1>20. ClosedRight'  BY <1>2, <1>8, StaysOpen DEF IInv, ClosedRight
<1> QED
  BY <1>9, <1>11, <1>12, <1>13, <1>14, <1>15, <1>16, <1>17, <1>18, <1>19, <1>20 DEF IInv

\* The new entry can be set: either in the right order, or nothing depends on it,
\* because the image is marked dirty, or nothing is promised.
LEMMA LinkOrdered ==
  ASSUME IInv, stack # <<>>, Top.fn = "link",
         Top.at = "table" \/ (Top.at = "got" /\ ret = "ok")
  PROVE  Pledged(Top.guest) \/ (Top.at = "table" /\ (ret = "err" \/ (lazy /\ ~Ordered)))
<1>1. CASE Top.at = "table" /\ ret = "none"
  <2>1. header  BY <1>1, LinkTop DEF LinkRight
  <2>2. lazy /\ disk.header.maybe = {TRUE}  BY <2>1 DEF IInv, HeaderRight
  <2> QED  BY <1>1, <2>2 DEF Ordered
<1>2. ret \in {"none", "ok", "err"}  BY DEF IInv, TypeOK
<1> QED  BY <1>1, <1>2, LinkBase

\* An eviction on the way to the new entry keeps what the order rests on.
LEMMA Step_LinkEvict ==
  ASSUME IInv, LinkEvict
  PROVE  IInv'
<1>1. /\ stack # <<>> /\ Top.fn = "link" /\ Top.at = "table"
      /\ unordered' = (unordered \/ ret = "err")
      /\ \E t \in dirty["l2"] : Call(GoOn("got"), EntryFlush("l2", t))
  BY DEF LinkEvict, At, In
<1>2. UNCHANGED <<lazy, l2, packed, refcount, header, dirty, depends, depends_on_flush, disk, req,
                  age, leaked, flushing, open, faults>>
  BY DEF LinkEvict, memory, image
<1>3. PICK t \in dirty["l2"] : Call(GoOn("got"), EntryFlush("l2", t))  BY <1>1
<1>4. t \in Guest /\ t \in Tables("l2") /\ t \in Guest \cup Host /\ "l2" \in Caches
  BY DEF IInv, TypeOK, Tables, Caches
<1>5. PICK g \in Guest : g = Top.guest  BY <1>1, LinkTop
<1>6. PICK f \in Frames : f = GoOn("got")  BY <1>1, LinkTop
<1>7. f.fn = "link" /\ f.guest = g /\ f.at = "got"  BY <1>1, <1>5, <1>6, LinkTop
<1>8. PICK e \in Frames : e = EntryFlush("l2", t)  BY <1>4, NewFrames
<1>9. e.fn = "entry_flush" /\ e.cache = "l2"  BY <1>8 DEF EntryFlush
<1>10. Calls(f, e)  BY <1>7, <1>9 DEF Calls
<1>11. req[g].pc = "linking"  BY <1>1, <1>5, LinkBase
<1>12. FrameRight(f, FALSE, "none", {})'  BY <1>2, <1>7, <1>11 DEF FrameRight, LinkRight
<1>13. FrameRight(e, TRUE, "none", {})'  BY <1>2, <1>4, <1>8, FreshFrame
<1>14. /\ StackRight' /\ FramesRight'
       /\ stack' # <<>> /\ Len(stack') = 2 /\ stack'[1] = f /\ ret' = "none"
  BY <1>1, <1>2, <1>3, <1>6, <1>7, <1>8, <1>10, <1>12, <1>13, LinkTop, BaseCalls DEF Bases
<1>15. \A x : /\ ~Freeing(x) /\ ~Freeing(x)' /\ ~HeaderBase
              /\ Linking(x) <=> x = g
              /\ Linking(x)' <=> x = g
              /\ Pledged(x)' => x = g
  <2>1. \A x : ~Freeing(x) /\ ~HeaderBase /\ (Linking(x) <=> x = g)  BY <1>1, <1>5, LinkBase
  <2> QED  BY <1>7, <1>14, <2>1 DEF Freeing, Linking, Pledged
<1>16. unordered' \in BOOLEAN /\ (unordered => unordered')
  BY <1>1 DEF IInv, ClosedRight
<1>17. Pledged(g) \/ unordered' \/ (lazy /\ ~Ordered')
  <2>1. ~Ordered => ~Ordered'  BY <1>2, <1>16 DEF Ordered
  <2> QED  BY <1>1, <1>5, <2>1, LinkOrdered
<1>18. TypeOK' /\ DependenciesAcyclic'  BY <1>2, <1>14 DEF IInv, TypeOK, DependenciesAcyclic
<1>19. DiskType' /\ Settles(disk.header, disk'.header)  BY <1>2, DiskSame DEF IInv, DiskSettles
<1>20. RequestsRight'  BY <1>2, <1>15 DEF IInv, RequestsRight
<1>21. Accounted'
  <2>1. \A c : Users(c)' = Users(c) /\ Owed(c)' = Owed(c)  BY <1>2, <1>15 DEF Users, Owed
  <2> QED  BY <1>2, <1>15, <2>1 DEF IInv, Accounted
<1>22. Clean'  BY <1>2 DEF IInv, Clean
<1>23. OrderKept'
  <2>1. Ordered' => \A c \in Host : WillUse(c)' \subseteq WillUse(c)
    <3>1. Ordered' => Pledged(g)  BY <1>17 DEF Ordered
    <3> QED  BY <1>2, <1>15, <3>1 DEF WillUse
  <2>2. \A c \in Host : Claims(c)' \subseteq Claims(c)  BY <1>2 DEF Claims
  <2> QED  BY <1>2, <1>16, <2>1, <2>2, OrderMono
<1>24. HeaderRight'
  <2>1. faults \in Nat /\ faults >= faults  BY DEF IInv, ClosedRight
  <2> QED  BY <1>2, <1>15, <1>19, <2>1, HeaderStays
<1>25. DataRight' /\ DurableRight'  BY <1>2 DEF IInv, DataRight, DurableRight
<1>26. CopyRight'
  <2>1. Awaited' = Awaited  BY <1>2 DEF Awaited
  <2>2. \A x : Pledged(x)' /\ ~unordered' /\ ~lazy => Pledged(x)  BY <1>15, <1>17
  <2> QED  BY <1>2, <1>16, <2>1, <2>2 DEF IInv, CopyRight
<1>27. ClosedRight'  BY <1>1, <1>2, <1>16, StaysOpen, LinkTop DEF IInv, ClosedRight
<1> QED
  BY <1>14, <1>18, <1>19, <1>20, <1>21, <1>22, <1>23, <1>24, <1>25, <1>26, <1>27 DEF IInv

\* An L2 entry is changed, in the cache.
LEMMA EntryChanges ==
  ASSUME IInv, NEW g \in Guest, NEW v \in Entries, l2' = [l2 EXCEPT ![g] = v],
         packed' = packed \ {g}, dirty' = [dirty EXCEPT !["l2"] = @ \cup {g}],
         age' = [age EXCEPT ![g] = "volatile"], UNCHANGED <<disk, refcount, flushing>>
  PROVE  /\ l2' \in [Guest -> Entries] /\ l2'[g] = v /\ packed' \subseteq Guest
         /\ \A x \in Guest \ {g} : l2'[x] = l2[x] /\ age'[x] = age[x]
         /\ dirty' \in [Caches -> SUBSET (Guest \cup Host)] /\ dirty'["l2"] = dirty["l2"] \cup {g}
         /\ dirty'["refcount"] = dirty["refcount"]
         /\ age' \in [Guest -> {"old", "volatile", "flushing", "durable"}]
         /\ age'[g] = "volatile"
         /\ Clean' /\ DurableRight'
<1>1. /\ l2' \in [Guest -> Entries] /\ l2'[g] = v /\ packed' \subseteq Guest
      /\ \A x \in Guest \ {g} : l2'[x] = l2[x]
  BY DEF IInv, TypeOK, Entries
<1>2. /\ dirty' \in [Caches -> SUBSET (Guest \cup Host)] /\ dirty'["l2"] = dirty["l2"] \cup {g}
      /\ dirty'["refcount"] = dirty["refcount"]
  BY DEF IInv, ClosedRight, Caches
<1>3. /\ age' \in [Guest -> {"old", "volatile", "flushing", "durable"}] /\ age'[g] = "volatile"
      /\ \A x \in Guest \ {g} : age'[x] = age[x]
  BY DEF IInv, TypeOK
<1>4. Clean'  BY <1>1, <1>2 DEF IInv, Clean
<1>5. DurableRight'
  <2> SUFFICES ASSUME NEW x \in Guest \ {g}
               PROVE  /\ age[x] = "durable" =>
                           /\ disk.l2[x].maybe = {l2[x]}
                           /\ l2[x] # None => disk.data[l2[x]].maybe = {x}
                      /\ flushing /\ age[x] = "flushing" => disk.l2[x].last = l2[x]
    BY <1>1, <1>3 DEF DurableRight
  <2> QED  BY DEF IInv, DurableRight
<1> QED  BY <1>1, <1>2, <1>3, <1>4, <1>5

\* An entry is cleared, and its cluster is going to be freed.
LEMMA Step_Discard ==
  ASSUME IInv, NEW g \in Guest, Discard(g)
  PROVE  IInv'
<1>1. /\ open = "open" /\ l2[g] # None /\ Lock(Free(l2[g]))
      /\ l2' = [l2 EXCEPT ![g] = None] /\ packed' = packed \ {g}
      /\ dirty' = [dirty EXCEPT !["l2"] = @ \cup {g}] /\ age' = [age EXCEPT ![g] = "volatile"]
  BY DEF Discard, NewOp
<1>2. UNCHANGED <<lazy, refcount, header, depends, depends_on_flush, disk, req, unordered, leaked,
                  flushing, open, faults>>
  BY DEF Discard, image
<1>3. PICK o \in Host : o = l2[g]  BY <1>1, HostsExist DEF IInv
<1>4. None \in Entries /\ None \notin Host  BY ClustersAssumption DEF Entries
<1>5. /\ l2' \in [Guest -> Entries] /\ l2'[g] = None /\ packed' \subseteq Guest
      /\ \A x \in Guest \ {g} : l2'[x] = l2[x] /\ age'[x] = age[x]
      /\ dirty' \in [Caches -> SUBSET (Guest \cup Host)] /\ dirty'["l2"] = dirty["l2"] \cup {g}
      /\ dirty'["refcount"] = dirty["refcount"]
      /\ age' \in [Guest -> {"old", "volatile", "flushing", "durable"}]
      /\ Clean' /\ DurableRight'
  BY <1>1, <1>2, <1>4, EntryChanges
<1>6. PICK f \in Frames : f = Free(o) /\ f.fn \in Bases /\ FrameRight(f, TRUE, "none", {})'
  BY FreeFrame
<1>7. stack = <<>> /\ stack' # <<>> /\ stack'[1] = f /\ ret' = "none"
  BY <1>1, <1>3, <1>6, StackLock
<1>8. StackRight' /\ FramesRight'  BY <1>1, <1>2, <1>3, <1>6, FramesLock DEF IInv
<1>9. \A x : /\ ~Freeing(x) /\ ~Linking(x) /\ ~HeaderBase
             /\ (Freeing(x)' <=> x = o) /\ ~Linking(x)' /\ ~Pledged(x)'
  BY <1>6, <1>7, NoRequest, FreeBase
<1>10. TypeOK' /\ DependenciesAcyclic'
  BY <1>2, <1>5, <1>7 DEF IInv, TypeOK, DependenciesAcyclic, Entries
<1>11. DiskType' /\ Settles(disk.header, disk'.header)  BY <1>2, DiskSame DEF IInv, DiskSettles
<1>12. RequestsRight'  BY <1>2, <1>9 DEF IInv, RequestsRight
<1>13. Accounted'
  <2>1. \A k \in Guest : \A c \in Host : req[k].host = c => Users(c) = {k} /\ l2[k] # c
    BY DEF IInv, Accounted
  <2>2. \A c \in Host : c # o => Users(c)' = Users(c)  BY <1>2, <1>3, <1>4, <1>5 DEF Users
  <2>3. g \in Users(o)  BY <1>3 DEF Users
  <2>4. \A k \in Guest : req[k].host # o
    <3> SUFFICES ASSUME NEW k \in Guest, req[k].host = o PROVE FALSE  OBVIOUS
    <3>1. Users(o) = {k} /\ l2[k] # o  BY <2>1
    <3> QED  BY <1>3, <2>3, <3>1
  <2>5. Users(o)' = Users(o) \ {g}  BY <1>2, <1>4, <1>5, <2>4 DEF Users
  <2>6. \A k \in Guest : \A c \in Host : req'[k].host = c =>
          req[k].host = c /\ c # o /\ l2'[k] # c
    BY <1>2, <1>4, <1>5, <2>1, <2>4
  <2> QED  BY <1>2, <1>9, <2>2, <2>3, <2>5, <2>6, AccountedFree
<1>14. OrderKept'
  <2>1. \A c \in Host : WillUse(c)' \subseteq WillUse(c) /\ Claims(c)' \subseteq Claims(c)
    BY <1>2, <1>4, <1>5, <1>9 DEF WillUse, Claims
  <2> QED  BY <1>2, <2>1, OrderMono
<1>15. HeaderRight'
  <2>1. faults \in Nat /\ faults >= faults  BY DEF IInv, ClosedRight
  <2> QED  BY <1>2, <1>9, <1>11, <2>1, HeaderStays
<1>16. DataRight'  BY <1>2, <1>5 DEF IInv, DataRight
<1>17. CopyRight'
  <2>1. Awaited' = Awaited  BY <1>2 DEF Awaited
  <2>2. \A x \in Guest : req[x].pc # "linking"  BY <1>9 DEF IInv, RequestsRight
  <2> QED  BY <1>2, <1>5, <2>1, <2>2 DEF IInv, CopyRight
<1>18. ClosedRight'  BY <1>1, <1>2, <1>5, StaysOpen DEF IInv, ClosedRight
<1> QED
  BY <1>5, <1>8, <1>10, <1>11, <1>12, <1>13, <1>14, <1>15, <1>16, <1>17, <1>18 DEF IInv

\* The new entry is set, in the order that was arranged for it.
LEMMA Step_LinkEntry ==
  ASSUME IInv, LinkEntry
  PROVE  IInv'
<1>1. /\ stack # <<>> /\ Top.fn = "link" /\ (Top.at = "table" \/ (Top.at = "got" /\ ret = "ok"))
  BY DEF LinkEntry, At, In
<1>2. PICK g \in Guest : g = Top.guest  BY <1>1, LinkTop
<1>3. req[g].pc = "linking"  BY <1>1, <1>2, LinkBase
<1>4. PICK h \in Host : h = req[g].host  BY <1>3, HostsExist DEF IInv
<1>5. PICK o \in Entries : o = l2[g]  BY DEF IInv, TypeOK, Entries
<1>6. /\ l2' = [l2 EXCEPT ![g] = h] /\ packed' = packed \ {g}
      /\ dirty' = [dirty EXCEPT !["l2"] = @ \cup {g}] /\ age' = [age EXCEPT ![g] = "volatile"]
      /\ unordered' = (unordered \/ (Top.at = "table" /\ ret = "err"))
      /\ req' = [req EXCEPT ![g] = [Idle EXCEPT !.cow = req[g].cow]]
      /\ IF o = None THEN Return("ok") ELSE Goto(Free(o))
  BY <1>2, <1>4, <1>5 DEF LinkEntry
<1>7. UNCHANGED <<lazy, refcount, header, depends, depends_on_flush, disk, leaked, flushing, open,
                  faults>>
  BY DEF LinkEntry, image
<1>8. /\ open = "open" /\ Users(h) = {g} /\ (\A x \in Guest : l2[x] # h)
      /\ \A x \in Guest \ {g} : req[x].host # h
  BY <1>3, <1>4, OwnCluster
<1>9. /\ l2' \in [Guest -> Entries] /\ l2'[g] = h /\ packed' \subseteq Guest
      /\ \A x \in Guest \ {g} : l2'[x] = l2[x] /\ age'[x] = age[x]
      /\ dirty' \in [Caches -> SUBSET (Guest \cup Host)] /\ dirty'["l2"] = dirty["l2"] \cup {g}
      /\ dirty'["refcount"] = dirty["refcount"]
      /\ age' \in [Guest -> {"old", "volatile", "flushing", "durable"}]
      /\ Clean' /\ DurableRight'
  <2>1. h \in Entries  BY DEF Entries
  <2> QED  BY <1>6, <1>7, <2>1, EntryChanges
<1>10. /\ req' \in [Guest -> [pc: {"idle", "data", "link", "linking"},
                              host: Host \cup {None}, cow: Cows \cup {"none"}]]
       /\ req'[g].pc = "idle" /\ req'[g].host = None /\ req'[g].cow = req[g].cow
       /\ \A x \in Guest \ {g} : req'[x] = req[x]
  BY <1>6 DEF IInv, TypeOK, Idle
<1>11. None \notin Host /\ o # h /\ (o # None <=> o \in Host)
  BY <1>5, <1>8, ClustersAssumption DEF Entries
<1>12. /\ StackRight' /\ FramesRight' /\ ret' = "none"
       /\ \A x \in Host : Freeing(x)' <=> x = o
       /\ \A x : ~Linking(x)' /\ ~Pledged(x)'
  <2>0. StackRight /\ FramesRight /\ Top.fn \notin InnerCalls  BY <1>1, LinkTop
  <2>1. CASE o = None
    <3>1. StackRight' /\ FramesRight' /\ stack' = <<>> /\ ret' = "none"
      BY <1>1, <1>6, <2>0, <2>1, BaseReturns
    <3> QED  BY <1>11, <2>1, <3>1, NoRequest
  <2>2. CASE o # None
    <3>1. o \in Host  BY <1>11, <2>2
    <3>2. PICK f \in Frames : f = Free(o) /\ f.fn \in Bases /\ FrameRight(f, TRUE, "none", {})'
      BY <3>1, FreeFrame
    <3>3. /\ StackRight' /\ FramesRight'
          /\ stack' # <<>> /\ Len(stack') = 1 /\ stack'[1] = f /\ ret' = "none"
      BY <1>1, <1>6, <1>7, <2>0, <2>2, <3>2, BaseGoes
    <3> QED  BY <3>1, <3>2, <3>3, FreeBase
  <2> QED  BY <2>1, <2>2
<1>13. \A x : ~Freeing(x) /\ ~HeaderBase /\ (Linking(x) <=> x = g)  BY <1>1, <1>2, LinkBase
<1>14. unordered' \in BOOLEAN /\ (unordered => unordered')  BY <1>6 DEF IInv, ClosedRight
<1>15. Pledged(g) \/ unordered' \/ (lazy /\ ~Ordered')
  <2>1. ~Ordered => ~Ordered'  BY <1>7, <1>14 DEF Ordered
  <2> QED  BY <1>1, <1>2, <1>6, <2>1, LinkOrdered
<1>16. TypeOK' /\ DependenciesAcyclic'
  BY <1>7, <1>9, <1>10, <1>12 DEF IInv, TypeOK, DependenciesAcyclic, Entries
<1>17. DiskType' /\ Settles(disk.header, disk'.header)  BY <1>7, DiskSame DEF IInv, DiskSettles
<1>18. \A x \in Guest \ {g} : req[x].pc # "linking"  BY <1>13 DEF IInv, RequestsRight
<1>19. RequestsRight'  BY <1>10, <1>12, <1>18 DEF IInv, RequestsRight
<1>20. Accounted'
  <2>1. \A c \in Host : c # o => Users(c)' = Users(c)
    BY <1>4, <1>5, <1>9, <1>10, <1>11 DEF Users
  <2>2. o \in Host => g \in Users(o) /\ Users(o)' = Users(o) \ {g}
    <3> SUFFICES ASSUME o \in Host PROVE g \in Users(o) /\ Users(o)' = Users(o) \ {g}  OBVIOUS
    <3>1. g \in Users(o)  BY <1>5 DEF Users
    <3>2. g \notin Users(o)'  BY <1>9, <1>10, <1>11 DEF Users
    <3>3. \A x \in Guest \ {g} : x \in Users(o)' <=> x \in Users(o)  BY <1>9, <1>10 DEF Users
    <3> QED  BY <3>1, <3>2, <3>3 DEF Users
  <2>3. \A k \in Guest : \A c \in Host : req'[k].host = c =>
          req[k].host = c /\ c # o /\ l2'[k] # c
    <3> SUFFICES ASSUME NEW k \in Guest, NEW c \in Host, req'[k].host = c
                 PROVE  req[k].host = c /\ c # o /\ l2'[k] # c
      OBVIOUS
    <3>1. k # g /\ req[k].host = c  BY <1>10, <1>11
    <3>2. Users(c) = {k} /\ l2[k] # c  BY <3>1 DEF IInv, Accounted
    <3>3. c # o  BY <2>2, <3>1, <3>2
    <3> QED  BY <1>9, <3>1, <3>2, <3>3
  <2> QED  BY <1>7, <1>12, <1>13, <2>1, <2>2, <2>3, AccountedFree
<1>21. OrderKept'
  <2>1. Ordered' => \A c \in Host : WillUse(c)' \subseteq WillUse(c)
    <3>1. Ordered' => Pledged(g)  BY <1>15 DEF Ordered
    <3> QED  BY <1>4, <1>7, <1>9, <1>12, <3>1 DEF WillUse
  <2>2. \A c \in Host : Claims(c)' \subseteq Claims(c)  BY <1>4, <1>7, <1>9, <1>10, <1>11 DEF Claims
  <2> QED  BY <1>7, <1>14, <2>1, <2>2, OrderMono
<1>22. HeaderRight'
  <2>1. faults \in Nat /\ faults >= faults  BY DEF IInv, ClosedRight
  <2> QED  BY <1>7, <1>13, <1>17, <2>1, HeaderStays
<1>23. DataRight'
  <2>1. disk.data[h].last = g  BY <1>3, <1>4 DEF IInv, DataRight
  <2> QED  BY <1>7, <1>9, <1>10, <2>1 DEF IInv, DataRight
<1>24. CopyRight'
  <2>1. Awaited' = Awaited  BY <1>7 DEF Awaited
  <2>2. ASSUME ~unordered', req[g].cow = "copy" \/ (req[g].cow = "skip" /\ ~lazy)
        PROVE  disk.data[h].maybe = {g} \/ Awaited
    BY <1>3, <1>4, <1>14, <1>15, <2>2 DEF IInv, CopyRight
  <2> SUFFICES ASSUME ~unordered', NEW x \in Guest
               PROVE  /\ /\ req'[x].pc = "idle"
                         /\ req'[x].cow = "copy" \/ (req'[x].cow = "skip" /\ ~lazy)
                         /\ age'[x] # "old" /\ l2'[x] # None
                         => disk.data[l2'[x]].maybe = {x} \/ (x \in dirty'["l2"] /\ Awaited)
                      /\ req'[x].pc # "linking"
    BY <1>7, <2>1 DEF CopyRight
  <2>3. CASE x = g  BY <1>9, <1>10, <2>2, <2>3
  <2>4. CASE x # g  BY <1>9, <1>10, <1>14, <1>18, <2>4 DEF IInv, CopyRight
  <2> QED  BY <2>3, <2>4
<1>25. ClosedRight'  BY <1>7, <1>8, <1>9, <1>14, StaysOpen DEF IInv, ClosedRight
<1> QED
  BY <1>9, <1>12, <1>16, <1>17, <1>19, <1>20, <1>21, <1>22, <1>23, <1>24, <1>25 DEF IInv

-----------------------------------------------------------------------------
(* A fresh image, and one that was opened after a crash *)

\* Nothing is in flight.
Fresh ==
  /\ TypeOK /\ stack = <<>> /\ ret = "none" /\ header = FALSE /\ flushing = FALSE /\ open = "open"
  /\ faults \in Nat /\ unordered \in BOOLEAN
  /\ dirty = [x \in Caches |-> {}] /\ depends = [x \in Caches |-> FALSE]
  /\ disk.l2 = [g \in Guest |-> Cell(l2[g])]
  /\ disk.refcount = [c \in Host |-> Cell(refcount[c])]
  /\ disk.header = Cell(FALSE) /\ DiskType
  /\ \A g \in Guest : req[g] = Idle /\ age[g] = "old"
  /\ \A c \in Host : /\ refcount[c] >= References(l2, c)
                     /\ leaked \/ refcount[c] = References(l2, c)

\* Such an image is sound.
LEMMA FreshInvariant == Fresh => IInv
<1> SUFFICES ASSUME Fresh PROVE IInv  OBVIOUS
<1>1. \A x : ~Freeing(x) /\ ~Linking(x) /\ ~Pledged(x)
  BY DEF Fresh, Freeing, Linking, Pledged
<1>2. /\ \A g \in Guest : req[g].pc = "idle" /\ req[g].host = None /\ req[g].cow = "none"
      /\ None \notin Host
  BY ClustersAssumption DEF Fresh, Idle
<1>3. \A v : Cell(v).last = v /\ Cell(v).maybe = {v}  BY DEF Cell
<1>4. dirty["l2"] = {} /\ dirty["refcount"] = {} /\ dirty \in [Caches -> SUBSET (Guest \cup Host)]
      /\ ~depends["l2"]
  BY DEF Fresh, Caches
<1>5. /\ \A g \in Guest : disk.l2[g].last = l2[g] /\ disk.l2[g].maybe = {l2[g]}
      /\ \A c \in Host : disk.refcount[c].last = refcount[c] /\ disk.refcount[c].maybe = {refcount[c]}
      /\ disk.header.last = FALSE
  BY <1>3 DEF Fresh
<1>6. TypeOK /\ DiskType /\ open = "open" /\ stack = <<>>  BY DEF Fresh
<1>7. DependenciesAcyclic  BY <1>4 DEF DependenciesAcyclic, Caches
<1>8. StackRight /\ FramesRight  BY <1>6 DEF StackRight, FramesRight
<1>9. RequestsRight  BY <1>1, <1>2 DEF RequestsRight
<1>10. Accounted
  <2> SUFFICES ASSUME NEW c \in Host
               PROVE  /\ refcount[c] >= Cardinality(Users(c)) + Owed(c)
                      /\ leaked \/ refcount[c] = Cardinality(Users(c)) + Owed(c)
                      /\ \A g \in Guest : req[g].host # c
    BY DEF Accounted
  <2>1. Users(c) = {g \in Guest : l2[g] = c}  BY <1>2 DEF Users
  <2>2. References(l2, c) = Cardinality(Users(c))  BY <2>1 DEF References
  <2>3. Owed(c) = 0 /\ Cardinality(Users(c)) \in Nat  BY <1>1, CountMono, UseSets DEF Owed
  <2> QED  BY <1>2, <2>2, <2>3 DEF Fresh
<1>11. Clean  BY <1>5 DEF Clean
<1>12. OrderKept
  <2>1. BothSynced  BY <1>4, <1>5, <1>6, <1>10 DEF BothSynced, TypeOK, Synced
  <2> QED  BY <2>1, SyncedOrdered
<1>13. HeaderRight  BY <1>5 DEF HeaderRight, Fresh
<1>14. DataRight /\ DurableRight  BY <1>2 DEF DataRight, DurableRight, Fresh
<1>15. CopyRight  BY <1>2 DEF CopyRight
<1>16. ClosedRight  BY <1>4, <1>6 DEF ClosedRight, Fresh
<1> QED
  BY <1>6, <1>7, <1>8, <1>9, <1>10, <1>11, <1>12, <1>13, <1>14, <1>15, <1>16 DEF IInv

\* The same after a step.
LEMMA FreshInvariantNext == Fresh' => IInv'
BY FreshInvariant, PTL

\* The image of Init.
LEMMA InitFresh == Init => Fresh
<1> SUFFICES ASSUME Init PROVE Fresh  OBVIOUS
<1>1. PICK g \in Guest, c \in Host :
        /\ lazy \in BOOLEAN
        /\ l2 = [x \in Guest |-> IF x = g THEN c ELSE None]
        /\ packed = {g}
        /\ refcount = [x \in Host |-> IF x = c THEN 1 ELSE 0]
        /\ header = FALSE
        /\ dirty = [x \in Caches |-> {}]
        /\ depends = [x \in Caches |-> FALSE]
        /\ depends_on_flush = [x \in Caches |-> FALSE]
        /\ disk = [l2 |-> [x \in Guest |-> Cell(l2[x])],
                   refcount |-> [x \in Host |-> Cell(refcount[x])],
                   data |-> [x \in Host |-> Cell(IF x = c THEN g ELSE None)],
                   header |-> Cell(FALSE)]
        /\ stack = <<>> /\ ret = "none"
        /\ req = [x \in Guest |-> Idle]
        /\ age = [x \in Guest |-> "old"] /\ unordered = FALSE /\ leaked = FALSE
        /\ flushing = FALSE /\ open = "open" /\ ops = 0 /\ faults = 0
  BY DEF Init
<1>2. l2 \in [Guest -> Entries] /\ refcount \in [Host -> Nat]  BY <1>1 DEF Entries
<1>3. /\ disk.l2 = [x \in Guest |-> Cell(l2[x])] /\ disk.refcount = [x \in Host |-> Cell(refcount[x])]
      /\ disk.header = Cell(FALSE)
  BY <1>1
<1>4. DiskType
  <2>1. [x \in Guest |-> Cell(l2[x])] \in [Guest -> Cells(Host \cup {None})]
    BY <1>2, CellIn DEF Entries
  <2>2. [x \in Host |-> Cell(refcount[x])] \in [Host -> Cells(Nat)]  BY <1>2, CellIn
  <2>3. [x \in Host |-> Cell(IF x = c THEN g ELSE None)] \in [Host -> Cells(Guest \cup {None})]
    <3>1. \A x \in Host : (IF x = c THEN g ELSE None) \in Guest \cup {None}  OBVIOUS
    <3> QED  BY <3>1, CellIn
  <2>4. Cell(FALSE) \in Cells(BOOLEAN)  BY CellIn
  <2> QED  BY <1>1, <2>1, <2>2, <2>3, <2>4 DEF DiskType
<1>5. TypeOK
  <2>1. req \in [Guest -> [pc: {"idle", "data", "link", "linking"},
                           host: Host \cup {None}, cow: Cows \cup {"none"}]]
    BY <1>1 DEF Idle
  <2>2. dirty["l2"] \subseteq Guest /\ dirty["refcount"] \subseteq Host  BY <1>1 DEF Caches
  <2>3. depends \in [Caches -> BOOLEAN] /\ depends_on_flush \in [Caches -> BOOLEAN]  BY <1>1
  <2>4. age \in [Guest -> {"old", "volatile", "flushing", "durable"}]  BY <1>1
  <2> QED  BY <1>1, <1>2, <2>1, <2>2, <2>3, <2>4 DEF TypeOK, Entries
<1>6. ASSUME NEW x \in Host  PROVE refcount[x] = References(l2, x)
  <2>1. CASE x = c
    <3>1. {k \in Guest : l2[k] = x} = {g}  BY <1>1, <2>1, ClustersAssumption
    <3> QED  BY <1>1, <2>1, <3>1, CountOne DEF References
  <2>2. CASE x # c
    <3>1. {k \in Guest : l2[k] = x} = {}  BY <1>1, <2>2, ClustersAssumption
    <3> QED  BY <1>1, <2>2, <3>1, FS_EmptySet DEF References
  <2> QED  BY <2>1, <2>2
<1>7. \A x \in Host : refcount[x] >= References(l2, x)  BY <1>2, <1>6
<1> QED  BY <1>1, <1>3, <1>4, <1>5, <1>6, <1>7 DEF Fresh

\* Whatever the crash leaves on disk, the image that is opened next is sound:
\* CrashSafe is what makes its refcounts large enough, unless it is repaired.
LEMMA Step_Crash ==
  ASSUME IInv, Crash
  PROVE  IInv'
<1>1. PICK entries \in {f \in [Guest -> Host \cup {None}] :
                          \A g \in Guest : f[g] \in disk.l2[g].maybe},
           counts \in {f \in [Host -> 0..Cardinality(Guest)] :
                         \A c \in Host : f[c] \in disk.refcount[c].maybe},
           bit \in disk.header.maybe :
        /\ l2' = entries
        /\ refcount' = IF bit THEN [c \in Host |-> References(entries, c)] ELSE counts
        /\ disk' = [l2 |-> [g \in Guest |-> Cell(entries[g])],
                    refcount |-> [c \in Host |-> Cell(refcount'[c])],
                    data |-> [c \in Host |-> Cell(None)],
                    header |-> Cell(FALSE)]
  BY DEF Crash
<1>2. /\ open = "open" /\ ~unordered
      /\ packed' = {} /\ header' = FALSE
      /\ dirty' = [c \in Caches |-> {}] /\ depends' = [c \in Caches |-> FALSE]
      /\ depends_on_flush' = [c \in Caches |-> FALSE]
      /\ stack' = <<>> /\ ret' = "none" /\ req' = [g \in Guest |-> Idle]
      /\ age' = [g \in Guest |-> "old"] /\ leaked' = TRUE /\ flushing' = FALSE
      /\ UNCHANGED <<lazy, unordered, open, faults>>
  BY DEF Crash
<1>3. /\ entries \in [Guest -> Entries] /\ (\A g \in Guest : entries[g] \in disk.l2[g].maybe)
      /\ counts \in [Host -> Nat] /\ \A c \in Host : counts[c] \in disk.refcount[c].maybe
  <2>1. Cardinality(Guest) \in Nat  BY FS_CardinalityType, ClustersAssumption
  <2>2. 0..Cardinality(Guest) \subseteq Nat  BY <2>1
  <2> QED  BY <1>1, <2>2 DEF Entries
<1>4. \A c \in Host : References(entries, c) \in Nat
  <2>1. \A c \in Host : {g \in Guest : entries[g] = c} \subseteq Guest  OBVIOUS
  <2> QED  BY <2>1, CountMono DEF References
<1>5. ASSUME NEW c \in Host
      PROVE  refcount'[c] \in Nat /\ refcount'[c] >= References(entries, c)
  <2>1. CASE bit
    <3>1. refcount'[c] = References(entries, c)  BY <1>1, <2>1
    <3> QED  BY <1>4, <3>1
  <2>2. CASE ~bit
    <3>1. refcount'[c] = counts[c]  BY <1>1, <2>2
    <3>2. FALSE \in disk.header.maybe
      <4>1. bit \in BOOLEAN  BY <1>1, DiskFields, CellIn DEF IInv
      <4> QED  BY <1>1, <2>2, <4>1
    <3>3. CrashSafe  BY <1>2, <3>2 DEF IInv, OrderKept, Ordered
    <3>4. counts[c] >= Cardinality(MayUse(c))  BY <1>2, <1>3, <3>2, <3>3 DEF CrashSafe, MayUse
    <3>5. {g \in Guest : entries[g] = c} \subseteq MayUse(c)  BY <1>3 DEF MayUse
    <3>6. counts[c] \in Nat /\ counts[c] >= counts[c]  BY <1>3
    <3>7. counts[c] >= Cardinality({g \in Guest : entries[g] = c})
      BY <3>4, <3>5, <3>6, Enough, UseSets
    <3> QED  BY <3>1, <3>6, <3>7 DEF References
  <2> QED  BY <2>1, <2>2
<1>6. refcount' \in [Host -> Nat]
  <2>1. refcount' = [c \in Host |-> refcount'[c]]
    <3>1. CASE bit  BY <1>1, <3>1
    <3>2. CASE ~bit  BY <1>1, <1>3, <3>2
    <3> QED  BY <3>1, <3>2
  <2> QED  BY <1>5, <2>1
<1>7. /\ disk'.l2 = [g \in Guest |-> Cell(l2'[g])]
      /\ disk'.refcount = [c \in Host |-> Cell(refcount'[c])]
      /\ disk'.header = Cell(FALSE)
  BY <1>1
<1>8. DiskType'
  <2>1. [g \in Guest |-> Cell(entries[g])] \in [Guest -> Cells(Host \cup {None})]
    BY <1>3, CellIn DEF Entries
  <2>2. [c \in Host |-> Cell(refcount'[c])] \in [Host -> Cells(Nat)]  BY <1>6, CellIn
  <2>3. [c \in Host |-> Cell(None)] \in [Host -> Cells(Guest \cup {None})]
    <3>1. None \in Guest \cup {None}  OBVIOUS
    <3> QED  BY <3>1, CellIn
  <2>4. Cell(FALSE) \in Cells(BOOLEAN)  BY CellIn
  <2> QED  BY <1>1, <2>1, <2>2, <2>3, <2>4 DEF DiskType
<1>9. TypeOK'
  <2>1. req' \in [Guest -> [pc: {"idle", "data", "link", "linking"},
                            host: Host \cup {None}, cow: Cows \cup {"none"}]]
    BY <1>2 DEF Idle
  <2>2. dirty'["l2"] \subseteq Guest /\ dirty'["refcount"] \subseteq Host  BY <1>2 DEF Caches
  <2>3. depends' \in [Caches -> BOOLEAN] /\ depends_on_flush' \in [Caches -> BOOLEAN]  BY <1>2
  <2>4. age' \in [Guest -> {"old", "volatile", "flushing", "durable"}]  BY <1>2
  <2> QED  BY <1>1, <1>2, <1>3, <1>6, <2>1, <2>2, <2>3, <2>4 DEF IInv, TypeOK, Entries
<1>10. \A c \in Host : refcount'[c] >= References(l2', c)  BY <1>1, <1>5
<1>11. Fresh'
  BY <1>2, <1>7, <1>8, <1>9, <1>10 DEF Fresh, IInv, ClosedRight
<1> QED  BY <1>11, FreshInvariantNext

-----------------------------------------------------------------------------
(* The theorems *)

\* Steps of the rest of the system.
LEMMA StepUnchanged == IInv /\ UNCHANGED vars => IInv'
<1> SUFFICES ASSUME IInv, UNCHANGED vars PROVE IInv'  OBVIOUS
<1>1. /\ Inner /\ UNCHANGED <<disk, dirty, depends, depends_on_flush, stack, ret, open>>
      /\ ret' \in {"none", "ok", "err"}
  <2>1. faults \in Nat /\ faults >= faults /\ ret \in {"none", "ok", "err"}
    BY DEF IInv, ClosedRight, TypeOK
  <2> QED  BY <2>1 DEF vars, memory, history, image, Inner
<1>2. BaseKept
  BY <1>1 DEF BaseKept, RequestKept, HeaderBase, Freeing, Linking, Pledged
<1>3. Rest'  BY <1>1, <1>2, EffectNone
<1>4. \A c \in Caches : Synced(c) => Synced(c)'  BY <1>1 DEF Synced, Inner
<1>5. DataSynced => DataSynced'  BY <1>1 DEF DataSynced, Inner
<1>6. /\ Keeps
      /\ \A f \in Frames : \A r : FrameRight(f, TRUE, r, {}) => FrameRight(f, TRUE, r, {})'
  BY <1>1, <1>4, <1>5, TopStays DEF IInv, Inner
<1>7. StackRight' /\ FramesRight'  BY <1>1, <1>6, FramesStay DEF IInv
<1> QED  BY <1>3, <1>7, WholeInvariant

\* What Goto, Call, Return and Lock make of a stack without errors.
LEMMA NoErrorsGoto ==
  ASSUME stack \in Seq(Frames), stack # <<>>, NoErrors, NEW f, Goto(f), Sound(f)
  PROVE  NoErrors'
<1> DEFINE b == Below
           S == Frames \cup {f}
<1>1. /\ b \in Seq(Frames) /\ Len(b) \in Nat /\ Len(stack) = Len(b) + 1
      /\ \A i \in 1..Len(b) : i \in 1..Len(stack) /\ b[i] = stack[i]
  BY StackFacts
<1>2. stack' = Append(b, f) /\ ret' = "none"  BY DEF Goto
<1> HIDE DEF b
<1>3. b \in Seq(S) /\ f \in S  BY <1>1, SeqMonotonic
<1>4. /\ Len(stack') = Len(b) + 1
      /\ (\A i \in 1..Len(b) : stack'[i] = b[i]) /\ stack'[Len(b) + 1] = f
  BY <1>2, <1>3, AppendProperties
<1>5. ASSUME NEW i \in 1..Len(stack')  PROVE Sound(stack'[i])
  <2>1. i \in 1..Len(b) \/ i = Len(b) + 1  BY <1>1, <1>4
  <2> QED  BY <1>1, <1>4, <2>1 DEF NoErrors
<1> QED  BY <1>2, <1>5 DEF NoErrors

\* The same of a call.
LEMMA NoErrorsCall ==
  ASSUME stack \in Seq(Frames), stack # <<>>, NoErrors, NEW f, NEW g, Call(f, g),
         Sound(f), Sound(g)
  PROVE  NoErrors'
<1> DEFINE b == Below
           S == Frames \cup {f, g}
           p == <<f, g>>
<1>1. /\ b \in Seq(Frames) /\ Len(b) \in Nat /\ Len(stack) = Len(b) + 1
      /\ \A i \in 1..Len(b) : i \in 1..Len(stack) /\ b[i] = stack[i]
  BY StackFacts
<1>2. stack' = b \o p /\ ret' = "none"  BY DEF Call
<1>3. p \in Seq(S) /\ Len(p) = 2 /\ p[1] = f /\ p[2] = g  OBVIOUS
<1> HIDE DEF b, p
<1>4. b \in Seq(S)  BY <1>1, SeqMonotonic
<1> HIDE DEF S
<1>5. /\ Len(stack') = Len(b) + 2
      /\ \A i \in 1..(Len(b) + 2) : stack'[i] = IF i <= Len(b) THEN b[i] ELSE p[i - Len(b)]
  <2>1. /\ Len(b \o p) = Len(b) + Len(p)
        /\ \A i \in 1..(Len(b) + Len(p)) :
             (b \o p)[i] = IF i <= Len(b) THEN b[i] ELSE p[i - Len(b)]
    BY <1>3, <1>4, ConcatProperties
  <2> QED  BY <1>2, <1>3, <2>1
<1>6. ASSUME NEW i \in 1..Len(stack')  PROVE Sound(stack'[i])
  <2>1. CASE i <= Len(b)
    <3>1. i \in 1..Len(b) /\ stack'[i] = b[i]  BY <1>1, <1>5, <2>1
    <3> QED  BY <1>1, <3>1 DEF NoErrors
  <2>2. CASE ~(i <= Len(b))
    <3>1. i - Len(b) = 1 \/ i - Len(b) = 2  BY <1>1, <1>5, <2>2
    <3> QED  BY <1>3, <1>5, <2>2, <3>1
  <2> QED  BY <2>1, <2>2
<1> QED  BY <1>2, <1>6 DEF NoErrors

\* The same of a return.
LEMMA NoErrorsReturn ==
  ASSUME stack \in Seq(Frames), stack # <<>>, NoErrors, NEW r, r # "err", Return(r)
  PROVE  NoErrors'
<1>1. /\ Len(stack') = Len(stack) - 1 /\ Len(stack) \in Nat
      /\ \A i \in 1..(Len(stack) - 1) : stack'[i] = stack[i]
  BY StackFacts, StackReturn
<1>2. \A i \in 1..Len(stack') : i \in 1..Len(stack) /\ stack'[i] = stack[i]  BY <1>1
<1>3. ret' # "err"  BY DEF Return
<1> QED  BY <1>2, <1>3 DEF NoErrors

\* The same of a request that takes the lock.
LEMMA NoErrorsLock ==
  ASSUME NEW f, Lock(f), Sound(f)
  PROVE  NoErrors'
<1>1. stack' = <<f>> /\ ret' = "none"  BY DEF Lock
<1>2. Len(<<f>>) = 1 /\ <<f>>[1] = f  OBVIOUS
<1>3. \A i \in 1..Len(stack') : i = 1  BY <1>1, <1>2
<1> QED  BY <1>1, <1>2, <1>3 DEF NoErrors

\* The frames that the steps make.
LEMMA SoundFrames ==
  ASSUME stack \in Seq(Frames)
  PROVE  /\ \A c, y : Sound(CacheFlush(c, y))
         /\ \A c, t : Sound(EntryFlush(c, t))
         /\ \A c : Sound(SetDependency(c))
         /\ \A c : Sound(Free(c))
         /\ stack # <<>> /\ Top.fn # "cache_flush" => Sound(Top)
         /\ stack # <<>> /\ Top.fn \in {"free", "link", "flush", "close"} =>
              \A a : Sound(GoOn(a))
<1>1. \A c, y : Sound(CacheFlush(c, y))  BY DEF Sound, CacheFlush
<1>2. \A c, t : Sound(EntryFlush(c, t))  BY DEF Sound, EntryFlush
<1>3. \A c : Sound(SetDependency(c))  BY DEF Sound, SetDependency
<1>4. \A c : Sound(Free(c))  BY DEF Sound, Free
<1>5. stack # <<>> /\ Top.fn # "cache_flush" => Sound(Top)  BY DEF Sound
<1>6. ASSUME stack # <<>>, Top.fn \in {"free", "link", "flush", "close"}, NEW a
      PROVE  Sound(GoOn(a))
  <2>1. Top \in Frames  BY <1>6, StackFacts
  <2>2. Top \in FreeFrames \cup LinkFrames \cup FlushFrames \cup CloseFrames
    BY <1>6, <2>1, FrameFields
  <2>3. GoOn(a).fn = Top.fn
    BY <2>2 DEF GoOn, FreeFrames, LinkFrames, FlushFrames, CloseFrames
  <2> QED  BY <1>6, <2>3 DEF Sound
<1> QED  BY <1>1, <1>2, <1>3, <1>4, <1>5, <1>6

\* No call fails before the first write or flush does.
LEMMA StepErrors == IInv /\ ErrorsCounted /\ [Next]_vars => ErrorsCounted'
<1> SUFFICES ASSUME IInv, ErrorsCounted, [Next]_vars, faults' = 0  PROVE NoErrors'
  BY DEF ErrorsCounted
<1>1. stack \in Seq(Frames) /\ faults \in Nat  BY DEF IInv, StackRight, ClosedRight
<1>2. faults' = faults \/ faults' = faults + 1
  BY DEF Next, vars, Fault, NoFault, qcow2_cache_flush, EntryFlushOrder, EntryFlushWrite,
         qcow2_cache_set_dependency, Evict, update_refcount, Write, WriteData, WriteDataFails,
         LinkStart, Discard, qcow2_mark_dirty, LinkOrder, LinkEvict, LinkEntry, LinkFails,
         FlushStart, FlushCaches, FlushFile, CloseStart, CloseFlush, qcow2_mark_clean, Crash
<1>3. NoErrors /\ ret # "err" /\ ~Fault  BY <1>1, <1>2 DEF ErrorsCounted, NoErrors, Fault
<1>4. stack # <<>> => Top \in Frames /\ Sound(Top)
  <2>1. stack # <<>> => Len(stack) \in 1..Len(stack) /\ Top = stack[Len(stack)] /\ Top \in Frames
    BY <1>1, StackFacts
  <2> QED  BY <1>3, <2>1 DEF NoErrors
<1> USE <1>1, <1>3, <1>4
<1>5. CASE qcow2_cache_flush
  <2>1. stack # <<>> /\ Top.fn = "cache_flush" /\ Top \in CacheFrames /\ ~Top.failed
    BY <1>5, FrameFields DEF qcow2_cache_flush, In, Sound
  <2>2. CASE \E t \in Top.left : Call([Top EXCEPT !.left = @ \ {t}, !.failed = FALSE],
                                      EntryFlush(Top.cache, t))
    <3>1. PICK t \in Top.left : Call([Top EXCEPT !.left = @ \ {t}, !.failed = FALSE],
                                     EntryFlush(Top.cache, t))
      BY <2>2
    <3>2. Sound([Top EXCEPT !.left = @ \ {t}, !.failed = FALSE])
      BY <2>1 DEF CacheFrames, Sound
    <3> QED  BY <2>1, <3>1, <3>2, SoundFrames, NoErrorsCall
  <2>3. CASE Return("ok")  BY <2>1, <2>3, NoErrorsReturn
  <2>4. (Top.failed \/ ret = "err") = FALSE  BY <2>1 DEF CacheFrames
  <2> QED  BY <1>5, <2>2, <2>3, <2>4 DEF qcow2_cache_flush
<1>6. CASE EntryFlushOrder
  <2>1. stack # <<>> /\ Top.fn = "entry_flush" /\ Top \in EntryFrames
    BY <1>6, FrameFields DEF EntryFlushOrder, In
  <2>2. Sound([Top EXCEPT !.ready = TRUE])  BY <2>1 DEF EntryFrames, Sound
  <2>3. CASE Call(Top, CacheFlush(Other(Top.cache), TRUE))
    BY <2>1, <2>3, SoundFrames, NoErrorsCall
  <2>4. CASE Goto([Top EXCEPT !.ready = TRUE])  BY <2>1, <2>2, <2>4, NoErrorsGoto
  <2> QED  BY <1>6, <2>3, <2>4 DEF EntryFlushOrder
<1>7. CASE EntryFlushWrite
  <2>1. stack # <<>> /\ Return("ok")  BY <1>7 DEF EntryFlushWrite, In
  <2> QED  BY <2>1, NoErrorsReturn
<1>8. CASE qcow2_cache_set_dependency
  <2>1. stack # <<>>  BY <1>8 DEF qcow2_cache_set_dependency, In
  <2>2. Call(Top, CacheFlush(Top.cache, TRUE)) \/ Return("ok")
    BY <1>8 DEF qcow2_cache_set_dependency
  <2> QED  BY <2>1, <2>2, SoundFrames, NoErrorsCall, NoErrorsReturn
<1>9. CASE \E c \in Caches : \E t : Lock(EntryFlush(c, t))
  BY <1>9, SoundFrames, NoErrorsLock
<1>10. CASE update_refcount
  <2>1. stack # <<>> /\ Top.fn = "free"  BY <1>10 DEF update_refcount, In
  <2>2. Call(GoOn("update"), SetDependency("refcount")) \/ Return("ok")
    BY <1>10 DEF update_refcount, GoOn
  <2> QED  BY <2>1, <2>2, SoundFrames, NoErrorsCall, NoErrorsReturn
<1>11. CASE \E g \in Guest : LinkStart(g)
  <2>1. PICK g \in Guest : Lock([fn |-> "link", guest |-> g, at |-> "header"])
    BY <1>11 DEF LinkStart
  <2>2. Sound([fn |-> "link", guest |-> g, at |-> "header"])  BY DEF Sound
  <2> QED  BY <2>1, <2>2, NoErrorsLock
<1>12. CASE \E c : Lock(Free(c))  BY <1>12, SoundFrames, NoErrorsLock
<1>13. CASE qcow2_mark_dirty \/ LinkOrder \/ LinkEvict \/ LinkEntry \/ LinkFails
  <2>1. stack # <<>> /\ Top.fn = "link"
    BY <1>13 DEF qcow2_mark_dirty, LinkOrder, LinkEvict, LinkEntry, LinkFails, At, In
  <2>2. \/ \E a : Goto(GoOn(a))
        \/ \E a : Call(GoOn(a), SetDependency("l2"))
        \/ \E a, t : Call(GoOn(a), EntryFlush("l2", t))
        \/ Return("ok")
        \/ \E c : Goto(Free(c))
    BY <1>13 DEF qcow2_mark_dirty, LinkOrder, LinkEvict, LinkEntry, LinkFails
  <2> QED  BY <2>1, <2>2, SoundFrames, NoErrorsGoto, NoErrorsCall, NoErrorsReturn
<1>14. CASE FlushStart \/ CloseStart
  <2>1. \/ Lock([fn |-> "flush", at |-> "l2"])
        \/ Lock([fn |-> "close", at |-> "start", failed |-> FALSE])
    BY <1>14 DEF FlushStart, CloseStart
  <2>2. /\ Sound([fn |-> "flush", at |-> "l2"])
        /\ Sound([fn |-> "close", at |-> "start", failed |-> FALSE])
    BY DEF Sound
  <2> QED  BY <2>1, <2>2, NoErrorsLock
<1>15. CASE FlushCaches \/ qcow2_mark_clean
  <2>1. stack # <<>> /\ Top.fn \in {"flush", "close"}
    BY <1>15 DEF FlushCaches, qcow2_mark_clean, WriteCaches, At, In
  <2>2. \/ \E a, c : Call(GoOn(a), CacheFlush(c, FALSE))
        \/ \E a : Goto(GoOn(a))
        \/ Return("ok")
    BY <1>15 DEF FlushCaches, qcow2_mark_clean, WriteCaches
  <2> QED  BY <2>1, <2>2, SoundFrames, NoErrorsGoto, NoErrorsCall, NoErrorsReturn
<1>16. CASE CloseFlush
  <2>1. stack # <<>> /\ Top.fn = "close" /\ Top \in CloseFrames
    BY <1>16, FrameFields DEF CloseFlush, In
  <2> DEFINE frame == [Top EXCEPT !.failed = @ \/ ret = "err"]
  <2>2. \A a : Sound([frame EXCEPT !.at = a])  BY <2>1 DEF CloseFrames, Sound
  <2>3. \/ \E a, c : Call([frame EXCEPT !.at = a], CacheFlush(c, TRUE))
        \/ \E a : Goto([frame EXCEPT !.at = a])
        \/ Return("ok")
    BY <1>16 DEF CloseFlush
  <2> QED  BY <2>1, <2>2, <2>3, SoundFrames, NoErrorsGoto, NoErrorsCall, NoErrorsReturn
<1>17. CASE UNCHANGED <<stack, ret>>  BY <1>17 DEF NoErrors
<1>18. CASE stack' = <<>> /\ ret' = "none"
  <2>1. Len(<<>>) = 0  BY EmptySeq
  <2>2. \A i \in 1..Len(stack') : FALSE  BY <1>18, <2>1
  <2> QED  BY <1>18, <2>2 DEF NoErrors
<1>19. CASE \/ \E g \in Guest, c \in Host, cow \in Cows : Write(g, c, cow)
            \/ \E g \in Guest : WriteData(g)
            \/ FlushFile \/ UNCHANGED vars
  BY <1>17, <1>19 DEF Write, WriteData, FlushFile, vars
<1>20. CASE \E g \in Guest : WriteDataFails(g) \/ Discard(g)
  BY <1>12, <1>20 DEF WriteDataFails, Discard
<1>21. CASE (\E g \in Guest : Evict("l2", g)) \/ (\E c \in Host : Evict("refcount", c))
  BY <1>9, <1>21 DEF Evict, Caches
<1>22. CASE Crash  BY <1>18, <1>22 DEF Crash
<1> QED
  BY <1>5, <1>6, <1>7, <1>8, <1>10, <1>11, <1>13, <1>14, <1>15, <1>16, <1>19, <1>20, <1>21, <1>22
     DEF Next

\* Every step preserves the invariant.
LEMMA StepInvariant == IInv /\ ErrorsCounted /\ [Next]_vars => IInv'
<1> SUFFICES ASSUME IInv, ErrorsCounted, [Next]_vars PROVE IInv'  OBVIOUS
<1>0. "l2" \in Caches /\ "refcount" \in Caches  BY DEF Caches
<1>1. CASE qcow2_cache_flush  BY <1>1, Step_qcow2_cache_flush
<1>2. CASE EntryFlushOrder  BY <1>2, Step_EntryFlushOrder
<1>3. CASE EntryFlushWrite  BY <1>3, Step_EntryFlushWrite
<1>4. CASE qcow2_cache_set_dependency  BY <1>4, Step_qcow2_cache_set_dependency
<1>5. CASE \E g \in Guest : Evict("l2", g)  BY <1>0, <1>5, Step_Evict
<1>6. CASE \E c \in Host : Evict("refcount", c)  BY <1>0, <1>6, Step_Evict
<1>7. CASE update_refcount  BY <1>7, Step_update_refcount
<1>8. CASE \E g \in Guest, c \in Host, cow \in Cows : Write(g, c, cow)  BY <1>8, Step_Write
<1>9. CASE \E g \in Guest : WriteData(g)  BY <1>9, Step_WriteData
<1>10. CASE \E g \in Guest : WriteDataFails(g)  BY <1>10, Step_WriteDataFails
<1>11. CASE \E g \in Guest : LinkStart(g)  BY <1>11, Step_LinkStart
<1>12. CASE \E g \in Guest : Discard(g)  BY <1>12, Step_Discard
<1>13. CASE qcow2_mark_dirty  BY <1>13, Step_qcow2_mark_dirty
<1>14. CASE LinkOrder  BY <1>14, Step_LinkOrder
<1>15. CASE LinkEvict  BY <1>15, Step_LinkEvict
<1>16. CASE LinkEntry  BY <1>16, Step_LinkEntry
<1>17. CASE LinkFails  BY <1>17, Step_LinkFails
<1>18. CASE FlushStart  BY <1>18, Step_FlushStart
<1>19. CASE FlushCaches  BY <1>19, Step_FlushCaches
<1>20. CASE FlushFile  BY <1>20, Step_FlushFile
<1>21. CASE CloseStart  BY <1>21, Step_CloseStart
<1>22. CASE CloseFlush  BY <1>22, Step_CloseFlush
<1>23. CASE qcow2_mark_clean  BY <1>23, Step_qcow2_mark_clean
<1>24. CASE Crash  BY <1>24, Step_Crash
<1>25. CASE UNCHANGED vars  BY <1>25, StepUnchanged
<1> QED
  BY <1>1, <1>2, <1>3, <1>4, <1>5, <1>6, <1>7, <1>8, <1>9, <1>10, <1>11, <1>12, <1>13, <1>14,
     <1>15, <1>16, <1>17, <1>18, <1>19, <1>20, <1>21, <1>22, <1>23, <1>24, <1>25 DEF Next

\* The inductive invariant: every call on the stack knows what it relies on, the
\* refcounts account for all that refers to a cluster, and each cache either may
\* be written now or waits for the other one.
THEOREM Invariance == Spec => []IInv
<1>1. Init => IInv /\ ErrorsCounted
  <2>1. Init => IInv  BY InitFresh, FreshInvariant
  <2>2. ASSUME Init  PROVE ErrorsCounted
    <3>1. stack = <<>> /\ ret = "none" /\ Len(<<>>) = 0  BY <2>2, EmptySeq DEF Init
    <3>2. \A i \in 1..Len(stack) : FALSE  BY <3>1
    <3> QED  BY <3>1, <3>2 DEF ErrorsCounted, NoErrors
  <2> QED  BY <2>1, <2>2
<1> QED  BY <1>1, StepErrors, StepInvariant, PTL DEF Spec

\* Whenever the power goes, no L2 entry that may be on disk refers to a cluster
\* whose refcount on disk is too small, unless the dirty bit is on disk for certain
\* or an ignored error of qcow2_cache_set_dependency has lost the order: that of
\* qcow2_cache_entry_flush and qcow2_cache_set_dependency is enough.
THEOREM CrashSafety == Spec => []CrashSafe
<1>1. IInv => CrashSafe  BY DEF IInv, OrderKept, Ordered, CrashSafe
<1> QED  BY <1>1, Invariance, PTL

\* An L2 entry is not on disk before the rest of the cluster that perform_cow
\* copied, or that handle_alloc_space zeroed in an image without lazy refcounts,
\* unless an ignored error of qcow2_cache_set_dependency has lost the order.
THEOREM CopyOrdered == Spec => []CopyBeforeLink
<1>1. IInv => CopyBeforeLink  BY DEF IInv, CopyRight, CopyBeforeLink, RestOnDisk
<1> QED  BY <1>1, Invariance, PTL

\* What was linked or discarded before a bdrv_co_flush that succeeded is on disk.
THEOREM FlushDurable == Spec => []FlushedIsDurable
<1>1. IInv => FlushedIsDurable  BY DEF IInv, DurableRight, FlushedIsDurable
<1> QED  BY <1>1, Invariance, PTL

\* The caches are well-formed and never wait for each other: qcow2_cache_flush
\* comes to an end.
THEOREM CachesCorrect == Spec => []CachesConsistent
<1>1. IInv => CachesConsistent  BY DEF IInv, CachesConsistent
<1> QED  BY <1>1, Invariance, PTL

\* An image that qcow2_inactivate reported closed holds what the caches held, with
\* refcounts that are large enough, and exact unless a cluster had been leaked, and
\* is marked clean if no write and no flush has ever failed.
THEOREM CloseClean == Spec => []CloseIsClean
<1>1. IInv => CloseIsClean
  <2> SUFFICES ASSUME IInv, open = "closed"
               PROVE  /\ \A g \in Guest : disk.l2[g] = Cell(l2[g])
                      /\ \A c \in Host : /\ disk.refcount[c] = Cell(refcount[c])
                                         /\ refcount[c] >= References(l2, c)
                                         /\ refcount[c] = References(l2, c) \/ leaked
                      /\ disk.header.last = FALSE \/ faults > 0
    BY DEF CloseIsClean
  <2>1. /\ ~header /\ Synced("l2") /\ Synced("refcount") /\ stack = <<>>
        /\ \A g \in Guest : req[g].pc = "idle"
    BY DEF IInv, ClosedRight, StackRight
  <2>2. ASSUME NEW S, NEW x \in Cells(S), NEW v, x.maybe = {v}  PROVE x = Cell(v)
    BY <2>2 DEF Cells, Cell
  <2>3. \A g \in Guest : disk.l2[g] = Cell(l2[g])
    BY <2>1, <2>2, DiskFields DEF IInv, Synced
  <2>4. \A c \in Host : disk.refcount[c] = Cell(refcount[c])
    BY <2>1, <2>2, DiskFields DEF IInv, Synced
  <2>5. ASSUME NEW c \in Host
        PROVE  refcount[c] >= References(l2, c) /\ (refcount[c] = References(l2, c) \/ leaked)
    <3>1. \A g \in Guest : req[g].host # c
      BY <2>1, ClustersAssumption DEF IInv, RequestsRight
    <3>2. Users(c) = {g \in Guest : l2[g] = c}  BY <3>1 DEF Users
    <3>3. References(l2, c) = Cardinality(Users(c))  BY <3>2 DEF References
    <3>4. Owed(c) = 0 /\ Cardinality(Users(c)) \in Nat
      BY <2>1, NoRequest, CountMono, UseSets DEF Owed
    <3>5. /\ refcount[c] >= Cardinality(Users(c)) + Owed(c)
          /\ leaked \/ refcount[c] = Cardinality(Users(c)) + Owed(c)
      BY DEF IInv, Accounted
    <3> QED  BY <3>3, <3>4, <3>5
  <2>6. disk.header.last = FALSE \/ faults > 0
    <3>1. disk.header.last \in BOOLEAN  BY DiskFields, CellIn DEF IInv
    <3> QED  BY <2>1, <3>1 DEF IInv, HeaderRight
  <2> QED  BY <2>3, <2>4, <2>5, <2>6
<1> QED  BY <1>1, Invariance, PTL
=============================================================================
