-------------------------- MODULE ThreadPoolProofs --------------------------
(***************************************************************************)
(* Proofs about ThreadPool for every set of requests and every number of   *)
(* workers.                                                                *)
(***************************************************************************)
EXTENDS ThreadPool, FiniteSetTheorems, SequenceTheorems, TLAPS

-----------------------------------------------------------------------------
(* What the list operations do to the elements of a queue and to its being *)
(* free of duplicates                                                      *)

\* The length of a queue that grows or shrinks by one.
LEMMA QueueLength ==
  ASSUME NEW S, NEW q \in Seq(S)
  PROVE  /\ Len(q) \in Nat /\ (Len(q) = 0 <=> q = <<>>)
         /\ \A c \in S : Len(Append(q, c)) = Len(q) + 1
         /\ q # <<>> => Len(Tail(q)) = Len(q) - 1
BY AppendProperties, HeadTailProperties, LenProperties, EmptySeq

\* Appending (QTAILQ_INSERT_TAIL).
LEMMA QueueAppend ==
  ASSUME NEW S, NEW q \in Seq(S), NEW c \in S
  PROVE  /\ Append(q, c) \in Seq(S)
         /\ Append(q, c) # <<>>
         /\ ToSet(Append(q, c)) = ToSet(q) \cup {c}
         /\ Head(Append(q, c)) = IF q = <<>> THEN c ELSE Head(q)
         /\ IsInjective(q) /\ c \notin ToSet(q) => IsInjective(Append(q, c))
<1> DEFINE r == Append(q, c)
<1>1. r \in Seq(S) /\ r # <<>> /\ Len(r) = Len(q) + 1
      /\ (\A i \in 1..Len(q) : r[i] = q[i]) /\ r[Len(q) + 1] = c
  BY AppendProperties
<1>2. DOMAIN q = 1..Len(q) /\ DOMAIN r = 1..(Len(q) + 1) /\ Len(q) \in Nat
  BY <1>1, LenProperties
<1> HIDE DEF r
<1>3. ToSet(r) = ToSet(q) \cup {c}  BY <1>1, <1>2 DEF ToSet
<1>4. IsInjective(q) /\ c \notin ToSet(q) => IsInjective(r)
  BY <1>1, <1>2 DEF ToSet, IsInjective
<1> QED  BY <1>1, <1>3, <1>4, HeadTailAppend DEF r

\* Taking the first element off (the first request in worker_thread).
LEMMA QueueTail ==
  ASSUME NEW S, NEW q \in Seq(S), q # <<>>
  PROVE  /\ Head(q) \in ToSet(q)
         /\ Head(q) \in S
         /\ Tail(q) \in Seq(S)
         /\ IsInjective(q) => /\ IsInjective(Tail(q))
                              /\ ToSet(Tail(q)) = ToSet(q) \ {Head(q)}
<1> DEFINE t == Tail(q)
<1>1. /\ Head(q) \in S /\ t \in Seq(S)
      /\ Len(t) = Len(q) - 1 /\ \A i \in 1..Len(t) : t[i] = q[i + 1]
  BY HeadTailProperties
<1>2. DOMAIN q = 1..Len(q) /\ DOMAIN t = 1..(Len(q) - 1) /\ Len(q) \in Nat \ {0}
  BY <1>1, LenProperties, EmptySeq
<1>3. Head(q) = q[1]  OBVIOUS
<1> HIDE DEF t
<1>4. Head(q) \in ToSet(q)  BY <1>2, <1>3 DEF ToSet
<1>5. ASSUME IsInjective(q) PROVE IsInjective(t)
  <2>1. ASSUME NEW i \in 1..(Len(q) - 1), NEW j \in 1..(Len(q) - 1), t[i] = t[j]
        PROVE  i = j
    <3>1. i + 1 \in DOMAIN q /\ j + 1 \in DOMAIN q /\ q[i + 1] = q[j + 1]
      BY <1>1, <1>2, <2>1
    <3>2. i + 1 = j + 1  BY <1>5, <3>1 DEF IsInjective
    <3> QED  BY <3>2
  <2> QED  BY <1>2, <2>1 DEF IsInjective
<1>6. ASSUME IsInjective(q) PROVE ToSet(t) = ToSet(q) \ {Head(q)}
  <2>1. ASSUME NEW i \in 1..(Len(q) - 1) PROVE t[i] \in ToSet(q) \ {q[1]}
    BY <1>1, <1>2, <1>6, <2>1 DEF IsInjective, ToSet
  <2>2. ASSUME NEW i \in 1..Len(q), q[i] # q[1] PROVE q[i] \in ToSet(t)
    <3>1. i - 1 \in 1..(Len(q) - 1) /\ q[i] = t[i - 1]  BY <1>1, <1>2, <2>2
    <3> QED  BY <3>1, <1>2 DEF ToSet
  <2> QED  BY <1>2, <1>3, <2>1, <2>2 DEF ToSet
<1> QED  BY <1>1, <1>4, <1>5, <1>6 DEF t

\* Only the empty queue has no elements.
LEMMA QueueEmpty ==
  ASSUME NEW S, NEW q \in Seq(S)
  PROVE  ToSet(q) = {} <=> q = <<>>
<1>1. CASE q = <<>>  BY <1>1 DEF ToSet
<1>2. CASE q # <<>>  BY <1>2, QueueTail
<1> QED  BY <1>1, <1>2

\* Removing from the middle (QTAILQ_REMOVE).
LEMMA QueueRemoveAt ==
  ASSUME NEW S, NEW q \in Seq(S), NEW k \in 1..Len(q)
  PROVE  /\ RemoveAt(q, k) \in Seq(S)
         /\ Len(RemoveAt(q, k)) = Len(q) - 1
         /\ q[k] \in ToSet(q)
         /\ IsInjective(q) => /\ IsInjective(RemoveAt(q, k))
                              /\ ToSet(RemoveAt(q, k)) = ToSet(q) \ {q[k]}
<1> DEFINE a == SubSeq(q, 1, k - 1)
           b == SubSeq(q, k + 1, Len(q))
           r == RemoveAt(q, k)
<1>1. Len(q) \in Nat /\ DOMAIN q = 1..Len(q)  BY LenProperties
<1>2. /\ a \in Seq(S) /\ Len(a) = k - 1 /\ \A j \in 1..(k - 1) : a[j] = q[j]
  BY <1>1, SubSeqProperties
<1>3. /\ b \in Seq(S) /\ Len(b) = Len(q) - k
      /\ \A j \in 1..(Len(q) - k) : b[j] = q[k + j]
  <2>1. k + 1 \in Int /\ Len(q) \in Int /\ \A j \in (k + 1)..Len(q) : q[j] \in S
    BY <1>1
  <2>2. /\ b \in Seq(S) /\ Len(b) = IF k + 1 <= Len(q) THEN Len(q) - (k + 1) + 1 ELSE 0
        /\ \A j \in 1..(Len(q) - (k + 1) + 1) : b[j] = q[(k + 1) + j - 1]
    BY <2>1, SubSeqProperties
  <2>3. \A j \in 1..(Len(q) - k) : (k + 1) + j - 1 = k + j  OBVIOUS
  <2>4. Len(q) - (k + 1) + 1 = Len(q) - k  BY <1>1
  <2> HIDE DEF b
  <2>5. Len(b) = Len(q) - k
    <3>0. Len(b) = IF k + 1 <= Len(q) THEN Len(q) - (k + 1) + 1 ELSE 0  BY <2>2
    <3>1. CASE k + 1 <= Len(q)
      <4>1. Len(b) = Len(q) - (k + 1) + 1  BY <3>0, <3>1
      <4> QED  BY <2>4, <4>1
    <3>2. CASE ~(k + 1 <= Len(q))
      <4>1. Len(b) = 0  BY <3>0, <3>2
      <4>2. Len(q) \in Nat /\ k \in Nat /\ k <= Len(q) /\ ~(k + 1 <= Len(q))  BY <1>1, <3>2
      <4>3. k = Len(q)  BY <4>2
      <4> QED  BY <4>1, <4>2, <4>3
    <3> QED  BY <3>1, <3>2
  <2>6. ASSUME NEW j \in 1..(Len(q) - k) PROVE b[j] = q[k + j]
    <3>1. j \in 1..(Len(q) - (k + 1) + 1)  BY <2>4
    <3>2. b[j] = q[(k + 1) + j - 1]  BY <2>2, <3>1
    <3> QED  BY <2>3, <3>2
  <2> QED  BY <2>2, <2>5, <2>6
<1>4. r = a \o b  BY DEF RemoveAt
<1> HIDE DEF a, b, r
<1>5. /\ r \in Seq(S) /\ Len(r) = Len(q) - 1
      /\ \A j \in 1..(Len(q) - 1) : r[j] = IF j < k THEN a[j] ELSE b[j - (k - 1)]
  <2>1. /\ r \in Seq(S) /\ Len(r) = Len(a) + Len(b)
        /\ \A j \in 1..(Len(a) + Len(b)) :
             r[j] = IF j <= Len(a) THEN a[j] ELSE b[j - Len(a)]
    BY <1>2, <1>3, <1>4, ConcatProperties
  <2>2. Len(a) + Len(b) = Len(q) - 1  BY <1>1, <1>2, <1>3
  <2>3. \A j \in 1..(Len(q) - 1) : j <= Len(a) <=> j < k  BY <1>1, <1>2
  <2> QED  BY <1>2, <2>1, <2>2, <2>3
<1>6. \A j \in 1..(Len(q) - 1) : r[j] = IF j < k THEN q[j] ELSE q[j + 1]
  <2> SUFFICES ASSUME NEW j \in 1..(Len(q) - 1)
               PROVE  r[j] = IF j < k THEN q[j] ELSE q[j + 1]
    OBVIOUS
  <2>1. CASE j < k
    <3>1. j \in 1..(k - 1)  BY <2>1
    <3>2. r[j] = a[j]  BY <1>5, <2>1
    <3>3. a[j] = q[j]  BY <1>2, <3>1
    <3> QED  BY <2>1, <3>2, <3>3
  <2>2. CASE ~(j < k)
    <3>1. j - (k - 1) \in 1..(Len(q) - k) /\ k + (j - (k - 1)) = j + 1  BY <1>1, <2>2
    <3>2. r[j] = b[j - (k - 1)]  BY <1>5, <2>2
    <3>3. b[j - (k - 1)] = q[k + (j - (k - 1))]  BY <1>3, <3>1
    <3> QED  BY <2>2, <3>1, <3>2, <3>3
  <2> QED  BY <2>1, <2>2
<1>7. DOMAIN r = 1..(Len(q) - 1)  BY <1>5, LenProperties
<1>8. q[k] \in ToSet(q)  BY <1>1 DEF ToSet
<1>9. ASSUME IsInjective(q) PROVE IsInjective(r)
  <2>1. ASSUME NEW i \in 1..(Len(q) - 1), NEW j \in 1..(Len(q) - 1), r[i] = r[j]
        PROVE  i = j
    <3>1. CASE i < k /\ j < k  BY <1>1, <1>6, <1>9, <2>1, <3>1 DEF IsInjective
    <3>2. CASE i < k /\ ~(j < k)
      <4>1. i \in DOMAIN q /\ j + 1 \in DOMAIN q /\ q[i] = q[j + 1]
        BY <1>1, <1>6, <2>1, <3>2
      <4>2. i = j + 1  BY <1>9, <4>1 DEF IsInjective
      <4> QED  BY <3>2, <4>2
    <3>3. CASE ~(i < k) /\ j < k
      <4>1. j \in DOMAIN q /\ i + 1 \in DOMAIN q /\ q[j] = q[i + 1]
        BY <1>1, <1>6, <2>1, <3>3
      <4>2. j = i + 1  BY <1>9, <4>1 DEF IsInjective
      <4> QED  BY <3>3, <4>2
    <3>4. CASE ~(i < k) /\ ~(j < k)
      <4>1. j + 1 \in DOMAIN q /\ i + 1 \in DOMAIN q /\ q[j + 1] = q[i + 1]
        BY <1>1, <1>6, <2>1, <3>4
      <4>2. j + 1 = i + 1  BY <1>9, <4>1 DEF IsInjective
      <4> QED  BY <4>2
    <3> QED  BY <3>1, <3>2, <3>3, <3>4
  <2> QED  BY <1>7, <2>1 DEF IsInjective
<1>10. ASSUME IsInjective(q) PROVE ToSet(r) = ToSet(q) \ {q[k]}
  <2>1. ASSUME NEW j \in 1..(Len(q) - 1) PROVE r[j] \in ToSet(q) \ {q[k]}
    <3>1. CASE j < k  BY <1>1, <1>6, <1>10, <3>1 DEF IsInjective, ToSet
    <3>2. CASE ~(j < k)
      <4>1. j + 1 \in DOMAIN q /\ k \in DOMAIN q /\ r[j] = q[j + 1] /\ j + 1 # k
        BY <1>1, <1>6, <3>2
      <4> QED  BY <1>10, <4>1 DEF IsInjective, ToSet
    <3> QED  BY <3>1, <3>2
  <2>2. ASSUME NEW j \in 1..Len(q), q[j] # q[k] PROVE q[j] \in ToSet(r)
    <3>1. CASE j < k
      <4>1. j \in 1..(Len(q) - 1) /\ r[j] = q[j]  BY <1>1, <1>6, <3>1
      <4> QED  BY <1>7, <4>1 DEF ToSet
    <3>2. CASE ~(j < k)
      <4>1. j - 1 \in 1..(Len(q) - 1) /\ r[j - 1] = q[j]  BY <1>1, <1>6, <2>2, <3>2
      <4> QED  BY <1>7, <4>1 DEF ToSet
    <3> QED  BY <3>1, <3>2
  <2> QED  BY <1>1, <1>7, <2>1, <2>2 DEF ToSet
<1> QED  BY <1>5, <1>8, <1>9, <1>10 DEF r

\* Taking the last element off (the return of a nested call).
LEMMA QueueFront ==
  ASSUME NEW S, NEW q \in Seq(S), q # <<>>
  PROVE  /\ Last(q) \in ToSet(q)
         /\ Front(q) \in Seq(S)
         /\ IsInjective(q) => /\ IsInjective(Front(q))
                              /\ ToSet(Front(q)) = ToSet(q) \ {Last(q)}
<1> DEFINE t == Front(q)
           m == Len(q) - 1
<1>1. Len(q) \in Nat \ {0} /\ DOMAIN q = 1..Len(q)  BY LenProperties, EmptySeq
<1>2. t \in Seq(S) /\ Len(t) = m /\ \A i \in 1..m : t[i] = q[i]
  BY <1>1, SubSeqProperties DEF Front
<1>3. DOMAIN t = 1..m /\ Last(q) = q[Len(q)]  BY <1>2, LenProperties DEF Last
<1> HIDE DEF t
<1>4. Last(q) \in ToSet(q)  BY <1>1, <1>3 DEF ToSet
<1>5. IsInjective(q) => IsInjective(t)  BY <1>1, <1>2, <1>3 DEF IsInjective
<1>6. ASSUME IsInjective(q) PROVE ToSet(t) = ToSet(q) \ {Last(q)}
  <2>1. ASSUME NEW i \in 1..m PROVE t[i] \in ToSet(q) \ {Last(q)}
    BY <1>1, <1>2, <1>3, <1>6 DEF IsInjective, ToSet
  <2>2. ASSUME NEW i \in 1..Len(q), q[i] # Last(q) PROVE q[i] \in ToSet(t)
    <3>1. i \in 1..m /\ t[i] = q[i]  BY <1>1, <1>2, <1>3, <2>2
    <3> QED  BY <1>3, <3>1 DEF ToSet
  <2> QED  BY <1>1, <1>3, <2>1, <2>2 DEF ToSet
<1> QED  BY <1>2, <1>4, <1>5, <1>6 DEF t

-----------------------------------------------------------------------------
(* The inductive invariant *)

\* thread_pool_free has begun exactly when `stopping` is set, and then the pool
\* has no requests, no backlog of threads and no bottom half that would add one.
FreeingRight ==
  /\ stopping => at \in {"free_wait", "free_woken", "no_pool"}
  /\ at \in {"free_wait", "free_woken"} =>
       /\ stopping /\ head = {} /\ stack = <<>>
       /\ threads.new = 0 /\ ~new_thread_bh

\* request_list holds requests that are queued and not completed, each once.
ListRight ==
  /\ IsInjective(request_list)
  /\ \A r \in ToSet(request_list) : r \in head /\ state[r] = "queued"

\* A request whose completion function runs is done, is out of pool->head, and
\* runs it once.
StackRight ==
  /\ IsInjective(stack)
  /\ \A r \in ToSet(stack) : r \notin head /\ state[r] = "done"

IInv ==
  /\ PoolConsistent /\ FreeingRight
  /\ RequestsAccounted /\ ListRight /\ StackRight /\ NoCompletionLost

-----------------------------------------------------------------------------
(* Counting workers *)

Locations == {"none", "created", "run", "done"} \cup Idle
Live == {"created", "run", "done"} \cup Idle
Counters == [cur : Nat, idle : Nat, new : Nat, pending : Nat]

\* How many workers are in L, and what one of them adds to that.
Count(f, L) == Cardinality({v \in Workers : f[v] \in L})
One(l, L) == IF l \in L THEN 1 ELSE 0

\* The counters ts are those of workers that are where f says.
Agree(ts, f) ==
  /\ ts.cur = ts.new + Count(f, Live)
  /\ ts.pending = Count(f, {"created"})
  /\ ts.idle = Count(f, Idle)
  /\ ts.cur <= max_threads

\* A count is a natural number, and 0 only when there is nobody to count.
LEMMA CountNat ==
  ASSUME NEW f, NEW L
  PROVE  /\ Count(f, L) \in Nat
         /\ Count(f, L) = 0 <=> \A v \in Workers : f[v] \notin L
<1> DEFINE C == {v \in Workers : f[v] \in L}
<1>1. IsFiniteSet(C)  BY WorkersAssumption, FS_Subset
<1>2. Cardinality(C) \in Nat /\ (Cardinality(C) = 0 <=> C = {})
  BY <1>1, FS_CardinalityType, FS_EmptySet
<1> QED  BY <1>2 DEF Count

\* What the move of one worker does to a count.
LEMMA CountMove ==
  ASSUME NEW f \in [Workers -> Locations], NEW w \in Workers, NEW l \in Locations, NEW L
  PROVE  Count([f EXCEPT ![w] = l], L) = Count(f, L) + One(l, L) - One(f[w], L)
<1> DEFINE g == [f EXCEPT ![w] = l]
           C == {v \in Workers : f[v] \in L}
           D == {v \in Workers : g[v] \in L}
           R == {v \in Workers \ {w} : f[v] \in L}
<1>1. IsFiniteSet(R)  BY WorkersAssumption, FS_Subset
<1>2. Cardinality(R) \in Nat /\ w \notin R  BY <1>1, FS_CardinalityType
<1>3. Cardinality(R \cup {w}) = Cardinality(R) + 1  BY <1>1, <1>2, FS_AddElement
<1>4. C = IF f[w] \in L THEN R \cup {w} ELSE R  OBVIOUS
<1>5. D = IF l \in L THEN R \cup {w} ELSE R  OBVIOUS
<1>6. Cardinality(C) = Cardinality(R) + One(f[w], L)  BY <1>2, <1>3, <1>4 DEF One
<1>7. Cardinality(D) = Cardinality(R) + One(l, L)
  <2>1. CASE l \in L  BY <1>2, <1>3, <1>5, <2>1 DEF One
  <2>2. CASE l \notin L  BY <1>2, <1>5, <2>2 DEF One
  <2> QED  BY <2>1, <2>2
<1>8. One(l, L) \in Int /\ One(f[w], L) \in Int  BY DEF One
<1> HIDE DEF C, D, R
<1>9. Cardinality(D) = Cardinality(C) + One(l, L) - One(f[w], L)
  BY <1>2, <1>6, <1>7, <1>8
<1> QED  BY <1>9 DEF C, D, Count

\* Counters that follow the move of a worker agree again.
LEMMA AgreeMove ==
  ASSUME NEW ts \in Counters, NEW f \in [Workers -> Locations], Agree(ts, f),
         NEW w \in Workers, NEW l \in Locations,
         NEW us \in [cur : Int, idle : Int, new : Int, pending : Int],
         us.new \in Nat, us.cur <= max_threads,
         us.cur - us.new = ts.cur - ts.new + One(l, Live) - One(f[w], Live),
         us.pending = ts.pending + One(l, {"created"}) - One(f[w], {"created"}),
         us.idle = ts.idle + One(l, Idle) - One(f[w], Idle)
  PROVE  us \in Counters /\ Agree(us, [f EXCEPT ![w] = l])
<1> DEFINE g == [f EXCEPT ![w] = l]
<1>1. /\ Count(g, Live) = Count(f, Live) + One(l, Live) - One(f[w], Live)
      /\ Count(g, {"created"})
           = Count(f, {"created"}) + One(l, {"created"}) - One(f[w], {"created"})
      /\ Count(g, Idle) = Count(f, Idle) + One(l, Idle) - One(f[w], Idle)
  BY CountMove
<1>2. \A L : Count(f, L) \in Nat /\ Count(g, L) \in Nat  BY CountNat
<1>3. \A x, L : One(x, L) \in Int  BY DEF One
<1> HIDE DEF g
<1>4. us.cur \in Int /\ us.pending \in Int /\ us.idle \in Int /\ us.new \in Int
      /\ ts.cur \in Int /\ ts.pending \in Int /\ ts.idle \in Int /\ ts.new \in Int
  BY DEF Counters
<1>5. us.pending = Count(g, {"created"}) /\ us.idle = Count(g, Idle)
  BY <1>1, <1>4 DEF Agree
<1>6. us.cur = us.new + Count(g, Live)
  <2>1. ts.cur - ts.new = Count(f, Live)  BY <1>2, <1>4 DEF Agree
  <2>2. us.cur - us.new = Count(g, Live)  BY <1>1, <2>1
  <2> QED  BY <1>2, <1>4, <2>2
<1>7. us.cur \in Nat /\ us.pending \in Nat /\ us.idle \in Nat
  BY <1>2, <1>4, <1>5, <1>6
<1>8. us \in Counters  BY <1>7 DEF Counters
<1> QED  BY <1>5, <1>6, <1>8 DEF Agree, g

\* ThreadsAccounted in terms of Agree.
LEMMA AgreeDef ==
  /\ TypeOK => threads \in Counters /\ wpc \in [Workers -> Locations]
  /\ ThreadsAccounted <=> (at # "no_pool" => Agree(threads, wpc))
BY DEF TypeOK, Counters, Locations, ThreadsAccounted, Agree, Count, In, Live

LEMMA AgreeDefNext ==
  (ThreadsAccounted <=> (at # "no_pool" => Agree(threads, wpc)))'
BY AgreeDef, PTL

-----------------------------------------------------------------------------
(* Steps that leave a part of the pool alone *)

\* There are workers only while there is a pool.
LEMMA WorkerMeansPool ==
  ASSUME IInv, NEW w \in Workers, wpc[w] # "none"
  PROVE  at # "no_pool" /\ Agree(threads, wpc) /\ threads \in Counters
         /\ wpc \in [Workers -> Locations]
BY AgreeDef DEF IInv, PoolConsistent, FreedPoolIsUnused

\* The bookkeeping of threads, in a step between two states of a pool in use
\* that does not touch it.
LEMMA QuietThreads ==
  ASSUME IInv, UNCHANGED <<threads, wpc, stopping, new_thread_bh>>,
         at \in {"user", "scan", "post"}, at' \in {"user", "scan", "post"}
  PROVE  /\ ThreadsAccounted' /\ BacklogHasSpawner' /\ FreedPoolIsUnused'
         /\ FreeingRight' /\ ~stopping /\ In({"got"})' = In({"got"})
<1>1. ~stopping  BY DEF IInv, FreeingRight
<1>2. ThreadsAccounted'
  BY AgreeDef, AgreeDefNext DEF IInv, PoolConsistent
<1>3. BacklogHasSpawner'  BY DEF IInv, PoolConsistent, BacklogHasSpawner
<1>4. FreedPoolIsUnused' /\ FreeingRight'  BY <1>1 DEF FreedPoolIsUnused, FreeingRight
<1> QED  BY <1>1, <1>2, <1>3, <1>4 DEF In

\* The bookkeeping of requests, in a step that does not touch it.
LEMMA QuietRequests ==
  ASSUME IInv, UNCHANGED <<state, head, request_list, rest, stack, req, completion_bh>>,
         In({"run"})' = In({"run"}), In({"done"})' = In({"done"}),
         at = "scan" => at' = "scan"
  PROVE  WorkerOwnsRequest' /\ ListRight' /\ StackRight' /\ NoCompletionLost'
<1> USE DEF IInv, RequestsAccounted
<1>1. WorkerOwnsRequest'  BY DEF WorkerOwnsRequest
<1>2. ListRight' /\ StackRight'  BY DEF ListRight, StackRight
<1>3. NoCompletionLost'  BY DEF NoCompletionLost
<1> QED  BY <1>1, <1>2, <1>3

\* A worker moves, and its move changes neither who executes a request nor who
\* is about to announce one.
LEMMA QuietMove ==
  ASSUME IInv, NEW w \in Workers, NEW l \in Locations,
         wpc' = [wpc EXCEPT ![w] = l],
         wpc[w] \notin {"run", "done"}, l \notin {"run", "done"}
  PROVE  In({"run"})' = In({"run"}) /\ In({"done"})' = In({"done"})
BY DEF IInv, PoolConsistent, TypeOK, In

\* The tokens that workers hold, after a worker has moved.
LEMMA GotMove ==
  ASSUME IInv, NEW w \in Workers, NEW l \in Locations, wpc' = [wpc EXCEPT ![w] = l]
  PROVE  /\ Cardinality(In({"got"})) \in Nat
         /\ Cardinality(In({"got"})')
              = Cardinality(In({"got"})) + One(l, {"got"}) - One(wpc[w], {"got"})
<1>1. wpc \in [Workers -> Locations]  BY AgreeDef DEF IInv, PoolConsistent
<1>2. Cardinality(In({"got"})) = Count(wpc, {"got"})  BY DEF In, Count
<1>3. Cardinality(In({"got"})') = Count(wpc', {"got"})  BY DEF In, Count
<1>4. Count(wpc', {"got"})
        = Count(wpc, {"got"}) + One(l, {"got"}) - One(wpc[w], {"got"})
  BY <1>1, CountMove
<1> QED  BY <1>2, <1>3, <1>4, CountNat

\* The end of a worker's thread, from a location where it has the counters ts.
LEMMA ThreadEnds ==
  ASSUME IInv, NEW w \in Workers, wpc[w] # "none",
         NEW ts \in [cur : Int, idle : Int, new : Int, pending : Int],
         ts.cur = threads.cur, ts.new = threads.new,
         ts.pending = threads.pending - One(wpc[w], {"created"}),
         ts.idle = threads.idle - One(wpc[w], Idle),
         EndThread(w, ts),
         stopping \/ wpc[w] # "created",
         UNCHANGED <<head, request_list, stopping, new_thread_bh, stack>>
  PROVE  /\ threads' \in Counters /\ wpc' \in [Workers -> Locations]
         /\ at' \in {"user", "scan", "post", "free_woken", "free_wait"}
         /\ ThreadsAccounted' /\ BacklogHasSpawner' /\ FreedPoolIsUnused' /\ FreeingRight'
         /\ at = "scan" => at' = "scan"
         /\ at' = "post" <=> at = "post"
<1> USE DEF EndThread
<1>0. /\ at # "no_pool" /\ Agree(threads, wpc) /\ threads \in Counters
      /\ wpc \in [Workers -> Locations]
  BY WorkerMeansPool
<1>1. /\ at' \in {"user", "scan", "post", "free_woken", "free_wait"}
      /\ at = "scan" => at' = "scan"
      /\ at' = "post" <=> at = "post"
      /\ at' \in {"free_wait", "free_woken"} <=> at \in {"free_wait", "free_woken"}
  BY <1>0 DEF SignalStopped, IInv, PoolConsistent, TypeOK
<1>2. threads' \in [cur : Int, idle : Int, new : Int, pending : Int]
      /\ threads'.cur = threads.cur - 1 /\ threads'.new = threads.new
      /\ threads'.pending = ts.pending /\ threads'.idle = ts.idle
  BY <1>0 DEF Counters
<1>3. wpc[w] \in Live /\ "none" \in Locations /\ One("none", Live) = 0 /\ One(wpc[w], Live) = 1
      /\ One("none", {"created"}) = 0 /\ One("none", Idle) = 0
  BY <1>0 DEF Live, Locations, One, Idle
<1>4. threads.cur \in Nat /\ threads.new \in Nat /\ threads.cur <= max_threads
      /\ max_threads \in Nat
      /\ threads.pending \in Nat /\ threads.idle \in Nat
  BY <1>0, WorkersAssumption DEF Counters, Agree
<1>5. \A x, L : One(x, L) \in Int  BY DEF One
<1>6. /\ threads'.cur - threads'.new
           = threads.cur - threads.new + One("none", Live) - One(wpc[w], Live)
      /\ threads'.pending
           = threads.pending + One("none", {"created"}) - One(wpc[w], {"created"})
      /\ threads'.idle = threads.idle + One("none", Idle) - One(wpc[w], Idle)
      /\ threads'.new \in Nat /\ threads'.cur <= max_threads
  BY <1>2, <1>3, <1>4, <1>5
<1>7. threads' \in Counters /\ Agree(threads', wpc')
  BY <1>0, <1>2, <1>3, <1>6, AgreeMove
<1>8. ThreadsAccounted'  BY <1>7, AgreeDefNext
<1>9. BacklogHasSpawner'
  BY <1>2, <1>4 DEF IInv, PoolConsistent, BacklogHasSpawner, One
<1>10. FreedPoolIsUnused'  BY <1>1 DEF FreedPoolIsUnused
<1>11. FreeingRight'  BY <1>0, <1>1, <1>2 DEF IInv, FreeingRight
<1>12. wpc' \in [Workers -> Locations]  BY <1>0, <1>3
<1> QED  BY <1>1, <1>7, <1>8, <1>9, <1>10, <1>11, <1>12

\* A worker's thread goes on elsewhere, with the counters to match.
LEMMA ThreadMoves ==
  ASSUME IInv, NEW w \in Workers, wpc[w] \in Live \ {"created"},
         NEW l \in Live \ {"created"},
         wpc' = [wpc EXCEPT ![w] = l],
         threads' = [threads EXCEPT !.idle = @ + One(l, Idle) - One(wpc[w], Idle)],
         UNCHANGED <<head, request_list, stopping, new_thread_bh, at, stack>>
         \/ (~stopping /\ UNCHANGED <<stopping, new_thread_bh, at>>)
  PROVE  /\ threads' \in Counters /\ wpc' \in [Workers -> Locations]
         /\ ThreadsAccounted' /\ BacklogHasSpawner' /\ FreedPoolIsUnused' /\ FreeingRight'
<1>0. /\ at # "no_pool" /\ Agree(threads, wpc) /\ threads \in Counters
      /\ wpc \in [Workers -> Locations]
  BY WorkerMeansPool DEF Live, Idle
<1>1. \A x, L : One(x, L) \in Int  BY DEF One
<1>2. threads' \in [cur : Int, idle : Int, new : Int, pending : Int]
      /\ threads'.cur = threads.cur /\ threads'.new = threads.new
      /\ threads'.pending = threads.pending
      /\ threads'.idle = threads.idle + One(l, Idle) - One(wpc[w], Idle)
  BY <1>0, <1>1 DEF Counters
<1>3. /\ l \in Locations /\ One(l, Live) = 1 /\ One(wpc[w], Live) = 1
      /\ One(l, {"created"}) = 0 /\ One(wpc[w], {"created"}) = 0
  BY DEF Live, Locations, One
<1>4. threads.cur \in Nat /\ threads.new \in Nat /\ threads.cur <= max_threads
      /\ threads.pending \in Nat
  BY <1>0 DEF Counters, Agree
<1>5. /\ threads'.cur - threads'.new
           = threads.cur - threads.new + One(l, Live) - One(wpc[w], Live)
      /\ threads'.pending
           = threads.pending + One(l, {"created"}) - One(wpc[w], {"created"})
      /\ threads'.new \in Nat /\ threads'.cur <= max_threads
  BY <1>2, <1>3, <1>4
<1>6. threads' \in Counters /\ Agree(threads', wpc')
  BY <1>0, <1>2, <1>3, <1>5, AgreeMove
<1>7. ThreadsAccounted'  BY <1>6, AgreeDefNext
<1>8. BacklogHasSpawner'
  BY <1>2 DEF IInv, PoolConsistent, BacklogHasSpawner
<1>9. FreedPoolIsUnused'  BY <1>0 DEF FreedPoolIsUnused
<1>10. FreeingRight'  BY <1>2 DEF IInv, FreeingRight
<1>11. wpc' \in [Workers -> Locations]  BY <1>0, <1>3
<1> QED  BY <1>6, <1>7, <1>8, <1>9, <1>10, <1>11

\* do_spawn_thread on a backlog, given counters and locations that agree.
LEMMA Spawns ==
  ASSUME NEW ts \in Counters, NEW f \in [Workers -> Locations], Agree(ts, f),
         ts.new > 0, NEW v \in Workers, f[v] = "none"
  PROVE  LET us == [ts EXCEPT !.new = @ - 1, !.pending = @ + 1]
             g == [f EXCEPT ![v] = "created"]
         IN us \in Counters /\ Agree(us, g) /\ us.pending > 0
            /\ g \in [Workers -> Locations]
<1> DEFINE us == [ts EXCEPT !.new = @ - 1, !.pending = @ + 1]
           g == [f EXCEPT ![v] = "created"]
<1>1. ts.cur \in Nat /\ ts.new \in Nat /\ ts.pending \in Nat /\ ts.idle \in Nat
  BY DEF Counters
<1>2. /\ us \in [cur : Int, idle : Int, new : Int, pending : Int]
      /\ us.new = ts.new - 1 /\ us.pending = ts.pending + 1
      /\ us.idle = ts.idle /\ us.cur = ts.cur
  <2> DEFINE ts1 == [ts EXCEPT !.new = @ - 1]
  <2>1. ts1 \in [cur : Int, idle : Int, new : Int, pending : Int]
        /\ ts1.new = ts.new - 1 /\ ts1.pending = ts.pending
        /\ ts1.idle = ts.idle /\ ts1.cur = ts.cur
    BY <1>1 DEF Counters
  <2>2. us = [ts1 EXCEPT !.pending = @ + 1]  OBVIOUS
  <2> HIDE DEF ts1, us
  <2>3. ts1.pending + 1 \in Int  BY <1>1, <2>1
  <2> QED  BY <2>1, <2>2, <2>3
<1>3. /\ One("created", Live) = 1 /\ One("none", Live) = 0
      /\ One("created", {"created"}) = 1 /\ One("none", {"created"}) = 0
      /\ One("created", Idle) = 0 /\ One("none", Idle) = 0
      /\ "created" \in Locations
  BY DEF One, Live, Idle, Locations
<1> HIDE DEF us
<1>4. /\ us.new \in Nat /\ us.cur <= max_threads
      /\ us.cur - us.new = ts.cur - ts.new + One("created", Live) - One(f[v], Live)
      /\ us.pending = ts.pending + One("created", {"created"}) - One(f[v], {"created"})
      /\ us.idle = ts.idle + One("created", Idle) - One(f[v], Idle)
  BY <1>1, <1>2, <1>3 DEF Agree
<1>5. us \in Counters /\ Agree(us, g)  BY <1>2, <1>3, <1>4, AgreeMove
<1>6. g \in [Workers -> Locations] /\ us.pending > 0  BY <1>1, <1>2, <1>3
<1> QED  BY <1>5, <1>6 DEF us

-----------------------------------------------------------------------------
(* One lemma per action *)

LEMMA InitIInv == Init => IInv
<1> SUFFICES ASSUME Init PROVE IInv  OBVIOUS
<1> USE DEF Init
<1>1. TypeOK
  BY EmptySeq, RequestsAssumption DEF TypeOK, InitialThreads, Idle
<1>2. PoolConsistent
  BY <1>1 DEF PoolConsistent, ThreadsAccounted, BacklogHasSpawner, FreedPoolIsUnused,
              InitialThreads
<1>3. RequestsAccounted
  BY DEF RequestsAccounted, TokensMatchRequests, WorkerOwnsRequest, In
<1>4. ListRight /\ StackRight  BY DEF ListRight, StackRight, IsInjective, ToSet
<1> QED  BY <1>2, <1>3, <1>4 DEF IInv, FreeingRight, NoCompletionLost

\* The bottom half creates a thread of the backlog, if there is one left.
LEMMA Step_spawn_thread_bh_fn ==
  ASSUME IInv, spawn_thread_bh_fn
  PROVE  IInv'
<1> USE DEF spawn_thread_bh_fn, do_spawn_thread, homeVars
<1>0. /\ ~stopping /\ Agree(threads, wpc) /\ threads \in Counters
      /\ wpc \in [Workers -> Locations]
  BY AgreeDef DEF IInv, FreeingRight, PoolConsistent
<1>1. /\ threads' \in Counters /\ Agree(threads', wpc') /\ wpc' \in [Workers -> Locations]
      /\ threads'.new > 0 => threads'.pending > 0
      /\ In({"run"})' = In({"run"}) /\ In({"done"})' = In({"done"})
      /\ In({"got"})' = In({"got"})
  <2>1. CASE threads.new = 0  BY <1>0, <2>1 DEF In
  <2>2. CASE threads.new # 0
    <3>1. PICK w \in Workers : wpc[w] = "none" /\ wpc' = [wpc EXCEPT ![w] = "created"]
      BY <2>2
    <3>2. threads.new > 0  BY <1>0, <2>2 DEF Counters
    <3>3. threads' = [threads EXCEPT !.new = @ - 1, !.pending = @ + 1]  BY <2>2
    <3>4. /\ threads' \in Counters /\ Agree(threads', wpc') /\ threads'.pending > 0
          /\ wpc' \in [Workers -> Locations]
      BY <1>0, <3>1, <3>2, <3>3, Spawns
    <3> QED  BY <1>0, <3>1, <3>4 DEF In
  <2> QED  BY <2>1, <2>2
<1>2. TypeOK'  BY <1>1 DEF IInv, PoolConsistent, TypeOK, Counters, Locations
<1>3. ThreadsAccounted'  BY <1>1, AgreeDefNext
<1>4. BacklogHasSpawner'  BY <1>1 DEF BacklogHasSpawner
<1>5. FreedPoolIsUnused' /\ FreeingRight'  BY <1>0 DEF FreedPoolIsUnused, FreeingRight
<1>6. TokensMatchRequests'
  BY <1>0, <1>1 DEF IInv, RequestsAccounted, TokensMatchRequests
<1>7. WorkerOwnsRequest' /\ ListRight' /\ StackRight' /\ NoCompletionLost'
  BY <1>1, QuietRequests
<1> QED
  BY <1>2, <1>3, <1>4, <1>5, <1>6, <1>7 DEF IInv, PoolConsistent, RequestsAccounted

\* A thread begins, and creates the next one of the backlog in its turn.
LEMMA Step_worker_thread ==
  ASSUME IInv, NEW w \in Workers, worker_thread(w)
  PROVE  IInv'
<1> USE DEF worker_thread, bhVars
<1>0. /\ at # "no_pool" /\ Agree(threads, wpc) /\ threads \in Counters
      /\ wpc \in [Workers -> Locations] /\ wpc[w] = "created"
  BY WorkerMeansPool
<1> DEFINE ts == [threads EXCEPT !.pending = @ - 1]
<1>1. /\ ts \in [cur : Int, idle : Int, new : Int, pending : Int]
      /\ ts.cur = threads.cur /\ ts.new = threads.new
      /\ ts.pending = threads.pending - 1 /\ ts.idle = threads.idle
  BY <1>0 DEF Counters
<1>2. /\ One(wpc[w], {"created"}) = 1 /\ One(wpc[w], Idle) = 0 /\ One(wpc[w], Live) = 1
      /\ One("sem", {"created"}) = 0 /\ One("sem", Idle) = 1 /\ One("sem", Live) = 1
      /\ One("sem", {"got"}) = 0 /\ One("none", {"got"}) = 0 /\ One(wpc[w], {"got"}) = 0
      /\ "sem" \in Locations /\ "none" \in Locations
  BY <1>0 DEF One, Idle, Live, Locations
<1>3. threads.cur \in Nat /\ threads.new \in Nat /\ threads.pending \in Nat
      /\ threads.idle \in Nat
  BY <1>0 DEF Counters
<1>a. CASE stopping
  <2>1. EndThread(w, ts)  BY <1>a
  <2> HIDE DEF ts
  <2>2. ts.pending = threads.pending - One(wpc[w], {"created"})
        /\ ts.idle = threads.idle - One(wpc[w], Idle)
    BY <1>1, <1>2, <1>3
  <2>3. /\ threads' \in Counters /\ wpc' \in [Workers -> Locations]
        /\ at' \in {"user", "scan", "post", "free_woken", "free_wait"}
        /\ ThreadsAccounted' /\ BacklogHasSpawner' /\ FreedPoolIsUnused' /\ FreeingRight'
        /\ at = "scan" => at' = "scan"
    BY <1>0, <1>1, <1>a, <2>1, <2>2, ThreadEnds
  <2>4. TypeOK'  BY <2>3 DEF IInv, PoolConsistent, TypeOK, Counters, Locations
  <2>5. TokensMatchRequests'  BY <1>a DEF TokensMatchRequests
  <2>6. WorkerOwnsRequest' /\ ListRight' /\ StackRight' /\ NoCompletionLost'
    <3>1. In({"run"})' = In({"run"}) /\ In({"done"})' = In({"done"})
      BY <1>0, <1>2, <2>1, QuietMove DEF EndThread
    <3> QED  BY <2>3, <3>1, QuietRequests
  <2> QED  BY <2>3, <2>4, <2>5, <2>6 DEF IInv, PoolConsistent, RequestsAccounted
<1>b. CASE ~stopping
  <2> DEFINE us == [ts EXCEPT !.idle = @ + 1]
             f == [wpc EXCEPT ![w] = "sem"]
  <2>1. do_spawn_thread(us, f) /\ UNCHANGED at  BY <1>b
  <2>2. us \in Counters /\ Agree(us, f) /\ f \in [Workers -> Locations]
        /\ us.new = threads.new
    <3> HIDE DEF ts
    <3>1. /\ us \in [cur : Int, idle : Int, new : Int, pending : Int]
          /\ us.cur = threads.cur /\ us.new = threads.new
          /\ us.pending = threads.pending - 1 /\ us.idle = threads.idle + 1
      BY <1>1, <1>3
    <3> HIDE DEF us
    <3>2. /\ us.new \in Nat /\ us.cur <= max_threads
          /\ us.cur - us.new = threads.cur - threads.new + One("sem", Live) - One(wpc[w], Live)
          /\ us.pending = threads.pending + One("sem", {"created"}) - One(wpc[w], {"created"})
          /\ us.idle = threads.idle + One("sem", Idle) - One(wpc[w], Idle)
      BY <1>0, <1>2, <1>3, <3>1 DEF Agree
    <3>3. us \in Counters /\ Agree(us, f)  BY <1>0, <1>2, <3>1, <3>2, AgreeMove
    <3> QED  BY <1>0, <1>2, <3>1, <3>3
  <2> HIDE DEF us
  <2>3. /\ threads' \in Counters /\ Agree(threads', wpc') /\ wpc' \in [Workers -> Locations]
        /\ threads'.new > 0 => threads'.pending > 0
        /\ In({"run"})' = In({"run"}) /\ In({"done"})' = In({"done"})
        /\ In({"got"})' = In({"got"})
    <3>1. CASE us.new = 0
      <4>1. threads' = us /\ wpc' = f  BY <2>1, <3>1 DEF do_spawn_thread
      <4> QED  BY <1>0, <2>2, <3>1, <4>1 DEF In
    <3>2. CASE us.new # 0
      <4>1. PICK v \in Workers : f[v] = "none" /\ wpc' = [f EXCEPT ![v] = "created"]
        BY <2>1, <3>2 DEF do_spawn_thread
      <4>2. us.new > 0  BY <2>2, <3>2 DEF Counters
      <4>3. threads' = [us EXCEPT !.new = @ - 1, !.pending = @ + 1]
        BY <2>1, <3>2 DEF do_spawn_thread
      <4>4. /\ threads' \in Counters /\ Agree(threads', wpc') /\ threads'.pending > 0
            /\ wpc' \in [Workers -> Locations]
        BY <2>2, <4>1, <4>2, <4>3, Spawns
      <4>5. \A x \in Workers : x # w /\ x # v => wpc'[x] = wpc[x]
        BY <1>0, <4>1
      <4>6. v # w /\ wpc[v] = "none" /\ wpc'[v] = "created" /\ wpc'[w] = "sem"
        BY <1>0, <4>1
      <4> QED  BY <1>0, <4>4, <4>5, <4>6 DEF In
    <3> QED  BY <3>1, <3>2
  <2>4. TypeOK'  BY <2>1, <2>3 DEF IInv, PoolConsistent, TypeOK, Counters, Locations
  <2>5. ThreadsAccounted'  BY <2>3, AgreeDefNext
  <2>6. BacklogHasSpawner'  BY <2>3 DEF BacklogHasSpawner
  <2>7. FreedPoolIsUnused' /\ FreeingRight'
    BY <1>0, <1>b, <2>1 DEF FreedPoolIsUnused, FreeingRight, IInv
  <2>8. TokensMatchRequests'
    BY <1>0, <1>b, <2>1, <2>3 DEF IInv, RequestsAccounted, TokensMatchRequests
  <2>9. WorkerOwnsRequest' /\ ListRight' /\ StackRight' /\ NoCompletionLost'
    BY <2>1, <2>3, QuietRequests
  <2> QED
    BY <2>4, <2>5, <2>6, <2>7, <2>8, <2>9 DEF IInv, PoolConsistent, RequestsAccounted
<1> QED  BY <1>a, <1>b

\* A step of an idle worker that stays idle: only a token may change hands.
LEMMA IdleMoves ==
  ASSUME IInv, NEW w \in Workers, wpc[w] \in Idle, NEW l \in Idle,
         wpc' = [wpc EXCEPT ![w] = l], sem' \in Nat,
         sem' + One(l, {"got"}) = sem + One(wpc[w], {"got"}),
         UNCHANGED <<state, head, request_list, threads, stopping, bhVars, homeVars, req>>
  PROVE  IInv'
<1> USE DEF bhVars, homeVars
<1>0. /\ at # "no_pool" /\ Agree(threads, wpc) /\ threads \in Counters
      /\ wpc \in [Workers -> Locations]
  BY WorkerMeansPool DEF Idle
<1>1. l \in Live \ {"created"} /\ wpc[w] \in Live \ {"created"} /\ l \in Locations
      /\ One(l, Idle) = 1 /\ One(wpc[w], Idle) = 1
      /\ wpc[w] \notin {"run", "done"} /\ l \notin {"run", "done"}
  BY DEF Live, Idle, Locations, One
<1>2. threads' = [threads EXCEPT !.idle = @ + One(l, Idle) - One(wpc[w], Idle)]
  BY <1>0, <1>1 DEF Counters
<1>3. /\ threads' \in Counters /\ wpc' \in [Workers -> Locations]
      /\ ThreadsAccounted' /\ BacklogHasSpawner' /\ FreedPoolIsUnused' /\ FreeingRight'
  BY <1>1, <1>2, ThreadMoves
<1>4. TypeOK'  BY <1>3 DEF IInv, PoolConsistent, TypeOK, Counters, Locations
<1>5. TokensMatchRequests'
  <2>1. /\ Cardinality(In({"got"})) \in Nat
        /\ Cardinality(In({"got"})')
             = Cardinality(In({"got"})) + One(l, {"got"}) - One(wpc[w], {"got"})
    BY <1>1, GotMove
  <2>2. \A x, L : One(x, L) \in Int  BY DEF One
  <2>3. sem \in Nat  BY DEF IInv, PoolConsistent, TypeOK
  <2>4. sem' + Cardinality(In({"got"})') = sem + Cardinality(In({"got"}))
    BY <2>1, <2>2, <2>3
  <2>5. Cardinality(In({"got"})') \in Int  BY <2>1, <2>2
  <2> DEFINE post == IF at = "post" THEN 1 ELSE 0
  <2>6. sem' + post + Cardinality(In({"got"})') = sem + post + Cardinality(In({"got"}))
    BY <2>1, <2>3, <2>4, <2>5
  <2> QED
    BY <2>6 DEF IInv, RequestsAccounted, TokensMatchRequests
<1>6. WorkerOwnsRequest' /\ ListRight' /\ StackRight' /\ NoCompletionLost'
  <2>1. In({"run"})' = In({"run"}) /\ In({"done"})' = In({"done"})  BY <1>1, QuietMove
  <2> QED  BY <2>1, QuietRequests
<1> QED  BY <1>3, <1>4, <1>5, <1>6 DEF IInv, PoolConsistent, RequestsAccounted

LEMMA Step_TakeToken ==
  ASSUME IInv, NEW w \in Workers, TakeToken(w)
  PROVE  IInv'
<1>1. wpc[w] \in Idle /\ "got" \in Idle /\ sem' \in Nat
      /\ sem' + One("got", {"got"}) = sem + One(wpc[w], {"got"})
  BY DEF TakeToken, IInv, PoolConsistent, TypeOK, Idle, One
<1> QED  BY <1>1, IdleMoves DEF TakeToken

LEMMA Step_SemBlock ==
  ASSUME IInv, NEW w \in Workers, SemBlock(w)
  PROVE  IInv'
<1>1. wpc[w] \in Idle /\ "blocked" \in Idle /\ sem' \in Nat
      /\ sem' + One("blocked", {"got"}) = sem + One(wpc[w], {"got"})
  BY DEF SemBlock, IInv, PoolConsistent, TypeOK, Idle, One
<1> QED  BY <1>1, IdleMoves DEF SemBlock

LEMMA Step_SemTimeout ==
  ASSUME IInv, NEW w \in Workers, SemTimeout(w)
  PROVE  IInv'
<1>1. wpc[w] \in Idle /\ "timeout" \in Idle /\ sem' \in Nat
      /\ sem' + One("timeout", {"got"}) = sem + One(wpc[w], {"got"})
  BY DEF SemTimeout, IInv, PoolConsistent, TypeOK, Idle, One
<1> QED  BY <1>1, IdleMoves DEF SemTimeout

\* An idle worker's thread ends, without a token or when the pool is freed.
LEMMA IdleEnds ==
  ASSUME IInv, NEW w \in Workers, wpc[w] \in Idle,
         EndThread(w, [threads EXCEPT !.idle = @ - 1]),
         stopping \/ wpc[w] # "got",
         UNCHANGED <<state, head, request_list, sem, stopping, bhVars, rest, stack, req>>
  PROVE  IInv'
<1> USE DEF bhVars
<1> DEFINE ts == [threads EXCEPT !.idle = @ - 1]
<1>0. /\ at # "no_pool" /\ Agree(threads, wpc) /\ threads \in Counters
      /\ wpc \in [Workers -> Locations] /\ wpc[w] # "none" /\ wpc[w] # "created"
  BY WorkerMeansPool DEF Idle
<1>1. /\ ts \in [cur : Int, idle : Int, new : Int, pending : Int]
      /\ ts.cur = threads.cur /\ ts.new = threads.new
      /\ ts.pending = threads.pending /\ ts.idle = threads.idle - 1
  BY <1>0 DEF Counters
<1>2. One(wpc[w], {"created"}) = 0 /\ One(wpc[w], Idle) = 1  BY <1>0 DEF One
<1> HIDE DEF ts
<1>3. ts.pending = threads.pending - One(wpc[w], {"created"})
      /\ ts.idle = threads.idle - One(wpc[w], Idle)
  BY <1>0, <1>1, <1>2 DEF Counters
<1>4. /\ threads' \in Counters /\ wpc' \in [Workers -> Locations]
      /\ at' \in {"user", "scan", "post", "free_woken", "free_wait"}
      /\ ThreadsAccounted' /\ BacklogHasSpawner' /\ FreedPoolIsUnused' /\ FreeingRight'
      /\ at = "scan" => at' = "scan"
      /\ at' = "post" <=> at = "post"
  BY <1>0, <1>1, <1>3, ThreadEnds DEF ts
<1>5. TypeOK'  BY <1>4 DEF IInv, PoolConsistent, TypeOK, Counters, Locations
<1>6. wpc' = [wpc EXCEPT ![w] = "none"] /\ "none" \in Locations
      /\ wpc[w] \notin {"run", "done"}
  BY DEF EndThread, Locations, Idle
<1>7. TokensMatchRequests'
  <2>1. ~stopping => In({"got"})' = In({"got"})  BY <1>0, <1>6 DEF In
  <2> QED  BY <1>0, <1>4, <2>1 DEF IInv, RequestsAccounted, TokensMatchRequests
<1>8. WorkerOwnsRequest' /\ ListRight' /\ StackRight' /\ NoCompletionLost'
  <2>1. In({"run"})' = In({"run"}) /\ In({"done"})' = In({"done"})  BY <1>6, QuietMove
  <2> QED  BY <1>4, <2>1, QuietRequests
<1> QED  BY <1>4, <1>5, <1>7, <1>8 DEF IInv, PoolConsistent, RequestsAccounted

LEMMA Step_TimedOut ==
  ASSUME IInv, NEW w \in Workers, TimedOut(w)
  PROVE  IInv'
<1> USE DEF TimedOut
<1>1. wpc[w] \in Idle /\ "sem" \in Idle /\ sem \in Nat
      /\ sem + One("sem", {"got"}) = sem + One(wpc[w], {"got"})
  BY DEF IInv, PoolConsistent, TypeOK, Idle, One
<1>2. CASE request_list # <<>>  BY <1>1, <1>2, IdleMoves DEF homeVars
<1>3. CASE request_list = <<>>
  BY <1>1, <1>3, IdleEnds
<1> QED  BY <1>2, <1>3

\* A token stands for a request, so a worker with a token finds one; it is
\* queued, hence nobody else executes it and nobody completes it.
LEMMA Step_TakeRequest ==
  ASSUME IInv, NEW w \in Workers, TakeRequest(w)
  PROVE  IInv'
<1> USE DEF TakeRequest, bhVars
<1>0. /\ at # "no_pool" /\ Agree(threads, wpc) /\ threads \in Counters
      /\ wpc \in [Workers -> Locations] /\ wpc[w] = "got" /\ wpc[w] \in Idle
  BY WorkerMeansPool DEF Idle
<1>a. CASE stopping
  <2>1. EndThread(w, [threads EXCEPT !.idle = @ - 1])
        /\ UNCHANGED <<state, head, request_list, sem, stopping, bhVars, rest, stack, req>>
    BY <1>a
  <2> QED  BY <1>0, <1>a, <2>1, IdleEnds
<1>b. CASE ~stopping
  <2> DEFINE r == Head(request_list)
  <2>1. /\ threads' = [threads EXCEPT !.idle = @ - 1]
        /\ req' = [req EXCEPT ![w] = r] /\ state' = [state EXCEPT ![r] = "active"]
        /\ request_list' = Tail(request_list)
        /\ wpc' = [wpc EXCEPT ![w] = "run"]
        /\ UNCHANGED <<at, head, sem, stopping, bhVars, rest, stack>>
    BY <1>b
  <2>2. request_list \in Seq(Requests) /\ sem \in Nat
    BY DEF IInv, PoolConsistent, TypeOK
  <2>3. "run" \in Locations /\ "run" \in Live \ {"created"} /\ wpc[w] \in Live \ {"created"}
        /\ One("run", Idle) = 0 /\ One(wpc[w], Idle) = 1
        /\ One("run", {"got"}) = 0 /\ One(wpc[w], {"got"}) = 1
    BY <1>0 DEF Locations, Live, Idle, One
  <2>4. /\ Cardinality(In({"got"})) \in Nat
        /\ Cardinality(In({"got"})')
             = Cardinality(In({"got"})) + One("run", {"got"}) - One(wpc[w], {"got"})
    BY <2>1, <2>3, GotMove
  <2>5. Cardinality(In({"got"})') = Cardinality(In({"got"})) - 1  BY <2>3, <2>4
  <2>6. Cardinality(In({"got"})) # 0
    <3>1. Count(wpc, {"got"}) # 0  BY <1>0, CountNat
    <3> QED  BY <3>1 DEF Count, In
  <2>7. sem + (IF at = "post" THEN 1 ELSE 0) + Cardinality(In({"got"})) = Len(request_list)
    BY <1>0, <1>b DEF IInv, RequestsAccounted, TokensMatchRequests
  <2>8. Len(request_list) # 0
    <3> DEFINE post == IF at = "post" THEN 1 ELSE 0
    <3>1. post \in Nat  OBVIOUS
    <3> HIDE DEF post
    <3>2. sem + post + Cardinality(In({"got"})) # 0  BY <2>2, <2>4, <2>6, <3>1
    <3> QED  BY <2>7, <3>2 DEF post
  <2>9. /\ request_list # <<>> /\ Len(Tail(request_list)) = Len(request_list) - 1
        /\ Len(request_list) \in Nat
    BY <2>2, <2>8, QueueLength
  <2>10. /\ r \in ToSet(request_list) /\ r \in Requests
         /\ Tail(request_list) \in Seq(Requests)
         /\ IsInjective(Tail(request_list))
         /\ ToSet(Tail(request_list)) = ToSet(request_list) \ {r}
    BY <2>2, <2>9, QueueTail DEF IInv, ListRight
  <2>11. r \in head /\ state[r] = "queued"  BY <2>10 DEF IInv, ListRight
  <2> HIDE DEF r
  <2>12. threads' = [threads EXCEPT !.idle = @ + One("run", Idle) - One(wpc[w], Idle)]
    <3>1. threads.idle - 1 = threads.idle + One("run", Idle) - One(wpc[w], Idle)
      BY <1>0, <2>3 DEF Counters
    <3> QED  BY <2>1, <3>1
  <2>13. /\ threads' \in Counters /\ wpc' \in [Workers -> Locations]
         /\ ThreadsAccounted' /\ BacklogHasSpawner' /\ FreedPoolIsUnused' /\ FreeingRight'
    BY <1>b, <2>1, <2>3, <2>12, ThreadMoves
  <2>14. TypeOK'
    <3>1. state' \in [Requests -> {"free", "queued", "active", "done"}]
          /\ req' \in [Workers -> Requests \cup {None}]
      BY <2>1, <2>10 DEF IInv, PoolConsistent, TypeOK
    <3> QED
      BY <2>1, <2>10, <2>13, <3>1 DEF IInv, PoolConsistent, TypeOK, Counters, Locations
  <2>15. TokensMatchRequests'
    <3> DEFINE post == IF at = "post" THEN 1 ELSE 0
    <3>1. post \in Nat  OBVIOUS
    <3> HIDE DEF post
    <3>2. sem + post + Cardinality(In({"got"})') = Len(request_list) - 1
      BY <2>2, <2>4, <2>5, <2>7, <3>1 DEF post
    <3>3. sem' + post' + Cardinality(In({"got"})') = Len(request_list')
      BY <2>1, <2>9, <3>2 DEF post
    <3> QED  BY <3>3 DEF TokensMatchRequests, post
  <2>16. WorkerOwnsRequest'
    BY <1>0, <2>1, <2>10, <2>11
       DEF IInv, PoolConsistent, TypeOK, RequestsAccounted, WorkerOwnsRequest, In
  <2>17. ListRight'
    BY <2>1, <2>10 DEF IInv, PoolConsistent, TypeOK, ListRight
  <2>18. StackRight'
    BY <2>1, <2>11 DEF IInv, PoolConsistent, TypeOK, StackRight
  <2>19. NoCompletionLost'
    BY <1>0, <2>1, <2>10 DEF IInv, PoolConsistent, TypeOK, NoCompletionLost, In
  <2> QED
    BY <2>13, <2>14, <2>15, <2>16, <2>17, <2>18, <2>19
       DEF IInv, PoolConsistent, RequestsAccounted
<1> QED  BY <1>a, <1>b

\* A request becomes done when its worker is about to schedule completion_bh.
LEMMA Step_FinishRequest ==
  ASSUME IInv, NEW w \in Workers, FinishRequest(w)
  PROVE  IInv'
<1> USE DEF FinishRequest, bhVars, homeVars
<1>0. /\ at # "no_pool" /\ threads \in Counters
      /\ wpc \in [Workers -> Locations] /\ wpc[w] = "run"
  BY WorkerMeansPool
<1>1. req[w] \in head /\ state[req[w]] = "active" /\ req[w] \in Requests
  BY <1>0 DEF IInv, RequestsAccounted, WorkerOwnsRequest, In, PoolConsistent, TypeOK
<1>2. "done" \in Locations /\ "done" \in Live \ {"created"} /\ wpc[w] \in Live \ {"created"}
      /\ One("done", Idle) = 0 /\ One(wpc[w], Idle) = 0
  BY <1>0 DEF Locations, Live, Idle, One
<1>3. threads' = [threads EXCEPT !.idle = @ + One("done", Idle) - One(wpc[w], Idle)]
  BY <1>0, <1>2 DEF Counters
<1>4. /\ threads' \in Counters /\ wpc' \in [Workers -> Locations]
      /\ ThreadsAccounted' /\ BacklogHasSpawner' /\ FreedPoolIsUnused' /\ FreeingRight'
  BY <1>2, <1>3, ThreadMoves
<1>5. TypeOK'
  <2>1. state' \in [Requests -> {"free", "queued", "active", "done"}]
    BY DEF IInv, PoolConsistent, TypeOK
  <2> QED  BY <1>4, <2>1 DEF IInv, PoolConsistent, TypeOK, Counters, Locations
<1>6. TokensMatchRequests'
  <2>1. In({"got"})' = In({"got"})  BY <1>0 DEF In
  <2> QED  BY <2>1 DEF IInv, RequestsAccounted, TokensMatchRequests
<1>7. WorkerOwnsRequest'
  BY <1>0, <1>1
     DEF IInv, PoolConsistent, TypeOK, RequestsAccounted, WorkerOwnsRequest, In
<1>8. ListRight'  BY <1>1 DEF IInv, PoolConsistent, TypeOK, ListRight
<1>9. StackRight'  BY <1>1 DEF IInv, PoolConsistent, TypeOK, StackRight
<1>10. NoCompletionLost'
  BY <1>0, <1>1 DEF IInv, PoolConsistent, TypeOK, NoCompletionLost, In
<1> QED
  BY <1>4, <1>5, <1>6, <1>7, <1>8, <1>9, <1>10 DEF IInv, PoolConsistent, RequestsAccounted

LEMMA Step_ScheduleCompletion ==
  ASSUME IInv, NEW w \in Workers, ScheduleCompletion(w)
  PROVE  IInv'
<1> USE DEF ScheduleCompletion, NextRound
<1>0. /\ at # "no_pool" /\ Agree(threads, wpc) /\ threads \in Counters
      /\ wpc \in [Workers -> Locations] /\ wpc[w] = "done"
  BY WorkerMeansPool
<1>1. /\ completion_bh' = TRUE
      /\ UNCHANGED <<state, head, request_list, sem, stopping, new_thread_bh, rest, stack>>
  OBVIOUS
<1>2. One(wpc[w], {"created"}) = 0 /\ One(wpc[w], Idle) = 0  BY <1>0 DEF One, Idle
<1>3. /\ threads' \in Counters /\ wpc' \in [Workers -> Locations]
      /\ at' \in {"user", "scan", "post", "free_woken", "free_wait"}
      /\ ThreadsAccounted' /\ BacklogHasSpawner' /\ FreedPoolIsUnused' /\ FreeingRight'
      /\ at' = "post" <=> at = "post"
      /\ wpc' = [wpc EXCEPT ![w] = "none"] \/ wpc' = [wpc EXCEPT ![w] = "sem"]
  <2>1. CASE stopping
    <3>1. EndThread(w, threads)  BY <2>1
    <3>2. threads \in [cur : Int, idle : Int, new : Int, pending : Int]
          /\ threads.pending = threads.pending - One(wpc[w], {"created"})
          /\ threads.idle = threads.idle - One(wpc[w], Idle)
      BY <1>0, <1>2 DEF Counters
    <3> QED  BY <1>0, <2>1, <3>1, <3>2, ThreadEnds DEF EndThread
  <2>2. CASE ~stopping
    <3>1. /\ "sem" \in Live \ {"created"} /\ wpc[w] \in Live \ {"created"}
          /\ One("sem", Idle) = 1
      BY <1>0 DEF Live, Idle, One
    <3>2. threads.idle + 1 = threads.idle + One("sem", Idle) - One(wpc[w], Idle)
      BY <1>0, <1>2, <3>1 DEF Counters
    <3>3. /\ threads' = [threads EXCEPT !.idle = @ + One("sem", Idle) - One(wpc[w], Idle)]
          /\ wpc' = [wpc EXCEPT ![w] = "sem"] /\ UNCHANGED at
      BY <2>2, <3>2
    <3>4. at \in {"user", "scan", "post", "free_woken", "free_wait"}
      BY <1>0 DEF IInv, PoolConsistent, TypeOK
    <3> QED  BY <1>1, <2>2, <3>1, <3>3, <3>4, ThreadMoves
  <2> QED  BY <2>1, <2>2
<1>4. TypeOK'
  <2>1. req' \in [Workers -> Requests \cup {None}]  BY DEF IInv, PoolConsistent, TypeOK
  <2> QED  BY <1>1, <1>3, <2>1 DEF IInv, PoolConsistent, TypeOK, Counters, Locations
<1>5. TokensMatchRequests'
  <2>1. In({"got"})' = In({"got"})  BY <1>0, <1>3 DEF In
  <2> QED
    BY <1>0, <1>1, <1>3, <2>1 DEF IInv, RequestsAccounted, TokensMatchRequests
<1>6. WorkerOwnsRequest'
  <2>1. \A v \in Workers : v # w => req'[v] = req[v] /\ wpc'[v] = wpc[v]
    BY <1>0, <1>3 DEF IInv, PoolConsistent, TypeOK
  <2>2. wpc'[w] # "run"  BY <1>0, <1>3
  <2> QED
    BY <1>1, <2>1, <2>2 DEF IInv, RequestsAccounted, WorkerOwnsRequest, In
<1>7. ListRight' /\ StackRight' /\ NoCompletionLost'
  BY <1>1 DEF IInv, ListRight, StackRight, NoCompletionLost
<1> QED
  BY <1>3, <1>4, <1>5, <1>6, <1>7 DEF IInv, PoolConsistent, RequestsAccounted

\* A scan of the completion bottom half starts with all of pool->head.
LEMMA Step_thread_pool_completion_bh ==
  ASSUME IInv, thread_pool_completion_bh
  PROVE  IInv'
<1> USE DEF thread_pool_completion_bh, workerVars
<1>1. TypeOK'  BY DEF IInv, PoolConsistent, TypeOK
<1>2. /\ ThreadsAccounted' /\ BacklogHasSpawner' /\ FreedPoolIsUnused'
      /\ FreeingRight' /\ ~stopping /\ In({"got"})' = In({"got"})
  BY QuietThreads
<1>3. TokensMatchRequests'
  BY <1>2 DEF IInv, RequestsAccounted, TokensMatchRequests
<1>4. WorkerOwnsRequest'  BY DEF IInv, RequestsAccounted, WorkerOwnsRequest, In
<1>5. ListRight' /\ StackRight'  BY DEF IInv, ListRight, StackRight
<1>6. NoCompletionLost'  BY DEF NoCompletionLost
<1> QED
  BY <1>1, <1>2, <1>3, <1>4, <1>5, <1>6 DEF IInv, PoolConsistent, RequestsAccounted

LEMMA Step_SkipRequest ==
  ASSUME IInv, NEW r \in Requests, SkipRequest(r)
  PROVE  IInv'
<1> USE DEF SkipRequest, workerVars, bhVars
<1>1. TypeOK'  BY DEF IInv, PoolConsistent, TypeOK
<1>2. /\ ThreadsAccounted' /\ BacklogHasSpawner' /\ FreedPoolIsUnused'
      /\ FreeingRight' /\ ~stopping /\ In({"got"})' = In({"got"})
  BY QuietThreads
<1>3. TokensMatchRequests'
  BY <1>2 DEF IInv, RequestsAccounted, TokensMatchRequests
<1>4. WorkerOwnsRequest'  BY DEF IInv, RequestsAccounted, WorkerOwnsRequest, In
<1>5. ListRight' /\ StackRight'  BY DEF IInv, ListRight, StackRight
<1>6. NoCompletionLost'  BY DEF IInv, NoCompletionLost, In
<1> QED
  BY <1>1, <1>2, <1>3, <1>4, <1>5, <1>6 DEF IInv, PoolConsistent, RequestsAccounted

LEMMA Step_CompleteSilently ==
  ASSUME IInv, NEW r \in Requests, CompleteSilently(r)
  PROVE  IInv'
<1> USE DEF CompleteSilently, workerVars, bhVars
<1>0. state \in [Requests -> {"free", "queued", "active", "done"}] /\ rest \subseteq head
      /\ stack \in Seq(Requests \ Silent)
  BY DEF IInv, PoolConsistent, TypeOK
<1>1. TypeOK'  BY DEF IInv, PoolConsistent, TypeOK
<1>2. /\ ThreadsAccounted' /\ BacklogHasSpawner' /\ FreedPoolIsUnused'
      /\ FreeingRight' /\ ~stopping /\ In({"got"})' = In({"got"})
  BY QuietThreads
<1>3. TokensMatchRequests'
  BY <1>2 DEF IInv, RequestsAccounted, TokensMatchRequests
<1>4. WorkerOwnsRequest'  BY <1>0 DEF IInv, RequestsAccounted, WorkerOwnsRequest, In
<1>5. ListRight'  BY <1>0 DEF IInv, ListRight
<1>6. StackRight'  BY <1>0 DEF IInv, StackRight
<1>7. NoCompletionLost'  BY <1>0 DEF IInv, NoCompletionLost, In
<1> QED
  BY <1>1, <1>2, <1>3, <1>4, <1>5, <1>6, <1>7 DEF IInv, PoolConsistent, RequestsAccounted

\* The request that is completed leaves pool->head, and completion_bh is
\* scheduled for the others.
LEMMA Step_CallCompletion ==
  ASSUME IInv, NEW r \in Requests, CallCompletion(r)
  PROVE  IInv'
<1> USE DEF CallCompletion, workerVars
<1>0. state \in [Requests -> {"free", "queued", "active", "done"}] /\ rest \subseteq head
      /\ stack \in Seq(Requests \ Silent) /\ r \in Requests \ Silent
  BY DEF IInv, PoolConsistent, TypeOK
<1>1. r \notin ToSet(stack)  BY <1>0 DEF IInv, StackRight
<1>2. /\ stack' \in Seq(Requests \ Silent) /\ ToSet(stack') = ToSet(stack) \cup {r}
      /\ IsInjective(stack')
  BY <1>0, <1>1, QueueAppend DEF IInv, StackRight
<1>3. TypeOK'  BY <1>0, <1>2 DEF IInv, PoolConsistent, TypeOK
<1>4. /\ ThreadsAccounted' /\ BacklogHasSpawner' /\ FreedPoolIsUnused'
      /\ FreeingRight' /\ ~stopping /\ In({"got"})' = In({"got"})
  BY QuietThreads
<1>5. TokensMatchRequests'
  BY <1>4 DEF IInv, RequestsAccounted, TokensMatchRequests
<1>6. WorkerOwnsRequest'  BY <1>0 DEF IInv, RequestsAccounted, WorkerOwnsRequest, In
<1>7. ListRight'  BY <1>0 DEF IInv, ListRight
<1>8. StackRight'  BY <1>0, <1>2 DEF IInv, StackRight
<1>9. NoCompletionLost'  BY DEF NoCompletionLost
<1> QED
  BY <1>3, <1>4, <1>5, <1>6, <1>7, <1>8, <1>9 DEF IInv, PoolConsistent, RequestsAccounted

\* qemu_bh_cancel forgets what workers have scheduled meanwhile; the scan that
\* starts again from pool->head makes up for it.
LEMMA Step_CompletionReturns ==
  ASSUME IInv, NEW r \in Requests, CompletionReturns(r)
  PROVE  IInv'
<1> USE DEF CompletionReturns, workerVars
<1>0. state \in [Requests -> {"free", "queued", "active", "done"}]
      /\ stack \in Seq(Requests \ Silent) /\ stack # <<>> /\ r = Last(stack)
  BY DEF IInv, PoolConsistent, TypeOK
<1>1. /\ r \in ToSet(stack) /\ stack' \in Seq(Requests \ Silent) /\ IsInjective(stack')
      /\ ToSet(stack') = ToSet(stack) \ {r}
  BY <1>0, QueueFront DEF IInv, StackRight
<1>2. r \notin head /\ state[r] = "done"  BY <1>1 DEF IInv, StackRight
<1>3. TypeOK'  BY <1>1 DEF IInv, PoolConsistent, TypeOK
<1>4. /\ ThreadsAccounted' /\ BacklogHasSpawner' /\ FreedPoolIsUnused'
      /\ FreeingRight' /\ ~stopping /\ In({"got"})' = In({"got"})
  BY QuietThreads
<1>5. TokensMatchRequests'
  BY <1>4 DEF IInv, RequestsAccounted, TokensMatchRequests
<1>6. WorkerOwnsRequest'
  BY <1>0, <1>2 DEF IInv, RequestsAccounted, WorkerOwnsRequest, In
<1>7. ListRight'  BY <1>0, <1>2 DEF IInv, ListRight
<1>8. StackRight'  BY <1>0, <1>1 DEF IInv, StackRight
<1>9. NoCompletionLost'  BY DEF NoCompletionLost
<1> QED
  BY <1>3, <1>4, <1>5, <1>6, <1>7, <1>8, <1>9 DEF IInv, PoolConsistent, RequestsAccounted

LEMMA Step_ScanEnds ==
  ASSUME IInv, ScanEnds
  PROVE  IInv'
<1> USE DEF ScanEnds, workerVars, bhVars
<1>1. TypeOK'  BY DEF IInv, PoolConsistent, TypeOK
<1>2. /\ ThreadsAccounted' /\ BacklogHasSpawner' /\ FreedPoolIsUnused'
      /\ FreeingRight' /\ ~stopping /\ In({"got"})' = In({"got"})
  BY QuietThreads
<1>3. TokensMatchRequests'
  BY <1>2 DEF IInv, RequestsAccounted, TokensMatchRequests
<1>4. WorkerOwnsRequest'  BY DEF IInv, RequestsAccounted, WorkerOwnsRequest, In
<1>5. ListRight' /\ StackRight'  BY DEF IInv, ListRight, StackRight
<1>6. NoCompletionLost'  BY DEF IInv, NoCompletionLost, In
<1> QED
  BY <1>1, <1>2, <1>3, <1>4, <1>5, <1>6 DEF IInv, PoolConsistent, RequestsAccounted

\* Submission: an idle worker will see the request, or a thread is added to the
\* backlog, with somebody to create it.
LEMMA Step_thread_pool_submit_aio ==
  ASSUME IInv, NEW r \in Requests, thread_pool_submit_aio(r)
  PROVE  IInv'
<1> USE DEF thread_pool_submit_aio, workerVars
<1>0. /\ state \in [Requests -> {"free", "queued", "active", "done"}]
      /\ request_list \in Seq(Requests) /\ sem \in Nat
      /\ ~stopping /\ threads \in Counters /\ Agree(threads, wpc)
  BY AgreeDef DEF IInv, PoolConsistent, TypeOK, FreeingRight
<1>1. r \notin ToSet(request_list) /\ r \notin ToSet(stack)
  BY DEF IInv, ListRight, StackRight
<1>2. /\ request_list' \in Seq(Requests) /\ Len(request_list') = Len(request_list) + 1
      /\ ToSet(request_list') = ToSet(request_list) \cup {r}
      /\ IsInjective(request_list') /\ Len(request_list) \in Nat
  BY <1>0, <1>1, QueueAppend, QueueLength DEF IInv, ListRight
<1>3. threads' \in Counters /\ Agree(threads', wpc) /\ BacklogHasSpawner'
  <2>1. CASE threads.idle = 0 /\ threads.cur < max_threads
    <3>1. threads' = [threads EXCEPT !.cur = @ + 1, !.new = @ + 1]
          /\ new_thread_bh' = (new_thread_bh \/ threads.pending = 0)
      BY <2>1 DEF spawn_thread
    <3>2. threads.cur \in Nat /\ threads.new \in Nat /\ threads.pending \in Nat
          /\ Count(wpc, Live) \in Nat /\ max_threads \in Nat
      BY <1>0, CountNat, WorkersAssumption DEF Counters
    <3> DEFINE ts == [threads EXCEPT !.cur = @ + 1]
    <3>3. ts \in Counters /\ ts.cur = threads.cur + 1 /\ ts.new = threads.new
          /\ ts.pending = threads.pending /\ ts.idle = threads.idle
      BY <1>0, <3>2 DEF Counters
    <3>4. threads' = [ts EXCEPT !.new = @ + 1]  BY <3>1
    <3> HIDE DEF ts
    <3>5. threads' \in Counters /\ threads'.cur = threads.cur + 1
          /\ threads'.new = threads.new + 1
          /\ threads'.pending = threads.pending /\ threads'.idle = threads.idle
      BY <3>2, <3>3, <3>4 DEF Counters
    <3>6. Agree(threads', wpc)  BY <1>0, <2>1, <3>2, <3>5 DEF Agree
    <3>7. BacklogHasSpawner'
      <4>1. threads.pending = 0 => new_thread_bh'  BY <3>1
      <4>2. threads.pending # 0 => threads'.pending > 0  BY <3>2, <3>5
      <4> QED  BY <4>1, <4>2 DEF BacklogHasSpawner
    <3> QED  BY <3>5, <3>6, <3>7
  <2>2. CASE ~(threads.idle = 0 /\ threads.cur < max_threads)
    BY <1>0, <2>2 DEF IInv, PoolConsistent, BacklogHasSpawner
  <2> QED  BY <2>1, <2>2
<1>4. TypeOK'
  <2>1. new_thread_bh' \in BOOLEAN
    BY DEF spawn_thread, IInv, PoolConsistent, TypeOK
  <2> QED  BY <1>0, <1>2, <1>3, <2>1 DEF IInv, PoolConsistent, TypeOK, Counters
<1>5. ThreadsAccounted'  BY <1>3, AgreeDefNext
<1>6. FreedPoolIsUnused' /\ FreeingRight'  BY <1>0 DEF FreedPoolIsUnused, FreeingRight
<1>7. TokensMatchRequests'
  <2>1. Cardinality(In({"got"})) \in Nat
    BY CountNat DEF Count, In
  <2>2. sem + 0 + Cardinality(In({"got"})) = Len(request_list)
    BY <1>0 DEF IInv, RequestsAccounted, TokensMatchRequests
  <2>3. sem + 1 + Cardinality(In({"got"})) = Len(request_list')
    BY <1>0, <1>2, <2>1, <2>2
  <2>4. In({"got"})' = In({"got"})  BY DEF In
  <2> QED  BY <2>3, <2>4 DEF TokensMatchRequests
<1>8. WorkerOwnsRequest'
  BY <1>0 DEF IInv, RequestsAccounted, WorkerOwnsRequest, In
<1>9. ListRight'  BY <1>0, <1>1, <1>2 DEF IInv, ListRight
<1>10. StackRight'  BY <1>0, <1>1 DEF IInv, StackRight
<1>11. NoCompletionLost'  BY <1>0 DEF IInv, NoCompletionLost, In
<1> QED
  BY <1>3, <1>4, <1>5, <1>6, <1>7, <1>8, <1>9, <1>10, <1>11
     DEF IInv, PoolConsistent, RequestsAccounted

LEMMA Step_SubmitPost ==
  ASSUME IInv, SubmitPost
  PROVE  IInv'
<1> USE DEF SubmitPost, workerVars, bhVars
<1>1. TypeOK'  BY DEF IInv, PoolConsistent, TypeOK
<1>2. /\ ThreadsAccounted' /\ BacklogHasSpawner' /\ FreedPoolIsUnused'
      /\ FreeingRight' /\ ~stopping /\ In({"got"})' = In({"got"})
  BY QuietThreads
<1>3. TokensMatchRequests'
  <2>1. sem \in Nat /\ Cardinality(In({"got"})) \in Nat
    BY CountNat DEF Count, In, IInv, PoolConsistent, TypeOK
  <2>2. sem + 1 + Cardinality(In({"got"})) = Len(request_list)
    BY <1>2 DEF IInv, RequestsAccounted, TokensMatchRequests
  <2> QED  BY <1>2, <2>1, <2>2 DEF TokensMatchRequests
<1>4. WorkerOwnsRequest' /\ ListRight' /\ StackRight' /\ NoCompletionLost'
  <2>1. In({"run"})' = In({"run"}) /\ In({"done"})' = In({"done"})  BY DEF In
  <2> QED  BY <2>1, QuietRequests
<1> QED
  BY <1>1, <1>2, <1>3, <1>4 DEF IInv, PoolConsistent, RequestsAccounted

\* Cancellation takes a token and a request, so that they still match.
LEMMA Step_thread_pool_cancel ==
  ASSUME IInv, NEW i \in 1..Len(request_list), thread_pool_cancel(i)
  PROVE  IInv'
<1> USE DEF thread_pool_cancel, workerVars, homeVars
<1> DEFINE r == request_list[i]
<1>0. /\ state \in [Requests -> {"free", "queued", "active", "done"}]
      /\ request_list \in Seq(Requests) /\ sem \in Nat /\ sem > 0
  BY DEF IInv, PoolConsistent, TypeOK
<1>1. /\ r \in ToSet(request_list)
      /\ request_list' \in Seq(Requests) /\ Len(request_list') = Len(request_list) - 1
      /\ ToSet(request_list') = ToSet(request_list) \ {r}
      /\ IsInjective(request_list')
  BY <1>0, QueueRemoveAt DEF IInv, ListRight
<1>2. r \in head /\ state[r] = "queued" /\ r \in Requests
  BY <1>0, <1>1 DEF IInv, ListRight
<1>3. state' = [state EXCEPT ![r] = "done"]  OBVIOUS
<1> HIDE DEF r
<1>4. TypeOK'  BY <1>0, <1>1, <1>3 DEF IInv, PoolConsistent, TypeOK
<1>5. /\ ThreadsAccounted' /\ BacklogHasSpawner' /\ FreedPoolIsUnused'
      /\ FreeingRight' /\ ~stopping /\ In({"got"})' = In({"got"})
  BY QuietThreads
<1>6. TokensMatchRequests'
  <2>1. Cardinality(In({"got"})) \in Nat  BY CountNat DEF Count, In
  <2>2. sem + 0 + Cardinality(In({"got"})) = Len(request_list)
    BY <1>5 DEF IInv, RequestsAccounted, TokensMatchRequests
  <2>3. Len(request_list) \in Nat  BY <1>0, QueueLength
  <2>4. sem' = sem - 1  OBVIOUS
  <2>5. (sem - 1) + 0 + Cardinality(In({"got"})) = Len(request_list) - 1
    BY <1>0, <2>1, <2>2, <2>3
  <2> QED  BY <1>1, <1>5, <2>4, <2>5 DEF TokensMatchRequests
<1>7. WorkerOwnsRequest'
  BY <1>0, <1>2, <1>3 DEF IInv, RequestsAccounted, WorkerOwnsRequest, In
<1>8. ListRight'  BY <1>0, <1>1, <1>3 DEF IInv, ListRight
<1>9. StackRight'  BY <1>0, <1>2, <1>3 DEF IInv, StackRight
<1>10. NoCompletionLost'  BY DEF NoCompletionLost
<1> QED
  BY <1>4, <1>5, <1>6, <1>7, <1>8, <1>9, <1>10 DEF IInv, PoolConsistent, RequestsAccounted

LEMMA Step_thread_pool_new ==
  ASSUME IInv, thread_pool_new
  PROVE  IInv'
<1> USE DEF thread_pool_new, workerVars
<1>0. /\ \A w \in Workers : wpc[w] = "none"
      /\ request_list = <<>> /\ head = {} /\ rest = {}
  BY DEF IInv, PoolConsistent, FreedPoolIsUnused, TypeOK
<1>1. InitialThreads \in Counters  BY DEF InitialThreads, Counters
<1>2. TypeOK'
  BY <1>0, <1>1, EmptySeq DEF IInv, PoolConsistent, TypeOK, Counters
<1>3. \A L : "none" \notin L => Count(wpc, L) = 0  BY <1>0, CountNat
<1>4. Agree(InitialThreads, wpc)
  <2>1. Count(wpc, Live) = 0 /\ Count(wpc, {"created"}) = 0 /\ Count(wpc, Idle) = 0
    BY <1>3 DEF Live, Idle
  <2> QED  BY <2>1, WorkersAssumption DEF Agree, InitialThreads
<1>5. ThreadsAccounted'  BY <1>4, AgreeDefNext
<1>6. BacklogHasSpawner'  BY DEF BacklogHasSpawner, InitialThreads
<1>7. FreedPoolIsUnused' /\ FreeingRight'  BY DEF FreedPoolIsUnused, FreeingRight
<1>8. TokensMatchRequests'
  <2>1. Count(wpc, {"got"}) = 0  BY <1>3
  <2>2. Cardinality(In({"got"})') = 0  BY <2>1 DEF Count, In
  <2> QED  BY <2>2, EmptySeq DEF TokensMatchRequests
<1>9. WorkerOwnsRequest'  BY <1>0 DEF WorkerOwnsRequest, In
<1>10. ListRight' /\ StackRight' /\ NoCompletionLost'
  BY <1>0 DEF IInv, ListRight, StackRight, NoCompletionLost
<1> QED
  BY <1>2, <1>5, <1>6, <1>7, <1>8, <1>9, <1>10 DEF IInv, PoolConsistent, RequestsAccounted

\* The loop of thread_pool_free: when cur_threads is 0 there are no workers.
LEMMA StopsWorkers ==
  ASSUME IInv, head = {}, stack = <<>>, at # "no_pool",
         threads' \in Counters, Agree(threads', wpc), threads'.new = 0,
         stopping' = TRUE, ~new_thread_bh', new_thread_bh' \in BOOLEAN,
         StopWorkers(threads'),
         UNCHANGED <<state, head, request_list, rest, stack, workerVars>>
  PROVE  IInv'
<1> USE DEF StopWorkers, workerVars
<1>0. sem \in Nat /\ max_threads \in Nat /\ completion_bh \in BOOLEAN
  BY WorkersAssumption DEF IInv, PoolConsistent, TypeOK
<1>1. sem' \in Nat /\ at' \in {"no_pool", "free_wait"} /\ completion_bh' \in BOOLEAN
  <2>1. sem' \in {sem, sem + 1}  OBVIOUS
  <2>2. sem' \in Nat  BY <1>0, <2>1
  <2> QED  BY <1>0, <2>2
<1>2. TypeOK'  BY <1>1 DEF IInv, PoolConsistent, TypeOK, Counters
<1>3. ThreadsAccounted'  BY AgreeDefNext
<1>4. BacklogHasSpawner'  BY DEF BacklogHasSpawner
<1>5. FreedPoolIsUnused'
  <2>1. SUFFICES ASSUME at' = "no_pool" PROVE FreedPoolIsUnused'
    BY DEF FreedPoolIsUnused
  <2>2. threads'.cur = 0 /\ ~completion_bh'  BY <2>1 DEF Counters
  <2>3. Count(wpc, Live) = 0
    BY <2>2, CountNat DEF Agree
  <2>4. \A w \in Workers : wpc[w] \notin Live  BY <2>3, CountNat
  <2>5. \A w \in Workers : wpc[w] = "none"
    BY <2>4 DEF IInv, PoolConsistent, TypeOK, Live
  <2>6. request_list = <<>>
    <3>1. request_list \in Seq(Requests) /\ ToSet(request_list) = {}
      BY DEF IInv, PoolConsistent, TypeOK, ListRight
    <3> QED  BY <3>1, QueueEmpty
  <2> QED  BY <2>2, <2>5, <2>6 DEF FreedPoolIsUnused
<1>6. FreeingRight'  BY <1>1 DEF FreeingRight
<1>7. TokensMatchRequests'  BY DEF TokensMatchRequests
<1>8. WorkerOwnsRequest'  BY DEF IInv, RequestsAccounted, WorkerOwnsRequest, In
<1>9. ListRight' /\ StackRight' /\ NoCompletionLost'
  BY DEF IInv, ListRight, StackRight, NoCompletionLost
<1> QED
  BY <1>2, <1>3, <1>4, <1>5, <1>6, <1>7, <1>8, <1>9
     DEF IInv, PoolConsistent, RequestsAccounted

\* thread_pool_free subtracts the backlog, which nobody will create any more.
LEMMA Step_thread_pool_free ==
  ASSUME IInv, thread_pool_free
  PROVE  IInv'
<1> USE DEF thread_pool_free
<1>0. threads \in Counters /\ Agree(threads, wpc)
  BY AgreeDef DEF IInv, PoolConsistent
<1>1. threads.cur \in Nat /\ threads.new \in Nat /\ threads.pending \in Nat
      /\ threads.idle \in Nat /\ Count(wpc, Live) \in Nat /\ max_threads \in Nat
      /\ threads.cur = threads.new + Count(wpc, Live) /\ threads.cur <= max_threads
  BY <1>0, CountNat, WorkersAssumption DEF Counters, Agree
<1>2. threads.cur - threads.new = Count(wpc, Live)  BY <1>1
<1> DEFINE ts == [threads EXCEPT !.cur = @ - threads.new]
<1>3. ts \in Counters /\ ts.cur = Count(wpc, Live) /\ ts.pending = threads.pending
      /\ ts.idle = threads.idle
  BY <1>0, <1>1, <1>2 DEF Counters
<1>4. threads' = [ts EXCEPT !.new = 0]  OBVIOUS
<1> HIDE DEF ts
<1>5. threads' \in Counters /\ threads'.cur = Count(wpc, Live) /\ threads'.new = 0
      /\ threads'.pending = threads.pending /\ threads'.idle = threads.idle
  <2>1. threads' \in Counters  BY <1>3, <1>4 DEF Counters
  <2>2. threads'.cur = ts.cur /\ threads'.new = 0
        /\ threads'.pending = ts.pending /\ threads'.idle = ts.idle
    BY <1>3, <1>4 DEF Counters
  <2> QED  BY <1>3, <2>1, <2>2
<1>6. Agree(threads', wpc)  BY <1>0, <1>1, <1>5 DEF Agree
<1> QED  BY <1>5, <1>6, StopsWorkers

LEMMA Step_FreeCheck ==
  ASSUME IInv, FreeCheck
  PROVE  IInv'
<1> USE DEF FreeCheck
<1>1. /\ threads \in Counters /\ Agree(threads, wpc) /\ head = {} /\ stack = <<>>
      /\ threads.new = 0 /\ stopping /\ ~new_thread_bh /\ new_thread_bh \in BOOLEAN
      /\ stopping \in BOOLEAN
  BY AgreeDef DEF IInv, PoolConsistent, FreeingRight, TypeOK
<1> QED  BY <1>1, StopsWorkers

LEMMA Step_SpuriousWakeup ==
  ASSUME IInv, SpuriousWakeup
  PROVE  IInv'
<1> USE DEF SpuriousWakeup, workerVars, bhVars
<1>1. TypeOK'  BY DEF IInv, PoolConsistent, TypeOK
<1>2. ThreadsAccounted'  BY AgreeDef, AgreeDefNext DEF IInv, PoolConsistent
<1>3. BacklogHasSpawner' /\ FreedPoolIsUnused' /\ FreeingRight' /\ TokensMatchRequests'
  BY DEF IInv, PoolConsistent, BacklogHasSpawner, FreedPoolIsUnused, FreeingRight,
         TokensMatchRequests
<1>4. WorkerOwnsRequest' /\ ListRight' /\ StackRight' /\ NoCompletionLost'
  <2>1. In({"run"})' = In({"run"}) /\ In({"done"})' = In({"done"})  BY DEF In
  <2> QED  BY <2>1, QuietRequests
<1> QED
  BY <1>1, <1>2, <1>3, <1>4 DEF IInv, PoolConsistent, RequestsAccounted

LEMMA StutterIInv == IInv /\ UNCHANGED vars => IInv'
BY DEF IInv, vars, bhVars, homeVars, workerVars, PoolConsistent, TypeOK, ThreadsAccounted,
       BacklogHasSpawner, FreedPoolIsUnused, FreeingRight, RequestsAccounted,
       TokensMatchRequests, WorkerOwnsRequest, ListRight, StackRight, NoCompletionLost, In

LEMMA NextIInv == IInv /\ [Next]_vars => IInv'
<1> SUFFICES ASSUME IInv, [Next]_vars PROVE IInv'  OBVIOUS
<1>1. CASE \E w \in Workers : WorkerStep(w)
  BY <1>1, Step_worker_thread, Step_TakeToken, Step_SemBlock, Step_SemTimeout,
     Step_TimedOut, Step_TakeRequest, Step_FinishRequest, Step_ScheduleCompletion
     DEF WorkerStep
<1>2. CASE HomeStep
  BY <1>2, Step_ScanEnds, Step_SubmitPost, Step_FreeCheck, Step_SkipRequest,
     Step_CompleteSilently, Step_CallCompletion
     DEF HomeStep, Scan
<1>3. CASE BottomHalf
  BY <1>3, Step_thread_pool_completion_bh, Step_spawn_thread_bh_fn DEF BottomHalf
<1>4. CASE UserStep
  BY <1>4, Step_thread_pool_submit_aio, Step_CompletionReturns, Step_thread_pool_cancel,
     Step_thread_pool_new, Step_thread_pool_free
     DEF UserStep
<1>5. CASE SpuriousWakeup  BY <1>5, Step_SpuriousWakeup
<1>6. CASE UNCHANGED vars  BY <1>6, StutterIInv
<1> QED  BY <1>1, <1>2, <1>3, <1>4, <1>5, <1>6 DEF Next

-----------------------------------------------------------------------------
(* The theorems *)

\* The inductive invariant of util/thread-pool.c holds in every state.
THEOREM Invariance == Spec => []IInv
BY InitIInv, NextIInv, PTL DEF Spec

\* The pool counts its threads right: cur_threads, idle_threads, new_threads and
\* pending_threads agree with the threads there are, a backlog of threads always
\* has somebody to create it, and when thread_pool_free returns nothing is left
\* that would use the pool.
THEOREM PoolCorrect == Spec => []PoolConsistent
<1>1. IInv => PoolConsistent  BY DEF IInv
<1> QED  BY <1>1, Invariance, PTL

\* Tokens, requests and workers match: a worker that got through the semaphore
\* finds a request although thread_pool_cancel removes some from the middle of
\* the list, and it writes its result into a request that nobody else executes
\* and nobody has freed.
THEOREM RequestsCorrect == Spec => []RequestsAccounted
<1>1. IInv => RequestsAccounted  BY DEF IInv
<1> QED  BY <1>1, Invariance, PTL

\* A finished request is never forgotten by the completion bottom half, nested
\* completion functions and the qemu_bh_cancel after them included.
THEOREM CompletionsCorrect == Spec => []NoCompletionLost
<1>1. IInv => NoCompletionLost  BY DEF IInv
<1> QED  BY <1>1, Invariance, PTL
=============================================================================
