---------------------------- MODULE PagedProofs ----------------------------
(* What holds of the pool of KV blocks for every number of requests and     *)
(* blocks, every block size and wherever the clears fall; and, until one    *)
(* cuts a call in two, of the maps, the tables and the references to them.  *)
EXTENDS PagedCache, QueueTheorems

(* The pool part of the type invariant and the partition, with the free     *)
(* queue without repetition rather than counted.                            *)
PoolInv ==
  /\ free \in Seq(Blocks) /\ Distinct(free)
  /\ refs \in [Blocks -> Nat]
  /\ \A b \in Blocks : b \in Allocated <=> refs[b] > 0

LEMMA FullPool ==
  LET s == [i \in 1 .. NumBlocks |-> i]
  IN  s \in Seq(Blocks) /\ Distinct(s) /\ ToSet(s) = Blocks
<1> DEFINE s == [i \in 1 .. NumBlocks |-> i]
<1>1. s \in [1 .. NumBlocks -> Blocks] /\ NumBlocks \in Nat
  BY PagedCacheAssumptions DEF Blocks
<1>2. s \in Seq(Blocks)
  BY <1>1, IsASeq
<1> QED
  BY <1>1, <1>2 DEF Distinct, ToSet, Blocks

LEMMA InitPoolInv == Init => PoolInv
<1> SUFFICES ASSUME Init PROVE PoolInv
  OBVIOUS
<1>1. free \in Seq(Blocks) /\ Distinct(free) /\ ToSet(free) = Blocks
  BY FullPool DEF Init
<1>2. Allocated = {} /\ refs = [b \in Blocks |-> 0]
  BY <1>1 DEF Init, Allocated
<1> QED
  BY <1>1, <1>2 DEF PoolInv

(* A reference more to an allocated block, or none.                         *)
LEMMA ReferenceAdded ==
  ASSUME PoolInv, free' = free, NEW b \in Allocated,
         refs' = [refs EXCEPT ![b] = @ + 1]
  PROVE  PoolInv'
BY DEF PoolInv, Allocated

LEMMA PoolUntouched ==
  ASSUME PoolInv, UNCHANGED <<free, refs>> PROVE PoolInv'
BY DEF PoolInv, Allocated

LEMMA BlockTaken ==
  ASSUME PoolInv, StoreAllocate PROVE PoolInv'
<1>1. /\ free # <<>> /\ free' = Tail(free) /\ refs' = [refs EXCEPT ![Head(free)] = 1]
  BY DEF StoreAllocate
<1>2. /\ Head(free) \in Blocks /\ free' \in Seq(Blocks) /\ Distinct(free')
      /\ ToSet(free') = ToSet(free) \ {Head(free)}
  BY <1>1, TailDistinct DEF PoolInv
<1> QED
  BY <1>1, <1>2 DEF PoolInv, Allocated

LEMMA PoolRestored ==
  ASSUME PoolInv, Clear PROVE PoolInv'
<1>1. free' \in Seq(Blocks) /\ Distinct(free') /\ ToSet(free') = Blocks
  BY FullPool DEF Clear
<1>2. Allocated' = {} /\ refs' = [b \in Blocks |-> 0]
  BY <1>1 DEF Clear, Allocated, Blocks
<1> QED
  BY <1>1, <1>2 DEF PoolInv, Blocks

LEMMA NextPoolInv == PoolInv /\ [Next]_vars => PoolInv'
<1> SUFFICES ASSUME PoolInv, [Next]_vars PROVE PoolInv'
  OBVIOUS
<1>1. ASSUME NEW r \in Requests, NEW p \in Prompts, FetchMiss(r, p) \/ FetchFind(r, p)
      PROVE  PoolInv'
  BY <1>1, PoolUntouched DEF FetchMiss, FetchFind, poolVars
<1>2. CASE FetchTable
  BY <1>2, PoolUntouched DEF FetchTable, poolVars
<1>3. CASE FetchClaim
  <2>1. free' = free
    BY <1>3 DEF FetchClaim
  <2>2. CASE /\ Head(fetch.ids) \in Allocated
             /\ refs' = [refs EXCEPT ![Head(fetch.ids)] = @ + 1]
    BY <2>1, <2>2, ReferenceAdded
  <2>3. CASE UNCHANGED refs
    BY <2>1, <2>3, PoolUntouched
  <2> QED
    BY <1>3, <2>2, <2>3 DEF FetchClaim
<1>4. CASE FetchRebuild
  BY <1>4, PoolUntouched DEF FetchRebuild, poolVars
<1>5. ASSUME NEW r \in Requests, NEW tok \in Outputs, StoreStart(r, tok) PROVE PoolInv'
  BY <1>5, PoolUntouched DEF StoreStart, poolVars
<1>6. CASE StoreFindCached
  BY <1>6, PoolUntouched DEF StoreFindCached, poolVars
<1>7. CASE StoreShare
  <2>1. free' = free
    BY <1>7 DEF StoreShare
  <2>2. CASE store.block \in Allocated
    BY <1>7, <2>1, <2>2, ReferenceAdded DEF StoreShare
  <2>3. CASE store.block \notin Allocated
    BY <1>7, <2>1, <2>3, PoolUntouched DEF StoreShare
  <2> QED
    BY <2>2, <2>3
<1>8. CASE StoreAllocate
  BY <1>8, BlockTaken
<1>9. CASE StoreFill
  BY <1>9, PoolUntouched DEF StoreFill
<1>10. CASE StoreFinish
  BY <1>10, PoolUntouched DEF StoreFinish, poolVars
<1>11. CASE Clear
  BY <1>11, PoolRestored
<1>12. CASE UNCHANGED vars
  BY <1>12, PoolUntouched DEF vars, poolVars
<1> QED
  BY <1>1, <1>2, <1>3, <1>4, <1>5, <1>6, <1>7, <1>8, <1>9, <1>10, <1>11, <1>12
     DEF Next, Fetch, Store

LEMMA PoolInvPartitions == PoolInv => PoolPartitioned
BY DistinctCounted DEF PoolInv, PoolPartitioned

(* Every block is in the free queue, once, or is referenced, never both,    *)
(* though fetch, store and clear are cut into single locked calls.          *)
THEOREM PoolCorrect == Spec => []PoolPartitioned
<1>1. Spec => []PoolInv
  BY InitPoolInv, NextPoolInv, PTL DEF Spec
<1> QED
  BY <1>1, PoolInvPartitions, PTL

----------------------------------------------------------------------------
(* What the maps, the tables and the calls know of the blocks, as long as no *)
(* clear has cut a call in two.                                              *)

Table   == [ids : Seq(Blocks), n : Nat]
Request == [st : {"new", "fetching", "waiting", "done"}, prompt : Seq(Nat),
            kv : Seq(Seq(Nat)), cached : Nat, rest : Seq(Nat)]

CacheTypes ==
  /\ data \in [Blocks -> Seq(Nat)] /\ clears \in Nat
  /\ DOMAIN tables \subseteq Requests
  /\ \A r \in DOMAIN tables : tables[r] \in Table
  /\ req \in [Requests -> Request]
  /\ fetch \in [pc : {"idle", "table", "claim"}, r : Nat, ids : Seq(Blocks), n : Nat,
                table : Table, gen : Nat]
  /\ store \in [pc : {"idle", "chunk", "share", "fill"}, r : Nat, seq : Seq(Nat),
                pos : Nat, block : Nat, table : Table, gen : Nat]

(* A block is filled once, right after it was allocated.                    *)
BlocksFilled ==
  /\ \A b \in Blocks \ Allocated : data[b] = <<>>
  /\ store.pc = "fill" => store.block \in Allocated /\ data[store.block] = <<>>

(* Block b is in the pool and holds the tokens c.                           *)
Holds(b, c) == b \in Allocated /\ data[b] # <<>> /\ Own(data[b]) = c

(* The blocks ids hold the successive chunks of s, starting after skip; the *)
(* last of them may hold what is less than a full block.                    *)
HoldsFrom(ids, s, skip) ==
  \A i \in 1 .. Len(ids) :
    (skip + i) * BlockSize <= Len(s) => Holds(ids[i], Chunk(s, skip + i))

(* ids are just enough blocks for s.                                        *)
Spans(ids, s) ==
  /\ (Len(ids) - 1) * BlockSize < Len(s) /\ Len(s) <= Len(ids) * BlockSize

HashTrue == \A c \in DOMAIN hash : Holds(hash[c], c)

IndexTrue ==
  \A p \in DOMAIN index :
    /\ p \in Seq(Nat) /\ index[p] \in Seq(Blocks)
    /\ HoldsFrom(index[p], p, 0) /\ Spans(index[p], p)

(* The table of a request that waits covers the head of its prompt.         *)
Covers(t, p) ==
  /\ t.n = Len(t.ids) * BlockSize /\ t.n <= Len(p) /\ HoldsFrom(t.ids, p, 0)

TablesTrue ==
  \A r \in DOMAIN tables :
    \/ req[r].st = "waiting" /\ Covers(tables[r], req[r].prompt)
    \/ req[r].st = "done"
    \/ req[r].st = "fetching" /\ fetch.pc = "claim" /\ fetch.r = r

FetchTrue ==
  fetch.pc # "idle" =>
    LET p == req[fetch.r].prompt  t == fetch.table IN
    /\ fetch.r \in Requests /\ req[fetch.r].st = "fetching"
    /\ Covers(t, p) /\ HoldsFrom(fetch.ids, p, Len(t.ids))
    /\ fetch.n = (Len(t.ids) + Len(fetch.ids)) * BlockSize /\ fetch.n <= Len(p)
    /\ fetch.pc = "table" => t = NoTable
    /\ fetch.pc = "claim" =>
         fetch.gen = clears /\ fetch.r \in DOMAIN tables /\ tables[fetch.r] = t

StoreTrue ==
  store.pc # "idle" =>
    LET t == store.table IN
    /\ store.r \in DOMAIN tables /\ req[store.r].st = "done" /\ store.gen = clears
    /\ tables[store.r] = t
    /\ HoldsFrom(t.ids, store.seq, 0) /\ (Len(t.ids) - 1) * BlockSize < Len(store.seq)
    /\ store.pos <= Len(store.seq)
    /\ store.pos = Len(store.seq) \/ store.pos = Len(t.ids) * BlockSize
    /\ store.pc # "chunk" => store.pos < Len(store.seq)
    /\ store.pc = "share" => IsFull(store) /\ Holds(store.block, ChunkOf(store))

HitTrue(q) ==
  /\ q.cached + Len(q.rest) = Len(q.prompt) /\ Len(q.kv) * BlockSize = q.cached
  /\ \A i \in 1 .. Len(q.kv) : Own(q.kv[i]) = Chunk(q.prompt, i)

RefsCounted ==
  \A b \in Blocks : /\ IsFiniteSet(EntriesOf(b))
                    /\ refs[b] = Cardinality(EntriesOf(b)) + Filling(b)

HitsTrue == \A r \in Requests : req[r].st = "waiting" => HitTrue(req[r])

CacheOK ==
  /\ CacheTypes /\ BlocksFilled /\ HashTrue /\ IndexTrue /\ TablesTrue
  /\ FetchTrue /\ StoreTrue /\ RefsCounted /\ HitsTrue

CacheInv == ~torn => CacheOK

----------------------------------------------------------------------------
(* Arithmetic of blocks.                                                    *)

LEMMA MaxIsMax ==
  ASSUME NEW N \in Nat, NEW S \in SUBSET (0 .. N), S # {}
  PROVE  Max(S) \in S /\ \A x \in S : x <= Max(S)
<1> DEFINE T == {N - x : x \in S}
<1>1. T \in SUBSET Nat /\ T # {}
  <2>1. \A x \in S : x \in Int /\ N - x \in Nat
    OBVIOUS
  <2> QED
    BY <2>1
<1>2. PICK m \in T : \A n \in T : m <= n
  <2> HIDE DEF T
  <2> QED
    BY <1>1, LeastNatural
<1>3. PICK x \in S : m = N - x
  BY <1>2
<1>4. \A y \in S : x >= y
  BY <1>2, <1>3
<1> QED
  BY <1>3, <1>4 DEF Max

LEMMA BlockArithmetic ==
  /\ BlockSize \in Nat /\ BlockSize > 0
  /\ \A n \in Nat : /\ n \div BlockSize \in Nat
                    /\ (n \div BlockSize) * BlockSize <= n
                    /\ n < (n \div BlockSize) * BlockSize + BlockSize
  /\ \A k \in Nat : /\ (k * BlockSize) \div BlockSize = k
                    /\ (k * BlockSize + BlockSize - 1) \div BlockSize = k
BY PagedCacheAssumptions

LEMMA BlocksOrdered ==
  ASSUME NEW i \in Int, NEW k \in Int
  PROVE  /\ i <= k <=> i * BlockSize <= k * BlockSize
         /\ i * BlockSize \in Int
         /\ (i + 1) * BlockSize = i * BlockSize + BlockSize
         /\ (i - 1) * BlockSize = i * BlockSize - BlockSize
BY PagedCacheAssumptions

LEMMA BlocksWithin ==
  ASSUME NEW n \in Nat, NEW k \in 0 .. n \div BlockSize
  PROVE  k * BlockSize \in 0 .. n
<1>1. n \div BlockSize \in Nat /\ (n \div BlockSize) * BlockSize <= n
  BY BlockArithmetic
<1> DEFINE q == n \div BlockSize
<1> HIDE DEF q
<1>2. q \in Nat /\ k \in 0 .. q /\ q * BlockSize <= n
  BY <1>1 DEF q
<1> QED
  BY <1>2, PagedCacheAssumptions

LEMMA ChunkInside ==
  ASSUME NEW k \in Nat, NEW i \in 1 .. k, NEW n \in Nat, k * BlockSize <= n
  PROVE  /\ i \in Nat \ {0} /\ 0 + i = i
         /\ i * BlockSize \in Nat /\ i * BlockSize <= n
BY PagedCacheAssumptions

LEMMA SpanIsExact ==
  ASSUME NEW l \in Nat, NEW k \in Nat,
         (l - 1) * BlockSize < k * BlockSize, k * BlockSize <= l * BlockSize
  PROVE  l = k
BY PagedCacheAssumptions

(* The own tokens of a block are the last ones of its data, a full block    *)
(* unless it is the tail of its sequence.                                   *)
LEMMA OwnTokens ==
  ASSUME NEW d \in Seq(Nat), d # <<>>
  PROVE  /\ Tail1(d) \in 1 .. Len(d) /\ Len(Own(d)) = Tail1(d)
         /\ \A k \in Nat : Len(d) = (k + 1) * BlockSize => Own(d) = Chunk(d, k + 1)
<1>1. Len(d) \in Nat \ {0}
  OBVIOUS
<1>2. Tail1(d) \in 1 .. Len(d)
  BY <1>1, BlockArithmetic DEF Tail1
<1>3. Len(Own(d)) = Tail1(d)
  BY <1>1, <1>2 DEF Own
<1>4. ASSUME NEW k \in Nat, Len(d) = (k + 1) * BlockSize
      PROVE  Own(d) = Chunk(d, k + 1)
  <2>1. (k + 1) * BlockSize = k * BlockSize + BlockSize /\ (k + 1) - 1 = k
    BY BlocksOrdered
  <2>2. (Len(d) - 1) \div BlockSize = k
    BY <1>4, <2>1, BlockArithmetic
  <2>3. Tail1(d) = BlockSize
    BY <1>4, <2>1, <2>2, BlockArithmetic DEF Tail1
  <2> QED
    BY <1>4, <2>1, <2>3, BlockArithmetic DEF Own, Chunk
<1> QED
  BY <1>2, <1>3, <1>4

LEMMA ChunkOfPrefix ==
  ASSUME NEW s \in Seq(Nat), NEW m \in 0 .. Len(s), NEW i \in Nat \ {0},
         i * BlockSize <= m
  PROVE  /\ Chunk(SubSeq(s, 1, m), i) = Chunk(s, i)
         /\ Chunk(s, i) \in Seq(Nat) /\ Len(Chunk(s, i)) = BlockSize
<1>1. /\ (i - 1) * BlockSize = i * BlockSize - BlockSize
      /\ 0 <= (i - 1) * BlockSize /\ (i - 1) * BlockSize \in Int
      /\ i * BlockSize \in Int /\ BlockSize \in Nat /\ BlockSize > 0
  BY BlocksOrdered, BlockArithmetic
<1>2. (i - 1) * BlockSize + 1 \in 1 .. i * BlockSize
  BY <1>1
<1>3. Len(s) \in Nat /\ m \in Nat /\ i * BlockSize \in 0 .. m
  BY <1>1
<1> QED
  BY <1>1, <1>2, <1>3 DEF Chunk

----------------------------------------------------------------------------
(* The steps other than a clear.                                            *)

(* Blocks with data keep it.                                                *)
Grows ==
  /\ Allocated \subseteq Allocated'
  /\ \A b \in Allocated : data[b] # <<>> => data'[b] = data[b]

LEMMA MapsKept ==
  ASSUME Grows
  PROVE  /\ \A ids, s, skip : HoldsFrom(ids, s, skip) => HoldsFrom(ids, s, skip)'
         /\ HashTrue /\ UNCHANGED hash => HashTrue'
         /\ IndexTrue /\ UNCHANGED index => IndexTrue'
<1>1. \A ids, s, skip : HoldsFrom(ids, s, skip) => HoldsFrom(ids, s, skip)'
  BY DEF Grows, HoldsFrom, Holds
<1>2. HashTrue /\ UNCHANGED hash => HashTrue'
  BY DEF Grows, HashTrue, Holds
<1>3. IndexTrue /\ UNCHANGED index => IndexTrue'
  BY <1>1 DEF IndexTrue, Spans
<1> QED
  BY <1>1, <1>2, <1>3

LEMMA SamePool ==
  ASSUME UNCHANGED <<free, data>> PROVE Grows
BY DEF Grows, Allocated

LEMMA RefsKept ==
  ASSUME RefsCounted, UNCHANGED <<refs, tables>>, \A b \in Blocks : Filling(b)' = Filling(b)
  PROVE  RefsCounted'
BY DEF RefsCounted, EntriesOf

(* A request that is not being fetched is seen by the step in hand alone.   *)
LEMMA MissKeeps ==
  ASSUME CacheOK, NEW r \in Requests, NEW p \in Prompts, FetchMiss(r, p)
  PROVE  CacheOK'
<1>1. /\ fetch.pc = "idle" /\ req[r].st = "new" /\ p \in Seq(Nat)
      /\ req' = [req EXCEPT ![r] = [st |-> "waiting", prompt |-> p, kv |-> <<>>,
                                    cached |-> 0, rest |-> p]]
      /\ UNCHANGED <<poolVars, mapVars, fetch, store, clears, torn>>
  BY PagedCacheAssumptions DEF FetchMiss, Next1, Waiting
<1>2. Grows
  BY <1>1, SamePool DEF poolVars
<1>3. CacheTypes'
  BY <1>1 DEF CacheOK, CacheTypes, poolVars, mapVars, Request
<1>4. BlocksFilled' /\ HashTrue' /\ IndexTrue' /\ RefsCounted'
  BY <1>1, <1>2, MapsKept, RefsKept
     DEF CacheOK, BlocksFilled, Allocated, poolVars, mapVars, Filling
<1>5. TablesTrue' /\ FetchTrue' /\ StoreTrue'
  <2>1. r \notin DOMAIN tables /\ req \in [Requests -> Request]
    BY <1>1 DEF CacheOK, TablesTrue, CacheTypes
  <2>2. \A q \in DOMAIN tables : req'[q] = req[q]
    BY <1>1, <2>1 DEF CacheOK, CacheTypes
  <2>3. TablesTrue'
    BY <1>1, <1>2, <2>2, MapsKept DEF CacheOK, TablesTrue, Covers, mapVars
  <2>4. FetchTrue'
    BY <1>1 DEF CacheOK, FetchTrue
  <2>5. StoreTrue'
    BY <1>1, <1>2, <2>1, <2>2, MapsKept
       DEF CacheOK, StoreTrue, mapVars, Grows, Holds, IsFull, ChunkOf, EndOf
  <2> QED
    BY <2>3, <2>4, <2>5
<1>6. HitsTrue'
  <2>1. req \in [Requests -> Request]
    BY DEF CacheOK, CacheTypes
  <2>2. HitTrue(req'[r])
    BY <1>1, <2>1, BlockArithmetic DEF HitTrue
  <2> QED
    BY <1>1, <2>1, <2>2 DEF CacheOK, HitsTrue
<1> QED
  BY <1>3, <1>4, <1>5, <1>6 DEF CacheOK

(* What is found for a prompt: one block for each chunk, and no more.       *)
LEMMA FoundTrue ==
  ASSUME CacheOK, NEW p \in Seq(Nat), Found(p) # NoTable
  PROVE  /\ Found(p).ids \in Seq(Blocks) /\ HoldsFrom(Found(p).ids, p, 0)
         /\ Found(p).n = Len(Found(p).ids) * BlockSize /\ Found(p).n <= Len(p)
         /\ Found(p).n \in Nat
<1>1. /\ FullBlocks(p) \in Nat /\ FullBlocks(p) * BlockSize <= Len(p)
      /\ Len(p) \in Nat
  BY BlockArithmetic DEF FullBlocks
<1>2. /\ Max(Shared(p)) \in 0 .. FullBlocks(p)
      /\ \A i \in 1 .. Max(Shared(p)) : Cached(Chunk(p, i))
  <2>1. Shared(p) \in SUBSET (0 .. FullBlocks(p)) /\ 0 \in Shared(p)
    BY <1>1 DEF Shared
  <2> QED
    BY <1>1, <2>1, MaxIsMax DEF Shared
<1>3. CASE Max(Shared(p)) > 0
  <2> DEFINE k == Max(Shared(p))
             ids == [i \in 1 .. k |-> hash[Chunk(p, i)]]
  <2>1. Found(p) = [ids |-> ids, n |-> k * BlockSize]
    BY <1>3 DEF Found
  <2>2. k \in Nat /\ k * BlockSize <= Len(p) /\ k * BlockSize \in Nat
    BY <1>1, <1>2, BlocksWithin DEF FullBlocks
  <2> HIDE DEF k
  <2>3. ids \in Seq(Blocks) /\ Len(ids) = k
    BY <1>2, <2>2 DEF Cached, Allocated, k
  <2>4. \A i \in 1 .. k : Holds(ids[i], Chunk(p, i))
    BY <1>2 DEF Cached, CacheOK, HashTrue, k
  <2>5. HoldsFrom(ids, p, 0)
    BY <2>2, <2>3, <2>4 DEF HoldsFrom
  <2> QED
    BY <2>1, <2>2, <2>3, <2>5
<1>4. CASE ~(Max(Shared(p)) > 0)
  <2> DEFINE k == Max(Indexed(p))
             ids == index[UpTo(p, k)]
  <2>1. Indexed(p) # {} /\ Found(p) = [ids |-> ids, n |-> k * BlockSize]
    BY <1>4 DEF Found
  <2>2. k \in 1 .. FullBlocks(p) /\ UpTo(p, k) \in DOMAIN index
    <3>1. Indexed(p) \in SUBSET (0 .. FullBlocks(p))
      BY <1>1 DEF Indexed
    <3> QED
      BY <1>1, <2>1, <3>1, MaxIsMax DEF Indexed
  <2> HIDE DEF k
  <2>3. /\ k \in Nat /\ k * BlockSize <= Len(p) /\ k * BlockSize \in 0 .. Len(p)
    BY <1>1, <2>2, BlocksWithin DEF FullBlocks
  <2>4. UpTo(p, k) \in Seq(Nat) /\ Len(UpTo(p, k)) = k * BlockSize
    BY <2>3 DEF UpTo
  <2>5. /\ ids \in Seq(Blocks) /\ HoldsFrom(ids, UpTo(p, k), 0)
        /\ Spans(ids, UpTo(p, k))
    BY <2>2 DEF CacheOK, IndexTrue
  <2>6. Len(ids) \in Nat /\ Len(ids) = k
    <3>1. Len(ids) \in Nat
      BY <2>5
    <3>2. (Len(ids) - 1) * BlockSize < k * BlockSize /\ k * BlockSize <= Len(ids) * BlockSize
      BY <2>4, <2>5 DEF Spans
    <3> QED
      BY <2>3, <3>1, <3>2, SpanIsExact
  <2>7. HoldsFrom(ids, p, 0)
    <3>1. ASSUME NEW i \in 1 .. Len(ids) PROVE Holds(ids[i], Chunk(p, i))
      <4>1. i * BlockSize <= k * BlockSize
        BY <2>3, <2>6, <3>1, BlocksOrdered
      <4>2. Holds(ids[i], Chunk(UpTo(p, k), i))
        <5>1. 0 + i = i
          OBVIOUS
        <5> QED
          BY <2>4, <2>5, <2>6, <4>1, <5>1 DEF HoldsFrom
      <4>3. Chunk(UpTo(p, k), i) = Chunk(p, i)
        BY <2>3, <2>6, <4>1, ChunkOfPrefix DEF UpTo
      <4> QED
        BY <4>2, <4>3
    <3> QED
      BY <2>6, <3>1 DEF HoldsFrom
  <2> QED
    BY <2>1, <2>3, <2>5, <2>6, <2>7
<1> QED
  BY <1>3, <1>4

LEMMA FindKeeps ==
  ASSUME CacheOK, NEW r \in Requests, NEW p \in Prompts, FetchFind(r, p)
  PROVE  CacheOK'
<1>1. /\ fetch.pc = "idle" /\ req[r].st = "new" /\ p \in Seq(Nat)
      /\ Found(p) # NoTable
      /\ UNCHANGED <<poolVars, mapVars, store, clears, torn>>
  BY PagedCacheAssumptions DEF FetchFind, Next1
<1>2. Grows
  BY <1>1, SamePool DEF poolVars
<1>3. PICK f : /\ f = Found(p) /\ f.ids \in Seq(Blocks) /\ HoldsFrom(f.ids, p, 0)
               /\ f.n = Len(f.ids) * BlockSize /\ f.n <= Len(p) /\ f.n \in Nat
  BY <1>1, FoundTrue
<1>4. /\ fetch' = [pc |-> "table", r |-> r, ids |-> f.ids, n |-> f.n,
                   table |-> NoTable, gen |-> 0]
      /\ req' = [req EXCEPT ![r] = [st |-> "fetching", prompt |-> p, kv |-> <<>>,
                                    cached |-> 0, rest |-> <<>>]]
      /\ req \in [Requests -> Request] /\ r \in Nat
  <2>1. fetch' = [pc |-> "table", r |-> r, ids |-> f.ids, n |-> f.n,
                  table |-> NoTable, gen |-> 0]
    BY <1>3 DEF FetchFind, IdleFetch
  <2>2. req' = [req EXCEPT ![r] = [st |-> "fetching", prompt |-> p, kv |-> <<>>,
                                   cached |-> 0, rest |-> <<>>]]
    BY DEF FetchFind
  <2>3. req \in [Requests -> Request] /\ r \in Nat
    BY PagedCacheAssumptions DEF CacheOK, CacheTypes, Requests
  <2> QED
    BY <2>1, <2>2, <2>3
<1>5. /\ req'[r].st = "fetching" /\ req'[r].prompt = p
      /\ \A q \in Requests \ {r} : req'[q] = req[q]
      /\ req' \in [Requests -> Request]
  BY <1>1, <1>4 DEF Request
<1>6. NoTable \in Table /\ NoTable.ids = <<>> /\ NoTable.n = 0
  BY DEF NoTable, Table
<1>7. CacheTypes'
  <2>1. fetch' \in [pc : {"idle", "table", "claim"}, r : Nat, ids : Seq(Blocks), n : Nat,
                    table : Table, gen : Nat]
    BY <1>3, <1>4, <1>6
  <2> QED
    BY <1>1, <1>5, <2>1 DEF CacheOK, CacheTypes, poolVars, mapVars
<1>8. BlocksFilled' /\ HashTrue' /\ IndexTrue' /\ RefsCounted'
  BY <1>1, <1>2, MapsKept, RefsKept
     DEF CacheOK, BlocksFilled, Allocated, poolVars, mapVars, Filling
<1>9. r \notin DOMAIN tables /\ \A q \in DOMAIN tables : req'[q] = req[q]
  BY <1>1, <1>5 DEF CacheOK, TablesTrue, CacheTypes
<1>10. TablesTrue'
  BY <1>1, <1>2, <1>9, MapsKept DEF CacheOK, TablesTrue, Covers, mapVars
<1>11. StoreTrue'
  BY <1>1, <1>2, <1>9, MapsKept
     DEF CacheOK, StoreTrue, mapVars, Grows, Holds, IsFull, ChunkOf, EndOf
<1>12. FetchTrue'
  <2>1. HoldsFrom(f.ids, p, 0)' /\ HoldsFrom(<<>>, p, 0)'
    <3>1. HoldsFrom(f.ids, p, 0)'
      BY <1>2, <1>3, MapsKept
    <3>2. HoldsFrom(<<>>, p, 0)'
      BY DEF HoldsFrom
    <3> QED
      BY <3>1, <3>2
  <2>2. /\ fetch'.pc = "table" /\ fetch'.r = r /\ fetch'.table = NoTable
        /\ fetch'.ids = f.ids /\ fetch'.n = f.n
    BY <1>4
  <2>3. Covers(NoTable, p)'
    BY <1>1, <1>6, <2>1, BlockArithmetic DEF Covers
  <2>4. f.n = (Len(NoTable.ids) + Len(f.ids)) * BlockSize /\ Len(NoTable.ids) = 0
    BY <1>3, <1>6
  <2> QED
    BY <1>3, <1>5, <2>1, <2>2, <2>3, <2>4 DEF FetchTrue
<1>13. HitsTrue'
  BY <1>5 DEF CacheOK, HitsTrue
<1> QED
  BY <1>7, <1>8, <1>10, <1>11, <1>12, <1>13 DEF CacheOK

LEMMA TableKeeps ==
  ASSUME CacheOK, FetchTable
  PROVE  CacheOK'
<1> DEFINE r == fetch.r
<1>1. /\ fetch.pc = "table" /\ fetch' = [fetch EXCEPT !.pc = "claim", !.gen = clears]
      /\ tables' = Bind(tables, r, NoTable)
      /\ UNCHANGED <<poolVars, hash, index, req, store, clears, torn>>
  BY DEF FetchTable
<1>2. Grows
  BY <1>1, SamePool DEF poolVars
<1>3. /\ r \in Requests /\ req[r].st = "fetching" /\ fetch.table = NoTable
      /\ r \notin DOMAIN tables
  BY <1>1 DEF CacheOK, FetchTrue, TablesTrue
<1>4. NoTable \in Table /\ NoTable.ids = <<>> /\ NoTable.n = 0
  BY DEF NoTable, Table
<1>5. /\ DOMAIN tables' = DOMAIN tables \cup {r} /\ tables'[r] = NoTable
      /\ \A q \in DOMAIN tables : tables'[q] = tables[q]
  BY <1>1, <1>3 DEF Bind
<1>6. /\ fetch'.pc = "claim" /\ fetch'.gen = clears /\ fetch'.r = r
      /\ fetch'.ids = fetch.ids /\ fetch'.n = fetch.n /\ fetch'.table = NoTable
      /\ fetch' \in [pc : {"idle", "table", "claim"}, r : Nat, ids : Seq(Blocks), n : Nat,
                     table : Table, gen : Nat]
  BY <1>1, <1>3 DEF CacheOK, CacheTypes
<1>7. CacheTypes'
  BY <1>1, <1>3, <1>4, <1>5, <1>6 DEF CacheOK, CacheTypes, poolVars
<1>8. BlocksFilled' /\ HashTrue' /\ IndexTrue'
  BY <1>1, <1>2, MapsKept DEF CacheOK, BlocksFilled, Allocated, poolVars
<1>9. RefsCounted'
  <2>1. ASSUME NEW b \in Blocks PROVE EntriesOf(b)' = EntriesOf(b)
    BY <1>3, <1>4, <1>5 DEF EntriesOf
  <2> QED
    BY <1>1, <2>1 DEF CacheOK, RefsCounted, poolVars, Filling
<1>10. TablesTrue'
  BY <1>1, <1>2, <1>3, <1>5, <1>6, MapsKept DEF CacheOK, TablesTrue, Covers
<1>11. StoreTrue'
  BY <1>1, <1>2, <1>5, MapsKept
     DEF CacheOK, StoreTrue, Grows, Holds, IsFull, ChunkOf, EndOf
<1>12. FetchTrue'
  <2>1. Covers(fetch.table, req[r].prompt)' /\ HoldsFrom(fetch.ids, req[r].prompt, 0)'
    BY <1>1, <1>2, <1>3, <1>4, <1>6, MapsKept DEF CacheOK, FetchTrue, Covers
  <2> QED
    BY <1>1, <1>3, <1>4, <1>5, <1>6, <2>1 DEF CacheOK, FetchTrue
<1>13. HitsTrue'
  BY <1>1 DEF CacheOK, HitsTrue
<1> QED
  BY <1>7, <1>8, <1>9, <1>10, <1>11, <1>12, <1>13 DEF CacheOK

(* One more entry in the table of a request.                                *)
LEMMA EntryAdded ==
  ASSUME NEW r \in DOMAIN tables, tables[r] \in Table, NEW b \in Blocks,
         NEW t, t.ids = Append(tables[r].ids, b), tables' = Bind(tables, r, t)
  PROVE  /\ <<r, Len(t.ids)>> \notin EntriesOf(b)
         /\ EntriesOf(b)' = EntriesOf(b) \cup {<<r, Len(t.ids)>>}
         /\ \A c \in Blocks \ {b} : EntriesOf(c)' = EntriesOf(c)
<1> DEFINE ids == tables[r].ids
           n == Len(ids) + 1
           At(s, c) == {i \in DOMAIN s : s[i] = c}
<1>1. ids \in Seq(Blocks) /\ n \in Nat /\ Len(t.ids) = n /\ DOMAIN ids = 1 .. n - 1
  BY DEF Table
<1>2. /\ n \notin DOMAIN ids /\ DOMAIN t.ids = DOMAIN ids \cup {n} /\ t.ids[n] = b
      /\ \A i \in DOMAIN ids : t.ids[i] = ids[i]
  BY <1>1
<1>3. At(t.ids, b) = At(ids, b) \cup {n} /\ \A c \in Blocks \ {b} : At(t.ids, c) = At(ids, c)
  BY <1>2
<1>4. /\ DOMAIN tables' = DOMAIN tables /\ tables'[r] = t
      /\ \A q \in DOMAIN tables \ {r} : tables'[q] = tables[q]
  BY DEF Bind
<1>5. /\ \A c \in Blocks : \A q, i : <<q, i>> \in EntriesOf(c) <=>
           q \in DOMAIN tables /\ i \in At(tables[q].ids, c)
      /\ \A c \in Blocks : \A q, i : <<q, i>> \in EntriesOf(c)' <=>
           q \in DOMAIN tables' /\ i \in At(tables'[q].ids, c)
  BY DEF EntriesOf
<1>6. \A c \in Blocks : \A e \in EntriesOf(c) \cup EntriesOf(c)' : \E q, i : e = <<q, i>>
  BY DEF EntriesOf
<1> HIDE DEF At
<1>7. <<r, n>> \notin EntriesOf(b)
  BY <1>2, <1>5 DEF At
<1>8. ASSUME NEW c \in Blocks, NEW q, NEW i
      PROVE  <<q, i>> \in EntriesOf(c)' <=>
               <<q, i>> \in EntriesOf(c) \/ (c = b /\ q = r /\ i = n)
  <2>1. CASE q # r
    BY <1>4, <1>5, <2>1
  <2>2. CASE q = r
    BY <1>3, <1>4, <1>5, <2>2
  <2> QED
    BY <2>1, <2>2
<1>9. EntriesOf(b)' = EntriesOf(b) \cup {<<r, n>>}
  BY <1>6, <1>8
<1>10. ASSUME NEW c \in Blocks \ {b} PROVE EntriesOf(c)' = EntriesOf(c)
  <2>1. ASSUME NEW e PROVE e \in EntriesOf(c)' <=> e \in EntriesOf(c)
    BY <1>6, <1>8
  <2> QED
    BY <2>1
<1> QED
  BY <1>1, <1>7, <1>9, <1>10

(* A reference taken with the entry it is for.                              *)
LEMMA RefsClaimed ==
  ASSUME RefsCounted, refs \in [Blocks -> Nat],
         NEW r \in DOMAIN tables, tables[r] \in Table, NEW b \in Blocks,
         NEW t, t.ids = Append(tables[r].ids, b), tables' = Bind(tables, r, t),
         refs' = [refs EXCEPT ![b] = @ + 1],
         \A c \in Blocks : Filling(c)' = Filling(c)
  PROVE  RefsCounted'
<1>1. /\ <<r, Len(t.ids)>> \notin EntriesOf(b)
      /\ EntriesOf(b)' = EntriesOf(b) \cup {<<r, Len(t.ids)>>}
      /\ \A c \in Blocks \ {b} : EntriesOf(c)' = EntriesOf(c)
  BY EntryAdded
<1>2. /\ IsFiniteSet(EntriesOf(b)')
      /\ Cardinality(EntriesOf(b)') = Cardinality(EntriesOf(b)) + 1
      /\ Cardinality(EntriesOf(b)) \in Nat
  BY <1>1, FS_AddElement, FS_CardinalityType DEF RefsCounted
<1>3. Filling(b) \in Nat
  BY DEF Filling
<1>4. ASSUME NEW c \in Blocks
      PROVE  IsFiniteSet(EntriesOf(c)') /\ refs'[c] = Cardinality(EntriesOf(c)') + Filling(c)'
  <2>1. CASE c = b
    BY <1>2, <1>3, <2>1 DEF RefsCounted
  <2>2. CASE c # b
    BY <1>1, <2>2 DEF RefsCounted
  <2> QED
    BY <2>1, <2>2
<1> QED
  BY <1>4 DEF RefsCounted

LEMMA FullCount ==
  ASSUME NEW b, NEW c, Holds(b, c), Len(c) = BlockSize, data \in [Blocks -> Seq(Nat)]
  PROVE  b \in Blocks /\ TokenCount(b) = BlockSize
<1>1. b \in Blocks /\ data[b] \in Seq(Nat) /\ data[b] # <<>>
  BY DEF Holds, Allocated
<1> QED
  BY <1>1, OwnTokens DEF Holds, TokenCount

LEMMA ClaimKeeps ==
  ASSUME PoolInv, CacheOK, FetchClaim
  PROVE  CacheOK'
<1>1. PICK r, p, ids, rest :
        /\ r = fetch.r /\ p = req[fetch.r].prompt /\ ids = fetch.table.ids
        /\ rest = fetch.ids
  OBVIOUS
<1>2. PICK k, m : k = Len(ids) /\ m = Len(rest)
  OBVIOUS
<1>3. /\ fetch.pc = "claim" /\ r \in Requests /\ req[r].st = "fetching"
      /\ r \in DOMAIN tables /\ tables[r] = fetch.table /\ fetch.gen = clears
      /\ fetch.table.n = k * BlockSize /\ HoldsFrom(ids, p, 0) /\ HoldsFrom(rest, p, k)
      /\ fetch.n = (k + m) * BlockSize /\ fetch.n <= Len(p) /\ rest # <<>>
  BY <1>1, <1>2 DEF FetchClaim, CacheOK, FetchTrue, Covers
<1>4. /\ rest \in Seq(Blocks) /\ ids \in Seq(Blocks) /\ fetch.table \in Table
      /\ data \in [Blocks -> Seq(Nat)] /\ req \in [Requests -> Request]
      /\ clears \in Nat
  BY <1>1 DEF CacheOK, CacheTypes, Table
<1>5. p \in Seq(Nat) /\ Len(p) \in Nat /\ k \in Nat /\ m \in Nat \ {0}
  BY <1>1, <1>2, <1>3, <1>4 DEF Request
<1>6. /\ (k + 1) * BlockSize \in Nat /\ (k + 1) * BlockSize <= Len(p)
      /\ (k + 1) * BlockSize = k * BlockSize + BlockSize
  <2>1. k + 1 <= k + m /\ k + 1 \in Int /\ k + m \in Int
    BY <1>5
  <2>2. (k + 1) * BlockSize <= (k + m) * BlockSize
    BY <2>1, BlocksOrdered
  <2>3. (k + 1) * BlockSize \in Nat /\ (k + m) * BlockSize \in Int
    BY <1>5, PagedCacheAssumptions
  <2> QED
    BY <1>3, <1>5, <2>2, <2>3, BlocksOrdered
<1>7. PICK b : b = Head(rest)
  OBVIOUS
<1>8. /\ Holds(b, Chunk(p, k + 1)) /\ Len(Chunk(p, k + 1)) = BlockSize
      /\ Tail(rest) \in Seq(Blocks) /\ Len(Tail(rest)) = m - 1
      /\ \A i \in 1 .. m - 1 : Tail(rest)[i] = rest[i + 1]
  <2>1. rest[1] = b /\ 1 \in 1 .. m
    BY <1>2, <1>4, <1>5, <1>7
  <2>2. Holds(b, Chunk(p, k + 1))
    BY <1>2, <1>3, <1>6, <2>1 DEF HoldsFrom
  <2>3. Len(Chunk(p, k + 1)) = BlockSize
    BY <1>5, <1>6, ChunkOfPrefix
  <2> QED
    BY <1>2, <1>3, <1>4, <1>5, <2>2, <2>3
<1>9. b \in Blocks /\ b \in Allocated /\ TokenCount(b) = BlockSize
  BY <1>4, <1>8, FullCount DEF Holds
<1>10. PICK t : t = [ids |-> Append(ids, b), n |-> (k + 1) * BlockSize]
  OBVIOUS
<1>11. /\ refs' = [refs EXCEPT ![b] = @ + 1]
       /\ fetch' = [fetch EXCEPT !.ids = Tail(rest), !.table = t]
       /\ tables' = Bind(tables, r, t)
       /\ UNCHANGED <<free, data, hash, index, req, store, clears, torn>>
  BY <1>1, <1>3, <1>6, <1>7, <1>9, <1>10 DEF FetchClaim, Registered
<1>12. Grows
  BY <1>11, SamePool
<1>13. /\ t \in Table /\ t.ids = Append(ids, b) /\ t.n = (k + 1) * BlockSize
       /\ Len(t.ids) = k + 1 /\ t.ids[k + 1] = b /\ \A i \in 1 .. k : t.ids[i] = ids[i]
  BY <1>2, <1>4, <1>5, <1>6, <1>9, <1>10 DEF Table
<1>14. /\ DOMAIN tables' = DOMAIN tables /\ tables'[r] = t
       /\ \A q \in DOMAIN tables \ {r} : tables'[q] = tables[q]
  BY <1>3, <1>11 DEF Bind
<1>15. /\ fetch'.pc = "claim" /\ fetch'.r = r /\ fetch'.ids = Tail(rest)
       /\ fetch'.table = t /\ fetch'.n = fetch.n /\ fetch'.gen = clears
       /\ fetch' \in [pc : {"idle", "table", "claim"}, r : Nat, ids : Seq(Blocks), n : Nat,
                      table : Table, gen : Nat]
  BY <1>1, <1>3, <1>8, <1>11, <1>13 DEF CacheOK, CacheTypes
<1>16. CacheTypes'
  BY <1>11, <1>13, <1>14, <1>15 DEF CacheOK, CacheTypes
<1>17. BlocksFilled' /\ HashTrue' /\ IndexTrue'
  BY <1>11, <1>12, MapsKept DEF CacheOK, BlocksFilled, Allocated
<1>18. RefsCounted'
  <2>1. refs \in [Blocks -> Nat] /\ tables[r] \in Table /\ RefsCounted
    BY <1>3, <1>4 DEF PoolInv, CacheOK
  <2>2. \A c \in Blocks : Filling(c)' = Filling(c)
    BY <1>11 DEF Filling
  <2> QED
    BY <1>1, <1>3, <1>9, <1>11, <1>13, <2>1, <2>2, RefsClaimed
<1>19. TablesTrue'
  BY <1>3, <1>11, <1>12, <1>14, <1>15, MapsKept DEF CacheOK, TablesTrue, Covers
<1>20. StoreTrue'
  <2>1. store.pc # "idle" => store.r # r
    BY <1>3 DEF CacheOK, StoreTrue
  <2> QED
    BY <1>11, <1>12, <1>14, <2>1, MapsKept
       DEF CacheOK, StoreTrue, Grows, Holds, IsFull, ChunkOf, EndOf
<1>21. FetchTrue'
  <2>1. HoldsFrom(t.ids, p, 0)'
    <3>1. ASSUME NEW i \in 1 .. k + 1, i * BlockSize <= Len(p)
          PROVE  Holds(t.ids[i], Chunk(p, i))
      <4>1. CASE i = k + 1
        BY <1>8, <1>13, <4>1
      <4>2. CASE i \in 1 .. k
        <5>1. 0 + i = i
          BY <4>2
        <5> QED
          BY <1>2, <1>3, <1>13, <3>1, <4>2, <5>1 DEF HoldsFrom
      <4> QED
        BY <1>5, <4>1, <4>2
    <3>2. HoldsFrom(t.ids, p, 0)
      BY <1>5, <1>13, <3>1 DEF HoldsFrom
    <3> QED
      BY <1>12, <3>2, MapsKept
  <2>2. HoldsFrom(Tail(rest), p, k + 1)'
    <3>1. ASSUME NEW i \in 1 .. m - 1, (k + 1 + i) * BlockSize <= Len(p)
          PROVE  Holds(Tail(rest)[i], Chunk(p, k + 1 + i))
      <4>1. k + 1 + i = k + (i + 1) /\ i + 1 \in 1 .. m
        BY <1>5
      <4> QED
        BY <1>2, <1>3, <1>8, <3>1, <4>1 DEF HoldsFrom
    <3>2. HoldsFrom(Tail(rest), p, k + 1)
      BY <1>8, <3>1 DEF HoldsFrom
    <3> QED
      BY <1>12, <3>2, MapsKept
  <2>3. fetch.n = (k + 1 + Len(Tail(rest))) * BlockSize
    <3>1. k + 1 + (m - 1) = k + m
      BY <1>5
    <3> QED
      BY <1>3, <1>8, <3>1
  <2>4. Covers(t, p)'
    BY <1>6, <1>11, <1>13, <2>1 DEF Covers
  <2> QED
    BY <1>1, <1>3, <1>11, <1>13, <1>14, <1>15, <2>2, <2>3, <2>4 DEF FetchTrue
<1>22. HitsTrue'
  BY <1>11 DEF CacheOK, HitsTrue
<1> QED
  BY <1>16, <1>17, <1>18, <1>19, <1>20, <1>21, <1>22 DEF CacheOK

LEMMA RebuildKeeps ==
  ASSUME CacheOK, FetchRebuild
  PROVE  CacheOK'
<1>1. PICK r, p, t, ids, k :
        /\ r = fetch.r /\ p = req[fetch.r].prompt /\ t = fetch.table
        /\ ids = fetch.table.ids /\ k = Len(fetch.table.ids)
  OBVIOUS
<1>2. /\ fetch.pc = "claim" /\ fetch.ids = <<>> /\ r \in Requests
      /\ req[r].st = "fetching" /\ r \in DOMAIN tables /\ tables[r] = t
      /\ Covers(t, p) /\ t.n = k * BlockSize /\ t.n <= Len(p) /\ HoldsFrom(ids, p, 0)
      /\ fetch.n = (k + 0) * BlockSize
  BY <1>1 DEF FetchRebuild, CacheOK, FetchTrue, Covers
<1>3. /\ ids \in Seq(Blocks) /\ t \in Table /\ data \in [Blocks -> Seq(Nat)]
      /\ req \in [Requests -> Request] /\ p \in Seq(Nat) /\ Len(p) \in Nat
      /\ k \in Nat /\ t.n \in Nat
  BY <1>1, <1>2 DEF CacheOK, CacheTypes, Table, Request
<1>4. PICK kv : kv = [i \in 1 .. k |-> data[ids[i]]]
  OBVIOUS
<1>5. PICK q :
        /\ q = [st |-> "waiting", prompt |-> p, kv |-> kv, cached |-> t.n,
                rest |-> SubSeq(p, t.n + 1, Len(p))]
           \/ q = [st |-> "waiting", prompt |-> p, kv |-> <<>>, cached |-> 0, rest |-> p]
        /\ req' = [req EXCEPT ![r] = q]
        /\ fetch' = IdleFetch
        /\ UNCHANGED <<poolVars, mapVars, store, clears, torn>>
  <2>1. fetch.n = t.n
    BY <1>2, <1>3
  <2> QED
    BY <1>1, <1>4, <2>1 DEF FetchRebuild, Waiting
<1>6. q \in Request /\ q.st = "waiting" /\ q.prompt = p /\ HitTrue(q)
  <2>1. CASE q = [st |-> "waiting", prompt |-> p, kv |-> kv, cached |-> t.n,
                  rest |-> SubSeq(p, t.n + 1, Len(p))]
    <3>1. kv \in Seq(Seq(Nat)) /\ Len(kv) = k
      BY <1>1, <1>3, <1>4
    <3>2. q.rest \in Seq(Nat) /\ Len(q.rest) = Len(p) - t.n
      <4>1. /\ t.n + 1 \in 1 .. Len(p) + 1
            /\ SubSeq(p, t.n + 1, Len(p)) \in Seq(Nat)
            /\ Len(SubSeq(p, t.n + 1, Len(p))) = Len(p) - t.n
        BY <1>2, <1>3
      <4> QED
        BY <2>1, <4>1
    <3>3. ASSUME NEW i \in 1 .. k PROVE Own(kv[i]) = Chunk(p, i)
      <4>1. 0 + i = i /\ i * BlockSize <= Len(p)
        BY <1>2, <1>3, ChunkInside
      <4>2. Holds(ids[i], Chunk(p, i))
        BY <1>1, <1>2, <4>1 DEF HoldsFrom
      <4> QED
        BY <1>4, <4>2 DEF Holds
    <3>4. q \in Request
      BY <1>3, <2>1, <3>1, <3>2 DEF Request
    <3> QED
      BY <1>2, <1>3, <2>1, <3>1, <3>2, <3>3, <3>4 DEF HitTrue
  <2>2. CASE q = [st |-> "waiting", prompt |-> p, kv |-> <<>>, cached |-> 0, rest |-> p]
    BY <1>3, <2>2, BlockArithmetic DEF HitTrue, Request
  <2> QED
    BY <1>5, <2>1, <2>2
<1>7. Grows
  BY <1>5, SamePool DEF poolVars
<1>8. /\ req'[r] = q /\ \A x \in Requests \ {r} : req'[x] = req[x]
      /\ req' \in [Requests -> Request]
  BY <1>2, <1>3, <1>5, <1>6
<1>9. CacheTypes'
  <2>1. IdleFetch \in [pc : {"idle", "table", "claim"}, r : Nat, ids : Seq(Blocks),
                       n : Nat, table : Table, gen : Nat]
    BY DEF IdleFetch, NoTable, Table
  <2> QED
    BY <1>5, <1>8, <2>1 DEF CacheOK, CacheTypes, poolVars, mapVars
<1>10. BlocksFilled' /\ HashTrue' /\ IndexTrue' /\ RefsCounted'
  BY <1>5, <1>7, MapsKept, RefsKept
     DEF CacheOK, BlocksFilled, Allocated, poolVars, mapVars, Filling
<1>11. TablesTrue'
  <2>1. DOMAIN tables \subseteq Requests
    BY DEF CacheOK, CacheTypes
  <2>2. Covers(t, p)'
    BY <1>2, <1>7, MapsKept DEF Covers
  <2> QED
    BY <1>1, <1>2, <1>5, <1>6, <1>7, <1>8, <2>1, <2>2, MapsKept
       DEF CacheOK, TablesTrue, Covers, mapVars
<1>12. StoreTrue'
  <2>1. store.pc # "idle" => store.r # r /\ store.r \in Requests
    BY <1>2 DEF CacheOK, StoreTrue, CacheTypes
  <2> QED
    BY <1>5, <1>7, <1>8, <2>1, MapsKept
       DEF CacheOK, StoreTrue, Grows, Holds, IsFull, ChunkOf, EndOf, mapVars
<1>13. FetchTrue'
  BY <1>5 DEF FetchTrue, IdleFetch
<1>14. HitsTrue'
  BY <1>6, <1>8 DEF CacheOK, HitsTrue
<1> QED
  BY <1>9, <1>10, <1>11, <1>12, <1>13, <1>14 DEF CacheOK

LEMMA StartKeeps ==
  ASSUME CacheOK, NEW r \in Requests, NEW tok \in Outputs, StoreStart(r, tok)
  PROVE  CacheOK'
<1>1. PICK p, seq, t, ids, k :
        /\ p = req[r].prompt /\ seq = Append(req[r].prompt, tok)
        /\ t = IF r \in DOMAIN tables THEN tables[r] ELSE NoTable
        /\ ids = t.ids /\ k = Len(t.ids)
  OBVIOUS
<1>2. /\ store.pc = "idle" /\ req[r].st = "waiting"
      /\ tables' = Bind(tables, r, t)
      /\ UNCHANGED <<poolVars, hash, index, fetch, clears, torn>>
  BY <1>1 DEF StoreStart
<1>3. store' = [pc |-> "chunk", r |-> r, seq |-> seq, pos |-> t.n, block |-> 0,
                table |-> t, gen |-> clears]
  BY <1>1 DEF StoreStart, IdleStore
<1>4. req' = [req EXCEPT ![r] = [st |-> "done", prompt |-> <<>>, kv |-> <<>>,
                                 cached |-> 0, rest |-> <<>>]]
  <2>1. [NewRequest EXCEPT !.st = "done"] = [st |-> "done", prompt |-> <<>>, kv |-> <<>>,
                                             cached |-> 0, rest |-> <<>>]
    BY DEF NewRequest
  <2> QED
    BY <2>1 DEF StoreStart
<1>5. Covers(t, p) /\ t \in Table
  <2>1. CASE r \in DOMAIN tables
    BY <1>1, <1>2, <2>1 DEF CacheOK, TablesTrue, CacheTypes
  <2>2. CASE r \notin DOMAIN tables
    <3>1. t = [ids |-> <<>>, n |-> 0]
      BY <1>1, <2>2 DEF NoTable
    <3>2. Len(t.ids) = 0 /\ Len(p) \in Nat
      BY <1>1, <3>1 DEF CacheOK, CacheTypes, Request
    <3> QED
      BY <3>1, <3>2, BlockArithmetic DEF Covers, HoldsFrom, Table
  <2> QED
    BY <2>1, <2>2
<1>6. /\ p \in Seq(Nat) /\ seq \in Seq(Nat) /\ Len(seq) = Len(p) + 1 /\ Len(p) \in Nat
      /\ SubSeq(seq, 1, Len(p)) = p /\ k \in Nat /\ ids \in Seq(Blocks) /\ r \in Nat
      /\ req \in [Requests -> Request] /\ t.n = k * BlockSize /\ t.n \in Nat
      /\ clears \in Nat /\ t.n <= Len(p)
  <2>1. tok \in Nat /\ r \in Nat
    BY PagedCacheAssumptions DEF Requests
  <2>2. req \in [Requests -> Request] /\ clears \in Nat
    BY DEF CacheOK, CacheTypes
  <2>3. p \in Seq(Nat)
    BY <1>1, <2>2 DEF Request
  <2>4. seq \in Seq(Nat) /\ Len(seq) = Len(p) + 1 /\ SubSeq(seq, 1, Len(p)) = p
    BY <1>1, <2>1, <2>3
  <2> QED
    BY <1>1, <1>5, <2>1, <2>2, <2>3, <2>4 DEF Covers, Table
<1>7. Grows
  BY <1>2, SamePool DEF poolVars
<1>8. /\ req'[r].st = "done" /\ \A x \in Requests \ {r} : req'[x] = req[x]
      /\ req' \in [Requests -> Request]
  BY <1>4, <1>6 DEF Request
<1>9. /\ DOMAIN tables' = DOMAIN tables \cup {r} /\ tables'[r] = t
      /\ \A x \in DOMAIN tables \ {r} : tables'[x] = tables[x]
  BY <1>2 DEF Bind
<1>10. CacheTypes'
  <2>1. store' \in [pc : {"idle", "chunk", "share", "fill"}, r : Nat, seq : Seq(Nat),
                    pos : Nat, block : Nat, table : Table, gen : Nat]
    BY <1>3, <1>5, <1>6
  <2> QED
    BY <1>2, <1>5, <1>8, <1>9, <2>1 DEF CacheOK, CacheTypes, poolVars
<1>11. BlocksFilled' /\ HashTrue' /\ IndexTrue'
  BY <1>2, <1>3, <1>7, MapsKept DEF CacheOK, BlocksFilled, Allocated, poolVars
<1>12. RefsCounted'
  <2>1. ASSUME NEW b \in Blocks PROVE EntriesOf(b)' = EntriesOf(b)
    <3>1. r \notin DOMAIN tables => t.ids = <<>>
      BY <1>1 DEF NoTable
    <3>2. r \in DOMAIN tables => t = tables[r]
      BY <1>1
    <3> QED
      BY <1>9, <3>1, <3>2 DEF EntriesOf
  <2> QED
    BY <1>2, <1>3, <2>1 DEF CacheOK, RefsCounted, poolVars, Filling
<1>13. TablesTrue'
  <2>1. DOMAIN tables \subseteq Requests
    BY DEF CacheOK, CacheTypes
  <2> QED
    BY <1>2, <1>7, <1>8, <1>9, <2>1, MapsKept DEF CacheOK, TablesTrue, Covers
<1>14. FetchTrue'
  <2>1. fetch.pc # "idle" => fetch.r # r /\ fetch.r \in Requests
    BY <1>2 DEF CacheOK, FetchTrue
  <2> QED
    BY <1>2, <1>7, <1>8, <1>9, <2>1, MapsKept DEF CacheOK, FetchTrue, Covers
<1>15. StoreTrue'
  <2>1. HoldsFrom(ids, seq, 0)
    <3>1. ASSUME NEW i \in 1 .. k PROVE Holds(ids[i], Chunk(seq, i))
      <4>1. 0 + i = i /\ i * BlockSize <= Len(p) /\ i \in Nat \ {0}
        <5>1. k * BlockSize <= Len(p) /\ k \in Nat /\ Len(p) \in Nat
          BY <1>6
        <5> QED
          BY <5>1, ChunkInside
      <4>2. Holds(ids[i], Chunk(p, i))
        BY <1>1, <1>5, <1>6, <4>1 DEF Covers, HoldsFrom
      <4>3. Chunk(seq, i) = Chunk(p, i)
        <5>1. Len(p) \in 0 .. Len(seq)
          BY <1>6
        <5> QED
          BY <1>6, <4>1, <5>1, ChunkOfPrefix
      <4> QED
        BY <4>2, <4>3
    <3> QED
      BY <1>1, <1>6, <3>1 DEF HoldsFrom
  <2>2. HoldsFrom(ids, seq, 0)'
    BY <1>7, <2>1, MapsKept
  <2>3. (k - 1) * BlockSize < Len(seq) /\ t.n <= Len(seq)
    <3>1. (k - 1) * BlockSize = k * BlockSize - BlockSize
      BY <1>6, BlocksOrdered
    <3> QED
      BY <1>6, <3>1, BlockArithmetic
  <2> QED
    BY <1>1, <1>2, <1>3, <1>6, <1>8, <1>9, <2>2, <2>3 DEF StoreTrue
<1>16. HitsTrue'
  BY <1>8 DEF CacheOK, HitsTrue
<1> QED
  BY <1>10, <1>11, <1>12, <1>13, <1>14, <1>15, <1>16 DEF CacheOK

LEMMA BlocksNumbered == Blocks \subseteq Nat
BY PagedCacheAssumptions DEF Blocks

(* Where a store is that has more to store.                                 *)
LEMMA StorePlace ==
  ASSUME CacheOK, store.pc # "idle", store.pos < Len(store.seq)
  PROVE  LET k == Len(store.table.ids) IN
         /\ k \in Nat /\ store.seq \in Seq(Nat) /\ store.pos = k * BlockSize
         /\ store.pos \in Nat /\ Len(store.seq) \in Nat
         /\ (k + 1) * BlockSize = store.pos + BlockSize
         /\ EndOf(store) \in store.pos + 1 .. Len(store.seq)
         /\ IsFull(store) <=> (k + 1) * BlockSize <= Len(store.seq)
         /\ IsFull(store) => /\ EndOf(store) = (k + 1) * BlockSize
                             /\ ChunkOf(store) = Chunk(store.seq, k + 1)
         /\ ~IsFull(store) => EndOf(store) = Len(store.seq)
<1>1. PICK k, seq, pos : k = Len(store.table.ids) /\ seq = store.seq /\ pos = store.pos
  OBVIOUS
<1>2. k \in Nat /\ seq \in Seq(Nat) /\ pos \in Nat /\ Len(seq) \in Nat
  BY <1>1 DEF CacheOK, CacheTypes, Table
<1>3. pos < Len(seq) /\ pos = k * BlockSize
  BY <1>1, <1>2 DEF CacheOK, StoreTrue
<1>4. /\ (k + 1) * BlockSize = pos + BlockSize /\ BlockSize \in Nat /\ BlockSize > 0
      /\ k + 1 - 1 = k
  BY <1>2, <1>3, BlocksOrdered, BlockArithmetic
<1>5. EndOf(store) = IF pos + BlockSize < Len(seq) THEN pos + BlockSize ELSE Len(seq)
  BY <1>1 DEF EndOf
<1>6. IsFull(store) <=> pos + BlockSize <= Len(seq)
  <2>1. IsFull(store) <=> EndOf(store) = pos + BlockSize
    BY <1>1 DEF IsFull
  <2> QED
    BY <1>2, <1>4, <1>5, <2>1
<1>7. ASSUME IsFull(store)
      PROVE  EndOf(store) = pos + BlockSize /\ ChunkOf(store) = Chunk(seq, k + 1)
  <2>1. EndOf(store) = pos + BlockSize
    BY <1>1, <1>7 DEF IsFull
  <2>2. ChunkOf(store) = SubSeq(seq, pos + 1, pos + BlockSize)
    BY <1>1, <2>1 DEF ChunkOf
  <2>3. Chunk(seq, k + 1) = SubSeq(seq, k * BlockSize + 1, (k + 1) * BlockSize)
    BY <1>2, <1>4 DEF Chunk
  <2> QED
    BY <1>3, <1>4, <2>1, <2>2, <2>3
<1>8. EndOf(store) \in pos + 1 .. Len(seq)
  BY <1>2, <1>3, <1>4, <1>5
<1>9. ~IsFull(store) => EndOf(store) = Len(seq)
  BY <1>2, <1>4, <1>5, <1>6
<1> QED
  BY <1>1, <1>2, <1>3, <1>4, <1>6, <1>7, <1>8, <1>9

LEMMA FindCachedKeeps ==
  ASSUME CacheOK, StoreFindCached
  PROVE  CacheOK'
<1>1. /\ store.pc = "chunk" /\ store.pos < Len(store.seq) /\ IsFull(store)
      /\ Cached(ChunkOf(store))
      /\ store' = [store EXCEPT !.pc = "share", !.block = hash[ChunkOf(store)]]
      /\ UNCHANGED <<poolVars, mapVars, req, fetch, clears, torn>>
  BY DEF StoreFindCached, MoreToStore, Dedupes
<1>2. Grows
  BY <1>1, SamePool DEF poolVars
<1>3. PICK c, b : c = ChunkOf(store) /\ b = hash[ChunkOf(store)]
  OBVIOUS
<1>4. Holds(b, c) /\ b \in Blocks
  BY <1>1, <1>3 DEF Cached, CacheOK, HashTrue, Allocated
<1>5. store' \in [pc : {"idle", "chunk", "share", "fill"}, r : Nat, seq : Seq(Nat),
                  pos : Nat, block : Nat, table : Table, gen : Nat]
  BY <1>1, <1>3, <1>4, BlocksNumbered DEF CacheOK, CacheTypes
<1>6. /\ store'.pc = "share" /\ store'.block = b /\ store'.r = store.r
      /\ store'.seq = store.seq /\ store'.pos = store.pos /\ store'.table = store.table
      /\ store'.gen = store.gen
  BY <1>1, <1>3 DEF CacheOK, CacheTypes
<1>7. IsFull(store)' /\ ChunkOf(store)' = c
  <2>1. EndOf(store)' = EndOf(store)
    BY <1>6 DEF EndOf
  <2> QED
    BY <1>1, <1>3, <1>6, <2>1 DEF IsFull, ChunkOf
<1>8. Holds(b, c)'
  BY <1>2, <1>4 DEF Grows, Holds
<1>9. CacheTypes'
  BY <1>1, <1>5 DEF CacheOK, CacheTypes, poolVars, mapVars
<1>10. BlocksFilled' /\ HashTrue' /\ IndexTrue'
  BY <1>1, <1>2, <1>6, MapsKept DEF CacheOK, BlocksFilled, Allocated, poolVars, mapVars
<1>11. RefsCounted'
  BY <1>1, <1>6, RefsKept DEF CacheOK, Filling, poolVars, mapVars
<1>12. TablesTrue' /\ FetchTrue'
  BY <1>1, <1>2, MapsKept DEF CacheOK, TablesTrue, FetchTrue, Covers, mapVars
<1>13. StoreTrue'
  BY <1>1, <1>2, <1>6, <1>7, <1>8, MapsKept DEF CacheOK, StoreTrue, mapVars
<1>14. HitsTrue'
  BY <1>1 DEF CacheOK, HitsTrue
<1> QED
  BY <1>9, <1>10, <1>11, <1>12, <1>13, <1>14 DEF CacheOK

LEMMA AllocateKeeps ==
  ASSUME PoolInv, CacheOK, StoreAllocate
  PROVE  CacheOK'
<1>1. PICK b : b = Head(free)
  OBVIOUS
<1>2. /\ store.pc = "chunk" /\ store.pos < Len(store.seq) /\ free # <<>>
      /\ free' = Tail(free) /\ refs' = [refs EXCEPT ![b] = 1]
      /\ store' = [store EXCEPT !.pc = "fill", !.block = b]
      /\ UNCHANGED <<data, mapVars, req, fetch, clears, torn>>
  BY <1>1 DEF StoreAllocate, MoreToStore
<1>3. b \in Blocks /\ b \notin Allocated /\ Allocated' = Allocated \cup {b}
  BY <1>1, <1>2, TailDistinct DEF PoolInv, Allocated
<1>4. Grows
  BY <1>2, <1>3 DEF Grows
<1>5. store' \in [pc : {"idle", "chunk", "share", "fill"}, r : Nat, seq : Seq(Nat),
                  pos : Nat, block : Nat, table : Table, gen : Nat]
  BY <1>2, <1>3, BlocksNumbered DEF CacheOK, CacheTypes
<1>6. /\ store'.pc = "fill" /\ store'.block = b /\ store'.r = store.r
      /\ store'.seq = store.seq /\ store'.pos = store.pos /\ store'.table = store.table
      /\ store'.gen = store.gen
  BY <1>2 DEF CacheOK, CacheTypes
<1>7. CacheTypes'
  BY <1>2, <1>5 DEF CacheOK, CacheTypes, mapVars
<1>8. BlocksFilled' /\ HashTrue' /\ IndexTrue'
  BY <1>2, <1>3, <1>4, <1>6, MapsKept DEF CacheOK, BlocksFilled, mapVars
<1>9. RefsCounted'
  <2>1. refs[b] = 0 /\ refs \in [Blocks -> Nat]
    BY <1>3 DEF PoolInv
  <2>2. IsFiniteSet(EntriesOf(b)) /\ Cardinality(EntriesOf(b)) = 0
    BY <1>2, <1>3, <2>1, FS_CardinalityType DEF CacheOK, RefsCounted, Filling
  <2>3. \A c \in Blocks : EntriesOf(c)' = EntriesOf(c)
    BY <1>2 DEF EntriesOf, mapVars
  <2>4. \A c \in Blocks : Filling(c) = 0 /\ Filling(c)' = IF c = b THEN 1 ELSE 0
    BY <1>2, <1>6 DEF Filling
  <2>5. refs'[b] = 1 /\ \A c \in Blocks \ {b} : refs'[c] = refs[c]
    BY <1>2, <1>3, <2>1
  <2>6. ASSUME NEW c \in Blocks
        PROVE  IsFiniteSet(EntriesOf(c)') /\ refs'[c] = Cardinality(EntriesOf(c)') + Filling(c)'
    <3>1. CASE c = b
      BY <2>2, <2>3, <2>4, <2>5, <3>1
    <3>2. CASE c # b
      BY <2>3, <2>4, <2>5, <3>2 DEF CacheOK, RefsCounted
    <3> QED
      BY <3>1, <3>2
  <2> QED
    BY <2>6 DEF RefsCounted
<1>10. TablesTrue' /\ FetchTrue'
  BY <1>2, <1>4, MapsKept DEF CacheOK, TablesTrue, FetchTrue, Covers, mapVars
<1>11. StoreTrue'
  BY <1>2, <1>4, <1>6, MapsKept DEF CacheOK, StoreTrue, mapVars
<1>12. HitsTrue'
  BY <1>2 DEF CacheOK, HitsTrue
<1> QED
  BY <1>7, <1>8, <1>9, <1>10, <1>11, <1>12 DEF CacheOK

(* A store that has found or filled a block enters it in the table.         *)
LEMMA BlockStored ==
  ASSUME CacheOK, store.pc \in {"share", "fill"}, NEW b \in Blocks, Grows,
         NEW c, c = ChunkOf(store), IsFull(store) => Holds(b, c)', data' \in [Blocks -> Seq(Nat)],
         store' = Stored(b), tables' = Registered(Stored(b).table, store),
         UNCHANGED <<req, fetch, clears>>
  PROVE  /\ CacheTypes' /\ TablesTrue' /\ FetchTrue' /\ StoreTrue'
         /\ store'.pc = "chunk" /\ store.r \in DOMAIN tables
         /\ tables[store.r] = store.table /\ store.table \in Table
         /\ store'.table.ids = Append(store.table.ids, b)
         /\ tables' = Bind(tables, store.r, store'.table)
<1>1. PICK r, ids, k, seq, pos, end :
        /\ r = store.r /\ ids = store.table.ids /\ k = Len(store.table.ids)
        /\ seq = store.seq /\ pos = store.pos /\ end = EndOf(store)
  OBVIOUS
<1>2. /\ r \in DOMAIN tables /\ r \in Requests /\ req[r].st = "done"
      /\ store.gen = clears /\ tables[r] = store.table /\ pos < Len(seq)
      /\ HoldsFrom(ids, seq, 0)
  BY <1>1 DEF CacheOK, StoreTrue, CacheTypes
<1>3. /\ k \in Nat /\ seq \in Seq(Nat) /\ pos = k * BlockSize /\ pos \in Nat
      /\ (k + 1) * BlockSize = pos + BlockSize /\ end \in pos + 1 .. Len(seq)
      /\ Len(seq) \in Nat
      /\ IsFull(store) <=> (k + 1) * BlockSize <= Len(seq)
      /\ IsFull(store) => end = (k + 1) * BlockSize /\ ChunkOf(store) = Chunk(seq, k + 1)
      /\ ~IsFull(store) => end = Len(seq)
  BY <1>1, <1>2, StorePlace
<1>4. store.table \in Table /\ ids \in Seq(Blocks) /\ store.table.n \in Nat
  BY <1>1 DEF CacheOK, CacheTypes, Table
<1>5. PICK t : t = [ids |-> Append(ids, b), n |-> store.table.n + end - pos]
  OBVIOUS
<1>6. /\ t \in Table /\ t.ids = Append(ids, b) /\ Len(t.ids) = k + 1 /\ t.ids[k + 1] = b
      /\ \A i \in 1 .. k : t.ids[i] = ids[i]
  <2>1. store.table.n + end - pos \in Nat
    <3>1. PICK n : n = store.table.n
      OBVIOUS
    <3>2. n \in Nat /\ pos \in Nat /\ end \in Int /\ end > pos
      BY <1>3, <1>4, <3>1
    <3>3. n + end - pos \in Nat
      BY <3>2
    <3> QED
      BY <3>1, <3>3
  <2>2. /\ Append(ids, b) \in Seq(Blocks) /\ Len(Append(ids, b)) = k + 1
        /\ Append(ids, b)[k + 1] = b /\ \A i \in 1 .. k : Append(ids, b)[i] = ids[i]
    BY <1>1, <1>4
  <2> QED
    BY <1>5, <2>1, <2>2 DEF Table
<1>7. store' = [store EXCEPT !.pc = "chunk", !.pos = end, !.block = 0, !.table = t]
  BY <1>1, <1>5 DEF Stored
<1>8. /\ store'.pc = "chunk" /\ store'.r = r /\ store'.seq = seq /\ store'.pos = end
      /\ store'.table = t /\ store'.gen = clears
  BY <1>1, <1>2, <1>7 DEF CacheOK, CacheTypes
<1>9. store' \in [pc : {"idle", "chunk", "share", "fill"}, r : Nat, seq : Seq(Nat),
                  pos : Nat, block : Nat, table : Table, gen : Nat]
  <2>1. end \in Nat /\ t \in Table
    BY <1>3, <1>6
  <2>2. /\ store.r \in Nat /\ store.seq \in Seq(Nat) /\ store.gen \in Nat
        /\ store' = [pc |-> "chunk", r |-> store.r, seq |-> store.seq, pos |-> end,
                     block |-> 0, table |-> t, gen |-> store.gen]
    BY <1>7 DEF CacheOK, CacheTypes
  <2> QED
    BY <2>1, <2>2
<1>10. tables' = Bind(tables, r, t)
  BY <1>1, <1>2, <1>8 DEF Registered
<1>11. /\ DOMAIN tables' = DOMAIN tables /\ tables'[r] = t
       /\ \A x \in DOMAIN tables \ {r} : tables'[x] = tables[x]
  BY <1>2, <1>10 DEF Bind
<1>12. CacheTypes'
  BY <1>6, <1>9, <1>11 DEF CacheOK, CacheTypes
<1>13. TablesTrue'
  BY <1>2, <1>11, MapsKept DEF CacheOK, TablesTrue, Covers
<1>14. FetchTrue'
  <2>1. fetch.pc # "idle" => fetch.r # r
    BY <1>2 DEF CacheOK, FetchTrue
  <2> QED
    BY <1>11, <2>1, MapsKept DEF CacheOK, FetchTrue, Covers
<1>15. HoldsFrom(t.ids, seq, 0)'
  <2>1. ASSUME NEW i \in 1 .. k + 1, i * BlockSize <= Len(seq)
        PROVE  Holds(t.ids[i], Chunk(seq, i))'
    <3>1. CASE i = k + 1
      BY <1>3, <1>6, <2>1, <3>1
    <3>2. CASE i \in 1 .. k
      <4>1. 0 + i = i
        BY <3>2
      <4>2. Holds(ids[i], Chunk(seq, i))
        BY <1>1, <1>2, <2>1, <3>2, <4>1 DEF HoldsFrom
      <4> QED
        BY <1>6, <3>2, <4>2 DEF Grows, Holds
    <3> QED
      BY <1>3, <3>1, <3>2
  <2> QED
    BY <1>3, <1>6, <2>1 DEF HoldsFrom
<1>16. StoreTrue'
  <2>1. (Len(t.ids) - 1) * BlockSize < Len(seq)
    <3>1. Len(t.ids) - 1 = k
      BY <1>3, <1>6
    <3> QED
      BY <1>2, <1>3, <3>1
  <2>2. end <= Len(seq) /\ (end = Len(seq) \/ end = Len(t.ids) * BlockSize)
    BY <1>3, <1>6
  <2> QED
    BY <1>2, <1>8, <1>11, <1>15, <2>1, <2>2 DEF StoreTrue
<1> QED
  BY <1>1, <1>2, <1>4, <1>6, <1>8, <1>10, <1>12, <1>13, <1>14, <1>16

LEMMA ShareKeeps ==
  ASSUME PoolInv, CacheOK, StoreShare
  PROVE  CacheOK'
<1>1. PICK b : b = store.block
  OBVIOUS
<1>2. /\ store.pc = "share" /\ store' = Stored(b)
      /\ tables' = Registered(Stored(b).table, store)
      /\ UNCHANGED <<free, data, hash, index, req, fetch, clears, torn>>
  BY <1>1 DEF StoreShare
<1>3. Holds(b, ChunkOf(store)) /\ b \in Allocated /\ b \in Blocks
  BY <1>1, <1>2 DEF CacheOK, StoreTrue, Holds, Allocated
<1>4. refs' = [refs EXCEPT ![b] = @ + 1]
  BY <1>1, <1>3 DEF StoreShare
<1>5. Grows
  BY <1>2, SamePool
<1>6. PICK c : c = ChunkOf(store)
  OBVIOUS
<1>7. data \in [Blocks -> Seq(Nat)] /\ data' = data /\ free' = free
  BY <1>2 DEF CacheOK, CacheTypes
<1>8. /\ CacheTypes' /\ TablesTrue' /\ FetchTrue' /\ StoreTrue'
      /\ store'.pc = "chunk" /\ store.r \in DOMAIN tables
      /\ tables[store.r] = store.table /\ store.table \in Table
      /\ store'.table.ids = Append(store.table.ids, b)
      /\ tables' = Bind(tables, store.r, store'.table)
  <2>1. Holds(b, c)'
    BY <1>3, <1>5, <1>6 DEF Grows, Holds
  <2> QED
    BY <1>2, <1>3, <1>5, <1>6, <1>7, <2>1, BlockStored
<1>9. BlocksFilled' /\ HashTrue' /\ IndexTrue'
  BY <1>2, <1>5, <1>8, MapsKept DEF CacheOK, BlocksFilled, Allocated
<1>10. RefsCounted'
  <2>1. RefsCounted /\ refs \in [Blocks -> Nat]
    BY DEF CacheOK, PoolInv
  <2>2. \A x \in Blocks : Filling(x)' = Filling(x)
    BY <1>2, <1>8 DEF Filling
  <2> QED
    BY <1>3, <1>4, <1>8, <2>1, <2>2, RefsClaimed
<1>11. HitsTrue'
  BY <1>2 DEF CacheOK, HitsTrue
<1> QED
  BY <1>8, <1>9, <1>10, <1>11 DEF CacheOK

LEMMA FillKeeps ==
  ASSUME PoolInv, CacheOK, StoreFill
  PROVE  CacheOK'
<1>1. PICK b, c, k, seq, end :
        /\ b = store.block /\ c = ChunkOf(store) /\ k = Len(store.table.ids)
        /\ seq = store.seq /\ end = EndOf(store)
  OBVIOUS
<1>2. PICK d : d = SubSeq(seq, 1, end)
  OBVIOUS
<1>3. /\ store.pc = "fill" /\ store.gen = clears /\ store.pos < Len(store.seq)
      /\ b \in Allocated /\ b \in Blocks /\ data[b] = <<>>
      /\ data \in [Blocks -> Seq(Nat)]
  BY <1>1 DEF StoreFill, CacheOK, StoreTrue, BlocksFilled, CacheTypes, Allocated
<1>4. /\ data' = [data EXCEPT ![b] = d]
      /\ hash' = IF IsFull(store) THEN Bind(hash, c, b) ELSE hash
      /\ store' = Stored(b) /\ tables' = Registered(Stored(b).table, store)
      /\ UNCHANGED <<free, refs, index, req, fetch, clears, torn>>
  BY <1>1, <1>2, <1>3 DEF StoreFill
<1>5. /\ k \in Nat /\ seq \in Seq(Nat) /\ end \in 1 .. Len(seq) /\ Len(seq) \in Nat
      /\ IsFull(store) => end = (k + 1) * BlockSize /\ c = Chunk(seq, k + 1)
  BY <1>1, <1>3, StorePlace
<1>6. d \in Seq(Nat) /\ d # <<>> /\ Len(d) = end
  BY <1>2, <1>5
<1>7. IsFull(store) => Own(d) = c
  <2>1. SUFFICES ASSUME IsFull(store) PROVE Own(d) = c
    OBVIOUS
  <2>2. Len(d) = (k + 1) * BlockSize /\ end = (k + 1) * BlockSize /\ k + 1 \in Nat \ {0}
    BY <1>5, <1>6, <2>1
  <2>3. Own(d) = Chunk(d, k + 1)
    BY <1>5, <1>6, <2>2, OwnTokens
  <2>4. Chunk(d, k + 1) = Chunk(seq, k + 1)
    <3>1. end \in 0 .. Len(seq) /\ (k + 1) * BlockSize <= end
      BY <1>5, <2>2
    <3> QED
      BY <1>2, <1>5, <2>2, <3>1, ChunkOfPrefix
  <2> QED
    BY <1>5, <2>1, <2>3, <2>4
<1>8. data' \in [Blocks -> Seq(Nat)] /\ data'[b] = d /\ \A x \in Blocks \ {b} : data'[x] = data[x]
  BY <1>3, <1>4, <1>6
<1>9. Grows
  BY <1>3, <1>4, <1>8 DEF Grows, Allocated
<1>10. IsFull(store) => Holds(b, c)'
  BY <1>3, <1>4, <1>6, <1>7, <1>8 DEF Holds, Allocated
<1>11. /\ CacheTypes' /\ TablesTrue' /\ FetchTrue' /\ StoreTrue'
       /\ store'.pc = "chunk" /\ store.r \in DOMAIN tables
       /\ tables[store.r] = store.table /\ store.table \in Table
       /\ store'.table.ids = Append(store.table.ids, b)
       /\ tables' = Bind(tables, store.r, store'.table)
  BY <1>1, <1>3, <1>4, <1>8, <1>9, <1>10, BlockStored
<1>12. BlocksFilled'
  BY <1>3, <1>4, <1>8, <1>11 DEF CacheOK, BlocksFilled, Allocated
<1>13. HashTrue'
  <2>1. CASE IsFull(store)
    <3>1. hash' = Bind(hash, c, b)
      BY <1>4, <2>1
    <3>2. ASSUME NEW x \in DOMAIN hash, NEW y, y = hash[x] PROVE Holds(y, x)'
      BY <1>9, <3>2 DEF CacheOK, HashTrue, Grows, Holds
    <3>3. DOMAIN hash' = DOMAIN hash \cup {c}
      BY <3>1 DEF Bind
    <3>4. ASSUME NEW x \in DOMAIN hash' PROVE Holds(hash[x], x)'
      <4>1. CASE x = c
        <5>1. hash'[x] = b
          BY <3>1, <3>3, <4>1 DEF Bind
        <5> QED
          BY <1>10, <2>1, <4>1, <5>1 DEF Holds
      <4>2. CASE x # c
        <5>1. x \in DOMAIN hash /\ hash'[x] = hash[x]
          BY <3>1, <3>3, <4>2 DEF Bind
        <5> QED
          BY <3>2, <5>1 DEF Holds
      <4> QED
        BY <4>1, <4>2
    <3> QED
      BY <3>4 DEF HashTrue
  <2>2. CASE ~IsFull(store)
    BY <1>4, <1>9, <2>2, MapsKept DEF CacheOK
  <2> QED
    BY <2>1, <2>2
<1>14. IndexTrue'
  BY <1>4, <1>9, MapsKept DEF CacheOK
<1>15. RefsCounted'
  <2>1. PICK n : n = Len(store'.table.ids)
    OBVIOUS
  <2>2. /\ <<store.r, n>> \notin EntriesOf(b)
        /\ EntriesOf(b)' = EntriesOf(b) \cup {<<store.r, n>>}
        /\ \A x \in Blocks \ {b} : EntriesOf(x)' = EntriesOf(x)
    BY <1>3, <1>11, <2>1, EntryAdded
  <2>3. /\ IsFiniteSet(EntriesOf(b)')
        /\ Cardinality(EntriesOf(b)') = Cardinality(EntriesOf(b)) + 1
        /\ Cardinality(EntriesOf(b)) \in Nat
    <3>1. IsFiniteSet(EntriesOf(b))
      BY <1>3 DEF CacheOK, RefsCounted
    <3>2. PICK E, e : E = EntriesOf(b) /\ e = <<store.r, n>>
      OBVIOUS
    <3>3. IsFiniteSet(E) /\ e \notin E /\ EntriesOf(b)' = E \cup {e}
      BY <2>2, <3>1, <3>2
    <3>4. IsFiniteSet(E \cup {e}) /\ Cardinality(E \cup {e}) = Cardinality(E) + 1
      BY <3>3, FS_AddElement
    <3>5. Cardinality(E) \in Nat
      BY <3>3, FS_CardinalityType
    <3> QED
      BY <3>2, <3>3, <3>4, <3>5
  <2>4. \A x \in Blocks : Filling(x)' = 0 /\ Filling(x) = IF x = b THEN 1 ELSE 0
    BY <1>1, <1>3, <1>11 DEF Filling
  <2>5. ASSUME NEW x \in Blocks
        PROVE  IsFiniteSet(EntriesOf(x)') /\ refs'[x] = Cardinality(EntriesOf(x)') + Filling(x)'
    <3>1. CASE x = b
      BY <1>4, <2>3, <2>4, <3>1 DEF CacheOK, RefsCounted
    <3>2. CASE x # b
      BY <1>4, <2>2, <2>4, <3>2 DEF CacheOK, RefsCounted
    <3> QED
      BY <3>1, <3>2
  <2> QED
    BY <2>5 DEF RefsCounted
<1>16. HitsTrue'
  BY <1>4 DEF CacheOK, HitsTrue
<1> QED
  BY <1>11, <1>12, <1>13, <1>14, <1>15, <1>16 DEF CacheOK

(* The index entry made for a prefix p of the stored sequence.              *)
LEMMA PrefixIndexed ==
  ASSUME NEW s \in Seq(Nat), NEW ids \in Seq(Blocks), HoldsFrom(ids, s, 0),
         (Len(ids) - 1) * BlockSize < Len(s), NEW n \in 1 .. Len(ids),
         NEW p, p = Prefix(s, n)
  PROVE  /\ p \in Seq(Nat) /\ SubSeq(ids, 1, n) \in Seq(Blocks)
         /\ HoldsFrom(SubSeq(ids, 1, n), p, 0) /\ Spans(SubSeq(ids, 1, n), p)
<1>1. Len(s) \in Nat /\ Len(ids) \in Nat /\ n \in Nat /\ n <= Len(ids)
  OBVIOUS
<1>2. PICK m : m = IF n * BlockSize < Len(s) THEN n * BlockSize ELSE Len(s)
  OBVIOUS
<1>3. n * BlockSize \in Nat /\ m \in 0 .. Len(s) /\ m <= n * BlockSize
  <2>1. n * BlockSize \in Nat
    BY <1>1, PagedCacheAssumptions
  <2> QED
    BY <1>1, <1>2, <2>1
<1>4. p = SubSeq(s, 1, m) /\ p \in Seq(Nat) /\ Len(p) = m
  BY <1>2, <1>3 DEF Prefix
<1>5. (n - 1) * BlockSize < m
  <2>1. (n - 1) * BlockSize <= (Len(ids) - 1) * BlockSize
    BY <1>1, BlocksOrdered
  <2>2. /\ (n - 1) * BlockSize = n * BlockSize - BlockSize
        /\ (n - 1) * BlockSize \in Int /\ (Len(ids) - 1) * BlockSize \in Int
    BY <1>1, BlocksOrdered
  <2> QED
    BY <1>1, <1>2, <1>3, <2>1, <2>2, BlockArithmetic
<1>6. PICK h : h = SubSeq(ids, 1, n)
  OBVIOUS
<1>7. h \in Seq(Blocks) /\ Len(h) = n /\ \A i \in 1 .. n : h[i] = ids[i]
  BY <1>1, <1>6
<1>8. HoldsFrom(h, p, 0)
  <2>1. ASSUME NEW i \in 1 .. n, i * BlockSize <= m PROVE Holds(h[i], Chunk(p, i))
    <3>1. i \in Nat \ {0} /\ 0 + i = i /\ i \in 1 .. Len(ids)
      BY <1>1
    <3>2. i * BlockSize <= Len(s)
      BY <1>1, <1>3, <2>1, <3>1, PagedCacheAssumptions
    <3>3. Holds(ids[i], Chunk(s, i))
      BY <3>1, <3>2 DEF HoldsFrom
    <3>4. Chunk(p, i) = Chunk(s, i)
      BY <1>3, <1>4, <2>1, <3>1, ChunkOfPrefix
    <3> QED
      BY <1>7, <3>3, <3>4
  <2> QED
    BY <1>1, <1>4, <1>7, <2>1 DEF HoldsFrom
<1>9. Spans(h, p)
  BY <1>3, <1>4, <1>5, <1>7 DEF Spans
<1> QED
  BY <1>4, <1>6, <1>7, <1>8, <1>9

LEMMA FinishKeeps ==
  ASSUME CacheOK, StoreFinish
  PROVE  CacheOK'
<1>1. PICK s, ids : s = store.seq /\ ids = store.table.ids
  OBVIOUS
<1>2. PICK new : new = {Prefix(s, i) : i \in 1 .. Len(ids)}
  OBVIOUS
<1>3. /\ store.pc = "chunk" /\ store' = IdleStore
      /\ index' = [p \in DOMAIN index \cup new |->
                     IF p \in new
                     THEN SubSeq(ids, 1, Max({i \in 1 .. Len(ids) : Prefix(s, i) = p}))
                     ELSE index[p]]
      /\ UNCHANGED <<poolVars, hash, tables, req, fetch, clears, torn>>
  BY <1>1, <1>2 DEF StoreFinish
<1>4. /\ s \in Seq(Nat) /\ ids \in Seq(Blocks) /\ HoldsFrom(ids, s, 0)
      /\ (Len(ids) - 1) * BlockSize < Len(s)
  BY <1>1, <1>3 DEF CacheOK, CacheTypes, StoreTrue, Table
<1>5. Grows
  BY <1>3, SamePool DEF poolVars
<1>6. CacheTypes'
  BY <1>3 DEF CacheOK, CacheTypes, poolVars, IdleStore, NoTable, Table
<1>7. BlocksFilled' /\ HashTrue' /\ RefsCounted' /\ HitsTrue'
  <2>1. \A b \in Blocks : Filling(b)' = Filling(b)
    BY <1>3 DEF Filling, IdleStore
  <2> QED
    BY <1>3, <1>5, <2>1, MapsKept, RefsKept
       DEF CacheOK, BlocksFilled, Allocated, poolVars, HitsTrue, IdleStore
<1>8. TablesTrue' /\ FetchTrue' /\ StoreTrue'
  <2>1. TablesTrue'
    BY <1>3, <1>5, MapsKept DEF CacheOK, TablesTrue, Covers
  <2>2. FetchTrue'
    BY <1>3, <1>5, MapsKept DEF CacheOK, FetchTrue, Covers
  <2>3. StoreTrue'
    BY <1>3 DEF StoreTrue, IdleStore
  <2> QED
    BY <2>1, <2>2, <2>3
<1>9. IndexTrue'
  <2>1. ASSUME NEW p \in new
        PROVE  /\ p \in Seq(Nat) /\ index'[p] \in Seq(Blocks)
               /\ HoldsFrom(index[p], p, 0)' /\ Spans(index'[p], p)
    <3>1. PICK S : S = {i \in 1 .. Len(ids) : Prefix(s, i) = p}
      OBVIOUS
    <3>2. PICK n : n = Max(S)
      OBVIOUS
    <3>3. n \in 1 .. Len(ids) /\ p = Prefix(s, n)
      <4>1. S # {} /\ S \in SUBSET (0 .. Len(ids)) /\ Len(ids) \in Nat
        BY <1>2, <1>4, <2>1, <3>1
      <4>2. n \in S
        BY <3>2, <4>1, MaxIsMax
      <4> QED
        BY <3>1, <4>2
    <3>4. PICK h : h = SubSeq(ids, 1, n)
      OBVIOUS
    <3>5. index'[p] = h
      BY <1>3, <2>1, <3>1, <3>2, <3>4
    <3>6. p \in Seq(Nat) /\ h \in Seq(Blocks) /\ HoldsFrom(h, p, 0) /\ Spans(h, p)
      BY <1>4, <3>3, <3>4, PrefixIndexed
    <3>7. HoldsFrom(h, p, 0)'
      BY <1>5, <3>6, MapsKept
    <3> QED
      BY <3>5, <3>6, <3>7 DEF HoldsFrom, Holds
  <2>2. ASSUME NEW p \in DOMAIN index, p \notin new
        PROVE  /\ p \in Seq(Nat) /\ index'[p] \in Seq(Blocks)
               /\ HoldsFrom(index[p], p, 0)' /\ Spans(index'[p], p)
    <3>1. PICK h : h = index[p]
      OBVIOUS
    <3>2. index'[p] = h
      BY <1>3, <2>2, <3>1
    <3>3. p \in Seq(Nat) /\ h \in Seq(Blocks) /\ HoldsFrom(h, p, 0) /\ Spans(h, p)
      BY <2>2, <3>1 DEF CacheOK, IndexTrue
    <3>4. HoldsFrom(h, p, 0)'
      BY <1>5, <3>3, MapsKept
    <3> QED
      BY <3>2, <3>3, <3>4 DEF HoldsFrom, Holds
  <2>3. DOMAIN index' = DOMAIN index \cup new
    BY <1>3
  <2> QED
    BY <2>1, <2>2, <2>3 DEF IndexTrue, Spans
<1> QED
  BY <1>6, <1>7, <1>8, <1>9 DEF CacheOK

(* A clear between the calls empties the maps and the tables.               *)
LEMMA ClearKeeps ==
  ASSUME CacheOK, Clear, ~torn'
  PROVE  CacheOK'
<1>1. /\ fetch.pc = "idle" /\ store.pc = "idle" /\ UNCHANGED <<req, fetch, store>>
      /\ refs' = [b \in Blocks |-> 0] /\ data' = [b \in Blocks |-> <<>>]
      /\ hash' = Empty /\ tables' = Empty /\ index' = Empty /\ clears' = clears + 1
  BY DEF Clear
<1>2. free' \in Seq(Blocks) /\ ToSet(free') = Blocks
  BY FullPool DEF Clear
<1>3. clears' \in Nat /\ req' \in [Requests -> Request] /\ HitsTrue'
  BY <1>1 DEF CacheOK, CacheTypes, HitsTrue
<1>4. /\ fetch' \in [pc : {"idle", "table", "claim"}, r : Nat, ids : Seq(Blocks), n : Nat,
                       table : Table, gen : Nat]
      /\ store' \in [pc : {"idle", "chunk", "share", "fill"}, r : Nat, seq : Seq(Nat),
                       pos : Nat, block : Nat, table : Table, gen : Nat]
  BY <1>1 DEF CacheOK, CacheTypes
<1>5. CacheTypes'
  <2>1. DOMAIN tables' = {} /\ data' \in [Blocks -> Seq(Nat)]
    BY <1>1 DEF Empty
  <2> QED
    BY <1>3, <1>4, <2>1 DEF CacheTypes
<1>6. /\ BlocksFilled' /\ HashTrue' /\ IndexTrue' /\ TablesTrue' /\ FetchTrue' /\ StoreTrue'
  <2>1. DOMAIN tables' = {} /\ DOMAIN hash' = {} /\ DOMAIN index' = {}
    BY <1>1 DEF Empty
  <2>2. \A b \in Blocks : data'[b] = <<>>
    BY <1>1
  <2>3. BlocksFilled'
    BY <1>1, <2>2 DEF BlocksFilled, Blocks
  <2> QED
    BY <1>1, <2>1, <2>3 DEF HashTrue, IndexTrue, TablesTrue, FetchTrue, StoreTrue
<1>7. RefsCounted'
  <2>1. ASSUME NEW b \in Blocks
        PROVE  IsFiniteSet(EntriesOf(b)') /\ refs'[b] = Cardinality(EntriesOf(b)') + Filling(b)'
    <3>1. EntriesOf(b)' = {}
      <4>1. DOMAIN tables' = {}
        BY <1>1 DEF Empty
      <4> QED
        BY <4>1 DEF EntriesOf
    <3>2. IsFiniteSet({}) /\ Cardinality({}) = 0
      BY FS_EmptySet
    <3>3. Filling(b)' = 0 /\ refs'[b] = 0
      BY <1>1 DEF Filling
    <3> QED
      BY <3>1, <3>2, <3>3
  <2> QED
    BY <2>1 DEF RefsCounted
<1> QED
  BY <1>3, <1>5, <1>6, <1>7 DEF CacheOK

LEMMA InitCacheOK == Init => CacheOK
<1> SUFFICES ASSUME Init PROVE CacheOK
  OBVIOUS
<1>1. DOMAIN tables = {} /\ DOMAIN hash = {} /\ DOMAIN index = {}
  BY DEF Init, Empty
<1>2. data \in [Blocks -> Seq(Nat)] /\ \A b \in Blocks : data[b] = <<>>
  BY DEF Init
<1>3. CacheTypes
  BY <1>1, <1>2 DEF Init, CacheTypes, NewRequest, Request, IdleFetch, IdleStore, NoTable, Table
<1>4. /\ BlocksFilled /\ HashTrue /\ IndexTrue /\ TablesTrue /\ FetchTrue /\ StoreTrue
      /\ HitsTrue
  BY <1>1, <1>2 DEF Init, BlocksFilled, HashTrue, IndexTrue, TablesTrue, FetchTrue,
                    StoreTrue, HitsTrue, NewRequest, IdleFetch, IdleStore
<1>5. RefsCounted
  <2>1. ASSUME NEW b \in Blocks
        PROVE  IsFiniteSet(EntriesOf(b)) /\ refs[b] = Cardinality(EntriesOf(b)) + Filling(b)
    <3>1. EntriesOf(b) = {}
      BY <1>1 DEF EntriesOf
    <3>2. IsFiniteSet({}) /\ Cardinality({}) = 0
      BY FS_EmptySet
    <3>3. Filling(b) = 0 /\ refs[b] = 0
      BY DEF Init, Filling, IdleStore
    <3> QED
      BY <3>1, <3>2, <3>3
  <2> QED
    BY <2>1 DEF RefsCounted
<1> QED
  BY <1>3, <1>4, <1>5 DEF CacheOK

(* A step of the cache keeps what it knows, unless it tears a call.         *)
LEMMA NextCacheInv == PoolInv /\ CacheInv /\ [Next]_vars => CacheInv'
<1> SUFFICES ASSUME PoolInv, CacheInv, [Next]_vars, ~torn' PROVE CacheOK'
  BY DEF CacheInv
<1>1. CASE Clear
  <2>1. CacheOK
    BY <1>1 DEF Clear, CacheInv
  <2> QED
    BY <1>1, <2>1, ClearKeeps
<1>2. CASE UNCHANGED vars
  <2>1. CacheOK
    BY <1>2 DEF vars, CacheInv
  <2>2. /\ UNCHANGED <<free, refs, data, hash, tables, index>>
        /\ UNCHANGED <<req, fetch, store, clears>>
    BY <1>2 DEF vars, poolVars, mapVars
  <2>3. Grows
    BY <2>2, SamePool
  <2>4. CacheTypes' /\ BlocksFilled' /\ HashTrue' /\ IndexTrue' /\ HitsTrue'
    BY <2>1, <2>2, <2>3, MapsKept DEF CacheOK, CacheTypes, BlocksFilled, Allocated, HitsTrue
  <2>5. RefsCounted'
    BY <2>1, <2>2, RefsKept DEF CacheOK, Filling
  <2>6. TablesTrue' /\ FetchTrue'
    BY <2>1, <2>2, <2>3, MapsKept DEF CacheOK, TablesTrue, FetchTrue, Covers
  <2>7. StoreTrue'
    BY <2>1, <2>2, <2>3, MapsKept
       DEF CacheOK, StoreTrue, Grows, Holds, IsFull, ChunkOf, EndOf
  <2> QED
    BY <2>4, <2>5, <2>6, <2>7 DEF CacheOK
<1>3. CASE Fetch
  <2>1. ASSUME NEW r \in Requests, NEW p \in Prompts, FetchMiss(r, p) PROVE CacheOK'
    <3>1. CacheOK
      BY <2>1 DEF FetchMiss, CacheInv
    <3> QED
      BY <2>1, <3>1, MissKeeps
  <2>2. ASSUME NEW r \in Requests, NEW p \in Prompts, FetchFind(r, p) PROVE CacheOK'
    <3>1. CacheOK
      BY <2>2 DEF FetchFind, CacheInv
    <3> QED
      BY <2>2, <3>1, FindKeeps
  <2>3. CASE FetchTable
    <3>1. CacheOK
      BY <2>3 DEF FetchTable, CacheInv
    <3> QED
      BY <2>3, <3>1, TableKeeps
  <2>4. CASE FetchClaim
    <3>1. CacheOK
      BY <2>4 DEF FetchClaim, CacheInv
    <3> QED
      BY <2>4, <3>1, ClaimKeeps
  <2>5. CASE FetchRebuild
    <3>1. CacheOK
      BY <2>5 DEF FetchRebuild, CacheInv
    <3> QED
      BY <2>5, <3>1, RebuildKeeps
  <2> QED
    BY <1>3, <2>1, <2>2, <2>3, <2>4, <2>5 DEF Fetch
<1>4. CASE Store
  <2>1. ASSUME NEW r \in Requests, NEW tok \in Outputs, StoreStart(r, tok) PROVE CacheOK'
    <3>1. CacheOK
      BY <2>1 DEF StoreStart, CacheInv
    <3> QED
      BY <2>1, <3>1, StartKeeps
  <2>2. CASE StoreFindCached
    <3>1. CacheOK
      BY <2>2 DEF StoreFindCached, CacheInv
    <3> QED
      BY <2>2, <3>1, FindCachedKeeps
  <2>3. CASE StoreShare
    <3>1. CacheOK
      BY <2>3 DEF StoreShare, CacheInv
    <3> QED
      BY <2>3, <3>1, ShareKeeps
  <2>4. CASE StoreAllocate
    <3>1. CacheOK
      BY <2>4 DEF StoreAllocate, CacheInv
    <3> QED
      BY <2>4, <3>1, AllocateKeeps
  <2>5. CASE StoreFill
    <3>1. CacheOK
      BY <2>5 DEF StoreFill, CacheInv
    <3> QED
      BY <2>5, <3>1, FillKeeps
  <2>6. CASE StoreFinish
    <3>1. CacheOK
      BY <2>6 DEF StoreFinish, CacheInv
    <3> QED
      BY <2>6, <3>1, FinishKeeps
  <2> QED
    BY <1>4, <2>1, <2>2, <2>3, <2>4, <2>5, <2>6 DEF Store
<1> QED
  BY <1>1, <1>2, <1>3, <1>4 DEF Next

THEOREM CacheCorrect == Spec => []CacheInv
<1>1. Init => PoolInv /\ CacheInv
  BY InitPoolInv, InitCacheOK DEF CacheInv
<1>2. PoolInv /\ CacheInv /\ [Next]_vars => PoolInv' /\ CacheInv'
  BY NextPoolInv, NextCacheInv
<1> QED
  BY <1>1, <1>2, PTL DEF Spec

(* No reference is lost and none is left over, in any interleaving of the   *)
(* locked calls a fetch and a store are made of.                            *)
THEOREM RefsCorrect == Spec => []RefsExact
<1>1. CacheInv => RefsExact
  BY DEF CacheInv, CacheOK, RefsCounted, RefsExact
<1> QED
  BY <1>1, CacheCorrect, PTL

(* The hash and the prefix index lead to blocks with the tokens they were   *)
(* asked for, also while a fetch uses what a store has just written.        *)
THEOREM MapsCorrect == Spec => []MapsTrue
<1>1. ASSUME CacheInv PROVE MapsTrue
  <2> SUFFICES ASSUME CacheOK PROVE MapsTrue
    BY <1>1 DEF CacheInv, MapsTrue
  <2>1. \A c \in DOMAIN hash : hash[c] \in Allocated /\ Own(data[hash[c]]) = c
    BY DEF CacheOK, HashTrue, Holds
  <2>2. ASSUME NEW p \in DOMAIN index, NEW i \in 1 .. (Len(p) \div BlockSize)
        PROVE  Own(data[index[p][i]]) = Chunk(p, i)
    <3>1. PICK h, m : h = index[p] /\ m = Len(p)
      OBVIOUS
    <3>2. /\ h \in Seq(Blocks) /\ HoldsFrom(h, p, 0) /\ m <= Len(h) * BlockSize
          /\ m \in Nat /\ Len(h) \in Nat
      BY <3>1 DEF CacheOK, IndexTrue, Spans
    <3>3. i \in Nat \ {0} /\ i \in 0 .. m \div BlockSize /\ 0 + i = i
      BY <3>1, <3>2, BlockArithmetic
    <3>4. i * BlockSize <= m /\ i * BlockSize \in Int /\ Len(h) * BlockSize \in Int
      BY <3>2, <3>3, BlocksWithin, BlocksOrdered
    <3>5. i <= Len(h)
      BY <3>2, <3>3, <3>4, BlocksOrdered
    <3>6. Holds(h[i], Chunk(p, i))
      BY <3>1, <3>2, <3>3, <3>4, <3>5 DEF HoldsFrom
    <3> QED
      BY <3>1, <3>6 DEF Holds
  <2> QED
    BY <2>1, <2>2 DEF MapsTrue
<1> QED
  BY <1>1, CacheCorrect, PTL

(* A hit hands out the KV of exactly the tokens it says it covers.          *)
THEOREM HitsCorrect == Spec => []HitCovers
<1>1. CacheInv => HitCovers
  BY DEF CacheInv, CacheOK, HitsTrue, HitTrue, HitCovers
<1> QED
  BY <1>1, CacheCorrect, PTL
=============================================================================
