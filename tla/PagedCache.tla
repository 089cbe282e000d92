----------------------------- MODULE PagedCache -----------------------------
(* The paged prompt cache: PagedCacheManager's pool of reference-counted    *)
(* blocks and the BlockAwarePrefixCache over it (paged_cache.py,            *)
(* prefix_cache.py), as the scheduler uses them.                            *)
(*                                                                          *)
(* Every call of the pool is locked, but a fetch (event loop) and a store   *)
(* (step worker) are many such calls, and a clear may come between any two: *)
(* one action here is one locked call.  The KV state of a block depends on  *)
(* every token before it, so its data is modelled by the tokens from the    *)
(* start of the sequence it was cut from up to the block's end.             *)
EXTENDS Integers, Sequences, FiniteSets, SequencesExt, FiniteSetsExt, Functions

CONSTANTS
  MaxRequests,   \* bound: requests, numbered in the order they arrive
  Prompts,       \* the prompts a client may send: sequences of tokens
  Outputs,       \* the tokens the model may answer with
  BlockSize,     \* paged_cache_block_size
  NumBlocks,     \* max_cache_blocks without the null block
  MaxClears      \* bound: how often the cache is cleared

ASSUME PagedCacheAssumptions ==
  /\ MaxRequests \in Nat /\ NumBlocks \in Nat /\ MaxClears \in Nat
  /\ BlockSize \in Nat \ {0}
  /\ Prompts \subseteq Seq(Nat) /\ Outputs \subseteq Nat   \* token ids

VARIABLES
  free,     \* free_block_queue: block ids, the next one to allocate first
  refs,     \* ref_count of each block, 0 while it is free
  data,     \* cache_data of each block, <<>> for None
  hash,     \* hash_to_block: from the tokens of a full block to its id
  tables,   \* request_tables: from requests to [ids, n]
  index,    \* _prefix_index: from prefixes of stored sequences to block ids
  req,      \* req[r]: the request as the scheduler sees it
  fetch,    \* the fetch the event loop is in
  store,    \* the store the step worker is in
  clears,   \* how often the cache was cleared
  torn      \* was it ever cleared in the middle of a fetch or a store?

poolVars == <<free, refs, data>>
mapVars  == <<hash, tables, index>>
vars == <<poolVars, mapVars, req, fetch, store, clears, torn>>

Requests == 1..MaxRequests
Blocks   == 1..NumBlocks
Allocated == Blocks \ ToSet(free)
Empty    == [x \in {} |-> x]
NoTable  == [ids |-> <<>>, n |-> 0]
Bind(f, x, y) == [z \in DOMAIN f \cup {x} |-> IF z = x THEN y ELSE f[z]]

NewRequest == [st |-> "new", prompt |-> <<>>, kv |-> <<>>, cached |-> 0, rest |-> <<>>]
IdleFetch  == [pc |-> "idle", r |-> 0, ids |-> <<>>, n |-> 0, table |-> NoTable, gen |-> 0]
IdleStore  == [pc |-> "idle", r |-> 0, seq |-> <<>>, pos |-> 0, block |-> 0,
               table |-> NoTable, gen |-> 0]

Init ==
  /\ free = [i \in 1..NumBlocks |-> i]
  /\ refs = [b \in Blocks |-> 0] /\ data = [b \in Blocks |-> <<>>]
  /\ hash = Empty /\ tables = Empty /\ index = Empty
  /\ req = [r \in Requests |-> NewRequest]
  /\ fetch = IdleFetch /\ store = IdleStore
  /\ clears = 0 /\ torn = FALSE

----------------------------------------------------------------------------
(* fetch_cache() and reconstruct_cache(), called by add_request.            *)

FullBlocks(s) == Len(s) \div BlockSize
UpTo(s, i)    == SubSeq(s, 1, i * BlockSize)
Chunk(s, i)   == SubSeq(s, (i - 1) * BlockSize + 1, i * BlockSize)
Tail1(s)      == Len(s) - ((Len(s) - 1) \div BlockSize) * BlockSize
TokenCount(b) == IF data[b] = <<>> THEN 0 ELSE Tail1(data[b])

\* find_cached_block(): by the tokens of the block alone
Cached(c) == c \in DOMAIN hash /\ hash[c] \in Allocated

\* find_shared_prefix(), or else the longest indexed prefix
Shared(p)  == {k \in 0..FullBlocks(p) : \A i \in 1..k : Cached(Chunk(p, i))}
Indexed(p) == {k \in 1..FullBlocks(p) : UpTo(p, k) \in DOMAIN index}
Found(p) ==
  IF Max(Shared(p)) > 0
  THEN [ids |-> [i \in 1..Max(Shared(p)) |-> hash[Chunk(p, i)]],
        n |-> Max(Shared(p)) * BlockSize]
  ELSE IF Indexed(p) # {}
  THEN [ids |-> index[UpTo(p, Max(Indexed(p)))], n |-> Max(Indexed(p)) * BlockSize]
  ELSE NoTable

Next1(r) == req[r].st = "new" /\ \A q \in 1..(r - 1) : req[q].st # "new"
Waiting(r, p, kv, cached, rest) ==
  req' = [req EXCEPT ![r] = [st |-> "waiting", prompt |-> p, kv |-> kv,
                             cached |-> cached, rest |-> rest]]

FetchMiss(r, p) ==
  /\ fetch.pc = "idle" /\ Next1(r) /\ Found(p) = NoTable
  /\ Waiting(r, p, <<>>, 0, p)
  /\ UNCHANGED <<poolVars, mapVars, fetch, store, clears, torn>>

FetchFind(r, p) ==
  /\ fetch.pc = "idle" /\ Next1(r) /\ Found(p) # NoTable
  /\ fetch' = [IdleFetch EXCEPT !.pc = "table", !.r = r, !.ids = Found(p).ids,
                                !.n = Found(p).n]
  /\ req' = [req EXCEPT ![r] = [st |-> "fetching", prompt |-> p, kv |-> <<>>,
                             cached |-> 0, rest |-> <<>>]]
  /\ UNCHANGED <<poolVars, mapVars, store, clears, torn>>

\* create_block_table()
FetchTable ==
  /\ fetch.pc = "table"
  /\ fetch' = [fetch EXCEPT !.pc = "claim", !.gen = clears]
  /\ tables' = Bind(tables, fetch.r, NoTable)
  /\ UNCHANGED <<poolVars, hash, index, req, store, clears, torn>>

\* a table that was cleared away lives on in the call that holds it
Registered(t, call) == IF call.gen = clears THEN Bind(tables, call.r, t) ELSE tables

FetchClaim_Unchecked ==
  LET b == Head(fetch.ids)
      t == [ids |-> Append(fetch.table.ids, b), n |-> fetch.table.n + TokenCount(b)] IN
  /\ fetch.pc = "claim" /\ fetch.ids # <<>>
  /\ refs' = [refs EXCEPT ![b] = @ + 1]
  /\ fetch' = [fetch EXCEPT !.ids = Tail(@), !.table = t]
  /\ tables' = Registered(t, fetch)
  /\ UNCHANGED <<free, data, hash, index, req, store, clears, torn>>

\* increment_ref() and the table entry of one block, if it is allocated
FetchClaim ==
  LET b == Head(fetch.ids)
      t == [ids |-> Append(fetch.table.ids, b), n |-> fetch.table.n + TokenCount(b)] IN
  /\ fetch.pc = "claim" /\ fetch.ids # <<>>
  /\ \/ /\ b \in Allocated
        /\ refs' = [refs EXCEPT ![b] = @ + 1]
        /\ fetch' = [fetch EXCEPT !.ids = Tail(@), !.table = t]
        /\ tables' = Registered(t, fetch)
     \/ /\ b \notin Allocated
        /\ fetch' = [fetch EXCEPT !.ids = Tail(@)]
        /\ UNCHANGED <<refs, tables>>
  /\ UNCHANGED <<free, data, hash, index, req, store, clears, torn>>

\* reconstruct_cache(): all blocks or nothing; the references stay either way
Usable(t) == t.n > 0 /\ \A b \in ToSet(t.ids) : b \in Allocated /\ data[b] # <<>>

FetchRebuild ==
  LET r == fetch.r  p == req[r].prompt  t == fetch.table IN
  /\ fetch.pc = "claim" /\ fetch.ids = <<>>
  /\ \/ Usable(t) /\ Waiting(r, p, [i \in 1..Len(t.ids) |-> data[t.ids[i]]], t.n,
                             SubSeq(p, fetch.n + 1, Len(p)))
     \/ ~Usable(t) /\ Waiting(r, p, <<>>, 0, p)
  /\ fetch' = IdleFetch
  /\ UNCHANGED <<poolVars, mapVars, store, clears, torn>>

----------------------------------------------------------------------------
(* store_cache(), called by _cleanup_finished: the answer is one token.     *)

StoreStart_FromZero(r, tok) ==
  LET t == IF r \in DOMAIN tables THEN tables[r] ELSE NoTable IN
  /\ store.pc = "idle" /\ req[r].st = "waiting"
  /\ tables' = Bind(tables, r, t)
  /\ store' = [IdleStore EXCEPT !.pc = "chunk", !.r = r, !.table = t, !.pos = 0,
                                !.seq = Append(req[r].prompt, tok), !.gen = clears]
  /\ req' = [req EXCEPT ![r] = [NewRequest EXCEPT !.st = "done"]]
  /\ UNCHANGED <<poolVars, hash, index, fetch, clears, torn>>

\* get or create the table; what it covers already is not stored again
StoreStart(r, tok) ==
  LET t == IF r \in DOMAIN tables THEN tables[r] ELSE NoTable IN
  /\ store.pc = "idle" /\ req[r].st = "waiting"
  /\ tables' = Bind(tables, r, t)
  /\ store' = [IdleStore EXCEPT !.pc = "chunk", !.r = r, !.table = t, !.pos = t.n,
                                !.seq = Append(req[r].prompt, tok), !.gen = clears]
  /\ req' = [req EXCEPT ![r] = [NewRequest EXCEPT !.st = "done"]]
  /\ UNCHANGED <<poolVars, hash, index, fetch, clears, torn>>

EndOf(s)  == IF s.pos + BlockSize < Len(s.seq) THEN s.pos + BlockSize ELSE Len(s.seq)
ChunkOf(s) == SubSeq(s.seq, s.pos + 1, EndOf(s))
IsFull(s) == EndOf(s) = s.pos + BlockSize
Dedupes(s) == IsFull(s) /\ Cached(ChunkOf(s))
MoreToStore == store.pc = "chunk" /\ store.pos < Len(store.seq)
Stored(b) == [store EXCEPT !.pc = "chunk", !.pos = EndOf(store), !.block = 0,
                !.table = [ids |-> Append(@.ids, b),
                           n |-> @.n + EndOf(store) - store.pos]]

StoreFindCached ==
  /\ MoreToStore /\ Dedupes(store)
  /\ store' = [store EXCEPT !.pc = "share", !.block = hash[ChunkOf(store)]]
  /\ UNCHANGED <<poolVars, mapVars, req, fetch, clears, torn>>

StoreShare_NoReference ==
  /\ store.pc = "share"
  /\ store' = Stored(store.block)
  /\ tables' = Registered(Stored(store.block).table, store)
  /\ UNCHANGED <<free, refs, data, hash, index, req, fetch, clears, torn>>

\* the entry is made even if the block is gone and increment_ref() fails
StoreShare ==
  LET b == store.block IN
  /\ store.pc = "share"
  /\ refs' = IF b \in Allocated THEN [refs EXCEPT ![b] = @ + 1] ELSE refs
  /\ store' = Stored(b)
  /\ tables' = Registered(Stored(b).table, store)
  /\ UNCHANGED <<free, data, hash, index, req, fetch, clears, torn>>

\* allocate_block()
StoreAllocate ==
  /\ MoreToStore /\ ~Dedupes(store) /\ free # <<>>
  /\ free' = Tail(free)
  /\ refs' = [refs EXCEPT ![Head(free)] = 1]
  /\ store' = [store EXCEPT !.pc = "fill", !.block = Head(free)]
  /\ UNCHANGED <<data, mapVars, req, fetch, clears, torn>>

StoreFill_LocalSlice ==
  LET b == store.block IN
  /\ store.pc = "fill"
  /\ data' = IF store.gen = clears
             THEN [data EXCEPT ![b] = SubSeq(store.seq, 1, BlockSize)] ELSE data
  /\ hash' = IF IsFull(store) THEN Bind(hash, ChunkOf(store), b) ELSE hash
  /\ store' = Stored(b)
  /\ tables' = Registered(Stored(b).table, store)
  /\ UNCHANGED <<free, refs, index, req, fetch, clears, torn>>

\* the block's data, table entry and hash; after a clear() the block is a stale
\* object, but its hash still goes into the new map
StoreFill ==
  LET b == store.block IN
  /\ store.pc = "fill"
  /\ data' = IF store.gen = clears
             THEN [data EXCEPT ![b] = SubSeq(store.seq, 1, EndOf(store))] ELSE data
  /\ hash' = IF IsFull(store) THEN Bind(hash, ChunkOf(store), b) ELSE hash
  /\ store' = Stored(b)
  /\ tables' = Registered(Stored(b).table, store)
  /\ UNCHANGED <<free, refs, index, req, fetch, clears, torn>>

\* everything is stored, or there is no free block and so none to evict
\* (handle_memory_pressure() evicts from the free queue); _update_prefix_index()
Prefix(s, i) == SubSeq(s, 1, IF i * BlockSize < Len(s) THEN i * BlockSize ELSE Len(s))

StoreFinish ==
  LET s == store.seq  ids == store.table.ids
      new == {Prefix(s, i) : i \in 1..Len(ids)}
      last(p) == Max({i \in 1..Len(ids) : Prefix(s, i) = p}) IN
  /\ store.pc = "chunk"
  /\ ~MoreToStore \/ (~Dedupes(store) /\ free = <<>>)
  /\ index' = [p \in DOMAIN index \cup new |->
                 IF p \in new THEN SubSeq(ids, 1, last(p)) ELSE index[p]]
  /\ store' = IdleStore
  /\ UNCHANGED <<poolVars, hash, tables, req, fetch, clears, torn>>

Clear ==
  /\ clears < MaxClears /\ (fetch.pc = "idle" \/ store.pc = "idle")
  /\ free' = [i \in 1..NumBlocks |-> i]
  /\ refs' = [b \in Blocks |-> 0] /\ data' = [b \in Blocks |-> <<>>]
  /\ hash' = Empty /\ tables' = Empty /\ index' = Empty
  /\ clears' = clears + 1
  /\ torn' = (torn \/ fetch.pc # "idle" \/ store.pc # "idle")
  /\ UNCHANGED <<req, fetch, store>>

Fetch == \/ \E r \in Requests, p \in Prompts : FetchMiss(r, p) \/ FetchFind(r, p)
         \/ FetchTable \/ FetchClaim \/ FetchRebuild
Store == \/ \E r \in Requests, tok \in Outputs : StoreStart(r, tok)
         \/ StoreFindCached \/ StoreShare \/ StoreAllocate \/ StoreFill \/ StoreFinish

Next == Fetch \/ Store \/ Clear

Spec == Init /\ [][Next]_vars

----------------------------------------------------------------------------
(* Properties.                                                              *)

\* A block is free or referenced, never both, and no block is queued twice,
\* whenever a clear comes.
PoolPartitioned ==
  /\ Cardinality(ToSet(free)) = Len(free)
  /\ \A b \in Blocks : b \in Allocated <=> refs[b] > 0

EntriesOf(b) == UNION {{r} \X {i \in DOMAIN tables[r].ids : tables[r].ids[i] = b} :
                        r \in DOMAIN tables}
Filling(b)   == IF store.pc = "fill" /\ store.block = b THEN 1 ELSE 0

\* Unless a clear cut a call in two, the reference count of a block is the number
\* of its entries in the block tables, plus one while it is being filled.
RefsExact ==
  ~torn => \A b \in Blocks : refs[b] = Cardinality(EntriesOf(b)) + Filling(b)

\* Unless a clear cut a call in two, what the maps say of a block is true: the hash
\* leads to a block with these tokens, the index to blocks with these tokens.
Own(d) == SubSeq(d, Len(d) - Tail1(d) + 1, Len(d))
MapsTrue ==
  ~torn =>
    /\ \A c \in DOMAIN hash : hash[c] \in Allocated /\ Own(data[hash[c]]) = c
    /\ \A p \in DOMAIN index : \A i \in 1..(Len(p) \div BlockSize) :
         Own(data[index[p][i]]) = Chunk(p, i)

\* Unless a clear cut a call in two, a cache hit hands out one block of KV for each
\* block of the prompt that will not be processed, with the tokens of that block.
HitCovers ==
  ~torn => \A r \in Requests : req[r].st = "waiting" =>
    LET q == req[r] IN
    /\ q.cached + Len(q.rest) = Len(q.prompt) /\ Len(q.kv) * BlockSize = q.cached
    /\ \A i \in 1..Len(q.kv) : Own(q.kv[i]) = Chunk(q.prompt, i)

\* "Chain hashing for prefix caching (hash depends on parent block)"
\* (paged_cache.py:19): the KV a request reuses was computed after the tokens that
\* precede it in this prompt, not after those of another one.
SameContext ==
  \A r \in Requests : req[r].st = "waiting" =>
    \A i \in 1..Len(req[r].kv) : req[r].kv[i] = UpTo(req[r].prompt, i)
=============================================================================
