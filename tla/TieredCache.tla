---------------------------- MODULE TieredCache ----------------------------
(* The prompt cache of one engine: MemoryAwarePrefixCache in RAM, the SSD   *)
(* tier it spills to, and the part of the scheduler that fetches, promotes, *)
(* reuses and stores KV states (memory_cache.py, ssd_cache.py and the       *)
(* cache code of scheduler.py).                                             *)
(*                                                                          *)
(* Three threads share it and the cache takes no lock around a fetch:       *)
(*   - the event loop runs add_request (fetch, then the SSD index lookup)   *)
(*     and DELETE /v1/cache;                                                *)
(*   - the step worker promotes, schedules and stores;                      *)
(*   - the SSD writer drains the spill queue.                               *)
(* A KV state is modelled by the sequence of tokens it holds, so an entry   *)
(* whose key and contents disagree can be told from one whose do not.       *)
EXTENDS Integers, Sequences, FiniteSets, SequencesExt, Collections

CONSTANTS
  MaxRequests,      \* bound: requests, numbered in the order they arrive
  Prompts,          \* the prompts a client may send: sequences of tokens
  Outputs,          \* the tokens the model may answer with
  Trimmable,        \* kinds of model: can its KV state be cut back?
  MaxMemory,        \* _max_memory; one token of KV costs one unit
  MaxEntries,       \* MemoryCacheConfig.max_entries
  MinPrefix,        \* MemoryCacheConfig.min_prefix_tokens
  RefreshTokens,    \* Scheduler.SNAPSHOT_REFRESH_TOKENS
  SpillQueueSize,   \* SSDCacheConfig.spill_queue_size
  SsdMaxEntries,    \* SSDCacheConfig.max_entries
  DiskFaults,       \* BOOLEAN: may a read or any part of a write fail?
  MaxEvents         \* bound: cache clears, engine stops and crashes

ASSUME TieredCacheAssumptions ==
  /\ Trimmable \subseteq BOOLEAN /\ MaxRequests \in Nat
  /\ Prompts \subseteq Seq(Nat) \ {<<>>} /\ Outputs \subseteq Nat
  /\ MaxMemory \in Nat /\ MaxEntries \in Nat \ {0} /\ MinPrefix \in Nat \ {0}
  /\ RefreshTokens \in Nat
  /\ SpillQueueSize \in Nat \ {0} /\ SsdMaxEntries \in Nat /\ MaxEvents \in Nat
  /\ DiskFaults \in BOOLEAN

VARIABLES
  trimmable,   \* the model's kind
  req,         \* req[r]: the request as the scheduler sees it
  ram,         \* _entries, least recently used first: [key, kv]
  ramBytes,    \* _current_memory
  worker,      \* what the step worker is in the middle of
  spillQ,      \* _spill_queue: entries, or the poison pill
  writer,      \* the SSD writer thread
  index,       \* the SQLite rows [key, bytes], least recently accessed first
  disk,        \* entry directories: [key, kv]
  tier,        \* "on", "closing" (detached, close() not done) or "off"
  closer,      \* where close() is: "none", "put", "join"
  engine,      \* "up", "stopping" or "down"
  events,      \* how many clears, stops and crashes there were
  unenforced   \* history: writes that added their row and did not finish, since
               \* one last did

Requests == 1..MaxRequests
cacheVars == <<ram, ramBytes>>
ssdVars   == <<spillQ, writer, index, disk>>
lifeVars  == <<tier, closer, engine, events, unenforced>>
vars == <<trimmable, req, worker, cacheVars, ssdVars, lifeVars>>

Poison == [key |-> <<>>, kv |-> <<>>]

Bytes(e)  == Len(e.kv)
Keys(es)  == {e.key : e \in es}
RamKeys   == Keys(ToSet(ram))
Removed(es, k) == {e \in es : e.key # k}
Trim(s, n) == IF n < Len(s) THEN SubSeq(s, 1, Len(s) - n) ELSE <<>>
After(s, n) == SubSeq(s, n + 1, Len(s))
\* entries and rows, in a sequence that names no key twice
Keyed(es, k)   == {e \in ToSet(es) : e.key = k}
Delete(es, k)  == Without(es, Keyed(es, k))
MoveToEnd(es, k) == Delete(es, k) \o Within(es, Keyed(es, k))
TotalBytes(es) == Total(ToSet(es), [e \in ToSet(es) |-> Bytes(e)])

NoRow == [key |-> <<>>, bytes |-> 0]
NoMatch == [type |-> "miss", entry |-> Poison]
NewRequest ==
  [st |-> "new", prompt |-> <<>>, hit |-> "miss", scan |-> NoMatch, cand |-> NoRow,
   kv |-> <<>>, key |-> <<>>, rest |-> <<>>, cached |-> 0, replayed |-> FALSE]
Retired(q, st) == [NewRequest EXCEPT !.st = st, !.replayed = q.replayed]
Lost(q) == Retired(q, "lost")
IdleWorker == [pc |-> "idle", r |-> 0, entry |-> Poison]
IdleWriter == [pc |-> "idle", entry |-> Poison]

Init ==
  /\ trimmable \in Trimmable
  /\ req = [r \in Requests |-> NewRequest]
  /\ ram = <<>> /\ ramBytes = 0
  /\ worker = IdleWorker
  /\ spillQ = <<>> /\ writer = IdleWriter /\ index = <<>> /\ disk = {}
  /\ tier = "on" /\ closer = "none" /\ engine = "up" /\ events = 0
  /\ unenforced = 0

----------------------------------------------------------------------------
(* fetch(): exact, supersequence, prefix and longest-common-prefix match    *)
(* over the sorted keys.                                                    *)

LexLess(s, t) ==
  \/ IsStrictPrefix(s, t)
  \/ \E i \in 1..Len(s) :
       /\ i <= Len(t) /\ s[i] < t[i]
       /\ SubSeq(s, 1, i - 1) = SubSeq(t, 1, i - 1)
Common(s, t) == Len(LongestCommonPrefix({s, t}))
EntryOf(k) == CHOOSE e \in ToSet(ram) : e.key = k
Longest(ks) == CHOOSE k \in ks : \A m \in ks :
                 Len(m) < Len(k) \/ (Len(m) = Len(k) /\ ~LexLess(m, k))

\* the two neighbours of p in _sorted_keys
LexMax(ks) == {k \in ks : \A m \in ks : m = k \/ LexLess(m, k)}
LexMin(ks) == {k \in ks : \A m \in ks : m = k \/ LexLess(k, m)}
Neighbours_PreviousOnly(p) == LexMax({k \in RamKeys : LexLess(k, p)})
Neighbours(p) == LexMax({k \in RamKeys : LexLess(k, p)})
                   \cup LexMin({k \in RamKeys : LexLess(p, k)})
BestNeighbour(p) ==
  {k \in Neighbours(p) : \A m \in Neighbours(p) :
      \/ Common(m, p) < Common(k, p)
      \/ (Common(m, p) = Common(k, p) /\ ~LexLess(m, k))}

Supers(p)   == {k \in RamKeys : IsStrictPrefix(p, k)}
Prefixing(p) == {k \in RamKeys : IsStrictPrefix(k, p)}

Match(p) ==
  IF Len(p) < MinPrefix THEN NoMatch
  ELSE IF p \in RamKeys THEN [type |-> "exact", entry |-> EntryOf(p)]
  ELSE IF Supers(p) # {} /\ trimmable
    THEN [type |-> "supersequence", entry |-> EntryOf(Longest(Supers(p)))]
  ELSE IF Prefixing(p) # {}
    THEN [type |-> "prefix", entry |-> EntryOf(Longest(Prefixing(p)))]
  ELSE IF trimmable /\ \E k \in BestNeighbour(p) : Common(k, p) >= MinPrefix
    THEN [type |-> "lcp", entry |-> EntryOf(CHOOSE k \in BestNeighbour(p) : TRUE)]
  ELSE NoMatch

\* the tokens of p that the match covers, and the KV it hands out for them
Covered(m, p) == IF m.type \in {"prefix", "lcp"} THEN Common(m.entry.key, p)
                 ELSE Len(p)
Reused(m, p)  == Trim(m.entry.kv, Len(m.entry.key) - Covered(m, p))

----------------------------------------------------------------------------
(* store(): the least recently used entries make room and are spilled.      *)

\* put_nowait for each evicted entry; a full queue drops it
Enqueue(es) ==
  IF tier # "on" THEN spillQ
  ELSE LET room == SpillQueueSize - Len(spillQ)
       IN spillQ \o SubSeq(es, 1, IF Len(es) < room THEN Len(es) ELSE room)

\* how many entries of es _evict_lru must pop before b more bytes fit
Evictions_IgnoresNew(es, used, b) ==
  LET fits(n) == /\ used - TotalBytes(SubSeq(es, 1, n)) <= MaxMemory
                 /\ Len(es) - n < MaxEntries
      ok == {n \in 0..Len(es) : fits(n)}
  IN IF ok = {} THEN Len(es) ELSE CHOOSE n \in ok : \A m \in ok : n <= m
Evictions(es, used, b) ==
  LET fits(n) == /\ used - TotalBytes(SubSeq(es, 1, n)) + b <= MaxMemory
                 /\ Len(es) - n < MaxEntries
      ok == {n \in 0..Len(es) : fits(n)}
  IN IF ok = {} THEN Len(es) ELSE CHOOSE n \in ok : \A m \in ok : n <= m

Rejected(e) == Len(e.key) < MinPrefix \/ Bytes(e) > MaxMemory

\* store(e.key, e.kv, evict_prefixes) when the counter stands at `used`
Store(e, evictPrefixes, used) ==
  IF Rejected(e)
  THEN ram' = ram /\ ramBytes' = used /\ spillQ' = spillQ
  ELSE IF e.key \in RamKeys
  THEN ram' = MoveToEnd(ram, e.key) /\ ramBytes' = used /\ spillQ' = spillQ
  ELSE LET stays == {x \in ToSet(ram) : ~(evictPrefixes /\ IsStrictPrefix(x.key, e.key))}
           kept  == Within(ram, stays)
           used1 == used - (TotalBytes(ram) - TotalBytes(kept))
           n     == Evictions(kept, used1, Bytes(e))
       IN /\ ram' = Append(After(kept, n), e)
          /\ ramBytes' = used1 - TotalBytes(SubSeq(kept, 1, n)) + Bytes(e)
          /\ spillQ' = Enqueue(SubSeq(kept, 1, n))

----------------------------------------------------------------------------
(* The event loop: add_request and DELETE /v1/cache.                        *)

LoopFree == engine = "up" /\ \A r \in Requests : req[r].st # "scanned"
Next1(r) == req[r].st = "new" /\ \A q \in 1..(r - 1) : req[q].st # "new"

\* add_request: fetch() looks the prompt up
AddScan(r, p) ==
  /\ LoopFree /\ Next1(r)
  /\ req' = [req EXCEPT ![r] =
       [@ EXCEPT !.st = "scanned", !.prompt = p, !.scan = Match(p)]]
  /\ UNCHANGED <<trimmable, worker, cacheVars, ssdVars, lifeVars>>

\* fetch() touches the entry it found and hands its KV out
AddHit(r) ==
  LET m == req[r].scan  p == req[r].prompt IN
  /\ req[r].st = "scanned" /\ m.type # "miss" /\ m.entry.key \in RamKeys
  /\ ram' = MoveToEnd(ram, m.entry.key)
  /\ req' = [req EXCEPT ![r] =
       [@ EXCEPT !.st = "waiting", !.hit = m.type, !.kv = Reused(m, p),
                 !.key = m.entry.key, !.cached = Covered(m, p),
                 !.rest = After(p, Covered(m, p)), !.scan = NoMatch]]
  /\ UNCHANGED <<trimmable, worker, ramBytes, ssdVars, lifeVars>>

\* the worker evicted the entry in between: KeyError, the request is refused
AddRaises(r) ==
  /\ req[r].st = "scanned" /\ req[r].scan.type # "miss"
  /\ req[r].scan.entry.key \notin RamKeys
  /\ req' = [req EXCEPT ![r] = Lost(@)]
  /\ UNCHANGED <<trimmable, worker, cacheVars, ssdVars, lifeVars>>

\* check_ssd(): the longest indexed key that the prompt starts with
SsdCandidates(p) ==
  IF tier # "on" \/ p \in RamKeys THEN {}
  ELSE {row \in ToSet(index) : IsPrefix(row.key, p)}

AddMiss(r) ==
  LET p == req[r].prompt  rows == SsdCandidates(p) IN
  /\ req[r].st = "scanned" /\ req[r].scan.type = "miss"
  /\ \/ /\ rows = {}
        /\ req' = [req EXCEPT ![r] = [@ EXCEPT !.st = "waiting", !.rest = p]]
     \/ \E c \in rows :
          /\ c.key = Longest(Keys(rows))
          /\ req' = [req EXCEPT ![r] =
               [@ EXCEPT !.st = "waiting", !.rest = p, !.hit = "ssd_pending", !.cand = c]]
  /\ UNCHANGED <<trimmable, worker, cacheVars, ssdVars, lifeVars>>

\* clear_runtime_caches(): the counter goes to zero whatever is reserved
Clear ==
  /\ LoopFree /\ events < MaxEvents
  /\ ram' = <<>> /\ ramBytes' = 0 /\ events' = events + 1
  /\ UNCHANGED <<trimmable, req, worker, ssdVars, tier, closer, engine, unenforced>>

----------------------------------------------------------------------------
(* The step worker: promotion from the SSD, scheduling, storing.            *)

Idle(r, st) == engine = "up" /\ worker.pc = "idle" /\ req[r].st = st
Missed(r) == req' = [req EXCEPT ![r].hit = "miss"]

\* release_reserved_memory(): never below zero
Release(n) == IF ramBytes > n THEN ramBytes - n ELSE 0

\* _try_promote_ssd_pending: reserve the bytes the index row names
Reserve(r) ==
  LET n == req[r].cand.bytes IN
  /\ Idle(r, "waiting") /\ req[r].hit = "ssd_pending" /\ tier # "off"
  /\ \/ /\ ramBytes + n > MaxMemory
        /\ Missed(r) /\ UNCHANGED <<ramBytes, worker>>
     \/ /\ ramBytes + n <= MaxMemory
        /\ ramBytes' = ramBytes + n
        /\ worker' = [IdleWorker EXCEPT !.pc = "read", !.r = r]
        /\ UNCHANGED req
  /\ UNCHANGED <<trimmable, ram, ssdVars, lifeVars>>

\* _read_entry: the directory may be gone, or damaged
Read ==
  LET k == req[worker.r].cand.key IN
  /\ worker.pc = "read"
  /\ \/ \E e \in disk :
          e.key = k /\ worker' = [worker EXCEPT !.pc = "promote", !.entry = e]
     \/ /\ DiskFaults \/ k \notin Keys(disk)
        /\ worker' = [worker EXCEPT !.pc = "quarantine"]
  /\ UNCHANGED <<trimmable, req, cacheVars, ssdVars, lifeVars>>

\* _quarantine_entry: moves whatever directory is there now ...
QuarantineDirectory ==
  /\ worker.pc = "quarantine"
  /\ disk' = Removed(disk, req[worker.r].cand.key)
  /\ worker' = [worker EXCEPT !.pc = "unindex"]
  /\ UNCHANGED <<trimmable, req, cacheVars, spillQ, writer, index, lifeVars>>

\* ... then deletes the row, and the promotion gives up
QuarantineRow ==
  LET c == req[worker.r].cand IN
  /\ worker.pc = "unindex"
  /\ index' = Delete(index, c.key)
  /\ ramBytes' = Release(c.bytes)
  /\ Missed(worker.r) /\ worker' = IdleWorker
  /\ UNCHANGED <<trimmable, ram, spillQ, writer, disk, lifeVars>>

\* the read succeeded: release, store under the matched key, reuse
Promote ==
  LET r == worker.r  c == req[r].cand  e == worker.entry IN
  /\ worker.pc = "promote"
  /\ Store(e, FALSE, Release(c.bytes))
  /\ index' = MoveToEnd(index, c.key)
  /\ req' = [req EXCEPT ![r] =
       [@ EXCEPT !.hit = "ssd_hit", !.kv = e.kv, !.key = c.key, !.cached = Len(c.key),
                 !.rest = After(req[r].rest, Len(c.key))]]
  /\ worker' = IdleWorker
  /\ UNCHANGED <<trimmable, writer, disk, lifeVars>>

\* _schedule_waiting: a whole-prompt match from RAM is dropped, any other is used
FullRamMatch(q) == q.rest = <<>> /\ q.hit \in {"exact", "supersequence"}
Forget_KeepsRest(q) == [q EXCEPT !.kv = <<>>, !.cached = 0]
Forget(q) == [q EXCEPT !.kv = <<>>, !.cached = 0, !.rest = q.prompt]

\* insert(): the sequence starts from the KV and is prefilled with the tokens
\* that remain, or with the last one of the prompt where none does
ToProcess(q) == IF q.rest = <<>> THEN <<Last(q.prompt)>> ELSE q.rest
Insert(q) == [q EXCEPT !.st = "running", !.kv = @ \o ToProcess(q),
                       !.replayed = q.rest = <<>>]

Schedule(r) ==
  /\ Idle(r, "waiting")
  /\ req' = [req EXCEPT ![r] = IF FullRamMatch(@) THEN Insert(Forget(@)) ELSE Insert(@)]
  /\ UNCHANGED <<trimmable, worker, cacheVars, ssdVars, lifeVars>>

\* the restored cache is invalid, or inserting it fails: full prefill
ScheduleWithoutCache(r) ==
  /\ Idle(r, "waiting") /\ req[r].kv # <<>> /\ ~FullRamMatch(req[r])
  /\ req' = [req EXCEPT ![r] = Insert(Forget(@))]
  /\ UNCHANGED <<trimmable, worker, cacheVars, ssdVars, lifeVars>>

\* its KV bound is wrong: the entry it came from is evicted from both tiers
ScheduleRejected(r) ==
  LET k == req[r].key  both == tier = "on" /\ k \in Keys(ToSet(index)) IN
  /\ Idle(r, "waiting") /\ req[r].kv # <<>> /\ ~FullRamMatch(req[r])
  /\ ram' = Delete(ram, k)
  /\ ramBytes' = ramBytes - TotalBytes(Within(ram, Keyed(ram, k)))
  /\ index' = IF both THEN Delete(index, k) ELSE index
  /\ disk' = IF both THEN Removed(disk, k) ELSE disk
  /\ req' = [req EXCEPT ![r] = Insert(Forget(@))]
  /\ UNCHANGED <<trimmable, worker, spillQ, writer, lifeVars>>

\* _cleanup_finished and _store_prompt_only_cache: the answer is one token
Throttled(q) == q.cached > 0 /\ Len(q.prompt) - q.cached <= RefreshTokens
Finish(r, tok) ==
  LET q == req[r]
      kv == Append(q.kv, tok)
      e == [key |-> Append(q.prompt, tok), kv |-> kv] IN
  /\ Idle(r, "running")
  /\ \/ /\ trimmable \/ (Len(kv) = Len(e.key) /\ ~Throttled(q))
        /\ Store(e, ~trimmable, ramBytes)
     \/ /\ ~trimmable /\ (Len(kv) # Len(e.key) \/ Throttled(q))
        /\ UNCHANGED <<cacheVars, spillQ>>
  /\ req' = [req EXCEPT ![r] = Retired(@, "done")]
  /\ UNCHANGED <<trimmable, worker, writer, index, disk, lifeVars>>

----------------------------------------------------------------------------
(* The writer thread: _writer_loop, _write_entry, _enforce_capacity.        *)

At(pc) == writer.pc = pc
To(pc) == writer' = [writer EXCEPT !.pc = pc]
RowOf(e) == [key |-> e.key, bytes |-> Bytes(e)]
\* has the write in hand added its row?
Owed == IF writer.pc \in {"enforce", "drop"} THEN 1 ELSE 0

WriterTake_NoBreak ==
  /\ At("idle") /\ spillQ # <<>>
  /\ writer' = [pc |-> IF Head(spillQ) = Poison THEN "idle" ELSE "write",
                entry |-> Head(spillQ)]
  /\ spillQ' = Tail(spillQ)
  /\ UNCHANGED <<trimmable, req, worker, cacheVars, index, disk, lifeVars>>

WriterTake ==
  /\ At("idle") /\ spillQ # <<>>
  /\ writer' = [pc |-> IF Head(spillQ) = Poison THEN "exited" ELSE "write",
                entry |-> Head(spillQ)]
  /\ spillQ' = Tail(spillQ)
  /\ UNCHANGED <<trimmable, req, worker, cacheVars, index, disk, lifeVars>>

\* the new directory is complete under its temporary name: the old one goes ...
WriterRemoveOld ==
  /\ At("write") /\ To("rename")
  /\ disk' = Removed(disk, writer.entry.key)
  /\ UNCHANGED <<trimmable, req, worker, cacheVars, spillQ, index, lifeVars>>

\* ... and os.rename puts the new one in its place
WriterRename ==
  /\ At("rename") /\ To("index")
  /\ disk' = disk \cup {writer.entry}
  /\ UNCHANGED <<trimmable, req, worker, cacheVars, spillQ, index, lifeVars>>

\* INSERT OR REPLACE: the row becomes the most recently accessed one
WriterIndex ==
  /\ At("index") /\ To("enforce")
  /\ index' = Append(Delete(index, writer.entry.key), RowOf(writer.entry))
  /\ UNCHANGED <<trimmable, req, worker, cacheVars, spillQ, disk, lifeVars>>

\* _enforce_capacity, one victim at a time: its directory, then its row
WriterEnforce_OneMore ==
  /\ At("enforce")
  /\ \/ /\ Len(index) <= SsdMaxEntries + 1 /\ To("idle") /\ UNCHANGED disk
        /\ unenforced' = 0
     \/ /\ Len(index) > SsdMaxEntries + 1
        /\ disk' = Removed(disk, Head(index).key)
        /\ writer' = [pc |-> "drop", entry |-> [key |-> Head(index).key, kv |-> <<>>]]
        /\ UNCHANGED unenforced
  /\ UNCHANGED <<trimmable, req, worker, cacheVars, spillQ, index,
                 tier, closer, engine, events>>
WriterEnforce ==
  /\ At("enforce")
  /\ \/ /\ Len(index) <= SsdMaxEntries /\ To("idle") /\ UNCHANGED disk
        /\ unenforced' = 0
     \/ /\ Len(index) > SsdMaxEntries
        /\ disk' = Removed(disk, Head(index).key)
        /\ writer' = [pc |-> "drop", entry |-> [key |-> Head(index).key, kv |-> <<>>]]
        /\ UNCHANGED unenforced
  /\ UNCHANGED <<trimmable, req, worker, cacheVars, spillQ, index,
                 tier, closer, engine, events>>

WriterDrop ==
  /\ At("drop") /\ To("enforce")
  /\ index' = Delete(index, writer.entry.key)
  /\ UNCHANGED <<trimmable, req, worker, cacheVars, spillQ, disk, lifeVars>>

\* the write, the insertion of the row, a removal or a deletion that makes room
\* fails: the loop logs it and takes the next spill
WriterFails ==
  /\ DiskFaults /\ writer.pc \notin {"idle", "exited"} /\ To("idle")
  /\ unenforced' = unenforced + Owed
  /\ UNCHANGED <<trimmable, req, worker, cacheVars, spillQ, index, disk,
                 tier, closer, engine, events>>

----------------------------------------------------------------------------
(* Stop, close, start and crash of the engine.                              *)

\* EngineCore.stop(): the loop is cancelled, the worker ends what it is in
StopEngine ==
  /\ LoopFree /\ events < MaxEvents
  /\ engine' = "stopping" /\ events' = events + 1
  /\ UNCHANGED <<trimmable, req, worker, cacheVars, ssdVars, tier, closer, unenforced>>

\* the batch generator is closed, close_ssd_tier() detaches the tier
Detach ==
  /\ engine = "stopping" /\ closer = "none" /\ worker.pc = "idle"
  /\ tier' = "closing" /\ closer' = "put"
  /\ req' = [r \in Requests |-> IF req[r].st = "running" THEN Lost(req[r]) ELSE req[r]]
  /\ UNCHANGED <<trimmable, worker, cacheVars, ssdVars, engine, events, unenforced>>

\* close() asks for the shutdown once, however often it is called
ShutdownRequested_Forgotten == Poison \in ToSet(spillQ)
ShutdownRequested == Poison \in ToSet(spillQ) \/ writer.pc = "exited"

ClosePut ==
  /\ closer = "put" /\ closer' = "join"
  /\ \/ ShutdownRequested /\ UNCHANGED spillQ
     \/ /\ ~ShutdownRequested /\ Len(spillQ) < SpillQueueSize
        /\ spillQ' = Append(spillQ, Poison)
  /\ UNCHANGED <<trimmable, req, worker, cacheVars, writer, index, disk, tier, engine, events,
                 unenforced>>

CloseJoin ==
  /\ closer = "join" /\ writer.pc = "exited"
  /\ tier' = "off" /\ closer' = "none" /\ engine' = "down"
  /\ UNCHANGED <<trimmable, req, worker, cacheVars, ssdVars, events, unenforced>>

\* the queue stays full, or the writer alive, for too long: TimeoutError
CloseTimeout ==
  /\ \/ closer = "put" /\ ~ShutdownRequested /\ Len(spillQ) = SpillQueueSize
     \/ closer = "join" /\ writer.pc # "exited"
  /\ closer' = "none" /\ engine' = "down"
  /\ UNCHANGED <<trimmable, req, worker, cacheVars, ssdVars, tier, events, unenforced>>

\* ensure_ssd_tier(): a tier that is still there is left as it is
StartEngine ==
  /\ engine = "down" /\ engine' = "up"
  /\ \/ tier # "off" /\ UNCHANGED <<tier, ssdVars>>
     \/ LET rows == Within(index, {row \in ToSet(index) : row.key \in Keys(disk)}) IN
        /\ tier = "off" /\ tier' = "on"
        /\ spillQ' = <<>> /\ writer' = IdleWriter
        /\ index' = rows
        /\ disk' = {e \in disk : e.key \in Keys(ToSet(rows))}
  /\ UNCHANGED <<trimmable, req, worker, cacheVars, closer, events, unenforced>>

Crash ==
  /\ events < MaxEvents /\ events' = events + 1
  /\ ram' = <<>> /\ ramBytes' = 0 /\ spillQ' = <<>>
  /\ worker' = IdleWorker /\ writer' = IdleWriter
  /\ tier' = "off" /\ closer' = "none" /\ engine' = "down"
  /\ req' = [r \in Requests |-> IF req[r].st \in {"new", "done"} THEN req[r]
                                ELSE Lost(req[r])]
  /\ unenforced' = unenforced + Owed
  /\ UNCHANGED <<trimmable, index, disk>>

----------------------------------------------------------------------------
WriterStep == \/ WriterTake \/ WriterRemoveOld \/ WriterRename \/ WriterIndex
              \/ WriterEnforce \/ WriterDrop
PromotionStep == Read \/ QuarantineDirectory \/ QuarantineRow \/ Promote
CloseStep == Detach \/ ClosePut \/ CloseJoin
Client == \E r \in Requests : \/ \E p \in Prompts : AddScan(r, p)
                              \/ AddHit(r) \/ AddRaises(r) \/ AddMiss(r)
Serve == \E r \in Requests :
  \/ Reserve(r) \/ Schedule(r) \/ ScheduleWithoutCache(r) \/ ScheduleRejected(r)
  \/ \E tok \in Outputs : Finish(r, tok)
Environment == Clear \/ StopEngine \/ CloseTimeout \/ StartEngine \/ Crash \/ WriterFails

Next == Client \/ Serve \/ PromotionStep \/ WriterStep \/ CloseStep \/ Environment

\* the threads keep running; nobody has to send, clear, stop or crash
Spec == Init /\ [][Next]_vars
          /\ WF_vars(PromotionStep) /\ WF_vars(WriterStep) /\ WF_vars(CloseStep)

----------------------------------------------------------------------------
(* Properties.                                                              *)

\* _current_memory is the sum over the entries whenever no promotion holds a
\* reservation, though DELETE /v1/cache zeroes it while one is held; entries and
\* reservations together never exceed the limits, and no key is cached twice.
MemoryAccounted ==
  /\ worker.pc = "idle" => ramBytes = TotalBytes(ram)
  /\ ramBytes <= MaxMemory /\ TotalBytes(ram) <= MaxMemory /\ Len(ram) <= MaxEntries
  /\ Cardinality(RamKeys) = Len(ram)

\* The poison pill is a drain barrier: nothing is queued behind it, and once
\* close() has returned every spill accepted before it has been written.
DrainBarrier ==
  /\ \A i \in 1..Len(spillQ) : spillQ[i] = Poison => i = Len(spillQ)
  /\ writer.pc = "exited" => spillQ = <<>>
  /\ tier = "off" => spillQ = <<>> /\ writer.pc \in {"idle", "exited"}

\* When the writer rests, the SSD holds no more entries than its configuration
\* allows and one for each write that failed, or crashed, after its row went in;
\* the next write that finishes takes them all away.
IndexCapacity ==
  writer.pc \in {"idle", "exited"} => Len(index) <= SsdMaxEntries + unenforced

\* The two neighbours in the sorted keys suffice: no cached key shares more
\* tokens with the prompt than the one a longest-common-prefix match returns,
\* and a miss means that no key shares min_prefix_tokens with it.
FetchFindsLongest ==
  trimmable => \A p \in Prompts : Len(p) >= MinPrefix =>
    LET m == Match(p)
        best == {n \in {Common(k, p) : k \in RamKeys} : n >= MinPrefix} IN
    /\ m.type = "lcp" => \A n \in best : n <= Covered(m, p)
    /\ m.type = "miss" => best = {}

\* Unless a request re-fed its last token, every KV state, in RAM, queued or on
\* disk, holds the tokens of its key, and every sequence starts from its prompt.
CacheHonest ==
  (\A r \in Requests : ~req[r].replayed) =>
    /\ \A e \in ToSet(ram) \cup ToSet(spillQ) \cup disk : e.kv = e.key
    /\ \A r \in Requests : req[r].st = "running" => req[r].kv = req[r].prompt

\* stop() returns: the step in hand ends, the queued spills are written, the
\* writer meets the poison pill and the engine is down.
StopReturns == engine = "stopping" ~> engine # "stopping"
============================================================================
