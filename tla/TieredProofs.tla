---------------------------- MODULE TieredProofs ----------------------------
(***************************************************************************)
(* Proofs about TieredCache, for any prompts, limits, kinds of model and   *)
(* faults: memory is accounted for and bounded, the spill queue is drained *)
(* before the tier is closed, the index keeps to its capacity, fetch()     *)
(* finds the longest match, and KV states hold the tokens of their keys.   *)
(***************************************************************************)
EXTENDS TieredCache, QueueTheorems

Tokens == Seq(Nat)
Entry  == [key : Tokens, kv : Tokens]
Row    == [key : Tokens, bytes : Nat]

(* An OrderedDict, or the rows of a table with a primary key. *)
KeysDistinct(s) == Distinct(s) /\ \A x, y \in ToSet(s) : x.key = y.key => x = y

----------------------------------------------------------------------------
(* Sequences that name no key twice.                                        *)

LEMMA PartFacts ==
  ASSUME NEW U, NEW s \in Seq(U), KeysDistinct(s), NEW S
  PROVE  /\ Within(s, S) \in Seq(U) /\ KeysDistinct(Within(s, S))
         /\ ToSet(Within(s, S)) = ToSet(s) \cap S /\ Len(Within(s, S)) <= Len(s)
BY WithinFacts DEF KeysDistinct

LEMMA DeleteFacts ==
  ASSUME NEW U, NEW s \in Seq(U), KeysDistinct(s), NEW k
  PROVE  /\ Delete(s, k) \in Seq(U) /\ KeysDistinct(Delete(s, k))
         /\ ToSet(Delete(s, k)) = {e \in ToSet(s) : e.key # k}
         /\ Len(Delete(s, k)) <= Len(s)
<1>1. ToSet(s) \cap (ToSet(s) \ Keyed(s, k)) = {e \in ToSet(s) : e.key # k}
  BY DEF Keyed
<1> QED
  BY <1>1, PartFacts DEF Delete, Without

LEMMA MoveFacts ==
  ASSUME NEW U, NEW s \in Seq(U), KeysDistinct(s), NEW k
  PROVE  /\ MoveToEnd(s, k) \in Seq(U) /\ KeysDistinct(MoveToEnd(s, k))
         /\ ToSet(MoveToEnd(s, k)) = ToSet(s) /\ Len(MoveToEnd(s, k)) = Len(s)
<1>1. PICK d, w, t : d = Delete(s, k) /\ w = Within(s, Keyed(s, k)) /\ t = MoveToEnd(s, k)
  OBVIOUS
<1>2. /\ d \in Seq(U) /\ KeysDistinct(d) /\ ToSet(d) = {e \in ToSet(s) : e.key # k}
  BY <1>1, DeleteFacts
<1>3. w \in Seq(U) /\ KeysDistinct(w) /\ ToSet(w) = {e \in ToSet(s) : e.key = k}
  <2>1. ToSet(s) \cap Keyed(s, k) = {e \in ToSet(s) : e.key = k}
    BY DEF Keyed
  <2> QED
    BY <1>1, <2>1, PartFacts
<1>4. ToSet(d) \cap ToSet(w) = {} /\ ToSet(d) \cup ToSet(w) = ToSet(s)
  BY <1>2, <1>3
<1>5. t \in Seq(U) /\ Distinct(t) /\ ToSet(t) = ToSet(s)
  <2>1. t = d \o w
    BY <1>1 DEF MoveToEnd
  <2>2. Distinct(d) /\ Distinct(w)
    BY <1>2, <1>3 DEF KeysDistinct
  <2>3. d \o w \in Seq(U) /\ Distinct(d \o w) /\ ToSet(d \o w) = ToSet(d) \cup ToSet(w)
    BY <1>2, <1>3, <1>4, <2>2, ConcatFacts
  <2> QED
    BY <1>4, <2>1, <2>3
<1>6. KeysDistinct(t)
  BY <1>5 DEF KeysDistinct
<1>7. Len(t) = Cardinality(ToSet(s)) /\ Len(s) = Cardinality(ToSet(s))
  BY <1>5, DistinctCounted DEF KeysDistinct
<1> QED
  BY <1>1, <1>5, <1>6, <1>7

LEMMA AppendKeyed ==
  ASSUME NEW U, NEW s \in Seq(U), KeysDistinct(s), NEW e \in U, e.key \notin Keys(ToSet(s))
  PROVE  /\ Append(s, e) \in Seq(U) /\ KeysDistinct(Append(s, e))
         /\ ToSet(Append(s, e)) = ToSet(s) \cup {e} /\ Len(Append(s, e)) = Len(s) + 1
<1>1. e \notin ToSet(s) /\ \A x \in ToSet(s) : x.key # e.key
  BY DEF Keys
<1>2. /\ Append(s, e) \in Seq(U) /\ Distinct(Append(s, e))
      /\ ToSet(Append(s, e)) = ToSet(s) \cup {e}
  BY <1>1, AppendDistinct DEF KeysDistinct
<1> QED
  BY <1>1, <1>2 DEF KeysDistinct

LEMMA NothingKeyed == KeysDistinct(<<>>) /\ ToSet(<<>>) = {} /\ \A U : <<>> \in Seq(U)
BY DEF KeysDistinct, Distinct, ToSet

----------------------------------------------------------------------------
(* Bytes.                                                                   *)

Weight == [e \in Entry |-> Bytes(e)]

LEMMA TotalOfSet ==
  ASSUME NEW s \in Seq(Entry)
  PROVE  /\ TotalBytes(s) = Total(ToSet(s), Weight) /\ TotalBytes(s) \in Nat
         /\ IsFiniteSet(ToSet(s)) /\ ToSet(s) \subseteq Entry
<1>1. ToSet(s) \subseteq Entry
  BY DEF ToSet
<1>2. IsFiniteSet(ToSet(s))
  <2>1. DOMAIN s = 1 .. Len(s) /\ Len(s) \in Nat
    OBVIOUS
  <2>2. IsFiniteSet(1 .. Len(s))
    BY <2>1, FS_Interval
  <2>3. s \in Surjection(1 .. Len(s), ToSet(s))
    BY <2>1 DEF Surjection, ToSet
  <2> QED
    BY <2>2, <2>3, FS_Surjection
<1>3. \A e \in ToSet(s) : Weight[e] = Bytes(e) /\ Weight[e] \in Nat
  BY <1>1 DEF Weight, Entry, Bytes, Tokens
<1>4. Units(ToSet(s), [e \in ToSet(s) |-> Bytes(e)]) = Units(ToSet(s), Weight)
  BY <1>3 DEF Units
<1>5. Total(ToSet(s), Weight) \in Nat
  BY <1>2, <1>3, UnitsFinite
<1> QED
  BY <1>1, <1>2, <1>4, <1>5 DEF TotalBytes, Total

LEMMA TotalSplit ==
  ASSUME NEW s \in Seq(Entry), NEW t \in Seq(Entry), NEW u \in Seq(Entry),
         ToSet(s) = ToSet(t) \cup ToSet(u), ToSet(t) \cap ToSet(u) = {}
  PROVE  TotalBytes(s) = TotalBytes(t) + TotalBytes(u)
<1>1. \A e \in ToSet(t) \cup ToSet(u) : Weight[e] \in Nat
  BY TotalOfSet DEF Weight, Entry, Bytes, Tokens
<1> QED
  BY <1>1, TotalOfSet, TotalUnion

LEMMA TotalSame ==
  ASSUME NEW s \in Seq(Entry), NEW t \in Seq(Entry), ToSet(s) = ToSet(t)
  PROVE  TotalBytes(s) = TotalBytes(t)
BY TotalOfSet

LEMMA TotalNone == TotalBytes(<<>>) = 0
<1>1. <<>> \in Seq(Entry) /\ ToSet(<<>>) = {}
  BY NothingKeyed
<1> QED
  BY <1>1, TotalOfSet, TotalEmpty

LEMMA TotalAppend ==
  ASSUME NEW s \in Seq(Entry), NEW e \in Entry, e \notin ToSet(s)
  PROVE  TotalBytes(Append(s, e)) = TotalBytes(s) + Bytes(e) /\ Bytes(e) \in Nat
<1>1. Bytes(e) \in Nat /\ Weight[e] = Bytes(e)
  BY DEF Weight, Entry, Bytes, Tokens
<1>2. PICK t, u : t = Append(s, e) /\ u = <<e>>
  OBVIOUS
<1>3. u \in Seq(Entry) /\ ToSet(u) = {e}
  <2>1. u \in Seq(Entry) /\ DOMAIN u = {1} /\ u[1] = e
    BY <1>2
  <2> QED
    BY <2>1 DEF ToSet
<1>4. t = s \o u
  BY <1>2, AppendIsConcat
<1>5. t \in Seq(Entry) /\ ToSet(t) = ToSet(s) \cup ToSet(u)
  BY <1>3, <1>4, ConcatFacts
<1>6. TotalBytes(u) = Bytes(e)
  BY <1>1, <1>3, TotalOfSet, TotalOne
<1>7. ToSet(s) \cap ToSet(u) = {}
  BY <1>3
<1>8. TotalBytes(t) = TotalBytes(s) + TotalBytes(u)
  BY <1>3, <1>5, <1>7, TotalSplit
<1> QED
  BY <1>1, <1>2, <1>6, <1>8

----------------------------------------------------------------------------
(* store().                                                                 *)

(* What _evict_lru keeps fits together with the bytes that are to come: it need *)
(* not pop more than all there is.                                              *)
LEMMA EvictionsFacts ==
  ASSUME NEW s \in Seq(Entry), NEW b \in Nat, b <= MaxMemory,
         NEW n, n = Evictions(s, TotalBytes(s), b)
  PROVE  /\ n \in 0 .. Len(s) /\ Len(s) - n < MaxEntries
         /\ TotalBytes(s) - TotalBytes(SubSeq(s, 1, n)) + b <= MaxMemory
<1> DEFINE ok == {i \in 0 .. Len(s) :
                    /\ TotalBytes(s) - TotalBytes(SubSeq(s, 1, i)) + b <= MaxMemory
                    /\ Len(s) - i < MaxEntries}
<1>1. PICK l, w : l = Len(s) /\ w = TotalBytes(s)
  OBVIOUS
<1>2. l \in Nat /\ w \in Nat /\ MaxMemory \in Nat /\ MaxEntries \in Nat /\ MaxEntries > 0
  BY <1>1, TotalOfSet, TieredCacheAssumptions
<1>3. l \in ok
  <2>1. SubSeq(s, 1, l) = s
    BY <1>1, SubSeqFull
  <2>2. w - w + b <= MaxMemory /\ l - l < MaxEntries /\ l \in 0 .. l
    BY <1>2
  <2> QED
    BY <1>1, <2>1, <2>2
<1>4. n = CHOOSE i \in ok : \A m \in ok : i <= m
  <2>1. n = IF ok = {} THEN Len(s) ELSE CHOOSE i \in ok : \A m \in ok : i <= m
    BY DEF Evictions
  <2> HIDE DEF ok
  <2> QED
    BY <1>3, <2>1
<1>5. n \in ok
  <2>1. ok \in SUBSET Nat
    BY <1>1, <1>2
  <2> HIDE DEF ok
  <2>2. \E i \in ok : \A m \in ok : i <= m
    BY <1>3, <2>1, LeastNatural
  <2> QED
    BY <1>4, <2>2
<1> QED
  BY <1>5

(* The cache within its limits. *)
Sound(s) ==
  /\ s \in Seq(Entry) /\ KeysDistinct(s) /\ \A e \in ToSet(s) : e.key # <<>>
  /\ TotalBytes(s) <= MaxMemory /\ Len(s) <= MaxEntries

(* Nothing spills but entries of the cache, and only while the tier is on. *)
Spills(q, s, t) ==
  \/ t = q
  \/ tier = "on" /\ \E u \in Seq(Entry) : t = q \o u /\ ToSet(u) \subseteq ToSet(s)

LEMMA SpillsType ==
  ASSUME NEW q \in Seq(Entry), NEW s, NEW t, Spills(q, s, t)
  PROVE  t \in Seq(Entry)
<1>1. CASE t = q
  BY <1>1
<1>2. CASE \E u \in Seq(Entry) : t = q \o u
  BY <1>2, ConcatFacts
<1> QED
  BY <1>1, <1>2 DEF Spills

LEMMA EnqueueFacts ==
  ASSUME NEW s \in Seq(Entry), NEW es \in Seq(Entry), ToSet(es) \subseteq ToSet(s),
         spillQ \in Seq(Entry), Len(spillQ) <= SpillQueueSize
  PROVE  Spills(spillQ, s, Enqueue(es)) /\ Len(Enqueue(es)) <= SpillQueueSize
<1>1. PICK l, k, room : l = Len(spillQ) /\ k = Len(es) /\ room = SpillQueueSize - l
  OBVIOUS
<1>2. l \in Nat /\ k \in Nat /\ room \in Nat
  BY <1>1, TieredCacheAssumptions
<1>3. PICK n, u : n = (IF k < room THEN k ELSE room) /\ u = SubSeq(es, 1, n)
  OBVIOUS
<1>4. n \in 0 .. k /\ n <= room
  BY <1>2, <1>3
<1>5. u \in Seq(Entry) /\ ToSet(u) \subseteq ToSet(s) /\ Len(u) = n
  BY <1>1, <1>3, <1>4, SliceFacts
<1>6. Enqueue(es) = IF tier # "on" THEN spillQ ELSE spillQ \o u
  BY <1>1, <1>3 DEF Enqueue
<1>7. Len(spillQ \o u) <= SpillQueueSize
  <2>1. Len(spillQ \o u) = l + n
    BY <1>1, <1>5, ConcatFacts
  <2> QED
    BY <1>1, <1>2, <1>4, <2>1, TieredCacheAssumptions
<1> QED
  BY <1>5, <1>6, <1>7 DEF Spills

(* A store keeps the cache within its limits and accounts for what it does. *)
LEMMA StoreFacts ==
  ASSUME Sound(ram), spillQ \in Seq(Entry), Len(spillQ) <= SpillQueueSize,
         NEW e \in Entry, NEW evicts \in BOOLEAN, Store(e, evicts, TotalBytes(ram))
  PROVE  /\ Sound(ram') /\ ramBytes' = TotalBytes(ram')
         /\ ToSet(ram') \subseteq ToSet(ram) \cup {e}
         /\ Spills(spillQ, ram, spillQ') /\ Len(spillQ') <= SpillQueueSize
<1>1. PICK used : used = TotalBytes(ram)
  OBVIOUS
<1>2. ram \in Seq(Entry) /\ KeysDistinct(ram) /\ used \in Nat
  BY <1>1, TotalOfSet DEF Sound
<1>3. CASE Rejected(e)
  BY <1>1, <1>3 DEF Store, Spills
<1>4. CASE ~Rejected(e) /\ e.key \in RamKeys
  <2>1. PICK w : w = MoveToEnd(ram, e.key)
    OBVIOUS
  <2>2. ram' = w /\ ramBytes' = used /\ spillQ' = spillQ
    BY <1>1, <1>4, <2>1 DEF Store
  <2>3. w \in Seq(Entry) /\ KeysDistinct(w) /\ ToSet(w) = ToSet(ram) /\ Len(w) = Len(ram)
    BY <1>2, <2>1, MoveFacts
  <2>4. TotalBytes(w) = used
    BY <1>1, <1>2, <2>3, TotalSame
  <2> QED
    BY <1>1, <2>2, <2>3, <2>4 DEF Sound, Spills
<1>5. CASE ~Rejected(e) /\ e.key \notin RamKeys
  <2>1. PICK kept : kept = Within(ram, {x \in ToSet(ram) : ~(evicts /\ IsStrictPrefix(x.key, e.key))})
    OBVIOUS
  <2>2. /\ kept \in Seq(Entry) /\ KeysDistinct(kept) /\ ToSet(kept) \subseteq ToSet(ram)
        /\ TotalBytes(kept) \in Nat
    BY <1>2, <2>1, PartFacts, TotalOfSet
  <2>3. PICK used1, b, n : /\ used1 = used - (TotalBytes(ram) - TotalBytes(kept))
                           /\ b = Bytes(e) /\ n = Evictions(kept, used1, b)
    OBVIOUS
  <2>4. used1 = TotalBytes(kept) /\ b \in Nat /\ b <= MaxMemory
    <3>1. b \in Nat
      BY <2>3 DEF Entry, Tokens, Bytes
    <3>2. ~(b > MaxMemory)
      BY <1>5, <2>3 DEF Rejected
    <3> QED
      BY <1>1, <1>2, <2>2, <2>3, <3>1, <3>2, TieredCacheAssumptions
  <2>5. /\ n \in 0 .. Len(kept) /\ Len(kept) - n < MaxEntries
        /\ TotalBytes(kept) - TotalBytes(SubSeq(kept, 1, n)) + b <= MaxMemory
    BY <2>2, <2>3, <2>4, EvictionsFacts
  <2>6. PICK p, q : p = SubSeq(kept, 1, n) /\ q = SubSeq(kept, n + 1, Len(kept))
    OBVIOUS
  <2>7. /\ p \in Seq(Entry) /\ q \in Seq(Entry) /\ Len(q) = Len(kept) - n
        /\ ToSet(kept) = ToSet(p) \cup ToSet(q) /\ ToSet(p) \cap ToSet(q) = {}
        /\ KeysDistinct(q) /\ ToSet(p) \subseteq ToSet(ram)
    <3>1. Distinct(kept)
      BY <2>2 DEF KeysDistinct
    <3>2. /\ p \in Seq(Entry) /\ ToSet(p) \subseteq ToSet(kept)
          /\ q \in Seq(Entry) /\ ToSet(q) \subseteq ToSet(kept)
          /\ Distinct(q) /\ Len(q) = Len(kept) - n
          /\ ToSet(kept) = ToSet(p) \cup ToSet(q) /\ ToSet(p) \cap ToSet(q) = {}
      BY <2>2, <2>5, <2>6, <3>1, SliceFacts, SplitFacts
    <3> QED
      BY <2>2, <3>2 DEF KeysDistinct
  <2>8. /\ TotalBytes(kept) = TotalBytes(p) + TotalBytes(q)
        /\ TotalBytes(p) \in Nat /\ TotalBytes(q) \in Nat
    BY <2>2, <2>7, TotalSplit, TotalOfSet
  <2>9. PICK w : w = Append(q, e)
    OBVIOUS
  <2>10. e.key \notin Keys(ToSet(q))
    BY <1>5, <2>2, <2>7 DEF RamKeys, Keys
  <2>11. /\ w \in Seq(Entry) /\ KeysDistinct(w) /\ ToSet(w) = ToSet(q) \cup {e}
         /\ Len(w) = Len(q) + 1
    BY <2>7, <2>9, <2>10, AppendKeyed
  <2>12. TotalBytes(w) = TotalBytes(q) + b
    <3>1. e \notin ToSet(q)
      BY <2>10 DEF Keys
    <3> QED
      BY <2>3, <2>7, <2>9, <3>1, TotalAppend
  <2>13. ram' = w /\ ramBytes' = used1 - TotalBytes(p) + b /\ spillQ' = Enqueue(p)
    BY <1>1, <1>5, <2>1, <2>3, <2>6, <2>9 DEF Store, After
  <2>14. ramBytes' = TotalBytes(w) /\ TotalBytes(w) <= MaxMemory
    BY <2>4, <2>5, <2>6, <2>8, <2>12, <2>13
  <2>15. Len(w) <= MaxEntries
    <3>1. PICK k : k = Len(kept)
      OBVIOUS
    <3>2. k \in Nat /\ n \in 0 .. k /\ k - n < MaxEntries /\ Len(w) = k - n + 1
      BY <2>2, <2>5, <2>7, <2>11, <3>1
    <3> QED
      BY <3>2, TieredCacheAssumptions
  <2>16. \A x \in ToSet(w) : x.key # <<>>
    <3>1. e.key # <<>>
      <4>1. ~(Len(e.key) < MinPrefix) /\ MinPrefix \in Nat /\ MinPrefix > 0
        BY <1>5, TieredCacheAssumptions DEF Rejected
      <4>2. Len(<<>>) = 0
        OBVIOUS
      <4> QED
        BY <4>1, <4>2
    <3> QED
      BY <2>2, <2>7, <2>11, <3>1 DEF Sound
  <2>17. Spills(spillQ, ram, spillQ') /\ Len(spillQ') <= SpillQueueSize
    BY <1>2, <2>7, <2>13, EnqueueFacts
  <2>18. ToSet(w) \subseteq ToSet(ram) \cup {e}
    BY <2>2, <2>7, <2>11
  <2> QED
    BY <2>11, <2>13, <2>14, <2>15, <2>16, <2>17, <2>18 DEF Sound
<1> QED
  BY <1>3, <1>4, <1>5
----------------------------------------------------------------------------
(* The order of the sorted keys.                                            *)

Agree(s, t, n) == n <= Len(s) /\ n <= Len(t) /\ \A i \in 1 .. n : s[i] = t[i]
(* n tokens are shared, and there s ends or has the smaller token. *)
Below(s, t, n) == Agree(s, t, n) /\ n < Len(t) /\ (n < Len(s) => s[n + 1] < t[n + 1])

LEMMA PartsAgree ==
  ASSUME NEW s \in Tokens, NEW t \in Tokens, NEW n \in Nat, n <= Len(s), n <= Len(t)
  PROVE  SubSeq(s, 1, n) = SubSeq(t, 1, n) <=> Agree(s, t, n)
<1>1. PICK u, v : u = SubSeq(s, 1, n) /\ v = SubSeq(t, 1, n)
  OBVIOUS
<1>2. /\ u \in Seq(Nat) /\ Len(u) = n /\ (\A i \in 1 .. n : u[i] = s[i])
      /\ v \in Seq(Nat) /\ Len(v) = n /\ (\A i \in 1 .. n : v[i] = t[i])
  BY <1>1 DEF Tokens
<1>3. u = v <=> \A i \in 1 .. n : u[i] = v[i]
  BY <1>2, SeqEqual
<1> QED
  BY <1>1, <1>2, <1>3 DEF Agree

LEMMA PrefixAgrees ==
  ASSUME NEW s \in Tokens, NEW t \in Tokens
  PROVE  /\ IsPrefix(s, t) <=> Agree(s, t, Len(s))
         /\ IsStrictPrefix(s, t) => Len(s) < Len(t)
<1>1. PICK l, k : l = Len(s) /\ k = Len(t)
  OBVIOUS
<1>2. l \in Nat /\ k \in Nat /\ l <= Len(s)
  BY <1>1 DEF Tokens
<1>3. IsPrefix(s, t) <=> Agree(s, t, l)
  BY <1>1, <1>2, PartsAgree DEF IsPrefix, Agree
<1>4. ASSUME IsPrefix(s, t), l = k PROVE s = t
  <2>1. Len(s) = Len(t) /\ \A i \in 1 .. Len(s) : s[i] = t[i]
    BY <1>1, <1>3, <1>4 DEF Agree
  <2> QED
    BY <2>1, SeqEqual DEF Tokens
<1>5. IsStrictPrefix(s, t) => l < k
  BY <1>1, <1>2, <1>3, <1>4 DEF IsStrictPrefix, Agree
<1> QED
  BY <1>1, <1>3, <1>5

LEMMA LexBelow ==
  ASSUME NEW s \in Tokens, NEW t \in Tokens
  PROVE  LexLess(s, t) <=> \E n \in Nat : Below(s, t, n)
<1>1. PICK l, k : l = Len(s) /\ k = Len(t)
  OBVIOUS
<1>2. l \in Nat /\ k \in Nat /\ (s \in Seq(Nat)) /\ (t \in Seq(Nat))
  BY <1>1 DEF Tokens
<1>3. IsStrictPrefix(s, t) => Below(s, t, l)
  BY <1>1, <1>2, PrefixAgrees DEF IsStrictPrefix, Below
<1>4. ASSUME NEW i \in 1 .. l, i <= k, s[i] < t[i], SubSeq(s, 1, i - 1) = SubSeq(t, 1, i - 1)
      PROVE  Below(s, t, i - 1)
  <2>1. i - 1 \in Nat /\ i - 1 <= l /\ i - 1 <= k /\ i - 1 < k /\ (i - 1) + 1 = i
    BY <1>2, <1>4
  <2>2. Agree(s, t, i - 1)
    BY <1>1, <1>4, <2>1, PartsAgree
  <2> QED
    BY <1>1, <1>4, <2>1, <2>2 DEF Below
<1>5. ASSUME NEW n \in Nat, Below(s, t, n)
      PROVE  LexLess(s, t)
  <2>1. Agree(s, t, n) /\ n < k /\ n <= l
    BY <1>1, <1>5 DEF Below, Agree
  <2>2. CASE n = l
    <3>1. IsPrefix(s, t) /\ s # t
      BY <1>1, <1>2, <2>1, <2>2, PrefixAgrees
    <3> QED
      BY <3>1 DEF LexLess, IsStrictPrefix
  <2>3. CASE n < l
    <3>0. n <= Len(s) /\ n <= Len(t)
      BY <1>1, <1>2, <2>1
    <3>1. SubSeq(s, 1, n) = SubSeq(t, 1, n)
      BY <2>1, <3>0, PartsAgree
    <3>2. n + 1 \in 1 .. l /\ n + 1 <= k /\ (n + 1) - 1 = n /\ s[n + 1] < t[n + 1]
      BY <1>1, <1>2, <1>5, <2>1, <2>3 DEF Below
    <3> QED
      BY <1>1, <3>1, <3>2 DEF LexLess
  <2> QED
    BY <1>2, <2>1, <2>2, <2>3
<1>6. ASSUME LexLess(s, t) PROVE \E n \in Nat : Below(s, t, n)
  <2>1. CASE IsStrictPrefix(s, t)
    BY <1>2, <1>3, <2>1
  <2>2. CASE ~IsStrictPrefix(s, t)
    <3>1. PICK i \in 1 .. l : /\ i <= k /\ s[i] < t[i]
                              /\ SubSeq(s, 1, i - 1) = SubSeq(t, 1, i - 1)
      BY <1>1, <1>6, <2>2 DEF LexLess
    <3>2. i - 1 \in Nat
      BY <1>2
    <3> QED
      BY <1>4, <3>1, <3>2
  <2> QED
    BY <2>1, <2>2
<1> QED
  BY <1>5, <1>6

LEMMA LexIrreflexive ==
  ASSUME NEW s \in Tokens
  PROVE  ~LexLess(s, s)
<1>1. SUFFICES ASSUME NEW n \in Nat, Below(s, s, n) PROVE FALSE
  BY LexBelow
<1>2. n + 1 \in 1 .. Len(s) /\ s[n + 1] < s[n + 1]
  BY <1>1 DEF Below, Tokens
<1>3. s[n + 1] \in Nat
  BY <1>2 DEF Tokens
<1> QED
  BY <1>2, <1>3

LEMMA LexTransitive ==
  ASSUME NEW s \in Tokens, NEW t \in Tokens, NEW u \in Tokens, LexLess(s, t), LexLess(t, u)
  PROVE  LexLess(s, u)
<1>1. PICK n \in Nat : Below(s, t, n)
  BY LexBelow
<1>2. PICK m \in Nat : Below(t, u, m)
  BY LexBelow
<1>3. PICK i, j, k : i = Len(s) /\ j = Len(t) /\ k = Len(u)
  OBVIOUS
<1>4. i \in Nat /\ j \in Nat /\ k \in Nat
  BY <1>3 DEF Tokens
<1>5. /\ n <= i /\ n < j /\ (\A x \in 1 .. n : s[x] = t[x]) /\ (n < i => s[n + 1] < t[n + 1])
      /\ m <= j /\ m < k /\ (\A x \in 1 .. m : t[x] = u[x]) /\ (m < j => t[m + 1] < u[m + 1])
  BY <1>1, <1>2, <1>3 DEF Below, Agree
<1>6. /\ \A x \in 1 .. i : s[x] \in Nat
      /\ \A x \in 1 .. j : t[x] \in Nat
      /\ \A x \in 1 .. k : u[x] \in Nat
  <2>1. /\ \A x \in 1 .. Len(s) : s[x] \in Nat
        /\ \A x \in 1 .. Len(t) : t[x] \in Nat
    BY DEF Tokens
  <2>2. \A x \in 1 .. Len(u) : u[x] \in Nat
    BY DEF Tokens
  <2> QED
    BY <1>3, <2>1, <2>2
<1>7. CASE n < m
  <2>1. n + 1 \in 1 .. m /\ t[n + 1] = u[n + 1] /\ \A x \in 1 .. n : x \in 1 .. m
    BY <1>5, <1>7
  <2>2. n <= i /\ n <= k /\ n < k /\ \A x \in 1 .. n : s[x] = u[x]
    BY <1>4, <1>5, <1>7, <2>1
  <2>3. Below(s, u, n)
    BY <1>3, <1>5, <2>1, <2>2 DEF Below, Agree
  <2> QED
    BY <2>3, LexBelow
<1>8. CASE m < n
  <2>1. m + 1 \in 1 .. n /\ s[m + 1] = t[m + 1] /\ t[m + 1] < u[m + 1]
    BY <1>4, <1>5, <1>8
  <2>2. m <= i /\ m <= k /\ \A x \in 1 .. m : x \in 1 .. n /\ s[x] = u[x]
    BY <1>4, <1>5, <1>8
  <2>3. Below(s, u, m)
    BY <1>3, <1>5, <2>1, <2>2 DEF Below, Agree
  <2> QED
    BY <2>3, LexBelow
<1>9. CASE n = m
  <2>1. \A x \in 1 .. n : s[x] = u[x]
    BY <1>5, <1>9
  <2>2. ASSUME n < i PROVE s[n + 1] < u[n + 1]
    <3>1. n + 1 \in 1 .. i /\ n + 1 \in 1 .. j /\ n + 1 \in 1 .. k
      BY <1>4, <1>5, <1>9, <2>2
    <3>2. s[n + 1] \in Nat /\ t[n + 1] \in Nat /\ u[n + 1] \in Nat
      BY <1>6, <3>1
    <3>3. s[n + 1] < t[n + 1] /\ t[n + 1] < u[n + 1]
      BY <1>5, <1>9, <2>2
    <3> QED
      BY <3>2, <3>3
  <2>3. n <= i /\ n <= k /\ n < k
    BY <1>4, <1>5, <1>9
  <2>4. Below(s, u, n)
    BY <1>3, <2>1, <2>2, <2>3 DEF Below, Agree
  <2> QED
    BY <2>4, LexBelow
<1> QED
  BY <1>7, <1>8, <1>9

LEMMA LexTotal ==
  ASSUME NEW s \in Tokens, NEW t \in Tokens, s # t
  PROVE  LexLess(s, t) \/ LexLess(t, s)
<1>1. PICK i, j : i = Len(s) /\ j = Len(t)
  OBVIOUS
<1>2. i \in Nat /\ j \in Nat
  BY <1>1 DEF Tokens
<1> DEFINE D == {n \in Nat : n = i \/ n = j \/ s[n + 1] # t[n + 1]}
<1>3. PICK n \in D : \A m \in D : n <= m
  <2>1. i \in D /\ D \in SUBSET Nat
    BY <1>2
  <2> HIDE DEF D
  <2> QED
    BY <2>1, LeastNatural
<1>4. n \in Nat /\ n <= i /\ n <= j
  BY <1>2, <1>3
<1>5. \A x \in 1 .. n : s[x] = t[x]
  <2>1. SUFFICES ASSUME NEW x \in 1 .. n PROVE s[x] = t[x]
    OBVIOUS
  <2>2. x - 1 \in Nat /\ x - 1 < n /\ (x - 1) + 1 = x
    BY <1>4
  <2>3. ~(n <= x - 1)
    BY <1>4, <2>2
  <2> QED
    BY <1>3, <2>2, <2>3
<1>6. Agree(s, t, n) /\ Agree(t, s, n)
  BY <1>1, <1>4, <1>5 DEF Agree
<1>7. CASE n = i /\ n = j
  <2>1. Len(s) = Len(t) /\ \A x \in 1 .. Len(s) : s[x] = t[x]
    BY <1>1, <1>5, <1>7
  <2>2. s = t
    BY <2>1, SeqEqual DEF Tokens
  <2> QED
    BY <2>2
<1>8. CASE n = i /\ n < j
  <2>1. Below(s, t, n)
    BY <1>1, <1>2, <1>6, <1>8 DEF Below
  <2> QED
    BY <1>4, <2>1, LexBelow
<1>9. CASE n < i /\ n = j
  <2>1. Below(t, s, n)
    BY <1>1, <1>2, <1>6, <1>9 DEF Below
  <2> QED
    BY <1>4, <2>1, LexBelow
<1>10. CASE n < i /\ n < j
  <2>1. n + 1 \in 1 .. Len(s) /\ n + 1 \in 1 .. Len(t)
    BY <1>1, <1>2, <1>4, <1>10
  <2>2. s[n + 1] \in Nat /\ t[n + 1] \in Nat /\ s[n + 1] # t[n + 1]
    BY <1>2, <1>3, <1>4, <1>10, <2>1 DEF Tokens
  <2>3. Below(s, t, n) \/ Below(t, s, n)
    BY <1>1, <1>6, <1>10, <2>2 DEF Below
  <2> QED
    BY <1>4, <2>3, LexBelow
<1> QED
  BY <1>2, <1>4, <1>7, <1>8, <1>9, <1>10

(* What lies between two keys shares with both all that they share. *)
LEMMA Between ==
  ASSUME NEW s \in Tokens, NEW t \in Tokens, NEW u \in Tokens,
         LexLess(s, t), LexLess(t, u), NEW c \in Nat, Agree(s, u, c)
  PROVE  Agree(s, t, c) /\ Agree(t, u, c)
<1>1. PICK n \in Nat : Below(s, t, n)
  BY LexBelow
<1>2. PICK m \in Nat : Below(t, u, m)
  BY LexBelow
<1>3. PICK i, j, k : i = Len(s) /\ j = Len(t) /\ k = Len(u)
  OBVIOUS
<1>4. i \in Nat /\ j \in Nat /\ k \in Nat
  BY <1>3 DEF Tokens
<1>5. /\ n <= i /\ n < j /\ (\A x \in 1 .. n : s[x] = t[x]) /\ (n < i => s[n + 1] < t[n + 1])
      /\ m <= j /\ m < k /\ (\A x \in 1 .. m : t[x] = u[x]) /\ (m < j => t[m + 1] < u[m + 1])
      /\ c <= i /\ c <= k /\ \A x \in 1 .. c : s[x] = u[x]
  BY <1>1, <1>2, <1>3 DEF Below, Agree
<1>6. /\ \A x \in 1 .. i : s[x] \in Nat
      /\ \A x \in 1 .. j : t[x] \in Nat
      /\ \A x \in 1 .. k : u[x] \in Nat
  <2>1. /\ \A x \in 1 .. Len(s) : s[x] \in Nat
        /\ \A x \in 1 .. Len(t) : t[x] \in Nat
    BY DEF Tokens
  <2>2. \A x \in 1 .. Len(u) : u[x] \in Nat
    BY DEF Tokens
  <2> QED
    BY <1>3, <2>1, <2>2
<1>7. ASSUME n < c PROVE FALSE
  <2>1. n + 1 \in 1 .. c /\ n + 1 \in 1 .. i /\ n + 1 \in 1 .. j /\ n + 1 \in 1 .. k
    BY <1>4, <1>5, <1>7
  <2>2. s[n + 1] = u[n + 1] /\ s[n + 1] < t[n + 1]
    BY <1>4, <1>5, <1>7, <2>1
  <2>3. s[n + 1] \in Nat /\ t[n + 1] \in Nat
    BY <1>6, <2>1
  <2>4. CASE n < m
    <3>1. n + 1 \in 1 .. m
      BY <2>4
    <3>2. t[n + 1] = u[n + 1]
      BY <1>5, <3>1
    <3> QED
      BY <2>2, <2>3, <3>2
  <2>5. CASE m < n
    <3>1. m + 1 \in 1 .. n /\ m + 1 \in 1 .. c /\ m + 1 \in 1 .. i /\ m < j
      BY <1>4, <1>5, <1>7, <2>5
    <3>2. s[m + 1] = t[m + 1] /\ s[m + 1] = u[m + 1] /\ t[m + 1] < u[m + 1]
      BY <1>5, <3>1
    <3>3. s[m + 1] \in Nat
      BY <1>6, <3>1
    <3> QED
      BY <3>2, <3>3
  <2>6. CASE n = m
    <3>1. t[n + 1] < u[n + 1]
      BY <1>4, <1>5, <2>6
    <3>2. s[n + 1] < s[n + 1]
      BY <2>2, <2>3, <3>1
    <3> QED
      BY <2>3, <3>2
  <2> QED
    BY <2>4, <2>5, <2>6
<1>8. c <= n /\ c <= j /\ \A x \in 1 .. c : x \in 1 .. n
  BY <1>4, <1>5, <1>7
<1>9. \A x \in 1 .. c : s[x] = t[x] /\ t[x] = u[x]
  BY <1>5, <1>8
<1> QED
  BY <1>3, <1>5, <1>8, <1>9 DEF Agree

LEMMA GreatestNatural ==
  ASSUME NEW S \in SUBSET Nat, S # {}, NEW b \in Nat, \A n \in S : n <= b
  PROVE  \E m \in S : \A n \in S : n <= m
<1> DEFINE T == {b - n : n \in S}
<1>1. T \in SUBSET Nat /\ T # {}
  <2>1. \A n \in S : n \in Nat /\ n <= b /\ b - n \in Nat
    OBVIOUS
  <2> QED
    BY <2>1
<1>2. PICK t \in T : \A u \in T : t <= u
  <2> HIDE DEF T
  <2> QED
    BY <1>1, LeastNatural
<1>3. PICK m \in S : t = b - m
  BY <1>2
<1>4. ASSUME NEW n \in S PROVE n <= m
  <2>1. b - m <= b - n
    BY <1>2, <1>3
  <2>2. m \in Nat /\ n \in Nat
    OBVIOUS
  <2> QED
    BY <2>1, <2>2
<1> QED
  BY <1>4

LEMMA CommonFacts ==
  ASSUME NEW s \in Tokens, NEW t \in Tokens
  PROVE  /\ Common(s, t) \in Nat /\ Agree(s, t, Common(s, t))
         /\ \A n \in Nat : Agree(s, t, n) => n <= Common(s, t)
<1>1. PICK P : P = CommonPrefixes({s, t})
  OBVIOUS
<1>2. ASSUME NEW q \in P PROVE Len(q) \in Nat /\ Agree(s, t, Len(q))
  <2>1. IsPrefix(q, s) /\ IsPrefix(q, t) /\ q \in Prefixes(s) \cup Prefixes(t)
    BY <1>1 DEF CommonPrefixes
  <2>2. q \in Tokens
    <3>1. CASE q \in Prefixes(s)
      <4>1. PICK l \in 0 .. Len(s) : q = SubSeq(s, 1, l)
        BY <3>1 DEF Prefixes
      <4> QED
        BY <4>1, SliceFacts DEF Tokens
    <3>2. CASE q \in Prefixes(t)
      <4>1. PICK l \in 0 .. Len(t) : q = SubSeq(t, 1, l)
        BY <3>2 DEF Prefixes
      <4> QED
        BY <4>1, SliceFacts DEF Tokens
    <3> QED
      BY <2>1, <3>1, <3>2
  <2>3. Agree(q, s, Len(q)) /\ Agree(q, t, Len(q))
    BY <2>1, <2>2, PrefixAgrees
  <2> QED
    BY <2>2, <2>3 DEF Agree, Tokens
<1>3. ASSUME NEW n \in Nat, Agree(s, t, n) PROVE \E q \in P : Len(q) = n
  <2>1. PICK q : q = SubSeq(s, 1, n)
    OBVIOUS
  <2>2. n <= Len(s) /\ n <= Len(t) /\ n \in 0 .. Len(s)
    BY <1>3 DEF Agree, Tokens
  <2>3. q \in Tokens /\ Len(q) = n /\ q = SubSeq(t, 1, n)
    BY <1>3, <2>1, <2>2, PartsAgree, SliceFacts DEF Tokens
  <2>4. SubSeq(q, 1, n) = q
    BY <2>3, SubSeqFull DEF Tokens
  <2>5. IsPrefix(q, s) /\ IsPrefix(q, t)
    BY <2>1, <2>2, <2>3, <2>4 DEF IsPrefix
  <2>6. q \in Prefixes(s)
    BY <2>1, <2>2 DEF Prefixes
  <2> QED
    BY <1>1, <2>3, <2>5, <2>6 DEF CommonPrefixes
<1>4. PICK m \in Nat : Agree(s, t, m) /\ \A n \in Nat : Agree(s, t, n) => n <= m
  <2> DEFINE S == {n \in Nat : Agree(s, t, n)}
  <2>1. 0 \in S /\ S \in SUBSET Nat
    BY DEF Agree, Tokens
  <2>2. \A n \in S : n <= Len(s) /\ Len(s) \in Nat
    BY DEF Agree, Tokens
  <2>3. \E m \in S : \A n \in S : n <= m
    <3>1. Len(s) \in Nat
      BY DEF Tokens
    <3> HIDE DEF S
    <3> QED
      BY <2>1, <2>2, <3>1, GreatestNatural
  <2> QED
    BY <2>3
<1>5. PICK q \in P : Len(q) = m
  BY <1>3, <1>4
<1>6. PICK c : c = LongestCommonPrefix({s, t})
  OBVIOUS
<1>7. c = CHOOSE x \in P : \A y \in P : Len(y) <= Len(x)
  BY <1>1, <1>6 DEF LongestCommonPrefix
<1>8. \E x \in P : \A y \in P : Len(y) <= Len(x)
  BY <1>2, <1>4, <1>5
<1>9. c \in P /\ \A y \in P : Len(y) <= Len(c)
  BY <1>7, <1>8
<1>10. Len(c) = m
  BY <1>2, <1>4, <1>5, <1>9
<1>11. Common(s, t) = m
  BY <1>6, <1>10 DEF Common
<1> QED
  BY <1>4, <1>11

LEMMA CommonSymmetric ==
  ASSUME NEW s \in Tokens, NEW t \in Tokens
  PROVE  Common(s, t) = Common(t, s)
<1>1. {s, t} = {t, s}
  OBVIOUS
<1> QED
  BY <1>1 DEF Common

(* A finite set has an element that nothing in it precedes. *)
StrictOrder(R, U) ==
  /\ \A x \in U : <<x, x>> \notin R
  /\ \A x, y, z \in U : <<x, y>> \in R /\ <<y, z>> \in R => <<x, z>> \in R
LEMMA Foremost ==
  ASSUME NEW U, NEW R, StrictOrder(R, U),
         NEW S \in SUBSET U, IsFiniteSet(S), S # {}
  PROVE  \E x \in S : \A y \in S : <<y, x>> \notin R
<1> DEFINE Has(K) == \E x \in K : \A y \in K : <<y, x>> \notin R
           N == {n \in Nat : \A K \in SUBSET U :
                   IsFiniteSet(K) /\ Cardinality(K) = n /\ K # {} => Has(K)}
<1>1. 0 \in N
  <2>1. \A K \in SUBSET U : IsFiniteSet(K) /\ Cardinality(K) = 0 => K = {}
    BY FS_EmptySet
  <2> QED
    BY <2>1
<1>2. ASSUME NEW n \in Nat, n \in N PROVE n + 1 \in N
  <2>1. SUFFICES ASSUME NEW K \in SUBSET U, IsFiniteSet(K), Cardinality(K) = n + 1, K # {}
                 PROVE  Has(K)
    OBVIOUS
  <2>2. PICK a \in K : TRUE
    BY <2>1
  <2>3. PICK L : L = K \ {a}
    OBVIOUS
  <2>4. IsFiniteSet(L) /\ Cardinality(L) = n /\ L \in SUBSET U
    <3>1. IsFiniteSet(L) /\ Cardinality(L) = (n + 1) - 1
      BY <2>1, <2>2, <2>3, FS_RemoveElement
    <3> QED
      BY <2>3, <3>1
  <2>5. K = L \cup {a} /\ a \in U
    BY <2>2, <2>3
  <2>6. CASE L = {}
    BY <2>5, <2>6 DEF StrictOrder
  <2>7. CASE L # {}
    <3>1. PICK x \in L : \A y \in L : <<y, x>> \notin R
      BY <1>2, <2>4, <2>7
    <3>2. CASE <<a, x>> \notin R
      <4>1. \A y \in K : <<y, x>> \notin R
        BY <2>5, <3>1, <3>2
      <4> QED
        BY <2>5, <3>1, <4>1
    <3>3. CASE <<a, x>> \in R
      <4>1. x \in U /\ a \in U
        BY <2>4, <2>5, <3>1
      <4>2. ASSUME NEW y \in K PROVE <<y, a>> \notin R
        <5>1. CASE y = a
          BY <4>1, <5>1 DEF StrictOrder
        <5>2. CASE y \in L
          <6>1. <<y, x>> \notin R /\ y \in U
            BY <2>4, <3>1, <5>2
          <6> QED
            BY <3>3, <4>1, <6>1 DEF StrictOrder
        <5> QED
          BY <2>5, <5>1, <5>2
      <4> QED
        BY <2>5, <4>2
    <3> QED
      BY <3>2, <3>3
  <2> QED
    BY <2>6, <2>7
<1>3. Nat \subseteq N
  <2> HIDE DEF N
  <2> QED
    BY <1>1, <1>2, SetInduction
<1>4. Cardinality(S) \in Nat
  BY FS_CardinalityType
<1> QED
  BY <1>3, <1>4

LEMMA Extremes ==
  ASSUME NEW K \in SUBSET Tokens, IsFiniteSet(K), K # {}
  PROVE  LexMax(K) # {} /\ LexMin(K) # {}
<1>1. PICK R : \A x, y \in Tokens : <<x, y>> \in R <=> LexLess(x, y)
  <2>1. \A x, y \in Tokens :
          <<x, y>> \in {z \in Tokens \X Tokens : LexLess(z[1], z[2])} <=> LexLess(x, y)
    OBVIOUS
  <2> QED
    BY <2>1
<1>2. PICK C : \A x, y \in Tokens : <<x, y>> \in C <=> LexLess(y, x)
  <2>1. \A x, y \in Tokens :
          <<x, y>> \in {z \in Tokens \X Tokens : LexLess(z[2], z[1])} <=> LexLess(y, x)
    OBVIOUS
  <2> QED
    BY <2>1
<1>4. StrictOrder(R, Tokens)
  BY <1>1, LexIrreflexive, LexTransitive DEF StrictOrder
<1>5. StrictOrder(C, Tokens)
  BY <1>2, LexIrreflexive, LexTransitive DEF StrictOrder
<1>6. PICK a \in K : \A y \in K : <<y, a>> \notin R
  BY <1>4, Foremost
<1>7. PICK b \in K : \A y \in K : <<y, b>> \notin C
  BY <1>5, Foremost
<1>8. a \in LexMin(K)
  BY <1>1, <1>6, LexTotal DEF LexMin
<1>9. b \in LexMax(K)
  BY <1>2, <1>7, LexTotal DEF LexMax
<1> QED
  BY <1>8, <1>9

(* The longest, the earliest of them where several are. *)
LEMMA BestExists ==
  ASSUME NEW K \in SUBSET Tokens, IsFiniteSet(K), K # {}, NEW f \in [Tokens -> Nat]
  PROVE  \E k \in K : \A m \in K : f[m] < f[k] \/ (f[m] = f[k] /\ ~LexLess(m, k))
<1>1. PICK R : \A x, y \in Tokens :
        <<x, y>> \in R <=> f[x] > f[y] \/ (f[x] = f[y] /\ LexLess(x, y))
  <2> DEFINE S == {z \in Tokens \X Tokens :
                     f[z[1]] > f[z[2]] \/ (f[z[1]] = f[z[2]] /\ LexLess(z[1], z[2]))}
  <2>1. \A x, y \in Tokens :
          <<x, y>> \in S <=> f[x] > f[y] \/ (f[x] = f[y] /\ LexLess(x, y))
    OBVIOUS
  <2> HIDE DEF S
  <2> QED
    BY <2>1
<1>2. \A x \in Tokens : f[x] \in Nat
  OBVIOUS
<1>3. \A x \in Tokens : <<x, x>> \notin R
  BY <1>1, <1>2, LexIrreflexive
<1>4. ASSUME NEW x \in Tokens, NEW y \in Tokens, NEW z \in Tokens,
             <<x, y>> \in R, <<y, z>> \in R
      PROVE  <<x, z>> \in R
  <2>1. LexLess(x, y) /\ LexLess(y, z) => LexLess(x, z)
    BY LexTransitive
  <2>2. f[x] \in Nat /\ f[y] \in Nat /\ f[z] \in Nat
    BY <1>2
  <2>3. /\ f[x] > f[y] \/ (f[x] = f[y] /\ LexLess(x, y))
        /\ f[y] > f[z] \/ (f[y] = f[z] /\ LexLess(y, z))
    BY <1>1, <1>4
  <2>4. f[x] > f[z] \/ (f[x] = f[z] /\ LexLess(x, z))
    BY <2>1, <2>2, <2>3
  <2> QED
    BY <1>1, <2>4
<1>5. StrictOrder(R, Tokens)
  BY <1>3, <1>4 DEF StrictOrder
<1>6. PICK k \in K : \A m \in K : <<m, k>> \notin R
  BY <1>5, Foremost
<1>7. ASSUME NEW m \in K PROVE f[m] < f[k] \/ (f[m] = f[k] /\ ~LexLess(m, k))
  <2>1. ~(f[m] > f[k]) /\ ~(f[m] = f[k] /\ LexLess(m, k))
    BY <1>1, <1>6
  <2>2. f[m] \in Nat /\ f[k] \in Nat
    BY <1>2
  <2> QED
    BY <2>1, <2>2
<1> QED
  BY <1>7

----------------------------------------------------------------------------
(* fetch().                                                                 *)

LEMMA CachedKeys ==
  ASSUME NEW es \in Seq(Entry), KeysDistinct(es)
  PROVE  /\ Keys(ToSet(es)) \in SUBSET Tokens /\ IsFiniteSet(Keys(ToSet(es)))
         /\ Cardinality(Keys(ToSet(es))) = Len(es)
<1>1. IsFiniteSet(ToSet(es)) /\ ToSet(es) \subseteq Entry
  BY TotalOfSet
<1>2. Cardinality(ToSet(es)) = Len(es)
  BY DistinctCounted DEF KeysDistinct
<1>3. PICK f : f = [e \in ToSet(es) |-> e.key]
  OBVIOUS
<1>4. f \in Bijection(ToSet(es), Keys(ToSet(es)))
  <2>1. f \in [ToSet(es) -> Keys(ToSet(es))]
    BY <1>3 DEF Keys
  <2>2. \A x, y \in ToSet(es) : f[x] = f[y] => x = y
    BY <1>3 DEF KeysDistinct
  <2>3. \A k \in Keys(ToSet(es)) : \E x \in ToSet(es) : f[x] = k
    BY <1>3 DEF Keys
  <2> QED
    BY <2>1, <2>2, <2>3 DEF Bijection, Injection, Surjection, IsInjective
<1>5. IsFiniteSet(Keys(ToSet(es))) /\ Cardinality(Keys(ToSet(es))) = Cardinality(ToSet(es))
  BY <1>1, <1>4, FS_Bijection DEF ExistsBijection
<1>6. Keys(ToSet(es)) \in SUBSET Tokens
  BY <1>1 DEF Keys, Entry
<1> QED
  BY <1>2, <1>5, <1>6

LEMMA EntryFacts ==
  ASSUME ram \in Seq(Entry), NEW k \in RamKeys
  PROVE  EntryOf(k) \in ToSet(ram) /\ EntryOf(k).key = k /\ EntryOf(k) \in Entry
<1>1. \E e \in ToSet(ram) : e.key = k
  BY DEF RamKeys, Keys
<1>2. PICK x : x = EntryOf(k)
  OBVIOUS
<1>3. x = CHOOSE e \in ToSet(ram) : e.key = k
  BY <1>2 DEF EntryOf
<1>4. x \in ToSet(ram) /\ x.key = k
  BY <1>1, <1>3
<1>5. x \in Entry
  BY <1>4, TotalOfSet
<1> QED
  BY <1>2, <1>4, <1>5

LEMMA LongestFacts ==
  ASSUME NEW K \in SUBSET Tokens, IsFiniteSet(K), K # {}
  PROVE  Longest(K) \in K
<1>1. PICK f : f = [s \in Tokens |-> Len(s)]
  OBVIOUS
<1>2. f \in [Tokens -> Nat]
  BY <1>1 DEF Tokens
<1>3. PICK k \in K : \A m \in K : f[m] < f[k] \/ (f[m] = f[k] /\ ~LexLess(m, k))
  BY <1>2, BestExists
<1>4. \A m \in K : Len(m) < Len(k) \/ (Len(m) = Len(k) /\ ~LexLess(m, k))
  BY <1>1, <1>3
<1> QED
  BY <1>3, <1>4 DEF Longest

(* What fetch() finds for a prompt. *)
Found(m, p) ==
  /\ m.type \in {"miss", "exact", "supersequence", "prefix", "lcp"} /\ m.entry \in Entry
  /\ m.type # "miss" => m.entry \in ToSet(ram)
  /\ m.type = "exact" => m.entry.key = p
  /\ m.type = "supersequence" => IsStrictPrefix(p, m.entry.key)
  /\ m.type = "prefix" => IsStrictPrefix(m.entry.key, p)
  /\ m.type = "lcp" => Common(m.entry.key, p) >= MinPrefix

LEMMA MatchFacts ==
  ASSUME ram \in Seq(Entry), KeysDistinct(ram), NEW p \in Tokens
  PROVE  Found(Match(p), p)
<1>1. PICK m : m = Match(p)
  OBVIOUS
<1>2. RamKeys \in SUBSET Tokens /\ IsFiniteSet(RamKeys)
  BY CachedKeys DEF RamKeys
<1>3. CASE m = NoMatch
  <2>1. <<>> \in Tokens
    BY DEF Tokens
  <2>2. Poison \in Entry
    BY <2>1 DEF Poison, Entry
  <2>3. m.type = "miss" /\ m.entry = Poison
    BY <1>3 DEF NoMatch
  <2> QED
    BY <1>1, <2>2, <2>3 DEF Found
<1>4. ASSUME m # NoMatch
      PROVE  \/ p \in RamKeys /\ m = [type |-> "exact", entry |-> EntryOf(p)]
             \/ Supers(p) # {} /\ m = [type |-> "supersequence", entry |-> EntryOf(Longest(Supers(p)))]
             \/ Prefixing(p) # {} /\ m = [type |-> "prefix", entry |-> EntryOf(Longest(Prefixing(p)))]
             \/ /\ \E k \in BestNeighbour(p) : Common(k, p) >= MinPrefix
                /\ m = [type |-> "lcp", entry |-> EntryOf(CHOOSE k \in BestNeighbour(p) : TRUE)]
  BY <1>1, <1>4 DEF Match
<1>5. CASE p \in RamKeys /\ m = [type |-> "exact", entry |-> EntryOf(p)]
  <2>1. m.type = "exact" /\ m.entry = EntryOf(p)
    BY <1>5
  <2> QED
    BY <1>1, <1>5, <2>1, EntryFacts DEF Found
<1>6. CASE Supers(p) # {} /\ m = [type |-> "supersequence", entry |-> EntryOf(Longest(Supers(p)))]
  <2>1. PICK k : k = Longest(Supers(p))
    OBVIOUS
  <2>2. Supers(p) \in SUBSET RamKeys
    BY DEF Supers
  <2>3. IsFiniteSet(Supers(p)) /\ Supers(p) \in SUBSET Tokens
    BY <1>2, <2>2, FS_Subset
  <2>4. k \in Supers(p)
    BY <1>6, <2>1, <2>3, LongestFacts
  <2>5. k \in RamKeys /\ IsStrictPrefix(p, k)
    BY <2>4 DEF Supers
  <2>6. m.type = "supersequence" /\ m.entry = EntryOf(k)
    BY <1>6, <2>1
  <2> QED
    BY <1>1, <2>5, <2>6, EntryFacts DEF Found
<1>7. CASE Prefixing(p) # {} /\ m = [type |-> "prefix", entry |-> EntryOf(Longest(Prefixing(p)))]
  <2>1. PICK k : k = Longest(Prefixing(p))
    OBVIOUS
  <2>2. Prefixing(p) \in SUBSET RamKeys
    BY DEF Prefixing
  <2>3. IsFiniteSet(Prefixing(p)) /\ Prefixing(p) \in SUBSET Tokens
    BY <1>2, <2>2, FS_Subset
  <2>4. k \in Prefixing(p)
    BY <1>7, <2>1, <2>3, LongestFacts
  <2>5. k \in RamKeys /\ IsStrictPrefix(k, p)
    BY <2>4 DEF Prefixing
  <2>6. m.type = "prefix" /\ m.entry = EntryOf(k)
    BY <1>7, <2>1
  <2> QED
    BY <1>1, <2>5, <2>6, EntryFacts DEF Found
<1>8. CASE /\ \E k \in BestNeighbour(p) : Common(k, p) >= MinPrefix
           /\ m = [type |-> "lcp", entry |-> EntryOf(CHOOSE k \in BestNeighbour(p) : TRUE)]
  <2>1. PICK u : u = CHOOSE k \in BestNeighbour(p) : TRUE
    OBVIOUS
  <2>2. PICK k \in BestNeighbour(p) : Common(k, p) >= MinPrefix
    BY <1>8
  <2>3. u \in BestNeighbour(p)
    BY <2>1, <2>2
  <2>4. u \in RamKeys /\ k \in RamKeys
    BY <2>2, <2>3 DEF BestNeighbour, Neighbours, LexMax, LexMin
  <2>5. Common(u, p) >= Common(k, p)
    <3>1. Common(u, p) \in Nat /\ Common(k, p) \in Nat
      BY <1>2, <2>4, CommonFacts
    <3>2. Common(k, p) < Common(u, p) \/ Common(k, p) = Common(u, p)
      BY <2>2, <2>3 DEF BestNeighbour
    <3> QED
      BY <3>1, <3>2
  <2>6. Common(u, p) >= MinPrefix
    <3>1. Common(u, p) \in Nat /\ Common(k, p) \in Nat /\ MinPrefix \in Nat
      BY <1>2, <2>4, CommonFacts, TieredCacheAssumptions
    <3> QED
      BY <2>2, <2>5, <3>1
  <2>7. m.type = "lcp" /\ m.entry = EntryOf(u)
    BY <1>8, <2>1
  <2> QED
    BY <1>1, <2>4, <2>6, <2>7, EntryFacts DEF Found
<1> QED
  BY <1>3, <1>4, <1>5, <1>6, <1>7, <1>8

(* The keys next to the prompt share with it what any key does. *)
LEMMA NeighboursSuffice ==
  ASSUME ram \in Seq(Entry), KeysDistinct(ram), NEW p \in Tokens, p \notin RamKeys,
         NEW k \in RamKeys
  PROVE  /\ BestNeighbour(p) # {}
         /\ \A v \in BestNeighbour(p) : Common(k, p) <= Common(v, p)
<1>1. RamKeys \in SUBSET Tokens /\ IsFiniteSet(RamKeys)
  BY CachedKeys DEF RamKeys
<1>2. k \in Tokens /\ Common(k, p) \in Nat /\ Agree(k, p, Common(k, p))
  BY <1>1, CommonFacts
<1>3. PICK c : c = Common(k, p)
  OBVIOUS
<1>4. \E u \in Neighbours(p) : c <= Common(u, p)
  <2>1. CASE LexLess(k, p)
    <3>1. PICK L : L = {x \in RamKeys : LexLess(x, p)}
      OBVIOUS
    <3>2. L \in SUBSET RamKeys /\ k \in L
      BY <2>1, <3>1
    <3>3. IsFiniteSet(L) /\ L \in SUBSET Tokens /\ L # {}
      BY <1>1, <3>2, FS_Subset
    <3>4. PICK u \in LexMax(L) : TRUE
      BY <3>3, Extremes
    <3>5. u \in L /\ (k = u \/ LexLess(k, u)) /\ u \in Neighbours(p)
      BY <3>1, <3>2, <3>4 DEF LexMax, Neighbours
    <3>6. u \in Tokens /\ LexLess(u, p)
      BY <3>1, <3>3, <3>5
    <3>7. Agree(u, p, c)
      <4>1. CASE k = u
        BY <1>2, <1>3, <4>1
      <4>2. CASE LexLess(k, u)
        BY <1>2, <1>3, <3>6, <4>2, Between
      <4> QED
        BY <3>5, <4>1, <4>2
    <3> QED
      BY <1>2, <1>3, <3>5, <3>6, <3>7, CommonFacts
  <2>2. CASE LexLess(p, k)
    <3>1. PICK L : L = {x \in RamKeys : LexLess(p, x)}
      OBVIOUS
    <3>2. L \in SUBSET RamKeys /\ k \in L
      BY <2>2, <3>1
    <3>3. IsFiniteSet(L) /\ L \in SUBSET Tokens /\ L # {}
      BY <1>1, <3>2, FS_Subset
    <3>4. PICK u \in LexMin(L) : TRUE
      BY <3>3, Extremes
    <3>5. u \in L /\ (k = u \/ LexLess(u, k)) /\ u \in Neighbours(p)
      BY <3>1, <3>2, <3>4 DEF LexMin, Neighbours
    <3>6. u \in Tokens /\ LexLess(p, u)
      BY <3>1, <3>3, <3>5
    <3>7. Agree(p, u, c) \/ u = k
      <4>1. Agree(p, k, c)
        BY <1>2, <1>3 DEF Agree
      <4>2. CASE LexLess(u, k)
        BY <1>2, <1>3, <3>6, <4>1, <4>2, Between
      <4> QED
        BY <3>5, <4>2
    <3>8. c <= Common(u, p)
      <4>1. CASE u = k
        BY <1>2, <1>3, <4>1
      <4>2. CASE Agree(p, u, c)
        <5>1. Agree(u, p, c)
          BY <4>2 DEF Agree
        <5> QED
          BY <1>2, <1>3, <3>6, <5>1, CommonFacts
      <4> QED
        BY <3>7, <4>1, <4>2
    <3> QED
      BY <3>5, <3>8
  <2> QED
    BY <1>2, <2>1, <2>2, LexTotal
<1>5. PICK u \in Neighbours(p) : c <= Common(u, p)
  BY <1>4
<1>6. Neighbours(p) \in SUBSET RamKeys
  BY DEF Neighbours, LexMax, LexMin
<1>7. Neighbours(p) \in SUBSET Tokens /\ IsFiniteSet(Neighbours(p)) /\ Neighbours(p) # {}
  BY <1>1, <1>5, <1>6, FS_Subset
<1>8. PICK f : f = [x \in Tokens |-> Common(x, p)]
  OBVIOUS
<1>9. f \in [Tokens -> Nat]
  BY <1>8, CommonFacts
<1>10. PICK N : N = Neighbours(p)
  OBVIOUS
<1>11. PICK b \in N : \A m \in N : f[m] < f[b] \/ (f[m] = f[b] /\ ~LexLess(m, b))
  BY <1>7, <1>9, <1>10, BestExists
<1>12. b \in BestNeighbour(p)
  BY <1>7, <1>8, <1>10, <1>11 DEF BestNeighbour
<1>13. ASSUME NEW v \in BestNeighbour(p) PROVE c <= Common(v, p)
  <2>1. v \in Neighbours(p) /\ (Common(u, p) < Common(v, p) \/ Common(u, p) = Common(v, p))
    BY <1>5, <1>13 DEF BestNeighbour
  <2>2. Common(u, p) \in Nat /\ Common(v, p) \in Nat /\ c \in Nat
    BY <1>2, <1>3, <1>5, <1>7, <2>1, CommonFacts
  <2> QED
    BY <1>5, <2>1, <2>2
<1> QED
  BY <1>3, <1>12, <1>13

LEMMA FindsLongest ==
  ASSUME ram \in Seq(Entry), KeysDistinct(ram)
  PROVE  FetchFindsLongest
<1>1. SUFFICES ASSUME trimmable, NEW p \in Prompts, Len(p) >= MinPrefix
               PROVE  LET m == Match(p)
                          best == {n \in {Common(k, p) : k \in RamKeys} : n >= MinPrefix}
                      IN  /\ m.type = "lcp" => \A n \in best : n <= Covered(m, p)
                          /\ m.type = "miss" => best = {}
  BY DEF FetchFindsLongest
<1>2. p \in Tokens /\ MinPrefix \in Nat /\ Len(p) \in Nat /\ ~(Len(p) < MinPrefix)
  BY <1>1, TieredCacheAssumptions DEF Tokens
<1>3. RamKeys \in SUBSET Tokens
  BY CachedKeys DEF RamKeys
<1>4. PICK m : m = Match(p)
  OBVIOUS
<1>5. PICK best : best = {n \in {Common(k, p) : k \in RamKeys} : n >= MinPrefix}
  OBVIOUS
<1>6. ASSUME m.type = "lcp", NEW n \in best PROVE n <= Covered(m, p)
  <2>1. PICK u : u = CHOOSE k \in BestNeighbour(p) : TRUE
    OBVIOUS
  <2>2. p \notin RamKeys /\ m.entry = EntryOf(u) /\ \E k \in BestNeighbour(p) : TRUE
    BY <1>1, <1>4, <1>6, <2>1 DEF Match, NoMatch
  <2>3. u \in BestNeighbour(p)
    BY <2>1, <2>2
  <2>4. u \in RamKeys
    BY <2>3 DEF BestNeighbour, Neighbours, LexMax, LexMin
  <2>5. Covered(m, p) = Common(u, p)
    BY <1>6, <2>2, <2>4, EntryFacts DEF Covered
  <2>6. PICK k \in RamKeys : n = Common(k, p)
    BY <1>5
  <2> QED
    BY <1>2, <2>2, <2>3, <2>5, <2>6, NeighboursSuffice
<1>7. ASSUME m.type = "miss" PROVE best = {}
  <2>1. /\ p \notin RamKeys
        /\ ~ \E k \in BestNeighbour(p) : Common(k, p) >= MinPrefix
    BY <1>1, <1>2, <1>4, <1>7 DEF Match, NoMatch
  <2>2. ASSUME NEW k \in RamKeys PROVE ~(Common(k, p) >= MinPrefix)
    <3>1. PICK v \in BestNeighbour(p) : TRUE
      BY <1>2, <2>1, NeighboursSuffice
    <3>2. Common(k, p) <= Common(v, p) /\ ~(Common(v, p) >= MinPrefix)
      BY <1>2, <2>1, <3>1, NeighboursSuffice
    <3>3. v \in RamKeys
      BY <3>1 DEF BestNeighbour, Neighbours, LexMax, LexMin
    <3>4. Common(k, p) \in Nat /\ Common(v, p) \in Nat
      BY <1>2, <1>3, <3>3, CommonFacts
    <3> QED
      BY <1>2, <3>2, <3>4
  <2> QED
    BY <1>5, <2>2
<1> QED
  BY <1>4, <1>5, <1>6, <1>7

----------------------------------------------------------------------------
(* The invariant: types, memory, and what the step worker holds.            *)

Types == {"miss", "exact", "supersequence", "prefix", "lcp"}
Request ==
  [st : {"new", "scanned", "waiting", "running", "done", "lost"}, prompt : Tokens,
   hit : Types \cup {"ssd_pending", "ssd_hit"}, scan : [type : Types, entry : Entry],
   cand : Row, kv : Tokens, key : Tokens, rest : Tokens, cached : Nat, replayed : BOOLEAN]

(* A prompt is not empty, and what a scan found stands in relation to it. *)
Admitted(q) ==
  /\ q.st \in {"scanned", "waiting", "running"} => q.prompt # <<>>
  /\ q.st = "scanned" /\ q.scan.type = "exact" => q.scan.entry.key = q.prompt
  /\ q.st = "scanned" /\ q.scan.type = "supersequence" =>
       IsStrictPrefix(q.prompt, q.scan.entry.key)
Admissible == {q \in Request : Admitted(q)}

Worker == [pc : {"idle", "read", "promote", "quarantine", "unindex"}, r : Nat, entry : Entry]
Writer == [pc : {"idle", "write", "rename", "index", "enforce", "drop", "exited"}, entry : Entry]

TypeInv ==
  /\ trimmable \in BOOLEAN /\ req \in [Requests -> Admissible]
  /\ worker \in Worker /\ writer \in Writer
  /\ spillQ \in Seq(Entry) /\ Len(spillQ) <= SpillQueueSize
  /\ index \in Seq(Row) /\ KeysDistinct(index) /\ disk \in SUBSET Entry
  /\ tier \in {"on", "closing", "off"} /\ closer \in {"none", "put", "join"}
  /\ engine \in {"up", "stopping", "down"} /\ events \in Nat

CacheInv ==
  /\ Sound(ram) /\ ramBytes \in 0 .. MaxMemory
  /\ worker.pc = "idle" => ramBytes = TotalBytes(ram)

(* The promotion holds its reservation, unless a clear took it away with the rest. *)
WorkerInv ==
  worker.pc # "idle" =>
    /\ worker.r \in Requests /\ req[worker.r].st = "waiting"
    /\ req[worker.r].hit = "ssd_pending"
    /\ \/ ramBytes = TotalBytes(ram) + req[worker.r].cand.bytes
       \/ ramBytes = 0 /\ ram = <<>>

BaseInv == TypeInv /\ CacheInv /\ WorkerInv

LEMMA EmptyFacts ==
  /\ <<>> \in Tokens /\ Poison \in Entry /\ NoRow \in Row /\ IdleWorker \in Worker
  /\ IdleWriter \in Writer /\ NewRequest \in Admissible /\ Sound(<<>>)
  /\ NewRequest.st = "new" /\ NewRequest.replayed = FALSE /\ NewRequest.scan = NoMatch
<1>1. <<>> \in Tokens
  BY DEF Tokens
<1>2. Poison \in Entry /\ NoRow \in Row
  BY <1>1 DEF Poison, Entry, NoRow, Row
<1>3. IdleWorker \in Worker /\ IdleWriter \in Writer
  BY <1>2 DEF IdleWorker, IdleWriter, Worker, Writer
<1>4. NoMatch \in [type : Types, entry : Entry]
  BY <1>2 DEF NoMatch, Types
<1>5. NewRequest \in Request
  BY <1>1, <1>2, <1>4 DEF NewRequest, Request, Types
<1>6. NewRequest.st = "new" /\ NewRequest.replayed = FALSE /\ NewRequest.scan = NoMatch
  BY DEF NewRequest
<1>7. Sound(<<>>)
  <2>1. <<>> \in Seq(Entry) /\ ToSet(<<>>) = {} /\ Len(<<>>) = 0
    BY NothingKeyed
  <2> QED
    BY <2>1, NothingKeyed, TotalNone, TieredCacheAssumptions DEF Sound
<1> QED
  BY <1>1, <1>2, <1>3, <1>5, <1>6, <1>7 DEF Admissible, Admitted

LEMMA RetiredFacts ==
  ASSUME NEW q \in Request, NEW st \in {"done", "lost"}
  PROVE  /\ Retired(q, st) \in Admissible /\ Retired(q, st).st = st
         /\ Retired(q, st).replayed = q.replayed
<1>1. PICK x : x = Retired(q, st)
  OBVIOUS
<1>2. NewRequest \in Request
  BY EmptyFacts DEF Admissible
<1>3. x = [NewRequest EXCEPT !.st = st, !.replayed = q.replayed]
  BY <1>1 DEF Retired
<1>4. q.replayed \in BOOLEAN
  BY DEF Request
<1>5. x \in Request
  BY <1>2, <1>3, <1>4 DEF Request
<1>6. x.st = st /\ x.replayed = q.replayed
  BY <1>2, <1>3 DEF Request
<1> QED
  BY <1>1, <1>5, <1>6 DEF Admissible, Admitted

LEMMA BaseStart == Init => BaseInv
<1>1. SUFFICES ASSUME Init PROVE BaseInv
  OBVIOUS
<1>2. /\ Trimmable \subseteq BOOLEAN /\ MaxMemory \in Nat /\ SpillQueueSize \in Nat
  BY TieredCacheAssumptions
<1>3. <<>> \in Seq(Entry) /\ <<>> \in Seq(Row) /\ KeysDistinct(<<>>) /\ Len(<<>>) = 0
  BY NothingKeyed
<1>4. IdleWorker.pc = "idle"
  BY DEF IdleWorker
<1>5. TypeInv
  BY <1>1, <1>2, <1>3, EmptyFacts DEF Init, TypeInv
<1>6. CacheInv
  BY <1>1, <1>2, EmptyFacts, TotalNone DEF Init, CacheInv
<1>7. WorkerInv
  BY <1>1, <1>4 DEF Init, WorkerInv
<1> QED
  BY <1>5, <1>6, <1>7 DEF BaseInv

(* Only a request changes, and not the one that is promoted. *)
LEMMA RequestFrame ==
  ASSUME BaseInv, NEW r \in Requests, NEW q \in Admissible, req' = [req EXCEPT ![r] = q],
         worker.pc = "idle" \/ req[r].st # "waiting",
         UNCHANGED <<trimmable, worker, cacheVars, ssdVars, lifeVars>>
  PROVE  BaseInv'
<1>1. req' \in [Requests -> Admissible] /\ \A s \in Requests : s # r => req'[s] = req[s]
  BY DEF BaseInv, TypeInv
<1>2. /\ trimmable' = trimmable /\ worker' = worker /\ ram' = ram /\ ramBytes' = ramBytes
      /\ spillQ' = spillQ /\ writer' = writer /\ index' = index /\ disk' = disk
      /\ tier' = tier /\ closer' = closer /\ engine' = engine /\ events' = events
  BY DEF cacheVars, ssdVars, lifeVars
<1>3. TypeInv'
  BY <1>1, <1>2 DEF BaseInv, TypeInv
<1>4. CacheInv'
  BY <1>2 DEF BaseInv, CacheInv
<1>5. WorkerInv'
  BY <1>1, <1>2 DEF BaseInv, WorkerInv
<1> QED
  BY <1>3, <1>4, <1>5 DEF BaseInv

LEMMA AddScanBase ==
  ASSUME BaseInv, NEW r \in Requests, NEW p \in Prompts, AddScan(r, p)
  PROVE  BaseInv'
<1>1. PICK m, q : m = Match(p) /\ q = [req[r] EXCEPT !.st = "scanned", !.prompt = p, !.scan = m]
  OBVIOUS
<1>2. req[r] \in Request /\ req[r].st = "new" /\ req' = [req EXCEPT ![r] = q]
  BY <1>1 DEF BaseInv, TypeInv, Admissible, AddScan, Next1
<1>3. p \in Tokens /\ p # <<>>
  BY TieredCacheAssumptions DEF Tokens
<1>4. Found(m, p)
  BY <1>1, <1>3, MatchFacts DEF BaseInv, CacheInv, Sound
<1>5. m \in [type : Types, entry : Entry]
  <2>1. m = [type |-> m.type, entry |-> m.entry]
    BY <1>1 DEF Match, NoMatch
  <2> QED
    BY <1>4, <2>1 DEF Found, Types
<1>6. q \in Request
  BY <1>1, <1>2, <1>3, <1>5 DEF Request
<1>7. q.st = "scanned" /\ q.prompt = p /\ q.scan = m
  BY <1>1, <1>2 DEF Request
<1>8. q \in Admissible
  BY <1>3, <1>4, <1>6, <1>7 DEF Admissible, Admitted, Found
<1> QED
  BY <1>2, <1>8, RequestFrame DEF AddScan

LEMMA AddRaisesBase ==
  ASSUME BaseInv, NEW r \in Requests, AddRaises(r)
  PROVE  BaseInv'
<1>1. PICK q : q = Lost(req[r])
  OBVIOUS
<1>2. req[r] \in Request /\ req[r].st = "scanned" /\ req' = [req EXCEPT ![r] = q]
  BY <1>1 DEF BaseInv, TypeInv, Admissible, AddRaises
<1>3. q \in Admissible
  BY <1>1, <1>2, RetiredFacts DEF Lost
<1> QED
  BY <1>2, <1>3, RequestFrame DEF AddRaises

LEMMA AddMissBase ==
  ASSUME BaseInv, NEW r \in Requests, AddMiss(r)
  PROVE  BaseInv'
<1>1. req[r] \in Admissible /\ req[r] \in Request /\ req[r].st = "scanned"
  BY DEF BaseInv, TypeInv, Admissible, AddMiss
<1>2. req[r].prompt \in Tokens /\ req[r].prompt # <<>>
  BY <1>1 DEF Admissible, Admitted, Request
<1>3. PICK q : /\ req' = [req EXCEPT ![r] = q]
               /\ \/ q = [req[r] EXCEPT !.st = "waiting", !.rest = req[r].prompt]
                  \/ \E c \in SsdCandidates(req[r].prompt) :
                       q = [req[r] EXCEPT !.st = "waiting", !.rest = req[r].prompt,
                                          !.hit = "ssd_pending", !.cand = c]
  BY DEF AddMiss
<1>4. q \in Request /\ q.st = "waiting" /\ q.prompt = req[r].prompt
  <2>1. SsdCandidates(req[r].prompt) \subseteq Row
    BY DEF SsdCandidates, BaseInv, TypeInv, ToSet
  <2>2. CASE q = [req[r] EXCEPT !.st = "waiting", !.rest = req[r].prompt]
    BY <1>1, <1>2, <2>2 DEF Request
  <2>3. CASE \E c \in SsdCandidates(req[r].prompt) :
               q = [req[r] EXCEPT !.st = "waiting", !.rest = req[r].prompt,
                                  !.hit = "ssd_pending", !.cand = c]
    <3>1. PICK c \in Row : q = [req[r] EXCEPT !.st = "waiting", !.rest = req[r].prompt,
                                              !.hit = "ssd_pending", !.cand = c]
      BY <2>1, <2>3
    <3> QED
      BY <1>1, <1>2, <3>1 DEF Request
  <2> QED
    BY <1>3, <2>2, <2>3
<1>5. q \in Admissible
  BY <1>2, <1>4 DEF Admissible, Admitted
<1> QED
  BY <1>1, <1>3, <1>5, RequestFrame DEF AddMiss

LEMMA InsertFacts ==
  ASSUME NEW q \in Admissible, q.st = "waiting"
  PROVE  /\ Insert(q) \in Admissible /\ Insert(q).st = "running"
         /\ Insert(q).replayed = (q.rest = <<>>) /\ Insert(q).prompt = q.prompt
         /\ q.rest # <<>> => Insert(q).kv = q.kv \o q.rest
<1>1. q \in Request /\ q.prompt \in Tokens /\ q.prompt # <<>> /\ q.rest \in Tokens /\ q.kv \in Tokens
  BY DEF Admissible, Admitted, Request
<1>2. PICK t, k : t = ToProcess(q) /\ k = q.kv \o t
  OBVIOUS
<1>3. t \in Tokens
  <2>1. CASE q.rest = <<>>
    <3>1. Len(q.prompt) \in 1 .. Len(q.prompt)
      BY <1>1 DEF Tokens
    <3>2. q.prompt[Len(q.prompt)] \in Nat
      BY <1>1, <3>1 DEF Tokens
    <3>3. t = <<q.prompt[Len(q.prompt)]>>
      BY <1>2, <2>1 DEF ToProcess, Last
    <3> QED
      BY <3>2, <3>3 DEF Tokens
  <2>2. CASE q.rest # <<>>
    BY <1>1, <1>2, <2>2 DEF ToProcess
  <2> QED
    BY <2>1, <2>2
<1>4. k \in Tokens
  BY <1>1, <1>2, <1>3 DEF Tokens
<1>5. PICK x : x = Insert(q)
  OBVIOUS
<1>6. x = [q EXCEPT !.st = "running", !.kv = k, !.replayed = (q.rest = <<>>)]
  BY <1>2, <1>5 DEF Insert
<1>7. x \in Request
  BY <1>1, <1>4, <1>6 DEF Request
<1>8. /\ x.st = "running" /\ x.replayed = (q.rest = <<>>) /\ x.prompt = q.prompt
      /\ x.kv = k
  BY <1>1, <1>6 DEF Request
<1>9. q.rest # <<>> => k = q.kv \o q.rest
  BY <1>2 DEF ToProcess
<1> QED
  BY <1>1, <1>5, <1>7, <1>8, <1>9 DEF Admissible, Admitted

LEMMA ForgetFacts ==
  ASSUME NEW q \in Admissible, q.st = "waiting"
  PROVE  /\ Forget(q) \in Admissible /\ Forget(q).st = "waiting"
         /\ Forget(q).kv = <<>> /\ Forget(q).rest = q.prompt
         /\ Forget(q).prompt = q.prompt /\ q.prompt # <<>>
<1>1. q \in Request /\ q.prompt \in Tokens /\ q.prompt # <<>> /\ <<>> \in Tokens
  BY EmptyFacts DEF Admissible, Admitted, Request
<1>2. PICK x : x = Forget(q)
  OBVIOUS
<1>3. x = [q EXCEPT !.kv = <<>>, !.cached = 0, !.rest = q.prompt]
  BY <1>2 DEF Forget
<1>4. x \in Request
  BY <1>1, <1>3 DEF Request
<1>5. x.st = "waiting" /\ x.kv = <<>> /\ x.rest = q.prompt /\ x.prompt = q.prompt
  BY <1>1, <1>3 DEF Request
<1> QED
  BY <1>1, <1>2, <1>4, <1>5 DEF Admissible, Admitted

LEMMA ScheduleBase ==
  ASSUME BaseInv, NEW r \in Requests, Schedule(r) \/ ScheduleWithoutCache(r)
  PROVE  BaseInv'
<1>1. /\ req[r] \in Admissible /\ req[r].st = "waiting" /\ worker.pc = "idle"
      /\ UNCHANGED <<trimmable, worker, cacheVars, ssdVars, lifeVars>>
  BY DEF BaseInv, TypeInv, Schedule, ScheduleWithoutCache, Idle
<1>2. Insert(req[r]) \in Admissible
  BY <1>1, InsertFacts
<1>3. Insert(Forget(req[r])) \in Admissible
  <2>1. PICK q : q = Forget(req[r])
    OBVIOUS
  <2>2. q \in Admissible /\ q.st = "waiting"
    BY <1>1, <2>1, ForgetFacts
  <2> QED
    BY <2>1, <2>2, InsertFacts
<1>4. PICK q \in Admissible : req' = [req EXCEPT ![r] = q]
  BY <1>2, <1>3 DEF Schedule, ScheduleWithoutCache
<1> QED
  BY <1>1, <1>4, RequestFrame

(* Only what the writer owns changes. *)
LEMMA WriterFrame ==
  ASSUME BaseInv, UNCHANGED <<trimmable, req, worker, cacheVars, tier, closer, engine, events>>,
         writer' \in Writer, spillQ' \in Seq(Entry), Len(spillQ') <= SpillQueueSize,
         index' \in Seq(Row), KeysDistinct(index'), disk' \in SUBSET Entry
  PROVE  BaseInv'
<1>2. /\ trimmable' = trimmable /\ worker' = worker /\ ram' = ram /\ ramBytes' = ramBytes
      /\ req' = req /\ tier' = tier /\ closer' = closer /\ engine' = engine /\ events' = events
  BY DEF cacheVars
<1>3. TypeInv'
  BY <1>2 DEF BaseInv, TypeInv
<1>4. CacheInv'
  BY <1>2 DEF BaseInv, CacheInv
<1>5. WorkerInv'
  BY <1>2 DEF BaseInv, WorkerInv
<1> QED
  BY <1>3, <1>4, <1>5 DEF BaseInv

LEMMA WriterTypes ==
  ASSUME BaseInv
  PROVE  /\ writer \in Writer /\ writer.entry \in Entry /\ spillQ \in Seq(Entry)
         /\ Len(spillQ) <= SpillQueueSize /\ index \in Seq(Row) /\ KeysDistinct(index)
         /\ disk \in SUBSET Entry
         /\ \A pc \in {"idle", "write", "rename", "index", "enforce", "drop", "exited"} :
              [writer EXCEPT !.pc = pc] \in Writer
BY DEF BaseInv, TypeInv, Writer

LEMMA WriterTakeBase ==
  ASSUME BaseInv, WriterTake
  PROVE  BaseInv'
<1>1. PICK h, t : h = Head(spillQ) /\ t = Tail(spillQ)
  OBVIOUS
<1>2. h \in Entry /\ t \in Seq(Entry) /\ Len(t) = Len(spillQ) - 1
  BY <1>1, WriterTypes, HeadTailProperties DEF WriterTake
<1>3. Len(t) <= SpillQueueSize
  BY <1>2, WriterTypes, TieredCacheAssumptions
<1>4. writer' \in Writer
  BY <1>1, <1>2 DEF WriterTake, Writer
<1> QED
  BY <1>1, <1>2, <1>3, <1>4, WriterTypes, WriterFrame DEF WriterTake, lifeVars

LEMMA WriterDirectoryBase ==
  ASSUME BaseInv, WriterRemoveOld \/ WriterRename \/ WriterFails
  PROVE  BaseInv'
<1>1. writer' \in Writer
  BY WriterTypes DEF WriterRemoveOld, WriterRename, WriterFails, To
<1>2. disk' \in SUBSET Entry
  BY WriterTypes DEF WriterRemoveOld, WriterRename, WriterFails, Removed
<1> QED
  BY <1>1, <1>2, WriterTypes, WriterFrame DEF WriterRemoveOld, WriterRename, WriterFails, lifeVars

LEMMA RowFacts ==
  ASSUME index \in Seq(Row), KeysDistinct(index), NEW k
  PROVE  /\ Delete(index, k) \in Seq(Row) /\ KeysDistinct(Delete(index, k))
         /\ Len(Delete(index, k)) <= Len(index) /\ k \notin Keys(ToSet(Delete(index, k)))
         /\ MoveToEnd(index, k) \in Seq(Row) /\ KeysDistinct(MoveToEnd(index, k))
         /\ Len(MoveToEnd(index, k)) = Len(index)
<1>1. PICK s : s = index
  OBVIOUS
<1>2. s \in Seq(Row) /\ KeysDistinct(s)
  BY <1>1
<1>3. /\ Delete(s, k) \in Seq(Row) /\ KeysDistinct(Delete(s, k)) /\ Len(Delete(s, k)) <= Len(s)
      /\ ToSet(Delete(s, k)) = {e \in ToSet(s) : e.key # k}
  BY <1>2, DeleteFacts
<1>4. MoveToEnd(s, k) \in Seq(Row) /\ KeysDistinct(MoveToEnd(s, k)) /\ Len(MoveToEnd(s, k)) = Len(s)
  BY <1>2, MoveFacts
<1>5. k \notin Keys(ToSet(Delete(s, k)))
  BY <1>3 DEF Keys
<1> QED
  BY <1>1, <1>3, <1>4, <1>5

LEMMA WriterIndexBase ==
  ASSUME BaseInv, WriterIndex
  PROVE  BaseInv'
<1>1. PICK d, row : d = Delete(index, writer.entry.key) /\ row = RowOf(writer.entry)
  OBVIOUS
<1>2. row \in Row /\ row.key = writer.entry.key
  BY <1>1, WriterTypes DEF RowOf, Row, Entry, Bytes, Tokens
<1>3. d \in Seq(Row) /\ KeysDistinct(d) /\ row.key \notin Keys(ToSet(d))
  BY <1>1, <1>2, WriterTypes, RowFacts
<1>4. Append(d, row) \in Seq(Row) /\ KeysDistinct(Append(d, row))
  BY <1>2, <1>3, AppendKeyed
<1>5. index' = Append(d, row) /\ writer' \in Writer
  BY <1>1, WriterTypes DEF WriterIndex, To
<1> QED
  BY <1>4, <1>5, WriterTypes, WriterFrame DEF WriterIndex, lifeVars

LEMMA WriterEnforceBase ==
  ASSUME BaseInv, WriterEnforce
  PROVE  BaseInv'
<1>1. writer' \in Writer
  <2>1. CASE To("idle")
    BY <2>1, WriterTypes DEF To
  <2>2. CASE /\ Len(index) > SsdMaxEntries
             /\ writer' = [pc |-> "drop", entry |-> [key |-> Head(index).key, kv |-> <<>>]]
    <3>1. Len(index) # 0
      BY <2>2, WriterTypes, TieredCacheAssumptions
    <3>2. Head(index) \in Row
      BY <3>1, WriterTypes
    <3> QED
      BY <2>2, <3>2, EmptyFacts DEF Row, Entry, Writer
  <2> QED
    BY <2>1, <2>2 DEF WriterEnforce
<1>2. disk' \in SUBSET Entry
  BY WriterTypes DEF WriterEnforce, Removed
<1> QED
  BY <1>1, <1>2, WriterTypes, WriterFrame DEF WriterEnforce

LEMMA WriterDropBase ==
  ASSUME BaseInv, WriterDrop
  PROVE  BaseInv'
<1>1. writer' \in Writer
  BY WriterTypes DEF WriterDrop, To
<1>2. index' \in Seq(Row) /\ KeysDistinct(index')
  BY WriterTypes, RowFacts DEF WriterDrop
<1> QED
  BY <1>1, <1>2, WriterTypes, WriterFrame DEF WriterDrop, lifeVars

LEMMA SoundMove ==
  ASSUME NEW s, Sound(s), NEW k
  PROVE  /\ Sound(MoveToEnd(s, k)) /\ TotalBytes(MoveToEnd(s, k)) = TotalBytes(s)
         /\ ToSet(MoveToEnd(s, k)) = ToSet(s)
<1>1. PICK t : t = MoveToEnd(s, k)
  OBVIOUS
<1>2. s \in Seq(Entry) /\ KeysDistinct(s)
  BY DEF Sound
<1>3. t \in Seq(Entry) /\ KeysDistinct(t) /\ ToSet(t) = ToSet(s) /\ Len(t) = Len(s)
  BY <1>1, <1>2, MoveFacts
<1>4. TotalBytes(t) = TotalBytes(s)
  BY <1>2, <1>3, TotalSame
<1> QED
  BY <1>1, <1>3, <1>4 DEF Sound

LEMMA SoundDelete ==
  ASSUME NEW s, Sound(s), NEW k
  PROVE  /\ Sound(Delete(s, k)) /\ ToSet(Delete(s, k)) \subseteq ToSet(s)
         /\ TotalBytes(Delete(s, k)) = TotalBytes(s) - TotalBytes(Within(s, Keyed(s, k)))
         /\ TotalBytes(Delete(s, k)) <= TotalBytes(s) /\ TotalBytes(Delete(s, k)) \in Nat
<1>1. PICK d, w : d = Delete(s, k) /\ w = Within(s, Keyed(s, k))
  OBVIOUS
<1>2. s \in Seq(Entry) /\ KeysDistinct(s) /\ Len(s) <= MaxEntries /\ TotalBytes(s) <= MaxMemory
  BY DEF Sound
<1>3. /\ d \in Seq(Entry) /\ KeysDistinct(d) /\ ToSet(d) = {e \in ToSet(s) : e.key # k}
      /\ Len(d) <= Len(s)
  BY <1>1, <1>2, DeleteFacts
<1>4. w \in Seq(Entry) /\ ToSet(w) = {e \in ToSet(s) : e.key = k}
  <2>1. ToSet(s) \cap Keyed(s, k) = {e \in ToSet(s) : e.key = k}
    BY DEF Keyed
  <2> QED
    BY <1>1, <1>2, <2>1, PartFacts
<1>5. ToSet(d) \cap ToSet(w) = {} /\ ToSet(s) = ToSet(d) \cup ToSet(w)
  BY <1>3, <1>4
<1>6. TotalBytes(s) = TotalBytes(d) + TotalBytes(w)
  BY <1>2, <1>3, <1>4, <1>5, TotalSplit
<1>7. TotalBytes(d) \in Nat /\ TotalBytes(w) \in Nat /\ TotalBytes(s) \in Nat
  BY <1>2, <1>3, <1>4, TotalOfSet
<1>8. Len(d) <= MaxEntries /\ TotalBytes(d) <= MaxMemory
  BY <1>2, <1>3, <1>6, <1>7, TieredCacheAssumptions
<1> QED
  BY <1>1, <1>3, <1>6, <1>7, <1>8 DEF Sound

LEMMA CoveredFacts ==
  ASSUME NEW q \in Admissible, q.st = "scanned", q.scan.type # "miss"
  PROVE  /\ Covered(q.scan, q.prompt) \in Nat
         /\ Agree(q.scan.entry.key, q.prompt, Covered(q.scan, q.prompt))
<1>1. PICK p, k, c : p = q.prompt /\ k = q.scan.entry.key /\ c = Covered(q.scan, q.prompt)
  OBVIOUS
<1>2. p \in Tokens /\ k \in Tokens /\ q.scan.type \in Types
  BY <1>1 DEF Admissible, Request, Entry
<1>3. Len(p) \in Nat
  BY <1>2 DEF Tokens
<1>4. CASE q.scan.type \in {"prefix", "lcp"}
  <2>1. c = Common(k, p)
    BY <1>1, <1>4 DEF Covered
  <2> QED
    BY <1>1, <1>2, <2>1, CommonFacts
<1>5. CASE q.scan.type = "exact"
  <2>1. c = Len(p) /\ k = p
    BY <1>1, <1>5 DEF Covered, Admissible, Admitted
  <2> QED
    BY <1>1, <1>3, <2>1 DEF Agree
<1>6. CASE q.scan.type = "supersequence"
  <2>1. c = Len(p) /\ IsStrictPrefix(p, k)
    BY <1>1, <1>6 DEF Covered, Admissible, Admitted
  <2>2. Agree(p, k, c)
    BY <1>2, <2>1, PrefixAgrees DEF IsStrictPrefix
  <2> QED
    BY <1>1, <1>3, <2>1, <2>2 DEF Agree
<1> QED
  BY <1>2, <1>4, <1>5, <1>6 DEF Types

LEMMA CutFacts ==
  ASSUME NEW s \in Tokens, NEW n \in Nat
  PROVE  Trim(s, n) \in Tokens /\ (n <= Len(s) => After(s, n) \in Tokens)
<1>1. PICK l : l = Len(s)
  OBVIOUS
<1>2. l \in Nat
  BY <1>1 DEF Tokens
<1>3. Trim(s, n) \in Tokens
  <2>1. CASE n < l
    <3>1. l - n \in 0 .. l
      BY <1>2, <2>1
    <3>2. SubSeq(s, 1, l - n) \in Seq(Nat)
      BY <1>1, <3>1, SliceFacts DEF Tokens
    <3> QED
      BY <1>1, <2>1, <3>2 DEF Trim, Tokens
  <2>2. CASE ~(n < l)
    BY <1>1, <2>2, EmptyFacts DEF Trim
  <2> QED
    BY <2>1, <2>2
<1>4. ASSUME n <= l PROVE After(s, n) \in Tokens
  <2>1. n \in 0 .. l
    BY <1>2, <1>4
  <2> QED
    BY <1>1, <2>1, SplitFacts DEF After, Tokens
<1> QED
  BY <1>1, <1>3, <1>4

(* The request of a scan that hits, as it joins the waiting queue. *)
LEMMA HitFacts ==
  ASSUME BaseInv, NEW r \in Requests, AddHit(r)
  PROVE  \E q \in Admissible :
           /\ req' = [req EXCEPT ![r] = q] /\ q.st = "waiting" /\ q.replayed = req[r].replayed
           /\ q.hit \in Types /\ q.prompt = req[r].prompt
           /\ q.kv = Reused(req[r].scan, req[r].prompt)
           /\ q.rest = After(req[r].prompt, Covered(req[r].scan, req[r].prompt))
<1>1. PICK m, p, c : m = req[r].scan /\ p = req[r].prompt /\ c = Covered(m, p)
  OBVIOUS
<1>2. req[r] \in Admissible /\ req[r].st = "scanned" /\ m.type # "miss"
  BY <1>1 DEF BaseInv, TypeInv, AddHit
<1>3. /\ req[r] \in Request /\ p \in Tokens /\ m.entry.key \in Tokens /\ m.entry.kv \in Tokens
      /\ m.type \in Types /\ p # <<>>
  BY <1>1, <1>2 DEF Admissible, Admitted, Request, Entry
<1>4. c \in Nat /\ Agree(m.entry.key, p, c)
  BY <1>1, <1>2, CoveredFacts
<1>5. c <= Len(m.entry.key) /\ c <= Len(p) /\ Len(m.entry.key) - c \in Nat
  <2>1. c <= Len(m.entry.key) /\ c <= Len(p)
    BY <1>4 DEF Agree
  <2>2. Len(m.entry.key) \in Nat
    BY <1>3 DEF Tokens
  <2> QED
    BY <1>4, <2>1, <2>2
<1>6. PICK kv, rest : kv = Reused(m, p) /\ rest = After(p, c)
  OBVIOUS
<1>7. kv \in Tokens /\ rest \in Tokens
  BY <1>1, <1>3, <1>4, <1>5, <1>6, CutFacts DEF Reused
<1>8. PICK q : q = [req[r] EXCEPT !.st = "waiting", !.hit = m.type, !.kv = kv,
                                  !.key = m.entry.key, !.cached = c, !.rest = rest,
                                  !.scan = NoMatch]
  OBVIOUS
<1>9. NoMatch \in [type : Types, entry : Entry]
  BY EmptyFacts DEF NoMatch, Types
<1>10. q \in Request
  BY <1>3, <1>4, <1>7, <1>8, <1>9 DEF Request
<1>11. /\ q.st = "waiting" /\ q.hit = m.type /\ q.kv = kv /\ q.rest = rest
       /\ q.prompt = p /\ q.replayed = req[r].replayed
  BY <1>1, <1>3, <1>8 DEF Request
<1>12. q \in Admissible
  BY <1>3, <1>10, <1>11 DEF Admissible, Admitted
<1>13. req' = [req EXCEPT ![r] = q]
  BY <1>1, <1>6, <1>8 DEF AddHit
<1> QED
  BY <1>1, <1>3, <1>6, <1>11, <1>12, <1>13

LEMMA AddHitBase ==
  ASSUME BaseInv, NEW r \in Requests, AddHit(r)
  PROVE  BaseInv'
<1>1. PICK q \in Admissible : req' = [req EXCEPT ![r] = q]
  BY HitFacts
<1>2. req' \in [Requests -> Admissible] /\ \A s \in Requests : s # r => req'[s] = req[s]
  BY <1>1 DEF BaseInv, TypeInv
<1>3. PICK t : t = MoveToEnd(ram, req[r].scan.entry.key)
  OBVIOUS
<1>4. /\ trimmable' = trimmable /\ worker' = worker /\ ram' = t /\ ramBytes' = ramBytes
      /\ spillQ' = spillQ /\ writer' = writer /\ index' = index /\ disk' = disk
      /\ tier' = tier /\ closer' = closer /\ engine' = engine /\ events' = events
  BY <1>3 DEF AddHit, ssdVars, lifeVars
<1>5. Sound(t) /\ TotalBytes(t) = TotalBytes(ram)
  BY <1>3, SoundMove DEF BaseInv, CacheInv
<1>6. TypeInv'
  BY <1>2, <1>4 DEF BaseInv, TypeInv
<1>7. CacheInv'
  BY <1>4, <1>5 DEF BaseInv, CacheInv
<1>8. WorkerInv'
  <2>1. ram # <<>>
    BY NothingKeyed DEF AddHit, RamKeys, Keys
  <2>2. req[r].st = "scanned"
    BY DEF AddHit
  <2> QED
    BY <1>2, <1>4, <1>5, <2>1, <2>2 DEF BaseInv, WorkerInv
<1> QED
  BY <1>6, <1>7, <1>8 DEF BaseInv

LEMMA ReserveBase ==
  ASSUME BaseInv, NEW r \in Requests, Reserve(r)
  PROVE  BaseInv'
<1>1. /\ req[r] \in Request /\ req[r] \in Admissible /\ req[r].st = "waiting"
      /\ req[r].hit = "ssd_pending" /\ worker.pc = "idle" /\ ramBytes = TotalBytes(ram)
  BY DEF BaseInv, TypeInv, CacheInv, Admissible, Reserve, Idle
<1>2. PICK n : n = req[r].cand.bytes
  OBVIOUS
<1>3. n \in Nat /\ ramBytes \in 0 .. MaxMemory /\ MaxMemory \in Nat
  BY <1>1, <1>2, TieredCacheAssumptions DEF Request, Row, BaseInv, CacheInv
<1>4. CASE Missed(r) /\ UNCHANGED <<ramBytes, worker>>
  <2>1. PICK q : q = [req[r] EXCEPT !.hit = "miss"]
    OBVIOUS
  <2>2. req' = [req EXCEPT ![r] = q]
    BY <1>4, <2>1 DEF Missed
  <2>3. q \in Request /\ q.st = "waiting" /\ q.prompt = req[r].prompt
    BY <1>1, <2>1 DEF Request, Types
  <2>4. q \in Admissible
    BY <1>1, <2>3 DEF Admissible, Admitted
  <2>5. UNCHANGED <<trimmable, worker, cacheVars, ssdVars, lifeVars>>
    BY <1>4 DEF Reserve, cacheVars
  <2> QED
    BY <1>1, <2>2, <2>4, <2>5, RequestFrame
<1>5. CASE /\ ramBytes + n <= MaxMemory /\ ramBytes' = ramBytes + n
           /\ worker' = [IdleWorker EXCEPT !.pc = "read", !.r = r] /\ UNCHANGED req
  <2>1. worker' \in Worker /\ worker'.pc = "read" /\ worker'.r = r
    <3>1. IdleWorker \in Worker /\ r \in Nat
      BY EmptyFacts DEF Requests
    <3> QED
      BY <1>5, <3>1 DEF Worker
  <2>2. /\ trimmable' = trimmable /\ ram' = ram /\ req' = req
        /\ spillQ' = spillQ /\ writer' = writer /\ index' = index /\ disk' = disk
        /\ tier' = tier /\ closer' = closer /\ engine' = engine /\ events' = events
    BY <1>5 DEF Reserve, ssdVars, lifeVars
  <2>3. TypeInv'
    BY <2>1, <2>2 DEF BaseInv, TypeInv
  <2>4. CacheInv'
    BY <1>3, <1>5, <2>1, <2>2 DEF BaseInv, CacheInv
  <2>5. WorkerInv'
    BY <1>1, <1>2, <1>5, <2>1, <2>2 DEF WorkerInv
  <2> QED
    BY <2>3, <2>4, <2>5 DEF BaseInv
<1> QED
  BY <1>2, <1>4, <1>5 DEF Reserve

(* The worker reads, or moves the directory away: what it holds stays reserved. *)
LEMMA ReadBase ==
  ASSUME BaseInv, Read \/ QuarantineDirectory
  PROVE  BaseInv'
<1>1. /\ worker' \in Worker /\ worker'.pc # "idle" /\ worker'.r = worker.r
      /\ disk' \in SUBSET Entry /\ worker.pc # "idle"
  <2>1. worker \in Worker /\ disk \in SUBSET Entry
    BY DEF BaseInv, TypeInv
  <2>2. CASE Read
    BY <2>1, <2>2 DEF Read, Worker, ssdVars
  <2>3. CASE QuarantineDirectory
    BY <2>1, <2>3 DEF QuarantineDirectory, Worker, Removed
  <2> QED
    BY <2>2, <2>3
<1>2. /\ trimmable' = trimmable /\ ram' = ram /\ ramBytes' = ramBytes /\ req' = req
      /\ spillQ' = spillQ /\ writer' = writer /\ index' = index
      /\ tier' = tier /\ closer' = closer /\ engine' = engine /\ events' = events
  BY DEF Read, QuarantineDirectory, cacheVars, ssdVars, lifeVars
<1>3. TypeInv'
  BY <1>1, <1>2 DEF BaseInv, TypeInv
<1>4. CacheInv'
  BY <1>1, <1>2 DEF BaseInv, CacheInv
<1>5. WorkerInv'
  BY <1>1, <1>2 DEF BaseInv, WorkerInv
<1> QED
  BY <1>3, <1>4, <1>5 DEF BaseInv

LEMMA HeldFacts ==
  ASSUME BaseInv, worker.pc # "idle"
  PROVE  /\ worker.r \in Requests /\ req[worker.r] \in Request /\ req[worker.r] \in Admissible
         /\ req[worker.r].st = "waiting" /\ req[worker.r].cand \in Row
         /\ Release(req[worker.r].cand.bytes) = TotalBytes(ram)
         /\ TotalBytes(ram) \in 0 .. MaxMemory
<1>1. /\ worker.r \in Requests /\ req[worker.r] \in Request /\ req[worker.r] \in Admissible
      /\ req[worker.r].st = "waiting" /\ req[worker.r].cand \in Row
  BY DEF BaseInv, TypeInv, WorkerInv, Admissible, Request
<1>2. PICK n, t : n = req[worker.r].cand.bytes /\ t = TotalBytes(ram)
  OBVIOUS
<1>3. n \in Nat /\ t \in Nat /\ t <= MaxMemory /\ MaxMemory \in Nat
  BY <1>1, <1>2, TotalOfSet, TieredCacheAssumptions DEF Row, BaseInv, CacheInv, Sound
<1>4. ramBytes = t + n \/ (ramBytes = 0 /\ t = 0)
  BY <1>2, TotalNone DEF BaseInv, WorkerInv
<1>5. Release(n) = t
  BY <1>3, <1>4 DEF Release
<1> QED
  BY <1>1, <1>2, <1>3, <1>5

LEMMA QuarantineRowBase ==
  ASSUME BaseInv, QuarantineRow
  PROVE  BaseInv'
<1>1. PICK r : r = worker.r
  OBVIOUS
<1>2. /\ r \in Requests /\ req[r] \in Request /\ req[r] \in Admissible /\ req[r].st = "waiting"
      /\ ramBytes' = TotalBytes(ram) /\ TotalBytes(ram) \in 0 .. MaxMemory
  BY <1>1, HeldFacts DEF QuarantineRow
<1>3. PICK q : q = [req[r] EXCEPT !.hit = "miss"]
  OBVIOUS
<1>4. req' = [req EXCEPT ![r] = q]
  BY <1>1, <1>3 DEF QuarantineRow, Missed
<1>5. q \in Admissible
  <2>1. q \in Request /\ q.st = "waiting" /\ q.prompt = req[r].prompt
    BY <1>2, <1>3 DEF Request, Types
  <2> QED
    BY <1>2, <2>1 DEF Admissible, Admitted
<1>6. index' \in Seq(Row) /\ KeysDistinct(index')
  BY RowFacts DEF BaseInv, TypeInv, QuarantineRow
<1>7. worker' \in Worker /\ worker'.pc = "idle"
  BY EmptyFacts DEF QuarantineRow, IdleWorker
<1>8. /\ trimmable' = trimmable /\ ram' = ram /\ disk' = disk
      /\ spillQ' = spillQ /\ writer' = writer
      /\ tier' = tier /\ closer' = closer /\ engine' = engine /\ events' = events
  BY DEF QuarantineRow, lifeVars
<1>9. req' \in [Requests -> Admissible]
  BY <1>2, <1>4, <1>5 DEF BaseInv, TypeInv
<1>10. TypeInv'
  BY <1>6, <1>7, <1>8, <1>9 DEF BaseInv, TypeInv
<1>11. CacheInv'
  BY <1>2, <1>8 DEF BaseInv, CacheInv
<1>12. WorkerInv'
  BY <1>7 DEF WorkerInv
<1> QED
  BY <1>10, <1>11, <1>12 DEF BaseInv

(* The request and the entry of a promotion. *)
LEMMA PromoteFacts ==
  ASSUME BaseInv, Promote
  PROVE  \E q \in Admissible :
           /\ req' = [req EXCEPT ![worker.r] = q] /\ q.st = "waiting" /\ q.hit = "ssd_hit"
           /\ q.prompt = req[worker.r].prompt /\ q.replayed = req[worker.r].replayed
           /\ q.kv = worker.entry.kv
           /\ Len(req[worker.r].cand.key) <= Len(req[worker.r].rest) =>
                q.rest = After(req[worker.r].rest, Len(req[worker.r].cand.key))
<1>1. PICK r, c, e, rest : /\ r = worker.r /\ c = req[r].cand /\ e = worker.entry
                           /\ rest = After(req[r].rest, Len(c.key))
  OBVIOUS
<1>2. /\ r \in Requests /\ req[r] \in Request /\ req[r] \in Admissible /\ req[r].st = "waiting"
      /\ c \in Row /\ e \in Entry
  BY <1>1, HeldFacts DEF Promote, BaseInv, TypeInv, Worker
<1>3. c.key \in Tokens /\ Len(c.key) \in Nat /\ req[r].rest \in Tokens /\ e.kv \in Tokens
  BY <1>2 DEF Row, Request, Entry, Tokens
<1>4. rest \in Tokens
  <2>1. CASE Len(c.key) <= Len(req[r].rest)
    BY <1>1, <1>3, <2>1, CutFacts
  <2>2. CASE ~(Len(c.key) <= Len(req[r].rest))
    <3>1. PICK m, n : m = Len(c.key) + 1 /\ n = Len(req[r].rest)
      OBVIOUS
    <3>2. m \in Int /\ n \in Int /\ n < m
      <4>1. n \in Nat
        BY <1>3, <3>1 DEF Tokens
      <4> QED
        BY <1>3, <2>2, <3>1, <4>1
    <3>3. SubSeq(req[r].rest, m, n) = <<>>
      BY <3>2, SubSeqEmpty
    <3>4. rest = <<>>
      BY <1>1, <3>1, <3>3 DEF After
    <3> QED
      BY <3>4, EmptyFacts
  <2> QED
    BY <2>1, <2>2
<1>5. PICK q : q = [req[r] EXCEPT !.hit = "ssd_hit", !.kv = e.kv, !.key = c.key,
                                  !.cached = Len(c.key), !.rest = After(req[r].rest, Len(c.key))]
  OBVIOUS
<1>6. q \in Request
  BY <1>1, <1>2, <1>3, <1>4, <1>5 DEF Request, Types
<1>7. /\ q.st = "waiting" /\ q.hit = "ssd_hit" /\ q.prompt = req[r].prompt
      /\ q.replayed = req[r].replayed /\ q.kv = e.kv /\ q.rest = rest
  BY <1>1, <1>2, <1>5 DEF Request
<1>8. q \in Admissible
  BY <1>2, <1>6, <1>7 DEF Admissible, Admitted
<1>9. req' = [req EXCEPT ![r] = q]
  BY <1>1, <1>5 DEF Promote
<1> QED
  BY <1>1, <1>7, <1>8, <1>9

LEMMA PromoteBase ==
  ASSUME BaseInv, Promote
  PROVE  BaseInv' /\ ToSet(ram') \subseteq ToSet(ram) \cup {worker.entry}
         /\ Spills(spillQ, ram, spillQ')
<1>1. PICK q \in Admissible : req' = [req EXCEPT ![worker.r] = q]
  BY PromoteFacts
<1>2. worker.r \in Requests /\ worker.entry \in Entry /\ TotalBytes(ram) \in 0 .. MaxMemory
  BY HeldFacts DEF Promote, BaseInv, TypeInv, Worker
<1>3. Store(worker.entry, FALSE, TotalBytes(ram))
  BY HeldFacts DEF Promote
<1>4. /\ Sound(ram') /\ ramBytes' = TotalBytes(ram')
      /\ ToSet(ram') \subseteq ToSet(ram) \cup {worker.entry}
      /\ Spills(spillQ, ram, spillQ') /\ Len(spillQ') <= SpillQueueSize
  <2>1. PICK e, no : e = worker.entry /\ no = FALSE
    OBVIOUS
  <2>2. Store(e, no, TotalBytes(ram)) /\ e \in Entry /\ no \in BOOLEAN
    BY <1>2, <1>3, <2>1
  <2>3. Sound(ram) /\ spillQ \in Seq(Entry) /\ Len(spillQ) <= SpillQueueSize
    BY DEF BaseInv, TypeInv, CacheInv
  <2> QED
    BY <2>1, <2>2, <2>3, StoreFacts
<1>5. spillQ' \in Seq(Entry)
  BY <1>4, SpillsType DEF BaseInv, TypeInv
<1>6. index' \in Seq(Row) /\ KeysDistinct(index')
  BY RowFacts DEF BaseInv, TypeInv, Promote
<1>7. worker' \in Worker /\ worker'.pc = "idle"
  BY EmptyFacts DEF Promote, IdleWorker
<1>8. /\ trimmable' = trimmable /\ disk' = disk /\ writer' = writer
      /\ tier' = tier /\ closer' = closer /\ engine' = engine /\ events' = events
  BY DEF Promote, lifeVars
<1>9. req' \in [Requests -> Admissible]
  BY <1>1, <1>2 DEF BaseInv, TypeInv
<1>10. TypeInv'
  BY <1>4, <1>5, <1>6, <1>7, <1>8, <1>9 DEF BaseInv, TypeInv
<1>11. CacheInv'
  <2>1. ramBytes' \in 0 .. MaxMemory
    BY <1>4, TotalOfSet, TieredCacheAssumptions DEF Sound
  <2> QED
    BY <1>4, <2>1 DEF CacheInv
<1>12. WorkerInv'
  BY <1>7 DEF WorkerInv
<1> QED
  BY <1>4, <1>10, <1>11, <1>12 DEF BaseInv

LEMMA RejectedFacts ==
  ASSUME BaseInv, NEW r \in Requests, ScheduleRejected(r)
  PROVE  BaseInv' /\ ToSet(ram') \subseteq ToSet(ram) /\ disk' \subseteq disk
<1>1. PICK k : k = req[r].key
  OBVIOUS
<1>2. /\ req[r] \in Admissible /\ req[r].st = "waiting" /\ worker.pc = "idle"
      /\ ramBytes = TotalBytes(ram) /\ Sound(ram) /\ req \in [Requests -> Admissible]
      /\ index \in Seq(Row) /\ KeysDistinct(index) /\ disk \in SUBSET Entry
  BY DEF BaseInv, TypeInv, CacheInv, ScheduleRejected, Idle
<1>3. PICK q : q = Insert(Forget(req[r]))
  OBVIOUS
<1>4. q \in Admissible
  <2>1. PICK x : x = Forget(req[r])
    OBVIOUS
  <2>2. x \in Admissible /\ x.st = "waiting"
    BY <1>2, <2>1, ForgetFacts
  <2> QED
    BY <1>3, <2>1, <2>2, InsertFacts
<1>5. req' \in [Requests -> Admissible]
  <2>1. req' = [req EXCEPT ![r] = q]
    BY <1>3 DEF ScheduleRejected
  <2> QED
    BY <1>2, <1>4, <2>1
<1>6. PICK d : d = Delete(ram, k)
  OBVIOUS
<1>7. ram' = d /\ ramBytes' = TotalBytes(ram) - TotalBytes(Within(ram, Keyed(ram, k)))
  BY <1>1, <1>2, <1>6 DEF ScheduleRejected
<1>8. /\ Sound(d) /\ ToSet(d) \subseteq ToSet(ram) /\ ramBytes' = TotalBytes(d)
      /\ TotalBytes(d) \in Nat /\ TotalBytes(d) <= MaxMemory
  BY <1>2, <1>6, <1>7, SoundDelete DEF Sound
<1>9. index' \in Seq(Row) /\ KeysDistinct(index')
  <2>1. index' = index \/ index' = Delete(index, k)
    BY <1>1 DEF ScheduleRejected
  <2> QED
    BY <1>2, <2>1, RowFacts
<1>10. disk' \subseteq disk
  BY DEF ScheduleRejected, Removed
<1>11. /\ trimmable' = trimmable /\ worker' = worker /\ writer' = writer /\ spillQ' = spillQ
       /\ tier' = tier /\ closer' = closer /\ engine' = engine /\ events' = events
  BY DEF ScheduleRejected, lifeVars
<1>12. TypeInv'
  <2>1. disk' \in SUBSET Entry
    BY <1>2, <1>10
  <2> QED
    BY <1>5, <1>9, <1>11, <2>1 DEF BaseInv, TypeInv
<1>13. CacheInv'
  BY <1>7, <1>8, TieredCacheAssumptions DEF CacheInv
<1>14. WorkerInv'
  BY <1>2, <1>11 DEF WorkerInv
<1> QED
  BY <1>7, <1>8, <1>10, <1>12, <1>13, <1>14 DEF BaseInv

LEMMA FinishFacts ==
  ASSUME BaseInv, NEW r \in Requests, NEW tok \in Outputs, Finish(r, tok)
  PROVE  /\ BaseInv' /\ Spills(spillQ, ram, spillQ')
         /\ ToSet(ram') \subseteq ToSet(ram) \cup
              {[key |-> Append(req[r].prompt, tok), kv |-> Append(req[r].kv, tok)]}
<1>1. PICK e : e = [key |-> Append(req[r].prompt, tok), kv |-> Append(req[r].kv, tok)]
  OBVIOUS
<1>2. /\ req[r] \in Request /\ worker.pc = "idle" /\ tok \in Nat
      /\ ramBytes = TotalBytes(ram) /\ Sound(ram) /\ req \in [Requests -> Admissible]
      /\ spillQ \in Seq(Entry) /\ Len(spillQ) <= SpillQueueSize
  BY TieredCacheAssumptions DEF BaseInv, TypeInv, CacheInv, Finish, Idle, Admissible
<1>3. e \in Entry
  BY <1>1, <1>2 DEF Entry, Request, Tokens
<1>4. Store(e, ~trimmable, TotalBytes(ram)) \/ UNCHANGED <<cacheVars, spillQ>>
  BY <1>1, <1>2 DEF Finish
<1>5. /\ Sound(ram') /\ ramBytes' = TotalBytes(ram')
      /\ ToSet(ram') \subseteq ToSet(ram) \cup {e}
      /\ Spills(spillQ, ram, spillQ') /\ Len(spillQ') <= SpillQueueSize
  <2>1. CASE Store(e, ~trimmable, TotalBytes(ram))
    <3>1. PICK b : b = ~trimmable
      OBVIOUS
    <3>2. b \in BOOLEAN /\ Store(e, b, TotalBytes(ram))
      BY <2>1, <3>1
    <3> QED
      BY <1>2, <1>3, <3>2, StoreFacts
  <2>2. CASE UNCHANGED <<cacheVars, spillQ>>
    <3>1. ram' = ram /\ ramBytes' = ramBytes /\ spillQ' = spillQ
      BY <2>2 DEF cacheVars
    <3> QED
      BY <1>2, <3>1 DEF Spills
  <2> QED
    BY <1>4, <2>1, <2>2
<1>6. spillQ' \in Seq(Entry)
  BY <1>2, <1>5, SpillsType
<1>7. req' \in [Requests -> Admissible]
  <2>1. PICK q : q = Retired(req[r], "done")
    OBVIOUS
  <2>2. q \in Admissible
    BY <1>2, <2>1, RetiredFacts
  <2>3. req' = [req EXCEPT ![r] = q]
    BY <2>1 DEF Finish
  <2> QED
    BY <1>2, <2>2, <2>3
<1>8. /\ trimmable' = trimmable /\ worker' = worker /\ writer' = writer
      /\ index' = index /\ disk' = disk
      /\ tier' = tier /\ closer' = closer /\ engine' = engine /\ events' = events
  BY DEF Finish, lifeVars
<1>9. TypeInv'
  BY <1>5, <1>6, <1>7, <1>8 DEF BaseInv, TypeInv
<1>10. CacheInv'
  <2>1. ramBytes' \in 0 .. MaxMemory
    BY <1>5, TotalOfSet, TieredCacheAssumptions DEF Sound
  <2> QED
    BY <1>5, <2>1 DEF CacheInv
<1>11. WorkerInv'
  BY <1>2, <1>8 DEF WorkerInv
<1> QED
  BY <1>1, <1>5, <1>9, <1>10, <1>11 DEF BaseInv

LEMMA ClearBase ==
  ASSUME BaseInv, Clear
  PROVE  BaseInv'
<1>1. ram' = <<>> /\ ramBytes' = 0 /\ events' = events + 1
  BY DEF Clear
<1>2. /\ trimmable' = trimmable /\ req' = req /\ worker' = worker /\ spillQ' = spillQ
      /\ writer' = writer /\ index' = index /\ disk' = disk
      /\ tier' = tier /\ closer' = closer /\ engine' = engine
  BY DEF Clear, ssdVars
<1>3. TypeInv'
  BY <1>1, <1>2 DEF BaseInv, TypeInv
<1>4. CacheInv'
  BY <1>1, EmptyFacts, TotalNone, TieredCacheAssumptions DEF CacheInv
<1>5. WorkerInv'
  BY <1>1, <1>2 DEF BaseInv, WorkerInv
<1> QED
  BY <1>3, <1>4, <1>5 DEF BaseInv

(* Closing and starting: the cache and the worker stay as they are. *)
LEMMA LifeBase ==
  ASSUME BaseInv, StopEngine \/ Detach \/ ClosePut \/ CloseJoin \/ CloseTimeout \/ StartEngine
  PROVE  BaseInv'
<1>1. /\ trimmable' = trimmable /\ worker' = worker /\ ram' = ram /\ ramBytes' = ramBytes
  BY DEF StopEngine, Detach, ClosePut, CloseJoin, CloseTimeout, StartEngine, cacheVars
<1>2. req' \in [Requests -> Admissible] /\ (worker.pc # "idle" => req' = req)
  <2>1. CASE Detach
    <3>1. \A r \in Requests : req[r] \in Admissible /\ req[r] \in Request
      BY DEF BaseInv, TypeInv, Admissible
    <3>2. \A r \in Requests : Lost(req[r]) \in Admissible
      BY <3>1, RetiredFacts DEF Lost
    <3> QED
      BY <2>1, <3>1, <3>2 DEF Detach
  <2>2. CASE ~Detach
    BY <2>2 DEF StopEngine, ClosePut, CloseJoin, CloseTimeout, StartEngine, BaseInv, TypeInv
  <2> QED
    BY <2>1, <2>2
<1>3. /\ writer' \in Writer /\ spillQ' \in Seq(Entry) /\ Len(spillQ') <= SpillQueueSize
      /\ index' \in Seq(Row) /\ KeysDistinct(index') /\ disk' \in SUBSET Entry
  <2>1. CASE ClosePut
    <3>1. \/ spillQ' = spillQ
          \/ Len(spillQ) < SpillQueueSize /\ spillQ' = Append(spillQ, Poison)
      BY <2>1 DEF ClosePut
    <3>2. spillQ' \in Seq(Entry) /\ Len(spillQ') <= SpillQueueSize
      <4>1. CASE spillQ' = spillQ
        BY <4>1, WriterTypes
      <4>2. CASE Len(spillQ) < SpillQueueSize /\ spillQ' = Append(spillQ, Poison)
        <5>1. PICK n : n = Len(spillQ)
          OBVIOUS
        <5>2. spillQ' \in Seq(Entry) /\ Len(spillQ') = n + 1 /\ n \in Nat
          BY <4>2, <5>1, WriterTypes, EmptyFacts
        <5> QED
          BY <4>2, <5>1, <5>2, TieredCacheAssumptions
      <4> QED
        BY <3>1, <4>1, <4>2
    <3> QED
      BY <2>1, <3>2, WriterTypes DEF ClosePut
  <2>2. CASE StartEngine /\ tier = "off"
    <3>1. PICK rows : rows = Within(index, {row \in ToSet(index) : row.key \in Keys(disk)})
      OBVIOUS
    <3>2. rows \in Seq(Row) /\ KeysDistinct(rows)
      BY <3>1, WriterTypes, PartFacts
    <3>3. /\ index' = rows /\ spillQ' = <<>> /\ writer' = IdleWriter /\ disk' \subseteq disk
      BY <2>2, <3>1 DEF StartEngine
    <3> QED
      BY <3>2, <3>3, WriterTypes, EmptyFacts, NothingKeyed, TieredCacheAssumptions
  <2>3. CASE UNCHANGED ssdVars
    BY <2>3, WriterTypes DEF ssdVars
  <2> QED
    BY <2>1, <2>2, <2>3 DEF StopEngine, Detach, CloseJoin, CloseTimeout, StartEngine
<1>4. /\ tier' \in {"on", "closing", "off"} /\ closer' \in {"none", "put", "join"}
      /\ engine' \in {"up", "stopping", "down"} /\ events' \in Nat
  BY DEF StopEngine, Detach, ClosePut, CloseJoin, CloseTimeout, StartEngine, BaseInv, TypeInv
<1>5. TypeInv'
  BY <1>1, <1>2, <1>3, <1>4 DEF BaseInv, TypeInv
<1>6. CacheInv'
  BY <1>1 DEF BaseInv, CacheInv
<1>7. WorkerInv'
  BY <1>1, <1>2 DEF BaseInv, WorkerInv
<1> QED
  BY <1>5, <1>6, <1>7 DEF BaseInv

LEMMA CrashBase ==
  ASSUME BaseInv, Crash
  PROVE  BaseInv'
<1>1. /\ ram' = <<>> /\ ramBytes' = 0 /\ spillQ' = <<>> /\ worker' = IdleWorker
      /\ writer' = IdleWriter /\ tier' = "off" /\ closer' = "none" /\ engine' = "down"
      /\ events' = events + 1 /\ trimmable' = trimmable /\ index' = index /\ disk' = disk
  BY DEF Crash
<1>2. req' \in [Requests -> Admissible]
  <2>1. \A r \in Requests : req[r] \in Admissible /\ req[r] \in Request
    BY DEF BaseInv, TypeInv, Admissible
  <2>2. \A r \in Requests : Lost(req[r]) \in Admissible
    BY <2>1, RetiredFacts DEF Lost
  <2> QED
    BY <2>1, <2>2 DEF Crash
<1>3. TypeInv'
  BY <1>1, <1>2, EmptyFacts, NothingKeyed, TieredCacheAssumptions DEF BaseInv, TypeInv
<1>4. CacheInv'
  BY <1>1, EmptyFacts, TotalNone, TieredCacheAssumptions DEF CacheInv
<1>5. WorkerInv'
  BY <1>1 DEF WorkerInv, IdleWorker
<1> QED
  BY <1>3, <1>4, <1>5 DEF BaseInv

LEMMA BaseStep == BaseInv /\ [Next]_vars => BaseInv'
<1>1. SUFFICES ASSUME BaseInv, [Next]_vars PROVE BaseInv'
  OBVIOUS
<1>2. CASE UNCHANGED vars
  BY <1>1, <1>2 DEF vars, cacheVars, ssdVars, lifeVars, BaseInv, TypeInv, CacheInv, WorkerInv
<1>3. CASE Client
  BY <1>1, <1>3, AddScanBase, AddHitBase, AddRaisesBase, AddMissBase DEF Client
<1>4. CASE Serve
  BY <1>1, <1>4, ReserveBase, ScheduleBase, RejectedFacts, FinishFacts DEF Serve
<1>5. CASE PromotionStep
  BY <1>1, <1>5, ReadBase, QuarantineRowBase, PromoteBase DEF PromotionStep
<1>6. CASE WriterStep
  BY <1>1, <1>6, WriterTakeBase, WriterDirectoryBase, WriterIndexBase, WriterEnforceBase,
     WriterDropBase DEF WriterStep
<1>7. CASE CloseStep \/ Environment
  BY <1>1, <1>7, LifeBase, ClearBase, CrashBase, WriterDirectoryBase DEF CloseStep, Environment
<1> QED
  BY <1>1, <1>2, <1>3, <1>4, <1>5, <1>6, <1>7 DEF Next

LEMMA BaseInvariant == Spec => []BaseInv
BY BaseStart, BaseStep, PTL DEF Spec

(* _current_memory is what the entries take up, but for what one promotion has   *)
(* reserved, and neither the bytes nor the entries of the RAM cache ever exceed  *)
(* their limits, whatever is evicted, promoted, rejected or cleared meanwhile.   *)
THEOREM MemoryIsAccountedFor == Spec => []MemoryAccounted
<1>1. BaseInv => MemoryAccounted
  <2>1. SUFFICES ASSUME BaseInv PROVE MemoryAccounted
    OBVIOUS
  <2>2. Sound(ram) /\ ramBytes \in 0 .. MaxMemory /\ MaxMemory \in Nat
    BY <2>1, TieredCacheAssumptions DEF BaseInv, CacheInv
  <2>3. Cardinality(RamKeys) = Len(ram)
    BY <2>2, CachedKeys DEF Sound, RamKeys
  <2> QED
    BY <2>1, <2>2, <2>3 DEF MemoryAccounted, BaseInv, CacheInv, Sound
<1> QED
  BY <1>1, BaseInvariant, PTL

(* With a cache that can be cut back, no cached key shares more tokens with a   *)
(* prompt than what fetch() reuses, and it misses only where none shares        *)
(* enough: looking at the two neighbours in the sorted keys is no shortcut.     *)
THEOREM FetchFindsTheLongest == Spec => []FetchFindsLongest
<1>1. BaseInv => FetchFindsLongest
  BY FindsLongest DEF BaseInv, CacheInv, Sound
<1> QED
  BY <1>1, BaseInvariant, PTL

----------------------------------------------------------------------------
(* The poison pill.                                                         *)

(* It is queued last, and only once the tier is detached. *)
PoisonLast(q, t) == \A i \in 1 .. Len(q) : q[i] = Poison => i = Len(q) /\ t = "closing"

PipeInv ==
  /\ closer # "none" => tier = "closing" /\ engine = "stopping"
  /\ engine # "down" => tier # "off"
  /\ PoisonLast(spillQ, tier)
  /\ writer.pc = "exited" => spillQ = <<>> /\ tier # "on"
  /\ tier = "off" => spillQ = <<>> /\ writer.pc \in {"idle", "exited"}

(* What store() spills has a key, which the poison pill has not. *)
LEMMA SpillsPipe ==
  ASSUME BaseInv, PipeInv, Spills(spillQ, ram, spillQ'), UNCHANGED <<writer, lifeVars>>
  PROVE  PipeInv'
<1>1. writer' = writer /\ tier' = tier /\ closer' = closer /\ engine' = engine
  BY DEF lifeVars
<1>2. CASE spillQ' = spillQ
  BY <1>1, <1>2 DEF PipeInv, PoisonLast
<1>3. CASE tier = "on" /\ \E u \in Seq(Entry) : spillQ' = spillQ \o u /\ ToSet(u) \subseteq ToSet(ram)
  <2>1. PICK u \in Seq(Entry) : spillQ' = spillQ \o u /\ ToSet(u) \subseteq ToSet(ram)
    BY <1>3
  <2>2. PICK q, t : q = spillQ /\ t = spillQ'
    OBVIOUS
  <2>3. q \in Seq(Entry) /\ t = q \o u
    BY <2>1, <2>2 DEF BaseInv, TypeInv
  <2>4. ToSet(t) = ToSet(q) \cup ToSet(u) /\ t \in Seq(Entry)
    BY <2>3, ConcatFacts
  <2>5. Poison \notin ToSet(u)
    BY <2>1 DEF BaseInv, CacheInv, Sound, Poison
  <2>6. Poison \notin ToSet(q)
    BY <1>3, <2>2, <2>3 DEF PipeInv, PoisonLast, ToSet
  <2>7. Poison \notin ToSet(t)
    BY <2>4, <2>5, <2>6
  <2>8. PoisonLast(t, tier)
    BY <2>4, <2>7 DEF PoisonLast, ToSet
  <2> QED
    BY <1>1, <1>3, <2>2, <2>8 DEF PipeInv
<1> QED
  BY <1>2, <1>3 DEF Spills

LEMMA TakePipe ==
  ASSUME BaseInv, PipeInv, WriterTake
  PROVE  PipeInv'
<1>1. PICK q, t : q = spillQ /\ t = spillQ'
  OBVIOUS
<1>2. q \in Seq(Entry) /\ q # <<>> /\ t = Tail(q)
  BY <1>1 DEF BaseInv, TypeInv, WriterTake
<1>3. PICK n : n = Len(q)
  OBVIOUS
<1>4. n \in Nat /\ n > 0 /\ t \in Seq(Entry) /\ Len(t) = n - 1 /\ \A i \in 1 .. n - 1 : t[i] = q[i + 1]
  BY <1>2, <1>3, HeadTailProperties
<1>5. \A i \in 1 .. n : q[i] = Poison => i = n /\ tier = "closing"
  BY <1>1, <1>3 DEF PipeInv, PoisonLast
<1>6. PoisonLast(t, tier)
  <2>1. SUFFICES ASSUME NEW i \in 1 .. n - 1, t[i] = Poison PROVE i = n - 1 /\ tier = "closing"
    BY <1>4 DEF PoisonLast
  <2>2. i + 1 \in 1 .. n /\ q[i + 1] = Poison
    BY <1>4, <2>1
  <2> QED
    BY <1>4, <1>5, <2>2
<1>7. tier # "off"
  BY DEF PipeInv, WriterTake
<1>8. ASSUME writer'.pc = "exited" PROVE t = <<>> /\ tier # "on"
  <2>1. Head(q) = Poison
    BY <1>1, <1>8 DEF WriterTake
  <2>2. 1 \in 1 .. n /\ q[1] = Poison
    BY <1>2, <1>3, <1>4, <2>1
  <2>3. n = 1 /\ tier = "closing"
    BY <1>5, <2>2
  <2>4. Len(t) = 0
    BY <1>4, <2>3
  <2> QED
    BY <1>4, <2>3, <2>4
<1>9. tier' = tier /\ closer' = closer /\ engine' = engine
  BY DEF WriterTake, lifeVars
<1> QED
  BY <1>1, <1>6, <1>7, <1>8, <1>9 DEF PipeInv

LEMMA ClosePutPipe ==
  ASSUME BaseInv, PipeInv, ClosePut
  PROVE  PipeInv'
<1>1. tier = "closing" /\ engine = "stopping"
  BY DEF PipeInv, ClosePut
<1>2. writer' = writer /\ tier' = tier /\ closer' = "join" /\ engine' = engine
  BY DEF ClosePut
<1>3. PICK q, t : q = spillQ /\ t = spillQ'
  OBVIOUS
<1>4. q \in Seq(Entry) /\ PoisonLast(q, tier)
  BY <1>3 DEF BaseInv, TypeInv, PipeInv
<1>5. CASE t = q
  BY <1>1, <1>2, <1>3, <1>4, <1>5 DEF PipeInv
<1>6. CASE ~ShutdownRequested /\ t = Append(q, Poison)
  <2>1. Poison \notin ToSet(q) /\ writer.pc # "exited"
    BY <1>3, <1>6 DEF ShutdownRequested
  <2>2. PICK n : n = Len(q)
    OBVIOUS
  <2>3. n \in Nat /\ Len(t) = n + 1 /\ \A i \in 1 .. n : t[i] = q[i]
    BY <1>4, <1>6, <2>2
  <2>4. \A i \in 1 .. n : q[i] # Poison
    BY <1>4, <2>1, <2>2 DEF ToSet
  <2>5. PoisonLast(t, tier)
    BY <1>1, <2>3, <2>4 DEF PoisonLast
  <2> QED
    BY <1>1, <1>2, <1>3, <2>1, <2>5 DEF PipeInv
<1> QED
  BY <1>3, <1>5, <1>6 DEF ClosePut

LEMMA PipeStep == BaseInv /\ PipeInv /\ [Next]_vars => PipeInv'
<1>1. SUFFICES ASSUME BaseInv, PipeInv, [Next]_vars PROVE PipeInv'
  OBVIOUS
<1>2. ASSUME UNCHANGED <<spillQ, writer, lifeVars>> PROVE PipeInv'
  BY <1>1, <1>2 DEF lifeVars, PipeInv, PoisonLast
<1>3. CASE UNCHANGED vars
  BY <1>2, <1>3 DEF vars, ssdVars
<1>4. CASE Client
  BY <1>2, <1>4 DEF Client, AddScan, AddHit, AddRaises, AddMiss, ssdVars
<1>5. CASE Serve
  <2>1. ASSUME NEW r \in Requests, NEW tok \in Outputs, Finish(r, tok) PROVE PipeInv'
    <3>1. Spills(spillQ, ram, spillQ')
      BY <1>1, <2>1, FinishFacts
    <3>2. UNCHANGED <<writer, lifeVars>>
      BY <2>1 DEF Finish
    <3> QED
      BY <1>1, <3>1, <3>2, SpillsPipe
  <2>2. ASSUME NEW r \in Requests,
               Reserve(r) \/ Schedule(r) \/ ScheduleWithoutCache(r) \/ ScheduleRejected(r)
        PROVE  PipeInv'
    BY <1>2, <2>2 DEF Reserve, Schedule, ScheduleWithoutCache, ScheduleRejected, ssdVars
  <2> QED
    BY <1>5, <2>1, <2>2 DEF Serve
<1>6. CASE Promote
  <2>1. Spills(spillQ, ram, spillQ')
    BY <1>1, <1>6, PromoteBase
  <2>2. UNCHANGED <<writer, lifeVars>>
    BY <1>6 DEF Promote
  <2> QED
    BY <1>1, <2>1, <2>2, SpillsPipe
<1>7. CASE Read \/ QuarantineDirectory \/ QuarantineRow
  BY <1>2, <1>7 DEF Read, QuarantineDirectory, QuarantineRow, ssdVars
<1>8. CASE WriterTake
  BY <1>1, <1>8, TakePipe
<1>9. CASE WriterRemoveOld \/ WriterRename \/ WriterIndex \/ WriterEnforce \/ WriterDrop \/ WriterFails
  <2>1. /\ spillQ' = spillQ /\ tier' = tier /\ closer' = closer /\ engine' = engine
        /\ writer.pc \in {"write", "rename", "index", "enforce", "drop"}
        /\ writer'.pc # "exited"
    BY <1>1, <1>9, WriterTypes DEF WriterRemoveOld, WriterRename, WriterIndex, WriterEnforce,
       WriterDrop, WriterFails, At, To, lifeVars, Writer
  <2> QED
    BY <1>1, <2>1 DEF PipeInv, PoisonLast
<1>10. CASE Clear
  BY <1>1, <1>10 DEF Clear, ssdVars, PipeInv, PoisonLast
<1>11. CASE StopEngine
  BY <1>1, <1>11 DEF StopEngine, LoopFree, ssdVars, PipeInv, PoisonLast
<1>12. CASE Detach
  BY <1>1, <1>12 DEF Detach, ssdVars, PipeInv, PoisonLast
<1>13. CASE ClosePut
  BY <1>1, <1>13, ClosePutPipe
<1>14. CASE CloseJoin
  <2>1. spillQ = <<>>
    BY <1>1, <1>14 DEF CloseJoin, PipeInv
  <2>2. Len(<<>>) = 0
    OBVIOUS
  <2> QED
    BY <1>1, <1>14, <2>1, <2>2 DEF CloseJoin, ssdVars, PipeInv, PoisonLast
<1>15. CASE CloseTimeout
  BY <1>1, <1>15 DEF CloseTimeout, ssdVars, PipeInv, PoisonLast
<1>16. CASE StartEngine
  <2>1. CASE tier # "off" /\ UNCHANGED <<tier, ssdVars>>
    BY <1>1, <1>16, <2>1 DEF StartEngine, ssdVars, PipeInv, PoisonLast
  <2>2. CASE tier = "off" /\ tier' = "on" /\ spillQ' = <<>> /\ writer' = IdleWriter
    <3>1. Len(<<>>) = 0 /\ closer' = closer /\ closer = "none" /\ writer'.pc = "idle"
      BY <1>1, <1>16, <2>2 DEF StartEngine, IdleWriter, PipeInv
    <3> QED
      BY <2>2, <3>1 DEF PipeInv, PoisonLast
  <2> QED
    BY <1>16, <2>1, <2>2 DEF StartEngine
<1>17. CASE Crash
  <2>1. Len(<<>>) = 0 /\ IdleWriter.pc = "idle"
    BY DEF IdleWriter
  <2> QED
    BY <1>17, <2>1 DEF Crash, PipeInv, PoisonLast
<1> QED
  BY <1>1, <1>3, <1>4, <1>5, <1>6, <1>7, <1>8, <1>9, <1>10, <1>11, <1>12, <1>13, <1>14, <1>15,
     <1>16, <1>17 DEF Next, PromotionStep, WriterStep, CloseStep, Environment

LEMMA PipeInvariant == Spec => []PipeInv
<1>1. Init => PipeInv
  <2>1. Len(<<>>) = 0 /\ IdleWriter.pc = "idle"
    BY DEF IdleWriter
  <2> QED
    BY <2>1 DEF Init, PipeInv, PoisonLast
<1> QED
  BY <1>1, BaseInvariant, PipeStep, PTL DEF Spec

(* Nothing is ever queued behind the poison pill, and when close() has returned, *)
(* whatever was accepted for the SSD before has been taken by the writer: the    *)
(* pill waits its turn, later spills are refused and the tier ends drained.      *)
THEOREM PillDrainsTheQueue == Spec => []DrainBarrier
<1>1. PipeInv => DrainBarrier
  BY DEF PipeInv, PoisonLast, DrainBarrier
<1> QED
  BY <1>1, PipeInvariant, PTL

----------------------------------------------------------------------------
(* The capacity of the SSD.                                                 *)

IndexInv ==
  unenforced \in Nat /\ Len(index) <= SsdMaxEntries + unenforced + Owed

LEMMA IndexStep == BaseInv /\ PipeInv /\ IndexInv /\ [Next]_vars => IndexInv'
<1>1. SUFFICES ASSUME BaseInv, PipeInv, IndexInv, [Next]_vars PROVE IndexInv'
  OBVIOUS
<1>2. SsdMaxEntries \in Nat /\ Len(index) \in Nat /\ writer \in Writer /\ unenforced \in Nat
  BY <1>1, TieredCacheAssumptions DEF BaseInv, TypeInv, IndexInv
<1>3. Len(index') \in Nat
  BY <1>1, BaseStep DEF BaseInv, TypeInv
<1>4. ASSUME UNCHANGED <<writer, unenforced>>, index' = index \/ Len(index') <= Len(index)
      PROVE  IndexInv'
  <2>1. Len(index') <= Len(index)
    BY <1>2, <1>4
  <2>2. Owed' = Owed /\ Owed \in {0, 1}
    BY <1>4 DEF Owed
  <2> QED
    BY <1>1, <1>2, <1>3, <1>4, <2>1, <2>2 DEF IndexInv
<1>5. CASE UNCHANGED vars
  BY <1>4, <1>5 DEF vars, ssdVars, lifeVars
<1>6. CASE Client
  BY <1>4, <1>6 DEF Client, AddScan, AddHit, AddRaises, AddMiss, ssdVars, lifeVars
<1>7. CASE Serve
  <2>1. ASSUME NEW r \in Requests, ScheduleRejected(r)
        PROVE  index' = index \/ Len(index') <= Len(index)
    <3>1. index' = index \/ index' = Delete(index, req[r].key)
      BY <2>1 DEF ScheduleRejected
    <3> QED
      BY <1>1, <3>1, WriterTypes, RowFacts
  <2>2. UNCHANGED <<writer, unenforced>>
    BY <1>7 DEF Serve, Reserve, Schedule, ScheduleWithoutCache, ScheduleRejected, Finish,
       ssdVars, lifeVars
  <2>3. index' = index \/ Len(index') <= Len(index)
    BY <1>7, <2>1 DEF Serve, Reserve, Schedule, ScheduleWithoutCache, Finish, ssdVars
  <2> QED
    BY <1>4, <2>2, <2>3
<1>8. CASE PromotionStep
  <2>1. CASE Read \/ QuarantineDirectory
    BY <1>4, <2>1 DEF Read, QuarantineDirectory, ssdVars, lifeVars
  <2>2. CASE QuarantineRow
    <3>1. index' = Delete(index, req[worker.r].cand.key) /\ UNCHANGED <<writer, unenforced>>
      BY <2>2 DEF QuarantineRow, lifeVars
    <3>2. Len(index') <= Len(index)
      BY <1>1, <3>1, WriterTypes, RowFacts
    <3> QED
      BY <1>4, <3>1, <3>2
  <2>3. CASE Promote
    <3>1. index' = MoveToEnd(index, req[worker.r].cand.key) /\ UNCHANGED <<writer, unenforced>>
      BY <2>3 DEF Promote, lifeVars
    <3>2. Len(index') = Len(index)
      BY <1>1, <3>1, WriterTypes, RowFacts
    <3> QED
      BY <1>2, <1>4, <3>1, <3>2
  <2> QED
    BY <1>8, <2>1, <2>2, <2>3 DEF PromotionStep
<1>9. CASE WriterStep \/ WriterFails
  <2>1. CASE WriterTake \/ WriterRemoveOld \/ WriterRename
    <3>1. /\ index' = index /\ unenforced' = unenforced
          /\ writer.pc \in {"idle", "write", "rename"}
          /\ writer'.pc \in {"idle", "write", "rename", "index", "exited"}
      BY <1>2, <2>1 DEF WriterTake, WriterRemoveOld, WriterRename, At, To, Writer, lifeVars
    <3>2. Owed = 0 /\ Owed' = 0
      BY <3>1 DEF Owed
    <3> QED
      BY <1>1, <3>1, <3>2 DEF IndexInv
  <2>2. CASE WriterIndex
    <3>1. PICK d, row : d = Delete(index, writer.entry.key) /\ row = RowOf(writer.entry)
      OBVIOUS
    <3>2. d \in Seq(Row) /\ Len(d) <= Len(index)
      BY <1>1, <3>1, WriterTypes, RowFacts
    <3>3. index' = Append(d, row) /\ unenforced' = unenforced
      BY <2>2, <3>1 DEF WriterIndex, lifeVars
    <3>4. Len(index') <= Len(index) + 1
      BY <1>2, <3>2, <3>3
    <3>5. Owed = 0 /\ Owed' = 1
      BY <1>2, <2>2 DEF WriterIndex, At, To, Writer, Owed
    <3> QED
      BY <1>1, <1>2, <1>3, <3>3, <3>4, <3>5 DEF IndexInv
  <2>3. CASE WriterEnforce
    <3>1. index' = index /\ Owed = 1
      BY <2>3 DEF WriterEnforce, At, Owed
    <3>2. CASE Len(index) <= SsdMaxEntries /\ To("idle") /\ unenforced' = 0
      <4>1. Owed' = 0
        BY <1>2, <3>2 DEF To, Writer, Owed
      <4> QED
        BY <1>2, <3>1, <3>2, <4>1 DEF IndexInv
    <3>3. CASE /\ writer' = [pc |-> "drop", entry |-> [key |-> Head(index).key, kv |-> <<>>]]
               /\ unenforced' = unenforced
      <4>1. Owed' = 1
        BY <3>3 DEF Owed
      <4> QED
        BY <1>1, <3>1, <3>3, <4>1 DEF IndexInv
    <3> QED
      BY <2>3, <3>2, <3>3 DEF WriterEnforce
  <2>4. CASE WriterDrop
    <3>1. index' = Delete(index, writer.entry.key) /\ unenforced' = unenforced
      BY <2>4 DEF WriterDrop, lifeVars
    <3>2. Len(index') <= Len(index)
      BY <1>1, <3>1, WriterTypes, RowFacts
    <3>3. Owed = 1 /\ Owed' = 1
      BY <1>2, <2>4 DEF WriterDrop, At, To, Writer, Owed
    <3> QED
      BY <1>1, <1>2, <1>3, <3>1, <3>2, <3>3 DEF IndexInv
  <2>5. CASE WriterFails
    <3>1. index' = index /\ unenforced' = unenforced + Owed /\ writer'.pc = "idle"
      BY <1>2, <2>5 DEF WriterFails, To, Writer
    <3>2. Owed \in {0, 1} /\ Owed' = 0
      BY <3>1 DEF Owed
    <3> QED
      BY <1>1, <1>2, <3>1, <3>2 DEF IndexInv
  <2> QED
    BY <1>9, <2>1, <2>2, <2>3, <2>4, <2>5 DEF WriterStep
<1>10. CASE Clear \/ StopEngine \/ CloseTimeout \/ CloseStep
  BY <1>4, <1>10 DEF Clear, StopEngine, CloseTimeout, CloseStep, Detach, ClosePut, CloseJoin, ssdVars
<1>11. CASE StartEngine
  <2>1. CASE tier # "off" /\ UNCHANGED <<tier, ssdVars>>
    BY <1>4, <1>11, <2>1 DEF StartEngine, ssdVars
  <2>2. CASE tier = "off"
    <3>1. PICK S : index' = Within(index, S)
      BY <1>11, <2>2 DEF StartEngine
    <3>2. Len(index') <= Len(index)
      BY <1>2, <1>1, <3>1, WriterTypes, WithinFacts
    <3>3. unenforced' = unenforced /\ writer' = IdleWriter
      BY <1>11, <2>2 DEF StartEngine
    <3>4. writer.pc \in {"idle", "exited"}
      BY <1>1, <2>2 DEF PipeInv
    <3>5. Owed = 0 /\ Owed' = 0
      BY <3>3, <3>4 DEF Owed, IdleWriter
    <3> QED
      BY <1>1, <1>2, <1>3, <3>2, <3>3, <3>5 DEF IndexInv
  <2> QED
    BY <1>11, <2>1, <2>2 DEF StartEngine
<1>12. CASE Crash
  <2>1. index' = index /\ unenforced' = unenforced + Owed /\ writer' = IdleWriter
    BY <1>12 DEF Crash
  <2>2. Owed \in {0, 1} /\ Owed' = 0
    BY <2>1 DEF Owed, IdleWriter
  <2> QED
    BY <1>1, <1>2, <2>1, <2>2 DEF IndexInv
<1> QED
  BY <1>1, <1>5, <1>6, <1>7, <1>8, <1>9, <1>10, <1>11, <1>12 DEF Next, Environment

(* When the writer rests, the index names at most SSDCacheConfig.max_entries entries *)
(* and one for each write that failed, or crashed, after its row went in and that no *)
(* finished write has followed: the evictions of a write make up for all before it.  *)
THEOREM IndexKeepsItsCapacity == Spec => []IndexCapacity
<1>1. Init => IndexInv
  <2>1. Len(<<>>) = 0 /\ SsdMaxEntries \in Nat
    BY TieredCacheAssumptions
  <2> QED
    BY <2>1 DEF Init, IndexInv, Owed, IdleWriter
<1>2. IndexInv => IndexCapacity
  BY TieredCacheAssumptions DEF IndexInv, IndexCapacity, Owed
<1> QED
  BY <1>1, <1>2, BaseInvariant, PipeInvariant, IndexStep, PTL DEF Spec

----------------------------------------------------------------------------
(* KV states and their keys.                                                *)

Honest(e) == e.kv = e.key
NoReplay  == \A r \in Requests : ~req[r].replayed

HonestRequest(q) ==
  /\ q.st \in {"new", "scanned"} => q.kv = <<>> /\ q.hit = "miss"
  /\ q.st = "scanned" /\ q.scan.type # "miss" => Honest(q.scan.entry)
  /\ q.st = "waiting" => q.kv \o q.rest = q.prompt
  /\ q.st = "waiting" /\ q.hit = "ssd_pending" => q.kv = <<>> /\ IsPrefix(q.cand.key, q.prompt)
  /\ q.st = "running" => q.kv = q.prompt

(* Only a request that runs or ran was replayed. *)
ReplayedLate(q) == q.replayed => q.st \in {"running", "done", "lost"}

StoresHonest == \A e \in ToSet(ram) \cup ToSet(spillQ) \cup disk : Honest(e)
HandsHonest ==
  /\ writer.pc \in {"write", "rename"} => Honest(writer.entry)
  /\ worker.pc = "promote" => Honest(worker.entry)

HonestInv ==
  /\ \A r \in Requests : ReplayedLate(req[r])
  /\ worker.pc = "promote" => worker.entry.key = req[worker.r].cand.key
  /\ NoReplay => StoresHonest /\ HandsHonest /\ \A r \in Requests : HonestRequest(req[r])

LEMMA Rejoin ==
  ASSUME NEW k \in Tokens, NEW p \in Tokens, NEW n \in Nat, Agree(k, p, n)
  PROVE  SubSeq(k, 1, n) \o After(p, n) = p
<1>1. n <= Len(k) /\ n <= Len(p) /\ Len(p) \in Nat
  BY DEF Agree, Tokens
<1>2. SubSeq(k, 1, n) = SubSeq(p, 1, n)
  BY <1>1, PartsAgree
<1>3. PICK l, u, v : l = Len(p) /\ u = SubSeq(p, 1, n) /\ v = SubSeq(p, n + 1, l)
  OBVIOUS
<1>4. /\ u \in Seq(Nat) /\ Len(u) = n /\ (\A i \in 1 .. n : u[i] = p[i])
      /\ v \in Seq(Nat) /\ Len(v) = l - n /\ (\A i \in 1 .. l - n : v[i] = p[n + i])
  <2>1. p \in Seq(Nat) /\ n \in 0 .. Len(p) /\ n + 1 \in 1 .. l + 1 /\ l \in Nat
    BY <1>1, <1>3 DEF Tokens
  <2>2. u \in Seq(Nat) /\ Len(u) = n /\ (\A i \in 1 .. n : u[i] = p[i])
    BY <1>3, <2>1
  <2>3. \A i \in n + 1 .. l : p[i] \in Nat
    BY <1>3, <2>1
  <2>4. v \in Seq(Nat) /\ Len(v) = l - n
    <3>1. p \in Seq(Nat) /\ n \in 0 .. Len(p)
      BY <2>1
    <3>2. /\ SubSeq(p, n + 1, Len(p)) \in Seq(Nat)
          /\ Len(SubSeq(p, n + 1, Len(p))) = Len(p) - n
      BY <3>1, SplitFacts
    <3> QED
      BY <1>3, <3>2
  <2>5. \A i \in 1 .. l - n : v[i] = p[n + i]
    BY <1>3, <2>1, <2>3
  <2> QED
    BY <2>2, <2>4, <2>5
<1>5. PICK w : w = u \o v
  OBVIOUS
<1>6. /\ w \in Seq(Nat) /\ Len(w) = l /\ l \in Nat
      /\ \A i \in 1 .. l : w[i] = IF i <= n THEN u[i] ELSE v[i - n]
  <2>1. /\ u \o v \in Seq(Nat) /\ Len(u \o v) = Len(u) + Len(v)
        /\ \A i \in 1 .. Len(u) + Len(v) : (u \o v)[i] = IF i <= Len(u) THEN u[i] ELSE v[i - Len(u)]
    BY <1>4, ConcatProperties
  <2>2. Len(u) + Len(v) = l /\ l \in Nat
    <3>1. Len(u) = n /\ Len(v) = l - n
      BY <1>4
    <3>2. l \in Nat
      BY <1>1, <1>3
    <3> QED
      BY <3>1, <3>2
  <2> QED
    BY <1>4, <1>5, <2>1, <2>2
<1>7. \A i \in 1 .. l : w[i] = p[i]
  <2>1. SUFFICES ASSUME NEW i \in 1 .. l PROVE w[i] = p[i]
    OBVIOUS
  <2>2. CASE i <= n
    BY <1>4, <1>6, <2>2
  <2>3. CASE ~(i <= n)
    <3>1. i - n \in 1 .. l - n /\ n + (i - n) = i
      BY <1>6, <2>3
    <3> QED
      BY <1>4, <1>6, <2>3, <3>1
  <2> QED
    BY <2>2, <2>3
<1>8. w = p
  BY <1>3, <1>6, <1>7, SeqEqual DEF Tokens
<1> QED
  BY <1>2, <1>3, <1>5, <1>8 DEF After

LEMMA NothingJoined ==
  ASSUME NEW p \in Tokens
  PROVE  <<>> \o p = p /\ p \o <<>> = p
BY ConcatEmptySeq DEF Tokens

(* One request changes: what is left to show. *)
LEMMA RequestHonest ==
  ASSUME BaseInv, HonestInv, NEW r \in Requests, NEW q, req' = [req EXCEPT ![r] = q],
         ReplayedLate(q), req[r].replayed => q.replayed,
         NoReplay /\ ~q.replayed => HonestRequest(q)
  PROVE  /\ \A s \in Requests : ReplayedLate(req'[s])
         /\ NoReplay' => NoReplay /\ ~q.replayed /\ \A s \in Requests : HonestRequest(req'[s])
<1>1. /\ req'[r] = q /\ \A s \in Requests : s # r => req'[s] = req[s]
  BY DEF BaseInv, TypeInv
<1>2. \A s \in Requests : ReplayedLate(req'[s])
  BY <1>1 DEF HonestInv
<1>3. NoReplay' => NoReplay /\ ~q.replayed
  BY <1>1 DEF NoReplay
<1>4. ASSUME NoReplay', NEW s \in Requests PROVE HonestRequest(req'[s])
  <2>1. NoReplay /\ ~q.replayed
    BY <1>3, <1>4
  <2>2. CASE s = r
    BY <1>1, <2>1, <2>2
  <2>3. CASE s # r
    BY <1>1, <2>1, <2>3 DEF HonestInv
  <2> QED
    BY <2>2, <2>3
<1> QED
  BY <1>2, <1>3, <1>4

(* A request changes that the worker does not hold, and nothing is stored. *)
LEMMA RequestHonestFrame ==
  ASSUME BaseInv, HonestInv, NEW r \in Requests, NEW q, req' = [req EXCEPT ![r] = q],
         ReplayedLate(q), req[r].replayed => q.replayed,
         NoReplay /\ ~q.replayed => HonestRequest(q),
         worker.pc = "idle" \/ req[r].st # "waiting",
         ToSet(ram') \subseteq ToSet(ram), disk' \subseteq disk,
         UNCHANGED <<worker, writer, spillQ>>
  PROVE  HonestInv'
<1>1. /\ \A s \in Requests : ReplayedLate(req'[s])
      /\ NoReplay' => NoReplay /\ \A s \in Requests : HonestRequest(req'[s])
  BY RequestHonest
<1>2. worker' = worker /\ writer' = writer /\ spillQ' = spillQ
  OBVIOUS
<1>3. NoReplay' => StoresHonest'
  BY <1>1, <1>2 DEF HonestInv, StoresHonest
<1>4. NoReplay' => HandsHonest'
  BY <1>1, <1>2 DEF HonestInv, HandsHonest
<1>5. worker'.pc = "promote" => worker'.entry.key = req'[worker'.r].cand.key
  <2>1. worker.pc = "promote" => worker.r # r
    BY DEF BaseInv, WorkerInv
  <2> QED
    BY <1>2, <2>1 DEF BaseInv, TypeInv, WorkerInv, HonestInv
<1> QED
  BY <1>1, <1>3, <1>4, <1>5 DEF HonestInv

LEMMA AddScanHonest ==
  ASSUME BaseInv, HonestInv, NEW r \in Requests, NEW p \in Prompts, AddScan(r, p)
  PROVE  HonestInv'
<1>1. PICK m, q : m = Match(p) /\ q = [req[r] EXCEPT !.st = "scanned", !.prompt = p, !.scan = m]
  OBVIOUS
<1>2. req[r] \in Request /\ req[r].st = "new" /\ req' = [req EXCEPT ![r] = q]
  BY <1>1 DEF BaseInv, TypeInv, Admissible, AddScan, Next1
<1>3. Found(m, p)
  BY <1>1, MatchFacts, TieredCacheAssumptions DEF BaseInv, CacheInv, Sound, Tokens
<1>4. /\ q.st = "scanned" /\ q.prompt = p /\ q.scan = m /\ q.kv = req[r].kv
      /\ q.hit = req[r].hit /\ q.replayed = req[r].replayed
  BY <1>1, <1>2 DEF Request
<1>5. ~req[r].replayed
  BY <1>2 DEF HonestInv, ReplayedLate
<1>6. NoReplay /\ ~q.replayed => HonestRequest(q)
  BY <1>2, <1>3, <1>4 DEF HonestInv, StoresHonest, HonestRequest, Found
<1>7. ReplayedLate(q)
  BY <1>4, <1>5 DEF ReplayedLate
<1>8. UNCHANGED <<worker, writer, spillQ>> /\ ram' = ram /\ disk' = disk
  BY DEF AddScan, cacheVars, ssdVars
<1> QED
  BY <1>2, <1>4, <1>6, <1>7, <1>8, RequestHonestFrame

LEMMA AddHitHonest ==
  ASSUME BaseInv, HonestInv, NEW r \in Requests, AddHit(r)
  PROVE  HonestInv'
<1>1. PICK q \in Admissible :
        /\ req' = [req EXCEPT ![r] = q] /\ q.st = "waiting" /\ q.replayed = req[r].replayed
        /\ q.hit \in Types /\ q.prompt = req[r].prompt
        /\ q.kv = Reused(req[r].scan, req[r].prompt)
        /\ q.rest = After(req[r].prompt, Covered(req[r].scan, req[r].prompt))
  BY HitFacts
<1>2. PICK e, p, c : e = req[r].scan.entry /\ p = req[r].prompt /\ c = Covered(req[r].scan, p)
  OBVIOUS
<1>3. req[r] \in Admissible /\ req[r].st = "scanned" /\ req[r].scan.type # "miss"
  BY DEF BaseInv, TypeInv, AddHit
<1>4. e \in Entry /\ e.key \in Tokens /\ p \in Tokens
  BY <1>2, <1>3 DEF Admissible, Request, Entry
<1>5. c \in Nat /\ Agree(e.key, p, c)
  BY <1>2, <1>3, CoveredFacts
<1>6. ~req[r].replayed
  BY <1>3 DEF HonestInv, ReplayedLate
<1>7. ASSUME NoReplay PROVE q.kv \o q.rest = q.prompt
  <2>1. e.kv = e.key
    BY <1>2, <1>3, <1>7 DEF HonestInv, HonestRequest, Honest
  <2>2. PICK l : l = Len(e.key)
    OBVIOUS
  <2>3. l \in Nat /\ c <= l
    BY <1>4, <1>5, <2>2 DEF Agree, Tokens
  <2>4. q.kv = Trim(e.key, l - c)
    BY <1>1, <1>2, <2>1, <2>2 DEF Reused
  <2>5. q.kv = SubSeq(e.key, 1, c)
    <3>1. CASE c = 0
      <4>1. ~(l - c < l) /\ 0 \in Int /\ 1 \in Int /\ 0 < 1
        BY <2>3, <3>1
      <4>2. q.kv = <<>>
        BY <2>2, <2>4, <4>1 DEF Trim
      <4>3. SubSeq(e.key, 1, 0) = <<>>
        BY <4>1, SubSeqEmpty
      <4> QED
        BY <3>1, <4>2, <4>3
    <3>2. CASE c # 0
      <4>1. l - c < l /\ l - (l - c) = c
        BY <1>5, <2>3, <3>2
      <4> QED
        BY <2>2, <2>4, <4>1 DEF Trim
    <3> QED
      BY <3>1, <3>2
  <2>6. q.rest = After(p, c)
    BY <1>1, <1>2
  <2>7. SubSeq(e.key, 1, c) \o After(p, c) = p
    BY <1>4, <1>5, Rejoin
  <2> QED
    BY <1>1, <1>2, <2>5, <2>6, <2>7
<1>8. NoReplay /\ ~q.replayed => HonestRequest(q)
  BY <1>1, <1>7 DEF HonestRequest, Types
<1>9. ReplayedLate(q)
  BY <1>1, <1>6 DEF ReplayedLate
<1>10. UNCHANGED <<worker, writer, spillQ>> /\ disk' = disk /\ ToSet(ram') \subseteq ToSet(ram)
  <2>1. ram' = MoveToEnd(ram, e.key)
    BY <1>2 DEF AddHit
  <2>2. ToSet(MoveToEnd(ram, e.key)) = ToSet(ram)
    BY SoundMove DEF BaseInv, CacheInv
  <2> QED
    BY <2>1, <2>2 DEF AddHit, ssdVars
<1> QED
  BY <1>1, <1>3, <1>8, <1>9, <1>10, RequestHonestFrame

LEMMA AddMissHonest ==
  ASSUME BaseInv, HonestInv, NEW r \in Requests, AddMiss(r) \/ AddRaises(r)
  PROVE  HonestInv'
<1>1. /\ req[r] \in Request /\ req[r].st = "scanned"
      /\ UNCHANGED <<worker, writer, spillQ>> /\ ram' = ram /\ disk' = disk
  BY DEF BaseInv, TypeInv, Admissible, AddMiss, AddRaises, cacheVars, ssdVars
<1>2. ~req[r].replayed /\ req[r].prompt \in Tokens
  BY <1>1 DEF HonestInv, ReplayedLate, Request
<1>3. CASE AddRaises(r)
  <2>1. PICK q : q = Lost(req[r])
    OBVIOUS
  <2>2. req' = [req EXCEPT ![r] = q] /\ q.st = "lost" /\ q.replayed = req[r].replayed
    BY <1>1, <1>3, <2>1, RetiredFacts DEF AddRaises, Lost
  <2>3. HonestRequest(q) /\ ReplayedLate(q)
    BY <2>2 DEF HonestRequest, ReplayedLate
  <2> QED
    BY <1>1, <2>2, <2>3, RequestHonestFrame
<1>4. CASE AddMiss(r)
  <2>1. PICK q : /\ req' = [req EXCEPT ![r] = q]
                 /\ \/ q = [req[r] EXCEPT !.st = "waiting", !.rest = req[r].prompt]
                    \/ \E c \in SsdCandidates(req[r].prompt) :
                         q = [req[r] EXCEPT !.st = "waiting", !.rest = req[r].prompt,
                                            !.hit = "ssd_pending", !.cand = c]
    BY <1>4 DEF AddMiss
  <2>2. /\ q.st = "waiting" /\ q.rest = q.prompt /\ q.prompt = req[r].prompt
        /\ q.kv = req[r].kv /\ q.replayed = req[r].replayed
        /\ q.hit = req[r].hit \/ IsPrefix(q.cand.key, q.prompt)
    <3>1. \A c \in SsdCandidates(req[r].prompt) : IsPrefix(c.key, req[r].prompt)
      BY DEF SsdCandidates
    <3>2. CASE q = [req[r] EXCEPT !.st = "waiting", !.rest = req[r].prompt]
      BY <1>1, <3>2 DEF Request
    <3>3. CASE \E c \in SsdCandidates(req[r].prompt) :
                 q = [req[r] EXCEPT !.st = "waiting", !.rest = req[r].prompt,
                                    !.hit = "ssd_pending", !.cand = c]
      <4>1. PICK c \in SsdCandidates(req[r].prompt) :
                 q = [req[r] EXCEPT !.st = "waiting", !.rest = req[r].prompt,
                                    !.hit = "ssd_pending", !.cand = c]
        BY <3>3
      <4>2. IsPrefix(c.key, req[r].prompt)
        BY <3>1
      <4>3. /\ q.st = "waiting" /\ q.rest = req[r].prompt /\ q.prompt = req[r].prompt
            /\ q.kv = req[r].kv /\ q.replayed = req[r].replayed /\ q.cand = c
        BY <1>1, <4>1 DEF Request
      <4> QED
        BY <4>2, <4>3
    <3> QED
      BY <2>1, <3>2, <3>3
  <2>3. ASSUME NoReplay PROVE HonestRequest(q)
    <3>1. req[r].kv = <<>> /\ req[r].hit = "miss"
      BY <1>1, <2>3 DEF HonestInv, HonestRequest
    <3>2. q.kv \o q.rest = q.prompt
      BY <1>2, <2>2, <3>1, NothingJoined
    <3> QED
      BY <2>2, <3>1, <3>2 DEF HonestRequest
  <2>4. ReplayedLate(q)
    BY <1>2, <2>2 DEF ReplayedLate
  <2> QED
    BY <1>1, <2>1, <2>2, <2>3, <2>4, RequestHonestFrame
<1> QED
  BY <1>3, <1>4

(* What a sequence starts from, with its match or without. *)
LEMMA InsertHonest ==
  ASSUME NEW q \in Admissible, q.st = "waiting", q.kv \o q.rest = q.prompt
  PROVE  ~Insert(q).replayed => HonestRequest(Insert(q))
<1>1. PICK x : x = Insert(q)
  OBVIOUS
<1>2. /\ x.st = "running" /\ x.replayed = (q.rest = <<>>) /\ x.prompt = q.prompt
      /\ q.rest # <<>> => x.kv = q.kv \o q.rest
  BY <1>1, InsertFacts
<1>3. ASSUME ~x.replayed PROVE HonestRequest(x)
  BY <1>2, <1>3 DEF HonestRequest
<1> QED
  BY <1>1, <1>3

LEMMA ScheduleHonest ==
  ASSUME BaseInv, HonestInv, NEW r \in Requests,
         Schedule(r) \/ ScheduleWithoutCache(r) \/ ScheduleRejected(r)
  PROVE  HonestInv'
<1>1. /\ req[r] \in Admissible /\ req[r].st = "waiting" /\ worker.pc = "idle"
      /\ UNCHANGED <<worker, writer, spillQ>>
  BY DEF BaseInv, TypeInv, Schedule, ScheduleWithoutCache, ScheduleRejected, Idle, ssdVars
<1>2. req[r].prompt \in Tokens
  BY <1>1 DEF Admissible, Request
<1>3. PICK f : f = Forget(req[r])
  OBVIOUS
<1>4. /\ f \in Admissible /\ f.st = "waiting" /\ f.kv \o f.rest = f.prompt
  <2>1. f.kv = <<>> /\ f.rest = req[r].prompt /\ f.prompt = req[r].prompt
    BY <1>1, <1>3, ForgetFacts
  <2> QED
    BY <1>1, <1>2, <1>3, <2>1, ForgetFacts, NothingJoined
<1>5. PICK q : /\ req' = [req EXCEPT ![r] = q]
               /\ q = Insert(req[r]) \/ q = Insert(f)
  BY <1>3 DEF Schedule, ScheduleWithoutCache, ScheduleRejected
<1>6. q.st = "running"
  BY <1>1, <1>4, <1>5, InsertFacts
<1>7. ~req[r].replayed
  BY <1>1 DEF HonestInv, ReplayedLate
<1>8. ASSUME NoReplay, ~q.replayed PROVE HonestRequest(q)
  <2>1. req[r].kv \o req[r].rest = req[r].prompt
    BY <1>1, <1>8 DEF HonestInv, HonestRequest
  <2> QED
    BY <1>1, <1>4, <1>5, <1>8, <2>1, InsertHonest
<1>9. ToSet(ram') \subseteq ToSet(ram) /\ disk' \subseteq disk
  <2>1. CASE ScheduleRejected(r)
    BY <2>1, RejectedFacts
  <2>2. CASE Schedule(r) \/ ScheduleWithoutCache(r)
    BY <2>2 DEF Schedule, ScheduleWithoutCache, cacheVars, ssdVars
  <2> QED
    BY <2>1, <2>2
<1>10. ReplayedLate(q)
  BY <1>6 DEF ReplayedLate
<1> QED
  BY <1>1, <1>5, <1>7, <1>8, <1>9, <1>10, RequestHonestFrame

(* A store of an honest entry leaves the stores honest. *)
LEMMA StoreHonest ==
  ASSUME StoresHonest, NEW e, Honest(e), ToSet(ram') \subseteq ToSet(ram) \cup {e},
         BaseInv, Spills(spillQ, ram, spillQ'), disk' = disk
  PROVE  StoresHonest'
<1>1. ToSet(spillQ') \subseteq ToSet(spillQ) \cup ToSet(ram)
  <2>1. CASE spillQ' = spillQ
    BY <2>1
  <2>2. CASE \E u \in Seq(Entry) : spillQ' = spillQ \o u /\ ToSet(u) \subseteq ToSet(ram)
    <3>1. PICK u \in Seq(Entry) : spillQ' = spillQ \o u /\ ToSet(u) \subseteq ToSet(ram)
      BY <2>2
    <3>2. PICK q, t : q = spillQ /\ t = spillQ'
      OBVIOUS
    <3>3. q \in Seq(Entry) /\ t = q \o u
      BY <3>1, <3>2 DEF BaseInv, TypeInv
    <3>4. ToSet(t) = ToSet(q) \cup ToSet(u)
      BY <3>3, ConcatFacts
    <3> QED
      BY <3>1, <3>2, <3>4
  <2> QED
    BY <2>1, <2>2 DEF Spills
<1> QED
  BY <1>1 DEF StoresHonest

LEMMA FinishHonest ==
  ASSUME BaseInv, HonestInv, NEW r \in Requests, NEW tok \in Outputs, Finish(r, tok)
  PROVE  HonestInv'
<1>1. PICK e, q : /\ e = [key |-> Append(req[r].prompt, tok), kv |-> Append(req[r].kv, tok)]
                  /\ q = Retired(req[r], "done")
  OBVIOUS
<1>2. /\ req[r] \in Request /\ req[r].st = "running" /\ worker.pc = "idle"
      /\ worker' = worker /\ writer' = writer /\ disk' = disk /\ req' = [req EXCEPT ![r] = q]
  BY <1>1 DEF BaseInv, TypeInv, Admissible, Finish, Idle
<1>3. q.st = "done" /\ q.replayed = req[r].replayed
  BY <1>1, <1>2, RetiredFacts
<1>4. HonestRequest(q) /\ ReplayedLate(q)
  BY <1>3 DEF HonestRequest, ReplayedLate
<1>5. /\ \A s \in Requests : ReplayedLate(req'[s])
      /\ NoReplay' => NoReplay /\ \A s \in Requests : HonestRequest(req'[s])
  BY <1>2, <1>3, <1>4, RequestHonest
<1>6. ASSUME NoReplay PROVE StoresHonest'
  <2>1. req[r].kv = req[r].prompt
    BY <1>2, <1>6 DEF HonestInv, HonestRequest
  <2>2. Honest(e)
    BY <1>1, <2>1 DEF Honest
  <2>3. ToSet(ram') \subseteq ToSet(ram) \cup {e} /\ Spills(spillQ, ram, spillQ')
    BY <1>1, FinishFacts
  <2>4. StoresHonest
    BY <1>6 DEF HonestInv
  <2> QED
    BY <1>2, <2>2, <2>3, <2>4, StoreHonest
<1>7. ASSUME NoReplay PROVE HandsHonest'
  BY <1>2, <1>7 DEF HonestInv, HandsHonest
<1> QED
  BY <1>2, <1>5, <1>6, <1>7 DEF HonestInv

LEMMA PromoteHonest ==
  ASSUME BaseInv, HonestInv, Promote
  PROVE  HonestInv'
<1>1. PICK r, c, e : r = worker.r /\ c = req[r].cand /\ e = worker.entry
  OBVIOUS
<1>2. /\ r \in Requests /\ req[r] \in Request /\ req[r].st = "waiting" /\ c \in Row
      /\ e \in Entry /\ req[r].hit = "ssd_pending" /\ worker.pc = "promote"
      /\ e.key = c.key
  BY <1>1, HeldFacts DEF Promote, BaseInv, TypeInv, Worker, WorkerInv, HonestInv
<1>3. PICK q \in Admissible :
        /\ req' = [req EXCEPT ![r] = q] /\ q.st = "waiting" /\ q.hit = "ssd_hit"
        /\ q.prompt = req[r].prompt /\ q.replayed = req[r].replayed /\ q.kv = e.kv
        /\ Len(c.key) <= Len(req[r].rest) => q.rest = After(req[r].rest, Len(c.key))
  BY <1>1, PromoteFacts
<1>4. ~req[r].replayed
  BY <1>2 DEF HonestInv, ReplayedLate
<1>5. ASSUME NoReplay PROVE Honest(e) /\ q.kv \o q.rest = q.prompt
  <2>1. e.kv = e.key
    BY <1>1, <1>2, <1>5 DEF HonestInv, HandsHonest, Honest
  <2>2. /\ req[r].kv = <<>> /\ req[r].kv \o req[r].rest = req[r].prompt
        /\ IsPrefix(c.key, req[r].prompt)
    BY <1>1, <1>2, <1>5 DEF HonestInv, HonestRequest
  <2>3. req[r].rest \in Tokens /\ req[r].prompt \in Tokens /\ c.key \in Tokens
    BY <1>2 DEF Request, Row
  <2>4. req[r].rest = req[r].prompt
    BY <2>2, <2>3, NothingJoined
  <2>5. PICK n : n = Len(c.key)
    OBVIOUS
  <2>6. n \in Nat /\ Agree(c.key, req[r].prompt, n) /\ SubSeq(c.key, 1, n) = c.key
    BY <2>2, <2>3, <2>5, PrefixAgrees, SubSeqFull DEF Tokens
  <2>7. c.key \o After(req[r].prompt, n) = req[r].prompt
    BY <2>3, <2>6, Rejoin
  <2>8. n <= Len(req[r].rest)
    BY <2>4, <2>6 DEF Agree
  <2> QED
    BY <1>2, <1>3, <2>1, <2>4, <2>5, <2>7, <2>8 DEF Honest
<1>6. NoReplay /\ ~q.replayed => HonestRequest(q)
  BY <1>3, <1>5 DEF HonestRequest
<1>7. ReplayedLate(q)
  BY <1>3, <1>4 DEF ReplayedLate
<1>8. /\ \A s \in Requests : ReplayedLate(req'[s])
      /\ NoReplay' => NoReplay /\ \A s \in Requests : HonestRequest(req'[s])
  BY <1>2, <1>3, <1>6, <1>7, RequestHonest
<1>9. worker' = IdleWorker /\ writer' = writer /\ disk' = disk
  BY DEF Promote
<1>10. ASSUME NoReplay PROVE StoresHonest'
  <2>1. ToSet(ram') \subseteq ToSet(ram) \cup {e} /\ Spills(spillQ, ram, spillQ')
    BY <1>1, PromoteBase
  <2>2. StoresHonest /\ Honest(e)
    BY <1>5, <1>10 DEF HonestInv
  <2> QED
    BY <1>9, <2>1, <2>2, StoreHonest
<1>11. worker'.pc = "idle"
  BY <1>9 DEF IdleWorker
<1>12. ASSUME NoReplay PROVE HandsHonest'
  BY <1>9, <1>11, <1>12 DEF HonestInv, HandsHonest
<1> QED
  BY <1>8, <1>10, <1>11, <1>12 DEF HonestInv

LEMMA ReserveHonest ==
  ASSUME BaseInv, HonestInv, NEW r \in Requests, Reserve(r)
  PROVE  HonestInv'
<1>1. /\ req[r] \in Request /\ req[r].st = "waiting" /\ worker.pc = "idle"
      /\ ram' = ram /\ disk' = disk /\ spillQ' = spillQ /\ writer' = writer
  BY DEF BaseInv, TypeInv, Admissible, Reserve, Idle, ssdVars
<1>2. CASE Missed(r) /\ worker' = worker
  <2>1. PICK q : q = [req[r] EXCEPT !.hit = "miss"]
    OBVIOUS
  <2>2. req' = [req EXCEPT ![r] = q]
    BY <1>2, <2>1 DEF Missed
  <2>3. /\ q.st = "waiting" /\ q.hit = "miss" /\ q.kv = req[r].kv /\ q.rest = req[r].rest
        /\ q.prompt = req[r].prompt /\ q.replayed = req[r].replayed
    BY <1>1, <2>1 DEF Request
  <2>4. ReplayedLate(q)
    BY <1>1, <2>3 DEF HonestInv, ReplayedLate
  <2>5. NoReplay => HonestRequest(q)
    BY <1>1, <2>3 DEF HonestInv, HonestRequest
  <2> QED
    BY <1>1, <1>2, <2>2, <2>3, <2>4, <2>5, RequestHonestFrame
<1>3. CASE worker' = [IdleWorker EXCEPT !.pc = "read", !.r = r] /\ req' = req
  <2>1. worker'.pc = "read"
    BY <1>3 DEF IdleWorker
  <2>2. NoReplay' = NoReplay
    BY <1>3 DEF NoReplay
  <2>3. NoReplay => StoresHonest' /\ HandsHonest'
    BY <1>1, <2>1 DEF HonestInv, StoresHonest, HandsHonest
  <2> QED
    BY <1>3, <2>1, <2>2, <2>3 DEF HonestInv
<1> QED
  BY <1>2, <1>3 DEF Reserve

(* Requests, the RAM cache and the queue stay: the writer or the worker moves. *)
LEMMA MoveHonest ==
  ASSUME HonestInv, req' = req, ram' = ram, ToSet(spillQ') \subseteq ToSet(spillQ),
         disk' \subseteq disk \/ (writer.pc = "rename" /\ disk' = disk \cup {writer.entry}),
         writer'.pc \in {"write", "rename"} =>
           \/ writer'.entry \in ToSet(spillQ)
           \/ writer.pc \in {"write", "rename"} /\ writer'.entry = writer.entry,
         worker'.pc = "promote" =>
           \/ worker' = worker
           \/ worker'.entry \in disk /\ worker'.entry.key = req[worker'.r].cand.key
  PROVE  HonestInv'
<1>1. NoReplay' = NoReplay /\ \A r \in Requests : req'[r] = req[r]
  BY DEF NoReplay
<1>2. ASSUME NoReplay PROVE StoresHonest'
  <2>1. StoresHonest /\ HandsHonest
    BY <1>2 DEF HonestInv
  <2>2. writer.pc = "rename" => Honest(writer.entry)
    BY <2>1 DEF HandsHonest
  <2> QED
    BY <2>1, <2>2 DEF StoresHonest
<1>3. ASSUME NoReplay PROVE HandsHonest'
  <2>1. StoresHonest /\ HandsHonest
    BY <1>3 DEF HonestInv
  <2> QED
    BY <2>1 DEF StoresHonest, HandsHonest
<1>4. worker'.pc = "promote" => worker'.entry.key = req'[worker'.r].cand.key
  BY DEF HonestInv
<1> QED
  BY <1>1, <1>2, <1>3, <1>4 DEF HonestInv

LEMMA WorkerMovesHonest ==
  ASSUME BaseInv, HonestInv, Read \/ QuarantineDirectory
  PROVE  HonestInv'
<1>1. worker \in Worker /\ req' = req /\ ram' = ram /\ spillQ' = spillQ /\ writer' = writer
      /\ disk' \subseteq disk
  BY DEF BaseInv, TypeInv, Read, QuarantineDirectory, cacheVars, ssdVars, Removed
<1>2. ASSUME worker'.pc = "promote"
      PROVE  worker'.entry \in disk /\ worker'.entry.key = req[worker'.r].cand.key
  <2>1. PICK e \in disk : /\ e.key = req[worker.r].cand.key
                          /\ worker' = [worker EXCEPT !.pc = "promote", !.entry = e]
    BY <1>1, <1>2 DEF Read, QuarantineDirectory, Worker
  <2> QED
    BY <1>1, <2>1 DEF Worker
<1> QED
  BY <1>1, <1>2, MoveHonest

LEMMA QuarantineRowHonest ==
  ASSUME BaseInv, HonestInv, QuarantineRow
  PROVE  HonestInv'
<1>1. PICK r : r = worker.r
  OBVIOUS
<1>2. /\ r \in Requests /\ req[r] \in Request /\ req[r].st = "waiting"
      /\ worker' = IdleWorker /\ ram' = ram /\ disk' = disk /\ spillQ' = spillQ
      /\ writer' = writer
  BY <1>1, HeldFacts DEF QuarantineRow
<1>3. PICK q : q = [req[r] EXCEPT !.hit = "miss"]
  OBVIOUS
<1>4. req' = [req EXCEPT ![r] = q]
  BY <1>1, <1>3 DEF QuarantineRow, Missed
<1>5. /\ q.st = "waiting" /\ q.hit = "miss" /\ q.kv = req[r].kv /\ q.rest = req[r].rest
      /\ q.prompt = req[r].prompt /\ q.replayed = req[r].replayed
  BY <1>2, <1>3 DEF Request
<1>6. ReplayedLate(q) /\ (NoReplay => HonestRequest(q))
  BY <1>2, <1>5 DEF HonestInv, ReplayedLate, HonestRequest
<1>7. /\ \A s \in Requests : ReplayedLate(req'[s])
      /\ NoReplay' => NoReplay /\ \A s \in Requests : HonestRequest(req'[s])
  BY <1>2, <1>4, <1>5, <1>6, RequestHonest
<1>8. worker'.pc = "idle"
  BY <1>2 DEF IdleWorker
<1>9. NoReplay => StoresHonest' /\ HandsHonest'
  BY <1>2, <1>8 DEF HonestInv, StoresHonest, HandsHonest
<1> QED
  BY <1>7, <1>8, <1>9 DEF HonestInv

LEMMA WriterHonest ==
  ASSUME BaseInv, HonestInv, WriterStep \/ WriterFails
  PROVE  HonestInv'
<1>1. writer \in Writer /\ spillQ \in Seq(Entry)
  BY DEF BaseInv, TypeInv
<1>2. req' = req /\ ram' = ram /\ worker' = worker
  BY DEF WriterStep, WriterTake, WriterRemoveOld, WriterRename, WriterIndex, WriterEnforce,
     WriterDrop, WriterFails, cacheVars
<1>3. ToSet(spillQ') \subseteq ToSet(spillQ)
  <2>1. CASE WriterTake
    <3>1. PICK q, t : q = spillQ /\ t = Tail(spillQ)
      OBVIOUS
    <3>2. q \in Seq(Entry) /\ q # <<>> /\ t = Tail(q) /\ spillQ' = t
      BY <1>1, <2>1, <3>1 DEF WriterTake
    <3>3. ToSet(t) \subseteq ToSet(q)
      <4>1. PICK n : n = Len(q)
        OBVIOUS
      <4>2. n \in Nat /\ t \in Seq(Entry) /\ Len(t) = n - 1 /\ \A i \in 1 .. n - 1 : t[i] = q[i + 1]
        BY <3>2, <4>1, HeadTailProperties
      <4>3. \A i \in 1 .. n - 1 : i + 1 \in 1 .. n
        BY <4>2
      <4>4. DOMAIN t = 1 .. n - 1 /\ DOMAIN q = 1 .. n
        BY <3>2, <4>1, <4>2
      <4> QED
        BY <4>2, <4>3, <4>4 DEF ToSet
    <3> QED
      BY <3>1, <3>2, <3>3
  <2>2. CASE ~WriterTake
    BY <2>2 DEF WriterStep, WriterRemoveOld, WriterRename, WriterIndex, WriterEnforce,
       WriterDrop, WriterFails
  <2> QED
    BY <2>1, <2>2
<1>4. disk' \subseteq disk \/ (writer.pc = "rename" /\ disk' = disk \cup {writer.entry})
  BY DEF WriterStep, WriterTake, WriterRemoveOld, WriterRename, WriterIndex, WriterEnforce,
     WriterDrop, WriterFails, Removed, At
<1>5. ASSUME writer'.pc \in {"write", "rename"}
      PROVE  \/ writer'.entry \in ToSet(spillQ)
             \/ writer.pc \in {"write", "rename"} /\ writer'.entry = writer.entry
  <2>1. CASE WriterTake
    <3>1. writer'.entry = Head(spillQ) /\ spillQ # <<>>
      BY <2>1 DEF WriterTake
    <3>2. 1 \in DOMAIN spillQ /\ Head(spillQ) = spillQ[1]
      BY <1>1, <3>1
    <3> QED
      BY <3>1, <3>2 DEF ToSet
  <2>2. CASE WriterRemoveOld
    BY <1>1, <2>2 DEF WriterRemoveOld, At, To, Writer
  <2>3. CASE WriterRename \/ WriterIndex \/ WriterEnforce \/ WriterDrop \/ WriterFails
    BY <1>1, <1>5, <2>3 DEF WriterRename, WriterIndex, WriterEnforce, WriterDrop, WriterFails,
       To, Writer
  <2> QED
    BY <2>1, <2>2, <2>3 DEF WriterStep
<1> QED
  BY <1>2, <1>3, <1>4, <1>5, MoveHonest

LEMMA LifeHonest ==
  ASSUME BaseInv, HonestInv, Clear \/ StopEngine \/ ClosePut \/ CloseJoin \/ CloseTimeout \/ StartEngine
  PROVE  HonestInv'
<1>1. req' = req /\ worker' = worker /\ ToSet(ram') \subseteq ToSet(ram)
  <2>1. CASE Clear
    BY <2>1, NothingKeyed DEF Clear
  <2>2. CASE ~Clear
    BY <2>2 DEF StopEngine, ClosePut, CloseJoin, CloseTimeout, StartEngine, cacheVars
  <2> QED
    BY <2>1, <2>2 DEF Clear
<1>2. /\ disk' \subseteq disk
      /\ \A e \in ToSet(spillQ') : e \in ToSet(spillQ) \/ e = Poison
  <2>1. CASE ClosePut
    <3>1. PICK q, t : q = spillQ /\ t = spillQ'
      OBVIOUS
    <3>2. q \in Seq(Entry) /\ (t = q \/ t = Append(q, Poison))
      BY <2>1, <3>1 DEF ClosePut, BaseInv, TypeInv
    <3>3. \A e \in ToSet(t) : e \in ToSet(q) \/ e = Poison
      <4>1. CASE t = q
        BY <4>1
      <4>2. CASE t = Append(q, Poison)
        <5>1. PICK n : n = Len(q)
          OBVIOUS
        <5>2. /\ n \in Nat /\ DOMAIN q = 1 .. n /\ DOMAIN t = 1 .. n + 1
              /\ t[n + 1] = Poison /\ \A i \in 1 .. n : t[i] = q[i]
          BY <3>2, <4>2, <5>1
        <5>3. \A i \in 1 .. n + 1 : i \in 1 .. n \/ i = n + 1
          BY <5>2
        <5> QED
          BY <5>2, <5>3 DEF ToSet
      <4> QED
        BY <3>2, <4>1, <4>2
    <3> QED
      BY <2>1, <3>1, <3>3 DEF ClosePut
  <2>2. CASE StartEngine /\ tier = "off"
    <3>1. spillQ' = <<>> /\ disk' \subseteq disk
      BY <2>2 DEF StartEngine
    <3> QED
      BY <3>1, NothingKeyed
  <2>3. CASE UNCHANGED ssdVars
    BY <2>3 DEF ssdVars
  <2> QED
    BY <2>1, <2>2, <2>3 DEF Clear, StopEngine, CloseJoin, CloseTimeout, StartEngine
<1>3. writer' = writer \/ writer'.pc = "idle"
  BY DEF Clear, StopEngine, ClosePut, CloseJoin, CloseTimeout, StartEngine, ssdVars, IdleWriter
<1>4. Honest(Poison)
  BY DEF Honest, Poison
<1>5. NoReplay' = NoReplay
  BY <1>1 DEF NoReplay
<1>6. NoReplay => StoresHonest'
  BY <1>1, <1>2, <1>4 DEF HonestInv, StoresHonest
<1>7. NoReplay => HandsHonest'
  BY <1>1, <1>3 DEF HonestInv, HandsHonest
<1> QED
  BY <1>1, <1>5, <1>6, <1>7 DEF HonestInv

(* What a stop or a crash loses is retired, and keeps its mark. *)
LEMMA LossHonest ==
  ASSUME BaseInv, HonestInv, Detach \/ Crash
  PROVE  HonestInv'
<1>1. \A r \in Requests : req'[r] = req[r] \/ req'[r] = Lost(req[r])
  BY DEF Detach, Crash
<1>2. \A r \in Requests : /\ Lost(req[r]).st = "lost" /\ Lost(req[r]).replayed = req[r].replayed
                          /\ HonestRequest(Lost(req[r])) /\ ReplayedLate(Lost(req[r]))
  BY RetiredFacts DEF BaseInv, TypeInv, Admissible, Lost, HonestRequest, ReplayedLate
<1>3. \A r \in Requests : ReplayedLate(req'[r])
  BY <1>1, <1>2 DEF HonestInv
<1>4. NoReplay' => NoReplay
  BY <1>1, <1>2 DEF NoReplay
<1>5. NoReplay => \A r \in Requests : HonestRequest(req'[r])
  BY <1>1, <1>2 DEF HonestInv
<1>6. worker'.pc = "idle"
  BY DEF Detach, Crash, IdleWorker
<1>7. /\ ToSet(ram') \subseteq ToSet(ram) /\ ToSet(spillQ') \subseteq ToSet(spillQ)
      /\ disk' \subseteq disk /\ (writer' = writer \/ writer'.pc = "idle")
  BY NothingKeyed DEF Detach, Crash, cacheVars, ssdVars, IdleWriter
<1>8. NoReplay => StoresHonest' /\ HandsHonest'
  BY <1>6, <1>7 DEF HonestInv, StoresHonest, HandsHonest
<1> QED
  BY <1>3, <1>4, <1>5, <1>6, <1>8 DEF HonestInv

LEMMA HonestStep == BaseInv /\ HonestInv /\ [Next]_vars => HonestInv'
<1>1. SUFFICES ASSUME BaseInv, HonestInv, [Next]_vars PROVE HonestInv'
  OBVIOUS
<1>2. CASE UNCHANGED vars
  BY <1>1, <1>2 DEF vars, cacheVars, ssdVars, HonestInv, NoReplay, StoresHonest, HandsHonest
<1>3. CASE Client
  BY <1>1, <1>3, AddScanHonest, AddHitHonest, AddMissHonest DEF Client
<1>4. CASE Serve
  BY <1>1, <1>4, ReserveHonest, ScheduleHonest, FinishHonest DEF Serve
<1>5. CASE PromotionStep
  BY <1>1, <1>5, WorkerMovesHonest, QuarantineRowHonest, PromoteHonest DEF PromotionStep
<1>6. CASE WriterStep \/ WriterFails
  BY <1>1, <1>6, WriterHonest
<1>7. CASE CloseStep \/ Clear \/ StopEngine \/ CloseTimeout \/ StartEngine \/ Crash
  BY <1>1, <1>7, LifeHonest, LossHonest DEF CloseStep
<1> QED
  BY <1>1, <1>2, <1>3, <1>4, <1>5, <1>6, <1>7 DEF Next, Environment

(* Until a request re-feeds the last token of a prompt that its match covered,  *)
(* every KV state, in RAM, queued or on disk, holds the tokens of the key it is  *)
(* stored under, and every sequence starts from exactly its prompt, whatever is  *)
(* trimmed, spilled, promoted, quarantined or lost in between.                   *)
THEOREM KeysTellContents == Spec => []CacheHonest
<1>1. Init => HonestInv
  <2>1. SUFFICES ASSUME Init PROVE HonestInv
    OBVIOUS
  <2>2. \A r \in Requests : req[r] = NewRequest
    BY <2>1 DEF Init
  <2>3. /\ NewRequest.st = "new" /\ NewRequest.kv = <<>> /\ NewRequest.hit = "miss"
        /\ NewRequest.replayed = FALSE
    BY DEF NewRequest
  <2>4. HonestRequest(NewRequest) /\ ReplayedLate(NewRequest)
    BY <2>3 DEF HonestRequest, ReplayedLate
  <2>5. StoresHonest
    BY <2>1, NothingKeyed DEF Init, StoresHonest
  <2>6. writer.pc = "idle" /\ worker.pc = "idle"
    BY <2>1 DEF Init, IdleWriter, IdleWorker
  <2> QED
    BY <2>2, <2>4, <2>5, <2>6 DEF HonestInv, HandsHonest
<1>2. HonestInv => CacheHonest
  BY DEF HonestInv, NoReplay, StoresHonest, Honest, HonestRequest, CacheHonest
<1> QED
  BY <1>1, <1>2, BaseInvariant, HonestStep, PTL DEF Spec
=============================================================================
