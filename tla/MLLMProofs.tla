----------------------------- MODULE MLLMProofs -----------------------------
(* Theorems about MLLMScheduler: as long as no prefill chunk has taken in     *)
(* short requests, scheduler and generator agree, and what a client is told   *)
(* at the end of its stream is true.                                          *)
EXTENDS MLLMScheduler, QueueTheorems

Row      == [r : Requests, n : Nat]
Response == [r : Requests, fin : {"no", "stop", "length", "error"}]

(* Each request has at most one element of s. *)
OncePerRequest(s) == \A i, j \in DOMAIN s : s[i].r = s[j].r => i = j
Of(s) == {x.r : x \in ToSet(s)}
Prefilling(p) == IF p = None THEN {} ELSE {p.r}

(* What the generator holds: pending, in the batch, being prefilled, failed. *)
Held(u, b, p, e) == ToSet(u) \cup Of(b) \cup Prefilling(p) \cup ToSet(e)

(* Each request it holds is in one of the four places, and there once. *)
Placed(u, b, p, e) ==
  /\ u \in Seq(Requests) /\ b \in Seq(Row) /\ e \in Seq(Requests)
  /\ p = None \/ p \in [r : Requests, left : Nat]
  /\ Distinct(u) /\ OncePerRequest(b) /\ Distinct(e)
  /\ ToSet(u) \cap Of(b) = {} /\ ToSet(u) \cap Prefilling(p) = {} /\ ToSet(u) \cap ToSet(e) = {}
  /\ Of(b) \cap Prefilling(p) = {} /\ Of(b) \cap ToSet(e) = {} /\ Prefilling(p) \cap ToSet(e) = {}

TrackedOK ==
  /\ waiting \in Seq(Requests) /\ Distinct(waiting)
  /\ running \subseteq Requests /\ IsFiniteSet(running) /\ mapped = running
  /\ ToSet(waiting) \cap running = {} /\ requests = ToSet(waiting) \cup running
  /\ removals \subseteq Requests /\ removals \cap requests = {}
  /\ client \in [Requests -> {"new", "streaming", "served", "gone"}]
  /\ \A r \in requests \cup removals : client[r] # "new"

(* What next() returned, and what it did to the batch. *)
ResponsesOK ==
  /\ responses \in Seq(Response) /\ OncePerRequest(responses)
  /\ Of(responses) \subseteq running /\ Held(unprocessed, batch, partial, errors) \subseteq running
  /\ running \subseteq Held(unprocessed, batch, partial, errors) \cup Of(responses)
  /\ \A x \in ToSet(responses) :
       IF x.fin = "no" THEN x.r \in Of(batch)
       ELSE x.r \notin Held(unprocessed, batch, partial, errors)
  /\ Of(batch) \subseteq Of(responses)

StepOK ==
  /\ loop # "idle" => removals = {}
  /\ loop # "decode" => errors = <<>>
  /\ loop # "process" =>
       /\ running \subseteq Held(unprocessed, batch, partial, errors)
       /\ Held(unprocessed, batch, partial, errors) \subseteq running \cup removals
  /\ loop = "process" => ResponsesOK

----------------------------------------------------------------------------
(* Parts of sequences.                                                      *)

LEMMA WithoutFacts ==
  ASSUME NEW U, NEW s \in Seq(U), NEW S
  PROVE  /\ Without(s, S) \in Seq(U) /\ ToSet(Without(s, S)) = ToSet(s) \ S
         /\ Distinct(s) => Distinct(Without(s, S))
<1>1. PICK T : T = ToSet(s) \ S
  OBVIOUS
<1>2. Within(s, T) \in Seq(U) /\ ToSet(Within(s, T)) = ToSet(s) \cap T
  BY WithinFacts
<1>3. Distinct(s) => Distinct(Within(s, T))
  BY WithinFacts
<1>4. Without(s, S) = Within(s, T)
  BY <1>1 DEF Without
<1>5. ToSet(s) \cap T = ToSet(s) \ S
  BY <1>1
<1> QED
  BY <1>2, <1>3, <1>4, <1>5

LEMMA TakeFacts ==
  ASSUME NEW U, NEW s \in Seq(U), NEW n \in Nat
  PROVE  LET t == Take(s, n)
             u == SubSeq(s, Len(t) + 1, Len(s))
         IN  /\ t \in Seq(U) /\ u \in Seq(U) /\ ToSet(s) = ToSet(t) \cup ToSet(u)
             /\ Distinct(s) => Distinct(t) /\ Distinct(u) /\ ToSet(t) \cap ToSet(u) = {}
<1>1. PICK k : k = IF Len(s) < n THEN Len(s) ELSE n
  OBVIOUS
<1>2. k \in 0 .. Len(s)
  BY <1>1
<1>3. Take(s, n) = SubSeq(s, 1, k)
  BY <1>1 DEF Take
<1>4. /\ SubSeq(s, 1, k) \in Seq(U) /\ Len(SubSeq(s, 1, k)) = k
      /\ Distinct(s) => Distinct(SubSeq(s, 1, k))
  BY <1>2, SliceFacts
<1>5. /\ SubSeq(s, k + 1, Len(s)) \in Seq(U)
      /\ ToSet(s) = ToSet(SubSeq(s, 1, k)) \cup ToSet(SubSeq(s, k + 1, Len(s)))
      /\ Distinct(s) => /\ Distinct(SubSeq(s, k + 1, Len(s)))
                        /\ ToSet(SubSeq(s, 1, k)) \cap ToSet(SubSeq(s, k + 1, Len(s))) = {}
  BY <1>2, SplitFacts
<1> QED
  BY <1>3, <1>4, <1>5

LEMMA CountedFinite ==
  ASSUME NEW s \in Seq(Requests)
  PROVE  ToSet(s) \subseteq Requests /\ IsFiniteSet(ToSet(s))
<1>1. DOMAIN s = 1 .. Len(s) /\ Len(s) \in Nat /\ \A i \in DOMAIN s : s[i] \in Requests
  OBVIOUS
<1>2. PICK f : f = [i \in 1 .. Len(s) |-> s[i]]
  OBVIOUS
<1>3. f \in Surjection(1 .. Len(s), ToSet(s))
  BY <1>1, <1>2 DEF Surjection, ToSet
<1>4. IsFiniteSet(1 .. Len(s))
  BY <1>1, FS_Interval
<1>5. IsFiniteSet(ToSet(s))
  BY <1>3, <1>4, FS_Surjection
<1>6. ToSet(s) \subseteq Requests
  BY <1>1 DEF ToSet
<1> QED
  BY <1>5, <1>6

LEMMA WithinNone ==
  ASSUME NEW s \in Seq(Requests)
  PROVE  Within(s, {}) = <<>>
<1>1. PICK t : t = Within(s, {})
  OBVIOUS
<1>2. t \in Seq(Requests) /\ ToSet(t) = ToSet(s) \cap {}
  BY <1>1, WithinFacts
<1>3. Cardinality(ToSet(t)) = Len(t) \/ \E i \in DOMAIN t : TRUE
  <2>1. DOMAIN t = 1 .. Len(t) /\ Len(t) \in Nat
    BY <1>2
  <2>2. CASE DOMAIN t = {}
    <3>1. Len(t) = 0 /\ ToSet(t) = {}
      BY <1>2, <2>1, <2>2
    <3> QED
      BY <3>1, FS_EmptySet
  <2> QED
    BY <2>2
<1>4. Len(t) = 0
  BY <1>2, <1>3, FS_EmptySet DEF ToSet
<1> QED
  BY <1>1, <1>2, <1>4

LEMMA NoElements == <<>> \in Seq(Requests) /\ <<>> \in Seq(Row) /\ ToSet(<<>>) = {}
                    /\ Of(<<>>) = {} /\ Distinct(<<>>) /\ OncePerRequest(<<>>)
BY DEF Distinct, ToSet, Of, OncePerRequest

LEMMA OnceFacts ==
  ASSUME NEW U, NEW s \in Seq(U)
  PROVE  OncePerRequest(s) <=>
           Distinct(s) /\ \A x, y \in ToSet(s) : x.r = y.r => x = y
BY DEF OncePerRequest, Distinct, ToSet

LEMMA OnceWithin ==
  ASSUME NEW U, NEW s \in Seq(U), OncePerRequest(s), NEW S
  PROVE  OncePerRequest(Within(s, S))
<1>1. PICK t : t = Within(s, S)
  OBVIOUS
<1>2. t \in Seq(U) /\ ToSet(t) = ToSet(s) \cap S /\ (Distinct(s) => Distinct(t))
  BY <1>1, WithinFacts
<1>3. Distinct(s) /\ \A x, y \in ToSet(s) : x.r = y.r => x = y
  BY OnceFacts
<1>4. OncePerRequest(t)
  BY <1>2, <1>3, OnceFacts
<1> QED
  BY <1>1, <1>4

LEMMA OnceConcat ==
  ASSUME NEW U, NEW s \in Seq(U), NEW t \in Seq(U)
  PROVE  /\ s \o t \in Seq(U) /\ ToSet(s \o t) = ToSet(s) \cup ToSet(t)
         /\ Of(s \o t) = Of(s) \cup Of(t)
         /\ OncePerRequest(s) /\ OncePerRequest(t) /\ Of(s) \cap Of(t) = {}
              => OncePerRequest(s \o t)
<1>1. PICK w : w = s \o t
  OBVIOUS
<1>2. w \in Seq(U) /\ ToSet(w) = ToSet(s) \cup ToSet(t)
  BY <1>1, ConcatFacts
<1>3. Distinct(s) /\ Distinct(t) /\ ToSet(s) \cap ToSet(t) = {} => Distinct(w)
  BY <1>1, ConcatFacts
<1>4. Of(w) = Of(s) \cup Of(t)
  BY <1>2 DEF Of
<1>5. ASSUME OncePerRequest(s), OncePerRequest(t), Of(s) \cap Of(t) = {} PROVE OncePerRequest(w)
  <2>1. /\ Distinct(s) /\ Distinct(t)
        /\ \A x, y \in ToSet(s) : x.r = y.r => x = y
        /\ \A x, y \in ToSet(t) : x.r = y.r => x = y
    BY <1>5, OnceFacts
  <2>2. \A x \in ToSet(s), y \in ToSet(t) : x.r # y.r
    BY <1>5 DEF Of
  <2>3. ToSet(s) \cap ToSet(t) = {}
    BY <2>2
  <2>4. \A x, y \in ToSet(w) : x.r = y.r => x = y
    BY <1>2, <2>1, <2>2
  <2> QED
    BY <1>2, <1>3, <2>1, <2>3, <2>4, OnceFacts
<1> QED
  BY <1>1, <1>2, <1>4, <1>5

LEMMA RowsFacts ==
  ASSUME NEW s \in Seq(Requests)
  PROVE  /\ Rows(s) \in Seq(Row) /\ Of(Rows(s)) = ToSet(s)
         /\ \A x \in ToSet(Rows(s)) : x.n = 0
         /\ Distinct(s) => OncePerRequest(Rows(s))
<1>1. PICK t : t = Rows(s)
  OBVIOUS
<1>2. DOMAIN s = 1 .. Len(s) /\ Len(s) \in Nat /\ \A i \in DOMAIN s : s[i] \in Requests
  OBVIOUS
<1>3. DOMAIN t = DOMAIN s /\ \A i \in DOMAIN s : t[i] = [r |-> s[i], n |-> 0]
  BY <1>1 DEF Rows
<1>4. \A i \in DOMAIN s : t[i] \in Row /\ t[i].r = s[i] /\ t[i].n = 0
  BY <1>2, <1>3 DEF Row
<1>5. t \in Seq(Row)
  <2>1. t = [i \in 1 .. Len(s) |-> [r |-> s[i], n |-> 0]]
    BY <1>1, <1>2 DEF Rows
  <2> QED
    BY <1>2, <1>3, <1>4, <2>1
<1>6. ToSet(s) = {s[i] : i \in DOMAIN s} /\ ToSet(t) = {t[i] : i \in DOMAIN s}
  BY <1>3 DEF ToSet
<1>7. Of(t) = ToSet(s) /\ \A x \in ToSet(t) : x.n = 0
  BY <1>4, <1>6 DEF Of
<1>8. Distinct(s) => OncePerRequest(t)
  BY <1>3, <1>4 DEF Distinct, OncePerRequest
<1> QED
  BY <1>1, <1>5, <1>7, <1>8

LEMMA TextFirstFacts ==
  ASSUME NEW s \in Seq(Requests), Distinct(s)
  PROVE  /\ TextFirst(s) \in Seq(Requests) /\ Distinct(TextFirst(s))
         /\ ToSet(TextFirst(s)) = ToSet(s)
<1>1. PICK a, b : a = Within(s, Text) /\ b = Without(s, Text)
  OBVIOUS
<1>2. a \in Seq(Requests) /\ ToSet(a) = ToSet(s) \cap Text /\ Distinct(a)
  BY <1>1, WithinFacts
<1>3. b \in Seq(Requests) /\ ToSet(b) = ToSet(s) \ Text /\ Distinct(b)
  BY <1>1, WithoutFacts
<1>4. a \o b \in Seq(Requests) /\ ToSet(a \o b) = ToSet(a) \cup ToSet(b) /\ Distinct(a \o b)
  BY <1>2, <1>3, ConcatFacts
<1> QED
  BY <1>1, <1>2, <1>3, <1>4 DEF TextFirst

(* Nothing of a request is left once it is removed. *)
LEMMA RemovedFacts ==
  ASSUME NEW S, Placed(unprocessed, batch, partial, errors), RemoveUids(S)
  PROVE  /\ Placed(unprocessed', batch', partial', errors)
         /\ ToSet(unprocessed') = ToSet(unprocessed) \ S
         /\ Of(batch') = Of(batch) \ S /\ ToSet(batch') \subseteq ToSet(batch)
         /\ Prefilling(partial') = Prefilling(partial) \ S
<1>1. /\ unprocessed \in Seq(Requests) /\ batch \in Seq(Row)
      /\ Distinct(unprocessed) /\ OncePerRequest(batch)
      /\ partial = None \/ partial \in [r : Requests, left : Nat]
  BY DEF Placed
<1>2. PICK R : R = {row \in ToSet(batch) : row.r \notin S}
  OBVIOUS
<1>3. batch' = Within(batch, R)
  BY <1>2 DEF RemoveUids
<1>4. Within(batch, R) \in Seq(Row) /\ ToSet(Within(batch, R)) = ToSet(batch) \cap R
  BY <1>1, WithinFacts
<1>5. OncePerRequest(batch')
  BY <1>1, <1>3, OnceWithin
<1>6. batch' \in Seq(Row) /\ ToSet(batch') = R /\ Of(batch') = Of(batch) \ S
  BY <1>2, <1>3, <1>4 DEF Of
<1>7. /\ unprocessed' \in Seq(Requests) /\ Distinct(unprocessed')
      /\ ToSet(unprocessed') = ToSet(unprocessed) \ S
  <2>1. unprocessed' = Without(unprocessed, S)
    BY DEF RemoveUids
  <2> QED
    BY <1>1, <2>1, WithoutFacts
<1>8. /\ partial' = None \/ partial' \in [r : Requests, left : Nat]
      /\ Prefilling(partial') = Prefilling(partial) \ S
  BY <1>1 DEF RemoveUids, RemovePartial, Prefilling
<1> QED
  BY <1>2, <1>5, <1>6, <1>7, <1>8 DEF Placed

----------------------------------------------------------------------------
(* Counting places.                                                         *)

LEMMA CountedOnce ==
  ASSUME NEW s \in Seq(Requests), Distinct(s), NEW r \in Requests
  PROVE  Len(Within(s, {r})) = IF r \in ToSet(s) THEN 1 ELSE 0
<1>1. PICK t : t = Within(s, {r})
  OBVIOUS
<1>2. t \in Seq(Requests) /\ ToSet(t) = ToSet(s) \cap {r} /\ Distinct(t)
  BY <1>1, WithinFacts
<1>3. Cardinality(ToSet(t)) = Len(t)
  BY <1>2, DistinctCounted
<1>4. CASE r \in ToSet(s)
  <2>1. ToSet(t) = {r}
    BY <1>2, <1>4
  <2> QED
    BY <1>1, <1>3, <1>4, <2>1, FS_Singleton
<1>5. CASE r \notin ToSet(s)
  <2>1. ToSet(t) = {}
    BY <1>2, <1>5
  <2> QED
    BY <1>1, <1>3, <1>5, <2>1, FS_EmptySet
<1> QED
  BY <1>4, <1>5

LEMMA HoldersFacts ==
  ASSUME NEW b \in Seq(Row), OncePerRequest(b)
  PROVE  Holders(b) \in Seq(Requests) /\ ToSet(Holders(b)) = Of(b) /\ Distinct(Holders(b))
<1>1. PICK t : t = Holders(b)
  OBVIOUS
<1>2. DOMAIN b = 1 .. Len(b) /\ Len(b) \in Nat /\ \A i \in DOMAIN b : b[i].r \in Requests
  <2>1. DOMAIN b = 1 .. Len(b) /\ Len(b) \in Nat /\ \A i \in DOMAIN b : b[i] \in Row
    OBVIOUS
  <2> QED
    BY <2>1 DEF Row
<1>3. DOMAIN t = DOMAIN b /\ \A i \in DOMAIN b : t[i] = b[i].r
  BY <1>1 DEF Holders
<1>4. t \in Seq(Requests)
  <2>1. t = [i \in 1 .. Len(b) |-> b[i].r]
    BY <1>1, <1>2 DEF Holders
  <2> QED
    BY <1>2, <2>1
<1>5. ToSet(t) = Of(b)
  BY <1>3 DEF ToSet, Of
<1>6. Distinct(t)
  BY <1>3 DEF OncePerRequest, Distinct
<1> QED
  BY <1>1, <1>4, <1>5, <1>6

LEMMA PlacesFacts ==
  ASSUME Placed(unprocessed, batch, partial, errors), NEW r \in Requests
  PROVE  Places(r) = IF r \in Held(unprocessed, batch, partial, errors) THEN 1 ELSE 0
<1>1. PICK a, b, c, d :
        /\ a = Len(Within(unprocessed, {r})) /\ b = Len(Within(errors, {r}))
        /\ c = Len(Within(Holders(batch), {r}))
        /\ d = IF partial # None /\ partial.r = r THEN 1 ELSE 0
  OBVIOUS
<1>2. a = IF r \in ToSet(unprocessed) THEN 1 ELSE 0
  BY <1>1, CountedOnce DEF Placed
<1>3. b = IF r \in ToSet(errors) THEN 1 ELSE 0
  BY <1>1, CountedOnce DEF Placed
<1>4. c = IF r \in Of(batch) THEN 1 ELSE 0
  <2>1. Holders(batch) \in Seq(Requests) /\ ToSet(Holders(batch)) = Of(batch)
        /\ Distinct(Holders(batch))
    BY HoldersFacts DEF Placed
  <2>2. PICK h : h = Holders(batch)
    OBVIOUS
  <2>3. Len(Within(h, {r})) = IF r \in ToSet(h) THEN 1 ELSE 0
    BY <2>1, <2>2, CountedOnce
  <2> QED
    BY <1>1, <2>1, <2>2, <2>3
<1>5. d = IF r \in Prefilling(partial) THEN 1 ELSE 0
  BY <1>1 DEF Prefilling
<1>6. Places(r) = a + b + c + d
  BY <1>1 DEF Places
<1>7. /\ ToSet(unprocessed) \cap Of(batch) = {} /\ ToSet(unprocessed) \cap Prefilling(partial) = {}
      /\ ToSet(unprocessed) \cap ToSet(errors) = {} /\ Of(batch) \cap Prefilling(partial) = {}
      /\ Of(batch) \cap ToSet(errors) = {} /\ Prefilling(partial) \cap ToSet(errors) = {}
  BY DEF Placed
<1>8. r \in Held(unprocessed, batch, partial, errors) <=>
        \/ r \in ToSet(unprocessed) \/ r \in Of(batch)
        \/ r \in Prefilling(partial) \/ r \in ToSet(errors)
  BY DEF Held
<1> QED
  BY <1>2, <1>3, <1>4, <1>5, <1>6, <1>7, <1>8

----------------------------------------------------------------------------
(* Each action keeps scheduler and generator in agreement.                  *)

Everything == Held(unprocessed, batch, partial, errors)
InOnePlace == Placed(unprocessed, batch, partial, errors)
Agreed     == TrackedOK /\ InOnePlace /\ StepOK

LEMMA TrackedSame ==
  ASSUME TrackedOK, UNCHANGED <<waiting, running, requests, mapped, removals, client>>
  PROVE  TrackedOK'
BY DEF TrackedOK

LEMMA AddAgreed ==
  ASSUME Agreed, NEW r \in Requests, AddRequest(r)
  PROVE  Agreed'
<1>1. /\ waiting \in Seq(Requests) /\ Distinct(waiting) /\ requests = ToSet(waiting) \cup running
      /\ ToSet(waiting) \cap running = {} /\ removals \cap requests = {}
      /\ \A q \in requests \cup removals : client[q] # "new"
      /\ client \in [Requests -> {"new", "streaming", "served", "gone"}]
  BY DEF Agreed, TrackedOK
<1>2. /\ client[r] = "new" /\ client' = [client EXCEPT ![r] = "streaming"]
      /\ waiting' = Append(waiting, r) /\ requests' = requests \cup {r}
      /\ UNCHANGED <<running, mapped, removals, unprocessed, batch, partial, errors, loop, responses>>
  BY DEF AddRequest, generator
<1>3. r \notin requests /\ r \notin removals
  BY <1>1, <1>2
<1>4. /\ waiting' \in Seq(Requests) /\ Distinct(waiting')
      /\ ToSet(waiting') = ToSet(waiting) \cup {r}
  <2>1. r \notin ToSet(waiting)
    BY <1>1, <1>3
  <2> QED
    BY <1>1, <1>2, <2>1, AppendDistinct
<1>5. TrackedOK'
  <2>1. running \subseteq Requests /\ IsFiniteSet(running) /\ mapped = running
        /\ removals \subseteq Requests
    BY DEF Agreed, TrackedOK
  <2>2. client' \in [Requests -> {"new", "streaming", "served", "gone"}]
    BY <1>1, <1>2
  <2>3. requests' = ToSet(waiting') \cup running' /\ ToSet(waiting') \cap running' = {}
    BY <1>1, <1>2, <1>3, <1>4
  <2>4. removals' \cap requests' = {}
    BY <1>1, <1>2, <1>3
  <2>5. \A q \in requests' \cup removals' : client'[q] # "new"
    <3>1. \A q \in requests \cup removals : q \in Requests
      BY <1>1, <2>1 DEF ToSet
    <3> QED
      BY <1>1, <1>2, <3>1
  <2> QED
    BY <1>2, <1>4, <2>1, <2>2, <2>3, <2>4, <2>5 DEF TrackedOK
<1>6. loop = "idle"
  BY DEF AddRequest
<1>7. InOnePlace'
  BY <1>2 DEF Agreed, InOnePlace
<1>8. StepOK'
  BY <1>2, <1>6 DEF Agreed, StepOK
<1> QED
  BY <1>5, <1>7, <1>8 DEF Agreed

LEMMA DeliverAgreed ==
  ASSUME Agreed, NEW r \in Requests, Deliver(r)
  PROVE  Agreed'
<1>1. /\ UNCHANGED <<waiting, running, requests, mapped, removals, unprocessed, batch, partial,
                     errors, loop, responses>>
      /\ client' = client \/ client' = [client EXCEPT ![r] = "served"]
  BY DEF Deliver, tracking, generator
<1>2. \A q \in requests \cup removals : q \in Requests /\ client[q] # "new"
  BY DEF Agreed, TrackedOK, ToSet
<1>3. client' \in [Requests -> {"new", "streaming", "served", "gone"}]
      /\ \A q \in requests \cup removals : client'[q] # "new"
  BY <1>1, <1>2 DEF Agreed, TrackedOK
<1>4. TrackedOK'
  BY <1>1, <1>3 DEF Agreed, TrackedOK
<1>5. InOnePlace'
  BY <1>1 DEF Agreed, InOnePlace
<1>6. loop = "idle"
  BY DEF Deliver
<1>7. StepOK'
  BY <1>1, <1>6 DEF Agreed, StepOK
<1> QED
  BY <1>4, <1>5, <1>7 DEF Agreed

(* Between two steps, a request is untracked and its removal deferred. *)
LEMMA UntrackAgreed ==
  ASSUME Agreed, loop = "idle", NEW r \in Requests, r \in requests, Untrack(r), ScheduleRemoval(r),
         UNCHANGED <<unprocessed, batch, partial, errors, loop, responses>>,
         client' = client \/ client' = [client EXCEPT ![r] = "gone"]
  PROVE  Agreed'
<1>1. /\ waiting \in Seq(Requests) /\ Distinct(waiting) /\ requests = ToSet(waiting) \cup running
      /\ ToSet(waiting) \cap running = {} /\ removals \cap requests = {} /\ mapped = running
      /\ \A q \in requests \cup removals : client[q] # "new"
      /\ client \in [Requests -> {"new", "streaming", "served", "gone"}]
      /\ running \subseteq Requests /\ IsFiniteSet(running) /\ removals \subseteq Requests
  BY DEF Agreed, TrackedOK
<1>2. /\ waiting' = Without(waiting, {r}) /\ running' = running \ {r}
      /\ requests' = requests \ {r} /\ mapped' = mapped \ {r}
      /\ removals' = removals \cup ({r} \cap mapped)
  BY DEF Untrack, ScheduleRemoval
<1>3. /\ waiting' \in Seq(Requests) /\ Distinct(waiting')
      /\ ToSet(waiting') = ToSet(waiting) \ {r}
  BY <1>1, <1>2, WithoutFacts
<1>4. IsFiniteSet(running')
  BY <1>1, <1>2, FS_Subset
<1>5. \A q \in requests' \cup removals' : q \in Requests /\ client[q] # "new"
  BY <1>1, <1>2 DEF ToSet
<1>6. client' \in [Requests -> {"new", "streaming", "served", "gone"}]
      /\ \A q \in requests' \cup removals' : client'[q] # "new"
  BY <1>1, <1>5
<1>7. TrackedOK'
  BY <1>1, <1>2, <1>3, <1>4, <1>6 DEF TrackedOK
<1>8. InOnePlace'
  BY DEF Agreed, InOnePlace
<1>9. StepOK'
  <2>1. running \subseteq Everything /\ Everything \subseteq running \cup removals
    BY DEF Agreed, StepOK, Everything
  <2>2. Everything' = Everything
    BY DEF Everything
  <2>3. running' \subseteq Everything' /\ Everything' \subseteq running' \cup removals'
    BY <1>1, <1>2, <2>1, <2>2
  <2> QED
    BY <2>3 DEF Agreed, StepOK, Everything
<1> QED
  BY <1>7, <1>8, <1>9 DEF Agreed

LEMMA AbortAgreed ==
  ASSUME Agreed, NEW r \in Requests, AbortRequest(r) \/ Leave(r)
  PROVE  Agreed'
<1>1. CASE AbortRequest(r)
  BY <1>1, UntrackAgreed DEF AbortRequest
<1>2. CASE Leave(r) /\ r \in requests
  BY <1>2, UntrackAgreed DEF Leave
<1>3. CASE Leave(r) /\ r \notin requests
  <2>1. /\ UNCHANGED <<waiting, running, requests, mapped, removals, unprocessed, batch, partial,
                       errors, loop, responses>>
        /\ client' = [client EXCEPT ![r] = "gone"] /\ loop = "idle"
    BY <1>3 DEF Leave, tracking
  <2>2. \A q \in requests \cup removals : q \in Requests /\ client[q] # "new"
    BY DEF Agreed, TrackedOK, ToSet
  <2>3. client' \in [Requests -> {"new", "streaming", "served", "gone"}]
        /\ \A q \in requests \cup removals : client'[q] # "new"
    BY <2>1, <2>2 DEF Agreed, TrackedOK
  <2>4. TrackedOK'
    BY <2>1, <2>3 DEF Agreed, TrackedOK
  <2>5. InOnePlace' /\ StepOK'
    BY <2>1 DEF Agreed, InOnePlace, StepOK
  <2> QED
    BY <2>4, <2>5 DEF Agreed
<1> QED
  BY <1>1, <1>2, <1>3

(* A step removes what was aborted: what is left is what runs. *)
LEMMA StartAgreed ==
  ASSUME Agreed, StartStep
  PROVE  Agreed'
<1>1. /\ loop = "idle" /\ RemoveUids(removals) /\ removals' = {} /\ loop' = "schedule"
      /\ UNCHANGED <<waiting, running, requests, mapped, client, errors>>
  BY DEF StartStep, tracking, outputs
<1>2. TrackedOK'
  BY <1>1 DEF Agreed, TrackedOK
<1>3. /\ Placed(unprocessed', batch', partial', errors)
      /\ ToSet(unprocessed') = ToSet(unprocessed) \ removals
      /\ Of(batch') = Of(batch) \ removals
      /\ Prefilling(partial') = Prefilling(partial) \ removals
  BY <1>1, RemovedFacts DEF Agreed, InOnePlace
<1>4. InOnePlace'
  BY <1>1, <1>3 DEF InOnePlace
<1>5. StepOK'
  <2>1. errors = <<>> /\ running \subseteq Everything /\ Everything \subseteq running \cup removals
    BY <1>1 DEF Agreed, StepOK, Everything
  <2>2. ToSet(errors) = {}
    BY <2>1, NoElements
  <2>3. Everything' = Everything \ removals
    BY <1>1, <1>3, <2>2 DEF Everything, Held
  <2>4. running \cap removals = {}
    BY DEF Agreed, TrackedOK
  <2>5. running' \subseteq Everything' /\ Everything' \subseteq running' \cup removals'
    BY <1>1, <2>1, <2>3, <2>4
  <2> QED
    BY <1>1, <2>1, <2>5 DEF StepOK, Everything
<1> QED
  BY <1>2, <1>4, <1>5 DEF Agreed

LEMMA ScheduleAgreed ==
  ASSUME Agreed, ScheduleWaiting
  PROVE  Agreed'
<1>1. PICK n, t, u :
        /\ n = IF Cardinality(running) < MaxNumSeqs THEN MaxNumSeqs - Cardinality(running) ELSE 0
        /\ t = Take(waiting, n) /\ u = SubSeq(waiting, Len(t) + 1, Len(waiting))
  OBVIOUS
<1>2. /\ loop = "schedule" /\ waiting' = u
      /\ running' = running \cup ToSet(t) /\ mapped' = mapped \cup ToSet(t)
      /\ unprocessed' = IF t = <<>> THEN unprocessed ELSE TextFirst(unprocessed \o t)
      /\ loop' \in {"idle", "prefill", "next"}
      /\ UNCHANGED <<requests, client, batch, partial, errors, removals>>
  BY <1>1 DEF ScheduleWaiting, outputs
<1>3. /\ waiting \in Seq(Requests) /\ Distinct(waiting) /\ requests = ToSet(waiting) \cup running
      /\ ToSet(waiting) \cap running = {} /\ removals \cap requests = {} /\ mapped = running
      /\ running \subseteq Requests /\ IsFiniteSet(running)
  BY DEF Agreed, TrackedOK
<1>4. n \in Nat
  BY <1>1, <1>3, FS_CardinalityType, MLLMAssumptions
<1>5. /\ t \in Seq(Requests) /\ u \in Seq(Requests) /\ ToSet(waiting) = ToSet(t) \cup ToSet(u)
      /\ Distinct(t) /\ Distinct(u) /\ ToSet(t) \cap ToSet(u) = {}
  BY <1>1, <1>3, <1>4, TakeFacts
<1>6. ToSet(t) \subseteq Requests /\ IsFiniteSet(ToSet(t))
  BY <1>5, CountedFinite
<1>7. TrackedOK'
  <2>1. IsFiniteSet(running') /\ running' \subseteq Requests
    BY <1>2, <1>3, <1>6, FS_Union
  <2>2. requests' = ToSet(waiting') \cup running' /\ ToSet(waiting') \cap running' = {}
        /\ mapped' = running'
    BY <1>2, <1>3, <1>5
  <2> QED
    BY <1>2, <1>5, <2>1, <2>2 DEF Agreed, TrackedOK
<1>8. /\ removals = {} /\ errors = <<>> /\ running \subseteq Everything
      /\ Everything \subseteq running \cup removals
  BY <1>2 DEF Agreed, StepOK, Everything
<1>9. Everything = running
  BY <1>8
<1>10. ToSet(t) \cap Everything = {}
  BY <1>3, <1>5, <1>9
<1>11. /\ unprocessed' \in Seq(Requests) /\ Distinct(unprocessed')
       /\ ToSet(unprocessed') = ToSet(unprocessed) \cup ToSet(t)
  <2>1. unprocessed \in Seq(Requests) /\ Distinct(unprocessed)
    BY DEF Agreed, InOnePlace, Placed
  <2>2. ToSet(unprocessed) \cap ToSet(t) = {}
    BY <1>10 DEF Everything, Held
  <2>3. CASE t = <<>>
    BY <1>2, <2>1, <2>3, NoElements
  <2>4. CASE t # <<>>
    <3>1. PICK w : w = unprocessed \o t
      OBVIOUS
    <3>2. w \in Seq(Requests) /\ ToSet(w) = ToSet(unprocessed) \cup ToSet(t) /\ Distinct(w)
      BY <1>5, <2>1, <2>2, <3>1, ConcatFacts
    <3>3. unprocessed' = TextFirst(w)
      BY <1>2, <2>4, <3>1
    <3> QED
      BY <3>2, <3>3, TextFirstFacts
  <2> QED
    BY <2>3, <2>4
<1>12. InOnePlace'
  <2>1. ToSet(t) \cap Of(batch) = {} /\ ToSet(t) \cap Prefilling(partial) = {}
        /\ ToSet(t) \cap ToSet(errors) = {}
    BY <1>10 DEF Everything, Held
  <2> QED
    BY <1>2, <1>11, <2>1 DEF Agreed, InOnePlace, Placed
<1>13. Everything' = Everything \cup ToSet(t)
  BY <1>2, <1>11 DEF Everything, Held
<1>14. StepOK'
  <2>1. running' = Everything' /\ removals' = {} /\ errors' = <<>> /\ loop' # "process"
    BY <1>2, <1>8, <1>9, <1>13
  <2> QED
    BY <2>1 DEF StepOK, Everything
<1> QED
  BY <1>7, <1>12, <1>14 DEF Agreed

----------------------------------------------------------------------------
(* The prefill moves a request between the places of the generator.         *)

(* Where the generator holds what runs, and next() has not answered. *)
Moving == Agreed /\ loop \in {"prefill", "next", "decode"}

LEMMA MovingFacts ==
  ASSUME Moving
  PROVE  removals = {} /\ Everything = running /\ (loop # "decode" => errors = <<>>)
<1>1. /\ removals = {} /\ running \subseteq Everything /\ Everything \subseteq running \cup removals
      /\ loop # "decode" => errors = <<>>
  BY DEF Moving, Agreed, StepOK, Everything
<1> QED
  BY <1>1

(* What is left to show when requests have moved. *)
LEMMA MovedAgreed ==
  ASSUME Moving, UNCHANGED <<waiting, running, requests, mapped, removals, client>>,
         InOnePlace', Everything' = Everything, loop' \in {"idle", "prefill", "next", "decode"},
         loop' # "decode" => errors' = <<>>
  PROVE  Agreed'
<1>1. TrackedOK'
  BY TrackedSame DEF Moving, Agreed
<1>2. removals = {} /\ Everything = running
  BY MovingFacts
<1>3. StepOK'
  <2>1. running' = Everything' /\ removals' = {}
    BY <1>2
  <2> QED
    BY <2>1 DEF StepOK, Everything
<1> QED
  BY <1>1, <1>3 DEF Agreed

LEMMA EligibleFacts ==
  ASSUME InOnePlace
  PROVE  /\ Eligible \in Seq(Requests) /\ ToSet(Eligible) \subseteq ToSet(unprocessed)
         /\ Distinct(Eligible)
         /\ Eligible # <<>> => Head(Eligible) \in ToSet(unprocessed)
<1>1. unprocessed \in Seq(Requests) /\ Distinct(unprocessed)
  BY DEF InOnePlace, Placed
<1>2. PICK u, S : u = unprocessed /\ S = {r \in Requests : Kind[r] # "image"}
  OBVIOUS
<1>3. PICK e : e = Within(u, S)
  OBVIOUS
<1>4. e = Eligible
  BY <1>2, <1>3 DEF Eligible
<1>5. e \in Seq(Requests) /\ ToSet(e) = ToSet(u) \cap S /\ Distinct(e)
  <2>1. u \in Seq(Requests) /\ Distinct(u)
    BY <1>1, <1>2
  <2>2. Within(u, S) \in Seq(Requests) /\ ToSet(Within(u, S)) = ToSet(u) \cap S
    BY <2>1, WithinFacts
  <2>3. Distinct(Within(u, S))
    BY <2>1, WithinFacts
  <2> QED
    BY <1>3, <2>2, <2>3
<1>6. e # <<>> => Head(e) \in ToSet(e)
  BY <1>5, TailDistinct
<1> QED
  BY <1>2, <1>4, <1>5, <1>6

(* A chunk that takes in nobody only counts down. *)
LEMMA ChunkAgreed ==
  ASSUME Agreed, PrefillChunk, ~inlined'
  PROVE  Agreed' /\ UNCHANGED <<batch, unprocessed, errors>> /\ Prefilling(partial') = Prefilling(partial)
<1>1. /\ loop = "prefill" /\ partial.left > 1
      /\ partial' = [partial EXCEPT !.left = @ - 1]
      /\ UNCHANGED <<waiting, running, requests, mapped, removals, client, unprocessed>>
      /\ loop' = IF batch' = <<>> THEN "idle" ELSE "decode"
  BY DEF PrefillChunk, Decode, prefillKept, tracking, outputs
<1>2. PICK failed, joined :
        /\ batch' = batch \o Rows(Within(Eligible, joined))
        /\ errors' = errors \o Within(Eligible, failed)
        /\ inlined' = (inlined \/ failed \cup joined # {})
  BY DEF PrefillChunk
<1>3. failed = {} /\ joined = {}
  BY <1>2
<1>4. Eligible \in Seq(Requests) /\ InOnePlace
  BY EligibleFacts DEF Agreed
<1>5. Within(Eligible, {}) = <<>>
  BY <1>4, WithinNone
<1>6. batch' = batch /\ errors' = errors
  <2>1. Rows(<<>>) = <<>>
    BY DEF Rows
  <2>2. batch \in Seq(Row) /\ errors \in Seq(Requests)
    BY <1>4 DEF InOnePlace, Placed
  <2>3. batch \o <<>> = batch /\ errors \o <<>> = errors
    BY <2>2, ConcatEmptySeq
  <2> QED
    BY <1>2, <1>3, <1>5, <2>1, <2>3
<1>7. /\ partial' \in [r : Requests, left : Nat] /\ partial' # None /\ partial # None
      /\ partial'.r = partial.r
  <2>1. partial \in [r : Requests, left : Nat]
    BY <1>1, <1>4 DEF InOnePlace, Placed, None
  <2>2. partial.left - 1 \in Nat /\ partial.left - 1 # 0
    BY <1>1, <2>1
  <2>3. partial' = [r |-> partial.r, left |-> partial.left - 1]
    BY <1>1, <2>1
  <2>4. partial'.left # None.left /\ partial.left # None.left
    BY <1>1, <2>2, <2>3, <2>1 DEF None
  <2> QED
    BY <2>1, <2>2, <2>3, <2>4
<1>8. Prefilling(partial') = Prefilling(partial)
  BY <1>7 DEF Prefilling
<1>9. InOnePlace'
  BY <1>1, <1>4, <1>6, <1>7, <1>8 DEF InOnePlace, Placed
<1>10. Everything' = Everything
  BY <1>1, <1>6, <1>8 DEF Everything, Held
<1>11. Moving /\ errors = <<>>
  BY <1>1 DEF Moving, Agreed, StepOK
<1>12. loop' \in {"idle", "prefill", "next", "decode"} /\ errors' = <<>>
  BY <1>1, <1>6, <1>11
<1>13. Agreed'
  BY <1>1, <1>9, <1>10, <1>11, <1>12, MovedAgreed
<1> QED
  BY <1>1, <1>6, <1>8, <1>13

LEMMA OnceAppend ==
  ASSUME NEW U, NEW s \in Seq(U), NEW x \in U, OncePerRequest(s), x.r \notin Of(s)
  PROVE  /\ Append(s, x) \in Seq(U) /\ ToSet(Append(s, x)) = ToSet(s) \cup {x}
         /\ Of(Append(s, x)) = Of(s) \cup {x.r} /\ OncePerRequest(Append(s, x))
<1>1. PICK t : t = Append(s, x)
  OBVIOUS
<1>2. Distinct(s) /\ (\A y, z \in ToSet(s) : y.r = z.r => y = z)
  BY OnceFacts
<1>3. x \notin ToSet(s)
  BY DEF Of
<1>4. t \in Seq(U) /\ Distinct(t) /\ ToSet(t) = ToSet(s) \cup {x}
  BY <1>1, <1>2, <1>3, AppendDistinct
<1>5. Of(t) = Of(s) \cup {x.r}
  BY <1>4 DEF Of
<1>6. \A y, z \in ToSet(t) : y.r = z.r => y = z
  BY <1>2, <1>4 DEF Of
<1>7. OncePerRequest(t)
  BY <1>4, <1>6, OnceFacts
<1> QED
  BY <1>1, <1>4, <1>5, <1>7

LEMMA FinishPrefillAgreed ==
  ASSUME Agreed, FinishPrefill
  PROVE  /\ Agreed' /\ unprocessed' = unprocessed /\ errors' = errors
         /\ ToSet(batch') = ToSet(batch) \cup {[r |-> partial.r, n |-> 0]}
         /\ Of(batch') = Of(batch) \cup {partial.r} /\ partial.r \in Prefilling(partial)
<1>1. /\ loop = "prefill" /\ partial.left = 1 /\ partial' = None
      /\ batch' = Append(batch, [r |-> partial.r, n |-> 0])
      /\ UNCHANGED <<waiting, running, requests, mapped, removals, client, unprocessed, errors>>
      /\ loop' = IF batch' = <<>> THEN "idle" ELSE "decode"
  BY DEF FinishPrefill, Decode, prefillKept, tracking, outputs
<1>2. InOnePlace /\ Moving
  BY <1>1 DEF Agreed, Moving
<1>3. errors = <<>>
  BY <1>1, <1>2, MovingFacts
<1>4. partial \in [r : Requests, left : Nat] /\ partial # None
  BY <1>1, <1>2 DEF InOnePlace, Placed, None
<1>5. PICK x : x = [r |-> partial.r, n |-> 0]
  OBVIOUS
<1>6. x \in Row /\ x.r = partial.r /\ x.r \in Prefilling(partial)
  BY <1>4, <1>5 DEF Row, Prefilling
<1>7. batch \in Seq(Row) /\ OncePerRequest(batch) /\ x.r \notin Of(batch)
  BY <1>2, <1>6 DEF InOnePlace, Placed
<1>8. /\ batch' \in Seq(Row) /\ OncePerRequest(batch') /\ Of(batch') = Of(batch) \cup {x.r}
      /\ ToSet(batch') = ToSet(batch) \cup {x}
  BY <1>1, <1>5, <1>6, <1>7, OnceAppend
<1>9. Prefilling(partial) = {x.r} /\ Prefilling(partial') = {}
  BY <1>1, <1>4, <1>6 DEF Prefilling
<1>10. InOnePlace'
  BY <1>1, <1>2, <1>8, <1>9 DEF InOnePlace, Placed
<1>11. Everything' = Everything
  BY <1>1, <1>8, <1>9 DEF Everything, Held
<1>12. loop' \in {"idle", "prefill", "next", "decode"} /\ errors' = <<>>
  BY <1>1, <1>3
<1>13. Agreed'
  BY <1>1, <1>2, <1>10, <1>11, <1>12, MovedAgreed
<1> QED
  BY <1>1, <1>5, <1>6, <1>8, <1>13

LEMMA StartPrefillAgreed ==
  ASSUME Agreed, StartPrefill
  PROVE  Agreed' /\ batch' = batch /\ errors' = errors
<1>1. PICK r : r = Head(Eligible)
  OBVIOUS
<1>2. /\ loop = "prefill" /\ partial = None /\ Eligible # <<>>
      /\ partial' = [r |-> r, left |-> Chunks - 1]
      /\ unprocessed' = Without(unprocessed, {r})
      /\ UNCHANGED <<waiting, running, requests, mapped, removals, client, batch, errors>>
      /\ loop' = IF batch' = <<>> THEN "idle" ELSE "decode"
  BY <1>1 DEF StartPrefill, Decode, prefillKept, tracking, outputs
<1>3. InOnePlace /\ Moving
  BY <1>2 DEF Agreed, Moving
<1>4. errors = <<>>
  BY <1>2, <1>3, MovingFacts
<1>5. r \in ToSet(unprocessed)
  BY <1>1, <1>2, <1>3, EligibleFacts
<1>6. r \in Requests
  BY <1>3, <1>5, CountedFinite DEF InOnePlace, Placed
<1>7. /\ unprocessed' \in Seq(Requests) /\ Distinct(unprocessed')
      /\ ToSet(unprocessed') = ToSet(unprocessed) \ {r}
  BY <1>2, <1>3, WithoutFacts DEF InOnePlace, Placed
<1>8. Chunks - 1 \in Nat /\ Chunks - 1 # 0
  BY MLLMAssumptions
<1>9. partial' \in [r : Requests, left : Nat] /\ partial' # None /\ partial'.r = r
  <2>1. partial' \in [r : Requests, left : Nat] /\ partial'.r = r /\ partial'.left = Chunks - 1
    BY <1>2, <1>6, <1>8
  <2> QED
    BY <1>8, <2>1 DEF None
<1>10. Prefilling(partial) = {} /\ Prefilling(partial') = {r}
  BY <1>2, <1>9 DEF Prefilling
<1>11. InOnePlace'
  BY <1>2, <1>3, <1>5, <1>7, <1>9, <1>10 DEF InOnePlace, Placed
<1>12. Everything' = Everything
  BY <1>2, <1>5, <1>7, <1>10 DEF Everything, Held
<1>13. loop' \in {"idle", "prefill", "next", "decode"} /\ errors' = <<>>
  BY <1>2, <1>4
<1>14. Agreed'
  BY <1>2, <1>3, <1>11, <1>12, <1>13, MovedAgreed
<1> QED
  BY <1>2, <1>14

LEMMA PreprocessAgreed ==
  ASSUME Agreed, PreprocessFails
  PROVE  Agreed' /\ batch' = batch
<1>1. PICK r : r = Head(Eligible)
  OBVIOUS
<1>2. /\ loop = "prefill" /\ Eligible # <<>>
      /\ errors' = Append(errors, r)
      /\ unprocessed' = Without(unprocessed, {r}) /\ loop' = "decode"
      /\ UNCHANGED <<waiting, running, requests, mapped, removals, client, batch, partial>>
  BY <1>1 DEF PreprocessFails, prefillKept, tracking, outputs
<1>3. InOnePlace /\ Moving
  BY <1>2 DEF Agreed, Moving
<1>4. r \in ToSet(unprocessed)
  BY <1>1, <1>2, <1>3, EligibleFacts
<1>5. r \in Requests
  BY <1>3, <1>4, CountedFinite DEF InOnePlace, Placed
<1>6. /\ unprocessed' \in Seq(Requests) /\ Distinct(unprocessed')
      /\ ToSet(unprocessed') = ToSet(unprocessed) \ {r}
  BY <1>2, <1>3, WithoutFacts DEF InOnePlace, Placed
<1>7. errors' \in Seq(Requests) /\ Distinct(errors') /\ ToSet(errors') = ToSet(errors) \cup {r}
  <2>1. errors \in Seq(Requests) /\ Distinct(errors) /\ r \notin ToSet(errors)
    BY <1>3, <1>4 DEF InOnePlace, Placed
  <2> QED
    BY <1>2, <1>5, <2>1, AppendDistinct
<1>8. InOnePlace'
  BY <1>2, <1>3, <1>4, <1>6, <1>7 DEF InOnePlace, Placed
<1>9. Everything' = Everything
  BY <1>2, <1>4, <1>6, <1>7 DEF Everything, Held
<1>10. loop' \in {"idle", "prefill", "next", "decode"} /\ loop' = "decode"
  BY <1>2
<1>11. Agreed'
  BY <1>2, <1>3, <1>8, <1>9, <1>10, MovedAgreed
<1> QED
  BY <1>2, <1>11

(* New requests leave the pending ones for the batch or for the errors. *)
LEMMA PromptsFacts ==
  ASSUME InOnePlace, NEW s \in Seq(Requests), Distinct(s), ToSet(s) \subseteq ToSet(unprocessed),
         ProcessPrompts(s), partial' = partial
  PROVE  /\ InOnePlace' /\ Everything' = Everything
         /\ \E t \in Seq(Requests) : ToSet(t) \subseteq ToSet(unprocessed) /\ batch' = batch \o Rows(t)
<1>1. PICK F : /\ batch' = batch \o Rows(Without(s, F)) /\ errors' = errors \o Within(s, F)
               /\ unprocessed' = Without(unprocessed, ToSet(s))
  BY DEF ProcessPrompts
<1>2. PICK t, e : t = Without(s, F) /\ e = Within(s, F)
  OBVIOUS
<1>3. t \in Seq(Requests) /\ ToSet(t) = ToSet(s) \ F /\ Distinct(t)
  BY <1>2, WithoutFacts
<1>4. e \in Seq(Requests) /\ ToSet(e) = ToSet(s) \cap F /\ Distinct(e)
  BY <1>2, WithinFacts
<1>5. /\ unprocessed \in Seq(Requests) /\ batch \in Seq(Row) /\ errors \in Seq(Requests)
      /\ Distinct(unprocessed) /\ OncePerRequest(batch) /\ Distinct(errors)
      /\ ToSet(unprocessed) \cap Of(batch) = {} /\ ToSet(unprocessed) \cap ToSet(errors) = {}
      /\ ToSet(unprocessed) \cap Prefilling(partial) = {}
  BY DEF InOnePlace, Placed
<1>6. /\ unprocessed' \in Seq(Requests) /\ Distinct(unprocessed')
      /\ ToSet(unprocessed') = ToSet(unprocessed) \ ToSet(s)
  BY <1>1, <1>5, WithoutFacts
<1>7. PICK b : b = Rows(t)
  OBVIOUS
<1>8. b \in Seq(Row) /\ Of(b) = ToSet(t) /\ OncePerRequest(b)
  BY <1>3, <1>7, RowsFacts
<1>9. Of(batch) \cap Of(b) = {} /\ ToSet(errors) \cap ToSet(e) = {}
  BY <1>3, <1>4, <1>5, <1>8
<1>10. batch' \in Seq(Row) /\ OncePerRequest(batch') /\ Of(batch') = Of(batch) \cup ToSet(t)
  <2>1. batch' = batch \o b
    BY <1>1, <1>2, <1>7
  <2> QED
    BY <1>5, <1>8, <1>9, <2>1, OnceConcat
<1>11. errors' \in Seq(Requests) /\ Distinct(errors') /\ ToSet(errors') = ToSet(errors) \cup ToSet(e)
  <2>1. errors' = errors \o e
    BY <1>1, <1>2
  <2> QED
    BY <1>4, <1>5, <1>9, <2>1, ConcatFacts
<1>12. /\ Of(batch) \cap Prefilling(partial) = {} /\ Of(batch) \cap ToSet(errors) = {}
       /\ Prefilling(partial) \cap ToSet(errors) = {}
       /\ partial = None \/ partial \in [r : Requests, left : Nat]
  BY DEF InOnePlace, Placed
<1>13. /\ ToSet(unprocessed') \cap Of(batch') = {} /\ ToSet(unprocessed') \cap Prefilling(partial) = {}
       /\ ToSet(unprocessed') \cap ToSet(errors') = {} /\ Of(batch') \cap Prefilling(partial) = {}
       /\ Of(batch') \cap ToSet(errors') = {} /\ Prefilling(partial) \cap ToSet(errors') = {}
  BY <1>3, <1>4, <1>5, <1>6, <1>10, <1>11, <1>12
<1>14. InOnePlace'
  BY <1>6, <1>10, <1>11, <1>12, <1>13 DEF InOnePlace, Placed
<1>15. Everything' = Everything
  BY <1>3, <1>4, <1>6, <1>10, <1>11 DEF Everything, Held
<1>16. ToSet(t) \subseteq ToSet(unprocessed) /\ batch' = batch \o Rows(t)
  BY <1>1, <1>2, <1>3
<1> QED
  BY <1>3, <1>14, <1>15, <1>16

LEMMA NextAgreed ==
  ASSUME Agreed, NewBatch \/ ExtendBatch \/ NoLongPrompt
  PROVE  /\ Agreed'
         /\ \/ batch' = batch
            \/ \E t \in Seq(Requests) : ToSet(t) \subseteq ToSet(unprocessed) /\ batch' = batch \o Rows(t)
<1>1. /\ UNCHANGED <<waiting, running, requests, mapped, removals, client, partial>>
      /\ loop \in {"prefill", "next"} /\ loop' \in {"idle", "next", "decode"}
  BY DEF NewBatch, ExtendBatch, NoLongPrompt, prefillKept, tracking, outputs
<1>2. InOnePlace /\ Moving
  BY <1>1 DEF Agreed, Moving
<1>3. errors = <<>>
  BY <1>1, <1>2, MovingFacts
<1>4. CompletionBatchSize \in Nat
  BY MLLMAssumptions
<1>5. /\ unprocessed \in Seq(Requests) /\ Distinct(unprocessed)
      /\ Eligible \in Seq(Requests) /\ Distinct(Eligible)
      /\ ToSet(Eligible) \subseteq ToSet(unprocessed)
  BY <1>2, EligibleFacts DEF InOnePlace, Placed
<1>6. CASE UNCHANGED <<batch, errors, unprocessed>>
  <2>1. InOnePlace' /\ Everything' = Everything
    BY <1>1, <1>2, <1>6 DEF InOnePlace, Everything
  <2>2. errors' = <<>> /\ loop' \in {"idle", "prefill", "next", "decode"}
    BY <1>1, <1>3, <1>6
  <2> QED
    BY <1>1, <1>2, <1>6, <2>1, <2>2, MovedAgreed
<1>7. ASSUME NEW u \in Seq(Requests), Distinct(u), ToSet(u) \subseteq ToSet(unprocessed),
             ProcessPrompts(Take(u, CompletionBatchSize)), loop' = "decode"
      PROVE  /\ Agreed'
             /\ \E t \in Seq(Requests) : ToSet(t) \subseteq ToSet(unprocessed) /\ batch' = batch \o Rows(t)
  <2>1. PICK s : s = Take(u, CompletionBatchSize)
    OBVIOUS
  <2>2. s \in Seq(Requests) /\ Distinct(s) /\ ToSet(s) \subseteq ToSet(u)
    BY <1>4, <1>7, <2>1, TakeFacts
  <2>3. ToSet(s) \subseteq ToSet(unprocessed) /\ ProcessPrompts(s) /\ partial' = partial
    BY <1>1, <1>7, <2>1, <2>2
  <2>4. /\ InOnePlace' /\ Everything' = Everything
        /\ \E t \in Seq(Requests) : ToSet(t) \subseteq ToSet(unprocessed) /\ batch' = batch \o Rows(t)
    BY <1>2, <2>2, <2>3, PromptsFacts
  <2>5. loop' \in {"idle", "prefill", "next", "decode"} /\ loop' = "decode"
    BY <1>7
  <2>6. Agreed'
    BY <1>1, <1>2, <2>4, <2>5, MovedAgreed
  <2> QED
    BY <2>4, <2>6
<1>8. CASE NoLongPrompt
  BY <1>6, <1>8 DEF NoLongPrompt
<1>9. CASE NewBatch
  <2>1. CASE unprocessed = <<>>
    BY <1>6, <1>9, <2>1 DEF NewBatch
  <2>2. CASE unprocessed # <<>>
    <3>1. ProcessPrompts(Take(unprocessed, CompletionBatchSize)) /\ loop' = "decode"
      BY <1>9, <2>2 DEF NewBatch
    <3> QED
      BY <1>5, <1>7, <3>1
  <2> QED
    BY <2>1, <2>2
<1>10. CASE ExtendBatch
  <2>1. ProcessPrompts(Take(Eligible, CompletionBatchSize)) /\ loop' = "decode"
    BY <1>10 DEF ExtendBatch
  <2> QED
    BY <1>5, <1>7, <2>1
<1> QED
  BY <1>8, <1>9, <1>10

----------------------------------------------------------------------------
(* One token for every row.                                                 *)

(* What a response x says of the row it is about, and what becomes of that. *)
Answers(x) ==
  \E row \in ToSet(batch) :
    /\ row.r = x.r /\ x.fin # "error"
    /\ IF x.fin = "no" THEN x.r \in Of(batch') ELSE x.r \notin Of(batch')
    /\ x.fin = "length" => row.n + 1 >= MaxTokens

LEMMA GenerateFacts ==
  ASSUME InOnePlace, Generate
  PROVE  /\ responses' \in Seq(Response) /\ OncePerRequest(responses')
         /\ Of(responses') = ToSet(errors) \cup Of(batch)
         /\ \A x \in ToSet(responses') : (x.fin = "error" /\ x.r \in ToSet(errors)) \/ Answers(x)
         /\ batch' \in Seq(Row) /\ OncePerRequest(batch')
         /\ \A y \in ToSet(batch') : \E row \in ToSet(batch) :
              row.r = y.r /\ y.n = row.n + 1 /\ y.n < MaxTokens
<1>1. PICK stops \in SUBSET DOMAIN batch :
        LET fin  == [i \in DOMAIN batch |->
                       IF i \in stops THEN "stop"
                       ELSE IF batch[i].n + 1 >= MaxTokens THEN "length" ELSE "no"]
            keep == Within([i \in DOMAIN batch |-> i], {i \in DOMAIN batch : fin[i] = "no"}) IN
        /\ responses' = [i \in DOMAIN errors |-> [r |-> errors[i], fin |-> "error"]]
                     \o [i \in DOMAIN batch |-> [r |-> batch[i].r, fin |-> fin[i]]]
        /\ batch' = [k \in DOMAIN keep |-> [r |-> batch[keep[k]].r, n |-> batch[keep[k]].n + 1]]
  BY DEF Generate
<1> DEFINE fin  == [i \in DOMAIN batch |->
                      IF i \in stops THEN "stop"
                      ELSE IF batch[i].n + 1 >= MaxTokens THEN "length" ELSE "no"]
           ids  == [i \in DOMAIN batch |-> i]
           keep == Within(ids, {i \in DOMAIN batch : fin[i] = "no"})
           a    == [i \in DOMAIN errors |-> [r |-> errors[i], fin |-> "error"]]
           b    == [i \in DOMAIN batch |-> [r |-> batch[i].r, fin |-> fin[i]]]
<1>2. /\ responses' = a \o b
      /\ batch' = [k \in DOMAIN keep |-> [r |-> batch[keep[k]].r, n |-> batch[keep[k]].n + 1]]
  BY <1>1
<1>3. \A i \in DOMAIN batch :
        fin[i] = IF i \in stops THEN "stop"
                 ELSE IF batch[i].n + 1 >= MaxTokens THEN "length" ELSE "no"
  OBVIOUS
<1>4. /\ DOMAIN a = DOMAIN errors
      /\ \A i \in DOMAIN errors : a[i] = [r |-> errors[i], fin |-> "error"]
      /\ a = [i \in DOMAIN errors |-> a[i]]
  OBVIOUS
<1>5. /\ DOMAIN b = DOMAIN batch
      /\ \A i \in DOMAIN batch : b[i] = [r |-> batch[i].r, fin |-> fin[i]]
      /\ b = [i \in DOMAIN batch |-> b[i]]
  OBVIOUS
<1> HIDE DEF fin, a, b
<1>6. PICK n : n = Len(batch)
  OBVIOUS
<1>7. /\ batch \in Seq(Row) /\ n \in Nat /\ DOMAIN batch = 1 .. n
      /\ \A i \in 1 .. n : batch[i] \in Row
  BY <1>6 DEF InOnePlace, Placed
<1>8. \A i \in 1 .. n : batch[i].r \in Requests /\ batch[i].n \in Nat
  BY <1>7 DEF Row
<1>9. MaxTokens \in Nat
  BY MLLMAssumptions
<1>10. \A i \in 1 .. n :
         /\ fin[i] \in {"no", "stop", "length"}
         /\ fin[i] = "no" => batch[i].n + 1 < MaxTokens
         /\ fin[i] = "length" => batch[i].n + 1 >= MaxTokens
  BY <1>3, <1>7, <1>8, <1>9
<1>11. PICK S : S = {i \in 1 .. n : fin[i] = "no"}
  OBVIOUS
<1>12. keep \in Seq(1 .. n) /\ ToSet(keep) = S /\ Distinct(keep)
  <2>1. ids = [i \in 1 .. n |-> i]
    BY <1>7
  <2>2. ids \in Seq(1 .. n) /\ ToSet(ids) = 1 .. n /\ Distinct(ids)
    BY <1>7, <2>1 DEF ToSet, Distinct
  <2>3. PICK s : s = ids
    OBVIOUS
  <2>4. keep = Within(s, S)
    BY <1>7, <1>11, <2>3
  <2>5. Within(s, S) \in Seq(1 .. n) /\ ToSet(Within(s, S)) = ToSet(s) \cap S
    BY <2>2, <2>3, WithinFacts
  <2>6. Distinct(Within(s, S))
    BY <2>2, <2>3, WithinFacts
  <2> QED
    BY <1>11, <2>2, <2>3, <2>4, <2>5, <2>6
<1>13. \A k \in DOMAIN keep :
         /\ batch'[k].r = batch[keep[k]].r /\ batch'[k].n = batch[keep[k]].n + 1
         /\ batch'[k] = [r |-> batch[keep[k]].r, n |-> batch[keep[k]].n + 1]
  BY <1>2
<1>14. DOMAIN batch' = DOMAIN keep
  BY <1>2
<1> HIDE DEF keep, ids
<1>15. DOMAIN keep = 1 .. Len(keep) /\ Len(keep) \in Nat
       /\ \A k \in DOMAIN keep : keep[k] \in 1 .. n /\ fin[keep[k]] = "no"
  <2>1. \A k \in DOMAIN keep : keep[k] \in S
    BY <1>12 DEF ToSet
  <2> QED
    BY <1>11, <1>12, <2>1
<1>16. batch' \in Seq(Row)
  <2>1. \A k \in DOMAIN keep : batch[keep[k]].r \in Requests /\ batch[keep[k]].n + 1 \in Nat
    BY <1>8, <1>15
  <2>2. \A k \in 1 .. Len(keep) : batch'[k] \in Row
    <3>1. \A k \in DOMAIN keep : [r |-> batch[keep[k]].r, n |-> batch[keep[k]].n + 1] \in Row
      BY <2>1 DEF Row
    <3> QED
      BY <1>13, <1>15, <3>1
  <2>3. batch' = [k \in 1 .. Len(keep) |-> batch'[k]]
    BY <1>2, <1>15
  <2> QED
    BY <1>15, <2>2, <2>3
<1>17. \A i, j \in 1 .. n : batch[i].r = batch[j].r => i = j
  BY <1>7 DEF InOnePlace, Placed, OncePerRequest
<1>18. OncePerRequest(batch')
  <2> SUFFICES ASSUME NEW k \in DOMAIN keep, NEW l \in DOMAIN keep, batch'[k].r = batch'[l].r
               PROVE  k = l
    BY <1>14 DEF OncePerRequest
  <2>1. batch[keep[k]].r = batch[keep[l]].r
    BY <1>13
  <2>2. keep[k] = keep[l]
    BY <1>15, <1>17, <2>1
  <2> QED
    BY <1>12, <2>2 DEF Distinct
<1>19. \A y \in ToSet(batch') : \E row \in ToSet(batch) :
         row.r = y.r /\ y.n = row.n + 1 /\ y.n < MaxTokens
  <2> SUFFICES ASSUME NEW k \in DOMAIN keep
               PROVE  \E row \in ToSet(batch) :
                        row.r = batch'[k].r /\ batch'[k].n = row.n + 1 /\ batch'[k].n < MaxTokens
    BY <1>14 DEF ToSet
  <2>1. keep[k] \in 1 .. n /\ fin[keep[k]] = "no"
    BY <1>15
  <2>2. batch[keep[k]] \in ToSet(batch)
    BY <1>7, <2>1 DEF ToSet
  <2>3. batch[keep[k]].n + 1 < MaxTokens
    BY <1>10, <2>1
  <2> QED
    BY <1>13, <2>2, <2>3
<1>20. \A i \in 1 .. n : batch[i].r \in Of(batch') <=> fin[i] = "no"
  <2>1. TAKE i \in 1 .. n
  <2>2. ASSUME fin[i] = "no" PROVE batch[i].r \in Of(batch')
    <3>1. PICK k \in DOMAIN keep : keep[k] = i
      BY <1>11, <1>12, <2>2 DEF ToSet
    <3>2. batch'[k] \in ToSet(batch') /\ batch'[k].r = batch[i].r
      BY <1>13, <1>14, <3>1 DEF ToSet
    <3> QED
      BY <3>2 DEF Of
  <2>3. ASSUME batch[i].r \in Of(batch') PROVE fin[i] = "no"
    <3>1. PICK y \in ToSet(batch') : y.r = batch[i].r
      BY <2>3 DEF Of
    <3>2. PICK k \in DOMAIN keep : y = batch'[k]
      BY <1>14 DEF ToSet
    <3>3. batch[keep[k]].r = batch[i].r
      BY <1>13, <3>1, <3>2
    <3> QED
      BY <1>15, <1>17, <3>3
  <2> QED
    BY <2>2, <2>3
<1>21. a \in Seq(Response) /\ Of(a) = ToSet(errors) /\ OncePerRequest(a)
       /\ \A x \in ToSet(a) : x.fin = "error" /\ x.r \in ToSet(errors)
  <2>1. errors \in Seq(Requests) /\ Distinct(errors)
    BY DEF InOnePlace, Placed
  <2>2. DOMAIN errors = 1 .. Len(errors) /\ Len(errors) \in Nat
        /\ \A i \in DOMAIN errors : errors[i] \in Requests
    BY <2>1
  <2>3. \A i \in DOMAIN errors : a[i] \in Response /\ a[i].r = errors[i] /\ a[i].fin = "error"
    BY <1>4, <2>2 DEF Response
  <2>4. a \in Seq(Response)
    <3>1. a = [i \in DOMAIN errors |-> a[i]]
      BY <1>4
    <3>2. a \in [DOMAIN errors -> Response]
      BY <2>3, <3>1
    <3>3. a \in [1 .. Len(errors) -> Response]
      BY <2>2, <3>2
    <3> QED
      BY <2>2, <3>3
  <2>5. ToSet(a) = {a[i] : i \in DOMAIN errors} /\ ToSet(errors) = {errors[i] : i \in DOMAIN errors}
    BY <1>4 DEF ToSet
  <2>6. Of(a) = ToSet(errors) /\ \A x \in ToSet(a) : x.fin = "error" /\ x.r \in ToSet(errors)
    BY <2>3, <2>5 DEF Of
  <2>7. OncePerRequest(a)
    BY <1>4, <2>1, <2>3 DEF OncePerRequest, Distinct
  <2> QED
    BY <2>4, <2>6, <2>7
<1>22. b \in Seq(Response) /\ Of(b) = Of(batch) /\ OncePerRequest(b)
       /\ \A x \in ToSet(b) : \E i \in 1 .. n : x.r = batch[i].r /\ x.fin = fin[i]
  <2>1. \A i \in 1 .. n : b[i] \in Response /\ b[i].r = batch[i].r /\ b[i].fin = fin[i]
    BY <1>7, <1>8, <1>10, <1>5 DEF Response
  <2>2. b \in Seq(Response)
    <3>1. b = [i \in DOMAIN batch |-> b[i]]
      BY <1>5
    <3>2. b \in [DOMAIN batch -> Response]
      BY <1>7, <2>1, <3>1
    <3>3. b \in [1 .. n -> Response]
      BY <1>7, <3>2
    <3> QED
      BY <1>7, <3>3
  <2>3. ToSet(b) = {b[i] : i \in 1 .. n} /\ ToSet(batch) = {batch[i] : i \in 1 .. n}
    BY <1>7, <1>5 DEF ToSet
  <2>4. Of(b) = Of(batch)
    BY <2>1, <2>3 DEF Of
  <2>5. OncePerRequest(b)
    BY <1>7, <1>17, <1>5, <2>1 DEF OncePerRequest
  <2>6. \A x \in ToSet(b) : \E i \in 1 .. n : x.r = batch[i].r /\ x.fin = fin[i]
    BY <2>1, <2>3
  <2> QED
    BY <2>2, <2>4, <2>5, <2>6
<1>23. /\ responses' \in Seq(Response) /\ OncePerRequest(responses')
       /\ Of(responses') = ToSet(errors) \cup Of(batch)
       /\ ToSet(responses') = ToSet(a) \cup ToSet(b)
  <2>1. Of(a) \cap Of(b) = {}
    BY <1>21, <1>22 DEF InOnePlace, Placed
  <2>2. responses' = a \o b
    BY <1>2
  <2> QED
    BY <1>21, <1>22, <2>1, <2>2, OnceConcat
<1>24. \A x \in ToSet(b) : Answers(x)
  <2>1. TAKE x \in ToSet(b)
  <2>2. PICK i \in 1 .. n : x.r = batch[i].r /\ x.fin = fin[i]
    BY <1>22
  <2>3. batch[i] \in ToSet(batch)
    BY <1>7 DEF ToSet
  <2>4. x.fin # "error" /\ (x.fin = "length" => batch[i].n + 1 >= MaxTokens)
    BY <1>10, <2>2
  <2>5. IF x.fin = "no" THEN x.r \in Of(batch') ELSE x.r \notin Of(batch')
    BY <1>20, <2>2
  <2> QED
    BY <2>2, <2>3, <2>4, <2>5 DEF Answers
<1> QED
  BY <1>16, <1>18, <1>19, <1>21, <1>23, <1>24

LEMMA GenerateAgreed ==
  ASSUME Agreed, Generate
  PROVE  Agreed'
<1>1. /\ loop = "decode" /\ loop' = "process" /\ errors' = <<>>
      /\ UNCHANGED <<waiting, running, requests, mapped, removals, client, unprocessed, partial>>
  BY DEF Generate, tracking, outputs
<1>2. InOnePlace /\ Moving
  BY <1>1 DEF Agreed, Moving
<1>3. removals = {} /\ Everything = running
  BY <1>2, MovingFacts
<1>4. TrackedOK'
  BY <1>1, TrackedSame DEF Agreed
<1>5. /\ responses' \in Seq(Response) /\ OncePerRequest(responses')
      /\ Of(responses') = ToSet(errors) \cup Of(batch)
      /\ \A x \in ToSet(responses') : (x.fin = "error" /\ x.r \in ToSet(errors)) \/ Answers(x)
      /\ batch' \in Seq(Row) /\ OncePerRequest(batch')
      /\ \A y \in ToSet(batch') : \E row \in ToSet(batch) :
           row.r = y.r /\ y.n = row.n + 1 /\ y.n < MaxTokens
  BY <1>2, GenerateFacts
<1>6. Of(batch') \subseteq Of(batch)
  BY <1>5 DEF Of
<1>7. errors' \in Seq(Requests) /\ Distinct(errors') /\ ToSet(errors') = {}
  BY <1>1, NoElements
<1>8. InOnePlace'
  BY <1>1, <1>2, <1>5, <1>6, <1>7 DEF InOnePlace, Placed
<1>9. /\ ToSet(unprocessed) \cap Of(batch) = {} /\ Of(batch) \cap Prefilling(partial) = {}
      /\ ToSet(unprocessed) \cap ToSet(errors) = {} /\ Prefilling(partial) \cap ToSet(errors) = {}
      /\ Of(batch) \cap ToSet(errors) = {}
  BY <1>2 DEF InOnePlace, Placed
<1>10. Everything' = ToSet(unprocessed) \cup Of(batch') \cup Prefilling(partial)
  BY <1>1, <1>7 DEF Everything, Held
<1>11. Everything = ToSet(unprocessed) \cup Of(batch) \cup Prefilling(partial) \cup ToSet(errors)
  BY DEF Everything, Held
<1>12. \A x \in ToSet(responses') :
         IF x.fin = "no" THEN x.r \in Of(batch') ELSE x.r \notin Everything'
  <2>1. TAKE x \in ToSet(responses')
  <2>2. CASE x.fin = "error" /\ x.r \in ToSet(errors)
    BY <1>6, <1>9, <1>10, <2>2
  <2>3. CASE Answers(x)
    <3>1. PICK row \in ToSet(batch) :
            /\ row.r = x.r
            /\ IF x.fin = "no" THEN x.r \in Of(batch') ELSE x.r \notin Of(batch')
      BY <2>3 DEF Answers
    <3>2. x.r \in Of(batch)
      BY <3>1 DEF Of
    <3> QED
      BY <1>9, <1>10, <3>1, <3>2
  <2> QED
    BY <1>5, <2>2, <2>3
<1>13. ResponsesOK'
  <2>1. Of(responses') \subseteq running' /\ Everything' \subseteq running'
        /\ running' \subseteq Everything' \cup Of(responses') /\ Of(batch') \subseteq Of(responses')
    BY <1>1, <1>3, <1>5, <1>6, <1>10, <1>11
  <2> QED
    BY <1>5, <1>12, <2>1 DEF ResponsesOK, Everything
<1>14. StepOK'
  <2>1. removals' = {}
    BY <1>1, <1>3
  <2> QED
    BY <1>1, <1>13, <2>1 DEF StepOK
<1> QED
  BY <1>4, <1>8, <1>14 DEF Agreed

(* A running request has at most one response. *)
LEMMA MineFacts ==
  ASSUME Agreed, loop = "process", NEW r \in Requests
  PROVE  \/ Mine(r) = <<>> /\ r \notin Of(responses)
         \/ \E x \in ToSet(responses) : x.r = r /\ x \in Response /\ Mine(r) = <<x>>
<1>1. responses \in Seq(Response) /\ OncePerRequest(responses) /\ Of(responses) \subseteq running
      /\ mapped = running
  BY DEF Agreed, StepOK, TrackedOK, ResponsesOK
<1>2. PICK S : S = {x \in ToSet(responses) : x.r = r /\ r \in mapped \cap running}
  OBVIOUS
<1>3. PICK t : t = Within(responses, S)
  OBVIOUS
<1>4. Distinct(responses) /\ \A x, y \in ToSet(responses) : x.r = y.r => x = y
  BY <1>1, OnceFacts
<1>5. t \in Seq(Response) /\ ToSet(t) = ToSet(responses) \cap S /\ Distinct(t)
  <2>1. Within(responses, S) \in Seq(Response)
        /\ ToSet(Within(responses, S)) = ToSet(responses) \cap S
    BY <1>1, WithinFacts
  <2>2. Distinct(Within(responses, S))
    BY <1>1, <1>4, WithinFacts
  <2> QED
    BY <1>3, <2>1, <2>2
<1>6. Mine(r) = t
  BY <1>2, <1>3 DEF Mine
<1>7. ToSet(t) = {x \in ToSet(responses) : x.r = r}
  BY <1>1, <1>2, <1>5 DEF Of
<1>8. Cardinality(ToSet(t)) = Len(t)
  BY <1>5, DistinctCounted
<1>9. CASE r \notin Of(responses)
  <2>1. ToSet(t) = {}
    BY <1>7, <1>9 DEF Of
  <2>2. Len(t) = 0
    BY <1>8, <2>1, FS_EmptySet
  <2>3. t = <<>>
    BY <1>5, <2>2
  <2> QED
    BY <1>6, <1>9, <2>3
<1>10. CASE r \in Of(responses)
  <2>1. PICK x \in ToSet(responses) : x.r = r
    BY <1>10 DEF Of
  <2>2. ToSet(t) = {x}
    BY <1>4, <1>7, <2>1
  <2>3. Len(t) = 1
    BY <1>8, <2>2, FS_Singleton
  <2>4. DOMAIN t = {1}
    BY <1>5, <2>3
  <2>5. t[1] = x /\ x \in Response
    <3>1. t[1] \in ToSet(t)
      BY <2>4 DEF ToSet
    <3>2. t[1] \in Response
      BY <1>5, <2>4
    <3> QED
      BY <2>2, <3>1, <3>2
  <2>6. t = <<x>>
    BY <1>5, <2>3, <2>5
  <2> QED
    BY <1>6, <2>1, <2>5, <2>6
<1> QED
  BY <1>9, <1>10

LEMMA FinishingFacts ==
  ASSUME NEW r, NEW x, Mine(r) = <<x>>
  PROVE  Finishing(r) = IF x.fin = "no" THEN {} ELSE {1}
<1>1. PICK t : t = Mine(r)
  OBVIOUS
<1>2. DOMAIN t = {1} /\ t[1] = x
  BY <1>1
<1>3. Finishing(r) = {k \in DOMAIN t : t[k].fin # "no"}
  BY <1>1 DEF Finishing
<1> QED
  BY <1>2, <1>3

Finished == {r \in Requests : Finishing(r) # {}}

LEMMA FinishedFacts ==
  ASSUME Agreed, loop = "process"
  PROVE  /\ Finished \subseteq running
         /\ \A r \in Requests : r \in Finished <=> \E x \in ToSet(responses) : x.r = r /\ x.fin # "no"
<1>1. responses \in Seq(Response) /\ OncePerRequest(responses) /\ Of(responses) \subseteq running
  BY DEF Agreed, StepOK, ResponsesOK
<1>2. \A x, y \in ToSet(responses) : x.r = y.r => x = y
  BY <1>1, OnceFacts
<1>3. ASSUME NEW r \in Requests
      PROVE  r \in Finished <=> \E x \in ToSet(responses) : x.r = r /\ x.fin # "no"
  <2>1. CASE Mine(r) = <<>> /\ r \notin Of(responses)
    <3>1. PICK t : t = Mine(r)
      OBVIOUS
    <3>2. DOMAIN t = {}
      BY <2>1, <3>1
    <3>3. Finishing(r) = {}
      BY <3>1, <3>2 DEF Finishing
    <3> QED
      BY <2>1, <3>3 DEF Finished, Of
  <2>2. CASE \E x \in ToSet(responses) : x.r = r /\ x \in Response /\ Mine(r) = <<x>>
    <3>1. PICK x \in ToSet(responses) : x.r = r /\ Mine(r) = <<x>>
      BY <2>2
    <3>2. Finishing(r) = IF x.fin = "no" THEN {} ELSE {1}
      BY <3>1, FinishingFacts
    <3>3. r \in Finished <=> x.fin # "no"
      BY <3>2 DEF Finished
    <3> QED
      BY <1>2, <3>1, <3>3
  <2> QED
    BY <2>1, <2>2, MineFacts
<1>4. Finished \subseteq running
  <2>1. ASSUME NEW r \in Finished PROVE r \in running
    <3>1. r \in Requests
      BY <2>1 DEF Finished
    <3>2. PICK x \in ToSet(responses) : x.r = r
      BY <1>3, <2>1, <3>1
    <3> QED
      BY <1>1, <3>2 DEF Of
  <2> QED
    BY <2>1
<1> QED
  BY <1>3, <1>4

LEMMA ProcessAgreed ==
  ASSUME Agreed, ProcessResponses
  PROVE  Agreed'
<1>1. /\ loop = "process" /\ loop' = "idle"
      /\ running' = running \ Finished /\ requests' = requests \ Finished
      /\ mapped' = mapped \ Finished
      /\ UNCHANGED <<waiting, client, removals, unprocessed, batch, partial, errors>>
  BY DEF ProcessResponses, Finished, generator
<1>2. /\ Finished \subseteq running
      /\ \A r \in Requests : r \in Finished <=> \E x \in ToSet(responses) : x.r = r /\ x.fin # "no"
  BY <1>1, FinishedFacts
<1>3. TrackedOK /\ removals = {} /\ errors = <<>> /\ ResponsesOK
  BY <1>1 DEF Agreed, StepOK
<1>4. TrackedOK'
  <2>1. IsFiniteSet(running')
    BY <1>1, <1>3, FS_Subset DEF TrackedOK
  <2>2. requests' = ToSet(waiting) \cup running' /\ ToSet(waiting) \cap running' = {}
        /\ mapped' = running' /\ running' \subseteq Requests
    BY <1>1, <1>2, <1>3 DEF TrackedOK
  <2>3. removals' \cap requests' = {} /\ requests' \subseteq requests
    BY <1>1, <1>3
  <2> QED
    BY <1>1, <1>3, <2>1, <2>2, <2>3 DEF TrackedOK
<1>5. InOnePlace'
  BY <1>1 DEF Agreed, InOnePlace
<1>6. Everything' = Everything
  BY <1>1 DEF Everything
<1>7. Everything = running \ Finished
  <2>1. /\ Of(responses) \subseteq running /\ Everything \subseteq running
        /\ running \subseteq Everything \cup Of(responses) /\ running \subseteq Requests
        /\ \A x \in ToSet(responses) :
             IF x.fin = "no" THEN x.r \in Of(batch) ELSE x.r \notin Everything
    BY <1>3 DEF ResponsesOK, Everything, TrackedOK
  <2>2. \A r \in Everything : r \notin Finished
    BY <1>2, <2>1
  <2>3. ASSUME NEW r \in running, r \notin Finished PROVE r \in Everything
    <3>1. CASE r \in Of(responses)
      <4>1. PICK x \in ToSet(responses) : x.r = r
        BY <3>1 DEF Of
      <4>2. x.fin = "no"
        BY <1>2, <2>1, <2>3, <4>1
      <4>3. r \in Of(batch)
        BY <2>1, <4>1, <4>2
      <4> QED
        BY <4>3 DEF Everything, Held
    <3> QED
      BY <2>1, <3>1
  <2> QED
    BY <2>1, <2>2, <2>3
<1>8. StepOK'
  <2>1. running' = Everything' /\ removals' = {} /\ errors' = <<>>
    BY <1>1, <1>3, <1>6, <1>7
  <2> QED
    BY <1>1, <2>1 DEF StepOK, Everything
<1> QED
  BY <1>4, <1>5, <1>8 DEF Agreed

(* The generator is empty after every request has failed. *)
LEMMA FailedAgreed ==
  ASSUME Agreed, removals = {}, Everything \subseteq running, errors' = <<>>, RemoveUids(mapped),
         waiting' = <<>>, running' = {}, requests' = {}, mapped' = {}, loop' = "idle",
         UNCHANGED <<client, removals>>
  PROVE  Agreed' /\ batch' = <<>>
<1>1. InOnePlace /\ mapped = running
  BY DEF Agreed, TrackedOK
<1>2. /\ Placed(unprocessed', batch', partial', errors)
      /\ ToSet(unprocessed') = ToSet(unprocessed) \ running
      /\ Of(batch') = Of(batch) \ running
      /\ Prefilling(partial') = Prefilling(partial) \ running
  BY <1>1, RemovedFacts DEF InOnePlace
<1>3. ToSet(unprocessed') = {} /\ Of(batch') = {} /\ Prefilling(partial') = {}
  BY <1>2 DEF Everything, Held
<1>4. errors' \in Seq(Requests) /\ Distinct(errors') /\ ToSet(errors') = {}
  BY NoElements
<1>5. InOnePlace'
  BY <1>2, <1>3, <1>4 DEF InOnePlace, Placed
<1>6. Everything' = {}
  BY <1>3, <1>4 DEF Everything, Held
<1>7. TrackedOK'
  <2>1. IsFiniteSet({})
    BY FS_EmptySet
  <2> QED
    BY <2>1, NoElements DEF Agreed, TrackedOK
<1>8. StepOK'
  BY <1>6 DEF StepOK, Everything
<1>9. batch' = <<>>
  <2>1. batch' \in Seq(Row)
    BY <1>2 DEF Placed
  <2>2. PICK b : b = batch'
    OBVIOUS
  <2>3. \A i \in DOMAIN b : b[i].r \in Of(b)
    BY DEF Of, ToSet
  <2>4. DOMAIN b = {}
    BY <1>3, <2>2, <2>3
  <2>5. Len(b) = 0
    BY <2>1, <2>2, <2>4
  <2> QED
    BY <2>1, <2>2, <2>5
<1> QED
  BY <1>5, <1>7, <1>8, <1>9 DEF Agreed

LEMMA StepFailsAgreed ==
  ASSUME Agreed, StepFails
  PROVE  Agreed' /\ batch' = <<>>
<1>1. /\ loop \in {"prefill", "decode"} /\ loop' = "idle"
      /\ (loop = "prefill" /\ errors' = errors) \/ errors' = <<>>
      /\ RemoveUids(mapped)
      /\ waiting' = <<>> /\ running' = {} /\ requests' = {} /\ mapped' = {}
      /\ UNCHANGED <<client, removals>>
  BY DEF StepFails, FailRequests
<1>2. Moving
  BY <1>1 DEF Moving
<1>3. removals = {} /\ Everything = running /\ errors' = <<>>
  BY <1>1, <1>2, MovingFacts
<1> QED
  BY <1>1, <1>3, FailedAgreed

LEMMA ProcessFailsAgreed ==
  ASSUME Agreed, ProcessFails
  PROVE  Agreed' /\ batch' = <<>>
<1>1. /\ loop = "process" /\ loop' = "idle" /\ errors' = errors
      /\ RemoveUids(mapped)
      /\ waiting' = <<>> /\ running' = {} /\ requests' = {} /\ mapped' = {}
      /\ UNCHANGED <<client, removals>>
  BY DEF ProcessFails, FailRequests
<1>2. removals = {} /\ errors = <<>> /\ ResponsesOK
  BY <1>1 DEF Agreed, StepOK
<1>3. Everything \subseteq running
  BY <1>2 DEF ResponsesOK, Everything
<1> QED
  BY <1>1, <1>2, <1>3, FailedAgreed

----------------------------------------------------------------------------
GeneratorInv == ~inlined => Agreed

LEMMA AgreedStart == Init => Agreed
<1> SUFFICES ASSUME Init PROVE Agreed
  OBVIOUS
<1>1. TrackedOK
  BY NoElements, FS_EmptySet DEF Init, TrackedOK
<1>2. InOnePlace /\ Everything = {}
  BY NoElements DEF Init, InOnePlace, Placed, Everything, Held, Prefilling
<1>3. StepOK
  BY <1>2 DEF Init, StepOK, Everything
<1> QED
  BY <1>1, <1>2, <1>3 DEF Agreed

LEMMA AgreedStep == GeneratorInv /\ [Next]_vars => GeneratorInv'
<1> SUFFICES ASSUME GeneratorInv, [Next]_vars, ~inlined' PROVE Agreed'
  BY DEF GeneratorInv
<1>1. ~inlined
  BY DEF Next, Step, AddRequest, Deliver, AbortRequest, Leave, StartStep, ScheduleWaiting,
         PrefillChunk, FinishPrefill, StartPrefill, PreprocessFails, NoLongPrompt, NewBatch,
         ExtendBatch, Generate, ProcessResponses, StepFails, ProcessFails, vars
<1>2. Agreed
  BY <1>1 DEF GeneratorInv
<1>3. CASE UNCHANGED vars
  BY <1>2, <1>3 DEF Agreed, TrackedOK, InOnePlace, StepOK, ResponsesOK, vars, tracking, outputs,
                    generator
<1>4. CASE \E r \in Requests : AddRequest(r) \/ Deliver(r) \/ AbortRequest(r) \/ Leave(r)
  BY <1>2, <1>4, AddAgreed, DeliverAgreed, AbortAgreed
<1>5. CASE Step
  BY <1>2, <1>5, StartAgreed, ScheduleAgreed, ChunkAgreed, FinishPrefillAgreed, StartPrefillAgreed,
     PreprocessAgreed, NextAgreed, GenerateAgreed, ProcessAgreed, StepFailsAgreed,
     ProcessFailsAgreed DEF Step
<1> QED
  BY <1>3, <1>4, <1>5 DEF Next

LEMMA GeneratorInvariant == Spec => []GeneratorInv
<1>1. Init => GeneratorInv
  BY AgreedStart DEF GeneratorInv
<1> QED
  BY <1>1, AgreedStep, PTL DEF Spec

(* A running request is in exactly one place of the generator, whatever the modes, the *)
(* kinds of the requests and the order in which they are aborted, prefilled and failed: *)
(* remove(), insert(), the prefill and the step move it between four lists.            *)
THEOREM SchedulerAndGeneratorAgree == Spec => []GeneratorAgrees
<1>1. GeneratorInv => GeneratorAgrees
  <2> SUFFICES ASSUME GeneratorInv, loop = "idle", ~inlined, NEW r \in Requests
               PROVE  /\ r \in running => r \in mapped /\ Places(r) = 1
                      /\ r \notin running /\ Places(r) > 0 => Places(r) = 1 /\ r \in removals
    BY DEF GeneratorAgrees
  <2>1. Agreed
    BY DEF GeneratorInv
  <2>2. /\ mapped = running /\ running \subseteq Everything
        /\ Everything \subseteq running \cup removals
    BY <2>1 DEF Agreed, TrackedOK, StepOK, Everything
  <2>3. Places(r) = IF r \in Everything THEN 1 ELSE 0
    BY <2>1, PlacesFacts DEF Agreed, InOnePlace, Everything
  <2> QED
    BY <2>2, <2>3
<1> QED
  BY <1>1, GeneratorInvariant, PTL

----------------------------------------------------------------------------
(* What a queue says.                                                       *)

Reasons == {"no", "stop", "length", "error", "end"}
Out     == [fin : Reasons, n : Nat]
Heard   == [got : Nat, fin : Reasons, n : Nat]

(* Output i of the queue q of a request in status s whose client got g tokens. *)
OutputOK(q, i, g, s) ==
  /\ q[i].fin \in {"no", "stop", "length"} => q[i].n = g + i
  /\ q[i].fin \in {"stop", "length"} => s = q[i].fin
  /\ q[i].fin = "length" => q[i].n = MaxTokens
  /\ q[i].fin = "error" => (q[i].n = g + i - 1 \/ q[i].n = g + i) /\ s = "aborted"
  /\ q[i].fin = "end" => q[i] = EndOf
  /\ q[i].fin = "end" /\ (i = 1 \/ q[i - 1].fin = "no") => s = "aborted"

QueueOK(q, g, s) == \A i \in DOMAIN q : OutputOK(q, i, g, s)
Unended(q)       == \A i \in DOMAIN q : q[i].fin = "no"

(* A client in state c that heard h, its request in status s with t tokens *)
(* and queue q, and whether the request is tracked.                        *)
ClientOK(c, h, q, s, t, tracked) ==
  /\ tracked => c = "streaming" /\ Unended(q) /\ t = h.got + Len(q)
  /\ c = "streaming" => h.fin = "no" /\ h.n = h.got /\ QueueOK(q, h.got, s)
  /\ c = "served" =>
       /\ h.n = h.got \/ (h.fin = "error" /\ h.n = h.got + 1)
       /\ s = IF h.fin \in {"stop", "length"} THEN h.fin ELSE "aborted"
       /\ h.fin = "length" => h.got = MaxTokens
  /\ c = "new" => h = [got |-> 0, fin |-> "no", n |-> 0] /\ q = <<>> /\ t = 0

LEMMA AppendOutput ==
  ASSUME NEW q \in Seq(Out), NEW x \in Out, NEW g \in Nat, NEW s, QueueOK(q, g, s),
         OutputOK(Append(q, x), Len(q) + 1, g, s)
  PROVE  Append(q, x) \in Seq(Out) /\ QueueOK(Append(q, x), g, s)
<1>1. PICK p : p = Append(q, x)
  OBVIOUS
<1>2. p \in Seq(Out) /\ DOMAIN p = DOMAIN q \cup {Len(q) + 1} /\ \A i \in DOMAIN q : p[i] = q[i]
  BY <1>1
<1>3. ASSUME NEW i \in DOMAIN q PROVE OutputOK(p, i, g, s)
  <2>1. OutputOK(q, i, g, s)
    BY DEF QueueOK
  <2>2. i = 1 \/ i - 1 \in DOMAIN q
    OBVIOUS
  <2> QED
    BY <1>2, <2>1, <2>2 DEF OutputOK
<1>4. OutputOK(p, Len(q) + 1, g, s)
  BY <1>1
<1> QED
  BY <1>1, <1>2, <1>3, <1>4 DEF QueueOK

(* An unended queue does not depend on the status. *)
LEMMA UnendedOK ==
  ASSUME NEW q, NEW g, NEW s, NEW t, Unended(q), QueueOK(q, g, s)
  PROVE  QueueOK(q, g, t)
BY DEF QueueOK, OutputOK, Unended

(* What step() puts for a request: an output, and the end mark after the last. *)
LEMMA MarkedOK ==
  ASSUME NEW q \in Seq(Out), NEW x \in Out, NEW g \in Nat, NEW s, QueueOK(q, g, s), Unended(q),
         x.fin # "end", OutputOK(Append(q, x), Len(q) + 1, g, s)
  PROVE  /\ q \o Marked(x) \in Seq(Out) /\ QueueOK(q \o Marked(x), g, s)
         /\ x.fin = "no" => Unended(q \o Marked(x)) /\ Len(q \o Marked(x)) = Len(q) + 1
<1>1. PICK p : p = Append(q, x)
  OBVIOUS
<1>2. p \in Seq(Out) /\ QueueOK(p, g, s)
  BY <1>1, AppendOutput
<1>3. Len(p) = Len(q) + 1 /\ p[Len(p)] = x /\ DOMAIN p = DOMAIN q \cup {Len(p)}
      /\ \A i \in DOMAIN q : p[i] = q[i]
  BY <1>1
<1>4. CASE x.fin = "no"
  <2>1. q \o Marked(x) = p
    BY <1>1, <1>4 DEF Marked
  <2>2. Unended(p)
    BY <1>3, <1>4 DEF Unended
  <2> QED
    BY <1>2, <1>3, <2>1, <2>2
<1>5. CASE x.fin # "no"
  <2>1. q \o Marked(x) = Append(p, EndOf)
    <3>1. Marked(x) = <<x, EndOf>>
      BY <1>5 DEF Marked
    <3>2. q \o <<x, EndOf>> = Append(Append(q, x), EndOf)
      OBVIOUS
    <3> QED
      BY <1>1, <3>1, <3>2
  <2>2. EndOf \in Out /\ EndOf.fin = "end"
    BY DEF EndOf, Out, Reasons
  <2>3. PICK w : w = Append(p, EndOf)
    OBVIOUS
  <2>4. w[Len(p) + 1] = EndOf /\ w[Len(p)] = x
    BY <1>2, <1>3, <2>3
  <2>5. Len(p) + 1 # 1 /\ Len(p) + 1 - 1 = Len(p)
    BY <1>3
  <2>6. OutputOK(w, Len(p) + 1, g, s)
    BY <1>5, <2>2, <2>4, <2>5 DEF OutputOK
  <2> QED
    BY <1>2, <1>5, <2>1, <2>2, <2>3, <2>6, AppendOutput
<1> QED
  BY <1>4, <1>5

LEMMA FlattenNone == FlattenSeq(<<>>) = <<>>
BY DEF FlattenSeq

LEMMA FlattenOne ==
  ASSUME NEW x
  PROVE  FlattenSeq(<<x>>) = x
<1>1. PICK f : f = [i \in 1..1 |-> x]
  OBVIOUS
<1>2. f = [i \in 1..1 |-> IF i = 1 THEN <<x>>[i] ELSE f[i - 1] \o <<x>>[i]]
  BY <1>1
<1>3. 1..Len(<<x>>) = 1..1 /\ Len(<<x>>) = 1
  OBVIOUS
<1>4. PICK c : c = CHOOSE h : h = [i \in 1..Len(<<x>>) |->
                             IF i = 1 THEN <<x>>[i] ELSE h[i - 1] \o <<x>>[i]]
  OBVIOUS
<1>5. c = [i \in 1..Len(<<x>>) |-> IF i = 1 THEN <<x>>[i] ELSE c[i - 1] \o <<x>>[i]]
  BY <1>2, <1>3, <1>4
<1>6. c[1] = x
  BY <1>3, <1>5
<1>7. FlattenSeq(<<x>>) = c[Len(<<x>>)]
  BY <1>3, <1>4 DEF FlattenSeq
<1> QED
  BY <1>3, <1>6, <1>7

----------------------------------------------------------------------------
(* One client, one step.                                                    *)

LEMMA Shifted ==
  ASSUME NEW g \in Nat, NEW i \in Nat \ {0}
  PROVE  i + 1 # 1 /\ g + (i + 1) = (g + 1) + i /\ g + (i + 1) - 1 = (g + 1) + i - 1
OBVIOUS

LEMMA DeliverOK ==
  ASSUME NEW q \in Seq(Out), q # <<>>, NEW h \in Heard, NEW s, NEW t \in Nat, NEW tracked \in BOOLEAN,
         ClientOK("streaming", h, q, s, t, tracked),
         NEW e, e = [got |-> h.got + (IF Head(q).fin \in {"no", "stop", "length"} THEN 1 ELSE 0),
                     fin |-> Head(q).fin, n |-> Head(q).n]
  PROVE  /\ Head(q).fin = "no" =>
              ClientOK("streaming", e, Tail(q), s, t, tracked) /\ Tail(q) \in Seq(Out) /\ e \in Heard
         /\ Head(q).fin # "no" /\ Head(q) # EndOf =>
              ClientOK("served", e, <<>>, s, t, tracked) /\ e \in Heard
         /\ Head(q) = EndOf => ClientOK("served", h, <<>>, s, t, tracked)
<1>1. PICK x : x = q[1]
  OBVIOUS
<1>2. /\ Head(q) = x /\ x \in Out /\ 1 \in DOMAIN q /\ Len(q) \in Nat \ {0}
  BY <1>1
<1>3. /\ h.got \in Nat /\ h.n = h.got /\ h.fin = "no" /\ QueueOK(q, h.got, s)
      /\ tracked => Unended(q) /\ t = h.got + Len(q)
  BY DEF ClientOK, Heard
<1>4. OutputOK(q, 1, h.got, s)
  BY <1>2, <1>3 DEF QueueOK
<1>5. /\ x.fin \in {"no", "stop", "length"} => x.n = h.got + 1
      /\ x.fin \in {"stop", "length"} => s = x.fin
      /\ x.fin = "length" => x.n = MaxTokens
      /\ x.fin = "error" => (x.n = h.got \/ x.n = h.got + 1) /\ s = "aborted"
      /\ x.fin = "end" => s = "aborted"
  BY <1>1, <1>2, <1>3, <1>4 DEF OutputOK, Out
<1>6. x.fin # "no" => ~tracked
  BY <1>1, <1>2, <1>3 DEF Unended
<1>7. e = [got |-> h.got + (IF x.fin \in {"no", "stop", "length"} THEN 1 ELSE 0), fin |-> x.fin, n |-> x.n]
  BY <1>2
<1>8. e \in Heard
  BY <1>2, <1>3, <1>7 DEF Heard, Out, Reasons
<1>9. CASE x.fin = "no"
  <2>1. PICK p : p = Tail(q)
    OBVIOUS
  <2>2. p \in Seq(Out) /\ Len(p) = Len(q) - 1 /\ \A i \in DOMAIN p : i + 1 \in DOMAIN q /\ p[i] = q[i + 1]
    BY <2>1
  <2>3. e.got = h.got + 1 /\ e.fin = "no" /\ e.n = e.got
    BY <1>5, <1>7, <1>9
  <2>4. ASSUME NEW i \in DOMAIN p PROVE OutputOK(p, i, h.got + 1, s)
    <3>1. OutputOK(q, i + 1, h.got, s) /\ p[i] = q[i + 1] /\ i \in Nat \ {0}
      BY <1>3, <2>2 DEF QueueOK
    <3>2. i = 1 => q[i + 1 - 1].fin = "no"
      BY <1>1, <1>9
    <3>3. i # 1 => p[i - 1] = q[i + 1 - 1]
      <4>1. i # 1 => i - 1 \in DOMAIN p /\ i - 1 + 1 = i + 1 - 1
        BY <2>2
      <4> QED
        BY <2>2, <4>1
    <3>4. PICK g \in Nat, j \in Nat : g = h.got /\ j = i + 1
      BY <1>3, <3>1
    <3>5. j # 1 /\ g + j = (g + 1) + i /\ g + j - 1 = (g + 1) + i - 1
      BY <3>1, <3>4, Shifted
    <3>6. /\ q[j].fin \in {"no", "stop", "length"} => q[j].n = g + j
          /\ q[j].fin \in {"stop", "length"} => s = q[j].fin
          /\ q[j].fin = "length" => q[j].n = MaxTokens
          /\ q[j].fin = "error" => (q[j].n = g + j - 1 \/ q[j].n = g + j) /\ s = "aborted"
          /\ q[j].fin = "end" => q[j] = EndOf
          /\ q[j].fin = "end" /\ q[j - 1].fin = "no" => s = "aborted"
      BY <3>1, <3>4 DEF OutputOK
    <3>7. p[i] = q[j] /\ (i = 1 \/ p[i - 1].fin = "no" => q[j - 1].fin = "no")
      BY <3>1, <3>2, <3>3, <3>4
    <3>8. OutputOK(p, i, g + 1, s)
      BY <3>5, <3>6, <3>7 DEF OutputOK
    <3> QED
      BY <3>4, <3>8
  <2>5. tracked => Unended(p) /\ t = e.got + Len(p)
    <3>1. tracked => Unended(p)
      BY <1>3, <2>2 DEF Unended
    <3>2. PICK g \in Nat, l \in Nat \ {0} : g = h.got /\ l = Len(q)
      BY <1>2, <1>3
    <3>3. g + l = (g + 1) + (l - 1)
      BY <3>2
    <3>4. Len(p) = l - 1 /\ e.got = g + 1
      BY <2>2, <2>3, <3>2
    <3> QED
      BY <1>3, <3>1, <3>2, <3>3, <3>4
  <2>6. ClientOK("streaming", e, p, s, t, tracked)
    BY <2>3, <2>4, <2>5 DEF ClientOK, QueueOK
  <2>7. Head(q) # EndOf
    BY <1>2, <1>9 DEF EndOf
  <2> QED
    BY <1>2, <1>8, <1>9, <2>1, <2>2, <2>6, <2>7
<1>10. CASE x.fin # "no" /\ x # EndOf
  <2>1. x.fin \in {"stop", "length", "error"}
    BY <1>2, <1>4, <1>10, <1>1 DEF OutputOK, Out, Reasons
  <2>2. /\ e.n = e.got \/ (e.fin = "error" /\ e.n = e.got + 1)
        /\ e.fin = x.fin /\ (e.fin = "length" => e.got = MaxTokens)
    BY <1>3, <1>5, <1>7, <2>1
  <2>3. s = IF e.fin \in {"stop", "length"} THEN e.fin ELSE "aborted"
    BY <1>5, <2>1, <2>2
  <2>4. ClientOK("served", e, <<>>, s, t, tracked)
    BY <1>6, <1>10, <2>2, <2>3 DEF ClientOK
  <2> QED
    BY <1>2, <1>8, <1>10, <2>4
<1>11. CASE x = EndOf
  <2>1. x.fin = "end"
    BY <1>11 DEF EndOf
  <2>2. ClientOK("served", h, <<>>, s, t, tracked)
    BY <1>3, <1>5, <1>6, <2>1 DEF ClientOK
  <2> QED
    BY <1>2, <1>11, <2>1, <2>2
<1> QED
  BY <1>9, <1>10, <1>11

LEMMA AbortOK ==
  ASSUME NEW q \in Seq(Out), NEW h \in Heard, NEW s, NEW t \in Nat,
         ClientOK("streaming", h, q, s, t, TRUE)
  PROVE  Append(q, EndOf) \in Seq(Out) /\ ClientOK("streaming", h, Append(q, EndOf), "aborted", t, FALSE)
<1>1. EndOf \in Out /\ EndOf.fin = "end" /\ h.got \in Nat
  BY DEF EndOf, Out, Reasons, Heard
<1>2. h.fin = "no" /\ h.n = h.got /\ QueueOK(q, h.got, "aborted")
  BY UnendedOK DEF ClientOK
<1>3. PICK w : w = Append(q, EndOf)
  OBVIOUS
<1>4. w[Len(q) + 1] = EndOf
  BY <1>3
<1>5. OutputOK(w, Len(q) + 1, h.got, "aborted")
  BY <1>1, <1>4 DEF OutputOK
<1>6. w \in Seq(Out) /\ QueueOK(w, h.got, "aborted")
  BY <1>1, <1>2, <1>3, <1>5, AppendOutput
<1> QED
  BY <1>2, <1>3, <1>6 DEF ClientOK

LEMMA OneOff ==
  ASSUME NEW g \in Nat, NEW l \in Nat, NEW n \in {g + l, (g + l) + 1}
  PROVE  n = g + (l + 1) - 1 \/ n = g + (l + 1)
<1>1. g + l = g + (l + 1) - 1 /\ (g + l) + 1 = g + (l + 1)
  OBVIOUS
<1> QED
  BY <1>1

(* What the error handler tells a client, with the token that was not sent or without. *)
LEMMA ToldOK ==
  ASSUME NEW q \in Seq(Out), NEW h \in Heard, NEW s, NEW t \in Nat,
         ClientOK("streaming", h, q, s, t, TRUE),
         NEW n \in {t, t + 1}, NEW o, o = <<[fin |-> "error", n |-> n], EndOf>>
  PROVE  q \o o \in Seq(Out) /\ ClientOK("streaming", h, q \o o, "aborted", n, FALSE)
<1>1. PICK x : x = [fin |-> "error", n |-> n]
  OBVIOUS
<1>2. x \in Out /\ x.fin = "error" /\ x.n = n /\ h.got \in Nat
  BY <1>1 DEF Out, Reasons, Heard
<1>3. /\ h.fin = "no" /\ h.n = h.got /\ QueueOK(q, h.got, "aborted") /\ Unended(q)
      /\ t = h.got + Len(q)
  BY UnendedOK DEF ClientOK
<1>4. o = Marked(x)
  BY <1>1, <1>2 DEF Marked
<1>5. PICK w : w = Append(q, x)
  OBVIOUS
<1>6. w[Len(q) + 1] = x
  BY <1>5
<1>7. n = h.got + (Len(q) + 1) - 1 \/ n = h.got + (Len(q) + 1)
  <2>1. PICK g \in Nat, l \in Nat : g = h.got /\ l = Len(q)
    BY <1>2
  <2>2. n \in {g + l, (g + l) + 1}
    BY <1>3, <2>1
  <2>3. n = g + (l + 1) - 1 \/ n = g + (l + 1)
    BY <2>2, OneOff
  <2> QED
    BY <2>1, <2>3
<1>8. OutputOK(w, Len(q) + 1, h.got, "aborted")
  BY <1>2, <1>6, <1>7 DEF OutputOK
<1>9. q \o Marked(x) \in Seq(Out) /\ QueueOK(q \o Marked(x), h.got, "aborted")
  BY <1>2, <1>3, <1>5, <1>8, MarkedOK
<1> QED
  BY <1>3, <1>4, <1>9 DEF ClientOK

(* What step() makes of a response of a request that is tracked. *)
LEMMA AnsweredOK ==
  ASSUME NEW q \in Seq(Out), NEW h \in Heard, NEW s, NEW t \in Nat,
         ClientOK("streaming", h, q, s, t, TRUE),
         NEW x \in Response, x.fin = "error" => t = 0, x.fin = "length" => t + 1 = MaxTokens,
         NEW u, u = IF x.fin = "error" THEN t ELSE t + 1,
         NEW o, o = [fin |-> x.fin, n |-> IF x.fin = "error" THEN 0 ELSE u],
         NEW p, p = IF x.fin = "no" THEN s ELSE IF x.fin = "error" THEN "aborted" ELSE x.fin,
         NEW k, k = (x.fin = "no")
  PROVE  /\ q \o Marked(o) \in Seq(Out)
         /\ ClientOK("streaming", h, q \o Marked(o), p, u, k)
<1>1. /\ o \in Out /\ o.fin = x.fin /\ o.n = (IF x.fin = "error" THEN 0 ELSE t + 1)
      /\ x.fin \in {"no", "stop", "length", "error"} /\ h.got \in Nat
  BY DEF Out, Reasons, Heard, Response
<1>2. /\ h.fin = "no" /\ h.n = h.got /\ QueueOK(q, h.got, p) /\ Unended(q)
      /\ t = h.got + Len(q)
  BY UnendedOK DEF ClientOK
<1>3. PICK w : w = Append(q, o)
  OBVIOUS
<1>4. w[Len(q) + 1] = o
  BY <1>3
<1>5. OutputOK(w, Len(q) + 1, h.got, p)
  BY <1>1, <1>2, <1>4 DEF OutputOK
<1>6. /\ q \o Marked(o) \in Seq(Out) /\ QueueOK(q \o Marked(o), h.got, p)
      /\ o.fin = "no" => Unended(q \o Marked(o)) /\ Len(q \o Marked(o)) = Len(q) + 1
  BY <1>1, <1>2, <1>3, <1>5, MarkedOK
<1>7. x.fin = "no" => u = h.got + (Len(q) + 1)
  BY <1>1, <1>2
<1> QED
  BY <1>1, <1>2, <1>6, <1>7 DEF ClientOK

----------------------------------------------------------------------------
(* What the scheduler counts and tells.                                     *)

(* The tokens of a request are those of its row. *)
TokensOK ==
  /\ tokens \in [Requests -> Nat]
  /\ \A r \in requests \ Of(batch) :
       tokens[r] = 0 \/ (loop = "process" /\ r \in Of(responses))
  /\ \A x \in ToSet(batch) :
       x.n < MaxTokens /\ x.n = IF loop = "process" THEN tokens[x.r] + 1 ELSE tokens[x.r]
  /\ loop = "process" => \A x \in ToSet(responses) :
       /\ x.fin = "error" => tokens[x.r] = 0
       /\ x.fin = "length" => tokens[x.r] + 1 = MaxTokens

ClientsOK ==
  /\ status \in [Requests -> {"waiting", "running", "aborted", "stop", "length"}]
  /\ heard \in [Requests -> Heard] /\ queue \in [Requests -> Seq(Out)]
  /\ \A r \in Requests :
       ClientOK(client[r], heard[r], queue[r], status[r], tokens[r], r \in requests)

AnswersOK == TokensOK /\ ClientsOK

LEMMA TokensKept ==
  ASSUME TokensOK, tokens' = tokens, loop # "process", loop' # "process",
         \A r \in requests' \ Of(batch') : r \in requests \ Of(batch) \/ tokens[r] = 0,
         \A y \in ToSet(batch') :
           y \in ToSet(batch) \/ (y.n = 0 /\ y.r \in Requests /\ tokens[y.r] = 0)
  PROVE  TokensOK'
<1>1. MaxTokens \in Nat \ {0}
  BY MLLMAssumptions
<1>2. /\ tokens \in [Requests -> Nat]
      /\ \A r \in requests \ Of(batch) : tokens[r] = 0
      /\ \A x \in ToSet(batch) : x.n < MaxTokens /\ x.n = tokens[x.r]
  BY DEF TokensOK
<1>3. \A r \in requests' \ Of(batch') : tokens'[r] = 0
  BY <1>2
<1>4. ASSUME NEW y \in ToSet(batch')
      PROVE  y.n < MaxTokens /\ y.n = tokens'[y.r]
  BY <1>1, <1>2
<1> QED
  BY <1>2, <1>3, <1>4 DEF TokensOK

LEMMA ClientsKept ==
  ASSUME ClientsOK, UNCHANGED <<outputs, status, requests>>
  PROVE  ClientsOK'
BY DEF ClientsOK, outputs

LEMMA TrackedFacts ==
  ASSUME Agreed
  PROVE  /\ requests \subseteq Requests /\ running \subseteq requests
         /\ ToSet(waiting) \subseteq requests
         /\ batch \in Seq(Row) /\ Of(batch) \subseteq Requests
<1>1. batch \in Seq(Row)
  BY DEF Agreed, InOnePlace, Placed
<1>2. ASSUME NEW x \in ToSet(batch) PROVE x.r \in Requests
  <2>1. PICK i \in DOMAIN batch : batch[i] = x
    BY <1>2 DEF ToSet
  <2>2. batch[i] \in Row
    BY <1>1
  <2> QED
    BY <2>1, <2>2 DEF Row
<1>3. Of(batch) \subseteq Requests
  BY <1>2 DEF Of
<1>4. ToSet(waiting) \subseteq Requests
  BY DEF Agreed, TrackedOK, ToSet
<1> QED
  BY <1>1, <1>3, <1>4 DEF Agreed, TrackedOK

(* The clients other than r are as before. *)
LEMMA OneClient ==
  ASSUME ClientsOK, NEW r \in Requests,
         \A q \in Requests \ {r} :
           /\ client'[q] = client[q] /\ heard'[q] = heard[q] /\ queue'[q] = queue[q]
           /\ status'[q] = status[q] /\ tokens'[q] = tokens[q]
           /\ q \in requests' <=> q \in requests,
         status' \in [Requests -> {"waiting", "running", "aborted", "stop", "length"}],
         heard' \in [Requests -> Heard], queue' \in [Requests -> Seq(Out)],
         ClientOK(client'[r], heard'[r], queue'[r], status'[r], tokens'[r], r \in requests')
  PROVE  ClientsOK'
<1>1. ASSUME NEW q \in Requests
      PROVE  ClientOK(client'[q], heard'[q], queue'[q], status'[q], tokens'[q], q \in requests')
  <2>1. CASE q = r
    BY <2>1
  <2>2. CASE q # r
    <3>1. ClientOK(client[q], heard[q], queue[q], status[q], tokens[q], q \in requests)
      BY DEF ClientsOK
    <3>2. (q \in requests') = (q \in requests)
      BY <2>2
    <3> QED
      BY <2>2, <3>1, <3>2
  <2> QED
    BY <2>1, <2>2
<1> QED
  BY <1>1 DEF ClientsOK

LEMMA AddAnswers ==
  ASSUME Agreed, AnswersOK, NEW r \in Requests, AddRequest(r)
  PROVE  AnswersOK'
<1>1. /\ loop = "idle" /\ client[r] = "new" /\ requests' = requests \cup {r}
      /\ client' = [client EXCEPT ![r] = "streaming"]
      /\ UNCHANGED <<status, tokens, queue, heard, batch, loop>>
  BY DEF AddRequest, generator
<1>2. ClientOK(client[r], heard[r], queue[r], status[r], tokens[r], r \in requests)
  BY DEF AnswersOK, ClientsOK
<1>3. heard[r] = [got |-> 0, fin |-> "no", n |-> 0] /\ queue[r] = <<>> /\ tokens[r] = 0
  BY <1>1, <1>2 DEF ClientOK
<1>4. ClientOK("streaming", heard[r], queue[r], status[r], tokens[r], TRUE)
  <2>1. PICK q : q = queue[r]
    OBVIOUS
  <2>2. DOMAIN q = {} /\ Len(q) = 0
    BY <1>3, <2>1
  <2>3. QueueOK(q, 0, status[r]) /\ Unended(q)
    BY <2>2 DEF QueueOK, Unended
  <2> QED
    BY <1>3, <2>1, <2>2, <2>3 DEF ClientOK
<1>5. client'[r] = "streaming" /\ \A q \in Requests \ {r} : client'[q] = client[q]
  BY <1>1 DEF Agreed, TrackedOK
<1>6. (r \in requests') = TRUE /\ \A q \in Requests \ {r} : q \in requests' <=> q \in requests
  BY <1>1
<1>7. ClientOK(client'[r], heard'[r], queue'[r], status'[r], tokens'[r], r \in requests')
  BY <1>1, <1>4, <1>5, <1>6
<1>8. ClientsOK'
  BY <1>1, <1>5, <1>6, <1>7, OneClient DEF AnswersOK, ClientsOK
<1>9. TokensOK'
  BY <1>1, <1>3, TokensKept DEF AnswersOK
<1> QED
  BY <1>8, <1>9 DEF AnswersOK

LEMMA DeliverAnswers ==
  ASSUME Agreed, AnswersOK, NEW r \in Requests, Deliver(r)
  PROVE  AnswersOK'
<1>1. PICK q, h, s, t, k, e :
        /\ q = queue[r] /\ h = heard[r] /\ s = status[r] /\ t = tokens[r] /\ k = (r \in requests)
        /\ e = [got |-> h.got + (IF Head(q).fin \in {"no", "stop", "length"} THEN 1 ELSE 0),
                fin |-> Head(q).fin, n |-> Head(q).n]
  OBVIOUS
<1>2. /\ loop = "idle" /\ client[r] = "streaming" /\ q # <<>>
      /\ IF Head(q) = EndOf THEN heard' = heard ELSE heard' = [heard EXCEPT ![r] = e]
      /\ IF Head(q).fin = "no"
         THEN queue' = [queue EXCEPT ![r] = Tail(q)] /\ client' = client
         ELSE queue' = [queue EXCEPT ![r] = <<>>] /\ client' = [client EXCEPT ![r] = "served"]
      /\ UNCHANGED <<requests, status, tokens, batch, loop>>
  BY <1>1 DEF Deliver, tracking, generator
<1>3. /\ q \in Seq(Out) /\ h \in Heard /\ t \in Nat /\ k \in BOOLEAN
      /\ ClientOK("streaming", h, q, s, t, k)
      /\ queue \in [Requests -> Seq(Out)] /\ heard \in [Requests -> Heard]
      /\ client \in [Requests -> {"new", "streaming", "served", "gone"}]
  BY <1>1, <1>2 DEF AnswersOK, ClientsOK, TokensOK, Agreed, TrackedOK
<1>4. /\ Head(q).fin = "no" =>
           ClientOK("streaming", e, Tail(q), s, t, k) /\ Tail(q) \in Seq(Out) /\ e \in Heard
      /\ Head(q).fin # "no" /\ Head(q) # EndOf =>
           ClientOK("served", e, <<>>, s, t, k) /\ e \in Heard
      /\ Head(q) = EndOf => ClientOK("served", h, <<>>, s, t, k)
  <2>1. q \in Seq(Out) /\ h \in Heard /\ t \in Nat /\ k \in BOOLEAN
    BY <1>3
  <2>2. q # <<>>
    BY <1>2
  <2>3. ClientOK("streaming", h, q, s, t, k)
    BY <1>3
  <2>4. e = [got |-> h.got + (IF Head(q).fin \in {"no", "stop", "length"} THEN 1 ELSE 0),
             fin |-> Head(q).fin, n |-> Head(q).n]
    BY <1>1
  <2> QED
    BY <2>1, <2>2, <2>3, <2>4, DeliverOK
<1>5. \A p \in Requests \ {r} : client'[p] = client[p] /\ heard'[p] = heard[p] /\ queue'[p] = queue[p]
  BY <1>2, <1>3
<1>6. EndOf.fin # "no" /\ <<>> \in Seq(Out)
  BY DEF EndOf
<1>7. queue' \in [Requests -> Seq(Out)] /\ heard' \in [Requests -> Heard]
  <2>1. queue' \in [Requests -> Seq(Out)]
    BY <1>2, <1>3, <1>4, <1>6
  <2>2. heard' \in [Requests -> Heard]
    BY <1>2, <1>3, <1>4, <1>6
  <2> QED
    BY <2>1, <2>2
<1>8. ClientOK(client'[r], heard'[r], queue'[r], s, t, k)
  <2>1. CASE Head(q).fin = "no"
    BY <1>2, <1>3, <1>4, <1>6, <2>1
  <2>2. CASE Head(q).fin # "no" /\ Head(q) # EndOf
    BY <1>2, <1>3, <1>4, <2>2
  <2>3. CASE Head(q) = EndOf
    BY <1>1, <1>2, <1>3, <1>4, <1>6, <2>3
  <2> QED
    BY <2>1, <2>2, <2>3
<1>9. ClientsOK'
  <2>1. status' \in [Requests -> {"waiting", "running", "aborted", "stop", "length"}]
    BY <1>2 DEF AnswersOK, ClientsOK
  <2>2. ClientOK(client'[r], heard'[r], queue'[r], status'[r], tokens'[r], r \in requests')
    BY <1>1, <1>2, <1>8
  <2> QED
    BY <1>2, <1>5, <1>7, <2>1, <2>2, OneClient DEF AnswersOK
<1>10. TokensOK'
  BY <1>2, TokensKept DEF AnswersOK
<1> QED
  BY <1>9, <1>10 DEF AnswersOK

LEMMA AbortAnswers ==
  ASSUME Agreed, AnswersOK, NEW r \in Requests, AbortRequest(r) \/ Leave(r)
  PROVE  AnswersOK'
<1>1. /\ loop = "idle" /\ requests' \subseteq requests /\ requests \ requests' \subseteq {r}
      /\ UNCHANGED <<tokens, heard, batch, loop>>
  BY DEF AbortRequest, Leave, Untrack, tracking
<1>2. TokensOK'
  BY <1>1, TokensKept DEF AnswersOK
<1>3. PICK q, h, s, t : q = queue[r] /\ h = heard[r] /\ s = status[r] /\ t = tokens[r]
  OBVIOUS
<1>4. /\ q \in Seq(Out) /\ h \in Heard /\ t \in Nat
      /\ ClientOK(client[r], h, q, s, t, r \in requests)
      /\ queue \in [Requests -> Seq(Out)] /\ heard \in [Requests -> Heard]
      /\ status \in [Requests -> {"waiting", "running", "aborted", "stop", "length"}]
      /\ client \in [Requests -> {"new", "streaming", "served", "gone"}]
  BY <1>3 DEF AnswersOK, ClientsOK, TokensOK, Agreed, TrackedOK
<1>5. CASE AbortRequest(r)
  <2>1. /\ r \in requests /\ requests' = requests \ {r} /\ status' = [status EXCEPT ![r] = "aborted"]
        /\ queue' = [queue EXCEPT ![r] = IF client[r] = "streaming" THEN Append(q, EndOf) ELSE q]
        /\ client' = client
    BY <1>3, <1>5 DEF AbortRequest, Untrack
  <2>2. client[r] = "streaming" /\ ClientOK("streaming", h, q, s, t, TRUE)
    <3>1. (r \in requests) = TRUE
      BY <2>1
    <3>2. client[r] = "streaming"
      BY <1>4, <3>1 DEF ClientOK
    <3> QED
      BY <1>4, <3>1, <3>2
  <2>3. Append(q, EndOf) \in Seq(Out) /\ ClientOK("streaming", h, Append(q, EndOf), "aborted", t, FALSE)
    BY <1>4, <2>2, AbortOK
  <2>4. queue' \in [Requests -> Seq(Out)] /\ queue'[r] = Append(q, EndOf) /\ status'[r] = "aborted"
        /\ status' \in [Requests -> {"waiting", "running", "aborted", "stop", "length"}]
        /\ \A p \in Requests \ {r} : queue'[p] = queue[p] /\ status'[p] = status[p]
    BY <1>4, <2>1, <2>2, <2>3
  <2>5. (r \in requests') = FALSE
    BY <2>1
  <2>6. ClientOK(client'[r], heard'[r], queue'[r], status'[r], tokens'[r], r \in requests')
    BY <1>1, <1>3, <2>1, <2>2, <2>3, <2>4, <2>5
  <2>7. ClientsOK'
    BY <1>1, <1>4, <2>1, <2>4, <2>6, OneClient DEF AnswersOK
  <2> QED
    BY <1>2, <2>7 DEF AnswersOK
<1>6. CASE Leave(r)
  <2>1. /\ r \notin requests' /\ client' = [client EXCEPT ![r] = "gone"]
        /\ queue' = [queue EXCEPT ![r] = <<>>]
        /\ status' = status \/ status' = [status EXCEPT ![r] = "aborted"]
    BY <1>6 DEF Leave, Untrack, tracking
  <2>2. queue' \in [Requests -> Seq(Out)] /\ client'[r] = "gone"
        /\ status' \in [Requests -> {"waiting", "running", "aborted", "stop", "length"}]
        /\ \A p \in Requests \ {r} : queue'[p] = queue[p] /\ status'[p] = status[p] /\ client'[p] = client[p]
    BY <1>4, <2>1
  <2>3. (r \in requests') = FALSE
    BY <2>1
  <2>4. ClientOK(client'[r], heard'[r], queue'[r], status'[r], tokens'[r], r \in requests')
    BY <2>2, <2>3 DEF ClientOK
  <2>5. ClientsOK'
    BY <1>1, <1>4, <2>2, <2>4, OneClient DEF AnswersOK
  <2> QED
    BY <1>2, <2>5 DEF AnswersOK
<1> QED
  BY <1>5, <1>6

LEMMA StartAnswers ==
  ASSUME Agreed, AnswersOK, StartStep
  PROVE  AnswersOK'
<1>1. /\ loop = "idle" /\ loop' = "schedule" /\ RemoveUids(removals)
      /\ UNCHANGED <<outputs, status, requests, tokens>>
  BY DEF StartStep, tracking, outputs
<1>2. Of(batch') = Of(batch) \ removals /\ ToSet(batch') \subseteq ToSet(batch)
  BY <1>1, RemovedFacts DEF Agreed, InOnePlace
<1>3. removals \cap requests = {}
  BY DEF Agreed, TrackedOK
<1>4. TokensOK'
  BY <1>1, <1>2, <1>3, TokensKept DEF AnswersOK
<1> QED
  BY <1>1, <1>4, ClientsKept DEF AnswersOK

LEMMA ScheduleAnswers ==
  ASSUME Agreed, AnswersOK, ScheduleWaiting
  PROVE  AnswersOK'
<1>1. PICK n, t :
        /\ n = IF Cardinality(running) < MaxNumSeqs THEN MaxNumSeqs - Cardinality(running) ELSE 0
        /\ t = Take(waiting, n)
  OBVIOUS
<1>2. /\ loop = "schedule" /\ loop' \in {"idle", "prefill", "next"}
      /\ status' = [r \in Requests |-> IF r \in ToSet(t) THEN "running" ELSE status[r]]
      /\ UNCHANGED <<requests, tokens, queue, client, heard, batch>>
  BY <1>1 DEF ScheduleWaiting, outputs
<1>3. TokensOK'
  BY <1>2, TokensKept DEF AnswersOK
<1>4. ToSet(t) \subseteq requests
  <2>1. waiting \in Seq(Requests) /\ IsFiniteSet(running)
    BY DEF Agreed, TrackedOK
  <2>2. MaxNumSeqs \in Nat /\ Cardinality(running) \in Nat
    BY <2>1, FS_CardinalityType, MLLMAssumptions
  <2>3. n \in Nat
    BY <1>1, <2>2
  <2>4. ToSet(t) \subseteq ToSet(waiting)
    <3>1. ToSet(waiting) = ToSet(Take(waiting, n))
                       \cup ToSet(SubSeq(waiting, Len(Take(waiting, n)) + 1, Len(waiting)))
      BY <2>1, <2>3, TakeFacts
    <3> QED
      BY <1>1, <3>1
  <2> QED
    BY <2>4, TrackedFacts
<1>5. ASSUME NEW r \in Requests
      PROVE  ClientOK(client[r], heard[r], queue[r], status'[r], tokens[r], r \in requests)
  <2>1. ClientOK(client[r], heard[r], queue[r], status[r], tokens[r], r \in requests)
    BY DEF AnswersOK, ClientsOK
  <2>2. CASE r \notin ToSet(t)
    BY <1>2, <2>1, <2>2
  <2>3. CASE r \in ToSet(t)
    <3>1. (r \in requests) = TRUE
      BY <1>4, <2>3
    <3>2. client[r] = "streaming" /\ Unended(queue[r]) /\ QueueOK(queue[r], heard[r].got, status[r])
      BY <2>1, <3>1 DEF ClientOK
    <3>3. QueueOK(queue[r], heard[r].got, status'[r])
      BY <3>2, UnendedOK
    <3> QED
      BY <2>1, <3>1, <3>2, <3>3 DEF ClientOK
  <2> QED
    BY <2>2, <2>3
<1>6. status' \in [Requests -> {"waiting", "running", "aborted", "stop", "length"}]
  BY <1>2 DEF AnswersOK, ClientsOK
<1>7. ClientsOK'
  BY <1>2, <1>5, <1>6 DEF AnswersOK, ClientsOK
<1> QED
  BY <1>3, <1>7 DEF AnswersOK

(* The prefill tells nobody anything, and what joins the batch has no token. *)
LEMMA PrefillAnswers ==
  ASSUME Agreed, AnswersOK, loop \in {"prefill", "next", "decode"}, loop' # "process",
         UNCHANGED <<tracking, outputs>>,
         ToSet(batch) \subseteq ToSet(batch'),
         \A y \in ToSet(batch') : y \in ToSet(batch) \/ (y.n = 0 /\ y.r \in Everything \ Of(batch))
  PROVE  AnswersOK'
<1>1. Everything = running
  BY MovingFacts DEF Moving
<1>2. \A r \in requests \ Of(batch) : tokens[r] = 0
  BY DEF AnswersOK, TokensOK
<1>3. ASSUME NEW y \in ToSet(batch'), y \notin ToSet(batch)
      PROVE  y.n = 0 /\ y.r \in Requests /\ tokens[y.r] = 0
  BY <1>1, <1>2, <1>3, TrackedFacts
<1>4. Of(batch) \subseteq Of(batch')
  BY DEF Of
<1>5. UNCHANGED <<tokens, requests, status>>
  BY DEF tracking, outputs
<1>6. TokensOK'
  BY <1>3, <1>4, <1>5, TokensKept DEF AnswersOK
<1>7. ClientsOK'
  BY <1>5, ClientsKept DEF AnswersOK
<1> QED
  BY <1>6, <1>7 DEF AnswersOK

LEMMA PromptAnswers ==
  ASSUME Agreed, AnswersOK, ~inlined',
         PrefillChunk \/ FinishPrefill \/ StartPrefill \/ PreprocessFails \/ NoLongPrompt
           \/ NewBatch \/ ExtendBatch
  PROVE  AnswersOK'
<1>1. /\ loop \in {"prefill", "next"} /\ loop' # "process"
      /\ UNCHANGED <<tracking, outputs>>
  BY DEF PrefillChunk, FinishPrefill, StartPrefill, PreprocessFails, NoLongPrompt, NewBatch,
         ExtendBatch, Decode, prefillKept
<1>2. CASE batch' = batch
  BY <1>1, <1>2, PrefillAnswers
<1>3. CASE FinishPrefill
  <2>1. /\ ToSet(batch') = ToSet(batch) \cup {[r |-> partial.r, n |-> 0]}
        /\ partial.r \in Prefilling(partial)
    BY <1>3, FinishPrefillAgreed
  <2>2. partial.r \in Everything \ Of(batch)
    BY <2>1 DEF Agreed, InOnePlace, Placed, Everything, Held
  <2> QED
    BY <1>1, <2>1, <2>2, PrefillAnswers
<1>4. CASE \E t \in Seq(Requests) : ToSet(t) \subseteq ToSet(unprocessed) /\ batch' = batch \o Rows(t)
  <2>1. PICK t \in Seq(Requests) : ToSet(t) \subseteq ToSet(unprocessed) /\ batch' = batch \o Rows(t)
    BY <1>4
  <2>2. Rows(t) \in Seq(Row) /\ Of(Rows(t)) = ToSet(t) /\ \A x \in ToSet(Rows(t)) : x.n = 0
    BY RowsFacts
  <2>3. ToSet(batch') = ToSet(batch) \cup ToSet(Rows(t))
    BY <2>1, <2>2, TrackedFacts, OnceConcat
  <2>4. ToSet(unprocessed) \subseteq Everything \ Of(batch)
    BY DEF Agreed, InOnePlace, Placed, Everything, Held
  <2>5. \A x \in ToSet(Rows(t)) : x.r \in ToSet(t)
    BY <2>2 DEF Of
  <2> QED
    BY <1>1, <2>1, <2>2, <2>3, <2>4, <2>5, PrefillAnswers
<1> QED
  BY <1>2, <1>3, <1>4, ChunkAgreed, StartPrefillAgreed, PreprocessAgreed, NextAgreed

LEMMA GenerateAnswers ==
  ASSUME Agreed, AnswersOK, Generate
  PROVE  AnswersOK'
<1>1. /\ loop = "decode" /\ loop' = "process"
      /\ UNCHANGED <<outputs, tokens, status, requests>>
  BY DEF Generate, tracking, outputs
<1>2. /\ Of(responses') = ToSet(errors) \cup Of(batch)
      /\ \A x \in ToSet(responses') : (x.fin = "error" /\ x.r \in ToSet(errors)) \/ Answers(x)
      /\ \A y \in ToSet(batch') : \E row \in ToSet(batch) :
           row.r = y.r /\ y.n = row.n + 1 /\ y.n < MaxTokens
  BY GenerateFacts DEF Agreed
<1>3. /\ tokens \in [Requests -> Nat] /\ \A r \in requests \ Of(batch) : tokens[r] = 0
      /\ \A row \in ToSet(batch) : row.n < MaxTokens /\ row.n = tokens[row.r]
  BY <1>1 DEF AnswersOK, TokensOK
<1>4. Everything = running
  BY <1>1, MovingFacts DEF Moving
<1>5. ToSet(errors) \subseteq requests \ Of(batch)
  BY <1>4, TrackedFacts DEF Agreed, InOnePlace, Placed, Everything, Held
<1>6. ASSUME NEW x \in ToSet(responses')
      PROVE  /\ x.fin = "error" => tokens[x.r] = 0
             /\ x.fin = "length" => tokens[x.r] + 1 = MaxTokens
  <2>1. CASE x.fin = "error" /\ x.r \in ToSet(errors)
    BY <1>3, <1>5, <2>1
  <2>2. CASE Answers(x)
    <3>1. PICK row \in ToSet(batch) :
            row.r = x.r /\ x.fin # "error" /\ (x.fin = "length" => row.n + 1 >= MaxTokens)
      BY <2>2 DEF Answers
    <3>2. row.n < MaxTokens /\ row.n = tokens[x.r] /\ x.r \in Requests
      BY <1>3, <3>1, TrackedFacts DEF Of
    <3>3. tokens[x.r] \in Nat /\ MaxTokens \in Nat
      BY <1>3, <3>2, MLLMAssumptions
    <3> QED
      BY <3>1, <3>2, <3>3
  <2> QED
    BY <1>2, <2>1, <2>2
<1>7. ASSUME NEW y \in ToSet(batch') PROVE y.n < MaxTokens /\ y.n = tokens[y.r] + 1
  BY <1>2, <1>3
<1>8. ASSUME NEW r \in requests \ Of(batch') PROVE tokens[r] = 0 \/ r \in Of(responses')
  BY <1>2, <1>3
<1>9. TokensOK'
  BY <1>1, <1>3, <1>6, <1>7, <1>8 DEF TokensOK
<1> QED
  BY <1>1, <1>9, ClientsKept DEF AnswersOK

(* Every request has failed, and was told a count that is at most one too high. *)
LEMMA FailedAnswers ==
  ASSUME Agreed, ClientsOK, requests' = {}, UNCHANGED <<client, heard>>,
         tokens \in [Requests -> Nat],
         \A r \in Requests : /\ tokens'[r] \in {tokens[r], tokens[r] + 1}
                             /\ r \notin requests => tokens'[r] = tokens[r],
         queue' = [r \in Requests |->
           IF r \in requests /\ client[r] = "streaming"
           THEN queue[r] \o Told(r, tokens'[r]) ELSE queue[r]],
         status' = [r \in Requests |-> IF r \in requests THEN "aborted" ELSE status[r]]
  PROVE  ClientsOK'
<1>1. ASSUME NEW r \in Requests
      PROVE  /\ ClientOK(client[r], heard[r], queue'[r], status'[r], tokens'[r], FALSE)
             /\ queue'[r] \in Seq(Out)
  <2>1. /\ ClientOK(client[r], heard[r], queue[r], status[r], tokens[r], r \in requests)
        /\ queue[r] \in Seq(Out) /\ heard[r] \in Heard /\ tokens[r] \in Nat
    BY DEF ClientsOK
  <2>2. CASE r \notin requests
    <3>1. (r \in requests) = FALSE
      BY <2>2
    <3>2. queue'[r] = queue[r] /\ status'[r] = status[r] /\ tokens'[r] = tokens[r]
      BY <2>2
    <3> QED
      BY <2>1, <3>1, <3>2
  <2>3. CASE r \in requests
    <3>1. (r \in requests) = TRUE
      BY <2>3
    <3>2. client[r] = "streaming"
      BY <2>1, <3>1 DEF ClientOK
    <3>3. PICK n : n = tokens'[r]
      OBVIOUS
    <3>4. queue'[r] = queue[r] \o Told(r, n) /\ status'[r] = "aborted" /\ n \in {tokens[r], tokens[r] + 1}
      BY <2>3, <3>2, <3>3
    <3>5. ClientOK("streaming", heard[r], queue[r], status[r], tokens[r], TRUE)
      BY <2>1, <3>1, <3>2
    <3>6. PICK o : o = Told(r, n)
      OBVIOUS
    <3>7. o = <<[fin |-> "error", n |-> n], EndOf>>
      BY <3>6 DEF Told
    <3>8. /\ queue[r] \o o \in Seq(Out)
          /\ ClientOK("streaming", heard[r], queue[r] \o o, "aborted", n, FALSE)
      BY <2>1, <3>4, <3>5, <3>7, ToldOK
    <3> QED
      BY <3>2, <3>3, <3>4, <3>6, <3>8
  <2> QED
    BY <2>2, <2>3
<1>2. queue' \in [Requests -> Seq(Out)]
  BY <1>1
<1>3. /\ heard' \in [Requests -> Heard]
      /\ status' \in [Requests -> {"waiting", "running", "aborted", "stop", "length"}]
  BY DEF ClientsOK
<1>4. ASSUME NEW r \in Requests
      PROVE  ClientOK(client'[r], heard'[r], queue'[r], status'[r], tokens'[r], r \in requests')
  <2>1. (r \in requests') = FALSE
    OBVIOUS
  <2> QED
    BY <1>1, <2>1
<1> QED
  BY <1>2, <1>3, <1>4 DEF ClientsOK

LEMMA StepFailsAnswers ==
  ASSUME Agreed, AnswersOK, StepFails
  PROVE  AnswersOK'
<1>1. /\ loop # "process" /\ loop' # "process" /\ requests' = {} /\ UNCHANGED <<tokens, client, heard>>
      /\ queue' = [r \in Requests |->
           IF r \in requests /\ client[r] = "streaming"
           THEN queue[r] \o Told(r, tokens[r]) ELSE queue[r]]
      /\ status' = [r \in Requests |-> IF r \in requests THEN "aborted" ELSE status[r]]
  BY DEF StepFails, FailRequests
<1>2. ToSet(batch') = {}
  BY StepFailsAgreed, NoElements
<1>3. TokensOK'
  BY <1>1, <1>2, TokensKept DEF AnswersOK
<1>4. tokens' = tokens /\ tokens \in [Requests -> Nat]
  BY <1>1 DEF AnswersOK, TokensOK
<1>5. ClientsOK'
  BY <1>1, <1>4, FailedAnswers DEF AnswersOK
<1> QED
  BY <1>3, <1>5 DEF AnswersOK

(* A request has one response, so at most one token of it is counted. *)
LEMMA CountedFacts ==
  ASSUME Agreed, loop = "process", tokens \in [Requests -> Nat], NEW k \in DOMAIN responses
  PROVE  /\ Counted(k) \in [Requests -> Nat]
         /\ \A r \in Requests :
              /\ Counted(k)[r] \in {tokens[r], tokens[r] + 1}
              /\ r \notin running => Counted(k)[r] = tokens[r]
<1>1. responses \in Seq(Response) /\ OncePerRequest(responses) /\ k \in 1 .. Len(responses)
  BY DEF Agreed, StepOK, ResponsesOK
<1>2. k \in Nat /\ 1 .. k \subseteq DOMAIN responses
  BY <1>1
<1>3. ASSUME NEW r \in Requests
      PROVE  /\ Counted(k)[r] \in {tokens[r], tokens[r] + 1}
             /\ r \notin running => Counted(k)[r] = tokens[r]
  <2>1. PICK J : J = {j \in 1 .. k : responses[j].r = r /\ responses[j].fin # "error"
                                      /\ r \in mapped \cap running}
    OBVIOUS
  <2>2. Counted(k)[r] = tokens[r] + Cardinality(J) /\ tokens[r] \in Nat
    BY <2>1 DEF Counted
  <2>3. \A i, j \in J : i = j
    BY <1>1, <1>2, <2>1 DEF OncePerRequest
  <2>4. Cardinality(J) = 0 \/ (Cardinality(J) = 1 /\ r \in running)
    <3>1. CASE J = {}
      BY <3>1, FS_EmptySet
    <3>2. CASE J # {}
      <4>1. PICK j : j \in J
        BY <3>2
      <4>2. J = {j} /\ r \in running
        BY <2>1, <2>3, <4>1
      <4> QED
        BY <4>2, FS_Singleton
    <3> QED
      BY <3>1, <3>2
  <2> QED
    BY <2>2, <2>4
<1>4. Counted(k) = [r \in Requests |-> Counted(k)[r]]
  BY DEF Counted
<1>5. \A r \in Requests : Counted(k)[r] \in Nat
  BY <1>3
<1> QED
  BY <1>3, <1>4, <1>5

LEMMA ProcessFailsAnswers ==
  ASSUME Agreed, AnswersOK, ProcessFails
  PROVE  AnswersOK'
<1>1. /\ loop = "process" /\ loop' = "idle" /\ requests' = {} /\ UNCHANGED <<client, heard>>
      /\ queue' = [r \in Requests |->
           IF r \in requests /\ client[r] = "streaming"
           THEN queue[r] \o Told(r, tokens'[r]) ELSE queue[r]]
      /\ status' = [r \in Requests |-> IF r \in requests THEN "aborted" ELSE status[r]]
  BY DEF ProcessFails, FailRequests
<1>2. PICK k \in DOMAIN responses : tokens' = Counted(k)
  BY DEF ProcessFails
<1>3. tokens \in [Requests -> Nat] /\ running \subseteq requests
  BY TrackedFacts DEF AnswersOK, TokensOK
<1>4. /\ tokens' \in [Requests -> Nat]
      /\ \A r \in Requests : /\ tokens'[r] \in {tokens[r], tokens[r] + 1}
                             /\ r \notin requests => tokens'[r] = tokens[r]
  BY <1>1, <1>2, <1>3, CountedFacts
<1>5. ToSet(batch') = {}
  BY ProcessFailsAgreed, NoElements
<1>6. TokensOK'
  BY <1>1, <1>4, <1>5 DEF TokensOK
<1>7. ClientsOK
  BY DEF AnswersOK
<1>8. ClientsOK'
  BY <1>1, <1>3, <1>4, <1>7, FailedAnswers
<1> QED
  BY <1>6, <1>8 DEF AnswersOK

(* What ProcessResponses makes of the one response x of r, and of none. *)
LEMMA OneResponse ==
  ASSUME Agreed, ProcessResponses, NEW r \in Requests, NEW x, Mine(r) = <<x>>,
         tokens[r] \in Nat,
         NEW u, u = IF x.fin = "error" THEN tokens[r] ELSE tokens[r] + 1,
         NEW o, o = [fin |-> x.fin, n |-> IF x.fin = "error" THEN 0 ELSE u]
  PROVE  /\ tokens'[r] = u
         /\ queue'[r] = IF client[r] = "streaming" THEN queue[r] \o Marked(o) ELSE queue[r]
         /\ status'[r] = IF x.fin = "no" THEN status[r]
                         ELSE IF x.fin = "error" THEN "aborted" ELSE x.fin
<1>1. PICK t : t = Mine(r)
  OBVIOUS
<1>2. t = <<x>> /\ Len(t) = 1 /\ DOMAIN t = {1} /\ t[1] = x
  BY <1>1
<1>3. Tokens(r, 1) = u
  <2>1. PICK S : S = {j \in 1..1 : t[j].fin # "error"}
    OBVIOUS
  <2>2. Tokens(r, 1) = tokens[r] + Cardinality(S)
    BY <1>1, <2>1 DEF Tokens
  <2>3. S = IF x.fin = "error" THEN {} ELSE {1}
    BY <1>2, <2>1
  <2>4. Cardinality({}) = 0 /\ Cardinality({1}) = 1
    BY FS_EmptySet, FS_Singleton
  <2> QED
    BY <2>2, <2>3, <2>4
<1>4. Output(r, 1) = o
  BY <1>1, <1>2, <1>3 DEF Output
<1>5. tokens'[r] = u
  <2>1. tokens'[r] = Tokens(r, Len(Mine(r)))
    BY DEF ProcessResponses
  <2> QED
    BY <1>1, <1>2, <1>3, <2>1
<1>6. FlattenSeq([k \in DOMAIN Mine(r) |-> Marked(Output(r, k))]) = Marked(o)
  <2>1. PICK f : f = [k \in DOMAIN Mine(r) |-> Marked(Output(r, k))]
    OBVIOUS
  <2>2. f = [k \in {1} |-> Marked(o)]
    BY <1>1, <1>2, <1>4, <2>1
  <2>3. f = <<Marked(o)>>
    <3>1. PICK m : m = Marked(o)
      OBVIOUS
    <3>2. [k \in {1} |-> m] = <<m>>
      OBVIOUS
    <3> QED
      BY <2>2, <3>1, <3>2
  <2> QED
    BY <2>1, <2>3, FlattenOne
<1>7. queue'[r] = IF client[r] = "streaming" THEN queue[r] \o Marked(o) ELSE queue[r]
  <2>1. queue'[r] =
          IF client[r] = "streaming"
          THEN queue[r] \o FlattenSeq([k \in DOMAIN Mine(r) |-> Marked(Output(r, k))])
          ELSE queue[r]
    BY DEF ProcessResponses
  <2> QED
    BY <1>6, <2>1
<1>8. status'[r] = IF x.fin = "no" THEN status[r] ELSE IF x.fin = "error" THEN "aborted" ELSE x.fin
  <2>1. Finishing(r) = IF x.fin = "no" THEN {} ELSE {1}
    BY FinishingFacts
  <2>2. PICK l : l = Mine(r)[CHOOSE k \in Finishing(r) : \A j \in Finishing(r) : j <= k].fin
    OBVIOUS
  <2>3. status'[r] = IF r \notin Finished THEN status[r] ELSE IF l = "error" THEN "aborted" ELSE l
    <3>1. status'[r] =
            IF r \notin {q \in Requests : Finishing(q) # {}} THEN status[r]
            ELSE IF Mine(r)[CHOOSE k \in Finishing(r) : \A j \in Finishing(r) : j <= k].fin = "error"
                 THEN "aborted"
                 ELSE Mine(r)[CHOOSE k \in Finishing(r) : \A j \in Finishing(r) : j <= k].fin
      BY DEF ProcessResponses
    <3> QED
      BY <2>2, <3>1 DEF Finished
  <2>4. r \in Finished <=> x.fin # "no"
    BY <2>1 DEF Finished
  <2>5. x.fin # "no" => l = x.fin
    <3> SUFFICES ASSUME x.fin # "no" PROVE l = x.fin
      OBVIOUS
    <3>1. Finishing(r) = {1}
      BY <2>1
    <3>2. (CHOOSE k \in Finishing(r) : \A j \in Finishing(r) : j <= k) = 1
      BY <3>1
    <3> QED
      BY <1>1, <1>2, <2>2, <3>2
  <2> QED
    BY <2>3, <2>4, <2>5
<1> QED
  BY <1>5, <1>7, <1>8

LEMMA NoResponse ==
  ASSUME Agreed, AnswersOK, ProcessResponses, NEW r \in Requests, Mine(r) = <<>>
  PROVE  tokens'[r] = tokens[r] /\ queue'[r] = queue[r] /\ status'[r] = status[r]
<1>1. PICK t : t = Mine(r)
  OBVIOUS
<1>2. t = <<>> /\ Len(t) = 0 /\ DOMAIN t = {}
  BY <1>1
<1>3. queue[r] \in Seq(Out) /\ tokens[r] \in Nat
  BY DEF AnswersOK, ClientsOK, TokensOK
<1>4. tokens'[r] = tokens[r]
  <2>1. PICK S : S = {j \in 1..0 : t[j].fin # "error"}
    OBVIOUS
  <2>2. Tokens(r, 0) = tokens[r] + Cardinality(S)
    BY <1>1, <2>1 DEF Tokens
  <2>3. S = {}
    BY <2>1
  <2>4. Cardinality(S) = 0
    BY <2>3, FS_EmptySet
  <2>5. tokens'[r] = Tokens(r, Len(Mine(r)))
    BY DEF ProcessResponses
  <2> QED
    BY <1>1, <1>2, <1>3, <2>2, <2>4, <2>5
<1>5. queue'[r] = queue[r]
  <2>1. PICK f : f = [k \in DOMAIN Mine(r) |-> Marked(Output(r, k))]
    OBVIOUS
  <2>2. f = <<>>
    BY <1>1, <1>2, <2>1
  <2>3. queue'[r] = IF client[r] = "streaming" THEN queue[r] \o FlattenSeq(f) ELSE queue[r]
    BY <2>1 DEF ProcessResponses
  <2>4. PICK q \in Seq(Out) : q = queue[r]
    BY <1>3
  <2>5. q \o <<>> = q
    OBVIOUS
  <2> QED
    BY <2>2, <2>3, <2>4, <2>5, FlattenNone
<1>6. status'[r] = status[r]
  <2>1. Finishing(r) = {}
    BY <1>1, <1>2 DEF Finishing
  <2> QED
    BY <2>1 DEF ProcessResponses
<1> QED
  BY <1>4, <1>5, <1>6

LEMMA ProcessTokens ==
  ASSUME Agreed, AnswersOK, ProcessResponses, tokens' \in [Requests -> Nat],
         \A r \in Requests \ Of(responses) : tokens'[r] = tokens[r],
         \A x \in ToSet(responses) : x.fin # "error" => tokens'[x.r] = tokens[x.r] + 1
  PROVE  TokensOK'
<1>1. /\ loop = "process" /\ loop' = "idle" /\ batch' = batch /\ requests' = requests \ Finished
  BY DEF ProcessResponses, Finished, generator
<1>2. /\ Of(batch) \subseteq Of(responses) /\ Of(responses) \subseteq running
      /\ \A x \in ToSet(responses) :
           IF x.fin = "no" THEN x.r \in Of(batch)
           ELSE x.r \notin Held(unprocessed, batch, partial, errors)
  BY <1>1 DEF Agreed, StepOK, ResponsesOK
<1>3. \A r \in Requests : r \in Finished <=> \E x \in ToSet(responses) : x.r = r /\ x.fin # "no"
  BY <1>1, FinishedFacts
<1>4. /\ \A y \in ToSet(batch) : y.n < MaxTokens /\ y.n = tokens[y.r] + 1
      /\ \A r \in requests \ Of(batch) : tokens[r] = 0 \/ r \in Of(responses)
  BY <1>1 DEF AnswersOK, TokensOK
<1>5. ASSUME NEW y \in ToSet(batch) PROVE y.n < MaxTokens /\ y.n = tokens'[y.r]
  <2>1. y.r \in Of(batch)
    BY <1>5 DEF Of
  <2>2. PICK x \in ToSet(responses) : x.r = y.r
    BY <1>2, <2>1 DEF Of
  <2>3. x.fin = "no"
    BY <1>2, <2>1, <2>2 DEF Held
  <2> QED
    BY <1>4, <2>2, <2>3
<1>6. ASSUME NEW r \in requests, r \notin Finished, r \notin Of(batch) PROVE tokens'[r] = 0
  <2>1. r \notin Of(responses)
    <3>1. ASSUME NEW x \in ToSet(responses), x.r = r PROVE FALSE
      BY <1>2, <1>3, <1>6, <3>1, TrackedFacts
    <3> QED
      BY <3>1 DEF Of
  <2> QED
    BY <1>4, <1>6, <2>1, TrackedFacts
<1> QED
  BY <1>1, <1>5, <1>6 DEF TokensOK

LEMMA ProcessAnswers ==
  ASSUME Agreed, AnswersOK, ProcessResponses
  PROVE  AnswersOK'
<1>1. /\ loop = "process" /\ requests' = requests \ Finished /\ UNCHANGED <<client, heard>>
      /\ tokens' = [r \in Requests |-> tokens'[r]] /\ queue' = [r \in Requests |-> queue'[r]]
      /\ status' = [r \in Requests |-> status'[r]]
  BY DEF ProcessResponses, Finished
<1>2. /\ responses \in Seq(Response) /\ Of(responses) \subseteq running /\ OncePerRequest(responses)
  BY <1>1 DEF Agreed, StepOK, ResponsesOK
<1>3. \A r \in Requests : r \in Finished <=> \E x \in ToSet(responses) : x.r = r /\ x.fin # "no"
  BY <1>1, FinishedFacts
<1>4. \A x, y \in ToSet(responses) : x.r = y.r => x = y
  BY <1>2, OnceFacts
<1>5. ASSUME NEW r \in Requests, r \notin Of(responses)
      PROVE  /\ tokens'[r] = tokens[r] /\ queue'[r] = queue[r] /\ status'[r] = status[r]
             /\ (r \in requests') = (r \in requests)
  <2>1. Mine(r) = <<>>
    BY <1>1, <1>5, MineFacts DEF Of
  <2>2. r \notin Finished
    BY <1>3, <1>5 DEF Of
  <2> QED
    BY <1>1, <2>1, <2>2, NoResponse
<1>6. ASSUME NEW r \in Requests, NEW x \in ToSet(responses), x.r = r
      PROVE  /\ tokens'[r] = IF x.fin = "error" THEN tokens[r] ELSE tokens[r] + 1
             /\ queue'[r] \in Seq(Out)
             /\ status'[r] \in {"waiting", "running", "aborted", "stop", "length"}
             /\ ClientOK(client[r], heard[r], queue'[r], status'[r], tokens'[r], r \in requests')
  <2>1. Mine(r) = <<x>> /\ x \in Response
    BY <1>1, <1>4, <1>6, MineFacts DEF Of
  <2>2. /\ ClientOK(client[r], heard[r], queue[r], status[r], tokens[r], r \in requests)
        /\ queue[r] \in Seq(Out) /\ heard[r] \in Heard /\ tokens[r] \in Nat
        /\ status[r] \in {"waiting", "running", "aborted", "stop", "length"}
    BY DEF AnswersOK, ClientsOK, TokensOK
  <2>3. r \in requests
    BY <1>2, <1>6, TrackedFacts DEF Of
  <2>4. client[r] = "streaming" /\ ClientOK("streaming", heard[r], queue[r], status[r], tokens[r], TRUE)
    <3>1. (r \in requests) = TRUE
      BY <2>3
    <3>2. client[r] = "streaming"
      BY <2>2, <3>1 DEF ClientOK
    <3> QED
      BY <2>2, <3>1, <3>2
  <2>5. PICK u, o, p, k :
          /\ k = (x.fin = "no")
          /\ u = IF x.fin = "error" THEN tokens[r] ELSE tokens[r] + 1
          /\ o = [fin |-> x.fin, n |-> IF x.fin = "error" THEN 0 ELSE u]
          /\ p = IF x.fin = "no" THEN status[r] ELSE IF x.fin = "error" THEN "aborted" ELSE x.fin
    OBVIOUS
  <2>6. tokens'[r] = u /\ queue'[r] = queue[r] \o Marked(o) /\ status'[r] = p
    <3>1. Mine(r) = <<x>> /\ tokens[r] \in Nat
      BY <2>1, <2>2
    <3>2. u = IF x.fin = "error" THEN tokens[r] ELSE tokens[r] + 1
      BY <2>5
    <3>3. o = [fin |-> x.fin, n |-> IF x.fin = "error" THEN 0 ELSE u]
      BY <2>5
    <3>4. /\ tokens'[r] = u
          /\ queue'[r] = IF client[r] = "streaming" THEN queue[r] \o Marked(o) ELSE queue[r]
          /\ status'[r] = IF x.fin = "no" THEN status[r]
                          ELSE IF x.fin = "error" THEN "aborted" ELSE x.fin
      BY <3>1, <3>2, <3>3, OneResponse
    <3> QED
      BY <2>4, <2>5, <3>4
  <2>7. (x.fin = "error" => tokens[r] = 0) /\ (x.fin = "length" => tokens[r] + 1 = MaxTokens)
    BY <1>1, <1>6 DEF AnswersOK, TokensOK
  <2>8. /\ queue[r] \o Marked(o) \in Seq(Out)
        /\ ClientOK("streaming", heard[r], queue[r] \o Marked(o), p, u, k)
    <3>1. queue[r] \in Seq(Out) /\ heard[r] \in Heard /\ tokens[r] \in Nat
      BY <2>2
    <3>2. u = IF x.fin = "error" THEN tokens[r] ELSE tokens[r] + 1
      BY <2>5
    <3>3. o = [fin |-> x.fin, n |-> IF x.fin = "error" THEN 0 ELSE u]
      BY <2>5
    <3>4. p = IF x.fin = "no" THEN status[r] ELSE IF x.fin = "error" THEN "aborted" ELSE x.fin
      BY <2>5
    <3>5. k = (x.fin = "no")
      BY <2>5
    <3>6. x \in Response /\ ClientOK("streaming", heard[r], queue[r], status[r], tokens[r], TRUE)
      BY <2>1, <2>4
    <3>7. x.fin = "error" => tokens[r] = 0
      BY <2>7
    <3>8. x.fin = "length" => tokens[r] + 1 = MaxTokens
      BY <2>7
    <3> QED
      BY <3>1, <3>2, <3>3, <3>4, <3>5, <3>6, <3>7, <3>8, AnsweredOK
  <2>9. (r \in requests') = k
    BY <1>1, <1>3, <1>4, <1>6, <2>3, <2>5
  <2>10. p \in {"waiting", "running", "aborted", "stop", "length"}
    BY <2>1, <2>2, <2>5 DEF Response
  <2> QED
    BY <1>1, <2>4, <2>5, <2>6, <2>8, <2>9, <2>10
<1>7. tokens \in [Requests -> Nat] /\ queue \in [Requests -> Seq(Out)]
      /\ status \in [Requests -> {"waiting", "running", "aborted", "stop", "length"}]
  BY DEF AnswersOK, ClientsOK, TokensOK
<1>8. ASSUME NEW r \in Requests
      PROVE  /\ tokens'[r] \in Nat /\ queue'[r] \in Seq(Out)
             /\ status'[r] \in {"waiting", "running", "aborted", "stop", "length"}
             /\ ClientOK(client[r], heard[r], queue'[r], status'[r], tokens'[r], r \in requests')
  <2>1. CASE r \notin Of(responses)
    <3>1. ClientOK(client[r], heard[r], queue[r], status[r], tokens[r], r \in requests)
      BY DEF AnswersOK, ClientsOK
    <3> QED
      BY <1>5, <1>7, <2>1, <3>1
  <2>2. CASE r \in Of(responses)
    <3>1. PICK x \in ToSet(responses) : x.r = r
      BY <2>2 DEF Of
    <3> QED
      BY <1>6, <1>7, <3>1
  <2> QED
    BY <2>1, <2>2
<1>9. tokens' \in [Requests -> Nat] /\ queue' \in [Requests -> Seq(Out)]
      /\ status' \in [Requests -> {"waiting", "running", "aborted", "stop", "length"}]
  BY <1>1, <1>8
<1>10. \A x \in ToSet(responses) : x.fin # "error" => tokens'[x.r] = tokens[x.r] + 1
  <2>1. \A x \in ToSet(responses) : x.r \in Requests
    BY <1>2, TrackedFacts DEF Of
  <2> QED
    BY <1>6, <2>1
<1>11. TokensOK'
  BY <1>5, <1>9, <1>10, ProcessTokens
<1>12. ClientsOK'
  BY <1>1, <1>8, <1>9 DEF AnswersOK, ClientsOK
<1> QED
  BY <1>11, <1>12 DEF AnswersOK

(* Unless a prefill chunk has taken in short requests: a row counts the tokens *)
(* of its request, so the limit is reached at the last token sent, a request   *)
(* that is not in the batch has none, and what a queue holds continues what    *)
(* its client got; only what is no longer tracked has an output that ends.     *)
AnswerInv == ~inlined => AnswersOK

LEMMA AnswersStart == Init => AnswersOK
<1> SUFFICES ASSUME Init PROVE AnswersOK
  OBVIOUS
<1>1. TokensOK
  BY NoElements DEF Init, TokensOK
<1>2. ASSUME NEW r \in Requests
      PROVE  ClientOK(client[r], heard[r], queue[r], status[r], tokens[r], r \in requests)
  <2>1. (r \in requests) = FALSE
    BY DEF Init
  <2>2. client[r] = "new" /\ heard[r] = [got |-> 0, fin |-> "no", n |-> 0]
        /\ queue[r] = <<>> /\ tokens[r] = 0
    BY DEF Init
  <2> QED
    BY <2>1, <2>2 DEF ClientOK
<1>3. /\ status \in [Requests -> {"waiting", "running", "aborted", "stop", "length"}]
      /\ heard \in [Requests -> Heard] /\ queue \in [Requests -> Seq(Out)]
  BY DEF Init, Heard, Reasons
<1> QED
  BY <1>1, <1>2, <1>3 DEF AnswersOK, ClientsOK

LEMMA AnswersStep == GeneratorInv /\ AnswerInv /\ [Next]_vars => AnswerInv'
<1> SUFFICES ASSUME GeneratorInv, AnswerInv, [Next]_vars, ~inlined' PROVE AnswersOK'
  BY DEF AnswerInv
<1>1. ~inlined
  BY DEF Next, Step, AddRequest, Deliver, AbortRequest, Leave, StartStep, ScheduleWaiting,
         PrefillChunk, FinishPrefill, StartPrefill, PreprocessFails, NoLongPrompt, NewBatch,
         ExtendBatch, Generate, ProcessResponses, StepFails, ProcessFails, vars
<1>2. Agreed /\ AnswersOK
  BY <1>1 DEF GeneratorInv, AnswerInv
<1>3. CASE UNCHANGED vars
  BY <1>2, <1>3 DEF AnswersOK, TokensOK, ClientsOK, vars, tracking, outputs, generator
<1>4. CASE \E r \in Requests : AddRequest(r) \/ Deliver(r) \/ AbortRequest(r) \/ Leave(r)
  BY <1>2, <1>4, AddAnswers, DeliverAnswers, AbortAnswers
<1>5. CASE Step
  BY <1>2, <1>5, StartAnswers, ScheduleAnswers, PromptAnswers, GenerateAnswers, ProcessAnswers,
     StepFailsAnswers, ProcessFailsAnswers DEF Step
<1> QED
  BY <1>3, <1>4, <1>5 DEF Next

(* The end of a stream is true for any number of requests and clients: the count *)
(* in the last output is what stream_outputs() yielded before it, or one more in *)
(* an answer cut off by an error; its reason is the status the scheduler         *)
(* recorded, and "length" means max_tokens were sent.                            *)
THEOREM AnswersAreHonest == Spec => []AnswerHonest
<1>1. Init => AnswerInv
  BY AnswersStart DEF AnswerInv
<1>2. AnswerInv => AnswerHonest
  <2> SUFFICES ASSUME AnswerInv, ~inlined, NEW r \in Requests, client[r] = "served"
               PROVE  /\ \/ heard[r].n = heard[r].got
                         \/ heard[r].fin = "error" /\ heard[r].n = heard[r].got + 1
                      /\ status[r] = IF heard[r].fin \in {"stop", "length"} THEN heard[r].fin
                                     ELSE "aborted"
                      /\ heard[r].fin = "length" => heard[r].got = MaxTokens
    BY DEF AnswerHonest
  <2>1. ClientOK(client[r], heard[r], queue[r], status[r], tokens[r], r \in requests)
    BY DEF AnswerInv, AnswersOK, ClientsOK
  <2> QED
    BY <2>1 DEF ClientOK
<1> QED
  BY <1>1, <1>2, GeneratorInvariant, AnswersStep, PTL DEF Spec
=============================================================================
