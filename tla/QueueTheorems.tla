--------------------------- MODULE QueueTheorems ---------------------------
(***************************************************************************)
(* Sequences without repetition, and what appending, prepending and        *)
(* removing an element does to them: the queues of the schedulers.  What   *)
(* the operators of Collections return: parts of a sequence, sums.         *)
(***************************************************************************)
EXTENDS Collections, SequenceTheorems, FiniteSetTheorems, WellFoundedInduction,
        TLAPS

Distinct(s) == \A i, j \in DOMAIN s : s[i] = s[j] => i = j

LEMMA AppendDistinct ==
  ASSUME NEW S, NEW s \in Seq(S), NEW e \in S, Distinct(s), e \notin ToSet(s)
  PROVE  /\ Append(s, e) \in Seq(S)
         /\ Distinct(Append(s, e))
         /\ ToSet(Append(s, e)) = ToSet(s) \cup {e}
BY DEF Distinct, ToSet

LEMMA PrependDistinct ==
  ASSUME NEW S, NEW s \in Seq(S), NEW e \in S, Distinct(s), e \notin ToSet(s)
  PROVE  /\ <<e>> \o s \in Seq(S)
         /\ Distinct(<<e>> \o s)
         /\ ToSet(<<e>> \o s) = ToSet(s) \cup {e}
<1> DEFINE t == <<e>> \o s
<1>1. t \in Seq(S) /\ Len(t) = Len(s) + 1
  OBVIOUS
<1>2. t[1] = e /\ \A i \in 2 .. Len(t) : t[i] = s[i - 1] /\ i - 1 \in DOMAIN s
  OBVIOUS
<1>3. DOMAIN t = 1 .. Len(s) + 1 /\ DOMAIN s = 1 .. Len(s)
  BY <1>1
<1> HIDE DEF t
<1>4. Distinct(t)
  <2> SUFFICES ASSUME NEW i \in DOMAIN t, NEW j \in DOMAIN t, t[i] = t[j]
               PROVE  i = j
    BY DEF Distinct
  <2>1. CASE i = 1 /\ j # 1
    BY <2>1, <1>1, <1>2, <1>3 DEF ToSet
  <2>2. CASE i # 1 /\ j = 1
    BY <2>2, <1>1, <1>2, <1>3 DEF ToSet
  <2>3. CASE i # 1 /\ j # 1
    <3>1. i \in 2 .. Len(t) /\ j \in 2 .. Len(t) /\ i \in Int /\ j \in Int
      BY <2>3, <1>1, <1>3
    <3>2. /\ i - 1 \in DOMAIN s /\ j - 1 \in DOMAIN s
          /\ s[i - 1] = s[j - 1]
      BY <3>1, <1>2
    <3>3. i - 1 = j - 1
      BY <3>2 DEF Distinct
    <3> QED
      BY <3>1, <3>3
  <2> QED
    BY <2>1, <2>2, <2>3
<1>5. ToSet(t) = ToSet(s) \cup {e}
  <2>1. ASSUME NEW i \in DOMAIN s PROVE s[i] \in ToSet(t)
    <3>1. i + 1 \in 2 .. Len(t) /\ i + 1 \in DOMAIN t /\ (i + 1) - 1 = i
      BY <1>1, <1>3
    <3> QED
      BY <3>1, <1>2 DEF ToSet
  <2>2. e \in ToSet(t)
    BY <1>1, <1>2, <1>3 DEF ToSet
  <2>3. ASSUME NEW i \in DOMAIN t PROVE t[i] \in ToSet(s) \cup {e}
    BY <1>1, <1>2, <1>3 DEF ToSet
  <2> QED
    BY <2>1, <2>2, <2>3 DEF ToSet
<1> QED
  BY <1>1, <1>4, <1>5 DEF t

LEMMA TailDistinct ==
  ASSUME NEW S, NEW s \in Seq(S), s # <<>>, Distinct(s)
  PROVE  /\ Head(s) \in ToSet(s) /\ Head(s) \in S
         /\ Tail(s) \in Seq(S)
         /\ Distinct(Tail(s))
         /\ ToSet(Tail(s)) = ToSet(s) \ {Head(s)}
<1> DEFINE t == Tail(s)
<1>1. /\ t \in Seq(S) /\ Len(t) = Len(s) - 1 /\ Len(s) \in Nat \ {0}
      /\ Head(s) = s[1]
  OBVIOUS
<1>2. \A i \in 1 .. Len(t) : t[i] = s[i + 1]
  OBVIOUS
<1>3. DOMAIN t = 1 .. Len(t) /\ DOMAIN s = 1 .. Len(s)
  BY <1>1
<1> HIDE DEF t
<1>4. Distinct(t)
  <2> SUFFICES ASSUME NEW i \in DOMAIN t, NEW j \in DOMAIN t, t[i] = t[j]
               PROVE  i = j
    BY DEF Distinct
  <2>1. i \in 1 .. Len(t) /\ j \in 1 .. Len(t) /\ i \in Int /\ j \in Int
    BY <1>1, <1>3
  <2>2. /\ i + 1 \in DOMAIN s /\ j + 1 \in DOMAIN s
        /\ s[i + 1] = s[j + 1]
    BY <2>1, <1>1, <1>2, <1>3
  <2>3. i + 1 = j + 1
    BY <2>2 DEF Distinct
  <2> QED
    BY <2>1, <2>3
<1>5. ASSUME NEW i \in DOMAIN s, i # 1 PROVE s[i] \in ToSet(t)
  <2>1. i - 1 \in DOMAIN t /\ t[i - 1] = s[i]
    BY <1>1, <1>2, <1>3, <1>5
  <2> QED
    BY <2>1 DEF ToSet
<1>6. ASSUME NEW i \in DOMAIN t PROVE t[i] \in ToSet(s) \ {Head(s)}
  BY <1>1, <1>2, <1>3 DEF ToSet, Distinct
<1>7. ToSet(t) = ToSet(s) \ {Head(s)}
  BY <1>1, <1>3, <1>5, <1>6 DEF ToSet
<1>8. Head(s) \in ToSet(s) /\ Head(s) \in S
  BY <1>1, <1>3 DEF ToSet
<1> QED
  BY <1>1, <1>4, <1>7, <1>8 DEF t

LEMMA RemoveAtType ==
  ASSUME NEW S, NEW s \in Seq(S), NEW k \in DOMAIN s
  PROVE  RemoveAt(s, k) \in Seq(S)
<1>1. k \in 1 .. Len(s) /\ Len(s) \in Nat
  OBVIOUS
<1>2. SubSeq(s, 1, k - 1) \in Seq(S)
  BY <1>1
<1>3. SubSeq(s, k + 1, Len(s)) \in Seq(S)
  BY <1>1
<1> QED
  BY <1>2, <1>3, ConcatProperties DEF RemoveAt

LEMMA RemoveAtDistinct ==
  ASSUME NEW S, NEW s \in Seq(S), NEW k \in DOMAIN s, Distinct(s)
  PROVE  /\ RemoveAt(s, k) \in Seq(S)
         /\ Distinct(RemoveAt(s, k))
         /\ ToSet(RemoveAt(s, k)) = ToSet(s) \ {s[k]}
<1> DEFINE t == RemoveAt(s, k)
           a == SubSeq(s, 1, k - 1)
           b == SubSeq(s, k + 1, Len(s))
<1>0. k \in 1 .. Len(s) /\ DOMAIN s = 1 .. Len(s) /\ Len(s) \in Nat
  OBVIOUS
<1>1. /\ a \in Seq(S) /\ Len(a) = k - 1
      /\ \A i \in 1 .. k - 1 : a[i] = s[i]
  BY <1>0
<1>2. /\ b \in Seq(S) /\ Len(b) = Len(s) - k
      /\ \A i \in 1 .. Len(s) - k : b[i] = s[k + i]
  BY <1>0
<1> HIDE DEF a, b
<1>3. /\ a \o b \in Seq(S) /\ Len(a \o b) = Len(s) - 1
      /\ \A i \in 1 .. Len(s) - 1 :
           (a \o b)[i] = IF i <= k - 1 THEN a[i] ELSE b[i - (k - 1)]
  <2>1. Len(a) + Len(b) = Len(s) - 1
    BY <1>0, <1>1, <1>2
  <2>2. /\ a \o b \in Seq(S)
        /\ Len(a \o b) = Len(a) + Len(b)
        /\ \A i \in 1 .. Len(a) + Len(b) :
             (a \o b)[i] = IF i <= Len(a) THEN a[i] ELSE b[i - Len(a)]
    BY <1>1, <1>2, ConcatProperties
  <2>3. Len(a) = k - 1
    BY <1>1
  <2> HIDE <1>1, <1>2
  <2> QED
    BY <2>1, <2>2, <2>3
<1>4. t = a \o b
  BY DEF RemoveAt, a, b
<1> HIDE DEF t
<1>5. /\ t \in Seq(S) /\ DOMAIN t = 1 .. Len(s) - 1
      /\ \A i \in 1 .. Len(s) - 1 : t[i] = IF i < k THEN s[i] ELSE s[i + 1]
  <2>1. ASSUME NEW i \in 1 .. Len(s) - 1, i < k PROVE t[i] = s[i]
    BY <1>0, <1>1, <1>3, <1>4, <2>1
  <2>2. ASSUME NEW i \in 1 .. Len(s) - 1, ~(i < k) PROVE t[i] = s[i + 1]
    <3>1. /\ i - (k - 1) \in 1 .. Len(s) - k
          /\ k + (i - (k - 1)) = i + 1
          /\ ~(i <= k - 1)
      BY <1>0, <2>2
    <3> QED
      BY <3>1, <1>2, <1>3, <1>4
  <2>3. t \in Seq(S) /\ DOMAIN t = 1 .. Len(s) - 1
    BY <1>3, <1>4
  <2> QED
    BY <2>1, <2>2, <2>3
<1>6. Distinct(t)
  <2> DEFINE back(i) == IF i < k THEN i ELSE i + 1
  <2> SUFFICES ASSUME NEW i \in DOMAIN t, NEW j \in DOMAIN t, t[i] = t[j]
               PROVE  i = j
    BY DEF Distinct
  <2>1. i \in 1 .. Len(s) - 1 /\ j \in 1 .. Len(s) - 1 /\ i \in Int /\ j \in Int
    BY <1>0, <1>5
  <2>2. /\ back(i) \in DOMAIN s /\ back(j) \in DOMAIN s
        /\ s[back(i)] = s[back(j)]
    BY <2>1, <1>0, <1>5
  <2>3. back(i) = back(j)
    BY <2>2 DEF Distinct
  <2> QED
    BY <2>1, <2>3, <1>0
<1>7. ASSUME NEW i \in DOMAIN s, i # k PROVE s[i] \in ToSet(t)
  <2>1. CASE i < k
    <3>1. i \in DOMAIN t /\ t[i] = s[i]
      BY <2>1, <1>0, <1>5
    <3> QED
      BY <3>1 DEF ToSet
  <2>2. CASE ~(i < k)
    <3>1. i - 1 \in DOMAIN t /\ t[i - 1] = s[i]
      BY <2>2, <1>0, <1>5, <1>7
    <3> QED
      BY <3>1 DEF ToSet
  <2> QED
    BY <2>1, <2>2
<1>8. ASSUME NEW i \in DOMAIN t PROVE t[i] \in ToSet(s) \ {s[k]}
  <2>1. CASE i < k
    BY <2>1, <1>0, <1>5 DEF ToSet, Distinct
  <2>2. CASE ~(i < k)
    BY <2>2, <1>0, <1>5 DEF ToSet, Distinct
  <2> QED
    BY <2>1, <2>2
<1>9. ToSet(t) = ToSet(s) \ {s[k]}
  BY <1>7, <1>8 DEF ToSet
<1> QED
  BY <1>5, <1>6, <1>9 DEF t

LEMMA DistinctCounted ==
  ASSUME NEW S, NEW s \in Seq(S), Distinct(s)
  PROVE  Cardinality(ToSet(s)) = Len(s)
<1>1. Len(s) \in Nat /\ DOMAIN s = 1 .. Len(s)
  OBVIOUS
<1>2. s \in [1 .. Len(s) -> ToSet(s)] /\ \A e \in ToSet(s) : \E i \in 1 .. Len(s) : s[i] = e
  BY <1>1 DEF ToSet
<1>3. s \in Surjection(1 .. Len(s), ToSet(s)) /\ s \in Injection(1 .. Len(s), ToSet(s))
  BY <1>1, <1>2 DEF Surjection, Injection, IsInjective, Distinct
<1>4. IsFiniteSet(1 .. Len(s)) /\ Cardinality(1 .. Len(s)) = Len(s)
  BY <1>1, FS_Interval
<1> QED
  BY <1>3, <1>4, FS_Surjection

(* What a prefix, and the rest, of a sequence hold. *)
LEMMA SliceFacts ==
  ASSUME NEW U, NEW s \in Seq(U), NEW n \in 0 .. Len(s)
  PROVE  /\ SubSeq(s, 1, n) \in Seq(U) /\ ToSet(SubSeq(s, 1, n)) \subseteq ToSet(s)
         /\ Len(SubSeq(s, 1, n)) = n
         /\ Distinct(s) => Distinct(SubSeq(s, 1, n))
<1>1. PICK t : t = SubSeq(s, 1, n)
  OBVIOUS
<1>2. t \in Seq(U) /\ Len(t) = n /\ \A i \in 1 .. n : t[i] = s[i]
  BY <1>1
<1>3. DOMAIN t = 1 .. n /\ DOMAIN s = 1 .. Len(s) /\ 1 .. n \subseteq 1 .. Len(s)
  BY <1>2
<1>4. ToSet(t) \subseteq ToSet(s)
  BY <1>2, <1>3 DEF ToSet
<1>5. Distinct(s) => Distinct(t)
  BY <1>2, <1>3 DEF Distinct
<1> QED
  BY <1>1, <1>2, <1>4, <1>5

LEMMA SplitFacts ==
  ASSUME NEW U, NEW s \in Seq(U), NEW n \in 0 .. Len(s)
  PROVE  LET p == SubSeq(s, 1, n)
             q == SubSeq(s, n + 1, Len(s))
         IN  /\ q \in Seq(U) /\ Len(q) = Len(s) - n
             /\ ToSet(s) = ToSet(p) \cup ToSet(q)
             /\ Distinct(s) => Distinct(q) /\ ToSet(p) \cap ToSet(q) = {}
<1>1. PICK p, q, k : /\ p = SubSeq(s, 1, n) /\ q = SubSeq(s, n + 1, Len(s)) /\ k = Len(s) - n
  OBVIOUS
<1>2. k \in Nat /\ Len(s) = n + k /\ n \in Nat
  BY <1>1
<1>3. /\ p \in Seq(U) /\ Len(p) = n /\ \A i \in 1 .. n : p[i] = s[i]
  BY <1>1
<1>4. /\ q \in Seq(U) /\ Len(q) = k /\ \A i \in 1 .. k : q[i] = s[n + i]
  <2>1. \A i \in n + 1 .. Len(s) : s[i] \in U
    BY <1>2
  <2>2. /\ q \in Seq(U)
        /\ Len(q) = IF n + 1 <= Len(s) THEN Len(s) - (n + 1) + 1 ELSE 0
        /\ \A i \in 1 .. Len(s) - (n + 1) + 1 : q[i] = s[n + 1 + i - 1]
    BY <1>1, <1>2, <2>1, SubSeqProperties
  <2> QED
    BY <1>2, <2>2
<1>5. DOMAIN p = 1 .. n /\ DOMAIN q = 1 .. k /\ DOMAIN s = 1 .. n + k
  BY <1>2, <1>3, <1>4
<1>6. ToSet(p) \subseteq ToSet(s)
  BY <1>2, <1>3, <1>5 DEF ToSet
<1>7. ToSet(q) \subseteq ToSet(s)
  <2>1. \A i \in 1 .. k : n + i \in 1 .. n + k
    BY <1>2
  <2> QED
    BY <1>4, <1>5, <2>1 DEF ToSet
<1>8. ASSUME NEW i \in 1 .. n + k PROVE s[i] \in ToSet(p) \cup ToSet(q)
  <2>1. CASE i <= n
    <3>1. i \in 1 .. n
      BY <2>1
    <3> QED
      BY <1>3, <1>5, <3>1 DEF ToSet
  <2>2. CASE i > n
    <3>1. i - n \in 1 .. k /\ n + (i - n) = i
      BY <1>2, <2>2
    <3>2. q[i - n] = s[i]
      BY <1>4, <3>1
    <3> QED
      BY <1>5, <3>1, <3>2 DEF ToSet
  <2> QED
    BY <1>2, <2>1, <2>2
<1>9. ToSet(s) = ToSet(p) \cup ToSet(q)
  BY <1>5, <1>6, <1>7, <1>8 DEF ToSet
<1>10. ASSUME Distinct(s) PROVE Distinct(q) /\ ToSet(p) \cap ToSet(q) = {}
  <2>1. \A i \in 1 .. k : n + i \in 1 .. n + k
    BY <1>2
  <2>2. \A i, j \in 1 .. k : n + i = n + j => i = j
    BY <1>2
  <2>3. \A i \in 1 .. n : i \in 1 .. n + k /\ \A j \in 1 .. k : i # n + j
    BY <1>2
  <2>4. Distinct(q)
    <3>1. ASSUME NEW i \in 1 .. k, NEW j \in 1 .. k, q[i] = q[j] PROVE i = j
      <4>1. s[n + i] = s[n + j]
        BY <1>4, <3>1
      <4>2. n + i = n + j
        BY <1>5, <1>10, <2>1, <4>1 DEF Distinct
      <4> QED
        BY <2>2, <4>2
    <3> QED
      BY <1>5, <3>1 DEF Distinct
  <2>5. ASSUME NEW i \in 1 .. n, NEW j \in 1 .. k, p[i] = q[j] PROVE FALSE
    <3>1. s[i] = s[n + j]
      BY <1>3, <1>4, <2>5
    <3>2. i \in 1 .. n + k /\ n + j \in 1 .. n + k /\ i # n + j
      BY <2>1, <2>3
    <3> QED
      BY <1>5, <1>10, <3>1, <3>2 DEF Distinct
  <2>6. ToSet(p) \cap ToSet(q) = {}
    BY <1>5, <2>5 DEF ToSet
  <2> QED
    BY <2>4, <2>6
<1> QED
  BY <1>1, <1>2, <1>4, <1>9, <1>10

LEMMA ConcatFacts ==
  ASSUME NEW U, NEW s \in Seq(U), NEW t \in Seq(U)
  PROVE  /\ s \o t \in Seq(U) /\ Len(s \o t) = Len(s) + Len(t)
         /\ ToSet(s \o t) = ToSet(s) \cup ToSet(t)
         /\ Distinct(s) /\ Distinct(t) /\ ToSet(s) \cap ToSet(t) = {} => Distinct(s \o t)
<1>1. PICK w, m, n : w = s \o t /\ m = Len(s) /\ n = Len(t)
  OBVIOUS
<1>2. m \in Nat /\ n \in Nat /\ DOMAIN s = 1 .. m /\ DOMAIN t = 1 .. n
  BY <1>1
<1>3. /\ w \in Seq(U) /\ Len(w) = m + n
      /\ \A i \in 1 .. m + n : w[i] = IF i <= m THEN s[i] ELSE t[i - m]
  BY <1>1, ConcatProperties
<1>4. DOMAIN w = 1 .. m + n
  BY <1>2, <1>3
<1>5. \A i \in 1 .. m : i \in 1 .. m + n /\ w[i] = s[i]
  BY <1>2, <1>3
<1>6. \A i \in 1 .. n : m + i \in 1 .. m + n /\ w[m + i] = t[i]
  BY <1>2, <1>3
<1>7. \A i \in 1 .. m + n : i \in 1 .. m \/ \E j \in 1 .. n : i = m + j
  <2>1. ASSUME NEW i \in 1 .. m + n, i \notin 1 .. m PROVE i - m \in 1 .. n /\ i = m + (i - m)
    BY <1>2, <2>1
  <2> QED
    BY <2>1
<1>8. ToSet(w) = ToSet(s) \cup ToSet(t)
  <2>1. ToSet(s) \subseteq ToSet(w)
    BY <1>2, <1>4, <1>5 DEF ToSet
  <2>2. ToSet(t) \subseteq ToSet(w)
    BY <1>2, <1>4, <1>6 DEF ToSet
  <2>3. ASSUME NEW i \in 1 .. m + n PROVE w[i] \in ToSet(s) \cup ToSet(t)
    BY <1>2, <1>5, <1>6, <1>7 DEF ToSet
  <2> QED
    BY <1>4, <2>1, <2>2, <2>3 DEF ToSet
<1>9. ASSUME Distinct(s), Distinct(t), ToSet(s) \cap ToSet(t) = {} PROVE Distinct(w)
  <2>1. ASSUME NEW i \in 1 .. m, NEW j \in 1 .. n PROVE s[i] # t[j]
    <3>1. s[i] \in ToSet(s) /\ t[j] \in ToSet(t)
      BY <1>2 DEF ToSet
    <3> QED
      BY <1>9, <3>1
  <2>2. ASSUME NEW i \in 1 .. m + n, NEW j \in 1 .. m + n, w[i] = w[j] PROVE i = j
    <3>1. CASE i \in 1 .. m /\ j \in 1 .. m
      BY <1>2, <1>5, <1>9, <2>2, <3>1 DEF Distinct
    <3>2. CASE i \in 1 .. m /\ j \notin 1 .. m
      BY <1>5, <1>6, <1>7, <2>1, <2>2, <3>2
    <3>3. CASE i \notin 1 .. m /\ j \in 1 .. m
      BY <1>5, <1>6, <1>7, <2>1, <2>2, <3>3
    <3>4. CASE i \notin 1 .. m /\ j \notin 1 .. m
      <4>1. PICK a \in 1 .. n, b \in 1 .. n : i = m + a /\ j = m + b
        BY <1>7, <3>4
      <4>2. t[a] = t[b]
        BY <1>6, <2>2, <4>1
      <4> QED
        BY <1>2, <1>9, <4>1, <4>2 DEF Distinct
    <3> QED
      BY <3>1, <3>2, <3>3, <3>4
  <2> QED
    BY <1>4, <2>2 DEF Distinct
<1> QED
  BY <1>1, <1>3, <1>8, <1>9

----------------------------------------------------------------------------
(* Induction over the naturals, and Within.                                 *)

LEMMA LeastNatural ==
  ASSUME NEW S \in SUBSET Nat, S # {}
  PROVE  \E m \in S : \A n \in S : m <= n
<1> DEFINE R == OpToRel(<, Nat)
<1>1. IsWellFoundedOn(R, Nat)
  BY NatLessThanWellFounded
<1>2. \A n, m \in Nat : n < m => <<n, m>> \in R
  BY DEF OpToRel
<1> HIDE DEF R
<1>3. PICK m \in S : \A n \in S : ~ (<<n, m>> \in R)
  BY <1>1, WFMin
<1>4. ASSUME NEW n \in S PROVE m <= n
  <2>1. m \in Nat /\ n \in Nat
    OBVIOUS
  <2>2. ~(n < m)
    BY <1>2, <1>3, <2>1
  <2> QED
    BY <2>1, <2>2
<1> QED
  BY <1>4

(* Induction, over a set in place of a predicate.                           *)
LEMMA SetInduction ==
  ASSUME NEW S, 0 \in S, \A n \in Nat : n \in S => n + 1 \in S
  PROVE  Nat \subseteq S
<1>1. SUFFICES ASSUME Nat \ S # {} PROVE FALSE
  OBVIOUS
<1>2. PICK m \in Nat \ S : \A n \in Nat \ S : m <= n
  BY <1>1, LeastNatural
<1>3. m # 0 /\ m - 1 \in Nat /\ (m - 1) + 1 = m
  BY <1>2
<1>4. m - 1 \in S
  BY <1>2, <1>3
<1> QED
  BY <1>2, <1>3, <1>4

(* f selects from s, prefix by prefix.                                      *)
Selecting(s, S, n, f) ==
  f = [i \in 0 .. n |-> IF i = 0 THEN <<>>
                        ELSE IF s[i] \in S THEN Append(f[i - 1], s[i]) ELSE f[i - 1]]

LEMMA SelectionExists ==
  ASSUME NEW s, NEW S, NEW n \in Nat
  PROVE  \E f : Selecting(s, S, n, f)
<1> DEFINE T == {k \in Nat : \E f : Selecting(s, S, k, f)}
<1>1. 0 \in T
  <2>1. Selecting(s, S, 0, [i \in 0 .. 0 |-> <<>>])
    BY DEF Selecting
  <2> QED
    BY <2>1
<1>2. ASSUME NEW k \in Nat, k \in T PROVE k + 1 \in T
  <2>1. PICK f : Selecting(s, S, k, f)
    BY <1>2
  <2>2. PICK g : g = [i \in 0 .. k + 1 |->
                        IF i <= k THEN f[i]
                        ELSE IF s[i] \in S THEN Append(f[i - 1], s[i]) ELSE f[i - 1]]
    OBVIOUS
  <2>3. ASSUME NEW i \in 0 .. k + 1
        PROVE  g[i] = IF i = 0 THEN <<>>
                      ELSE IF s[i] \in S THEN Append(g[i - 1], s[i]) ELSE g[i - 1]
    <3>1. CASE i <= k
      <4>1. g[i] = f[i] /\ i \in 0 .. k
        BY <2>2, <3>1
      <4>2. i # 0 => g[i - 1] = f[i - 1]
        BY <2>2, <3>1
      <4> QED
        BY <2>1, <4>1, <4>2 DEF Selecting
    <3>2. CASE i = k + 1
      <4>1. i - 1 = k /\ i # 0 /\ ~(i <= k)
        BY <3>2
      <4>2. g[k] = f[k]
        BY <2>2
      <4> QED
        BY <2>2, <4>1, <4>2
    <3> QED
      BY <3>1, <3>2
  <2>4. Selecting(s, S, k + 1, g)
    BY <2>2, <2>3 DEF Selecting
  <2> QED
    BY <2>4
<1> HIDE DEF T
<1>3. n \in T
  BY <1>1, <1>2, SetInduction
<1> QED
  BY <1>3 DEF T

LEMMA SelectionUnique ==
  ASSUME NEW s, NEW S, NEW n \in Nat,
         NEW f, Selecting(s, S, n, f), NEW g, Selecting(s, S, n, g)
  PROVE  f = g
<1> DEFINE T == {k \in Nat : k <= n => f[k] = g[k]}
<1>1. 0 \in T
  BY DEF Selecting
<1>2. ASSUME NEW k \in Nat, k \in T PROVE k + 1 \in T
  <2>1. SUFFICES ASSUME k + 1 <= n PROVE f[k + 1] = g[k + 1]
    OBVIOUS
  <2>2. k + 1 \in 0 .. n /\ k + 1 # 0 /\ (k + 1) - 1 = k /\ f[k] = g[k]
    BY <1>2, <2>1
  <2>3. f[k + 1] = IF s[k + 1] \in S THEN Append(f[k], s[k + 1]) ELSE f[k]
    BY <2>2 DEF Selecting
  <2>4. g[k + 1] = IF s[k + 1] \in S THEN Append(g[k], s[k + 1]) ELSE g[k]
    BY <2>2 DEF Selecting
  <2> QED
    BY <2>2, <2>3, <2>4
<1> HIDE DEF T
<1>3. Nat \subseteq T
  BY <1>1, <1>2, SetInduction
<1>4. \A k \in 0 .. n : f[k] = g[k]
  BY <1>3 DEF T
<1> QED
  BY <1>4 DEF Selecting

(* g lists the places of the elements of s that are in S, t lists them.      *)
Picks(s, S, n, t, g) ==
  /\ t \in Seq(ToSet(s)) /\ g \in [1 .. Len(t) -> 1 .. n]
  /\ \A k \in 1 .. Len(t) : t[k] = s[g[k]] /\ t[k] \in S
  /\ \A k, l \in 1 .. Len(t) : k < l => g[k] < g[l]
  /\ \A i \in 1 .. n : s[i] \in S => \E k \in 1 .. Len(t) : g[k] = i

LEMMA WithinPicks ==
  ASSUME NEW U, NEW s \in Seq(U), NEW S
  PROVE  \E g : Picks(s, S, Len(s), Within(s, S), g)
<1>1. PICK f : Selecting(s, S, Len(s), f)
  <2>1. Len(s) \in Nat
    OBVIOUS
  <2> QED
    BY <2>1, SelectionExists
<1>2. Within(s, S) = f[Len(s)]
  <2>1. PICK h : h = CHOOSE g : Selecting(s, S, Len(s), g)
    OBVIOUS
  <2>2. Selecting(s, S, Len(s), h)
    BY <1>1, <2>1
  <2>3. h = f
    BY <1>1, <2>2, SelectionUnique
  <2> QED
    BY <2>1, <2>3 DEF Within, Selecting
<1> DEFINE T == {n \in Nat : n <= Len(s) => \E g : Picks(s, S, n, f[n], g)}
<1>3. 0 \in T
  <2>1. f[0] = <<>>
    BY <1>1 DEF Selecting
  <2>2. Picks(s, S, 0, <<>>, <<>>)
    BY DEF Picks
  <2> QED
    BY <2>1, <2>2
<1>4. ASSUME NEW n \in Nat, n \in T PROVE n + 1 \in T
  <2>1. SUFFICES ASSUME n + 1 <= Len(s) PROVE \E g : Picks(s, S, n + 1, f[n + 1], g)
    OBVIOUS
  <2>2. PICK t, g : t = f[n] /\ Picks(s, S, n, t, g)
    BY <1>4, <2>1
  <2>3. PICK m : m = Len(t)
    OBVIOUS
  <2>4. m \in Nat /\ t \in Seq(ToSet(s)) /\ n + 1 \in 1 .. Len(s) /\ s[n + 1] \in ToSet(s)
    BY <2>1, <2>2, <2>3 DEF Picks, ToSet
  <2>5. f[n + 1] = IF s[n + 1] \in S THEN Append(t, s[n + 1]) ELSE t
    <3>1. n + 1 \in 0 .. Len(s) /\ n + 1 # 0 /\ (n + 1) - 1 = n
      BY <2>4
    <3> QED
      BY <1>1, <2>2, <3>1 DEF Selecting
  <2>6. CASE s[n + 1] \notin S
    <3>1. g \in [1 .. m -> 1 .. n + 1]
      BY <2>2, <2>3 DEF Picks
    <3>2. \A i \in 1 .. n + 1 : s[i] \in S => i \in 1 .. n
      BY <2>6
    <3> QED
      BY <2>2, <2>3, <2>5, <2>6, <3>1, <3>2 DEF Picks
  <2>7. CASE s[n + 1] \in S
    <3>1. PICK u, h : u = Append(t, s[n + 1])
                      /\ h = [k \in 1 .. m + 1 |-> IF k <= m THEN g[k] ELSE n + 1]
      OBVIOUS
    <3>2. /\ u \in Seq(ToSet(s)) /\ Len(u) = m + 1 /\ u[m + 1] = s[n + 1]
          /\ \A k \in 1 .. m : u[k] = t[k]
      BY <2>3, <2>4, <3>1
    <3>3. /\ h[m + 1] = n + 1 /\ \A k \in 1 .. m : h[k] = g[k] /\ g[k] \in 1 .. n
      <4>1. g \in [1 .. m -> 1 .. n]
        BY <2>2, <2>3 DEF Picks
      <4>2. m + 1 \in 1 .. m + 1 /\ ~(m + 1 <= m)
        BY <2>4
      <4>3. \A k \in 1 .. m : k \in 1 .. m + 1 /\ k <= m
        BY <2>4
      <4> QED
        BY <3>1, <4>1, <4>2, <4>3
    <3>4. h \in [1 .. m + 1 -> 1 .. n + 1]
      <4>1. \A k \in 1 .. m + 1 : k \in 1 .. m \/ k = m + 1
        BY <2>4
      <4>2. n + 1 \in 1 .. n + 1 /\ 1 .. n \subseteq 1 .. n + 1
        BY <2>4
      <4>3. \A k \in 1 .. m + 1 : h[k] \in 1 .. n + 1
        BY <3>3, <4>1, <4>2
      <4> QED
        BY <3>1, <4>3
    <3>5. \A k \in 1 .. m + 1 : u[k] = s[h[k]] /\ u[k] \in S
      <4>1. \A k \in 1 .. m + 1 : k \in 1 .. m \/ k = m + 1
        BY <2>4
      <4> QED
        BY <2>2, <2>3, <2>7, <3>2, <3>3, <4>1 DEF Picks
    <3>6. ASSUME NEW k \in 1 .. m + 1, NEW l \in 1 .. m + 1, k < l PROVE h[k] < h[l]
      <4>1. CASE l = m + 1
        BY <2>4, <3>3, <3>6, <4>1
      <4>2. CASE l \in 1 .. m
        <5>1. k \in 1 .. m
          BY <2>4, <3>6, <4>2
        <5>2. g[k] < g[l]
          BY <2>2, <2>3, <3>6, <4>2, <5>1 DEF Picks
        <5> QED
          BY <3>3, <4>2, <5>1, <5>2
      <4>3. l = m + 1 \/ l \in 1 .. m
        BY <2>4
      <4> QED
        BY <4>1, <4>2, <4>3
    <3>7. ASSUME NEW i \in 1 .. n + 1, s[i] \in S PROVE \E k \in 1 .. m + 1 : h[k] = i
      <4>1. CASE i = n + 1
        BY <2>4, <3>3, <4>1
      <4>2. CASE i \in 1 .. n
        <5>1. PICK k \in 1 .. m : g[k] = i
          BY <2>2, <2>3, <3>7, <4>2 DEF Picks
        <5> QED
          BY <2>4, <3>3, <5>1
      <4> QED
        BY <4>1, <4>2
    <3>8. Picks(s, S, n + 1, u, h)
      BY <3>2, <3>4, <3>5, <3>6, <3>7 DEF Picks
    <3> QED
      BY <2>5, <2>7, <3>1, <3>8
  <2> QED
    BY <2>6, <2>7
<1> HIDE DEF T
<1>5. Len(s) \in T /\ Len(s) \in Nat
  BY <1>3, <1>4, SetInduction
<1> QED
  BY <1>2, <1>5 DEF T

LEMMA WithinFacts ==
  ASSUME NEW U, NEW s \in Seq(U), NEW S
  PROVE  /\ Within(s, S) \in Seq(U) /\ ToSet(Within(s, S)) = ToSet(s) \cap S
         /\ Len(Within(s, S)) <= Len(s) 
         /\ Distinct(s) => Distinct(Within(s, S))
<1>1. PICK g, t : t = Within(s, S) /\ Picks(s, S, Len(s), t, g)
  BY WithinPicks
<1>2. Len(t) \in Nat /\ Len(s) \in Nat /\ t \in Seq(ToSet(s)) /\ DOMAIN t = 1 .. Len(t)
  BY <1>1 DEF Picks
<1>3. ToSet(s) \subseteq U /\ t \in Seq(U)
  <2>1. ToSet(s) \subseteq U
    BY DEF ToSet
  <2> QED
    BY <1>2, <2>1
<1>4. ToSet(t) = ToSet(s) \cap S
  <2>1. ASSUME NEW k \in 1 .. Len(t) PROVE t[k] \in ToSet(s) \cap S
    BY <1>1, <1>2, <2>1 DEF Picks
  <2>2. ASSUME NEW i \in 1 .. Len(s), s[i] \in S PROVE s[i] \in ToSet(t)
    <3>1. PICK k \in 1 .. Len(t) : g[k] = i
      BY <1>1, <2>2 DEF Picks
    <3>2. t[k] = s[i]
      BY <1>1, <3>1 DEF Picks
    <3> QED
      BY <1>2, <3>2 DEF ToSet
  <2>3. DOMAIN s = 1 .. Len(s)
    OBVIOUS
  <2> QED
    BY <1>2, <2>1, <2>2, <2>3 DEF ToSet
<1>5. Len(t) <= Len(s)
  <2> DEFINE T == {k \in Nat : k \in 1 .. Len(t) => k <= g[k]}
  <2>1. 0 \in T
    OBVIOUS
  <2>2. ASSUME NEW k \in Nat, k \in T PROVE k + 1 \in T
    <3>1. SUFFICES ASSUME k + 1 \in 1 .. Len(t) PROVE k + 1 <= g[k + 1]
      OBVIOUS
    <3>2. g[k + 1] \in 1 .. Len(s)
      BY <1>1, <3>1 DEF Picks
    <3>3. CASE k = 0
      BY <3>2, <3>3
    <3>4. CASE k # 0
      <4>1. k \in 1 .. Len(t) /\ k < k + 1 /\ k <= g[k]
        BY <1>2, <2>2, <3>1, <3>4
      <4>2. g[k] < g[k + 1] /\ g[k] \in 1 .. Len(s)
        BY <1>1, <3>1, <4>1 DEF Picks
      <4> QED
        BY <3>2, <4>1, <4>2
    <3> QED
      BY <3>3, <3>4
  <2> HIDE DEF T
  <2>3. Len(t) \in T
    BY <1>2, <2>1, <2>2, SetInduction
  <2>4. Len(t) > 0 => g[Len(t)] \in 1 .. Len(s)
    BY <1>1, <1>2 DEF Picks
  <2> QED
    BY <1>2, <2>3, <2>4 DEF T
<1>6. Distinct(s) => Distinct(t)
  <2>1. SUFFICES ASSUME Distinct(s), NEW k \in 1 .. Len(t), NEW l \in 1 .. Len(t), t[k] = t[l]
                 PROVE  k = l
    BY <1>2 DEF Distinct
  <2>2. g[k] = g[l] /\ g[k] \in Int
    BY <1>1, <2>1 DEF Picks, Distinct
  <2>3. ~(k < l) /\ ~(l < k)
    BY <1>1, <2>2 DEF Picks
  <2> QED
    BY <2>3
<1> QED
  BY <1>1, <1>3, <1>4, <1>5, <1>6


----------------------------------------------------------------------------
(* Sums.                                                                    *)

(* A sum over a finite set is a natural number. *)
LEMMA UnitsFinite ==
  ASSUME NEW S, IsFiniteSet(S), NEW size, \A x \in S : size[x] \in Nat
  PROVE  IsFiniteSet(Units(S, size)) /\ Total(S, size) \in Nat
<1> DEFINE part == [x \in S |-> {x} \X (1 .. size[x])]
           T == {part[x] : x \in S}
<1>1. part \in Surjection(S, T)
  BY DEF Surjection
<1>2. IsFiniteSet(T)
  BY <1>1, FS_Surjection
<1>3. ASSUME NEW p \in T PROVE IsFiniteSet(p)
  <2>1. PICK x \in S : p = {x} \X (1 .. size[x])
    OBVIOUS
  <2>2. PICK a, b : a = {x} /\ b = 1 .. size[x]
    OBVIOUS
  <2>3. 1 \in Int /\ size[x] \in Int
    OBVIOUS
  <2>4. IsFiniteSet(b)
    BY <2>2, <2>3, FS_Interval
  <2>5. IsFiniteSet(a)
    BY <2>2, FS_Singleton
  <2>6. IsFiniteSet(a \X b)
    BY <2>4, <2>5, FS_Product
  <2> QED
    BY <2>1, <2>2, <2>6
<1>4. Units(S, size) = UNION T
  BY DEF Units
<1> HIDE DEF T
<1>5. IsFiniteSet(Units(S, size))
  BY <1>2, <1>3, <1>4, FS_UNION
<1> QED
  BY <1>5, FS_CardinalityType DEF Total

LEMMA TotalSubset ==
  ASSUME NEW T, IsFiniteSet(T), NEW S \in SUBSET T,
         NEW size, \A x \in T : size[x] \in Nat
  PROVE  Total(S, size) <= Total(T, size) /\ Total(S, size) \in Nat
<1>1. Units(S, size) \subseteq Units(T, size)
  BY DEF Units
<1>2. IsFiniteSet(Units(T, size)) /\ IsFiniteSet(S)
  BY UnitsFinite, FS_Subset
<1> QED
  BY <1>1, <1>2, FS_Subset, UnitsFinite DEF Total

LEMMA TotalUnion ==
  ASSUME NEW S, IsFiniteSet(S), NEW T, IsFiniteSet(T),
         NEW size, \A x \in S \cup T : size[x] \in Nat
  PROVE  /\ Total(S \cup T, size) <= Total(S, size) + Total(T, size)
         /\ S \cap T = {} => Total(S \cup T, size) = Total(S, size) + Total(T, size)
<1>1. Units(S \cup T, size) = Units(S, size) \cup Units(T, size)
  BY DEF Units
<1>2. /\ IsFiniteSet(Units(S, size)) /\ Total(S, size) \in Nat
      /\ IsFiniteSet(Units(T, size)) /\ Total(T, size) \in Nat
  BY UnitsFinite
<1>3. PICK common : common = Units(S, size) \cap Units(T, size)
  OBVIOUS
<1>4. IsFiniteSet(common) /\ Cardinality(common) \in Nat
  BY <1>2, <1>3, FS_Intersection, FS_CardinalityType
<1>5. Total(S \cup T, size) = Total(S, size) + Total(T, size) - Cardinality(common)
  BY <1>1, <1>2, <1>3, FS_Union DEF Total
<1>6. S \cap T = {} => common = {}
  BY <1>3 DEF Units
<1> QED
  BY <1>2, <1>4, <1>5, <1>6, FS_EmptySet

LEMMA TotalOne ==
  ASSUME NEW x, NEW size, size[x] \in Nat
  PROVE  Total({x}, size) = size[x]
<1>1. Units({x}, size) = {x} \X (1 .. size[x])
  BY DEF Units
<1>2. PICK a, b : a = {x} /\ b = 1 .. size[x]
  OBVIOUS
<1>3. IsFiniteSet(a) /\ Cardinality(a) = 1
  BY <1>2, FS_Singleton
<1>4. IsFiniteSet(b) /\ Cardinality(b) = size[x]
  <2>1. 1 \in Int /\ size[x] \in Int /\ (size[x] - 1) + 1 = size[x]
        /\ (1 > size[x] => size[x] = 0)
    OBVIOUS
  <2> QED
    BY <1>2, <2>1, FS_Interval
<1>5. Cardinality(a \X b) = 1 * size[x]
  BY <1>3, <1>4, FS_Product
<1>6. 1 * size[x] = size[x]
  OBVIOUS
<1> QED
  BY <1>1, <1>2, <1>5, <1>6 DEF Total

LEMMA TotalEmpty ==
  ASSUME NEW size
  PROVE  Total({}, size) = 0
BY FS_EmptySet DEF Total, Units

(* A sum over S is the sum over its image, where f tells the elements apart. *)
LEMMA TotalImage ==
  ASSUME NEW S, IsFiniteSet(S), NEW f, \A x, y \in S : f[x] = f[y] => x = y,
         NEW size, NEW other, \A x \in S : size[x] \in Nat /\ size[x] = other[f[x]]
  PROVE  Total(S, size) = Total({f[x] : x \in S}, other)
<1> DEFINE U == Units(S, size)
           V == Units({f[x] : x \in S}, other)
           g == [u \in U |-> <<f[u[1]], u[2]>>]
<1>1. ASSUME NEW u \in U PROVE u[1] \in S /\ u[2] \in 1 .. size[u[1]] /\ u = <<u[1], u[2]>>
  BY DEF Units
<1>2. ASSUME NEW u \in U PROVE <<f[u[1]], u[2]>> \in V
  BY <1>1 DEF Units
<1>3. ASSUME NEW v \in V PROVE \E u \in U : v = <<f[u[1]], u[2]>>
  <2>1. PICK y \in {f[x] : x \in S} : v \in {y} \X (1 .. other[y])
    BY DEF Units
  <2>2. PICK x \in S : y = f[x]
    BY <2>1
  <2>3. v = <<f[x], v[2]>> /\ v[2] \in 1 .. size[x]
    BY <2>1, <2>2
  <2>4. <<x, v[2]>> \in U
    BY <2>3 DEF Units
  <2> QED
    BY <2>3, <2>4
<1> HIDE DEF U, V
<1>4. g \in Surjection(U, V)
  BY <1>2, <1>3 DEF Surjection
<1>5. g \in Injection(U, V)
  BY <1>1, <1>2 DEF Injection, IsInjective
<1>6. IsFiniteSet(U)
  BY UnitsFinite DEF U
<1>7. Cardinality(U) = Cardinality(V)
  BY <1>4, <1>5, <1>6, FS_Surjection
<1> QED
  BY <1>7 DEF U, V, Total
=============================================================================
