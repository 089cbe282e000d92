----------------------------- MODULE Collections -----------------------------
(* Parts of a sequence, in their order, and sums over a set: the list       *)
(* comprehensions and the sum() of the code.                                *)
EXTENDS Integers, Sequences, FiniteSets, SequencesExt

Within(s, S) ==
  LET of[n \in 0 .. Len(s)] ==
        IF n = 0 THEN <<>>
        ELSE IF s[n] \in S THEN Append(of[n - 1], s[n]) ELSE of[n - 1]
  IN  of[Len(s)]
Without(s, S) == Within(s, ToSet(s) \ S)

\* the sum of size[x] over S, as that many units
Units(S, size) == UNION {{x} \X (1 .. size[x]) : x \in S}
Total(S, size) == Cardinality(Units(S, size))
=============================================================================
