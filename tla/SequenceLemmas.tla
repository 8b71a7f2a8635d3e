--------------------------- MODULE SequenceLemmas ---------------------------
(***************************************************************************)
(* Facts about sequences, and about counting in them, that the proofs of   *)
(* several components share.                                               *)
(***************************************************************************)
EXTENDS Integers, SequencesExt, SequenceTheorems, FiniteSetTheorems, TLAPS

\* Vec::remove(index): the result is one shorter, keeps what lies before the
\* index in place and moves what lies after it up by one.
LEMMA RemoveAtProps ==
  ASSUME NEW S, NEW s \in Seq(S), NEW i \in 1..Len(s)
  PROVE  /\ RemoveAt(s, i) \in Seq(S)
         /\ Len(RemoveAt(s, i)) = Len(s) - 1
         /\ \A j \in 1..(Len(s) - 1) :
              RemoveAt(s, i)[j] = IF j < i THEN s[j] ELSE s[j + 1]
<1> DEFINE a == SubSeq(s, 1, i - 1)
           b == SubSeq(s, i + 1, Len(s))
<1>1. /\ a \in Seq(S) /\ Len(a) = i - 1
      /\ \A j \in 1..(i - 1) : a[j] = s[j]
  OBVIOUS
<1>2. /\ b \in Seq(S) /\ Len(b) = Len(s) - i
      /\ \A j \in 1..(Len(s) - i) : b[j] = s[i + j]
  OBVIOUS
<1> HIDE DEF a, b
<1>3. /\ a \o b \in Seq(S) /\ Len(a \o b) = Len(s) - 1
      /\ \A j \in 1..(Len(s) - 1) : (a \o b)[j] = IF j < i THEN a[j] ELSE b[j - (i - 1)]
  <2>1. /\ a \o b \in Seq(S) /\ Len(a \o b) = Len(a) + Len(b)
        /\ \A j \in 1..(Len(a) + Len(b)) :
             (a \o b)[j] = IF j <= Len(a) THEN a[j] ELSE b[j - Len(a)]
    BY <1>1, <1>2, ConcatProperties
  <2> QED
    BY <1>1, <1>2, <2>1
<1>4. RemoveAt(s, i) = a \o b
  BY DEF RemoveAt, a, b
<1> QED
  BY <1>1, <1>2, <1>3, <1>4

\* Taking the head of a non-empty queue.
LEMMA TailProps ==
  ASSUME NEW S, NEW s \in Seq(S), s # <<>>
  PROVE  /\ Head(s) \in S /\ Head(s) = s[1]
         /\ Tail(s) \in Seq(S)
         /\ Len(Tail(s)) = Len(s) - 1
         /\ \A j \in 1..Len(Tail(s)) : Tail(s)[j] = s[j + 1]
OBVIOUS

\* Adding to the end of a queue.
LEMMA AppendProps ==
  ASSUME NEW S, NEW s \in Seq(S), NEW e \in S
  PROVE  /\ Append(s, e) \in Seq(S)
         /\ Len(Append(s, e)) = Len(s) + 1
         /\ \A j \in 1..Len(s) : Append(s, e)[j] = s[j]
         /\ Append(s, e)[Len(s) + 1] = e
OBVIOUS

-----------------------------------------------------------------------------
\* Where the elements of V are in a sequence or function, and how many.
At(s, V) == {i \in 1..Len(s) : s[i] \in V}
NumberIn(s, V) == Cardinality(At(s, V))
NumberAt(f, V) == Cardinality({x \in DOMAIN f : f[x] \in V})
OneIn(e, V) == IF e \in V THEN 1 ELSE 0

\* One element counts once or not at all.
LEMMA OneInType ==
  ASSUME NEW e, NEW V
  PROVE  /\ OneIn(e, V) \in Nat /\ OneIn(e, V) <= 1
         /\ e \in V => OneIn(e, V) = 1
         /\ e \notin V => OneIn(e, V) = 0
BY DEF OneIn

\* What is counted is a number.
LEMMA NumberInType ==
  ASSUME NEW S, NEW s \in Seq(S), NEW V
  PROVE  IsFiniteSet(At(s, V)) /\ NumberIn(s, V) \in Nat
<1>1. IsFiniteSet(1..Len(s))
  BY FS_Interval
<1>2. At(s, V) \in SUBSET (1..Len(s))
  BY DEF At
<1>3. IsFiniteSet(At(s, V))
  BY <1>1, <1>2, FS_Subset
<1> QED
  BY <1>3, FS_CardinalityType DEF NumberIn

\* An empty queue holds nothing.
LEMMA NumberInEmpty ==
  ASSUME NEW V
  PROVE  NumberIn(<<>>, V) = 0
<1>1. At(<<>>, V) = {}
  BY DEF At
<1> QED
  BY <1>1, FS_EmptySet DEF NumberIn

\* Adding an element at the end.
LEMMA NumberInAppend ==
  ASSUME NEW S, NEW s \in Seq(S), NEW e \in S, NEW V
  PROVE  NumberIn(Append(s, e), V) = NumberIn(s, V) + OneIn(e, V)
<1> DEFINE t == Append(s, e)
           n == Len(s)
<1>1. /\ n \in Nat /\ Len(t) = n + 1 /\ t[n + 1] = e
      /\ \A i \in 1..n : t[i] = s[i]
  BY AppendProps
<1>2. IsFiniteSet(At(s, V)) /\ NumberIn(s, V) \in Nat
  BY NumberInType
<1>3. n + 1 \notin At(s, V)
  BY <1>1 DEF At
<1> HIDE DEF t, n
<1>4. CASE e \in V
  <2>1. At(t, V) = At(s, V) \cup {n + 1}
    BY <1>1, <1>4 DEF At, n
  <2>2. Cardinality(At(s, V) \cup {n + 1}) = Cardinality(At(s, V)) + 1
    BY <1>2, <1>3, FS_AddElement
  <2> QED
    BY <1>4, <2>1, <2>2 DEF NumberIn, t, OneIn
<1>5. CASE e \notin V
  <2>1. At(t, V) = At(s, V)
    BY <1>1, <1>5 DEF At, n
  <2> QED
    BY <1>2, <1>5, <2>1 DEF NumberIn, t, OneIn
<1> QED
  BY <1>4, <1>5

\* Taking the first element.
LEMMA NumberInTail ==
  ASSUME NEW S, NEW s \in Seq(S), s # <<>>, NEW V
  PROVE  /\ NumberIn(Tail(s), V) \in Nat
         /\ NumberIn(s, V) = NumberIn(Tail(s), V) + OneIn(Head(s), V)
<1> DEFINE t == Tail(s)
           A == At(t, V)
           B == At(s, V) \ {1}
           f == [i \in A |-> i + 1]
<1>1. /\ Len(s) \in Nat /\ Len(s) > 0 /\ t \in Seq(S) /\ Len(t) = Len(s) - 1
      /\ Head(s) = s[1] /\ \A i \in 1..Len(t) : t[i] = s[i + 1]
  BY TailProps
<1>2. IsFiniteSet(At(s, V)) /\ NumberIn(s, V) \in Nat
  BY NumberInType
<1>3. IsFiniteSet(A) /\ NumberIn(t, V) \in Nat
  BY <1>1, NumberInType
<1> HIDE DEF t
<1>4. A \subseteq 1..Len(t) /\ \A i \in A : t[i] \in V
  BY DEF At
<1>5. f \in [A -> B]
  BY <1>1, <1>4 DEF At
<1>6. \A i, j \in A : f[i] = f[j] => i = j
  BY <1>1, <1>4
<1>7. \A j \in B : \E i \in A : f[i] = j
  <2> SUFFICES ASSUME NEW j \in B PROVE \E i \in A : f[i] = j
    OBVIOUS
  <2>1. j - 1 \in A /\ j \in Nat
    BY <1>1 DEF At
  <2>2. f[j - 1] = j
    BY <2>1
  <2> QED
    BY <2>1, <2>2
<1>8. ExistsBijection(A, B)
  <2>1. f \in Injection(A, B)
    BY <1>5, <1>6 DEF Injection, IsInjective
  <2>2. f \in Surjection(A, B)
    BY <1>5, <1>7 DEF Surjection
  <2> QED
    BY <2>1, <2>2 DEF ExistsBijection, Bijection
<1>9. Cardinality(B) = Cardinality(A)
  BY <1>3, <1>8, FS_Bijection
<1>10. 1 \in At(s, V) <=> Head(s) \in V
  BY <1>1 DEF At
<1>11. Cardinality(B) = IF 1 \in At(s, V) THEN Cardinality(At(s, V)) - 1 ELSE Cardinality(At(s, V))
  BY <1>2, FS_RemoveElement
<1> HIDE DEF A, B, f
<1> QED
  BY <1>2, <1>3, <1>9, <1>10, <1>11 DEF NumberIn, A, t, OneIn

\* Replacing one value of a function.
LEMMA NumberAtExcept ==
  ASSUME NEW S, IsFiniteSet(S), NEW x \in S, NEW V,
         NEW f, DOMAIN f = S, NEW g, DOMAIN g = S, \A y \in S \ {x} : g[y] = f[y]
  PROVE  /\ NumberAt(f, V) \in Nat
         /\ NumberAt(g, V) \in Nat
         /\ NumberAt(g, V) + OneIn(f[x], V) = NumberAt(f, V) + OneIn(g[x], V)
<1> DEFINE v == g[x]
           A == {y \in S : f[y] \in V}
           B == {y \in S : g[y] \in V}
<1>1. DOMAIN f = S /\ DOMAIN g = S /\ g[x] = v /\ \A y \in S \ {x} : g[y] = f[y]
  OBVIOUS
<1>2. NumberAt(f, V) = Cardinality(A) /\ NumberAt(g, V) = Cardinality(B)
  BY <1>1, Zenon DEF NumberAt
<1>3. A \in SUBSET S /\ B \in SUBSET S
  OBVIOUS
<1>4. IsFiniteSet(A) /\ IsFiniteSet(B)
  BY <1>3, FS_Subset
<1>5. A \ {x} = B \ {x}
  BY <1>1
<1>6. (x \in A <=> f[x] \in V) /\ (x \in B <=> v \in V)
  BY <1>1
<1> HIDE DEF A, B
<1>7. Cardinality(A) \in Nat /\ Cardinality(B) \in Nat
  BY <1>4, FS_CardinalityType
<1>8. /\ Cardinality(A \ {x}) = IF x \in A THEN Cardinality(A) - 1 ELSE Cardinality(A)
      /\ Cardinality(B \ {x}) = IF x \in B THEN Cardinality(B) - 1 ELSE Cardinality(B)
  BY <1>4, FS_RemoveElement
<1>9. Cardinality(B) + (IF f[x] \in V THEN 1 ELSE 0)
        = Cardinality(A) + (IF v \in V THEN 1 ELSE 0)
  <2> DEFINE a == Cardinality(A)
             b == Cardinality(B)
             c == Cardinality(A \ {x})
  <2>1. c = IF x \in A THEN a - 1 ELSE a
    BY <1>8, Zenon
  <2>2. c = IF x \in B THEN b - 1 ELSE b
    BY <1>5, <1>8, Zenon
  <2>3. a \in Nat /\ b \in Nat
    BY <1>7, Zenon
  <2> HIDE DEF a, b, c
  <2>4. b + (IF f[x] \in V THEN 1 ELSE 0) = a + (IF v \in V THEN 1 ELSE 0)
    BY <1>6, <2>1, <2>2, <2>3
  <2> QED
    BY <2>4 DEF a, b
<1> QED
  BY <1>2, <1>7, <1>9, Zenon DEF OneIn
=============================================================================
