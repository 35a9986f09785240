---------------------------- MODULE QueueCounts ----------------------------
(***************************************************************************)
(* Counting what a queue holds of one kind: what an element added at the   *)
(* end and one taken from the front do to the count; and what the parts of *)
(* a queue that is cut hold.  The proofs about the components that hand    *)
(* messages over by queues rest on these lemmas.                           *)
(***************************************************************************)
EXTENDS Integers, Sequences, SequenceTheorems, FunctionTheorems,
        FiniteSetTheorems, TLAPS

\* The places of a queue that hold one of S, and how many they are.
Places(q, S) == {k \in 1 .. Len(q) : q[k] \in S}

Count(q, S) == Cardinality(Places(q, S))

\* One more place at the end.
LEMMA OneMore ==
  ASSUME NEW n \in Nat, NEW S \in SUBSET (1 .. n)
  PROVE  /\ IsFiniteSet(S) /\ Cardinality(S) \in Nat
         /\ Cardinality(S \cup {n + 1}) = Cardinality(S) + 1
<1>1. IsFiniteSet(1 .. n) BY FS_Interval
<1>2. IsFiniteSet(S) BY <1>1, FS_Subset
<1>3. n + 1 \notin S OBVIOUS
<1>4. QED BY <1>2, <1>3, FS_AddElement, FS_CardinalityType

\* The first place is given up and the others move on by one.
LEMMA OneLess ==
  ASSUME NEW n \in Nat, NEW S \in SUBSET (1 .. n),
         NEW T, T = {k \in 1 .. n - 1 : k + 1 \in S}
  PROVE  /\ IsFiniteSet(T)
         /\ Cardinality(T) = IF 1 \in S THEN Cardinality(S) - 1 ELSE Cardinality(S)
<1>1. IsFiniteSet(S) /\ Cardinality(S) \in Nat BY OneMore
<1> DEFINE R == S \ {1}
           f == [k \in R |-> k - 1]
<1>2. IsFiniteSet(R) /\ Cardinality(R) \in Nat
  BY <1>1, FS_RemoveElement, FS_CardinalityType, FS_Subset
<1>3. \A k \in R : k \in 2 .. n /\ k - 1 \in T
  <2>1. \A k \in R : k \in 2 .. n /\ (k - 1) + 1 = k /\ k - 1 \in 1 .. n - 1
    OBVIOUS
  <2>2. QED BY <2>1
<1>4. f \in Bijection(R, T)
  <2>1. f \in [R -> T] BY <1>3
  <2>2. \A j, k \in R : f[j] = f[k] => j = k BY <1>3
  <2>3. \A t \in T : \E k \in R : f[k] = t
    <3>1. ASSUME NEW t \in T PROVE \E k \in R : f[k] = t
      <4>1. t + 1 \in R /\ (t + 1) - 1 = t OBVIOUS
      <4>2. f[t + 1] = t BY <4>1
      <4>3. QED BY <4>1, <4>2
    <3>2. QED BY <3>1
  <2> HIDE DEF f
  <2>4. QED BY <2>1, <2>2, <2>3, Fun_IsBij
<1>5. ExistsBijection(R, T) BY <1>4 DEF ExistsBijection
<1>6. IsFiniteSet(T) /\ Cardinality(T) = Cardinality(R)
  BY <1>2, <1>5, FS_Bijection
<1>7. Cardinality(R) = IF 1 \in S THEN Cardinality(S) - 1 ELSE Cardinality(S)
  BY <1>1, FS_RemoveElement
<1>8. QED BY <1>6, <1>7

\* The count is a number, and zero when no place holds one of S.
LEMMA CountNat ==
  ASSUME NEW X, NEW q \in Seq(X), NEW S
  PROVE  /\ Len(q) \in Nat /\ Places(q, S) \in SUBSET (1 .. Len(q))
         /\ IsFiniteSet(Places(q, S)) /\ Count(q, S) \in Nat
         /\ Count(q, S) = 0 <=> \A k \in 1 .. Len(q) : q[k] \notin S
<1>1. Len(q) \in Nat BY LenProperties
<1>2. Places(q, S) \in SUBSET (1 .. Len(q)) BY DEF Places
<1>3. IsFiniteSet(Places(q, S)) /\ Cardinality(Places(q, S)) \in Nat
  BY <1>1, <1>2, OneMore
<1>4. Cardinality(Places(q, S)) = 0 <=> Places(q, S) = {}
  BY <1>3, FS_EmptySet
<1>5. QED BY <1>1, <1>2, <1>3, <1>4 DEF Count, Places

\* An element added at the end is counted.
LEMMA CountAppend ==
  ASSUME NEW X, NEW q \in Seq(X), NEW x \in X, NEW S
  PROVE  /\ Append(q, x) \in Seq(X) /\ Len(Append(q, x)) = Len(q) + 1
         /\ \A k \in 1 .. Len(Append(q, x)) :
              \/ Append(q, x)[k] = x
              \/ k \in 1 .. Len(q) /\ Append(q, x)[k] = q[k]
         /\ Count(Append(q, x), S) = Count(q, S) + (IF x \in S THEN 1 ELSE 0)
<1> DEFINE n == Len(q)
           p == Append(q, x)
<1>1. n \in Nat BY LenProperties
<1>2. /\ p \in Seq(X) /\ Len(p) = n + 1 /\ p[n + 1] = x
      /\ \A k \in 1 .. n : p[k] = q[k]
  BY AppendProperties
<1>3. \A k \in 1 .. n + 1 : k \in 1 .. n \/ k = n + 1 BY <1>1
<1>4. Places(q, S) \in SUBSET (1 .. n) /\ Count(q, S) \in Nat BY CountNat
<1> HIDE DEF p, n
<1>5. CASE x \in S
  <2>1. Places(p, S) = Places(q, S) \cup {n + 1}
    BY <1>1, <1>2, <1>3, <1>5 DEF Places, n
  <2>2. Count(p, S) = Count(q, S) + 1 BY <1>1, <1>4, <2>1, OneMore DEF Count
  <2>3. QED BY <1>1, <1>2, <1>3, <1>5, <2>2 DEF p, n
<1>6. CASE x \notin S
  <2>1. Places(p, S) = Places(q, S)
    BY <1>1, <1>2, <1>3, <1>6 DEF Places, n
  <2>2. Count(p, S) = Count(q, S) BY <2>1 DEF Count
  <2>3. QED BY <1>1, <1>2, <1>3, <1>4, <1>6, <2>2 DEF p, n
<1>7. QED BY <1>5, <1>6

\* An element taken from the front is not counted any more.
LEMMA CountTail ==
  ASSUME NEW X, NEW q \in Seq(X), q # <<>>, NEW S
  PROVE  /\ Tail(q) \in Seq(X) /\ Len(Tail(q)) = Len(q) - 1
         /\ Head(q) = q[1] /\ q[1] \in X /\ 1 \in 1 .. Len(q)
         /\ \A k \in 1 .. Len(Tail(q)) :
              k + 1 \in 1 .. Len(q) /\ Tail(q)[k] = q[k + 1]
         /\ Count(Tail(q), S) = Count(q, S) - (IF q[1] \in S THEN 1 ELSE 0)
<1> DEFINE n == Len(q)
           p == Tail(q)
<1>1. n \in Nat BY LenProperties
<1>2. n > 0 BY <1>1, EmptySeq
<1>3. /\ p \in Seq(X) /\ Len(p) = n - 1
      /\ \A k \in 1 .. n - 1 : p[k] = q[k + 1]
  BY HeadTailProperties
<1>4. Head(q) = q[1] /\ q[1] \in X /\ 1 \in 1 .. n
  BY <1>1, <1>2, ElementOfSeq
<1>5. \A k \in 1 .. n - 1 : k + 1 \in 1 .. n BY <1>1
<1> HIDE DEF p, n
<1>6. Places(p, S) = {k \in 1 .. n - 1 : k + 1 \in Places(q, S)}
  BY <1>3, <1>5 DEF Places, n
<1>7. Places(q, S) \in SUBSET (1 .. n) /\ Count(q, S) \in Nat
  BY CountNat DEF n
<1>8. 1 \in Places(q, S) <=> q[1] \in S BY <1>4 DEF Places, n
<1>9. Count(p, S) = IF 1 \in Places(q, S) THEN Count(q, S) - 1 ELSE Count(q, S)
  BY <1>1, <1>6, <1>7, OneLess DEF Count
<1>10. QED BY <1>1, <1>3, <1>4, <1>5, <1>7, <1>8, <1>9 DEF p, n

\* The places from f on that hold one of S.
CountFrom(q, f, S) == Cardinality({k \in f .. Len(q) : q[k] \in S})

\* They are no more than the places there are, and passing one by loses at
\* most one.
LEMMA CountFromFacts ==
  ASSUME NEW X, NEW q \in Seq(X), NEW f \in 1 .. Len(q) + 1, NEW S
  PROVE  /\ CountFrom(q, f, S) \in Nat
         /\ CountFrom(q, f, S) <= Len(q) - f + 1
         /\ CountFrom(q, 1, S) = Count(q, S)
         /\ f = Len(q) + 1 => CountFrom(q, f, S) = 0
         /\ f # Len(q) + 1 => CountFrom(q, f, S) <= CountFrom(q, f + 1, S) + 1
<1> DEFINE n == Len(q)
           R == {k \in f .. n : q[k] \in S}
           T == {k \in f + 1 .. n : q[k] \in S}
<1>1. n \in Nat BY LenProperties
<1>2. CountFrom(q, 1, S) = Count(q, S) BY DEF CountFrom, Count, Places
<1>3. /\ IsFiniteSet(f .. n) /\ IsFiniteSet(f + 1 .. n)
      /\ Cardinality(f .. n) = IF f > n THEN 0 ELSE n - f + 1
  <2>1. f \in Int /\ f + 1 \in Int /\ n \in Int BY <1>1
  <2> HIDE DEF n
  <2>2. /\ IsFiniteSet(f .. n)
        /\ Cardinality(f .. n) = IF f > n THEN 0 ELSE n - f + 1
    BY <2>1, FS_Interval
  <2>3. IsFiniteSet(f + 1 .. n) BY <2>1, FS_Interval
  <2>4. QED BY <2>2, <2>3
<1>4. Cardinality(f .. n) = n - f + 1 BY <1>1, <1>3
<1>5. /\ IsFiniteSet(R) /\ Cardinality(R) \in Nat
      /\ Cardinality(R) <= Cardinality(f .. n)
  BY <1>3, FS_Subset, FS_CardinalityType
<1>6. IsFiniteSet(T) /\ Cardinality(T) \in Nat
  BY <1>3, FS_Subset, FS_CardinalityType
<1>7. f = n + 1 => R = {} BY <1>1
<1>8. f = n + 1 => Cardinality(R) = 0 BY <1>7, FS_EmptySet
<1>9. R \subseteq T \cup {f} BY <1>1
<1>10. /\ IsFiniteSet(T \cup {f})
       /\ Cardinality(T \cup {f}) <= Cardinality(T) + 1
  <2>1. CASE f \in T
    <3>1. T \cup {f} = T BY <2>1
    <3>2. QED BY <1>6, <3>1
  <2>2. CASE f \notin T
    <3>1. /\ IsFiniteSet(T \cup {f})
          /\ Cardinality(T \cup {f}) = Cardinality(T) + 1
      BY <1>6, <2>2, FS_AddElement
    <3>2. QED BY <1>6, <3>1
  <2>3. QED BY <2>1, <2>2
<1>11. Cardinality(R) <= Cardinality(T \cup {f}) BY <1>9, <1>10, FS_Subset
<1>12. Cardinality(T \cup {f}) \in Nat BY <1>10, FS_CardinalityType
<1>13. CountFrom(q, f, S) = Cardinality(R) /\ CountFrom(q, f + 1, S) = Cardinality(T)
  BY DEF CountFrom
<1> HIDE DEF R, T
<1>14. Cardinality(R) <= Cardinality(T) + 1 BY <1>5, <1>6, <1>10, <1>11, <1>12
<1>15. QED BY <1>2, <1>4, <1>5, <1>8, <1>13, <1>14

\* The first n of a queue.
LEMMA FrontOf ==
  ASSUME NEW X, NEW q \in Seq(X), NEW n \in 1 .. Len(q)
  PROVE  /\ SubSeq(q, 1, n) \in Seq(X) /\ Len(SubSeq(q, 1, n)) = n
         /\ \A i \in 1 .. n : SubSeq(q, 1, n)[i] = q[i]
<1>1. Len(q) \in Nat BY LenProperties
<1>2. \A i \in 1 .. n : q[i] \in X
  <2>1. \A i \in 1 .. n : i \in 1 .. Len(q) BY <1>1
  <2>2. QED BY <2>1, ElementOfSeq
<1>3. /\ SubSeq(q, 1, n) \in Seq(X)
      /\ Len(SubSeq(q, 1, n)) = n
      /\ \A i \in 1 .. n - 1 + 1 : SubSeq(q, 1, n)[i] = q[1 + i - 1]
  BY <1>1, <1>2, SubSeqProperties
<1>4. QED BY <1>1, <1>3

\* What is left behind the first n, moved to the front.
LEMMA RestOf ==
  ASSUME NEW X, NEW q \in Seq(X), NEW n \in 1 .. Len(q)
  PROVE  /\ SubSeq(q, n + 1, Len(q)) \in Seq(X)
         /\ Len(SubSeq(q, n + 1, Len(q))) = Len(q) - n
         /\ \A i \in 1 .. Len(q) - n : SubSeq(q, n + 1, Len(q))[i] = q[i + n]
<1> DEFINE m == n + 1
           l == Len(q)
<1>1. m \in Int /\ l \in Int /\ \A i \in m .. l : q[i] \in X
  <2>1. l \in Nat BY LenProperties
  <2>2. \A i \in m .. l : i \in 1 .. l BY <2>1
  <2>3. QED BY <2>1, <2>2, ElementOfSeq
<1>2. /\ SubSeq(q, m, l) \in Seq(X)
      /\ Len(SubSeq(q, m, l)) = IF m <= l THEN l - m + 1 ELSE 0
      /\ \A i \in 1 .. l - m + 1 : SubSeq(q, m, l)[i] = q[m + i - 1]
  <2> HIDE DEF m, l
  <2>1. QED BY <1>1, SubSeqProperties
<1>3. \A i \in 1 .. l - n : m + i - 1 = i + n BY <1>1
<1>4. Len(SubSeq(q, m, l)) = l - n BY <1>1, <1>2
<1>5. \A i \in 1 .. l - n : SubSeq(q, m, l)[i] = q[i + n] BY <1>1, <1>2, <1>3
<1>6. QED BY <1>2, <1>4, <1>5

\* What is left of a queue cut behind its place n, moved to the front.
CutAt(q, n, r) ==
  Len(r) = Len(q) - n /\ \A k \in 1 .. Len(r) : r[k] = q[k + n]

\* The two parts hold together what the whole held.
LEMMA CountCut ==
  ASSUME NEW X, NEW q \in Seq(X), NEW r \in Seq(X), NEW n \in 0 .. Len(q),
         CutAt(q, n, r), NEW S
  PROVE  Count(q, S) = Cardinality({k \in 1 .. n : q[k] \in S}) + Count(r, S)
<1> DEFINE A == {k \in 1 .. n : q[k] \in S}
           B == Places(r, S)
           C == {k \in n + 1 .. Len(q) : q[k] \in S}
           f == [k \in B |-> k + n]
<1>1. /\ Len(q) \in Nat /\ n \in Nat /\ Len(r) \in Nat
      /\ Len(r) = Len(q) - n /\ \A k \in 1 .. Len(r) : r[k] = q[k + n]
  BY LenProperties DEF CutAt
<1>2. IsFiniteSet(A) /\ IsFiniteSet(C) /\ IsFiniteSet(B)
  <2>1. IsFiniteSet(1 .. n) /\ IsFiniteSet(n + 1 .. Len(q)) BY <1>1, FS_Interval
  <2>2. IsFiniteSet(B) BY CountNat
  <2>3. QED BY <2>1, <2>2, FS_Subset
<1>3. f \in Bijection(B, C)
  <2>1. \A k \in B : k \in 1 .. Len(r) /\ k + n \in C
    <3>1. \A k \in 1 .. Len(r) : k + n \in n + 1 .. Len(q) BY <1>1
    <3>2. QED BY <1>1, <3>1 DEF Places
  <2>2. f \in [B -> C] BY <2>1
  <2>3. \A j, k \in B : f[j] = f[k] => j = k BY <1>1, <2>1
  <2>4. \A t \in C : \E k \in B : f[k] = t
    <3>1. ASSUME NEW t \in C PROVE t - n \in B /\ (t - n) + n = t
      <4>1. t - n \in 1 .. Len(r) /\ (t - n) + n = t BY <1>1
      <4>2. QED BY <1>1, <4>1 DEF Places
    <3>2. \A t \in C : f[t - n] = t BY <3>1
    <3> HIDE DEF f, B, C
    <3>3. QED BY <3>1, <3>2
  <2> HIDE DEF f, B, C
  <2>5. QED BY <2>2, <2>3, <2>4, Fun_IsBij
<1>4. Cardinality(C) = Cardinality(B)
  <2>1. ExistsBijection(B, C) BY <1>3 DEF ExistsBijection
  <2>2. QED BY <1>2, <2>1, FS_Bijection
<1>5. Places(q, S) = A \cup C
  <2>1. \A k \in 1 .. Len(q) : k \in 1 .. n \/ k \in n + 1 .. Len(q) BY <1>1
  <2>2. \A k \in 1 .. n : k \in 1 .. Len(q) BY <1>1
  <2>3. \A k \in n + 1 .. Len(q) : k \in 1 .. Len(q) BY <1>1
  <2>4. QED BY <2>1, <2>2, <2>3 DEF Places
<1>6. A \cap C = {}
  <2>1. \A k \in 1 .. n : k \notin n + 1 .. Len(q) BY <1>1
  <2>2. QED BY <2>1
<1>7. Cardinality(A \cup C) = Cardinality(A) + Cardinality(C)
  <2> HIDE DEF A, C
  <2>1. /\ Cardinality(A \cup C)
             = Cardinality(A) + Cardinality(C) - Cardinality(A \cap C)
    BY <1>2, FS_Union
  <2>2. Cardinality(A \cap C) = 0 BY <1>6, FS_EmptySet
  <2>3. Cardinality(A) \in Nat /\ Cardinality(C) \in Nat
    BY <1>2, FS_CardinalityType
  <2>4. QED BY <2>1, <2>2, <2>3
<1>8. QED BY <1>4, <1>5, <1>7 DEF Count
=============================================================================
