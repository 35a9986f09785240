------------------------ MODULE DefaultServiceProofs ------------------------
(***************************************************************************)
(* Proofs about DefaultService for any number of nodes, queue, pipe and    *)
(* backlog: the registry, the walk of a broadcast over it, the wakes of    *)
(* the dispatcher and the broadcasts that go round.                        *)
(***************************************************************************)
EXTENDS DefaultService, QueueCounts

-----------------------------------------------------------------------------
(* Sequences without repetitions.                                          *)

NoDup(s) == \A i, j \in 1 .. Len(s) : s[i] = s[j] => i = j

Elems(s) == {s[i] : i \in 1 .. Len(s)}

\* What RemoveAt returns, place by place.
LEMMA RemoveAtPlaces ==
  ASSUME NEW X, NEW s \in Seq(X), NEW i \in 1 .. Len(s)
  PROVE  /\ RemoveAt(s, i) \in Seq(X)
         /\ Len(RemoveAt(s, i)) = Len(s) - 1
         /\ \A k \in 1 .. Len(s) - 1 :
              RemoveAt(s, i)[k] = IF k < i THEN s[k] ELSE s[k + 1]
<1> DEFINE n == Len(s)
           a == SubSeq(s, 1, i - 1)
           b == SubSeq(s, i + 1, n)
<1>1. n \in Nat /\ i \in 1 .. n BY LenProperties
<1>2. \A k \in 1 .. n : s[k] \in X BY ElementOfSeq
<1>3. /\ a \in Seq(X) /\ Len(a) = i - 1
      /\ \A k \in 1 .. i - 1 : a[k] = s[k]
  <2> DEFINE m == i - 1
  <2>1. m \in Int /\ m >= 0 /\ \A k \in 1 .. m : s[k] \in X BY <1>1, <1>2
  <2> HIDE DEF m, n
  <2>2. /\ SubSeq(s, 1, m) \in Seq(X)
        /\ Len(SubSeq(s, 1, m)) = (IF 1 <= m THEN m - 1 + 1 ELSE 0)
        /\ \A k \in 1 .. m - 1 + 1 : SubSeq(s, 1, m)[k] = s[1 + k - 1]
    BY <2>1, SubSeqProperties
  <2>3. /\ SubSeq(s, 1, m) \in Seq(X) /\ Len(SubSeq(s, 1, m)) = m
        /\ \A k \in 1 .. m : SubSeq(s, 1, m)[k] = s[k]
    <3>1. \A k \in 1 .. m : 1 + k - 1 = k /\ k \in 1 .. m - 1 + 1 BY <2>1
    <3>2. Len(SubSeq(s, 1, m)) = m BY <2>1, <2>2
    <3>3. QED BY <2>2, <3>1, <3>2
  <2>4. QED BY <2>3 DEF m
<1>4. /\ b \in Seq(X) /\ Len(b) = n - i
      /\ \A k \in 1 .. n - i : b[k] = s[k + i]
  <2> DEFINE m == i + 1
  <2>1. m \in Int /\ n \in Int /\ n - m + 1 = n - i
    BY <1>1
  <2>2. \A k \in m .. n : s[k] \in X BY <1>1, <1>2
  <2>3. \A k \in 1 .. n - i : m + k - 1 = k + i BY <1>1
  <2>4. (IF m <= n THEN n - m + 1 ELSE 0) = n - i BY <1>1
  <2> HIDE DEF m, n
  <2>5. /\ SubSeq(s, m, n) \in Seq(X)
        /\ Len(SubSeq(s, m, n)) = (IF m <= n THEN n - m + 1 ELSE 0)
        /\ \A k \in 1 .. n - m + 1 : SubSeq(s, m, n)[k] = s[m + k - 1]
    BY <2>1, <2>2, SubSeqProperties
  <2>6. /\ SubSeq(s, m, n) \in Seq(X) /\ Len(SubSeq(s, m, n)) = n - i
        /\ \A k \in 1 .. n - i : SubSeq(s, m, n)[k] = s[k + i]
    BY <2>1, <2>3, <2>4, <2>5
  <2>7. QED BY <2>6 DEF m
<1> HIDE DEF a, b, n
<1>5. /\ a \o b \in Seq(X) /\ Len(a \o b) = Len(a) + Len(b)
      /\ \A k \in 1 .. Len(a) + Len(b) :
           (a \o b)[k] = IF k <= Len(a) THEN a[k] ELSE b[k - Len(a)]
  BY <1>3, <1>4, ConcatProperties
<1>6. RemoveAt(s, i) = a \o b BY DEF RemoveAt, a, b, n
<1>7. Len(a) + Len(b) = n - 1 BY <1>1, <1>3, <1>4
<1>8. ASSUME NEW k \in 1 .. n - 1
      PROVE  (a \o b)[k] = IF k < i THEN s[k] ELSE s[k + 1]
  <2>1. CASE k < i BY <1>1, <1>3, <1>5, <1>7, <2>1
  <2>2. CASE ~(k < i)
    <3> DEFINE j == k - (i - 1)
    <3>1. j \in 1 .. n - i /\ j + i = k + 1 /\ ~(k <= i - 1) BY <1>1, <2>2
    <3> HIDE DEF j
    <3>2. (a \o b)[k] = b[j] BY <1>3, <1>5, <1>7, <3>1 DEF j
    <3>3. QED BY <1>4, <2>2, <3>1, <3>2
  <2>3. QED BY <2>1, <2>2
<1>9. QED BY <1>5, <1>6, <1>7, <1>8 DEF n

\* Removing one place of a sequence without repetitions removes one element.
LEMMA RemoveAtElems ==
  ASSUME NEW X, NEW s \in Seq(X), NEW i \in 1 .. Len(s), NoDup(s)
  PROVE  /\ RemoveAt(s, i) \in Seq(X) /\ NoDup(RemoveAt(s, i))
         /\ Len(RemoveAt(s, i)) = Len(s) - 1
         /\ Elems(RemoveAt(s, i)) = Elems(s) \ {s[i]}
<1> DEFINE n == Len(s)
           r == RemoveAt(s, i)
<1>1. n \in Nat /\ i \in 1 .. n BY LenProperties
<1>2. /\ r \in Seq(X) /\ Len(r) = n - 1
      /\ \A k \in 1 .. n - 1 : r[k] = IF k < i THEN s[k] ELSE s[k + 1]
  BY RemoveAtPlaces
<1>3. \A j, k \in 1 .. n : s[j] = s[k] => j = k BY DEF NoDup
<1> HIDE DEF n, r
<1>4. NoDup(r) BY <1>1, <1>2, <1>3 DEF NoDup
<1>5. \A k \in 1 .. n - 1 : r[k] \in Elems(s) /\ r[k] # s[i]
  <2>1. ASSUME NEW k \in 1 .. n - 1 PROVE r[k] \in Elems(s) /\ r[k] # s[i]
    <3>1. CASE k < i
      <4>1. k \in 1 .. n /\ k # i /\ r[k] = s[k] BY <1>1, <1>2, <3>1
      <4>2. QED BY <1>1, <1>3, <4>1 DEF Elems, n
    <3>2. CASE ~(k < i)
      <4>1. k + 1 \in 1 .. n /\ k + 1 # i /\ r[k] = s[k + 1]
        BY <1>1, <1>2, <3>2
      <4>2. QED BY <1>1, <1>3, <4>1 DEF Elems, n
    <3>3. QED BY <3>1, <3>2
  <2>2. QED BY <2>1
<1>6. \A j \in 1 .. n : s[j] # s[i] => s[j] \in Elems(r)
  <2>1. ASSUME NEW j \in 1 .. n, s[j] # s[i] PROVE s[j] \in Elems(r)
    <3>1. CASE j < i
      <4>1. j \in 1 .. n - 1 /\ r[j] = s[j] BY <1>1, <1>2, <3>1
      <4>2. QED BY <1>2, <4>1 DEF Elems
    <3>2. CASE j > i
      <4> DEFINE k == j - 1
      <4>1. k \in 1 .. n - 1 /\ ~(k < i) /\ k + 1 = j BY <1>1, <3>2
      <4> HIDE DEF k
      <4>2. r[k] = s[j] BY <1>2, <4>1
      <4>3. QED BY <1>2, <4>1, <4>2 DEF Elems
    <3>3. j < i \/ j > i BY <1>1, <2>1
    <3>4. QED BY <3>1, <3>2, <3>3
  <2>2. QED BY <2>1
<1>7. Elems(r) = Elems(s) \ {s[i]}
  <2>1. Elems(r) \subseteq Elems(s) \ {s[i]}
    BY <1>2, <1>5 DEF Elems
  <2>2. Elems(s) \ {s[i]} \subseteq Elems(r)
    BY <1>6 DEF Elems, n
  <2>3. QED BY <2>1, <2>2
<1>8. QED BY <1>2, <1>4, <1>7 DEF n, r

\* A new element at the head.
LEMMA AtHead ==
  ASSUME NEW X, NEW s \in Seq(X), NEW x \in X, NoDup(s), x \notin Elems(s)
  PROVE  /\ <<x>> \o s \in Seq(X) /\ NoDup(<<x>> \o s)
         /\ Len(<<x>> \o s) = Len(s) + 1
         /\ Elems(<<x>> \o s) = Elems(s) \cup {x}
<1> DEFINE n == Len(s)
           h == <<x>>
           r == h \o s
<1>1. n \in Nat BY LenProperties
<1>2. h \in Seq(X) /\ Len(h) = 1 /\ h[1] = x OBVIOUS
<1> HIDE DEF h
<1>3. /\ r \in Seq(X) /\ Len(r) = 1 + n
      /\ \A k \in 1 .. 1 + n : r[k] = IF k <= 1 THEN h[k] ELSE s[k - 1]
  <2>1. /\ h \o s \in Seq(X) /\ Len(h \o s) = Len(h) + Len(s)
        /\ \A k \in 1 .. Len(h) + Len(s) :
             (h \o s)[k] = IF k <= Len(h) THEN h[k] ELSE s[k - Len(h)]
    BY <1>2, ConcatProperties
  <2>2. QED BY <1>2, <2>1
<1> HIDE DEF n, r
<1>4. r[1] = x BY <1>1, <1>2, <1>3
<1>5. \A k \in 2 .. n + 1 : k - 1 \in 1 .. n /\ r[k] = s[k - 1]
  BY <1>1, <1>3
<1>6. \A k \in 1 .. n : k + 1 \in 1 .. Len(r) /\ r[k + 1] = s[k]
  <2>1. ASSUME NEW k \in 1 .. n PROVE k + 1 \in 1 .. Len(r) /\ r[k + 1] = s[k]
    <3> DEFINE j == k + 1
    <3>1. j \in 2 .. n + 1 /\ j - 1 = k /\ j \in 1 .. Len(r) BY <1>1, <1>3
    <3> HIDE DEF j
    <3>2. r[j] = s[k] BY <1>5, <3>1
    <3>3. QED BY <3>1, <3>2 DEF j
  <2>2. QED BY <2>1
<1>7. \A k \in 1 .. Len(r) : k = 1 \/ k \in 2 .. n + 1 BY <1>1, <1>3
<1>8. \A k \in 1 .. n : s[k] \in Elems(s) /\ s[k] # x BY DEF Elems, n
<1>9. NoDup(r)
  <2>1. \A i, j \in 2 .. n + 1 : r[i] = r[j] => i = j
    BY <1>1, <1>5 DEF NoDup, n
  <2>2. \A i \in 2 .. n + 1 : r[i] # r[1] BY <1>4, <1>5, <1>8
  <2>3. QED BY <1>7, <2>1, <2>2 DEF NoDup
<1>10. Elems(r) = Elems(s) \cup {x}
  <2>1. Elems(r) \subseteq Elems(s) \cup {x}
    <3>1. \A k \in 1 .. Len(r) : r[k] = x \/ r[k] \in Elems(s)
      BY <1>4, <1>5, <1>7, <1>8
    <3>2. \A y \in Elems(r) : y = x \/ y \in Elems(s) BY <3>1 DEF Elems
    <3>3. QED BY <3>2
  <2>2. x \in Elems(r)
    <3>1. 1 \in 1 .. Len(r) BY <1>1, <1>3
    <3>2. QED BY <1>4, <3>1 DEF Elems
  <2>3. Elems(s) \subseteq Elems(r) BY <1>6 DEF Elems, n
  <2>4. QED BY <2>1, <2>2, <2>3
<1>11. QED BY <1>1, <1>3, <1>9, <1>10 DEF n, r, h

-----------------------------------------------------------------------------
(* The walk of a broadcast: what it has tried and what is left.            *)

\* The tail of a sequence is a sequence.
LEMMA RestIsSeq ==
  ASSUME NEW X, NEW r \in Seq(X), NEW c \in 1 .. Len(r) + 1
  PROVE  /\ SubSeq(r, c, Len(r)) \in Seq(X)
         /\ Len(SubSeq(r, c, Len(r))) = Len(r) - c + 1
         /\ \A k \in 1 .. Len(r) - c + 1 :
              SubSeq(r, c, Len(r))[k] = r[c + k - 1]
<1> DEFINE n == Len(r)
<1>1. n \in Int /\ c \in Int /\ \A k \in c .. n : k \in 1 .. n
  BY LenProperties
<1>2. \A k \in c .. n : r[k] \in X BY <1>1, ElementOfSeq
<1>3. (IF c <= n THEN n - c + 1 ELSE 0) = n - c + 1 BY <1>1
<1> HIDE DEF n
<1>4. /\ SubSeq(r, c, n) \in Seq(X)
      /\ Len(SubSeq(r, c, n)) = (IF c <= n THEN n - c + 1 ELSE 0)
      /\ \A k \in 1 .. n - c + 1 : SubSeq(r, c, n)[k] = r[c + k - 1]
  BY <1>1, <1>2, SubSeqProperties
<1>5. QED BY <1>3, <1>4 DEF n

\* A place that has been tried and stays moves from what is left to what has
\* been tried.
LEMMA WalkGoesOn ==
  ASSUME NEW X, NEW v \in Seq(X), NEW r \in Seq(X), NEW c \in 1 .. Len(r)
  PROVE  Append(v, r[c]) \o SubSeq(r, c + 1, Len(r))
           = v \o SubSeq(r, c, Len(r))
<1> DEFINE n == Len(r)
           l == Len(v)
           d == c + 1
           t == SubSeq(r, d, n)
           u == SubSeq(r, c, n)
           w == Append(v, r[c])
<1>1. n \in Nat /\ l \in Nat /\ c \in 1 .. n + 1 /\ c \in 1 .. n /\ d = c + 1
  BY LenProperties
<1>2. r[c] \in X BY ElementOfSeq
<1>3. /\ w \in Seq(X) /\ Len(w) = l + 1 /\ w[l + 1] = r[c]
      /\ \A k \in 1 .. l : w[k] = v[k]
  BY <1>2, AppendProperties
<1> HIDE DEF d
<1>4. /\ u \in Seq(X) /\ Len(u) = n - c + 1
      /\ \A k \in 1 .. n - c + 1 : u[k] = r[c + k - 1]
  BY <1>1, RestIsSeq
<1>5. /\ t \in Seq(X) /\ Len(t) = n - d + 1
      /\ \A k \in 1 .. n - d + 1 : t[k] = r[d + k - 1]
  <2>1. d \in 1 .. n + 1 BY <1>1
  <2>2. QED BY <2>1, RestIsSeq
<1> DEFINE a == w \o t
           b == v \o u
<1> HIDE DEF w, t, u
<1>6. /\ a \in Seq(X) /\ Len(a) = Len(w) + Len(t)
      /\ \A k \in 1 .. Len(w) + Len(t) :
           a[k] = IF k <= Len(w) THEN w[k] ELSE t[k - Len(w)]
  BY <1>3, <1>5, ConcatProperties
<1>7. /\ b \in Seq(X) /\ Len(b) = l + Len(u)
      /\ \A k \in 1 .. l + Len(u) :
           b[k] = IF k <= l THEN v[k] ELSE u[k - l]
  BY <1>4, ConcatProperties
<1> HIDE DEF a, b, l, n
<1>8. Len(a) = l + n - c + 1 /\ Len(b) = l + n - c + 1
  BY <1>1, <1>3, <1>4, <1>5, <1>6, <1>7
<1>9. ASSUME NEW k \in 1 .. Len(a) PROVE a[k] = b[k]
  <2>1. k \in Int /\ 1 <= k /\ k <= l + n - c + 1 BY <1>1, <1>8
  <2>2. CASE k <= l
    <3>1. /\ k \in 1 .. l /\ k <= Len(w)
          /\ k \in 1 .. Len(w) + Len(t) /\ k \in 1 .. l + Len(u)
      BY <1>1, <1>3, <1>6, <1>7, <1>8, <2>1, <2>2
    <3>2. a[k] = w[k] BY <1>6, <3>1
    <3>3. b[k] = v[k] BY <1>7, <2>2, <3>1
    <3>4. w[k] = v[k] BY <1>3, <3>1 DEF l
    <3>5. QED BY <3>2, <3>3, <3>4
  <2>3. CASE k = l + 1
    <3>1. a[k] = r[c]
      <4>1. k <= Len(w) /\ k \in 1 .. Len(w) + Len(t)
        BY <1>1, <1>3, <1>6, <2>1, <2>3
      <4>2. a[k] = w[k] BY <1>6, <4>1
      <4>3. QED BY <1>3, <2>3, <4>2 DEF l
    <3>2. b[k] = u[1]
      <4>1. ~(k <= l) /\ k - l = 1 /\ k \in 1 .. l + Len(u)
        BY <1>1, <1>7, <1>8, <2>1, <2>3
      <4>2. QED BY <1>7, <4>1
    <3>3. u[1] = r[c]
      <4>1. 1 \in 1 .. n - c + 1 /\ c + 1 - 1 = c BY <1>1
      <4>2. QED BY <1>4, <4>1
    <3>4. QED BY <3>1, <3>2, <3>3
  <2>4. CASE k > l + 1
    <3> DEFINE i == k - (l + 1)
               j == k - l
    <3>1. /\ i \in 1 .. n - d + 1 /\ j \in 1 .. n - c + 1
          /\ d + i - 1 = c + j - 1
      BY <1>1, <2>1, <2>4
    <3>2. a[k] = t[i]
      <4>1. ~(k <= Len(w)) /\ k - Len(w) = i /\ k \in 1 .. Len(w) + Len(t)
        BY <1>1, <1>3, <1>6, <2>1, <2>4
      <4>2. QED BY <1>6, <4>1
    <3>3. b[k] = u[j]
      <4>1. ~(k <= l) /\ k \in 1 .. l + Len(u)
        BY <1>1, <1>7, <1>8, <2>1, <2>4
      <4>2. QED BY <1>7, <4>1
    <3> HIDE DEF i, j
    <3>4. t[i] = r[d + i - 1] /\ u[j] = r[c + j - 1] BY <1>4, <1>5, <3>1
    <3>5. QED BY <3>1, <3>2, <3>3, <3>4
  <2>5. k <= l \/ k = l + 1 \/ k > l + 1 BY <1>1, <2>1
  <2>6. QED BY <2>2, <2>3, <2>4, <2>5
<1>10. a = b BY <1>6, <1>7, <1>8, <1>9, SeqEqual
<1>11. QED BY <1>10 DEF a, b, d, l, n, t, u, w

\* A place that is removed leaves the places behind it.
LEMMA WalkAfterRemoval ==
  ASSUME NEW X, NEW r \in Seq(X), NEW c \in 1 .. Len(r)
  PROVE  SubSeq(RemoveAt(r, c), c, Len(RemoveAt(r, c)))
           = SubSeq(r, c + 1, Len(r))
<1> DEFINE n == Len(r)
           q == RemoveAt(r, c)
           d == c + 1
           a == SubSeq(q, c, Len(q))
           b == SubSeq(r, d, n)
<1>1. n \in Nat /\ c \in 1 .. n /\ d = c + 1 BY LenProperties
<1>2. /\ q \in Seq(X) /\ Len(q) = n - 1
      /\ \A k \in 1 .. n - 1 : q[k] = IF k < c THEN r[k] ELSE r[k + 1]
  BY RemoveAtPlaces
<1> HIDE DEF q, d
<1>3. c \in 1 .. Len(q) + 1 /\ d \in 1 .. n + 1 BY <1>1, <1>2
<1>4. /\ a \in Seq(X) /\ Len(a) = Len(q) - c + 1
      /\ \A k \in 1 .. Len(q) - c + 1 : a[k] = q[c + k - 1]
  BY <1>2, <1>3, RestIsSeq
<1>5. /\ b \in Seq(X) /\ Len(b) = n - d + 1
      /\ \A k \in 1 .. n - d + 1 : b[k] = r[d + k - 1]
  BY <1>3, RestIsSeq
<1> HIDE DEF a, b, n
<1>6. Len(a) = n - c /\ Len(b) = n - c BY <1>1, <1>2, <1>4, <1>5
<1>7. ASSUME NEW k \in 1 .. Len(a) PROVE a[k] = b[k]
  <2> DEFINE j == c + k - 1
  <2>1. j \in 1 .. n - 1 /\ ~(j < c) /\ j + 1 = d + k - 1
    BY <1>1, <1>6
  <2>2. k \in 1 .. Len(q) - c + 1 /\ k \in 1 .. n - d + 1
    BY <1>1, <1>2, <1>6
  <2>3. a[k] = q[j] /\ b[k] = r[d + k - 1] BY <1>4, <1>5, <2>2
  <2> HIDE DEF j
  <2>4. q[j] = r[j + 1] BY <1>2, <2>1
  <2>5. QED BY <2>1, <2>3, <2>4
<1>8. a = b BY <1>4, <1>5, <1>6, <1>7, SeqEqual
<1>9. QED BY <1>8 DEF a, b, d, n, q

\* Where nothing is repeated, the place being tried has not been tried.
LEMMA NotTriedBefore ==
  ASSUME NEW X, NEW v \in Seq(X), NEW r \in Seq(X), NEW c \in 1 .. Len(r),
         NoDup(v \o SubSeq(r, c, Len(r)))
  PROVE  \A j \in 1 .. Len(v) : v[j] # r[c]
<1> DEFINE n == Len(r)
           t == SubSeq(r, c, n)
           w == v \o t
           l == Len(v)
<1>1. n \in Nat /\ l \in Nat /\ c \in 1 .. n + 1 /\ c \in 1 .. n
  BY LenProperties
<1>2. /\ t \in Seq(X) /\ Len(t) = n - c + 1
      /\ \A k \in 1 .. n - c + 1 : t[k] = r[c + k - 1]
  BY <1>1, RestIsSeq
<1>3. c + 1 - 1 = c /\ 1 \in 1 .. n - c + 1 BY <1>1
<1>4. t[1] = r[c] BY <1>2, <1>3
<1> HIDE DEF t
<1>5. /\ Len(w) = l + Len(t)
      /\ \A k \in 1 .. l + Len(t) :
           w[k] = IF k <= l THEN v[k] ELSE t[k - l]
  BY <1>2, ConcatProperties
<1>6. \A j, k \in 1 .. Len(w) : w[j] = w[k] => j = k BY DEF NoDup, w, t, n
<1> HIDE DEF w, l, n
<1>7. l + 1 \in 1 .. Len(w) /\ w[l + 1] = r[c]
  <2> DEFINE m == l + 1
  <2>1. m \in 1 .. l + Len(t) /\ ~(m <= l) /\ m - l = 1 BY <1>1, <1>2
  <2> HIDE DEF m
  <2>2. w[m] = t[1] BY <1>5, <2>1
  <2>3. QED BY <1>4, <1>5, <2>1, <2>2 DEF m
<1>8. \A j \in 1 .. l : j \in 1 .. Len(w) /\ w[j] = v[j] /\ j # l + 1
  BY <1>1, <1>2, <1>5
<1>9. QED BY <1>6, <1>7, <1>8 DEF l

-----------------------------------------------------------------------------
(* What join() and drop() make of the registry.                            *)

\* drop(): the entry of the name is gone, the others are left, and the count
\* follows.
LEMMA WithoutKeeps ==
  ASSUME reg \in Seq(Name), RegistryInv, NEW n
  PROVE  /\ Without(n) \in Seq(Name) /\ NoDup(Without(n))
         /\ Len(Without(n)) = CountWithout(n)
         /\ Elems(Without(n)) = Names \ {n}
<1>1. NoDup(reg) /\ mNumOfNode = Len(reg) /\ Names = Elems(reg)
  BY DEF RegistryInv, NoDup, Names, Elems
<1>2. CASE Registered(n)
  <2>1. \E i \in 1 .. Len(reg) : reg[i] = n BY <1>2 DEF Registered
  <2>2. \E i \in 1 .. Len(reg) :
          reg[i] = n /\ \A j \in 1 .. i - 1 : reg[j] # n
    <3>1. PICK i \in 1 .. Len(reg) : reg[i] = n BY <2>1
    <3>2. \A j \in 1 .. i - 1 : j \in 1 .. Len(reg) /\ j # i
      BY <3>1, LenProperties
    <3>3. \A j \in 1 .. i - 1 : reg[j] # n BY <1>1, <3>1, <3>2 DEF NoDup
    <3>4. QED BY <3>1, <3>3
  <2>3. FirstAt(n) \in 1 .. Len(reg) /\ reg[FirstAt(n)] = n
    BY <2>2 DEF FirstAt
  <2> DEFINE f == FirstAt(n)
  <2> HIDE DEF f
  <2>4. f \in 1 .. Len(reg) /\ reg[f] = n BY <2>3 DEF f
  <2>5. /\ RemoveAt(reg, f) \in Seq(Name) /\ NoDup(RemoveAt(reg, f))
        /\ Len(RemoveAt(reg, f)) = Len(reg) - 1
        /\ Elems(RemoveAt(reg, f)) = Elems(reg) \ {reg[f]}
    BY <1>1, <2>4, RemoveAtElems
  <2>6. Without(n) = RemoveAt(reg, f) /\ CountWithout(n) = Len(reg) - 1
    BY <1>1, <1>2 DEF Without, CountWithout, f
  <2>7. QED BY <1>1, <2>4, <2>5, <2>6
<1>3. CASE ~Registered(n)
  <2>1. n \notin Names BY <1>3 DEF Registered, Names
  <2>2. QED BY <1>1, <1>3, <2>1 DEF Without, CountWithout
<1>4. QED BY <1>2, <1>3

\* join(): the name is there once and the others are left.
LEMMA JoinKeeps ==
  ASSUME reg \in Seq(Name), RegistryInv, NEW n \in Name
  PROVE  /\ JoinList(n) \in Seq(Name) /\ NoDup(JoinList(n))
         /\ Len(JoinList(n)) = JoinCount(n)
         /\ Elems(JoinList(n)) = Names \cup {n}
<1> DEFINE w == Without(n)
<1>1. /\ w \in Seq(Name) /\ NoDup(w) /\ Len(w) = CountWithout(n)
      /\ Elems(w) = Names \ {n}
  BY WithoutKeeps
<1> HIDE DEF w
<1>2. n \notin Elems(w) BY <1>1
<1>3. /\ <<n>> \o w \in Seq(Name) /\ NoDup(<<n>> \o w)
      /\ Len(<<n>> \o w) = Len(w) + 1
      /\ Elems(<<n>> \o w) = Elems(w) \cup {n}
  BY <1>1, <1>2, AtHead
<1>4. JoinList(n) = <<n>> \o w BY DEF JoinList, w
<1>5. QED BY <1>1, <1>3, <1>4 DEF JoinCount

-----------------------------------------------------------------------------
(* The looper of the dispatcher.                                           *)

\* Nobody writes an exit event into it.
OnlyWakes ==
  /\ \A i \in 1 .. Len(pipe) : pipe[i] = "wake"
  /\ \A i \in 1 .. Len(batch) : batch[i] = "wake"

LooperInv ==
  LooperTypeOK /\ OnlyWakes /\ (pos = 0 <=> dpc \in {"off", "poll"})

\* Events the dispatcher has not begun to serve.
Ahead == Len(pipe) + (Len(batch) - pos)

\* Calls of processMessage() in progress.
Serving == IF dpc \in {"off", "poll"} THEN 0 ELSE 1

\* Steps that leave the looper alone and neither begin nor end a call.
LEMMA LooperStays ==
  ASSUME LooperInv, UNCHANGED looperVars,
         dpc' \in {"off", "poll"} <=> dpc \in {"off", "poll"}
  PROVE  LooperInv' /\ Ahead' = Ahead /\ Serving' = Serving
BY DEF LooperInv, looperVars, LooperTypeOK, OnlyWakes, Ahead, Serving

\* A thread wakes the dispatcher.
LEMMA LooperWoken ==
  ASSUME LooperInv, WriteEvent("wake"), UNCHANGED dpc
  PROVE  LooperInv' /\ Ahead' = Ahead + 1 /\ Serving' = Serving
<1>1. LooperTypeOK' /\ Len(pipe') = Len(pipe) + 1
  BY LooperAssumption, AppendProperties
     DEF LooperInv, LooperTypeOK, LooperEvent, WriteEvent
<1>2. /\ pipe \in Seq(LooperEvent) /\ "wake" \in LooperEvent
      /\ pipe' = Append(pipe, "wake") /\ batch' = batch /\ pos' = pos
      /\ Len(pipe) \in Nat /\ Len(batch) \in Nat /\ pos \in Nat
  BY LenProperties DEF LooperInv, LooperTypeOK, LooperEvent, WriteEvent
<1>3. \A i \in 1 .. Len(pipe') : pipe'[i] = "wake"
  <2>1. /\ \A i \in 1 .. Len(pipe) : pipe'[i] = pipe[i]
        /\ pipe'[Len(pipe) + 1] = "wake"
    BY <1>2, AppendProperties
  <2>2. \A i \in 1 .. Len(pipe') : i \in 1 .. Len(pipe) \/ i = Len(pipe) + 1
    BY <1>1, <1>2
  <2>3. QED BY <2>1, <2>2 DEF LooperInv, OnlyWakes
<1>4. QED BY <1>1, <1>2, <1>3 DEF LooperInv, OnlyWakes, Ahead, Serving

\* The dispatcher reads a batch and begins with its first event.
LEMMA LooperReads ==
  ASSUME LooperInv, dpc = "poll", ReadBatch, dpc' = "process"
  PROVE  LooperInv' /\ Ahead' + Serving' = Ahead + Serving
<1>1. /\ LooperTypeOK' /\ Len(batch') > 0
      /\ Len(pipe') + Len(batch') = Len(pipe)
      /\ \A i \in 1 .. Len(batch') : batch'[i] = pipe[i]
      /\ \A i \in 1 .. Len(pipe') : pipe'[i] = pipe[i + Len(batch')]
  <2> DEFINE n == IF Len(pipe) < BatchSize THEN Len(pipe) ELSE BatchSize
  <2>1. /\ LooperTypeOK /\ pipe \in Seq(LooperEvent) /\ Len(pipe) \in Nat
        /\ Len(pipe) <= PipeCapacity /\ Len(pipe) > 0 /\ pos' = 1
        /\ batch' = SubSeq(pipe, 1, n) /\ pipe' = SubSeq(pipe, n + 1, Len(pipe))
    BY LenProperties, EmptySeq DEF LooperInv, LooperTypeOK, ReadBatch
  <2>2. n \in 1 .. Len(pipe) /\ n <= BatchSize BY <2>1, LooperAssumption
  <2> HIDE DEF n
  <2>3. /\ batch' \in Seq(LooperEvent) /\ Len(batch') = n
        /\ \A i \in 1 .. n : batch'[i] = pipe[i]
    BY <2>1, <2>2, FrontOf
  <2>4. /\ pipe' \in Seq(LooperEvent) /\ Len(pipe') = Len(pipe) - n
        /\ \A i \in 1 .. Len(pipe) - n : pipe'[i] = pipe[i + n]
    BY <2>1, <2>2, RestOf
  <2>5. pos' \in 0 .. Len(batch') /\ pos' # 0 BY <2>1, <2>2, <2>3
  <2>6. Len(pipe') <= PipeCapacity BY <2>1, <2>2, <2>4, LooperAssumption
  <2>7. LooperTypeOK'
    BY <2>2, <2>3, <2>4, <2>5, <2>6 DEF LooperTypeOK
  <2>8. QED BY <2>1, <2>2, <2>3, <2>4, <2>7
<1>2. pos' = 1 /\ pos = 0 /\ Len(batch) = 0
  BY DEF LooperInv, LooperTypeOK, ReadBatch
<1>3. Len(pipe) \in Nat /\ Len(pipe') \in Nat /\ Len(batch') \in Nat
  BY <1>1, LenProperties DEF LooperInv, LooperTypeOK
<1>4. \A i \in 1 .. Len(batch') : i \in 1 .. Len(pipe) BY <1>1, <1>3
<1>5. \A i \in 1 .. Len(pipe') : i + Len(batch') \in 1 .. Len(pipe)
  BY <1>1, <1>3
<1>6. OnlyWakes' BY <1>1, <1>4, <1>5 DEF LooperInv, OnlyWakes
<1>7. QED BY <1>1, <1>2, <1>3, <1>6 DEF LooperInv, Ahead, Serving

\* A call returns: the next event of the batch, or back to poll().
LEMMA LooperGoesOn ==
  ASSUME LooperInv, dpc \notin {"off", "poll"}, BackToLoop
  PROVE  /\ LooperInv' /\ Ahead' + Serving' = Ahead
         /\ dpc' \in {"process", "poll"}
<1>1. LooperTypeOK /\ OnlyWakes /\ pos # 0 BY DEF LooperInv
<1>2. pos \in 1 .. Len(batch) /\ Len(batch) \in Nat /\ Len(pipe) \in Nat
  BY <1>1, LenProperties DEF LooperTypeOK
<1>3. ~LeavesLoop BY <1>1, <1>2 DEF OnlyWakes, LeavesLoop
<1>4. EventServed /\ dpc' = IF MoreEvents THEN "process" ELSE "poll"
  BY DEF BackToLoop
<1>5. /\ LooperTypeOK' /\ pipe' = pipe
      /\ MoreEvents => pos' = pos + 1 /\ batch' = batch
      /\ ~MoreEvents => pos' = 0 /\ Len(batch') = 0 /\ pos = Len(batch)
  <2>1. CASE MoreEvents
    BY <1>1, <1>2, <1>4, <2>1 DEF LooperTypeOK, EventServed, MoreEvents
  <2>2. CASE ~MoreEvents
    <3>1. pos' = 0 /\ batch' = <<>> /\ pipe' = pipe BY <1>4, <2>2 DEF EventServed
    <3>2. LooperTypeOK' BY <1>1, <3>1, LooperAssumption DEF LooperTypeOK
    <3>3. QED BY <1>2, <1>3, <2>2, <3>1, <3>2 DEF MoreEvents
  <2>3. QED BY <2>1, <2>2
<1>6. CASE MoreEvents
  BY <1>1, <1>2, <1>4, <1>5, <1>6 DEF LooperInv, OnlyWakes, Ahead, Serving
<1>7. CASE ~MoreEvents
  <2>1. \A i \in 1 .. Len(batch') : FALSE BY <1>5, <1>7
  <2>2. OnlyWakes' BY <1>1, <1>5, <2>1 DEF OnlyWakes
  <2>3. QED BY <1>2, <1>4, <1>5, <1>7, <2>2 DEF LooperInv, Ahead, Serving
<1>8. QED BY <1>6, <1>7

\* run() starts each of the two threads once.
StartInv ==
  /\ main = "start" => cpc = "off"
  /\ dpc = "off" <=> main \in {"start", "join", "dispatcher"}

\* Every step keeps the start in order.
LEMMA StartInvKept ==
  ASSUME StartInv, Next
  PROVE  StartInv'
<1>1. CASE Main
  BY <1>1 DEF StartInv, Main, StartCoordinator, JoinSelf, StartDispatcher,
     SetOwner, startRest
<1>2. CASE Coordinator \/ Port \/ Peers
  BY <1>2 DEF StartInv, Coordinator, CoordinatorBinds, CoordinatorFails,
     AcceptMessage, AcceptShort, AcceptStall, CoordinatorLocks, AcceptKill,
     AcceptFails, CoordinatorPushes, CoordinatorWakes, coordRest, Port,
     GlobalArrives, PortNoOwner, PortWakes, PortCloses, Peers, Request,
     NodeChanges, NodeStalls
<1>3. CASE Dispatcher \/ SendBreaks
  <2>1. main' = main /\ cpc' = cpc /\ (dpc = "off" <=> dpc' = "off")
    BY <1>3 DEF Dispatcher, Poll, QueueEmpty, BackToLoop, HandleCustom, Pop,
       HandleJoin, HandleDrop, HandleSetDefault, HandleList, HandleListEmpty,
       HandleOther, HandleGlobal, handleRest, dispRest, Broadcast,
       StartBroadcast, BroadcastSent, BroadcastFailed, BroadcastEnds, sendRest,
       SendBreaks, Register, RegisterFails, RegisterConnects, RouterRuns,
       RouterNoOwner, RouterHangs, DefaultRuns, DefaultHangs, CastReady,
       regRest, Handling, Done
  <2>2. QED BY <2>1 DEF StartInv
<1>4. QED BY <1>1, <1>2, <1>3 DEF Next

\* Every step keeps the looper as the dispatcher needs it.
LEMMA LooperInvKept ==
  ASSUME LooperInv, StartInv, Next
  PROVE  LooperInv'
<1>1. CASE Poll BY <1>1, LooperReads DEF Poll
<1>2. CASE QueueEmpty \/ HandleCustom
  BY <1>2, LooperGoesOn DEF QueueEmpty, HandleCustom, Handling
<1>3. CASE CoordinatorWakes \/ \E i \in 1 .. MaxPorts : PortWakes(i)
  BY <1>3, LooperWoken DEF CoordinatorWakes, PortWakes
<1>4. CASE \/ Main \/ Pop \/ HandleJoin \/ HandleDrop \/ HandleSetDefault
           \/ HandleList \/ HandleListEmpty \/ HandleOther \/ HandleGlobal
           \/ Broadcast \/ SendBreaks \/ Register \/ Peers
  <2>1. UNCHANGED looperVars
    BY <1>4 DEF Main, StartCoordinator, JoinSelf, StartDispatcher, SetOwner,
       startRest, Pop, HandleJoin, HandleDrop, HandleSetDefault, HandleList,
       HandleListEmpty, HandleOther, HandleGlobal, handleRest, Broadcast,
       StartBroadcast, BroadcastSent, BroadcastFailed, BroadcastEnds,
       sendRest, SendBreaks, Register, RegisterFails, RegisterConnects,
       RouterRuns, RouterNoOwner, RouterHangs, DefaultRuns, DefaultHangs,
       CastReady, regRest, Peers, Request, NodeChanges, NodeStalls
  <2>2. dpc' \in {"off", "poll"} <=> dpc \in {"off", "poll"}
    BY <1>4 DEF StartInv, dispRest, Main, StartCoordinator, JoinSelf,
       StartDispatcher, SetOwner, startRest, Pop, HandleJoin, HandleDrop,
       HandleSetDefault, HandleList, HandleListEmpty, HandleOther,
       HandleGlobal, handleRest, Broadcast, StartBroadcast, BroadcastSent,
       BroadcastFailed, BroadcastEnds, sendRest, SendBreaks, Register,
       RegisterFails, RegisterConnects, RouterRuns, RouterNoOwner,
       RouterHangs, DefaultRuns, DefaultHangs, CastReady, regRest, Peers,
       Request, NodeChanges, NodeStalls, Handling, Done
  <2>3. QED BY <2>1, <2>2, LooperStays
<1>5. CASE \/ CoordinatorBinds \/ CoordinatorFails \/ AcceptMessage
           \/ AcceptShort \/ AcceptStall \/ AcceptKill \/ AcceptFails
           \/ CoordinatorLocks \/ CoordinatorPushes
           \/ \E i \in 1 .. MaxPorts :
                 GlobalArrives(i) \/ PortNoOwner(i) \/ PortCloses(i)
  <2>1. UNCHANGED <<looperVars, dpc>>
    BY <1>5 DEF CoordinatorBinds, CoordinatorFails, AcceptMessage,
       AcceptShort, AcceptStall, CoordinatorLocks, AcceptKill, AcceptFails,
       CoordinatorPushes, coordRest, GlobalArrives, PortNoOwner, PortCloses,
       looperVars
  <2>2. QED BY <2>1, LooperStays
<1>6. QED
  BY <1>1, <1>2, <1>3, <1>4, <1>5 DEF Next, Coordinator, Port, Dispatcher

-----------------------------------------------------------------------------
(* Types.                                                                  *)

ThreadTypes ==
  /\ main \in {"start", "join", "dispatcher", "owner", "ready"}
  /\ cpc \in {"off", "bind", "accept", "lock", "push", "wake", "stalled",
           "ended"}
  /\ dpc \in {"off", "poll", "process", "handle", "send", "router", "default",
              "ready", "hung"}
  /\ mInitialized \in BOOLEAN
  /\ up \subseteq Name \ {Self} /\ routerSetup \in BOOLEAN
  /\ ports \in [1 .. MaxPorts -> {"off", "read", "wake", "closed"}]
  /\ silent \subseteq up
  /\ requests \in Nat /\ globals \in Nat /\ broadcasts \in Nat
  /\ died \in {"no", "empty list", "broken pipe", "no owner"}

MessageTypes ==
  /\ cmsg \in Message \cup {NoMsg}
  /\ backlog \in Seq(Message) /\ Len(backlog) <= Backlog
  /\ mQ \in Seq(Message) /\ Len(mQ) <= QueueSize
  /\ item \in Message \cup {NoMsg}

RegistryTypes ==
  /\ reg \in Seq(Name) /\ mNumOfNode \in Int
  /\ mDefaultNode \in Name \cup {NoName} /\ lost \subseteq Name
  /\ cur \in Nat /\ toVisit \in Seq(Name) /\ visited \in Seq(Name)

\* The three together are what TypeOK says of more than the looper.
LEMMA TypeParts ==
  TypeOK <=> LooperTypeOK /\ ThreadTypes /\ MessageTypes /\ RegistryTypes
BY DEF TypeOK, ThreadTypes, MessageTypes, RegistryTypes

\* Requests and nodes that come and go are no business of the threads.
LEMMA ThreadsStay ==
  ASSUME ThreadTypes, requests' \in Nat, broadcasts' \in Nat,
         up' \subseteq Name \ {Self}, silent' \subseteq up',
         main' = main, cpc' = cpc, dpc' = dpc, mInitialized' = mInitialized,
         routerSetup' = routerSetup, ports' = ports, globals' = globals,
         died' = died
  PROVE  ThreadTypes'
<1>1. /\ ports' \in [1 .. MaxPorts -> {"off", "read", "wake", "closed"}]
      /\ globals' \in Nat
  BY Zenon DEF ThreadTypes
<1>2. main' \in {"start", "join", "dispatcher", "owner", "ready"}
  BY Zenon DEF ThreadTypes
<1>3. cpc' \in {"off", "bind", "accept", "lock", "push", "wake", "stalled",
           "ended"}
  BY Zenon DEF ThreadTypes
<1>4. dpc' \in {"off", "poll", "process", "handle", "send", "router",
                "default", "ready", "hung"}
  BY Zenon DEF ThreadTypes
<1>5. mInitialized' \in BOOLEAN /\ routerSetup' \in BOOLEAN
  BY Zenon DEF ThreadTypes
<1>6. died' \in {"no", "empty list", "broken pipe", "no owner"}
  BY Zenon DEF ThreadTypes
<1>7. QED BY <1>1, <1>2, <1>3, <1>4, <1>5, <1>6, Zenon DEF ThreadTypes

\* The threads stay at places of their programs.
LEMMA ThreadTypesKept ==
  ASSUME ThreadTypes, Next
  PROVE  ThreadTypes'
<1>1. CASE Main
  BY <1>1 DEF ThreadTypes, Main, StartCoordinator, JoinSelf, StartDispatcher,
     SetOwner, startRest, envVars
<1>2. CASE Coordinator
  BY <1>2 DEF ThreadTypes, Coordinator, CoordinatorBinds, CoordinatorFails,
     AcceptMessage, AcceptShort, AcceptStall, CoordinatorLocks, AcceptKill,
     AcceptFails, CoordinatorPushes, CoordinatorWakes, coordRest, envVars
<1>3. CASE Port
  <2>1. PICK i \in 1 .. MaxPorts :
          GlobalArrives(i) \/ PortNoOwner(i) \/ PortWakes(i) \/ PortCloses(i)
    BY <1>3 DEF Port
  <2>2. globals' \in Nat
    <3>1. globals' = globals + 1 \/ globals' = globals
      BY <2>1 DEF GlobalArrives, PortNoOwner, PortWakes, PortCloses, envVars
    <3>2. globals \in Nat BY DEF ThreadTypes
    <3>3. QED BY <3>1, <3>2
  <2>3. ports' \in [1 .. MaxPorts -> {"off", "read", "wake", "closed"}]
    BY <2>1 DEF ThreadTypes, GlobalArrives, PortNoOwner, PortWakes, PortCloses
  <2>4. died' \in {"no", "empty list", "broken pipe", "no owner"}
    BY <2>1 DEF ThreadTypes, GlobalArrives, PortNoOwner, PortWakes, PortCloses
  <2>5. UNCHANGED <<main, cpc, dpc, mInitialized, up, silent, routerSetup,
                    requests, broadcasts>>
    BY <2>1 DEF GlobalArrives, PortNoOwner, PortWakes, PortCloses, envVars
  <2>6. QED BY <2>2, <2>3, <2>4, <2>5 DEF ThreadTypes
<1>4. CASE Peers
  <2>1. CASE \E m \in Requests : Request(m)
    <3>1. PICK m \in Requests : Request(m) BY <2>1
    <3>2. requests' \in Nat
      <4>1. requests' = requests + 1 BY <3>1 DEF Request
      <4>2. requests \in Nat BY DEF ThreadTypes
      <4>3. QED BY <4>1, <4>2
    <3>3. UNCHANGED <<main, cpc, dpc, mInitialized, up, silent, routerSetup,
                      ports, globals, died>>
      BY <3>1 DEF Request
    <3>4. up' \subseteq Name \ {Self} /\ silent' \subseteq up'
      BY <3>3 DEF ThreadTypes
    <3>5. broadcasts' \in Nat
      <4>1. broadcasts' \in {broadcasts, broadcasts + 1}
        BY <3>1 DEF Request
      <4>2. broadcasts \in Nat BY DEF ThreadTypes
      <4>3. QED BY <4>1, <4>2
    <3>6. QED BY <3>2, <3>3, <3>4, <3>5, ThreadsStay
  <2>2. CASE \E n \in Mortal : NodeChanges(n)
    <3>1. PICK n \in Mortal : NodeChanges(n) BY <2>2
    <3>2. up' \subseteq Name \ {Self} /\ silent' \subseteq up'
      <4>1. n \in Name \ {Self} BY ServiceAssumption
      <4>2. up \subseteq Name \ {Self} /\ silent \subseteq up
        BY DEF ThreadTypes
      <4>3. /\ up' = (IF n \in up THEN up \ {n} ELSE up \cup {n})
            /\ silent' = silent \ {n}
        BY <3>1 DEF NodeChanges
      <4>4. QED BY <4>1, <4>2, <4>3
    <3>3. UNCHANGED <<main, cpc, dpc, mInitialized, routerSetup, ports,
                      requests, globals, broadcasts, died>>
      BY <3>1 DEF NodeChanges
    <3>4. requests' \in Nat /\ broadcasts' \in Nat BY <3>3 DEF ThreadTypes
    <3>5. QED BY <3>2, <3>3, <3>4, ThreadsStay
  <2>3. CASE \E n \in Lazy : NodeStalls(n)
    <3>1. PICK n \in Lazy : NodeStalls(n) BY <2>3
    <3>2. UNCHANGED <<main, cpc, dpc, mInitialized, up, routerSetup, ports,
                      requests, globals, broadcasts, died>>
      BY <3>1 DEF NodeStalls
    <3>3. up' \subseteq Name \ {Self} /\ silent' \subseteq up'
      BY <3>1, <3>2 DEF NodeStalls, ThreadTypes
    <3>4. requests' \in Nat /\ broadcasts' \in Nat BY <3>2 DEF ThreadTypes
    <3>5. QED BY <3>2, <3>3, <3>4, ThreadsStay
  <2>4. QED BY <1>4, <2>1, <2>2, <2>3 DEF Peers
<1>5. CASE Dispatcher \/ SendBreaks
  <2>1. CASE SendBreaks \/ Register
    <3>1. Router \in Name \ {Self} /\ DefaultNode \in Name \ {Self}
      BY ServiceAssumption DEF Name
    <3>2. up' \in {up, up \cup {Router}, up \cup {DefaultNode}}
          /\ silent' = silent
      BY <2>1 DEF SendBreaks, Register, RegisterFails, RegisterConnects,
         RouterRuns, RouterNoOwner, RouterHangs, DefaultRuns, DefaultHangs,
         CastReady, regRest, dispRest, envVars
    <3>3. up' \subseteq Name \ {Self} /\ silent' \subseteq up'
      BY <3>1, <3>2 DEF ThreadTypes
    <3>4. CASE Register
      <4>1. UNCHANGED <<main, cpc, mInitialized, requests, globals, broadcasts>>
        BY <3>4 DEF Register, RegisterFails, RegisterConnects, RouterRuns,
           RouterNoOwner, RouterHangs, DefaultRuns, DefaultHangs, CastReady,
           regRest, dispRest, envVars
      <4>2. /\ dpc' \in {dpc, "process", "router", "default", "ready", "hung"}
            /\ routerSetup' \in {routerSetup, TRUE}
            /\ died' \in {died, "no owner"}
        BY <3>4 DEF Register, RegisterFails, RegisterConnects, RouterRuns,
           RouterNoOwner, RouterHangs, DefaultRuns, DefaultHangs, CastReady, Done
      <4>3. \/ ports' = ports
            \/ \E i \in 1 .. MaxPorts : ports' = [ports EXCEPT ![i] = "read"]
        <5>1. CASE RegisterConnects BY <5>1 DEF RegisterConnects
        <5>2. CASE ~RegisterConnects
          BY <3>4, <5>2 DEF Register, RegisterFails, RouterRuns, RouterNoOwner,
             RouterHangs, DefaultRuns, DefaultHangs, CastReady
        <5>3. QED BY <5>1, <5>2
      <4>4. ports' \in [1 .. MaxPorts -> {"off", "read", "wake", "closed"}]
        BY <4>3 DEF ThreadTypes
      <4>5. /\ main' \in {"start", "join", "dispatcher", "owner", "ready"}
            /\ cpc' \in {"off", "bind", "accept", "lock", "push", "wake",
                         "stalled", "ended"}
            /\ mInitialized' \in BOOLEAN
            /\ requests' \in Nat /\ globals' \in Nat /\ broadcasts' \in Nat
        BY <4>1 DEF ThreadTypes
      <4>6. /\ dpc' \in {"off", "poll", "process", "handle", "send", "router",
                         "default", "ready", "hung"}
            /\ routerSetup' \in BOOLEAN
            /\ died' \in {"no", "empty list", "broken pipe", "no owner"}
        BY <4>2 DEF ThreadTypes
      <4>7. QED BY <3>3, <4>4, <4>5, <4>6 DEF ThreadTypes
    <3>5. CASE SendBreaks
      <4>1. /\ died' = "broken pipe"
            /\ UNCHANGED <<dispRest, dpc, routerSetup, ports>>
        BY <3>5 DEF SendBreaks
      <4>2. QED BY <3>3, <4>1 DEF ThreadTypes, dispRest, envVars
    <3>6. QED BY <2>1, <3>4, <3>5
  <2>2. CASE \/ Poll \/ QueueEmpty \/ Pop \/ HandleJoin \/ HandleDrop
             \/ HandleSetDefault \/ HandleList \/ HandleListEmpty
             \/ HandleCustom \/ HandleOther \/ HandleGlobal \/ Broadcast
    BY <2>2 DEF ThreadTypes, Poll, QueueEmpty, BackToLoop, HandleCustom, Pop,
       HandleJoin, HandleDrop, HandleSetDefault, HandleList, HandleListEmpty,
       HandleOther, HandleGlobal, handleRest, dispRest, envVars, Broadcast,
       StartBroadcast, BroadcastSent, BroadcastFailed, BroadcastEnds, sendRest,
       Done
  <2>3. QED BY <1>5, <2>1, <2>2 DEF Dispatcher
<1>6. QED BY <1>1, <1>2, <1>3, <1>4, <1>5 DEF Next

\* What the program and its peers send are messages, and no message is none.
LEMMA MessagesSent ==
  /\ \A p \in BOOLEAN : Msg("other", Self, p) \in Message
  /\ Msg("json", Self, FALSE) \in Message
  /\ Msg("global", Self, FALSE) \in Message
  /\ Requests \subseteq Message
  /\ \A m \in Message : /\ m.kind \in PeerKind \cup {"json"}
                        /\ m.name \in Name /\ m.page \in BOOLEAN
  /\ NoMsg.kind = "none" /\ "none" \notin PeerKind \cup {"json"}
<1>1. Self \in Name /\ Target \subseteq Name /\ Kinds \subseteq PeerKind
      /\ Pages \subseteq BOOLEAN
  BY ServiceAssumption DEF Name
<1>2. ASSUME NEW k \in PeerKind \cup {"json"}, NEW n \in Name, NEW p \in BOOLEAN
      PROVE  Msg(k, n, p) \in Message
  BY DEF Msg, Message
<1>3. {"other", "json", "global"} \subseteq PeerKind \cup {"json"}
  BY DEF PeerKind
<1>4. Requests \subseteq Message BY DEF Requests
<1>5. NoMsg.kind = "none" /\ "none" \notin PeerKind \cup {"json"}
  BY DEF NoMsg, PeerKind, Named
<1>6. \A m \in Message : /\ m.kind \in PeerKind \cup {"json"}
                         /\ m.name \in Name /\ m.page \in BOOLEAN
  BY DEF Message
<1>7. QED BY <1>1, <1>2, <1>3, <1>4, <1>5, <1>6

\* A push adds one message at most.
LEMMA QueuedKeeps ==
  ASSUME mQ \in Seq(Message), Len(mQ) <= QueueSize, NEW m \in Message
  PROVE  /\ Queued(m) \in Seq(Message) /\ Len(Queued(m)) <= QueueSize
         /\ Len(Queued(m)) <= Len(mQ) + 1
<1>1. Append(mQ, m) \in Seq(Message) /\ Len(Append(mQ, m)) = Len(mQ) + 1
  BY AppendProperties
<1>2. Len(mQ) \in Nat /\ QueueSize \in Nat
  BY LenProperties, ServiceAssumption
<1>3. QED BY <1>1, <1>2 DEF Queued

\* A send leaves the backlog alone or adds the message to it.
LEMMA SendKeeps ==
  ASSUME backlog \in Seq(Message), Len(backlog) <= Backlog,
         NEW n, NEW m \in Message, NEW ok, Send(n, m, ok)
  PROVE  /\ backlog' \in Seq(Message) /\ Len(backlog') <= Backlog
         /\ \/ backlog' = backlog
            \/ n = Self /\ backlog' = Append(backlog, m)
<1>1. Append(backlog, m) \in Seq(Message)
      /\ Len(Append(backlog, m)) = Len(backlog) + 1
  BY AppendProperties
<1>2. Len(backlog) \in Nat /\ Backlog \in Nat
  BY LenProperties, ServiceAssumption
<1>3. \/ backlog' = backlog
      \/ n = Self /\ Len(backlog) < Backlog /\ backlog' = Append(backlog, m)
  BY DEF Send
<1>4. QED BY <1>1, <1>2, <1>3

\* The coordinator pushes a message it has read.
HandInv == cpc \in {"lock", "push"} => cmsg # NoMsg

\* Every step keeps it so.
LEMMA HandInvKept ==
  ASSUME HandInv, MessageTypes, Next
  PROVE  HandInv'
<1>1. CASE AcceptMessage
  <2>1. backlog \in Seq(Message) /\ backlog # <<>> /\ cmsg' = Head(backlog)
    BY <1>1 DEF MessageTypes, AcceptMessage
  <2>2. Head(backlog) \in Message BY <2>1, HeadTailProperties
  <2>3. QED BY <2>1, <2>2, MessagesSent DEF HandInv
<1>2. CASE ~AcceptMessage
  <2>1. \/ cpc' \notin {"lock", "push"}
        \/ cmsg' = cmsg /\ cpc \in {"lock", "push"}
    <3>1. CASE Main
      BY <3>1 DEF Main, StartCoordinator, JoinSelf, StartDispatcher, SetOwner,
         startRest
    <3>2. CASE Coordinator
      BY <1>2, <3>2 DEF Coordinator, CoordinatorBinds, CoordinatorFails,
         AcceptShort, AcceptStall, CoordinatorLocks, AcceptKill, AcceptFails,
         CoordinatorPushes, CoordinatorWakes
    <3>3. CASE Port \/ Peers
      BY <3>3 DEF Port, GlobalArrives, PortNoOwner, PortWakes, PortCloses,
         Peers, Request, NodeChanges, NodeStalls
    <3>4. CASE Dispatcher \/ SendBreaks
      BY <3>4 DEF Dispatcher, Poll, QueueEmpty, HandleCustom, Pop, HandleJoin,
         HandleDrop, HandleSetDefault, HandleList, HandleListEmpty,
         HandleOther, HandleGlobal, handleRest, dispRest, Broadcast,
         StartBroadcast, BroadcastSent, BroadcastFailed, BroadcastEnds,
         sendRest, SendBreaks, Register, RegisterFails, RegisterConnects,
         RouterRuns, RouterNoOwner, RouterHangs, DefaultRuns, DefaultHangs,
         CastReady, regRest
    <3>5. QED BY <3>1, <3>2, <3>3, <3>4 DEF Next
  <2>2. QED BY <2>1 DEF HandInv
<1>3. QED BY <1>1, <1>2

\* What is queued, waits or is in hand is a message.
LEMMA MessageTypesKept ==
  ASSUME HandInv, MessageTypes, Next
  PROVE  MessageTypes'
<1>1. CASE \/ Main \/ CoordinatorBinds \/ CoordinatorFails
           \/ CoordinatorLocks \/ CoordinatorWakes
           \/ \E i \in 1 .. MaxPorts :
                PortNoOwner(i) \/ PortWakes(i) \/ PortCloses(i)
           \/ \E n \in Mortal : NodeChanges(n)
           \/ \E n \in Lazy : NodeStalls(n)
  <2>1. UNCHANGED <<cmsg, backlog, mQ, item>>
    BY <1>1 DEF Main, StartCoordinator, JoinSelf, StartDispatcher, SetOwner,
       startRest, CoordinatorBinds, CoordinatorFails, CoordinatorLocks,
       CoordinatorWakes,
       coordRest, PortNoOwner, PortWakes, PortCloses, NodeChanges, NodeStalls
  <2>2. QED BY <2>1 DEF MessageTypes
<1>2. CASE \/ AcceptMessage \/ AcceptShort \/ AcceptStall \/ AcceptKill
           \/ AcceptFails
  <2>1. UNCHANGED <<mQ, item>> /\ cmsg' \in {cmsg, Head(backlog)}
    BY <1>2 DEF AcceptMessage, AcceptShort, AcceptStall, CoordinatorLocks,
       AcceptKill, AcceptFails, coordRest
  <2>2. CASE backlog' = <<>> /\ cmsg' = cmsg
    <3>1. <<>> \in Seq(Message) /\ Len(<<>>) = 0 OBVIOUS
    <3>2. QED BY <2>1, <2>2, <3>1, ServiceAssumption DEF MessageTypes
  <2>3. CASE backlog # <<>> /\ backlog' = Tail(backlog)
    <3>1. backlog \in Seq(Message) /\ Len(backlog) \in Nat
      BY LenProperties DEF MessageTypes
    <3>2. /\ Head(backlog) \in Message /\ Tail(backlog) \in Seq(Message)
          /\ Len(Tail(backlog)) = Len(backlog) - 1
      BY <2>3, <3>1, HeadTailProperties
    <3>3. Len(Tail(backlog)) <= Backlog
      BY <3>1, <3>2, ServiceAssumption DEF MessageTypes
    <3>4. QED BY <2>1, <2>3, <3>2, <3>3 DEF MessageTypes
  <2>4. QED
    BY <1>2, <2>2, <2>3 DEF AcceptMessage, AcceptShort, AcceptStall,
       CoordinatorLocks, AcceptKill, AcceptFails
<1>3. CASE CoordinatorPushes \/ \E i \in 1 .. MaxPorts : GlobalArrives(i)
  <2>1. \E m \in Message : mQ' = Queued(m)
    <3>1. Msg("global", Self, FALSE) \in Message BY MessagesSent
    <3>2. CoordinatorPushes => cmsg \in Message
      BY DEF CoordinatorPushes, HandInv, MessageTypes
    <3>3. QED BY <1>3, <3>1, <3>2 DEF CoordinatorPushes, GlobalArrives
  <2>2. mQ' \in Seq(Message) /\ Len(mQ') <= QueueSize
    BY <2>1, QueuedKeeps DEF MessageTypes
  <2>3. UNCHANGED <<backlog, item>> /\ cmsg' \in {cmsg, NoMsg}
    BY <1>3 DEF CoordinatorPushes, coordRest, GlobalArrives
  <2>4. QED BY <2>2, <2>3 DEF MessageTypes
<1>4. CASE \E m \in Requests : Request(m)
  <2>1. PICK m \in Requests : Request(m) BY <1>4
  <2>2. /\ m \in Message /\ backlog \in Seq(Message)
        /\ Len(backlog) \in Nat /\ Backlog \in Nat
    BY MessagesSent, LenProperties, ServiceAssumption DEF MessageTypes
  <2>3. /\ Append(backlog, m) \in Seq(Message)
        /\ Len(Append(backlog, m)) = Len(backlog) + 1
    BY <2>2, AppendProperties
  <2>4. /\ backlog' = Append(backlog, m) /\ Len(backlog) < Backlog
        /\ UNCHANGED <<cmsg, mQ, item>>
    BY <2>1 DEF Request
  <2>5. backlog' \in Seq(Message) /\ Len(backlog') <= Backlog
    BY <2>2, <2>3, <2>4
  <2>6. QED BY <2>4, <2>5 DEF MessageTypes
<1>5. CASE Pop
  <2>1. mQ \in Seq(Message) /\ mQ # <<>> /\ Len(mQ) \in Nat
    BY <1>5, LenProperties DEF MessageTypes, Pop
  <2>2. /\ Head(mQ) \in Message /\ Tail(mQ) \in Seq(Message)
        /\ Len(Tail(mQ)) = Len(mQ) - 1
    BY <2>1, HeadTailProperties
  <2>3. Len(Tail(mQ)) <= QueueSize
    BY <2>1, <2>2, ServiceAssumption DEF MessageTypes
  <2>4. QED BY <1>5, <2>2, <2>3 DEF MessageTypes, Pop, dispRest
<1>6. CASE \/ HandleList \/ HandleGlobal \/ BroadcastSent \/ BroadcastFailed
           \/ CastReady
  <2>1. \E n, ok : \E m \in Message : Send(n, m, ok) \/ UNCHANGED backlog
    <3>1. CASE HandleList
      <4>1. PICK page \in Pages, ok \in BOOLEAN :
              Send(item.name, Msg("other", Self, page), ok)
        BY <3>1 DEF HandleList
      <4>2. Msg("other", Self, page) \in Message
        BY MessagesSent, ServiceAssumption
      <4>3. QED BY <4>1, <4>2
    <3>2. CASE HandleGlobal
      <4>1. item \in Message
        BY <3>2, MessagesSent DEF HandleGlobal, Handling, MessageTypes
      <4>2. QED BY <3>2, <4>1 DEF HandleGlobal
    <3>3. CASE BroadcastSent \/ BroadcastFailed
      <4>1. BroadcastMsg \in Message
        BY MessagesSent DEF BroadcastMsg, MessageTypes
      <4>2. QED BY <3>3, <4>1 DEF BroadcastSent, BroadcastFailed
    <3>4. CASE CastReady
      <4>1. Msg("other", Self, FALSE) \in Message BY MessagesSent
      <4>2. QED BY <3>4, <4>1 DEF CastReady
    <3>5. QED BY <1>6, <3>1, <3>2, <3>3, <3>4
  <2>2. backlog' \in Seq(Message) /\ Len(backlog') <= Backlog
    BY <2>1, SendKeeps DEF MessageTypes
  <2>3. UNCHANGED <<cmsg, mQ>> /\ item' \in {item, NoMsg}
    BY <1>6 DEF HandleList, HandleGlobal, handleRest, BroadcastSent,
       BroadcastFailed, CastReady, sendRest, dispRest, Done
  <2>4. QED BY <2>2, <2>3 DEF MessageTypes
<1>7. CASE \/ Poll \/ QueueEmpty \/ HandleJoin \/ HandleDrop
           \/ HandleSetDefault \/ HandleListEmpty \/ HandleCustom
           \/ HandleOther \/ StartBroadcast \/ BroadcastEnds \/ SendBreaks
           \/ (Register /\ ~CastReady)
  <2>1. UNCHANGED <<cmsg, backlog, mQ>> /\ item' \in {item, NoMsg}
    BY <1>7 DEF Poll, QueueEmpty, HandleJoin, HandleDrop, HandleSetDefault,
       HandleListEmpty, HandleCustom, HandleOther, handleRest, dispRest,
       StartBroadcast, BroadcastEnds, SendBreaks, Register, RegisterFails,
       RegisterConnects, RouterRuns, RouterNoOwner, RouterHangs, DefaultRuns,
       DefaultHangs, regRest, Done
  <2>2. QED BY <2>1 DEF MessageTypes
<1>8. QED
  BY <1>1, <1>2, <1>3, <1>4, <1>5, <1>6, <1>7
     DEF Next, Coordinator, Port, Peers, Dispatcher, Broadcast

-----------------------------------------------------------------------------
(* The registry and the walk of a broadcast.                               *)

\* The answer to LIST is reported as not sent.
ListFails ==
  \E page \in Pages : Send(item.name, Msg("other", Self, page), FALSE)

\* The registry changes by a join, by a drop, or by a send of a broadcast that
\* fails.
LEMMA RegistryChanges ==
  ASSUME StartInv, MessageTypes, Next
  PROVE  \/ UNCHANGED <<reg, mNumOfNode>>
         \/ dpc # "send" /\ \E n \in Name : /\ reg' = JoinList(n)
                                            /\ mNumOfNode' = JoinCount(n)
         \/ /\ HandleDrop \/ (HandleList /\ ListFails)
            /\ item.name \in Name /\ Drop(item.name)
         \/ BroadcastFailed
<1>1. CASE JoinSelf
  <2>1. Self \in Name BY DEF Name
  <2>2. QED BY <1>1, <2>1 DEF JoinSelf, StartInv
<1>2. CASE HandleJoin \/ HandleDrop \/ HandleList
  <2>1. dpc = "handle" /\ item.kind \in {"join", "drop", "list"}
    BY <1>2 DEF HandleJoin, HandleDrop, HandleList, Handling
  <2>2. item.name \in Name
    BY <2>1, MessagesSent DEF MessageTypes
  <2>3. HandleList => UNCHANGED <<reg, mNumOfNode>>
                        \/ (ListFails /\ Drop(item.name))
    BY DEF HandleList, ListFails, regVars
  <2>4. QED
    BY <1>2, <2>1, <2>2, <2>3 DEF HandleJoin, HandleDrop
<1>3. CASE RouterRuns \/ DefaultRuns
  <2>1. Router \in Name /\ DefaultNode \in Name BY DEF Name
  <2>2. QED BY <1>3, <2>1 DEF RouterRuns, DefaultRuns
<1>4. CASE StartCoordinator \/ StartDispatcher \/ SetOwner \/ Coordinator
           \/ Port \/ Peers
  BY <1>4 DEF StartCoordinator, StartDispatcher, SetOwner, regVars,
     Coordinator, CoordinatorBinds, CoordinatorFails, AcceptMessage,
     AcceptShort, AcceptStall, CoordinatorLocks, AcceptKill, AcceptFails,
     CoordinatorPushes, CoordinatorWakes, coordRest, Port, GlobalArrives,
     PortNoOwner, PortWakes, PortCloses, Peers, Request, NodeChanges,
     NodeStalls
<1>5. CASE \/ Poll \/ QueueEmpty \/ Pop \/ HandleSetDefault \/ HandleListEmpty
           \/ HandleCustom \/ HandleOther \/ HandleGlobal \/ StartBroadcast
           \/ BroadcastSent \/ BroadcastEnds \/ SendBreaks \/ RegisterFails
           \/ RegisterConnects \/ RouterNoOwner \/ RouterHangs \/ DefaultHangs
           \/ CastReady
  BY <1>5 DEF Poll, QueueEmpty, Pop, HandleSetDefault, HandleListEmpty,
     HandleCustom, HandleOther, HandleGlobal, StartBroadcast, BroadcastSent,
     BroadcastEnds, SendBreaks, RegisterFails, RegisterConnects,
     RouterNoOwner, RouterHangs, DefaultHangs, CastReady, regVars
<1>6. QED
  BY <1>1, <1>2, <1>3, <1>4, <1>5
     DEF Next, Main, Dispatcher, Broadcast, Register

\* A broadcast that fails to be sent has a place of the registry in hand.
LEMMA FailedPlace ==
  ASSUME RegistryTypes, BroadcastPartition, dpc = "send", cur <= Len(reg)
  PROVE  cur \in 1 .. Len(reg) /\ reg[cur] \in Name
<1>1. cur \in 1 .. Len(reg) + 1 /\ reg \in Seq(Name)
  BY DEF BroadcastPartition, RegistryTypes
<1>2. Len(reg) \in Nat BY <1>1, LenProperties
<1>3. cur \in 1 .. Len(reg) BY <1>1, <1>2
<1>4. QED BY <1>1, <1>3, ElementOfSeq

\* Whatever changes it, the registry names every node once and counts them.
LEMMA RegistryInvKept ==
  ASSUME StartInv, RegistryTypes, RegistryInv, BroadcastPartition,
         MessageTypes, Next
  PROVE  RegistryInv' /\ reg' \in Seq(Name) /\ mNumOfNode' \in Int
<1>1. reg \in Seq(Name) /\ mNumOfNode \in Int /\ NoDup(reg)
      /\ mNumOfNode = Len(reg)
  BY DEF RegistryTypes, RegistryInv, NoDup
<1>2. SUFFICES /\ reg' \in Seq(Name) /\ NoDup(reg)'
               /\ mNumOfNode' = Len(reg')
  BY LenProperties DEF RegistryInv, NoDup
<1>3. CASE UNCHANGED <<reg, mNumOfNode>>
  BY <1>1, <1>3 DEF NoDup
<1>4. CASE \E n \in Name : reg' = JoinList(n) /\ mNumOfNode' = JoinCount(n)
  BY <1>1, <1>4, JoinKeeps DEF NoDup
<1>5. CASE \E n \in Name : Drop(n)
  BY <1>1, <1>5, WithoutKeeps DEF Drop, NoDup
<1>6. CASE BroadcastFailed
  <2>1. /\ reg' = RemoveAt(reg, cur) /\ mNumOfNode' = mNumOfNode - 1
        /\ cur \in 1 .. Len(reg)
    BY <1>6, FailedPlace DEF BroadcastFailed
  <2>2. /\ RemoveAt(reg, cur) \in Seq(Name) /\ NoDup(RemoveAt(reg, cur))
        /\ Len(RemoveAt(reg, cur)) = Len(reg) - 1
    BY <1>1, <2>1, RemoveAtElems
  <2>3. QED BY <1>1, <2>1, <2>2 DEF NoDup
<1>7. QED BY <1>3, <1>4, <1>5, <1>6, RegistryChanges

\* Only a broadcast moves the walk, and during one the dispatcher does nothing
\* else to the registry.
LEMMA WalkSteps ==
  ASSUME StartInv, Next
  PROVE  \/ StartBroadcast \/ BroadcastSent \/ BroadcastFailed \/ BroadcastEnds
         \/ /\ UNCHANGED bcVars /\ (dpc' = "send" <=> dpc = "send")
            /\ (dpc = "send" => UNCHANGED <<reg, item>>)
<1>1. CASE Main
  BY <1>1 DEF StartInv, Main, StartCoordinator, JoinSelf, StartDispatcher,
     SetOwner, startRest, regVars
<1>2. CASE Coordinator \/ Port \/ Peers
  BY <1>2 DEF Coordinator, CoordinatorBinds, CoordinatorFails, AcceptMessage,
     AcceptShort, AcceptStall, CoordinatorLocks, AcceptKill, AcceptFails,
     CoordinatorPushes, CoordinatorWakes, coordRest, Port, GlobalArrives,
     PortNoOwner, PortWakes, PortCloses, Peers, Request, NodeChanges,
     NodeStalls, regVars
<1>3. CASE (Dispatcher /\ ~Broadcast) \/ SendBreaks
  BY <1>3 DEF Dispatcher, Poll, QueueEmpty, BackToLoop, HandleCustom, Pop,
     HandleJoin, HandleDrop, HandleSetDefault, HandleList, HandleListEmpty,
     HandleOther, HandleGlobal, handleRest, Handling, Done, SendBreaks,
     Register, RegisterFails, RegisterConnects, RouterRuns, RouterNoOwner,
     RouterHangs, DefaultRuns, DefaultHangs, CastReady, regRest, regVars
<1>4. QED BY <1>1, <1>2, <1>3 DEF Next, Broadcast

\* Only a send of a broadcast that fails loses a node.
LEMMA LostOnlyByBroadcast ==
  ASSUME Next, ~BroadcastFailed
  PROVE  lost' \subseteq lost
<1>1. CASE Main \/ Coordinator \/ Port \/ Peers
  BY <1>1 DEF Main, StartCoordinator, JoinSelf, StartDispatcher, SetOwner,
     regVars, Coordinator, CoordinatorBinds, CoordinatorFails, AcceptMessage,
     AcceptShort, AcceptStall, CoordinatorLocks, AcceptKill, AcceptFails,
     CoordinatorPushes, CoordinatorWakes, coordRest, Port, GlobalArrives,
     PortNoOwner, PortWakes, PortCloses, Peers, Request, NodeChanges, NodeStalls
<1>2. CASE Dispatcher \/ SendBreaks
  <2>1. HandleList => lost' \subseteq lost BY DEF HandleList, Drop, regVars
  <2>2. CASE (Dispatcher /\ ~HandleList) \/ SendBreaks
    BY <2>2 DEF Dispatcher, Poll, QueueEmpty, HandleCustom, Pop, HandleJoin,
       HandleDrop, Drop, HandleSetDefault, HandleListEmpty, HandleOther,
       HandleGlobal, Broadcast, StartBroadcast, BroadcastSent, BroadcastEnds,
       SendBreaks, Register, RegisterFails, RegisterConnects, RouterRuns,
       RouterNoOwner, RouterHangs, DefaultRuns, DefaultHangs, CastReady,
       regVars
  <2>3. QED BY <1>2, <2>1, <2>2
<1>3. QED BY <1>1, <1>2 DEF Next

\* The rest of the registry's variables keep their types.
LEMMA RegistryTypesKept ==
  ASSUME StartInv, RegistryTypes, RegistryInv, BroadcastPartition,
         MessageTypes, Next
  PROVE  RegistryTypes'
<1>1. reg' \in Seq(Name) /\ mNumOfNode' \in Int BY RegistryInvKept
<1>2. mDefaultNode' \in Name \cup {NoName}
  <2>1. Self \in Name /\ Router \in Name /\ DefaultNode \in Name BY DEF Name
  <2>2. CASE Main \/ Coordinator \/ Port \/ Peers
    BY <2>2 DEF RegistryTypes, Main, StartCoordinator, JoinSelf,
       StartDispatcher, SetOwner, regVars, DefaultWithout, Coordinator,
       CoordinatorBinds, CoordinatorFails, AcceptMessage, AcceptShort,
       AcceptStall, CoordinatorLocks, AcceptKill, AcceptFails,
       CoordinatorPushes, CoordinatorWakes, coordRest, Port, GlobalArrives,
       PortNoOwner, PortWakes, PortCloses, Peers, Request, NodeChanges,
       NodeStalls
  <2>3. CASE HandleSetDefault
    BY <2>3, MessagesSent
       DEF RegistryTypes, MessageTypes, HandleSetDefault, Handling
  <2>4. CASE (Dispatcher /\ ~HandleSetDefault) \/ SendBreaks
    BY <2>1, <2>4 DEF RegistryTypes, Dispatcher, Poll, QueueEmpty,
       HandleCustom, Pop, HandleJoin, HandleDrop, HandleList, HandleListEmpty,
       HandleOther, HandleGlobal, Drop, DefaultWithout, DefaultAfterJoin,
       Broadcast, StartBroadcast, BroadcastSent, BroadcastFailed,
       BroadcastEnds, sendRest, SendBreaks, Register, RegisterFails,
       RegisterConnects, RouterRuns, RouterNoOwner, RouterHangs, DefaultRuns,
       DefaultHangs, CastReady, regVars
  <2>5. QED BY <2>2, <2>3, <2>4 DEF Next
<1>3. lost' \subseteq Name
  <2>1. lost \subseteq Name BY DEF RegistryTypes
  <2>2. CASE BroadcastFailed
    <3>1. reg[cur] \in Name BY <2>2, FailedPlace DEF BroadcastFailed
    <3>2. lost' = lost \cup {reg[cur]} BY <2>2 DEF BroadcastFailed
    <3>3. QED BY <2>1, <3>1, <3>2
  <2>3. CASE Next /\ ~BroadcastFailed
    <3>1. lost' \subseteq lost BY <2>3, LostOnlyByBroadcast
    <3>2. QED BY <2>1, <3>1
  <2>4. QED BY <2>2, <2>3
<1>4. cur' \in Nat /\ toVisit' \in Seq(Name) /\ visited' \in Seq(Name)
  <2>1. CASE UNCHANGED bcVars BY <2>1 DEF RegistryTypes, bcVars
  <2>2. CASE StartBroadcast
    <3>1. <<>> \in Seq(Name) OBVIOUS
    <3>2. QED BY <2>2, <3>1 DEF RegistryTypes, StartBroadcast
  <2>3. CASE BroadcastSent \/ BroadcastFailed
    <3>1. reg[cur] \in Name /\ visited \in Seq(Name) /\ cur \in Nat
      BY <2>3, FailedPlace
         DEF BroadcastSent, BroadcastFailed, RegistryTypes
    <3>2. Append(visited, reg[cur]) \in Seq(Name) BY <3>1, AppendProperties
    <3>3. cur' \in {cur, cur + 1} /\ toVisit' = toVisit
          /\ visited' = Append(visited, reg[cur])
      BY <2>3 DEF BroadcastSent, BroadcastFailed, sendRest
    <3>4. QED BY <3>1, <3>2, <3>3 DEF RegistryTypes
  <2>4. CASE BroadcastEnds
    <3>1. <<>> \in Seq(Name) OBVIOUS
    <3>2. QED BY <2>4, <3>1 DEF BroadcastEnds
  <2>5. QED BY <2>1, <2>2, <2>3, <2>4, WalkSteps
<1>5. QED BY <1>1, <1>2, <1>3, <1>4 DEF RegistryTypes

\* What the walk has tried and what is left make up the registry it began with,
\* which has no name twice.
WalkInv ==
  /\ BroadcastPartition
  /\ dpc = "send" => NoDup(toVisit)
  /\ dpc # "send" => visited = <<>>

\* Every step keeps that, the removal of the entry in hand included.
LEMMA WalkInvKept ==
  ASSUME StartInv, RegistryTypes, RegistryInv, WalkInv, Next
  PROVE  WalkInv'
<1>1. CASE StartBroadcast
  <2>1. /\ dpc' = "send" /\ cur' = 1 /\ reg' = reg /\ visited' = <<>>
        /\ toVisit' = reg
    BY <1>1 DEF StartBroadcast, regVars
  <2>2. reg \in Seq(Name) /\ Len(reg) \in Nat
    BY LenProperties DEF RegistryTypes
  <2>3. SubSeq(reg, 1, Len(reg)) = reg BY <2>2, SubSeqFull
  <2>4. <<>> \o reg = reg BY <2>2, ConcatEmptySeq
  <2>5. cur' \in 1 .. Len(reg') + 1 BY <2>1, <2>2
  <2>6. toVisit' = visited' \o SubSeq(reg', cur', Len(reg'))
    BY <2>1, <2>3, <2>4
  <2>7. NoDup(toVisit') BY <2>1 DEF RegistryInv, NoDup
  <2>8. QED BY <2>1, <2>5, <2>6, <2>7 DEF WalkInv, BroadcastPartition, NoDup
<1>2. CASE BroadcastSent \/ BroadcastFailed
  <2>1. /\ dpc = "send" /\ dpc' = "send" /\ toVisit' = toVisit
        /\ visited' = Append(visited, reg[cur]) /\ cur \in 1 .. Len(reg)
    BY <1>2, FailedPlace
       DEF WalkInv, BroadcastSent, BroadcastFailed, sendRest
  <2>2. /\ toVisit = visited \o SubSeq(reg, cur, Len(reg)) /\ NoDup(toVisit)
        /\ reg \in Seq(Name) /\ visited \in Seq(Name) /\ Len(reg) \in Nat
    BY <2>1, LenProperties DEF WalkInv, BroadcastPartition, RegistryTypes
  <2>3. Append(visited, reg[cur]) \o SubSeq(reg, cur + 1, Len(reg)) = toVisit
    BY <2>1, <2>2, WalkGoesOn
  <2>4. NoDup(toVisit') BY <2>1, <2>2
  <2>5. CASE BroadcastSent
    <3>1. reg' = reg /\ cur' = cur + 1 BY <2>5 DEF BroadcastSent
    <3>2. toVisit' = visited' \o SubSeq(reg', cur', Len(reg'))
      BY <2>1, <2>3, <3>1
    <3>3. cur' \in 1 .. Len(reg') + 1 BY <2>1, <2>2, <3>1
    <3>4. QED BY <2>1, <2>4, <3>2, <3>3 DEF WalkInv, BroadcastPartition, NoDup
  <2>6. CASE BroadcastFailed
    <3>1. reg' = RemoveAt(reg, cur) /\ cur' = cur BY <2>6 DEF BroadcastFailed
    <3>2. SubSeq(RemoveAt(reg, cur), cur, Len(RemoveAt(reg, cur)))
            = SubSeq(reg, cur + 1, Len(reg))
      BY <2>1, <2>2, WalkAfterRemoval
    <3>3. toVisit' = visited' \o SubSeq(reg', cur', Len(reg'))
      BY <2>1, <2>3, <3>1, <3>2
    <3>4. Len(RemoveAt(reg, cur)) = Len(reg) - 1
      BY <2>1, <2>2, RemoveAtPlaces
    <3>5. cur' \in 1 .. Len(reg') + 1 BY <2>1, <2>2, <3>1, <3>4
    <3>6. QED BY <2>1, <2>4, <3>3, <3>5 DEF WalkInv, BroadcastPartition, NoDup
  <2>7. QED BY <1>2, <2>5, <2>6
<1>3. CASE BroadcastEnds
  BY <1>3 DEF WalkInv, BroadcastPartition, BroadcastEnds, Done
<1>4. CASE /\ UNCHANGED bcVars /\ (dpc' = "send" <=> dpc = "send")
           /\ (dpc = "send" => UNCHANGED <<reg, item>>)
  BY <1>4 DEF WalkInv, BroadcastPartition, bcVars, NoDup
<1>5. QED BY <1>1, <1>2, <1>3, <1>4, WalkSteps

-----------------------------------------------------------------------------
(* Every message has its wake.                                             *)

\* The port threads that have a wake to write can be counted.
LEMMA WakingIsNat ==
  LET P == {i \in 1 .. MaxPorts : ports[i] = "wake"}
  IN  IsFiniteSet(P) /\ Cardinality(P) \in Nat /\ Waking \in Nat
<1> DEFINE P == {i \in 1 .. MaxPorts : ports[i] = "wake"}
<1>1. IsFiniteSet(1 .. MaxPorts) BY ServiceAssumption, FS_Interval
<1>2. IsFiniteSet(P) /\ Cardinality(P) \in Nat
  BY <1>1, FS_Subset, FS_CardinalityType
<1>3. QED BY <1>2 DEF Waking

\* The same in the next state.
LEMMA WakingIsNatNext ==
  LET P == {i \in 1 .. MaxPorts : ports'[i] = "wake"}
  IN  IsFiniteSet(P) /\ Cardinality(P) \in Nat /\ Waking' \in Nat
<1> DEFINE P == {i \in 1 .. MaxPorts : ports'[i] = "wake"}
<1>1. IsFiniteSet(1 .. MaxPorts) BY ServiceAssumption, FS_Interval
<1>2. IsFiniteSet(P) /\ Cardinality(P) \in Nat
  BY <1>1, FS_Subset, FS_CardinalityType
<1>3. QED BY <1>2 DEF Waking

\* Steps that give no thread a wake to write and write none.
LEMMA WakingStays ==
  ASSUME cpc' = "wake" <=> cpc = "wake",
         \A i \in 1 .. MaxPorts : ports'[i] = "wake" <=> ports[i] = "wake"
  PROVE  Waking' = Waking
<1>1. {i \in 1 .. MaxPorts : ports'[i] = "wake"}
        = {i \in 1 .. MaxPorts : ports[i] = "wake"}
  OBVIOUS
<1>2. QED BY <1>1 DEF Waking

\* A push gives its thread a wake to write.
LEMMA WakingGrows ==
  ASSUME ThreadTypes,
         CoordinatorPushes \/ \E i \in 1 .. MaxPorts : GlobalArrives(i)
  PROVE  Waking' = Waking + 1
<1> DEFINE P == {i \in 1 .. MaxPorts : ports[i] = "wake"}
           Q == {i \in 1 .. MaxPorts : ports'[i] = "wake"}
<1>1. IsFiniteSet(P) /\ Cardinality(P) \in Nat BY WakingIsNat
<1>2. CASE CoordinatorPushes
  <2>1. cpc = "push" /\ cpc' = "wake" /\ ports' = ports
    BY <1>2 DEF CoordinatorPushes, coordRest
  <2>2. Q = P BY <2>1
  <2>3. Waking = 0 + Cardinality(P) /\ Waking' = 1 + Cardinality(Q)
    BY <2>1 DEF Waking
  <2>4. QED BY <1>1, <2>2, <2>3
<1>3. ASSUME NEW i \in 1 .. MaxPorts, GlobalArrives(i)
      PROVE  Waking' = Waking + 1
  <2>1. /\ ports[i] = "read" /\ ports' = [ports EXCEPT ![i] = "wake"]
        /\ cpc' = cpc
        /\ ports \in [1 .. MaxPorts -> {"off", "read", "wake", "closed"}]
    BY <1>3 DEF GlobalArrives, ThreadTypes
  <2>2. i \notin P /\ Q = P \cup {i} BY <2>1
  <2>3. Cardinality(Q) = Cardinality(P) + 1 BY <1>1, <2>2, FS_AddElement
  <2> DEFINE c == IF cpc = "wake" THEN 1 ELSE 0
  <2>4. c \in Nat /\ Waking = c + Cardinality(P) /\ Waking' = c + Cardinality(Q)
    BY <2>1 DEF Waking
  <2> HIDE DEF c, P, Q
  <2>5. QED BY <1>1, <2>3, <2>4
<1>4. QED BY <1>2, <1>3

\* A wake that is written is not to be written any more.
LEMMA WakingShrinks ==
  ASSUME ThreadTypes,
         CoordinatorWakes \/ \E i \in 1 .. MaxPorts : PortWakes(i)
  PROVE  Waking' = Waking - 1
<1> DEFINE P == {i \in 1 .. MaxPorts : ports[i] = "wake"}
           Q == {i \in 1 .. MaxPorts : ports'[i] = "wake"}
<1>1. IsFiniteSet(P) /\ Cardinality(P) \in Nat BY WakingIsNat
<1>2. CASE CoordinatorWakes
  <2>1. cpc = "wake" /\ cpc' = "accept" /\ ports' = ports
    BY <1>2 DEF CoordinatorWakes
  <2>2. Q = P BY <2>1
  <2>3. Waking = 1 + Cardinality(P) /\ Waking' = 0 + Cardinality(Q)
    BY <2>1 DEF Waking
  <2> HIDE DEF P, Q
  <2>4. QED BY <1>1, <2>2, <2>3
<1>3. ASSUME NEW i \in 1 .. MaxPorts, PortWakes(i)
      PROVE  Waking' = Waking - 1
  <2>1. /\ ports[i] = "wake" /\ ports' = [ports EXCEPT ![i] = "read"]
        /\ cpc' = cpc
        /\ ports \in [1 .. MaxPorts -> {"off", "read", "wake", "closed"}]
    BY <1>3 DEF PortWakes, ThreadTypes
  <2>2. i \in P /\ Q = P \ {i}
    <3>1. \A j \in 1 .. MaxPorts :
            ports'[j] = "wake" <=> (ports[j] = "wake" /\ j # i)
      BY <2>1
    <3>2. i \in P BY <2>1
    <3>3. Q = P \ {i} BY <3>1
    <3>4. QED BY <3>2, <3>3
  <2> DEFINE c == IF cpc = "wake" THEN 1 ELSE 0
  <2>3. c \in Nat /\ Waking = c + Cardinality(P) /\ Waking' = c + Cardinality(Q)
    BY <2>1 DEF Waking
  <2> HIDE DEF c, P, Q
  <2>4. Cardinality(Q) = Cardinality(P) - 1 BY <1>1, <2>2, FS_RemoveElement
  <2>5. QED BY <1>1, <2>3, <2>4
<1>4. QED BY <1>2, <1>3

\* The call in progress goes on to look into the queue.
InReach == IF Draining THEN 1 ELSE 0

\* Every step keeps a wake for every message: a push comes with one, a wake
\* read is a call that takes a message or finds none.
LEMMA WakePerMessageKept ==
  ASSUME ThreadTypes, MessageTypes, HandInv, StartInv, LooperInv, LooperInv',
         WakePerMessage, Next
  PROVE  WakePerMessage'
<1> DEFINE a == Ahead
           b == Ahead'
           w == Waking
           v == Waking'
           l == Len(mQ)
           m == Len(mQ')
           r == InReach
           s == InReach'
<1>1. /\ a \in Nat /\ b \in Nat /\ w \in Nat /\ v \in Nat
      /\ r \in {0, 1} /\ s \in {0, 1} /\ l \in Nat /\ l <= a + w + r
  <2>1. a \in Nat BY LenProperties DEF LooperInv, LooperTypeOK, Ahead
  <2>2. b \in Nat BY LenProperties DEF LooperInv, LooperTypeOK, Ahead
  <2>3. w \in Nat /\ v \in Nat BY WakingIsNat, WakingIsNatNext
  <2>4. l \in Nat BY LenProperties DEF MessageTypes
  <2>5. l <= a + w + r BY DEF WakePerMessage, Ahead, InReach
  <2>6. QED BY <2>1, <2>2, <2>3, <2>4, <2>5 DEF InReach
<1>2. SUFFICES m <= b + v + s BY DEF WakePerMessage, Ahead, InReach
<1> HIDE DEF a, b, w, v, l, m, r, s
<1>3. CASE CoordinatorPushes \/ \E i \in 1 .. MaxPorts : GlobalArrives(i)
  <2>1. v = w + 1 BY <1>3, WakingGrows DEF v, w
  <2>2. UNCHANGED <<looperVars, dpc, item>>
    BY <1>3 DEF CoordinatorPushes, coordRest, GlobalArrives, looperVars
  <2>3. b = a /\ s = r
    BY <2>2 DEF looperVars, Ahead, InReach, Draining, Handling, a, b, r, s
  <2>4. m <= l + 1
    <3>1. \E x \in Message : mQ' = Queued(x)
      <4>1. Msg("global", Self, FALSE) \in Message BY MessagesSent
      <4>2. CoordinatorPushes => cmsg \in Message
        BY DEF CoordinatorPushes, HandInv, MessageTypes
      <4>3. QED BY <1>3, <4>1, <4>2 DEF CoordinatorPushes, GlobalArrives
    <3>2. QED BY <3>1, QueuedKeeps DEF MessageTypes, m, l
  <2>5. m \in Nat
    <3>1. mQ' \in Seq(Message) BY MessageTypesKept DEF MessageTypes
    <3>2. QED BY <3>1, LenProperties DEF m
  <2>6. QED BY <1>1, <2>1, <2>3, <2>4, <2>5
<1>4. CASE CoordinatorWakes \/ \E i \in 1 .. MaxPorts : PortWakes(i)
  <2>1. v = w - 1 BY <1>4, WakingShrinks DEF v, w
  <2>2. UNCHANGED <<mQ, dpc, item>> /\ WriteEvent("wake")
    BY <1>4 DEF CoordinatorWakes, PortWakes
  <2>3. b = a + 1 BY <2>2, LooperWoken DEF a, b
  <2>4. s = r /\ m = l BY <2>2 DEF InReach, Draining, Handling, r, s, m, l
  <2>5. QED BY <1>1, <2>1, <2>3, <2>4
<1>5. CASE Poll
  <2>1. /\ dpc = "poll" /\ dpc' = "process" /\ UNCHANGED <<mQ, cpc, ports>>
    BY <1>5 DEF Poll, dispRest
  <2>2. v = w BY <2>1, WakingStays DEF v, w
  <2>3. b + 1 = a
    <3>1. Ahead' + Serving' = Ahead + Serving
      BY <1>5, <2>1, LooperReads DEF Poll
    <3>2. Serving' = 1 /\ Serving = 0 BY <2>1 DEF Serving
    <3>3. b + 1 = a + 0 BY <3>1, <3>2 DEF a, b
    <3>4. QED BY <1>1, <3>3
  <2>4. s = 1 /\ r = 0 /\ m = l
    BY <2>1 DEF InReach, Draining, Handling, r, s, m, l
  <2>5. QED BY <1>1, <2>2, <2>3, <2>4
<1>6. CASE QueueEmpty
  <2>1. m = 0 BY <1>6 DEF QueueEmpty, m
  <2>2. QED BY <1>1, <2>1
<1>7. CASE HandleCustom
  <2>1. Handling("custom") /\ BackToLoop /\ UNCHANGED <<mQ, cpc, ports>>
    BY <1>7 DEF HandleCustom, dispRest
  <2>2. v = w BY <2>1, WakingStays DEF v, w
  <2>3. /\ Ahead' + Serving' = Ahead /\ dpc' \in {"process", "poll"}
    BY <2>1, LooperGoesOn DEF Handling
  <2>4. Serving' = s /\ r = 0 /\ m = l
    BY <2>1, <2>3 DEF Serving, InReach, Draining, Handling, r, s, m, l
  <2>5. b + s = a BY <2>3, <2>4 DEF a, b
  <2>6. QED BY <1>1, <2>2, <2>4, <2>5
<1>8. CASE Pop
  <2>1. /\ dpc = "process" /\ UNCHANGED <<looperVars, cpc, ports>>
        /\ mQ # <<>> /\ mQ' = Tail(mQ)
    BY <1>8 DEF Pop, dispRest
  <2>2. v = w BY <2>1, WakingStays DEF v, w
  <2>3. b = a BY <2>1 DEF Ahead, looperVars, a, b
  <2>4. m = l - 1
    BY <2>1, HeadTailProperties DEF MessageTypes, m, l
  <2>5. r = 1 BY <2>1 DEF InReach, Draining, Handling, r
  <2>6. QED BY <1>1, <2>2, <2>3, <2>4, <2>5
<1>9. CASE \/ Main \/ CoordinatorBinds \/ CoordinatorFails \/ AcceptMessage
           \/ AcceptShort \/ AcceptStall \/ AcceptKill \/ AcceptFails
           \/ CoordinatorLocks \/ Peers
           \/ \E i \in 1 .. MaxPorts : PortNoOwner(i) \/ PortCloses(i)
  <2>1. /\ UNCHANGED <<mQ, looperVars, item>>
        /\ dpc' = dpc \/ (dpc = "off" /\ dpc' = "poll")
    BY <1>9 DEF StartInv, Main, StartCoordinator, JoinSelf, StartDispatcher,
       SetOwner, startRest, CoordinatorBinds, CoordinatorFails, AcceptMessage,
       AcceptShort, AcceptStall, CoordinatorLocks, AcceptKill, AcceptFails,
       coordRest, looperVars, Peers, Request, NodeChanges, NodeStalls,
       PortNoOwner, PortCloses
  <2>2. cpc' = "wake" <=> cpc = "wake"
    BY <1>9 DEF StartInv, Main, StartCoordinator, JoinSelf, StartDispatcher,
       SetOwner, startRest, CoordinatorBinds, CoordinatorFails, AcceptMessage,
       AcceptShort, AcceptStall, CoordinatorLocks, AcceptKill, AcceptFails,
       coordRest, Peers, Request, NodeChanges, NodeStalls, PortNoOwner,
       PortCloses
  <2>3. \A i \in 1 .. MaxPorts : ports'[i] = "wake" <=> ports[i] = "wake"
    BY <1>9 DEF ThreadTypes, Main, StartCoordinator, JoinSelf,
       StartDispatcher, SetOwner, startRest, CoordinatorBinds,
       CoordinatorFails, AcceptMessage, AcceptShort, AcceptStall,
       CoordinatorLocks, AcceptKill, AcceptFails, coordRest, Peers, Request,
       NodeChanges, NodeStalls, PortNoOwner, PortCloses
  <2>4. v = w BY <2>2, <2>3, WakingStays DEF v, w
  <2>5. b = a /\ m = l BY <2>1 DEF Ahead, looperVars, a, b, m, l
  <2>6. s = r BY <2>1 DEF InReach, Draining, Handling, r, s
  <2>7. QED BY <1>1, <2>4, <2>5, <2>6
<1>10. CASE \/ HandleJoin \/ HandleDrop \/ HandleSetDefault \/ HandleList
            \/ HandleListEmpty \/ HandleOther \/ HandleGlobal \/ Broadcast
            \/ SendBreaks \/ Register
  <2>1. UNCHANGED <<mQ, looperVars, cpc>>
    BY <1>10 DEF HandleJoin, HandleDrop, HandleSetDefault, HandleList,
       HandleListEmpty, HandleOther, HandleGlobal, handleRest, dispRest,
       Broadcast, StartBroadcast, BroadcastSent, BroadcastFailed,
       BroadcastEnds, sendRest, SendBreaks, Register, RegisterFails,
       RegisterConnects, RouterRuns, RouterNoOwner, RouterHangs, DefaultRuns,
       DefaultHangs, CastReady, regRest
  <2>2. \A i \in 1 .. MaxPorts : ports'[i] = "wake" <=> ports[i] = "wake"
    BY <1>10 DEF ThreadTypes, HandleJoin, HandleDrop, HandleSetDefault,
       HandleList, HandleListEmpty, HandleOther, HandleGlobal, handleRest,
       Broadcast, StartBroadcast, BroadcastSent, BroadcastFailed,
       BroadcastEnds, sendRest, SendBreaks, Register, RegisterFails,
       RegisterConnects, RouterRuns, RouterNoOwner, RouterHangs, DefaultRuns,
       DefaultHangs, CastReady
  <2>3. Draining'
    <3>1. CASE SendBreaks
      <4>1. UNCHANGED <<dpc, item>> BY <3>1 DEF SendBreaks
      <4>2. dpc \in {"send", "ready"} \/ Handling("list") \/ Handling("global")
        BY <3>1 DEF SendBreaks, Sending
      <4>3. QED BY <4>1, <4>2 DEF Draining, Handling
    <3>2. CASE ~SendBreaks
      BY <1>10, <3>2 DEF Draining, Handling, Done, HandleJoin, HandleDrop,
         HandleSetDefault, HandleList, HandleListEmpty, HandleOther,
         HandleGlobal, Broadcast, StartBroadcast, BroadcastSent,
         BroadcastFailed, BroadcastEnds, sendRest, dispRest, Register,
         RegisterFails, RegisterConnects, RouterRuns, RouterNoOwner,
         RouterHangs, DefaultRuns, DefaultHangs, CastReady
    <3>3. QED BY <3>1, <3>2
  <2>4. v = w BY <2>1, <2>2, WakingStays DEF v, w
  <2>5. b = a /\ m = l BY <2>1 DEF Ahead, looperVars, a, b, m, l
  <2>6. s = 1 BY <2>3 DEF InReach, s
  <2>7. QED BY <1>1, <2>4, <2>5, <2>6
<1>11. QED
  BY <1>3, <1>4, <1>5, <1>6, <1>7, <1>8, <1>9, <1>10
     DEF Next, Coordinator, Port, Dispatcher

-----------------------------------------------------------------------------
(* The invariant.                                                          *)

SvcInv ==
  /\ TypeOK /\ HandInv /\ StartInv /\ LooperInv
  /\ RegistryInv /\ WalkInv /\ WakePerMessage

\* The service starts with nothing queued, registered or under way.
LEMMA SvcStarts == Init => SvcInv
<1>1. SUFFICES ASSUME Init PROVE SvcInv OBVIOUS
<1>2. LooperTypeOK
  <2>1. <<>> \in Seq(LooperEvent) /\ Len(<<>>) = 0 OBVIOUS
  <2>2. QED
    BY <1>1, <2>1, LooperAssumption DEF Init, LooperInit, LooperTypeOK
<1>3. \A X : <<>> \in Seq(X) /\ Len(<<>>) = 0 OBVIOUS
<1>4. ThreadTypes
  <2>1. ports \in [1 .. MaxPorts -> {"off", "read", "wake", "closed"}]
    BY <1>1 DEF Init
  <2>2. up \subseteq Name \ {Self}
    BY <1>1, ServiceAssumption DEF Init, Name
  <2>3. QED BY <1>1, <2>1, <2>2 DEF Init, ThreadTypes
<1>5. MessageTypes BY <1>1, <1>3, ServiceAssumption DEF Init, MessageTypes
<1>6. RegistryTypes BY <1>1, <1>3 DEF Init, RegistryTypes
<1>7. HandInv /\ StartInv /\ RegistryInv /\ WalkInv
  BY <1>1, <1>3
     DEF Init, HandInv, StartInv, RegistryInv, WalkInv, BroadcastPartition
<1>8. LooperInv
  BY <1>1, <1>2, <1>3 DEF Init, LooperInit, LooperInv, OnlyWakes
<1>9. WakePerMessage
  <2>1. /\ Len(mQ) = 0 /\ Len(pipe) = 0 /\ Len(batch) = 0 /\ pos = 0
        /\ ~Draining
    BY <1>1 DEF Init, LooperInit, Draining
  <2>2. QED BY <2>1, WakingIsNat DEF WakePerMessage
<1>10. QED
  BY <1>2, <1>4, <1>5, <1>6, <1>7, <1>8, <1>9, TypeParts DEF SvcInv

\* What the invariant says of types, in parts.
LEMMA SvcParts ==
  ASSUME SvcInv
  PROVE  /\ LooperTypeOK /\ ThreadTypes /\ MessageTypes /\ RegistryTypes
         /\ HandInv /\ StartInv /\ LooperInv /\ RegistryInv /\ WalkInv
         /\ BroadcastPartition /\ WakePerMessage
BY TypeParts DEF SvcInv, WalkInv

\* Every step of the daemon and its peers keeps the invariant.
LEMMA SvcInvKept ==
  ASSUME SvcInv, [Next]_vars
  PROVE  SvcInv'
<1>1. CASE Next
  <2>1. HandInv' BY <1>1, SvcParts, HandInvKept
  <2>2. StartInv' BY <1>1, SvcParts, StartInvKept
  <2>3. LooperInv' BY <1>1, SvcParts, LooperInvKept
  <2>4. RegistryInv' BY <1>1, SvcParts, RegistryInvKept
  <2>5. WalkInv' BY <1>1, SvcParts, WalkInvKept
  <2>6. WakePerMessage' BY <1>1, <2>3, SvcParts, WakePerMessageKept
  <2>7. ThreadTypes' BY <1>1, SvcParts, ThreadTypesKept
  <2>8. MessageTypes' BY <1>1, SvcParts, MessageTypesKept
  <2>9. RegistryTypes' BY <1>1, SvcParts, RegistryTypesKept
  <2>10. TypeOK'
    BY <2>3, <2>7, <2>8, <2>9
       DEF LooperInv, TypeOK, ThreadTypes, MessageTypes, RegistryTypes
  <2>11. QED
    BY <2>1, <2>2, <2>3, <2>4, <2>5, <2>6, <2>10 DEF SvcInv
<1>2. CASE UNCHANGED vars
  <2>1. TypeOK'
    <3>1. UNCHANGED looperVars /\ UNCHANGED regVars /\ UNCHANGED bcVars
          /\ UNCHANGED envVars
      BY <1>2 DEF vars
    <3>2. LooperTypeOK' BY <3>1, SvcParts DEF LooperTypeOK, looperVars
    <3>3. ThreadTypes'
      <4>1. UNCHANGED <<main, cpc, dpc, mInitialized, up, silent, routerSetup,
                        ports, requests, globals, broadcasts, died>>
        BY <1>2, <3>1 DEF vars, envVars
      <4>2. ThreadTypes BY SvcParts
      <4>3. /\ requests' \in Nat /\ broadcasts' \in Nat
            /\ up' \subseteq Name \ {Self} /\ silent' \subseteq up'
        BY <4>1, <4>2 DEF ThreadTypes
      <4>4. QED BY <4>1, <4>2, <4>3, ThreadsStay
    <3>4. MessageTypes' BY <1>2, SvcParts DEF MessageTypes, vars
    <3>5. RegistryTypes' BY <3>1, SvcParts DEF RegistryTypes, regVars, bcVars
    <3>6. QED
      BY <3>2, <3>3, <3>4, <3>5
         DEF TypeOK, ThreadTypes, MessageTypes, RegistryTypes
  <2>2. HandInv' /\ StartInv' /\ LooperInv'
    BY <1>2 DEF SvcInv, HandInv, StartInv, LooperInv, LooperTypeOK, OnlyWakes,
       vars, looperVars
  <2>3. RegistryInv' /\ WalkInv'
    BY <1>2 DEF SvcInv, RegistryInv, WalkInv, BroadcastPartition, NoDup, vars,
       regVars, bcVars
  <2>4. WakePerMessage'
    BY <1>2 DEF SvcInv, WakePerMessage, Waking, Draining, Handling, vars,
       looperVars
  <2>5. QED BY <2>1, <2>2, <2>3, <2>4 DEF SvcInv
<1>3. QED BY <1>1, <1>2

\* The invariant holds in every behaviour.
LEMMA SvcInvHolds == Spec => []SvcInv
<1>1. Init => SvcInv BY SvcStarts
<1>2. SvcInv /\ [Next]_vars => SvcInv' BY SvcInvKept
<1>3. QED BY <1>1, <1>2, PTL DEF Spec

\* The variables of the service have their types.
THEOREM ServiceTypeCorrect == Spec => []TypeOK
<1>1. SvcInv => TypeOK BY DEF SvcInv
<1>2. QED BY <1>1, SvcInvHolds, PTL

\* Joins, drops, failed sends and registrations, in any order and over any
\* number of nodes, leave a registry without repetitions and its true length in
\* mNumOfNode.
THEOREM RegistryInvCorrect == Spec => []RegistryInv
<1>1. SvcInv => RegistryInv BY DEF SvcInv
<1>2. QED BY <1>1, SvcInvHolds, PTL

\* A broadcast that removes entries from the list it walks over passes over
\* none and visits none twice.
THEOREM BroadcastPartitionCorrect == Spec => []BroadcastPartition
<1>1. SvcInv => BroadcastPartition BY DEF SvcInv, WalkInv
<1>2. QED BY <1>1, SvcInvHolds, PTL

\* However many threads push and however large the pipe, the batch and the
\* queue are, no message is left behind without a wake.
THEOREM WakePerMessageCorrect == Spec => []WakePerMessage
<1>1. SvcInv => WakePerMessage BY DEF SvcInv
<1>2. QED BY <1>1, SvcInvHolds, PTL

-----------------------------------------------------------------------------
(* Broadcasts that go round.                                               *)

BroadcastMessages == {m \in Message : IsBroadcast(m)}

One(b) == IF b THEN 1 ELSE 0

\* Broadcasts in a queue, as the lemmas about queues count them.
LEMMA BroadcastsAreCounted ==
  ASSUME NEW q \in Seq(Message)
  PROVE  Broadcasts(q) = Count(q, BroadcastMessages) /\ Broadcasts(q) \in Nat
<1>1. \A k \in 1 .. Len(q) : q[k] \in Message BY ElementOfSeq
<1>2. {k \in 1 .. Len(q) : IsBroadcast(q[k])} = Places(q, BroadcastMessages)
  BY <1>1 DEF Places, BroadcastMessages
<1>3. Count(q, BroadcastMessages) \in Nat BY CountNat
<1>4. QED BY <1>2, <1>3 DEF Broadcasts, Count

\* One more message counts if it is a broadcast.
LEMMA BroadcastsAppend ==
  ASSUME NEW q \in Seq(Message), NEW m \in Message
  PROVE  Broadcasts(Append(q, m)) = Broadcasts(q) + One(IsBroadcast(m))
<1>1. /\ Append(q, m) \in Seq(Message)
      /\ Count(Append(q, m), BroadcastMessages)
           = Count(q, BroadcastMessages)
             + (IF m \in BroadcastMessages THEN 1 ELSE 0)
  BY CountAppend
<1>2. Broadcasts(q) = Count(q, BroadcastMessages) BY BroadcastsAreCounted
<1>3. Broadcasts(Append(q, m)) = Count(Append(q, m), BroadcastMessages)
  BY <1>1, BroadcastsAreCounted
<1>4. m \in BroadcastMessages <=> IsBroadcast(m) BY DEF BroadcastMessages
<1>5. QED BY <1>1, <1>2, <1>3, <1>4 DEF One

\* The first message is counted no more when it is taken.
LEMMA BroadcastsTail ==
  ASSUME NEW q \in Seq(Message), q # <<>>
  PROVE  /\ Tail(q) \in Seq(Message) /\ Head(q) \in Message
         /\ Broadcasts(q) = Broadcasts(Tail(q)) + One(IsBroadcast(Head(q)))
         /\ Broadcasts(Tail(q)) \in Nat
<1>1. /\ Tail(q) \in Seq(Message) /\ Head(q) = q[1] /\ q[1] \in Message
      /\ Count(Tail(q), BroadcastMessages)
           = Count(q, BroadcastMessages)
             - (IF q[1] \in BroadcastMessages THEN 1 ELSE 0)
  BY CountTail
<1>2. Broadcasts(q) = Count(q, BroadcastMessages) /\ Broadcasts(q) \in Nat
  BY BroadcastsAreCounted
<1>3. /\ Broadcasts(Tail(q)) = Count(Tail(q), BroadcastMessages)
      /\ Broadcasts(Tail(q)) \in Nat
  BY <1>1, BroadcastsAreCounted
<1>4. q[1] \in BroadcastMessages <=> IsBroadcast(Head(q))
  BY <1>1 DEF BroadcastMessages
<1>5. QED BY <1>1, <1>2, <1>3, <1>4 DEF One

\* An empty queue holds none.
LEMMA BroadcastsEmpty == Broadcasts(<<>>) = 0
<1>1. {k \in 1 .. Len(<<>>) : IsBroadcast(<<>>[k])} = {} OBVIOUS
<1>2. QED BY <1>1, FS_EmptySet DEF Broadcasts

\* The broadcast in the dispatcher's hand, until the service has its copy.
InHand ==
  One(IsBroadcast(item) /\ \A j \in 1 .. Len(visited) : visited[j] # Self)

\* The parts of InFlight are numbers.
LEMMA FlightParts ==
  ASSUME MessageTypes
  PROVE  /\ Broadcasts(backlog) \in Nat /\ Broadcasts(mQ) \in Nat
         /\ One(IsBroadcast(cmsg)) \in {0, 1} /\ InHand \in {0, 1}
         /\ InFlight = Broadcasts(backlog) + Broadcasts(mQ)
                       + One(IsBroadcast(cmsg)) + InHand
BY BroadcastsAreCounted DEF MessageTypes, InFlight, One, InHand

\* The same in the next state.
LEMMA FlightPartsNext ==
  ASSUME MessageTypes'
  PROVE  /\ Broadcasts(backlog)' \in Nat /\ Broadcasts(mQ)' \in Nat
         /\ One(IsBroadcast(cmsg))' \in {0, 1} /\ InHand' \in {0, 1}
         /\ InFlight' = Broadcasts(backlog)' + Broadcasts(mQ)'
                        + One(IsBroadcast(cmsg))' + InHand'
<1>1. backlog' \in Seq(Message) /\ mQ' \in Seq(Message) BY DEF MessageTypes
<1>2. Broadcasts(backlog') \in Nat /\ Broadcasts(mQ') \in Nat
  BY <1>1, BroadcastsAreCounted
<1>3. QED BY <1>2 DEF InFlight, One, InHand, Broadcasts, IsBroadcast

\* The dispatcher's hand is emptied, or holds what it held.
LEMMA HandSame ==
  ASSUME item' = NoMsg \/ UNCHANGED <<item, visited>>
  PROVE  InHand' \in {0, InHand}
<1>1. ~IsBroadcast(NoMsg) BY DEF IsBroadcast, NoMsg
<1>2. CASE item' = NoMsg
  BY <1>1, <1>2 DEF InHand, One, IsBroadcast
<1>3. CASE UNCHANGED <<item, visited>>
  BY <1>3 DEF InHand, One, IsBroadcast
<1>4. QED BY <1>2, <1>3

\* Messages other than broadcasts do not count.
LEMMA OthersDoNotCount ==
  /\ ~IsBroadcast(NoMsg)
  /\ \A p \in BOOLEAN : ~IsBroadcast(Msg("other", Self, p))
  /\ ~IsBroadcast(Msg("json", Self, FALSE))
  /\ ~IsBroadcast(Msg("global", Self, FALSE))
BY DEF IsBroadcast, NoMsg, Msg

\* A push moves what it pushes into the queue, or loses it.
LEMMA QueuedCounts ==
  ASSUME MessageTypes, NEW m \in Message
  PROVE  Broadcasts(Queued(m)) <= Broadcasts(mQ) + One(IsBroadcast(m))
<1>1. mQ \in Seq(Message) BY DEF MessageTypes
<1>2. Broadcasts(Append(mQ, m)) = Broadcasts(mQ) + One(IsBroadcast(m))
  BY <1>1, BroadcastsAppend
<1>3. Broadcasts(mQ) \in Nat /\ One(IsBroadcast(m)) \in {0, 1}
  BY <1>1, BroadcastsAreCounted DEF One
<1>4. QED BY <1>2, <1>3 DEF Queued

\* Every step: what goes on in one place has gone from another, and only a
\* request brings a broadcast in.
LEMMA NoMultiplicationKept ==
  ASSUME SvcInv, NoMultiplication, Next
  PROVE  NoMultiplication'
<1> DEFINE b == Broadcasts(backlog)
           c == Broadcasts(backlog')
           q == Broadcasts(mQ)
           r == Broadcasts(mQ')
           x == One(IsBroadcast(cmsg))
           y == One(IsBroadcast(cmsg'))
           h == InHand
           k == InHand'
<1>1. /\ MessageTypes /\ WalkInv /\ RegistryTypes /\ BroadcastPartition
      /\ HandInv /\ StartInv /\ broadcasts \in Nat
      /\ backlog \in Seq(Message) /\ mQ \in Seq(Message)
  BY SvcParts DEF ThreadTypes, MessageTypes
<1>2. SvcInv' BY SvcInvKept
<1>3. MessageTypes' BY <1>2 DEF SvcInv, TypeOK, MessageTypes
<1>4. /\ b \in Nat /\ q \in Nat /\ x \in {0, 1} /\ h \in {0, 1}
      /\ b + q + x + h <= broadcasts
  BY <1>1, FlightParts DEF NoMultiplication
<1>5. /\ c \in Nat /\ r \in Nat /\ y \in {0, 1} /\ k \in {0, 1}
      /\ InFlight' = c + r + y + k
  BY <1>3, FlightPartsNext DEF Broadcasts, IsBroadcast, One
<1>6. SUFFICES c + r + y + k <= broadcasts'
  BY <1>5 DEF NoMultiplication
<1> HIDE DEF b, c, q, r, x, y, h, k
<1>7. CASE \/ Main \/ CoordinatorBinds \/ CoordinatorFails
           \/ CoordinatorLocks \/ CoordinatorWakes
           \/ \E i \in 1 .. MaxPorts :
                PortNoOwner(i) \/ PortWakes(i) \/ PortCloses(i)
           \/ \E n \in Mortal : NodeChanges(n)
           \/ \E n \in Lazy : NodeStalls(n)
  <2>1. UNCHANGED <<backlog, mQ, cmsg, item, visited, broadcasts>>
    BY <1>7 DEF Main, StartCoordinator, JoinSelf, StartDispatcher, SetOwner,
       startRest, CoordinatorBinds, CoordinatorFails, CoordinatorLocks,
       CoordinatorWakes,
       coordRest, PortNoOwner, PortWakes, PortCloses, NodeChanges, NodeStalls,
       bcVars, envVars
  <2>2. c = b /\ r = q /\ y = x BY <2>1 DEF b, c, q, r, x, y
  <2>3. k \in {0, h} BY <2>1, HandSame DEF h, k
  <2>4. QED BY <1>1, <1>4, <1>5, <2>1, <2>2, <2>3
<1>8. CASE \/ Poll \/ QueueEmpty \/ HandleJoin \/ HandleDrop
           \/ HandleSetDefault \/ HandleListEmpty \/ HandleCustom
           \/ HandleOther \/ StartBroadcast \/ BroadcastEnds \/ SendBreaks
           \/ (Register /\ ~CastReady)
  <2>1. UNCHANGED <<backlog, mQ, cmsg, broadcasts>>
    BY <1>8 DEF Poll, QueueEmpty, HandleJoin, HandleDrop, HandleSetDefault,
       HandleListEmpty, HandleCustom, HandleOther, handleRest, dispRest,
       StartBroadcast, BroadcastEnds, SendBreaks, Register, RegisterFails,
       RegisterConnects, RouterRuns, RouterNoOwner, RouterHangs, DefaultRuns,
       DefaultHangs, regRest, envVars
  <2>2. item' = NoMsg \/ UNCHANGED <<item, visited>>
    BY <1>1, <1>8 DEF WalkInv, Poll, QueueEmpty, HandleJoin, HandleDrop,
       HandleSetDefault, HandleListEmpty, HandleCustom, HandleOther,
       handleRest, StartBroadcast, BroadcastEnds, SendBreaks, Register,
       RegisterFails, RegisterConnects, RouterRuns, RouterNoOwner,
       RouterHangs, DefaultRuns, DefaultHangs, regRest, bcVars, Done
  <2>3. c = b /\ r = q /\ y = x BY <2>1 DEF b, c, q, r, x, y
  <2>4. k \in {0, h} BY <2>2, HandSame DEF h, k
  <2>5. QED BY <1>1, <1>4, <1>5, <2>1, <2>3, <2>4
<1>9. CASE AcceptMessage \/ AcceptShort \/ AcceptStall
  <2>1. /\ backlog # <<>> /\ backlog' = Tail(backlog)
        /\ cmsg' = cmsg \/ cmsg' = Head(backlog)
        /\ UNCHANGED <<mQ, item, visited, broadcasts>>
    BY <1>9 DEF AcceptMessage, AcceptShort, AcceptStall,
       coordRest, bcVars, envVars
  <2> DEFINE z == One(IsBroadcast(Head(backlog)))
  <2>2. b = c + z /\ c \in Nat /\ z \in {0, 1}
    BY <1>1, <2>1, BroadcastsTail DEF b, c, One
  <2>3. r = q /\ y \in {x, z} BY <2>1 DEF q, r, x, y
  <2>4. k \in {0, h} BY <2>1, HandSame DEF h, k
  <2> HIDE DEF z
  <2>5. QED BY <1>1, <1>4, <1>5, <2>1, <2>2, <2>3, <2>4
<1>10. CASE AcceptKill \/ AcceptFails
  <2>1. /\ backlog' = <<>> /\ UNCHANGED <<cmsg, mQ, item, visited, broadcasts>>
    BY <1>10 DEF AcceptKill, AcceptFails, coordRest, bcVars, envVars
  <2>2. c = 0 BY <2>1, BroadcastsEmpty DEF c
  <2>3. r = q /\ y = x BY <2>1 DEF q, r, x, y
  <2>4. k \in {0, h} BY <2>1, HandSame DEF h, k
  <2>5. QED BY <1>1, <1>4, <1>5, <2>1, <2>2, <2>3, <2>4
<1>11. CASE CoordinatorPushes
  <2>1. /\ cmsg \in Message /\ mQ' = Queued(cmsg) /\ cmsg' = NoMsg
        /\ UNCHANGED <<backlog, item, visited, broadcasts>>
    BY <1>1, <1>11 DEF CoordinatorPushes, HandInv, MessageTypes, coordRest,
       bcVars, envVars
  <2>2. r <= q + x BY <1>1, <2>1, QueuedCounts DEF r, q, x
  <2>3. c = b /\ y = 0 BY <2>1, OthersDoNotCount DEF b, c, y, One
  <2>4. k \in {0, h} BY <2>1, HandSame DEF h, k
  <2>5. QED BY <1>1, <1>4, <1>5, <2>1, <2>2, <2>3, <2>4
<1>12. CASE \E i \in 1 .. MaxPorts : GlobalArrives(i)
  <2> DEFINE g == Msg("global", Self, FALSE)
  <2>1. /\ g \in Message /\ mQ' = Queued(g)
        /\ UNCHANGED <<backlog, cmsg, item, visited, broadcasts>>
    BY <1>12, MessagesSent DEF GlobalArrives, bcVars
  <2>2. One(IsBroadcast(g)) = 0 BY OthersDoNotCount DEF One
  <2> HIDE DEF g
  <2>3. r <= q + 0 BY <1>1, <2>1, <2>2, QueuedCounts DEF r, q
  <2>4. c = b /\ y = x BY <2>1 DEF b, c, x, y
  <2>5. k \in {0, h} BY <2>1, HandSame DEF h, k
  <2>6. QED BY <1>1, <1>4, <1>5, <2>1, <2>3, <2>4, <2>5
<1>13. CASE \E m \in Requests : Request(m)
  <2>1. PICK m \in Requests : Request(m) BY <1>13
  <2>2. /\ m \in Message /\ backlog' = Append(backlog, m)
        /\ broadcasts' = broadcasts + One(IsBroadcast(m))
        /\ UNCHANGED <<cmsg, mQ, item, visited>>
    <3>1. /\ m \in Message /\ backlog' = Append(backlog, m)
          /\ UNCHANGED <<cmsg, mQ, item, visited>>
      BY <2>1, MessagesSent DEF Request, bcVars
    <3>2. broadcasts' = IF m.kind = "bc" THEN broadcasts + 1 ELSE broadcasts
      BY <2>1 DEF Request
    <3>3. QED BY <1>1, <3>1, <3>2 DEF IsBroadcast, One
  <2>3. c = b + One(IsBroadcast(m)) /\ One(IsBroadcast(m)) \in {0, 1}
    BY <1>1, <2>2, BroadcastsAppend DEF b, c, One
  <2>4. r = q /\ y = x BY <2>2 DEF q, r, x, y
  <2>5. k \in {0, h} BY <2>2, HandSame DEF h, k
  <2> DEFINE z == One(IsBroadcast(m))
  <2>6. broadcasts' = broadcasts + z /\ broadcasts \in Nat BY <1>1, <2>2
  <2>7. c = b + z /\ z \in {0, 1} BY <2>3
  <2> HIDE DEF z
  <2>8. c + r + y + k <= b + q + x + h + z
    BY <1>4, <1>5, <2>4, <2>5, <2>7
  <2>9. QED BY <1>4, <1>5, <2>6, <2>7, <2>8
<1>14. CASE Pop
  <2>1. /\ mQ # <<>> /\ mQ' = Tail(mQ) /\ item' = Head(mQ)
        /\ visited' = visited /\ visited = <<>>
        /\ UNCHANGED <<backlog, cmsg, broadcasts>>
    BY <1>1, <1>14 DEF Pop, WalkInv, dispRest, bcVars, envVars
  <2> DEFINE z == One(IsBroadcast(Head(mQ)))
  <2>2. q = r + z /\ r \in Nat /\ z \in {0, 1}
    BY <1>1, <2>1, BroadcastsTail DEF q, r, One
  <2>3. k = z BY <2>1 DEF k, InHand, One, IsBroadcast
  <2>4. c = b /\ y = x BY <2>1 DEF b, c, x, y
  <2> HIDE DEF z
  <2>5. QED BY <1>1, <1>4, <1>5, <2>1, <2>2, <2>3, <2>4
<1>15. CASE HandleList \/ HandleGlobal \/ CastReady
  <2>1. /\ UNCHANGED <<mQ, cmsg, broadcasts>> /\ item' = NoMsg
    BY <1>15 DEF HandleList, HandleGlobal, CastReady, handleRest, dispRest,
       envVars, Done
  <2>2. \/ backlog' = backlog
        \/ \E m \in Message :
             ~IsBroadcast(m) /\ backlog' = Append(backlog, m)
    <3>1. CASE HandleList
      <4>1. PICK page \in Pages, ok \in BOOLEAN :
              Send(item.name, Msg("other", Self, page), ok)
        BY <3>1 DEF HandleList
      <4>2. page \in BOOLEAN BY ServiceAssumption
      <4>3. QED BY <4>1, <4>2, MessagesSent, OthersDoNotCount DEF Send
    <3>2. CASE HandleGlobal
      <4>1. item \in Message /\ ~IsBroadcast(item)
        BY <1>1, <3>2, MessagesSent
           DEF HandleGlobal, Handling, MessageTypes, IsBroadcast
      <4>2. QED BY <3>2, <4>1 DEF HandleGlobal, Send
    <3>3. CASE CastReady
      BY <3>3, MessagesSent, OthersDoNotCount DEF CastReady, Send
    <3>4. QED BY <1>15, <3>1, <3>2, <3>3
  <2>3. c = b
    <3>1. CASE backlog' = backlog BY <3>1 DEF b, c
    <3>2. ASSUME NEW m \in Message, ~IsBroadcast(m),
                 backlog' = Append(backlog, m)
          PROVE  c = b
      <4>1. c = b + 0 BY <1>1, <3>2, BroadcastsAppend DEF b, c, One
      <4>2. QED BY <1>4, <4>1
    <3>3. QED BY <2>2, <3>1, <3>2
  <2>4. r = q /\ y = x BY <2>1 DEF q, r, x, y
  <2>5. k \in {0, h} BY <2>1, HandSame DEF h, k
  <2>6. QED BY <1>1, <1>4, <1>5, <2>1, <2>3, <2>4, <2>5
<1>16. CASE BroadcastSent \/ BroadcastFailed
  <2>1. /\ UNCHANGED <<mQ, cmsg, item, broadcasts>>
        /\ visited' = Append(visited, reg[cur])
        /\ \E ok : Send(reg[cur], BroadcastMsg, ok)
        /\ dpc = "send" /\ cur \in 1 .. Len(reg) /\ reg[cur] \in Name
    BY <1>1, <1>16, FailedPlace
       DEF BroadcastSent, BroadcastFailed, sendRest, dispRest, envVars
  <2>2. /\ reg \in Seq(Name) /\ visited \in Seq(Name)
        /\ NoDup(visited \o SubSeq(reg, cur, Len(reg)))
    BY <1>1, <2>1 DEF RegistryTypes, WalkInv, BroadcastPartition
  <2>3. \A j \in 1 .. Len(visited) : visited[j] # reg[cur]
    BY <2>1, <2>2, NotTriedBefore
  <2>4. /\ Len(visited) \in Nat /\ Len(visited') = Len(visited) + 1
        /\ \A j \in 1 .. Len(visited) : visited'[j] = visited[j]
        /\ visited'[Len(visited) + 1] = reg[cur]
    BY <2>1, <2>2, AppendProperties, LenProperties
  <2>5. \A j \in 1 .. Len(visited) : j \in 1 .. Len(visited') BY <2>4
  <2>6. /\ BroadcastMsg \in Message
        /\ IsBroadcast(BroadcastMsg) <=> IsBroadcast(item)
    BY <1>1, MessagesSent, OthersDoNotCount
       DEF BroadcastMsg, MessageTypes, IsBroadcast
  <2>7. r = q /\ y = x BY <2>1 DEF q, r, x, y
  <2>8. k <= h
    <3>1. (\A j \in 1 .. Len(visited') : visited'[j] # Self)
            => (\A j \in 1 .. Len(visited) : visited[j] # Self)
      BY <2>4, <2>5
    <3>2. QED BY <2>1, <3>1 DEF h, k, InHand, One, IsBroadcast
  <2>9. CASE backlog' = backlog
    <3>1. c = b BY <2>9 DEF b, c
    <3>2. QED BY <1>1, <1>4, <1>5, <2>1, <2>7, <2>8, <3>1
  <2>10. CASE reg[cur] = Self /\ backlog' = Append(backlog, BroadcastMsg)
    <3>1. c = b + One(IsBroadcast(item))
      BY <1>1, <2>6, <2>10, BroadcastsAppend DEF b, c, One
    <3>2. h = One(IsBroadcast(item)) BY <2>3, <2>10 DEF h, InHand, One
    <3>3. k = 0
      <4>1. Len(visited) + 1 \in 1 .. Len(visited') BY <2>4
      <4>2. QED BY <2>4, <2>10, <4>1 DEF k, InHand, One
    <3>4. c = b + h BY <3>1, <3>2
    <3>5. QED BY <1>1, <1>4, <1>5, <2>1, <2>7, <3>3, <3>4
  <2>11. QED BY <2>1, <2>9, <2>10 DEF Send
<1>17. QED
  BY <1>7, <1>8, <1>9, <1>10, <1>11, <1>12, <1>13, <1>14, <1>15, <1>16
     DEF Next, Coordinator, Port, Peers, Dispatcher, Broadcast

\* A broadcast goes round for ever, since the service is a node of its own
\* registry, but for any number of nodes there are never more under way than
\* peers have sent.
THEOREM NoMultiplicationCorrect == Spec => []NoMultiplication
<1>1. Init => NoMultiplication
  <2>1. SUFFICES ASSUME Init PROVE NoMultiplication OBVIOUS
  <2>2. backlog = <<>> /\ mQ = <<>> /\ cmsg = NoMsg /\ item = NoMsg
        /\ broadcasts = 0
    BY <2>1 DEF Init
  <2>3. QED
    BY <2>2, BroadcastsEmpty, OthersDoNotCount DEF NoMultiplication, InFlight
<1>2. SvcInv /\ NoMultiplication /\ [Next]_vars => NoMultiplication'
  <2>1. SvcInv /\ NoMultiplication /\ Next => NoMultiplication'
    BY NoMultiplicationKept
  <2>2. NoMultiplication /\ UNCHANGED vars => NoMultiplication'
    BY DEF NoMultiplication, InFlight, Broadcasts, IsBroadcast, vars, bcVars,
       envVars
  <2>3. QED BY <2>1, <2>2
<1>3. QED BY <1>1, <1>2, SvcInvHolds, PTL DEF Spec

-----------------------------------------------------------------------------
(* Instances in which every send that arrives is reported so, and in which  *)
(* nothing ends the coordinator or drops the service.                       *)

\* What waits, is queued or is in hand is of S.
Carried(S) ==
  /\ backlog \in Seq(S) /\ mQ \in Seq(S)
  /\ cmsg \in S \cup {NoMsg} /\ item \in S \cup {NoMsg}

\* A set of messages that holds all requests and all the daemon sends itself
\* holds everything that is ever carried.
LEMMA CarriedKept ==
  ASSUME NEW S \in SUBSET Message, Requests \subseteq S,
         \A p \in Pages : Msg("other", Self, p) \in S,
         Msg("other", Self, FALSE) \in S, Msg("json", Self, FALSE) \in S,
         Msg("global", Self, FALSE) \in S,
         HandInv, Carried(S), Next
  PROVE  Carried(S)'
<1>1. SUFFICES /\ backlog' \in Seq(S) /\ mQ' \in Seq(S)
               /\ cmsg' \in S \cup {NoMsg} /\ item' \in S \cup {NoMsg}
  BY DEF Carried
<1>2. CASE \/ Main \/ CoordinatorBinds \/ CoordinatorFails
           \/ CoordinatorLocks \/ CoordinatorWakes
           \/ \E i \in 1 .. MaxPorts :
                PortNoOwner(i) \/ PortWakes(i) \/ PortCloses(i)
           \/ \E n \in Mortal : NodeChanges(n)
           \/ \E n \in Lazy : NodeStalls(n)
  <2>1. UNCHANGED <<cmsg, backlog, mQ, item>>
    BY <1>2 DEF Main, StartCoordinator, JoinSelf, StartDispatcher, SetOwner,
       startRest, CoordinatorBinds, CoordinatorFails, CoordinatorLocks,
       CoordinatorWakes,
       coordRest, PortNoOwner, PortWakes, PortCloses, NodeChanges, NodeStalls
  <2>2. QED BY <2>1 DEF Carried
<1>3. CASE \/ AcceptMessage \/ AcceptShort \/ AcceptStall \/ AcceptKill
           \/ AcceptFails
  <2>1. UNCHANGED <<mQ, item>> /\ cmsg' \in {cmsg, Head(backlog)}
    BY <1>3 DEF AcceptMessage, AcceptShort, AcceptStall, CoordinatorLocks,
       AcceptKill, AcceptFails, coordRest
  <2>2. CASE backlog' = <<>> /\ cmsg' = cmsg
    BY <2>1, <2>2 DEF Carried
  <2>3. CASE backlog # <<>> /\ backlog' = Tail(backlog)
    BY <2>1, <2>3, HeadTailProperties DEF Carried
  <2>4. QED
    BY <1>3, <2>2, <2>3 DEF AcceptMessage, AcceptShort, AcceptStall,
       CoordinatorLocks, AcceptKill, AcceptFails
<1>4. CASE CoordinatorPushes \/ \E i \in 1 .. MaxPorts : GlobalArrives(i)
  <2>1. \E m \in S : mQ' = Queued(m)
    <3>1. CoordinatorPushes => cmsg \in S
      BY DEF CoordinatorPushes, HandInv, Carried
    <3>2. QED BY <1>4, <3>1 DEF CoordinatorPushes, GlobalArrives
  <2>2. mQ' \in Seq(S) BY <2>1, AppendProperties DEF Carried, Queued
  <2>3. UNCHANGED <<backlog, item>> /\ cmsg' \in {cmsg, NoMsg}
    BY <1>4 DEF CoordinatorPushes, coordRest, GlobalArrives
  <2>4. QED BY <2>2, <2>3 DEF Carried
<1>5. CASE \E m \in Requests : Request(m)
  <2>1. PICK m \in Requests : Request(m) BY <1>5
  <2>2. m \in S /\ backlog' = Append(backlog, m) /\ UNCHANGED <<cmsg, mQ, item>>
    BY <2>1 DEF Request
  <2>3. QED BY <2>2, AppendProperties DEF Carried
<1>6. CASE Pop
  BY <1>6, HeadTailProperties DEF Carried, Pop, dispRest
<1>7. CASE \/ HandleList \/ HandleGlobal \/ BroadcastSent \/ BroadcastFailed
           \/ CastReady
  <2>1. \E n, ok : \E m \in S : Send(n, m, ok) \/ UNCHANGED backlog
    <3>1. CASE HandleList
      BY <3>1 DEF HandleList
    <3>2. CASE HandleGlobal
      <4>1. item \in S
        BY <3>2, MessagesSent DEF HandleGlobal, Handling, Carried
      <4>2. QED BY <3>2, <4>1 DEF HandleGlobal
    <3>3. CASE BroadcastSent \/ BroadcastFailed
      <4>1. BroadcastMsg \in S
        BY MessagesSent DEF BroadcastMsg, Carried
      <4>2. QED BY <3>3, <4>1 DEF BroadcastSent, BroadcastFailed
    <3>4. CASE CastReady
      BY <3>4 DEF CastReady
    <3>5. QED BY <1>7, <3>1, <3>2, <3>3, <3>4
  <2>2. backlog' \in Seq(S) BY <2>1, AppendProperties DEF Carried, Send
  <2>3. UNCHANGED <<cmsg, mQ>> /\ item' \in {item, NoMsg}
    BY <1>7 DEF HandleList, HandleGlobal, handleRest, BroadcastSent,
       BroadcastFailed, CastReady, sendRest, dispRest, Done
  <2>4. QED BY <2>2, <2>3 DEF Carried
<1>8. CASE \/ Poll \/ QueueEmpty \/ HandleJoin \/ HandleDrop
           \/ HandleSetDefault \/ HandleListEmpty \/ HandleCustom
           \/ HandleOther \/ StartBroadcast \/ BroadcastEnds \/ SendBreaks
           \/ (Register /\ ~CastReady)
  <2>1. UNCHANGED <<cmsg, backlog, mQ>> /\ item' \in {item, NoMsg}
    BY <1>8 DEF Poll, QueueEmpty, HandleJoin, HandleDrop, HandleSetDefault,
       HandleListEmpty, HandleCustom, HandleOther, handleRest, dispRest,
       StartBroadcast, BroadcastEnds, SendBreaks, Register, RegisterFails,
       RegisterConnects, RouterRuns, RouterNoOwner, RouterHangs, DefaultRuns,
       DefaultHangs, regRest, Done
  <2>2. QED BY <2>1 DEF Carried
<1>9. QED
  BY <1>2, <1>3, <1>4, <1>5, <1>6, <1>7, <1>8
     DEF Next, Coordinator, Port, Peers, Dispatcher, Broadcast

\* Nobody fills a last page.
ShortMessages == {m \in Message : m.page = FALSE}

\* Where no peer fills the last page of a message, no message does.
LEMMA ShortStay == (Pages = {FALSE}) => (Spec => []Carried(ShortMessages))
<1> SUFFICES ASSUME Pages = {FALSE} PROVE Spec => []Carried(ShortMessages)
  OBVIOUS
<1>1. /\ \A p \in Pages : Msg("other", Self, p) \in ShortMessages
      /\ Msg("other", Self, FALSE) \in ShortMessages
      /\ Msg("json", Self, FALSE) \in ShortMessages
      /\ Msg("global", Self, FALSE) \in ShortMessages
      /\ ShortMessages \in SUBSET Message
  <2>1. \A k, n, p : Msg(k, n, p).page = p BY DEF Msg
  <2>2. /\ \A p \in Pages : Msg("other", Self, p) \in Message
        /\ Msg("json", Self, FALSE) \in Message
        /\ Msg("global", Self, FALSE) \in Message
    BY MessagesSent
  <2>3. QED BY ONLY Pages = {FALSE}, <2>1, <2>2 DEF ShortMessages
<1>2. Requests \subseteq ShortMessages BY DEF Requests, ShortMessages
<1>3. Init => Carried(ShortMessages) BY DEF Init, Carried
<1>4. SvcInv /\ Carried(ShortMessages) /\ [Next]_vars
        => Carried(ShortMessages)'
  <2>1. SvcInv /\ Carried(ShortMessages) /\ Next => Carried(ShortMessages)'
    BY <1>1, <1>2, SvcParts, CarriedKept
  <2>2. Carried(ShortMessages) /\ UNCHANGED vars => Carried(ShortMessages)'
    BY DEF Carried, vars
  <2>3. QED BY <2>1, <2>2
<1>5. QED BY <1>3, <1>4, SvcInvHolds, PTL DEF Spec

\* Where socket() does not fail, a send that fails although the name accepts
\* connections is of a message that fills its last page.
LEMMA FailsOnlyIfClosed ==
  ASSUME Carried(ShortMessages), "socket" \notin Faults, BroadcastFailed
  PROVE  ~Connects(reg[cur])
<1>1. BroadcastMsg.page = FALSE
  <2>1. \A m \in ShortMessages : m.page = FALSE BY DEF ShortMessages
  <2>2. Msg("json", Self, FALSE).page = FALSE BY DEF Msg
  <2>3. item \in ShortMessages \cup {NoMsg} /\ NoMsg.page = FALSE
    BY DEF Carried, NoMsg
  <2>4. QED BY <2>1, <2>2, <2>3 DEF BroadcastMsg
<1>2. Send(reg[cur], BroadcastMsg, FALSE) BY DEF BroadcastFailed
<1>3. QED BY <1>1, <1>2 DEF Send

-----------------------------------------------------------------------------
(* The default node, where peers do not join names or set a default node.  *)

NoDefaultKinds == Kinds \cap {"join", "setdef"} = {}

NamelessMessages == {m \in Message : m.kind \notin {"join", "setdef"}}

\* No peer then brings in a message that joins a name or sets a default node.
LEMMA NamelessStay == NoDefaultKinds => (Spec => []Carried(NamelessMessages))
<1> SUFFICES ASSUME NoDefaultKinds PROVE Spec => []Carried(NamelessMessages)
  OBVIOUS
<1>1. /\ \A p \in Pages : Msg("other", Self, p) \in NamelessMessages
      /\ Msg("other", Self, FALSE) \in NamelessMessages
      /\ Msg("json", Self, FALSE) \in NamelessMessages
      /\ Msg("global", Self, FALSE) \in NamelessMessages
      /\ NamelessMessages \in SUBSET Message
  <2>1. /\ \A p \in BOOLEAN : Msg("other", Self, p).kind = "other"
        /\ Msg("json", Self, FALSE).kind = "json"
        /\ Msg("global", Self, FALSE).kind = "global"
    BY DEF Msg
  <2>2. /\ \A p \in BOOLEAN : Msg("other", Self, p) \in Message
        /\ Pages \subseteq BOOLEAN
    BY MessagesSent, ServiceAssumption
  <2>3. \A m \in Message : m.kind \in {"other", "json", "global"}
                            => m \in NamelessMessages
    BY DEF NamelessMessages
  <2>4. NamelessMessages \in SUBSET Message BY DEF NamelessMessages
  <2>5. QED BY <2>1, <2>2, <2>3, <2>4, MessagesSent
<1>2. Requests \subseteq NamelessMessages
  BY DEF Requests, NamelessMessages, NoDefaultKinds
<1>3. Init => Carried(NamelessMessages) BY DEF Init, Carried
<1>4. SvcInv /\ Carried(NamelessMessages) /\ [Next]_vars
        => Carried(NamelessMessages)'
  <2>1. SvcInv /\ Carried(NamelessMessages) /\ Next
          => Carried(NamelessMessages)'
    BY <1>1, <1>2, SvcParts, CarriedKept
  <2>2. Carried(NamelessMessages) /\ UNCHANGED vars
          => Carried(NamelessMessages)'
    BY DEF Carried, vars
  <2>3. QED BY <2>1, <2>2
<1>5. QED BY <1>3, <1>4, SvcInvHolds, PTL DEF Spec

\* Only the default node is ever set, and no name is both lost and registered.
DefaultInv ==
  /\ DefaultMatchesRegistry /\ mDefaultNode \in {NoName, DefaultNode}
  /\ lost \cap Names = {}

\* The steps of the dispatcher that join or drop a name, or set the default.
LEMMA DefaultChanges ==
  ASSUME Carried(NamelessMessages), Next
  PROVE  \/ UNCHANGED <<reg, mDefaultNode, lost>>
         \/ \E n \in {Self, Router} :
              /\ reg' = JoinList(n) /\ mDefaultNode' = DefaultWithout(n)
              /\ lost' = lost \ {n}
         \/ DefaultRuns
         \/ Drop(item.name)
         \/ BroadcastFailed
<1>1. ~HandleJoin /\ ~HandleSetDefault
  <2>1. dpc = "handle" => item.kind \notin {"join", "setdef"}
    <3>1. item \in NamelessMessages \cup {NoMsg} BY DEF Carried
    <3>2. NoMsg.kind = "none" BY DEF NoMsg
    <3>3. QED BY <3>1, <3>2 DEF NamelessMessages
  <2>2. QED BY <2>1 DEF HandleJoin, HandleSetDefault, Handling
<1>2. CASE JoinSelf \/ RouterRuns BY <1>2 DEF JoinSelf, RouterRuns
<1>3. CASE HandleDrop \/ HandleList
  <2>1. HandleList => UNCHANGED regVars \/ Drop(item.name) BY DEF HandleList
  <2>2. QED BY <1>3, <2>1 DEF HandleDrop, regVars
<1>4. CASE StartCoordinator \/ StartDispatcher \/ SetOwner \/ Coordinator
           \/ Port \/ Peers
  BY <1>4 DEF StartCoordinator, StartDispatcher, SetOwner, regVars,
     Coordinator, CoordinatorBinds, CoordinatorFails, AcceptMessage,
     AcceptShort, AcceptStall, CoordinatorLocks, AcceptKill, AcceptFails,
     CoordinatorPushes, CoordinatorWakes, coordRest, Port, GlobalArrives,
     PortNoOwner, PortWakes, PortCloses, Peers, Request, NodeChanges,
     NodeStalls
<1>5. CASE \/ Poll \/ QueueEmpty \/ Pop \/ HandleListEmpty \/ HandleCustom
           \/ HandleOther \/ HandleGlobal \/ StartBroadcast \/ BroadcastSent
           \/ BroadcastEnds \/ SendBreaks \/ RegisterFails
           \/ RegisterConnects \/ RouterNoOwner \/ RouterHangs
           \/ DefaultHangs \/ CastReady
  BY <1>5 DEF Poll, QueueEmpty, Pop, HandleListEmpty, HandleCustom,
     HandleOther, HandleGlobal, StartBroadcast, BroadcastSent, sendRest,
     BroadcastEnds, SendBreaks, RegisterFails, RegisterConnects,
     RouterNoOwner, RouterHangs, DefaultHangs, CastReady, regVars
<1>6. QED
  BY <1>1, <1>2, <1>3, <1>4, <1>5
     DEF Next, Main, Dispatcher, Broadcast, Register

\* Every step of such an instance keeps mDefaultNode and the registry together.
LEMMA DefaultInvKept ==
  ASSUME SvcInv, Carried(NamelessMessages), DefaultInv, Next
  PROVE  DefaultInv'
<1>1. /\ reg \in Seq(Name) /\ RegistryInv /\ RegistryTypes
      /\ BroadcastPartition
  BY SvcParts DEF RegistryTypes
<1>2. Names' = Elems(reg') /\ Names = Elems(reg) BY DEF Names, Elems
<1>3. /\ DefaultNode # NoName /\ DefaultNode # Self /\ DefaultNode # Router
      /\ mDefaultNode \in {NoName, DefaultNode}
      /\ mDefaultNode = DefaultNode <=> DefaultNode \in Names \cup lost
      /\ lost \cap Names = {}
  BY ServiceAssumption DEF DefaultInv, DefaultMatchesRegistry, Name
<1>4. SUFFICES /\ mDefaultNode' \in {NoName, DefaultNode}
               /\ mDefaultNode' = DefaultNode
                    <=> DefaultNode \in Names' \cup lost'
               /\ lost' \cap Names' = {}
  BY DEF DefaultInv, DefaultMatchesRegistry
<1>5. \A n : Registered(n) <=> n \in Names BY DEF Registered, Names
<1>6. CASE UNCHANGED <<reg, mDefaultNode, lost>>
  BY <1>2, <1>3, <1>6
<1>7. ASSUME NEW n \in {Self, Router}, reg' = JoinList(n),
             mDefaultNode' = DefaultWithout(n), lost' = lost \ {n}
      PROVE  /\ mDefaultNode' \in {NoName, DefaultNode}
             /\ mDefaultNode' = DefaultNode
                  <=> DefaultNode \in Names' \cup lost'
             /\ lost' \cap Names' = {}
  <2>1. n \in Name /\ n # DefaultNode BY <1>3 DEF Name
  <2>2. Names' = Names \cup {n} BY <1>1, <1>2, <1>7, <2>1, JoinKeeps
  <2>3. mDefaultNode' = mDefaultNode
    <3>1. CASE Registered(n) /\ mDefaultNode = n
      <4>1. n \in Name /\ NoName \notin Name BY <2>1, ServiceAssumption
      <4>2. QED BY <1>3, <2>1, <3>1, <4>1
    <3>2. CASE ~(Registered(n) /\ mDefaultNode = n)
      BY <1>7, <3>2 DEF DefaultWithout
    <3>3. QED BY <3>1, <3>2
  <2>4. QED BY <1>3, <1>7, <2>1, <2>2, <2>3
<1>8. CASE DefaultRuns
  <2>1. DefaultNode \in Name BY DEF Name
  <2>2. /\ reg' = JoinList(DefaultNode) /\ mDefaultNode' = DefaultNode
        /\ lost' = lost \ {DefaultNode}
    BY <1>8 DEF DefaultRuns, DefaultAfterJoin
  <2>3. Names' = Names \cup {DefaultNode}
    BY <1>1, <1>2, <2>1, <2>2, JoinKeeps
  <2>4. QED BY <1>3, <2>2, <2>3
<1>9. CASE Drop(item.name)
  <2> DEFINE n == item.name
  <2> HIDE DEF n
  <2>1. /\ reg' = Without(n) /\ mDefaultNode' = DefaultWithout(n)
        /\ lost' = lost
    BY <1>9 DEF Drop, n
  <2>2. Names' = Names \ {n} BY <1>1, <1>2, <2>1, WithoutKeeps
  <2>3. CASE n = DefaultNode /\ n \in Names
    <3>1. mDefaultNode = DefaultNode /\ Registered(n) BY <1>3, <1>5, <2>3
    <3>2. mDefaultNode' = NoName BY <2>1, <2>3, <3>1 DEF DefaultWithout
    <3>3. DefaultNode \notin lost BY <1>3, <2>3
    <3>4. QED BY <1>3, <2>1, <2>2, <2>3, <3>2, <3>3
  <2>4. CASE n # DefaultNode \/ n \notin Names
    <3>1. mDefaultNode' = mDefaultNode \/ (n \in Names /\ mDefaultNode = n)
      BY <1>5, <2>1 DEF DefaultWithout
    <3>2. n \in Names => n \in Name
      BY <1>1, ElementOfSeq DEF Names
    <3>3. mDefaultNode' = mDefaultNode
      BY <1>3, <2>4, <3>1, <3>2, ServiceAssumption
    <3>4. QED BY <1>3, <2>1, <2>2, <2>4, <3>3
  <2>5. QED BY <2>3, <2>4
<1>10. CASE BroadcastFailed
  <2>1. /\ reg' = RemoveAt(reg, cur) /\ cur \in 1 .. Len(reg) /\ NoDup(reg)
        /\ lost' = lost \cup {reg[cur]} /\ mDefaultNode' = mDefaultNode
    BY <1>1, <1>10, FailedPlace
       DEF BroadcastFailed, RegistryInv, NoDup, sendRest
  <2>2. Elems(RemoveAt(reg, cur)) = Elems(reg) \ {reg[cur]}
    BY <1>1, <2>1, RemoveAtElems
  <2>3. reg[cur] \in Elems(reg) BY <2>1 DEF Elems
  <2>4. /\ Names' \cup lost' = Names \cup lost
        /\ lost' \cap Names' = {}
    BY <1>2, <1>3, <2>1, <2>2, <2>3
  <2>5. QED BY <1>3, <2>1, <2>4
<1>11. QED
  BY <1>6, <1>7, <1>8, <1>9, <1>10, DefaultChanges

\* Where peers neither join names nor set a default node, global messages are
\* forwarded to the default node exactly while it is registered, but for the
\* time behind a broadcast that has removed it.
THEOREM DefaultMatchesRegistryCorrect ==
  (Kinds \cap {"join", "setdef"} = {}) => (Spec => []DefaultMatchesRegistry)
<1> SUFFICES ASSUME Kinds \cap {"join", "setdef"} = {}
             PROVE  Spec => []DefaultMatchesRegistry
  OBVIOUS
<1>1. Spec => []Carried(NamelessMessages)
  BY NamelessStay DEF NoDefaultKinds
<1>2. Init => DefaultInv
  <2>1. SUFFICES ASSUME Init PROVE DefaultInv OBVIOUS
  <2>2. mDefaultNode = NoName /\ lost = {} /\ Len(reg) = 0 BY <2>1 DEF Init
  <2>3. Names = {} BY <2>2 DEF Names
  <2>4. NoName # DefaultNode BY ServiceAssumption DEF Name
  <2>5. QED BY <2>2, <2>3, <2>4 DEF DefaultInv, DefaultMatchesRegistry
<1>3. SvcInv /\ Carried(NamelessMessages) /\ DefaultInv /\ [Next]_vars
        => DefaultInv'
  <2>1. DefaultInv /\ UNCHANGED vars => DefaultInv'
    BY DEF DefaultInv, DefaultMatchesRegistry, Names, vars, regVars
  <2>2. QED BY <2>1, DefaultInvKept
<1>4. DefaultInv => DefaultMatchesRegistry BY DEF DefaultInv
<1>5. QED BY <1>1, <1>2, <1>3, <1>4, SvcInvHolds, PTL DEF Spec

-----------------------------------------------------------------------------
(* The service in its own registry.                                        *)

\* Instances in which nothing ends the coordinator and nobody drops the
\* service.
Steady ==
  /\ Pages = {FALSE} /\ Faults = {} /\ "kill" \notin Kinds
  /\ "drop" \notin Kinds \/ Self \notin Target

HarmlessMessages ==
  {m \in Message : /\ m.kind # "kill"
                   /\ m.kind = "drop" => m.name # Self}

\* The coordinator has not ended; before it listens nothing reaches the
\* dispatcher; and the service has joined before the dispatcher runs.
SteadyInv ==
  /\ Carried(HarmlessMessages)
  /\ cpc # "ended"
  /\ cpc \in {"off", "bind"} =>
       /\ mQ = <<>> /\ dpc \in {"off", "poll", "process"}
       /\ \A i \in 1 .. MaxPorts : ports[i] = "off"
  /\ main \notin {"start", "join"} => Self \in Names

\* The messages of such an instance are harmless, and stay so.
LEMMA HarmlessKept ==
  ASSUME Steady, HandInv, Carried(HarmlessMessages), Next
  PROVE  Carried(HarmlessMessages)'
<1>1. /\ \A p \in Pages : Msg("other", Self, p) \in HarmlessMessages
      /\ Msg("other", Self, FALSE) \in HarmlessMessages
      /\ Msg("json", Self, FALSE) \in HarmlessMessages
      /\ Msg("global", Self, FALSE) \in HarmlessMessages
      /\ HarmlessMessages \in SUBSET Message
  <2>1. /\ \A p \in BOOLEAN : Msg("other", Self, p).kind = "other"
        /\ Msg("json", Self, FALSE).kind = "json"
        /\ Msg("global", Self, FALSE).kind = "global"
    BY DEF Msg
  <2>2. /\ \A p \in BOOLEAN : Msg("other", Self, p) \in Message
        /\ Pages \subseteq BOOLEAN
    BY MessagesSent, ServiceAssumption
  <2>3. \A m \in Message : m.kind \in {"other", "json", "global"}
                            => m \in HarmlessMessages
    BY DEF HarmlessMessages
  <2>4. HarmlessMessages \in SUBSET Message BY DEF HarmlessMessages
  <2>5. QED BY <2>1, <2>2, <2>3, <2>4, MessagesSent
<1>2. Requests \subseteq HarmlessMessages
  BY DEF Requests, HarmlessMessages, Steady, Named
<1>3. QED BY <1>1, <1>2, CarriedKept

\* The coordinator goes on listening once it does.
LEMMA CoordinatorKept ==
  ASSUME Steady, StartInv, ThreadTypes, SteadyInv, Next
  PROVE  /\ cpc' # "ended"
         /\ cpc' \in {"off", "bind"} => cpc \in {"off", "bind"}
<1>1. CASE Main
  BY <1>1 DEF SteadyInv, StartInv, Main, StartCoordinator, JoinSelf,
     StartDispatcher, SetOwner
<1>2. CASE AcceptKill
  <2>1. Head(backlog).kind = "kill" /\ backlog # <<>> BY <1>2 DEF AcceptKill
  <2>2. Head(backlog) \in HarmlessMessages
    BY <2>1, HeadTailProperties DEF SteadyInv, Carried
  <2>3. QED BY <2>1, <2>2 DEF HarmlessMessages
<1>3. CASE Coordinator /\ ~AcceptKill
  BY <1>3 DEF Steady, SteadyInv, Coordinator, CoordinatorBinds,
     CoordinatorFails, AcceptMessage, AcceptShort, AcceptStall,
     CoordinatorLocks, AcceptFails, CoordinatorPushes, CoordinatorWakes
<1>4. CASE Port \/ Peers
  BY <1>4 DEF SteadyInv, Port, GlobalArrives, PortNoOwner, PortWakes,
     PortCloses, Peers, Request, NodeChanges, NodeStalls
<1>5. CASE Dispatcher \/ SendBreaks
  <2>1. cpc' = cpc
    BY <1>5 DEF Dispatcher, Poll, QueueEmpty, HandleCustom, Pop, HandleJoin,
       HandleDrop, HandleSetDefault, HandleList, HandleListEmpty,
       HandleOther, HandleGlobal, handleRest, dispRest, Broadcast,
       StartBroadcast, BroadcastSent, BroadcastFailed, BroadcastEnds,
       sendRest, SendBreaks, Register, RegisterFails, RegisterConnects,
       RouterRuns, RouterNoOwner, RouterHangs, DefaultRuns, DefaultHangs,
       CastReady, regRest
  <2>2. QED BY <2>1 DEF SteadyInv
<1>6. QED BY <1>1, <1>2, <1>3, <1>4, <1>5 DEF Next

\* Before the coordinator listens, the dispatcher has nothing to do.
LEMMA QuietKept ==
  ASSUME Steady, StartInv, ThreadTypes, SteadyInv, Next,
         cpc' \in {"off", "bind"}
  PROVE  /\ mQ' = <<>> /\ dpc' \in {"off", "poll", "process"}
         /\ \A i \in 1 .. MaxPorts : ports'[i] = "off"
<1>1. /\ cpc \in {"off", "bind"} /\ mQ = <<>>
      /\ dpc \in {"off", "poll", "process"}
      /\ \A i \in 1 .. MaxPorts : ports[i] = "off"
  BY CoordinatorKept DEF SteadyInv
<1>2. CASE Main
  BY <1>1, <1>2 DEF Main, StartCoordinator, JoinSelf, StartDispatcher,
     SetOwner, startRest
<1>3. CASE Coordinator
  BY <1>1, <1>3 DEF Coordinator, CoordinatorBinds, CoordinatorFails,
     AcceptMessage, AcceptShort, AcceptStall, CoordinatorLocks, AcceptKill,
     AcceptFails, CoordinatorPushes, CoordinatorWakes
<1>4. CASE Port \/ Peers
  BY <1>1, <1>4 DEF Port, GlobalArrives, PortNoOwner, PortWakes, PortCloses,
     Peers, Request, NodeChanges, NodeStalls
<1>5. CASE Dispatcher \/ SendBreaks
  BY <1>1, <1>5 DEF Dispatcher, Poll, QueueEmpty, BackToLoop, HandleCustom,
     Pop, HandleJoin, HandleDrop, HandleSetDefault, HandleList,
     HandleListEmpty, HandleOther, HandleGlobal, Handling, Broadcast,
     StartBroadcast, BroadcastSent, BroadcastFailed, BroadcastEnds,
     SendBreaks, Register, RegisterFails, RegisterConnects, RouterRuns,
     RouterNoOwner, RouterHangs, DefaultRuns, DefaultHangs, CastReady
<1>6. QED BY <1>2, <1>3, <1>4, <1>5 DEF Next

\* Once the dispatcher handles anything, sends to the service arrive.
LEMMA SelfConnects ==
  ASSUME SteadyInv, ThreadTypes, dpc \in {"handle", "send"}
  PROVE  Connects(Self)
BY DEF SteadyInv, ThreadTypes, Connects, Listening

\* Nothing removes the service from its registry.
LEMMA SelfStays ==
  ASSUME Steady, SvcInv, SteadyInv, Carried(ShortMessages), Next,
         Self \in Names
  PROVE  Self \in Names'
<1>1. /\ reg \in Seq(Name) /\ RegistryInv /\ MessageTypes /\ StartInv
      /\ RegistryTypes /\ BroadcastPartition /\ ThreadTypes
  BY SvcParts DEF RegistryTypes
<1>2. Names' = Elems(reg') /\ Names = Elems(reg) BY DEF Names, Elems
<1>3. CASE UNCHANGED reg BY <1>3 DEF Names
<1>4. CASE \E n \in Name : reg' = JoinList(n)
  <2>1. PICK n \in Name : reg' = JoinList(n) BY <1>4
  <2>2. Elems(JoinList(n)) = Names \cup {n} BY <1>1, JoinKeeps
  <2>3. QED BY <1>2, <2>1, <2>2
<1>5. CASE /\ HandleDrop \/ (HandleList /\ ListFails)
           /\ item.name \in Name /\ Drop(item.name)
  <2>1. Elems(Without(item.name)) = Names \ {item.name}
    BY <1>1, WithoutKeeps
  <2>2. item.name # Self
    <3>1. CASE HandleDrop
      <4>1. item.kind = "drop" BY <3>1 DEF HandleDrop, Handling
      <4>2. item \in HarmlessMessages
        BY <4>1, MessagesSent DEF SteadyInv, Carried
      <4>3. QED BY <4>1, <4>2 DEF HarmlessMessages
    <3>2. CASE HandleList /\ ListFails
      <4>1. dpc = "handle" BY <3>2 DEF HandleList, Handling
      <4>2. Connects(Self) BY <1>1, <4>1, SelfConnects
      <4>3. PICK page \in Pages :
              Send(item.name, Msg("other", Self, page), FALSE)
        BY <3>2 DEF ListFails
      <4>4. Msg("other", Self, page).page = FALSE BY <4>3 DEF Msg, Steady
      <4>5. QED BY <4>2, <4>3, <4>4 DEF Send, Steady
    <3>3. QED BY <1>5, <3>1, <3>2
  <2>3. QED BY <1>2, <1>5, <2>1, <2>2 DEF Drop
<1>6. CASE BroadcastFailed
  <2>1. /\ reg' = RemoveAt(reg, cur) /\ cur \in 1 .. Len(reg) /\ NoDup(reg)
        /\ dpc = "send"
    BY <1>1, <1>6, FailedPlace DEF BroadcastFailed, RegistryInv, NoDup
  <2>2. Elems(RemoveAt(reg, cur)) = Elems(reg) \ {reg[cur]}
    BY <1>1, <2>1, RemoveAtElems
  <2>3. reg[cur] # Self
    BY <1>1, <1>6, <2>1, FailsOnlyIfClosed, SelfConnects DEF Steady
  <2>4. QED BY <1>2, <2>1, <2>2, <2>3
<1>7. QED BY <1>1, <1>3, <1>4, <1>5, <1>6, RegistryChanges

\* Every step keeps the invariant of such instances.
LEMMA SteadyInvKept ==
  ASSUME Steady, SvcInv, SteadyInv, Carried(ShortMessages), [Next]_vars
  PROVE  SteadyInv'
<1>1. CASE Next
  <2>1. HandInv /\ StartInv /\ ThreadTypes /\ RegistryInv /\ reg \in Seq(Name)
    BY SvcParts DEF RegistryTypes
  <2>2. Carried(HarmlessMessages)'
    BY <1>1, <2>1, HarmlessKept DEF SteadyInv
  <2>3. cpc' # "ended" BY <1>1, <2>1, CoordinatorKept
  <2>4. cpc' \in {"off", "bind"} =>
          /\ mQ' = <<>> /\ dpc' \in {"off", "poll", "process"}
          /\ \A i \in 1 .. MaxPorts : ports'[i] = "off"
    BY <1>1, <2>1, QuietKept
  <2>5. main' \notin {"start", "join"} => Self \in Names'
    <3>1. CASE JoinSelf
      <4>1. Self \in Name BY DEF Name
      <4>2. Elems(JoinList(Self)) = Names \cup {Self}
        BY <2>1, <4>1, JoinKeeps
      <4>3. reg' = JoinList(Self) BY <3>1 DEF JoinSelf
      <4>4. Names' = Elems(reg') BY DEF Names, Elems
      <4>5. QED BY <4>2, <4>3, <4>4
    <3>2. CASE ~JoinSelf /\ main' \notin {"start", "join"}
      <4>1. main \notin {"start", "join"}
        <5>1. CASE Main
          BY <3>2, <5>1 DEF Main, StartCoordinator, StartDispatcher, SetOwner
        <5>2. CASE ~Main
          <6>1. main' = main
            BY <1>1, <5>2 DEF Next, Coordinator, CoordinatorBinds,
               CoordinatorFails, AcceptMessage, AcceptShort, AcceptStall,
               CoordinatorLocks, AcceptKill, AcceptFails, CoordinatorPushes,
               CoordinatorWakes, coordRest, Port, GlobalArrives, PortNoOwner,
               PortWakes, PortCloses, Peers, Request, NodeChanges, NodeStalls,
               Dispatcher, Poll, QueueEmpty, HandleCustom, Pop, HandleJoin,
               HandleDrop, HandleSetDefault, HandleList, HandleListEmpty,
               HandleOther, HandleGlobal, handleRest, dispRest, Broadcast,
               StartBroadcast, BroadcastSent, BroadcastFailed, BroadcastEnds,
               sendRest, SendBreaks, Register, RegisterFails,
               RegisterConnects, RouterRuns, RouterNoOwner, RouterHangs,
               DefaultRuns, DefaultHangs, CastReady, regRest
          <6>2. QED BY <3>2, <6>1
        <5>3. QED BY <5>1, <5>2
      <4>2. QED BY <1>1, <4>1, SelfStays DEF SteadyInv
    <3>3. QED BY <3>1, <3>2
  <2>6. QED BY <2>2, <2>3, <2>4, <2>5 DEF SteadyInv
<1>2. CASE UNCHANGED vars
  BY <1>2 DEF SteadyInv, Carried, Names, vars, regVars
<1>3. QED BY <1>1, <1>2

\* Where no message fills its last page, the coordinator is not ended by a KILL
\* or a failing call, and nobody drops the service, the dispatcher runs with
\* the service registered from its first step on: a LIST never meets the empty
\* registry that toXML() would follow a null pointer in.
THEOREM SelfRegisteredCorrect == Steady => (Spec => []SelfRegistered)
<1> SUFFICES ASSUME Steady PROVE Spec => []SelfRegistered
  OBVIOUS
<1>1. Spec => []Carried(ShortMessages) BY ShortStay DEF Steady
<1>2. Init => SteadyInv
  <2>1. SUFFICES ASSUME Init PROVE SteadyInv OBVIOUS
  <2>2. QED BY <2>1 DEF Init, SteadyInv, Carried
<1>3. SvcInv /\ SteadyInv /\ Carried(ShortMessages) /\ [Next]_vars
        => SteadyInv'
  BY SteadyInvKept
<1>4. SvcInv /\ SteadyInv => SelfRegistered
  BY SvcParts DEF SteadyInv, SelfRegistered, StartInv
<1>5. QED BY <1>1, <1>2, <1>3, <1>4, SvcInvHolds, PTL DEF Spec
=============================================================================
