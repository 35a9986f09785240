------------------------- MODULE NodeRegistryProofs -------------------------
(***************************************************************************)
(* Proofs about the registry of DefaultService as a linked list, for any   *)
(* memory, any allocator, any names and any order of requests: no pointer  *)
(* that is followed leads to a cell that was freed, the list with its      *)
(* walks is the registry that is promised, and the answer to a LIST is the *)
(* registry.                                                               *)
(*                                                                         *)
(* The list itself: ListInv says that the pointers of every list lead once *)
(* round its places and back, so the first lemmas say what the macros of   *)
(* List.h do to the places (AddKeeps, DelKeeps).  CellInv adds which lists *)
(* the program holds at each pc and at which place of them its walks are:  *)
(* that is the strengthening, since an entry is only freed where a walk    *)
(* stands.  NamesInv is about the names on the registry's list, AnswerInv  *)
(* about those on the way from it to the caller.                           *)
(***************************************************************************)
EXTENDS NodeRegistry, SequenceTheorems, TLAPS

-----------------------------------------------------------------------------
(* The list of List.h.                                                     *)

\* The places of a list: the head stands at both ends, cells in use between.
LEMMA AtFacts ==
  ASSUME ListInv, NEW h \in heads
  PROVE  /\ h \in Cell /\ h \in live
         /\ order[h] \in Seq(Cell) /\ Len(order[h]) \in Nat
         /\ At(h, 0) = h /\ At(h, Len(order[h]) + 1) = h
         /\ \A i \in 1 .. Len(order[h]) :
              /\ At(h, i) = order[h][i]
              /\ At(h, i) \in live /\ At(h, i) \notin heads /\ At(h, i) \in Cell
         /\ \A i : At(h, i) \in live
<1>1. /\ h \in Cell /\ h \in live /\ order[h] \in Seq(Cell)
  BY DEF ListInv, ListTypeOK
<1>2. Len(order[h]) \in Nat BY <1>1, LenProperties
<1>3. \A i \in 1 .. Len(order[h]) : order[h][i] \in live \ heads
  BY DEF ListInv, Members
<1>4. live \subseteq Cell BY DEF ListInv, ListTypeOK
<1>5. QED BY <1>1, <1>2, <1>3, <1>4 DEF At

\* No cell has two places.
LEMMA PlacesDiffer ==
  ASSUME ListInv, NEW h \in heads, NEW g \in heads,
         NEW i \in 0 .. Len(order[h]), NEW j \in 0 .. Len(order[g]),
         At(h, i) = At(g, j)
  PROVE  h = g /\ i = j
<1>1. Len(order[h]) \in Nat /\ Len(order[g]) \in Nat BY AtFacts
<1>2. i = 0 \/ i \in 1 .. Len(order[h]) BY <1>1
<1>3. j = 0 \/ j \in 1 .. Len(order[g]) BY <1>1
<1>4. CASE i = 0 /\ j = 0
  <2>1. At(h, 0) = h /\ At(g, 0) = g BY AtFacts
  <2>2. QED BY <1>4, <2>1
<1>5. CASE i = 0 /\ j \in 1 .. Len(order[g])
  <2>1. At(h, 0) = h /\ At(g, j) \notin heads BY <1>5, AtFacts
  <2>2. QED BY <1>5, <2>1
<1>6. CASE i \in 1 .. Len(order[h]) /\ j = 0
  <2>1. At(g, 0) = g /\ At(h, i) \notin heads BY <1>6, AtFacts
  <2>2. QED BY <1>6, <2>1
<1>7. CASE i \in 1 .. Len(order[h]) /\ j \in 1 .. Len(order[g])
  <2>1. At(h, i) = order[h][i] BY <1>7, AtFacts
  <2>2. At(g, j) = order[g][j] BY <1>7, AtFacts
  <2>3. order[h][i] = order[g][j] BY <2>1, <2>2
  <2>4. Members BY DEF ListInv
  <2>5. QED BY <1>7, <2>3, <2>4 DEF Members
<1>8. QED BY <1>2, <1>3, <1>4, <1>5, <1>6, <1>7

\* What the pointers of a list say about its places.
LEMMA RingFacts ==
  ASSUME ListInv, NEW h \in heads, NEW i \in 0 .. Len(order[h])
  PROVE  p_next[At(h, i)] = At(h, i + 1) /\ p_prev[At(h, i + 1)] = At(h, i)
BY DEF ListInv, Linked

\* A new cell is the head of a list that is empty, and no other list changes.
LEMMA NewKeeps ==
  ASSUME ListInv, NEW c, New(c)
  PROVE  /\ ListInv'
         /\ c \in Cell /\ c \notin live
         /\ live' = live \cup {c} /\ heads' = heads \cup {c}
         /\ Len(order'[c]) = 0
         /\ \A h \in heads : h # c /\ order'[h] = order[h]
<1>1. c \in Cell /\ c \notin live
  BY CellAssumption DEF New, ListInv, ListTypeOK
<1>2. /\ ListTypeOK /\ c \notin heads /\ heads \subseteq live
      /\ live' = live \cup {c} /\ heads' = heads \cup {c}
      /\ p_next' = [p_next EXCEPT ![c] = c] /\ p_prev' = [p_prev EXCEPT ![c] = c]
      /\ order' = [order EXCEPT ![c] = <<>>]
  BY <1>1 DEF New, ListInv, ListTypeOK
<1>3. ListTypeOK' /\ order'[c] = <<>> /\ Len(order'[c]) = 0
  <2>1. <<>> \in Seq(Cell) /\ Len(<<>>) = 0 OBVIOUS
  <2>2. QED BY <1>1, <1>2, <2>1 DEF ListTypeOK
<1>4. \A h \in heads : h # c /\ order'[h] = order[h]
  BY <1>1, <1>2 DEF ListTypeOK
<1>5. ASSUME NEW h \in heads' PROVE Linked(h)'
  <2>1. CASE h = c
    <3>1. \A i : At(c, i)' = c BY <1>3 DEF At
    <3>2. p_next'[c] = c /\ p_prev'[c] = c BY <1>1, <1>2 DEF ListTypeOK
    <3>3. QED BY <2>1, <3>1, <3>2 DEF Linked
  <2>2. CASE h \in heads
    <3>1. \A i : At(h, i)' = At(h, i) /\ At(h, i) \in live
      BY <1>4, <2>2, AtFacts DEF At
    <3>2. ASSUME NEW i \in 0 .. Len(order[h])
          PROVE  /\ p_next'[At(h, i)] = At(h, i + 1)
                 /\ p_prev'[At(h, i + 1)] = At(h, i)
      <4>1. At(h, i) # c /\ At(h, i + 1) # c BY <1>1, <3>1
      <4>2. QED BY <1>2, <2>2, <4>1, RingFacts DEF ListTypeOK
    <3>3. QED BY <1>4, <2>2, <3>1, <3>2 DEF Linked
  <2>3. QED BY <1>2, <2>1, <2>2
<1>6. Members'
  <2>1. \A i \in 1 .. Len(order'[c]) : FALSE BY <1>3
  <2>2. Members BY DEF ListInv
  <2>3. \A h \in heads : \A i \in 1 .. Len(order'[h]) : order'[h][i] \in live' \ heads'
    BY <1>1, <1>2, <1>4, <2>2 DEF Members
  <2>4. QED BY <1>2, <1>4, <2>1, <2>2, <2>3 DEF Members
<1>7. Reached'
  <2>1. live' \ heads' = live \ heads BY <1>1, <1>2
  <2>2. QED BY <1>2, <1>4, <2>1 DEF ListInv, Reached
<1>8. QED BY <1>1, <1>2, <1>3, <1>4, <1>5, <1>6, <1>7 DEF ListInv

\* Taking a head away that has nothing behind it leaves the other lists.
LEMMA FreeKeeps ==
  ASSUME ListInv, NEW h \in heads, Len(order[h]) = 0, FreeHead(h)
  PROVE  /\ ListInv'
         /\ live' = live \ {h} /\ heads' = heads \ {h} /\ order' = order
<1>1. /\ live' = live \ {h} /\ heads' = heads \ {h}
      /\ p_next' = p_next /\ p_prev' = p_prev /\ order' = order
  BY DEF FreeHead
<1>2. \A g : Linked(g)' = Linked(g) BY <1>1 DEF Linked, At
<1>3. Members' BY <1>1 DEF ListInv, Members
<1>4. Reached'
  <2>1. \A i \in 1 .. Len(order[h]) : FALSE OBVIOUS
  <2>2. live' \ heads' = live \ heads BY <1>1 DEF ListInv, ListTypeOK
  <2>3. QED BY <1>1, <2>1, <2>2 DEF ListInv, Reached
<1>5. ListTypeOK' BY <1>1 DEF ListInv, ListTypeOK
<1>6. QED BY <1>1, <1>2, <1>3, <1>4, <1>5 DEF ListInv

\* What Prepend and Without make of a sequence.
Prepended(r, c, s) ==
  Len(r) = Len(s) + 1 /\ r[1] = c /\ \A i \in 1 .. Len(s) : r[i + 1] = s[i]

Shortened(r, s, i) ==
  /\ Len(r) = Len(s) - 1
  /\ \A k \in 1 .. i - 1 : r[k] = s[k]
  /\ \A k \in i .. Len(s) - 1 : r[k] = s[k + 1]

LEMMA PrependFacts ==
  ASSUME NEW X, NEW c \in X, NEW s \in Seq(X)
  PROVE  Prepend(c, s) \in Seq(X) /\ Prepended(Prepend(c, s), c, s)
<1> DEFINE n == Len(s) + 1
           e(k) == IF k = 1 THEN c ELSE s[k - 1]
<1>1. Len(s) \in Nat BY LenProperties
<1>2. \A k \in 1 .. n : e(k) \in X
  <2>1. \A k \in 1 .. n : k # 1 => k - 1 \in 1 .. Len(s) BY <1>1
  <2>2. QED BY <2>1, ElementOfSeq
<1>3. Prepend(c, s) = [k \in 1 .. n |-> e(k)] BY DEF Prepend
<1>4. n \in Nat BY <1>1
<1>5. Prepend(c, s) \in Seq(X)
  <2> HIDE DEF n, e
  <2>1. QED BY <1>2, <1>3, <1>4, IsASeq
<1>6. Len(Prepend(c, s)) = n
  <2>1. DOMAIN Prepend(c, s) = 1 .. n BY <1>3
  <2>2. DOMAIN Prepend(c, s) = 1 .. Len(Prepend(c, s))
        /\ Len(Prepend(c, s)) \in Nat
    BY <1>5, LenProperties
  <2> HIDE DEF n
  <2>3. QED BY <1>4, <2>1, <2>2
<1>7. QED BY <1>1, <1>3, <1>5, <1>6 DEF Prepended

LEMMA WithoutFacts ==
  ASSUME NEW X, NEW s \in Seq(X), NEW i \in 1 .. Len(s)
  PROVE  Without(s, i) \in Seq(X) /\ Shortened(Without(s, i), s, i)
<1> DEFINE n == Len(s) - 1
           e(k) == IF k < i THEN s[k] ELSE s[k + 1]
<1>1. Len(s) \in Nat BY LenProperties
<1>2. \A k \in 1 .. n : e(k) \in X
  <2>1. \A k \in 1 .. n : k \in 1 .. Len(s) /\ k + 1 \in 1 .. Len(s) BY <1>1
  <2>2. QED BY <2>1, ElementOfSeq
<1>3. Without(s, i) = [k \in 1 .. n |-> e(k)] BY DEF Without
<1>4. n \in Nat BY <1>1
<1>5. Without(s, i) \in Seq(X)
  <2> HIDE DEF n, e
  <2>1. QED BY <1>2, <1>3, <1>4, IsASeq
<1>6. Len(Without(s, i)) = n
  <2>1. DOMAIN Without(s, i) = 1 .. n BY <1>3
  <2>2. DOMAIN Without(s, i) = 1 .. Len(Without(s, i))
        /\ Len(Without(s, i)) \in Nat
    BY <1>5, LenProperties
  <2> HIDE DEF n
  <2>3. QED BY <1>4, <2>1, <2>2
<1>7. QED BY <1>1, <1>3, <1>5, <1>6 DEF Shortened

\* LIST_ADD puts a cell that is alone between the head and what was first.
LEMMA AddKeeps ==
  ASSUME ListInv, NEW h \in heads, NEW c \in heads, c # h, Len(order[c]) = 0,
         ListAdd(c, h)
  PROVE  /\ ListInv'
         /\ live' = live /\ heads' = heads \ {c}
         /\ order'[h] = Prepend(c, order[h])
         /\ \A g \in heads \ {h} : order'[g] = order[g]
<1> DEFINE n == Len(order[h])
           f == At(h, 1)
<1>1. /\ ListTypeOK /\ h \in Cell /\ c \in Cell /\ h \in live /\ c \in live
      /\ heads \subseteq live
  BY DEF ListInv, ListTypeOK
<1>2. n \in Nat /\ At(h, 0) = h /\ At(h, n + 1) = h BY AtFacts
<1>3. p_next[h] = f /\ f \in live /\ f \in Cell
  BY <1>1, <1>2, RingFacts, AtFacts DEF ListTypeOK
<1>4. f = h \/ f \notin heads
  <2>1. n = 0 => f = h BY <1>2
  <2>2. n # 0 => 1 \in 1 .. n BY <1>2
  <2>3. QED BY <2>1, <2>2, AtFacts
<1>5. f # c BY <1>4
<1>6. /\ p_prev' = [p_prev EXCEPT ![f] = c, ![c] = h]
      /\ p_next' = [p_next EXCEPT ![c] = f, ![h] = c]
      /\ live' = live /\ heads' = heads \ {c}
      /\ order' = [order EXCEPT ![h] = Prepend(c, order[h])]
  BY <1>3 DEF ListAdd
<1>7. /\ order'[h] = Prepend(c, order[h])
      /\ \A g \in Cell \ {h} : order'[g] = order[g]
  BY <1>1, <1>6 DEF ListTypeOK
<1>8. /\ Prepend(c, order[h]) \in Seq(Cell) /\ Len(order'[h]) = n + 1
      /\ order'[h][1] = c /\ \A i \in 1 .. n : order'[h][i + 1] = order[h][i]
  <2>1. order[h] \in Seq(Cell) /\ c \in Cell BY <1>1, AtFacts
  <2>2. /\ Prepend(c, order[h]) \in Seq(Cell)
        /\ Prepended(order'[h], c, order[h])
    BY <1>7, <2>1, PrependFacts
  <2>3. QED BY <2>2 DEF Prepended
<1>9. ListTypeOK' BY <1>1, <1>3, <1>6, <1>8 DEF ListTypeOK
<1>10. /\ At(h, 0)' = h /\ At(h, 1)' = c
       /\ \A i \in 1 .. n + 1 : At(h, i + 1)' = At(h, i)
  <2>1. At(h, 0)' = h /\ At(h, 1)' = c BY <1>2, <1>8 DEF At
  <2>2. \A i \in 1 .. n : At(h, i + 1)' = At(h, i) BY <1>2, <1>8 DEF At
  <2>3. ASSUME NEW i \in 1 .. n + 1 PROVE At(h, i + 1)' = At(h, i)
    <3>1. CASE i \in 1 .. n BY <2>2, <3>1
    <3>2. CASE i = n + 1
      <4>1. i + 1 \notin 1 .. Len(order'[h]) BY <1>2, <1>8, <3>2
      <4>2. At(h, i + 1)' = h BY <4>1 DEF At
      <4>3. QED BY <1>2, <3>2, <4>2
    <3>3. QED BY <1>2, <3>1, <3>2
  <2>4. QED BY <2>1, <2>3
<1>11. Linked(h)'
  <2>1. ASSUME NEW j \in 0 .. n + 1
        PROVE  /\ p_next'[At(h, j)'] = At(h, j + 1)'
               /\ p_prev'[At(h, j + 1)'] = At(h, j)'
    <3>1. CASE j = 0
      BY <1>1, <1>6, <1>10, <3>1 DEF ListTypeOK
    <3>2. CASE j = 1
      <4>1. At(h, 2)' = f BY <1>2, <1>10
      <4>2. p_next'[c] = f BY <1>1, <1>6 DEF ListTypeOK
      <4>3. p_prev'[f] = c BY <1>1, <1>3, <1>5, <1>6 DEF ListTypeOK
      <4>4. QED BY <1>10, <3>2, <4>1, <4>2, <4>3
    <3>3. CASE j \in 2 .. n + 1
      <4>1. PICK i \in 1 .. n : j = i + 1
        <5>1. j - 1 \in 1 .. n /\ j = (j - 1) + 1 BY <1>2, <3>3
        <5>2. QED BY <5>1
      <4>2. At(h, j)' = At(h, i) /\ At(h, j + 1)' = At(h, i + 1)
        <5>1. i \in 1 .. n + 1 /\ i + 1 \in 1 .. n + 1 BY <1>2, <4>1
        <5> HIDE DEF n
        <5>2. QED BY <1>10, <4>1, <5>1
      <4>3. At(h, i) \notin heads /\ At(h, i) \in Cell BY <4>1, AtFacts
      <4>4. p_next'[At(h, i)] = At(h, i + 1)
        <5>1. p_next[At(h, i)] = At(h, i + 1) BY <1>2, <4>1, RingFacts
        <5>2. At(h, i) # h /\ At(h, i) # c BY <4>3
        <5>3. QED BY <1>6, <4>3, <5>1, <5>2, <1>1 DEF ListTypeOK
      <4>5. At(h, i + 1) # f /\ At(h, i + 1) # c /\ At(h, i + 1) \in Cell
        <5>1. CASE i = n
          <6>1. 1 \in 1 .. n BY <1>2, <4>1
          <6>2. f \notin heads BY <6>1, AtFacts
          <6>3. QED BY <1>1, <1>2, <5>1, <6>2
        <5>2. CASE i # n
          <6>1. i + 1 \in 1 .. n /\ i + 1 # 1 /\ 1 \in 1 .. n BY <1>2, <4>1, <5>2
          <6>2. i + 1 \in 0 .. n /\ 1 \in 0 .. n BY <1>2, <6>1
          <6> HIDE DEF n
          <6>3. At(h, i + 1) # At(h, 1) BY <6>1, <6>2, PlacesDiffer DEF n
          <6>4. At(h, i + 1) \notin heads /\ At(h, i + 1) \in Cell
            BY <6>1, AtFacts DEF n
          <6>5. QED BY <6>3, <6>4
        <5>3. QED BY <5>1, <5>2
      <4>6. p_prev'[At(h, i + 1)] = At(h, i)
        <5>1. p_prev[At(h, i + 1)] = At(h, i) BY <1>2, <4>1, RingFacts
        <5>2. QED BY <1>1, <1>6, <4>5, <5>1 DEF ListTypeOK
      <4>7. QED BY <4>2, <4>4, <4>6
    <3>4. QED BY <1>2, <3>1, <3>2, <3>3
  <2>2. QED BY <1>8, <2>1 DEF Linked
<1>12. ASSUME NEW g \in heads, g # h, g # c PROVE Linked(g)'
  <2>1. g \in Cell /\ order'[g] = order[g] BY <1>1, <1>7, <1>12 DEF ListTypeOK
  <2>2. \A i : At(g, i)' = At(g, i) BY <2>1 DEF At
  <2>3. ASSUME NEW i \in 0 .. Len(order[g])
        PROVE  /\ p_next'[At(g, i)] = At(g, i + 1)
               /\ p_prev'[At(g, i + 1)] = At(g, i)
    <3>1. \A k \in 0 .. Len(order[g]) : At(g, k) # h /\ At(g, k) # c /\ At(g, k) # f
      <4>1. ASSUME NEW k \in 0 .. Len(order[g])
            PROVE  At(g, k) # h /\ At(g, k) # c /\ At(g, k) # f
        <5>1. Len(order[g]) \in Nat /\ At(g, 0) = g BY AtFacts
        <5>2. k # 0 => At(g, k) \notin heads
          <6>1. k # 0 => k \in 1 .. Len(order[g]) BY <5>1
          <6>2. QED BY <6>1, AtFacts
        <5>3. At(g, k) # h /\ At(g, k) # c BY <1>12, <5>1, <5>2
        <5>4. CASE n = 0 BY <1>2, <5>3, <5>4
        <5>5. CASE n # 0
          <6>1. 1 \in 0 .. n BY <1>2, <5>5
          <6>2. At(g, k) # At(h, 1) BY <1>12, <6>1, PlacesDiffer
          <6>3. QED BY <5>3, <6>2
        <5>6. QED BY <5>4, <5>5
      <4>2. QED BY <4>1
    <3>2. At(g, i + 1) # h /\ At(g, i + 1) # c /\ At(g, i + 1) # f
      <4>1. Len(order[g]) \in Nat /\ At(g, 0) = g /\ At(g, Len(order[g]) + 1) = g
            /\ 0 \in 0 .. Len(order[g])
        BY AtFacts
      <4>2. i = Len(order[g]) \/ i + 1 \in 0 .. Len(order[g]) BY <4>1
      <4>3. QED BY <3>1, <4>1, <4>2
    <3>3. At(g, i) \in Cell /\ At(g, i + 1) \in Cell
      BY AtFacts DEF ListInv, ListTypeOK
    <3>4. p_next[At(g, i)] = At(g, i + 1) /\ p_prev[At(g, i + 1)] = At(g, i)
      BY RingFacts
    <3>5. p_next'[At(g, i)] = p_next[At(g, i)]
      BY <1>1, <1>6, <3>1, <3>3 DEF ListTypeOK
    <3>6. p_prev'[At(g, i + 1)] = p_prev[At(g, i + 1)]
      BY <1>1, <1>6, <3>2, <3>3 DEF ListTypeOK
    <3>7. QED BY <3>4, <3>5, <3>6
  <2>4. QED BY <2>1, <2>2, <2>3 DEF Linked
<1>13. \A i \in 1 .. Len(order'[h]) :
         order'[h][i] = c \/ \E k \in 1 .. n : i = k + 1 /\ order'[h][i] = order[h][k]
  <2>1. ASSUME NEW i \in 1 .. n + 1
        PROVE  i = 1 \/ (i - 1 \in 1 .. n /\ i = (i - 1) + 1)
    BY <1>2
  <2>2. QED BY <1>8, <2>1
<1>14. Members'
  <2>1. Members BY DEF ListInv
  <2>2. ASSUME NEW g \in heads', NEW i \in 1 .. Len(order'[g])
        PROVE  order'[g][i] \in live' \ heads'
    <3>1. CASE g = h
      <4>1. order'[h][i] = c
            \/ \E k \in 1 .. n : order'[h][i] = order[h][k]
        BY <1>13, <2>2, <3>1
      <4>2. QED BY <1>1, <1>6, <2>1, <3>1, <4>1 DEF Members
    <3>2. CASE g # h
      <4>1. g \in heads /\ order'[g] = order[g]
        BY <1>1, <1>6, <1>7, <3>2 DEF ListTypeOK
      <4>2. QED BY <1>6, <2>1, <2>2, <4>1 DEF Members
    <3>3. QED BY <3>1, <3>2
  <2>3. ASSUME NEW g \in heads', g # h, NEW i \in 1 .. Len(order'[g]),
               NEW j \in 1 .. Len(order'[h])
        PROVE  order'[g][i] # order'[h][j]
    <3>1. g \in heads /\ order'[g] = order[g] /\ order[g][i] \notin heads
      BY <1>1, <1>6, <1>7, <2>1, <2>3 DEF ListTypeOK, Members
    <3>2. order'[h][j] = c \/ \E k \in 1 .. n : order'[h][j] = order[h][k]
      BY <1>13, <2>3
    <3>3. QED BY <2>1, <2>3, <3>1, <3>2 DEF Members
  <2>4. ASSUME NEW g \in heads', g # h, NEW g2 \in heads', g2 # h,
               NEW i \in 1 .. Len(order'[g]), NEW j \in 1 .. Len(order'[g2]),
               order'[g][i] = order'[g2][j]
        PROVE  g = g2 /\ i = j
    <3>1. /\ g \in heads /\ order'[g] = order[g]
          /\ g2 \in heads /\ order'[g2] = order[g2]
      BY <1>1, <1>6, <1>7, <2>4 DEF ListTypeOK
    <3>2. QED BY <2>1, <2>4, <3>1 DEF Members
  <2>5. ASSUME NEW i \in 1 .. Len(order'[h]), NEW j \in 1 .. Len(order'[h]),
               order'[h][i] = order'[h][j]
        PROVE  i = j
    <3>1. \A k \in 1 .. n : order[h][k] # c BY <2>1 DEF Members
    <3>2. \A k, l \in 1 .. n : order[h][k] = order[h][l] => k = l
      BY <2>1 DEF Members
    <3>3. i = 1 \/ \E k \in 1 .. n : i = k + 1 /\ order'[h][i] = order[h][k]
      BY <1>2, <1>8
    <3>4. j = 1 \/ \E k \in 1 .. n : j = k + 1 /\ order'[h][j] = order[h][k]
      BY <1>2, <1>8
    <3>5. QED BY <1>8, <2>5, <3>1, <3>2, <3>3, <3>4
  <2>6. QED BY <2>2, <2>3, <2>4, <2>5 DEF Members
<1>15. Reached'
  <2>1. ASSUME NEW d \in live' \ heads'
        PROVE  \E g \in heads' : \E i \in 1 .. Len(order'[g]) : order'[g][i] = d
    <3>1. CASE d = c
      <4>1. h \in heads' /\ 1 \in 1 .. Len(order'[h]) BY <1>2, <1>6, <1>8
      <4>2. QED BY <1>8, <3>1, <4>1
    <3>2. CASE d # c
      <4>1. d \in live \ heads BY <1>6, <3>2
      <4>2. PICK g \in heads : \E i \in 1 .. Len(order[g]) : order[g][i] = d
        BY <4>1 DEF ListInv, Reached
      <4> PICK i \in 1 .. Len(order[g]) : order[g][i] = d BY <4>2
      <4>3. g # c
        <5>1. \A k \in 1 .. Len(order[c]) : FALSE OBVIOUS
        <5>2. QED BY <4>2, <5>1
      <4>4. CASE g = h
        <5>1. h \in heads' /\ i + 1 \in 1 .. Len(order'[h])
              /\ order'[h][i + 1] = d
          BY <1>2, <1>6, <1>8, <4>2, <4>4
        <5>2. QED BY <5>1
      <4>5. CASE g # h
        BY <1>1, <1>6, <1>7, <4>2, <4>3, <4>5 DEF ListTypeOK
      <4>6. QED BY <4>4, <4>5
    <3>3. QED BY <3>1, <3>2
  <2>2. QED BY <2>1 DEF Reached
<1>16. \A g \in heads' : Linked(g)' BY <1>6, <1>11, <1>12
<1>17. ListInv' BY <1>9, <1>14, <1>15, <1>16 DEF ListInv
<1>18. QED BY <1>1, <1>6, <1>7, <1>17 DEF ListTypeOK

\* LIST_DEL closes the ring where the cell was; it is not in use any more.
LEMMA DelKeeps ==
  ASSUME ListInv, NEW h \in heads, NEW i \in 1 .. Len(order[h]),
         ListDel(order[h][i], h, i)
  PROVE  /\ ListInv'
         /\ live' = live \ {order[h][i]} /\ heads' = heads
         /\ order'[h] = Without(order[h], i)
         /\ \A g \in heads \ {h} : order'[g] = order[g]
<1> DEFINE n == Len(order[h])
           c == order[h][i]
           a == At(h, i - 1)
           b == At(h, i + 1)
<1>1. /\ ListTypeOK /\ h \in Cell /\ h \in live /\ heads \subseteq live
  BY DEF ListInv, ListTypeOK
<1>2. /\ n \in Nat /\ n # 0 /\ i \in 1 .. n /\ i - 1 \in 0 .. n /\ i \in 0 .. n
      /\ (i - 1) + 1 = i /\ At(h, 0) = h /\ At(h, n + 1) = h
  BY AtFacts
<1>3. /\ At(h, i) = c /\ c \in live /\ c \notin heads /\ c \in Cell
      /\ a \in live /\ a \in Cell /\ b \in live /\ b \in Cell
  BY <1>1, AtFacts DEF ListTypeOK
<1>4. p_prev[c] = a /\ p_next[c] = b
  <2>1. p_prev[At(h, i)] = a BY <1>2, RingFacts
  <2>2. p_next[At(h, i)] = b BY <1>2, RingFacts
  <2>3. QED BY <1>3, <2>1, <2>2
<1>5. /\ p_next' = [p_next EXCEPT ![a] = b, ![c] = c]
      /\ p_prev' = [p_prev EXCEPT ![b] = a, ![c] = c]
      /\ live' = live \ {c} /\ heads' = heads
      /\ order' = [order EXCEPT ![h] = Without(order[h], i)]
  BY <1>4 DEF ListDel
<1>6. /\ order'[h] = Without(order[h], i)
      /\ \A g \in Cell \ {h} : order'[g] = order[g]
  BY <1>1, <1>5 DEF ListTypeOK
<1>7. /\ Without(order[h], i) \in Seq(Cell)
      /\ Shortened(order'[h], order[h], i) /\ Len(order'[h]) = n - 1
  <2>1. order[h] \in Seq(Cell) BY AtFacts
  <2>2. /\ Without(order[h], i) \in Seq(Cell)
        /\ Shortened(order'[h], order[h], i)
    BY <1>6, <2>1, WithoutFacts
  <2>3. QED BY <2>2 DEF Shortened
<1>8. ListTypeOK'
  <2>1. heads' \subseteq live' BY <1>1, <1>3, <1>5
  <2>2. QED BY <1>1, <1>3, <1>5, <1>7, <2>1 DEF ListTypeOK
\* The places before the gap, and those behind it.
<1>9. /\ \A k \in 0 .. i - 1 : At(h, k)' = At(h, k)
      /\ \A k \in i .. n : At(h, k)' = At(h, k + 1)
  <2>1. ASSUME NEW k \in 0 .. i - 1 PROVE At(h, k)' = At(h, k)
    <3>1. CASE k = 0 BY <1>2, <3>1 DEF At
    <3>2. CASE k # 0
      <4>1. k \in 1 .. i - 1 /\ k \in 1 .. n - 1 /\ k \in 1 .. n BY <1>2, <3>2
      <4>2. order'[h][k] = order[h][k] BY <1>7, <4>1 DEF Shortened
      <4>3. QED BY <1>7, <4>1, <4>2 DEF At
    <3>3. QED BY <3>1, <3>2
  <2>2. ASSUME NEW k \in i .. n PROVE At(h, k)' = At(h, k + 1)
    <3>1. CASE k = n
      <4>1. k \notin 1 .. Len(order'[h]) BY <1>2, <1>7, <3>1
      <4>2. At(h, k)' = h BY <4>1 DEF At
      <4>3. QED BY <1>2, <3>1, <4>2
    <3>2. CASE k # n
      <4>1. k \in i .. n - 1 /\ k \in 1 .. n - 1 /\ k + 1 \in 1 .. n BY <1>2, <3>2
      <4>2. order'[h][k] = order[h][k + 1] BY <1>7, <4>1 DEF Shortened
      <4>3. QED BY <1>7, <4>1, <4>2 DEF At
    <3>3. QED BY <3>1, <3>2
  <2>3. QED BY <2>1, <2>2
\* Where a place of the ring is told from the three cells of the deletion.
<1>10. ASSUME NEW k \in 0 .. n
       PROVE  /\ k # i => At(h, k) # c
              /\ k # i - 1 => At(h, k) # a
              /\ k # i + 1 /\ ~(i = n /\ k = 0) => At(h, k) # b
  <2>1. k # i => At(h, k) # c BY <1>2, <1>3, PlacesDiffer
  <2>2. k # i - 1 => At(h, k) # a BY <1>2, PlacesDiffer
  <2>3. CASE i = n
    <3>1. b = At(h, 0) /\ 0 \in 0 .. n BY <1>2, <2>3
    <3>2. k # 0 => At(h, k) # At(h, 0) BY <3>1, PlacesDiffer
    <3>3. QED BY <2>1, <2>2, <2>3, <3>1, <3>2
  <2>4. CASE i # n
    <3>1. i + 1 \in 0 .. n BY <1>2, <2>4
    <3>2. k # i + 1 => At(h, k) # At(h, i + 1) BY <3>1, PlacesDiffer
    <3>3. QED BY <2>1, <2>2, <3>2
  <2>5. QED BY <2>3, <2>4
<1>11. a # c /\ b # c
  <2>1. a # c BY <1>2, <1>10
  <2>2. CASE i = n
    <3>1. b = h BY <1>2, <2>2
    <3>2. QED BY <1>1, <1>3, <2>1, <3>1
  <2>3. CASE i # n
    <3>1. i + 1 \in 0 .. n /\ i + 1 # i BY <1>2, <2>3
    <3>2. QED BY <1>10, <2>1, <3>1
  <2>4. QED BY <2>2, <2>3
<1>12. /\ p_next'[a] = b /\ p_prev'[b] = a
       /\ \A d \in Cell : d # a /\ d # c => p_next'[d] = p_next[d]
       /\ \A d \in Cell : d # b /\ d # c => p_prev'[d] = p_prev[d]
  BY <1>1, <1>3, <1>5, <1>11 DEF ListTypeOK
<1>13. Linked(h)'
  <2>1. ASSUME NEW k \in 0 .. n - 1 PROVE p_next'[At(h, k)'] = At(h, k + 1)'
    <3>1. CASE k = i - 1
      <4>1. At(h, k)' = a BY <1>2, <1>9, <3>1
      <4>2. k + 1 \in i .. n /\ (k + 1) + 1 = i + 1 BY <1>2, <3>1
      <4>3. At(h, k + 1)' = b BY <1>9, <3>1, <4>2
      <4>4. QED BY <1>12, <4>1, <4>3
    <3>2. CASE k < i - 1
      <4>1. /\ k \in 0 .. i - 1 /\ k + 1 \in 0 .. i - 1 /\ k \in 0 .. n
            /\ k # i /\ k # i - 1
        BY <1>2, <3>2
      <4>2. At(h, k)' = At(h, k) /\ At(h, k + 1)' = At(h, k + 1) BY <1>9, <4>1
      <4>3. At(h, k) # a /\ At(h, k) # c BY <1>10, <4>1
      <4>4. At(h, k) \in Cell /\ p_next[At(h, k)] = At(h, k + 1)
        BY <1>1, <4>1, AtFacts, RingFacts DEF ListTypeOK
      <4>5. QED BY <1>12, <4>2, <4>3, <4>4
    <3>3. CASE k > i - 1
      <4> DEFINE l == k + 1
      <4>1. /\ k \in i .. n /\ l \in i .. n /\ l \in 0 .. n
            /\ l # i /\ l # i - 1
        BY <1>2, <3>3
      <4>2. At(h, k)' = At(h, l) /\ At(h, l)' = At(h, l + 1) BY <1>9, <4>1
      <4> HIDE DEF l
      <4>3. At(h, l) # a /\ At(h, l) # c BY <1>10, <4>1
      <4>4. At(h, l) \in Cell /\ p_next[At(h, l)] = At(h, l + 1)
        BY <1>1, <4>1, AtFacts, RingFacts DEF ListTypeOK
      <4>5. p_next'[At(h, k)'] = At(h, l)' BY <1>12, <4>2, <4>3, <4>4
      <4>6. QED BY <4>5 DEF l
    <3>4. QED BY <1>2, <3>1, <3>2, <3>3
  <2>2. ASSUME NEW k \in 0 .. n - 1 PROVE p_prev'[At(h, k + 1)'] = At(h, k)'
    <3>1. CASE k = i - 1
      <4>1. At(h, k)' = a BY <1>2, <1>9, <3>1
      <4>2. k + 1 \in i .. n /\ (k + 1) + 1 = i + 1 BY <1>2, <3>1
      <4>3. At(h, k + 1)' = b BY <1>9, <3>1, <4>2
      <4>4. QED BY <1>12, <4>1, <4>3
    <3>2. CASE k < i - 1
      <4>1. /\ k \in 0 .. i - 1 /\ k + 1 \in 0 .. i - 1 /\ k \in 0 .. n
            /\ k + 1 \in 0 .. n /\ k + 1 # i /\ k + 1 # i + 1 /\ k + 1 # 0
        BY <1>2, <3>2
      <4>2. At(h, k)' = At(h, k) /\ At(h, k + 1)' = At(h, k + 1) BY <1>9, <4>1
      <4>3. At(h, k + 1) # b /\ At(h, k + 1) # c BY <1>10, <4>1
      <4>4. At(h, k + 1) \in Cell /\ p_prev[At(h, k + 1)] = At(h, k)
        BY <1>1, <4>1, AtFacts, RingFacts DEF ListTypeOK
      <4>5. QED BY <1>12, <4>2, <4>3, <4>4
    <3>3. CASE k > i - 1
      <4> DEFINE l == k + 1
      <4>1. /\ k \in i .. n /\ l \in i .. n /\ l \in 0 .. n /\ l \in 1 .. n
            /\ l # i /\ i # n /\ 0 \in 0 .. n /\ 0 # i /\ i + 1 # 0
        BY <1>2, <3>3
      <4>2. At(h, k)' = At(h, l) /\ At(h, l)' = At(h, l + 1) BY <1>9, <4>1
      <4>3. At(h, l + 1) # b /\ At(h, l + 1) # c
        <5>1. CASE l = n BY <1>2, <1>10, <4>1, <5>1
        <5>2. CASE l # n
          <6>1. l + 1 \in 0 .. n /\ l + 1 # i /\ l + 1 # i + 1 /\ l + 1 # 0
            BY <1>2, <3>3, <5>2
          <6> HIDE DEF l
          <6>2. QED BY <1>10, <6>1
        <5>3. QED BY <5>1, <5>2
      <4> HIDE DEF l
      <4>4. At(h, l + 1) \in Cell /\ p_prev[At(h, l + 1)] = At(h, l)
        BY <1>1, <4>1, AtFacts, RingFacts DEF ListTypeOK
      <4>5. p_prev'[At(h, l)'] = At(h, k)' BY <1>12, <4>2, <4>3, <4>4
      <4>6. QED BY <4>5 DEF l
    <3>4. QED BY <1>2, <3>1, <3>2, <3>3
  <2>3. QED BY <1>7, <2>1, <2>2 DEF Linked
<1>14. ASSUME NEW g \in heads, g # h PROVE Linked(g)'
  <2>1. g \in Cell /\ order'[g] = order[g] BY <1>1, <1>6, <1>14 DEF ListTypeOK
  <2>2. \A k : At(g, k)' = At(g, k) BY <2>1 DEF At
  <2>3. \A k \in 0 .. Len(order[g]) : At(g, k) # a /\ At(g, k) # c /\ At(g, k) # b
    <3>1. ASSUME NEW k \in 0 .. Len(order[g])
          PROVE  At(g, k) # a /\ At(g, k) # c /\ At(g, k) # b
      <4>1. \A l \in 0 .. n : At(g, k) # At(h, l) BY <1>14, PlacesDiffer
      <4>2. i + 1 \in 0 .. n \/ b = At(h, 0) BY <1>2
      <4>3. QED BY <1>2, <1>3, <4>1, <4>2
    <3>2. QED BY <3>1
  <2>4. ASSUME NEW k \in 0 .. Len(order[g])
        PROVE  /\ p_next'[At(g, k)] = At(g, k + 1)
               /\ p_prev'[At(g, k + 1)] = At(g, k)
    <3>1. At(g, k + 1) # a /\ At(g, k + 1) # c /\ At(g, k + 1) # b
      <4>1. /\ Len(order[g]) \in Nat /\ At(g, 0) = g
            /\ At(g, Len(order[g]) + 1) = g /\ 0 \in 0 .. Len(order[g])
        BY AtFacts
      <4>2. k = Len(order[g]) \/ k + 1 \in 0 .. Len(order[g]) BY <4>1
      <4>3. QED BY <2>3, <4>1, <4>2
    <3>2. At(g, k) \in Cell /\ At(g, k + 1) \in Cell
      BY AtFacts DEF ListInv, ListTypeOK
    <3>3. p_next[At(g, k)] = At(g, k + 1) /\ p_prev[At(g, k + 1)] = At(g, k)
      BY RingFacts
    <3>4. QED BY <1>12, <2>3, <3>1, <3>2, <3>3
  <2>5. QED BY <2>1, <2>2, <2>4 DEF Linked
\* Every place of the shorter list was one, and not that of c.
<1>15. ASSUME NEW k \in 1 .. n - 1
       PROVE  \E l \in 1 .. n : /\ l # i /\ order'[h][k] = order[h][l]
                                /\ l = IF k < i THEN k ELSE k + 1
  <2>1. CASE k < i
    <3>1. k \in 1 .. i - 1 /\ k \in 1 .. n /\ k # i BY <1>2, <2>1
    <3>2. order'[h][k] = order[h][k] BY <1>7, <3>1 DEF Shortened
    <3>3. QED BY <2>1, <3>1, <3>2
  <2>2. CASE ~(k < i)
    <3>1. k \in i .. n - 1 /\ k + 1 \in 1 .. n /\ k + 1 # i BY <1>2, <2>2
    <3>2. order'[h][k] = order[h][k + 1] BY <1>7, <3>1 DEF Shortened
    <3>3. QED BY <2>2, <3>1, <3>2
  <2>3. QED BY <2>1, <2>2
<1>16. Members'
  <2>1. Members BY DEF ListInv
  <2>2. ASSUME NEW g \in heads', NEW k \in 1 .. Len(order'[g])
        PROVE  order'[g][k] \in live' \ heads'
    <3>1. CASE g = h
      <4>1. PICK l \in 1 .. n : l # i /\ order'[h][k] = order[h][l]
        BY <1>7, <1>15, <2>2, <3>1
      <4>2. order[h][l] # c /\ order[h][l] \in live \ heads
        BY <2>1, <4>1 DEF Members
      <4>3. QED BY <1>5, <3>1, <4>1, <4>2
    <3>2. CASE g # h
      <4>1. g \in heads /\ order'[g] = order[g]
        BY <1>1, <1>5, <1>6, <3>2 DEF ListTypeOK
      <4>2. order[g][k] # c /\ order[g][k] \in live \ heads
        BY <2>1, <2>2, <3>2, <4>1 DEF Members
      <4>3. QED BY <1>5, <4>1, <4>2
    <3>3. QED BY <3>1, <3>2
  <2>3. ASSUME NEW g \in heads', g # h, NEW k \in 1 .. Len(order'[g]),
               NEW j \in 1 .. Len(order'[h])
        PROVE  order'[g][k] # order'[h][j]
    <3>1. g \in heads /\ order'[g] = order[g]
      BY <1>1, <1>5, <1>6, <2>3 DEF ListTypeOK
    <3>2. PICK l \in 1 .. n : order'[h][j] = order[h][l]
      BY <1>7, <1>15, <2>3
    <3>3. QED BY <2>1, <2>3, <3>1, <3>2 DEF Members
  <2>4. ASSUME NEW g \in heads', g # h, NEW g2 \in heads', g2 # h,
               NEW k \in 1 .. Len(order'[g]), NEW j \in 1 .. Len(order'[g2]),
               order'[g][k] = order'[g2][j]
        PROVE  g = g2 /\ k = j
    <3>1. /\ g \in heads /\ order'[g] = order[g]
          /\ g2 \in heads /\ order'[g2] = order[g2]
      BY <1>1, <1>5, <1>6, <2>4 DEF ListTypeOK
    <3>2. QED BY <2>1, <2>4, <3>1 DEF Members
  <2>5. ASSUME NEW k \in 1 .. Len(order'[h]), NEW j \in 1 .. Len(order'[h]),
               order'[h][k] = order'[h][j]
        PROVE  k = j
    <3>1. PICK l \in 1 .. n : order'[h][k] = order[h][l]
                              /\ l = IF k < i THEN k ELSE k + 1
      BY <1>7, <1>15
    <3>2. PICK m \in 1 .. n : order'[h][j] = order[h][m]
                              /\ m = IF j < i THEN j ELSE j + 1
      BY <1>7, <1>15
    <3>3. order[h][l] = order[h][m] BY <2>5, <3>1, <3>2
    <3>4. l = m BY <2>1, <3>3 DEF Members
    <3>5. QED BY <1>2, <1>7, <3>1, <3>2, <3>4
  <2>6. ASSUME NEW g \in heads', NEW g2 \in heads',
               NEW k \in 1 .. Len(order'[g]), NEW j \in 1 .. Len(order'[g2]),
               order'[g][k] = order'[g2][j]
        PROVE  g = g2 /\ k = j
    <3>1. CASE g # h /\ g2 # h BY <2>4, <2>6, <3>1
    <3>2. CASE g = h /\ g2 = h BY <2>5, <2>6, <3>2
    <3>3. CASE g = h /\ g2 # h BY <2>3, <2>6, <3>3
    <3>4. CASE g # h /\ g2 = h BY <2>3, <2>6, <3>4
    <3>5. QED BY <3>1, <3>2, <3>3, <3>4
  <2>7. QED BY <2>2, <2>6 DEF Members
<1>17. Reached'
  <2>1. ASSUME NEW d \in live' \ heads'
        PROVE  \E g \in heads' : \E k \in 1 .. Len(order'[g]) : order'[g][k] = d
    <3>1. d \in live \ heads /\ d # c BY <1>5
    <3>2. PICK g \in heads : \E k \in 1 .. Len(order[g]) : order[g][k] = d
      BY <3>1 DEF ListInv, Reached
    <3> PICK k \in 1 .. Len(order[g]) : order[g][k] = d BY <3>2
    <3>3. CASE g # h
      BY <1>1, <1>5, <1>6, <3>2, <3>3 DEF ListTypeOK
    <3>4. CASE g = h
      <4>1. k # i /\ k \in 1 .. n BY <3>1, <3>4
      <4>2. CASE k < i
        <5>1. k \in 1 .. i - 1 /\ k \in 1 .. n - 1 BY <1>2, <4>1, <4>2
        <5>2. order'[h][k] = d BY <1>7, <3>4, <5>1 DEF Shortened
        <5>3. QED BY <1>5, <1>7, <5>1, <5>2
      <4>3. CASE k > i
        <5>1. k - 1 \in i .. n - 1 /\ k - 1 \in 1 .. n - 1 /\ (k - 1) + 1 = k
          BY <1>2, <4>1, <4>3
        <5>2. order'[h][k - 1] = d BY <1>7, <3>4, <5>1 DEF Shortened
        <5>3. QED BY <1>5, <1>7, <5>1, <5>2
      <4>4. QED BY <1>2, <4>1, <4>2, <4>3
    <3>5. QED BY <3>3, <3>4
  <2>2. QED BY <2>1 DEF Reached
<1>18. \A g \in heads' : Linked(g)' BY <1>5, <1>13, <1>14
<1>19. ListInv' BY <1>8, <1>16, <1>17, <1>18 DEF ListInv
<1>20. QED BY <1>1, <1>5, <1>6, <1>19 DEF ListTypeOK

-----------------------------------------------------------------------------
(* The invariant.                                                          *)

\* What goes with what is being done: an entry waits for drop() to return, a
\* list is there from the first name to the end of ~NBUSXML(), a node that
\* addNode() has made goes into it, and only a walk of the registry has a place.
Walking == pc \in {"drop", "broadcast"} \/ (pc = "collect" /\ side = "service")

ControlInv ==
  /\ pc \in {"idle", "drop", "add", "broadcast", "collect", "print", "free",
             "crashed"}
  /\ task \in {"none", "join", "drop", "list"} /\ (pc = "drop" <=> task # "none")
  /\ side \in {"service", "adapter"}
  /\ side = "adapter" => /\ pc \in {"collect", "print", "free"}
                         /\ mpNodeList # NULL \/ source # <<>>
  /\ entry # NULL <=> (pc = "add" \/ task = "join")
  /\ mpNodeList # NULL => pc \in {"collect", "print", "free"} \/ task = "list"
  /\ pc \in {"print", "free"} \/ task = "list" => mpNodeList # NULL
  /\ made # NULL => pc = "collect" /\ mpNodeList # NULL /\ NamesLeft
  /\ at # 0 <=> Walking
  /\ Len(text) # 0 => pc = "print"

\* The heads are what the program holds by a variable, each once; what is yet
\* to be put into a list has nothing behind it.
HeadsInv ==
  /\ heads = {mpNodeListHead, mpNodeList, made, entry} \ {NULL}
  /\ mpNodeListHead \notin {NULL, mpNodeList, made, entry}
  /\ made # NULL => mpNodeList # made /\ Len(order[made]) = 0
  /\ entry # NULL => Len(order[entry]) = 0

\* Walks stand at the place they have counted: those of the registry, and toXML().
WalkInv ==
  /\ at \in 0 .. Len(order[mpNodeListHead]) + 1
  /\ pNode = At(mpNodeListHead, at)

PrintInv ==
  pc = "print" => /\ Len(text) <= Len(order[mpNodeList])
                  /\ pNodeXML = At(mpNodeList, Len(text) + 1)

\* A cell has a name or none, and so has what is printed.
Label == Name \cup {NoName}

LabelInv == name \in [Cell -> Label] /\ text \in Seq(Label) /\ source \in Seq(Label)

CellInv ==
  ListInv /\ ControlInv /\ HeadsInv /\ WalkInv /\ PrintInv /\ LabelInv

\* Names are registered once; the name drop() looks for is not where it has
\* been, and the name to be added is not there when it returns.
NamesInv ==
  /\ Names \in Seq(Name)
  /\ \A i, j \in 1 .. Len(Names) : Names[i] = Names[j] => i = j
  /\ entry # NULL => name[entry] \in Name
  /\ task = "join" => arg = name[entry]
  /\ pc = "drop" => \A i \in 1 .. at - 1 : Names[i] # arg
  /\ pc = "add" => \A i \in 1 .. Len(Names) : Names[i] # name[entry]

\* The names of the NBUSXML's list.
XmlLen == IF mpNodeList = NULL THEN 0 ELSE Len(order[mpNodeList])
XmlAt(i) == name[order[mpNodeList][i]]

AnswerTypeOK ==
  taken \in Seq(Name) /\ source \in Seq(Name) /\ text \in Seq(Name)

\* The service's list is what it has walked over of the registry, backwards, ...
ServiceCollects ==
  pc = "collect" /\ side = "service" =>
    /\ taken = Names /\ XmlLen = at - 1 /\ source = <<>>
    /\ \A i \in 1 .. XmlLen : XmlAt(i) = taken[at - i]
    /\ made # NULL => name[made] = taken[at]

\* ... then all of it, ...
ServicePrints ==
  pc = "print" /\ side = "service" =>
    /\ XmlLen = Len(taken) /\ source = <<>>
    /\ \A i \in 1 .. XmlLen : XmlAt(i) = taken[Len(taken) + 1 - i]

\* ... and so is the text, on its way while the service tidies up.
Underway ==
  pc \in {"free", "drop"} /\ side = "service" /\ source # <<>> =>
    /\ Len(source) = Len(taken)
    /\ \A i \in 1 .. Len(source) : source[i] = taken[Len(taken) + 1 - i]

\* The adapter's list is what it has read of the text, backwards again.
AdapterCollects ==
  pc = "collect" /\ side = "adapter" =>
    /\ XmlLen + Len(source) = Len(taken)
    /\ \A i \in 1 .. XmlLen : XmlAt(i) = taken[Len(source) + i]
    /\ \A i \in 1 .. Len(source) : source[i] = taken[Len(source) + 1 - i]
    /\ made # NULL => Len(source) # 0 /\ name[made] = source[1]

AdapterPrints ==
  pc = "print" /\ side = "adapter" =>
    /\ XmlLen = Len(taken) /\ source = <<>>
    /\ \A i \in 1 .. XmlLen : XmlAt(i) = taken[i]

\* Nothing is under way between answers.
NothingUnderway ==
  /\ pc \in {"idle", "add", "broadcast", "crashed"} \/ task \in {"join", "drop"}
       => source = <<>>
  /\ pc = "free" /\ side = "adapter" => source = <<>>

\* toXML() has printed the first names of the list.
TextIsXml == pc = "print" => \A i \in 1 .. Len(text) : text[i] = XmlAt(i)

AnswerInv ==
  /\ AnswerTypeOK /\ ServiceCollects /\ ServicePrints /\ Underway
  /\ AdapterCollects /\ AdapterPrints /\ NothingUnderway /\ TextIsXml

-----------------------------------------------------------------------------
(* Every pointer that is followed leads to a cell in use.                  *)

\* What the invariant says of the cells the program holds.
LEMMA HeadFacts ==
  ASSUME CellInv
  PROVE  /\ mpNodeListHead \in heads
         /\ mpNodeList # NULL => mpNodeList \in heads /\ mpNodeList # mpNodeListHead
         /\ made # NULL => /\ made \in heads /\ made # mpNodeList
                          /\ made # mpNodeListHead
         /\ entry # NULL => entry \in heads /\ entry # mpNodeListHead
         /\ Len(order[mpNodeListHead]) \in Nat /\ at \in Nat
         /\ p_next[mpNodeListHead] = At(mpNodeListHead, 1)
         /\ mpNodeList # NULL => p_next[mpNodeList] = At(mpNodeList, 1)
<1>1. /\ mpNodeListHead \in heads
      /\ mpNodeList # NULL => mpNodeList \in heads /\ mpNodeList # mpNodeListHead
      /\ made # NULL => /\ made \in heads /\ made # mpNodeList
                       /\ made # mpNodeListHead
      /\ entry # NULL => entry \in heads /\ entry # mpNodeListHead
  BY DEF CellInv, HeadsInv
<1>2. ListInv BY DEF CellInv
<1>3. Len(order[mpNodeListHead]) \in Nat BY <1>1, <1>2, AtFacts
<1>4. at \in Nat BY <1>3 DEF CellInv, WalkInv
<1>5. ASSUME NEW h \in heads PROVE p_next[h] = At(h, 1)
  <2>1. 0 \in 0 .. Len(order[h]) /\ At(h, 0) = h BY <1>2, AtFacts
  <2>2. QED BY <1>2, <2>1, RingFacts
<1>6. QED BY <1>1, <1>3, <1>4, <1>5

\* A walk that has not come back to the head stands at a cell of the registry.
LEMMA PlaceFacts ==
  ASSUME CellInv, pNode # mpNodeListHead
  PROVE  /\ at \in 1 .. Len(order[mpNodeListHead])
         /\ pNode = order[mpNodeListHead][at] /\ pNode \in Cell
         /\ p_next[pNode] = At(mpNodeListHead, at + 1)
         /\ p_prev[pNode] = At(mpNodeListHead, at - 1)
<1> DEFINE h == mpNodeListHead
<1>1. /\ h \in heads /\ ListInv /\ Len(order[h]) \in Nat
      /\ at \in 0 .. Len(order[h]) + 1 /\ pNode = At(h, at)
  BY HeadFacts DEF CellInv, WalkInv
<1>2. at # 0 /\ at # Len(order[h]) + 1 BY <1>1, AtFacts
<1>3. /\ at \in 1 .. Len(order[h]) /\ at \in 0 .. Len(order[h])
      /\ at - 1 \in 0 .. Len(order[h]) /\ (at - 1) + 1 = at
  BY <1>1, <1>2
<1>4. pNode = order[h][at] /\ pNode \in Cell BY <1>1, <1>3, AtFacts
<1>5. p_next[At(h, at)] = At(h, at + 1) BY <1>1, <1>3, RingFacts
<1>6. p_prev[At(h, (at - 1) + 1)] = At(h, at - 1) BY <1>1, <1>3, RingFacts
<1>7. QED BY <1>1, <1>3, <1>4, <1>5, <1>6

\* The start of a walk, a step of it and its end; or none of them.
Moves ==
  \/ WalkBegins
  \/ pNode # mpNodeListHead /\ WalkOn
  \/ WalkIsOver
  \/ UNCHANGED walkVars

\* While the registry stays as it is, a walk over it stays in it.
LEMMA MovesKeep ==
  ASSUME CellInv, Moves, UNCHANGED mpNodeListHead,
         order'[mpNodeListHead] = order[mpNodeListHead]
  PROVE  WalkInv'
<1> DEFINE h == mpNodeListHead
           n == Len(order[h])
<1>1. /\ h \in heads /\ ListInv /\ n \in Nat /\ at \in Nat
      /\ at \in 0 .. n + 1 /\ pNode = At(h, at)
      /\ p_next[h] = At(h, 1)
  BY HeadFacts DEF CellInv, WalkInv
<1>2. At(h, 0) = h BY <1>1, AtFacts
<1>3. at' \in 0 .. n + 1 /\ pNode' = At(h, at')
  <2>1. CASE WalkBegins BY <1>1, <2>1 DEF WalkBegins
  <2>2. CASE pNode # mpNodeListHead /\ WalkOn
    BY <1>1, <2>2, PlaceFacts DEF WalkOn
  <2>3. CASE WalkIsOver BY <1>1, <1>2, <2>3 DEF WalkIsOver
  <2>4. CASE UNCHANGED walkVars BY <1>1, <2>4 DEF walkVars
  <2>5. QED BY <2>1, <2>2, <2>3, <2>4 DEF Moves
<1>4. QED BY <1>3 DEF WalkInv, At

\* Steps that leave the cells alone.
LEMMA StillKeeps ==
  ASSUME CellInv, Moves, ControlInv', LabelInv', PrintInv',
         UNCHANGED <<listVars, mpNodeListHead, entry, mpNodeList, made>>
  PROVE  CellInv'
<1>1. ListInv'
  BY DEF CellInv, ListInv, ListTypeOK, Linked, At, Members, Reached, listVars
<1>2. HeadsInv' BY DEF CellInv, HeadsInv, listVars
<1>3. WalkInv' BY MovesKeep DEF listVars
<1>4. QED BY <1>1, <1>2, <1>3 DEF CellInv

\* The steps that only walk, or only begin or end something.
LEMMA WalkingKeeps ==
  ASSUME CellInv,
         \/ \E n \in Name : DropNode(n)
         \/ DropPasses \/ DropEnds \/ Broadcast \/ SendArrives \/ BroadcastEnds
         \/ List
  PROVE  CellInv'
<1>1. UNCHANGED <<listVars, mpNodeListHead, entry, mpNodeList, made, name, text,
                  source>>
  BY DEF DropNode, DropPasses, DropEnds, Broadcast, SendArrives, BroadcastEnds,
     List, registryState, xmlVars, answerVars
<1>2. Moves /\ pc # "print" /\ pc' # "print"
  BY DEF Moves, DropNode, DropPasses, DropEnds, DropReturns, Broadcast,
     SendArrives, BroadcastEnds, List, CellInv, ControlInv
<1>3. LabelInv' /\ PrintInv' BY <1>1, <1>2 DEF CellInv, LabelInv, PrintInv
<1>4. at \in Nat BY HeadFacts
<1>5. ControlInv'
  <2>1. ControlInv BY DEF CellInv
  <2>2. CASE \E n \in Name : DropNode(n)
    BY <1>1, <2>1, <2>2 DEF DropNode, ControlInv, Walking, WalkBegins, answerVars
  <2>3. CASE DropPasses \/ SendArrives
    BY <1>1, <1>4, <2>1, <2>3
       DEF DropPasses, SendArrives, ControlInv, Walking, WalkOn, answerVars,
           registryState
  <2>4. CASE DropEnds
    BY <1>1, <2>1, <2>4
       DEF DropEnds, DropReturns, ControlInv, Walking, WalkIsOver, answerVars
  <2>5. CASE Broadcast \/ BroadcastEnds \/ List
    BY <1>1, <2>1, <2>5
       DEF Broadcast, BroadcastEnds, List, ControlInv, Walking, WalkBegins,
           WalkIsOver, answerVars, registryState
  <2>6. QED BY <2>2, <2>3, <2>4, <2>5
<1>6. QED BY <1>1, <1>2, <1>3, <1>5, StillKeeps

\* The steps of toXML() and of what is done with its text.
LEMMA PrintingKeeps ==
  ASSUME CellInv,
         \/ CollectEnds \/ Writes \/ CopyAnswer
         \/ \E n \in Name : SendAnswer(n)
  PROVE  CellInv'
<1>1. UNCHANGED <<listVars, mpNodeListHead, entry, mpNodeList, made, name>>
  BY DEF CollectEnds, Writes, CopyAnswer, SendAnswer, registryState
<1>2. Moves
  BY DEF Moves, CollectEnds, Writes, CopyAnswer, SendAnswer
<1>3. ControlInv /\ LabelInv /\ PrintInv /\ ListInv BY DEF CellInv
<1>4. <<>> \in Seq(Label) /\ Len(<<>>) = 0 OBVIOUS
<1>5. Len(text) \in Nat BY <1>3, LenProperties DEF LabelInv
<1>6. CASE CollectEnds
  <2>1. text' = text /\ source' = source BY <1>6 DEF CollectEnds, answerVars
  <2>2. Len(text) = 0 /\ made = NULL
    BY <1>3, <1>5, <1>6 DEF CollectEnds, ControlInv
  <2>3. LabelInv' BY <1>1, <1>3, <2>1 DEF LabelInv
  <2>4. ControlInv'
    BY <1>1, <1>3, <1>6, <2>1, <2>2
       DEF CollectEnds, NamesLeft, ControlInv, Walking, WalkIsOver, answerVars,
           registryState
  <2>5. PrintInv'
    <3>1. CASE mpNodeList = NULL BY <1>6, <3>1 DEF CollectEnds, PrintInv
    <3>2. CASE mpNodeList # NULL
      <4>1. /\ p_next[mpNodeList] = At(mpNodeList, 1)
            /\ Len(order[mpNodeList]) \in Nat
        BY <1>3, <3>2, HeadFacts, AtFacts
      <4>2. /\ pNodeXML' = At(mpNodeList, 1) /\ order' = order
            /\ mpNodeList' = mpNodeList /\ Len(text') = 0
        BY <1>1, <1>6, <2>1, <2>2, <3>2, <4>1 DEF CollectEnds, listVars
      <4>3. QED BY <4>1, <4>2 DEF PrintInv, At
    <3>3. QED BY <3>1, <3>2
  <2>6. QED BY <1>1, <1>2, <2>3, <2>4, <2>5, StillKeeps
<1>7. CASE Writes
  <2>1. /\ pc = "print" /\ pc' = "print" /\ pNodeXML # mpNodeList
        /\ mpNodeList \in heads /\ UNCHANGED <<source, side, task, at>>
    BY <1>3, <1>7, HeadFacts
       DEF Writes, ControlInv, answerVars, registryState, walkVars
  <2>2. /\ Len(order[mpNodeList]) \in Nat
        /\ At(mpNodeList, Len(order[mpNodeList]) + 1) = mpNodeList
    BY <1>3, <2>1, AtFacts
  <2>3. /\ Len(text) <= Len(order[mpNodeList])
        /\ pNodeXML = At(mpNodeList, Len(text) + 1)
    BY <1>3, <2>1 DEF PrintInv
  <2>4. Len(text) < Len(order[mpNodeList]) BY <1>5, <2>1, <2>2, <2>3
  <2>5. /\ Len(text) + 1 \in 1 .. Len(order[mpNodeList])
        /\ Len(text) + 1 \in 0 .. Len(order[mpNodeList])
    BY <1>5, <2>2, <2>4
  <2>6. /\ p_next[pNodeXML] = At(mpNodeList, (Len(text) + 1) + 1)
        /\ pNodeXML \in Cell
    BY <1>3, <2>1, <2>3, <2>5, RingFacts, AtFacts
  <2>7. text' \in Seq(Label) /\ Len(text') = Len(text) + 1
    <3>1. name[pNodeXML] \in Label /\ text \in Seq(Label)
      BY <1>3, <2>6 DEF LabelInv
    <3>2. text' = Append(text, name[pNodeXML]) BY <1>7 DEF Writes
    <3>3. QED BY <3>1, <3>2, AppendProperties
  <2>8. LabelInv' BY <1>1, <1>3, <2>1, <2>7 DEF LabelInv
  <2>9. PrintInv'
    <3>1. /\ pNodeXML' = At(mpNodeList, Len(text') + 1)
          /\ Len(text') <= Len(order[mpNodeList])
      BY <1>5, <1>7, <2>2, <2>4, <2>6, <2>7 DEF Writes
    <3>2. QED BY <1>1, <3>1 DEF PrintInv, At, listVars
  <2>10. ControlInv'
    BY <1>1, <1>3, <2>1 DEF ControlInv, Walking
  <2>11. QED BY <1>1, <1>2, <2>8, <2>9, <2>10, StillKeeps
<1>8. CASE CopyAnswer \/ \E n \in Name : SendAnswer(n)
  <2>1. /\ pc = "print" /\ pc' \in {"free", "drop"} /\ text' = <<>>
        /\ source' \in {source, text} /\ side' = side
    BY <1>8 DEF CopyAnswer, SendAnswer, Printed, answerVars
  <2>2. LabelInv' /\ PrintInv'
    BY <1>1, <1>3, <1>4, <2>1 DEF LabelInv, PrintInv
  <2>3. ControlInv'
    <3>1. CASE CopyAnswer
      BY <1>1, <1>3, <1>4, <2>1, <3>1
         DEF CopyAnswer, Printed, ControlInv, Walking, registryState, walkVars
    <3>2. CASE \E n \in Name : SendAnswer(n)
      BY <1>1, <1>3, <1>4, <2>1, <3>2
         DEF SendAnswer, Printed, ControlInv, Walking, walkVars, WalkBegins
    <3>3. QED BY <1>8, <3>1, <3>2
  <2>4. QED BY <1>1, <1>2, <2>2, <2>3, StillKeeps
<1>9. QED BY <1>6, <1>7, <1>8

\* A new cell: the entry of join(), the head or a node of an NBUSXML.
LEMMA MakingKeeps ==
  ASSUME CellInv, (\E n \in Name : Join(n)) \/ MakeHead \/ MakeNode
  PROVE  CellInv'
<1>1. ControlInv /\ HeadsInv /\ LabelInv /\ ListInv BY DEF CellInv
<1>2. PICK c \in Cell : /\ New(c)
                        /\ \E l \in Label : name' = [name EXCEPT ![c] = l]
                        /\ \/ (\E n \in Name : Join(n)) /\ entry' = c
                           \/ MakeHead /\ mpNodeList' = c
                           \/ MakeNode /\ made' = c
  <2>1. CASE \E n \in Name : Join(n) BY <2>1 DEF Join, Label
  <2>2. CASE MakeHead BY <2>2 DEF MakeHead, Label
  <2>3. CASE MakeNode
    <3>1. NextName \in Label
      <4>1. CASE side = "service"
        BY <1>1, <2>3, <4>1, PlaceFacts DEF MakeNode, NamesLeft, NextName, LabelInv
      <4>2. CASE side # "service"
        <5>1. source \in Seq(Label) /\ source # <<>>
          BY <1>1, <2>3, <4>2 DEF MakeNode, NamesLeft, LabelInv
        <5>2. Head(source) \in Label BY <5>1, HeadTailProperties
        <5>3. QED BY <4>2, <5>2 DEF NextName
      <4>3. QED BY <4>1, <4>2
    <3>2. QED BY <2>3, <3>1 DEF MakeNode
  <2>4. QED BY <2>1, <2>2, <2>3
<1>3. /\ ListInv' /\ c \notin heads /\ c # NULL
      /\ heads' = heads \cup {c} /\ Len(order'[c]) = 0
      /\ \A h \in heads : order'[h] = order[h]
  <2>1. /\ ListInv' /\ c \notin live
        /\ heads' = heads \cup {c} /\ Len(order'[c]) = 0
        /\ \A h \in heads : h # c /\ order'[h] = order[h]
    BY <1>1, <1>2, NewKeeps
  <2>2. c # NULL BY CellAssumption
  <2>3. QED BY <2>1, <2>2
<1>4. UNCHANGED <<mpNodeListHead, text, source, side>> /\ pc' # "print"
  BY <1>2 DEF Join, MakeHead, MakeNode, registryState, xmlVars, answerVars
<1>5. LabelInv' BY <1>1, <1>2, <1>4 DEF LabelInv
<1>6. PrintInv' BY <1>4 DEF PrintInv
<1>7. WalkInv'
  <2>1. Moves BY <1>2 DEF Moves, Join, MakeHead, MakeNode
  <2>2. order'[mpNodeListHead] = order[mpNodeListHead] BY <1>3, HeadFacts
  <2>3. QED BY <1>4, <2>1, <2>2, MovesKeep
<1>8. HeadsInv' /\ ControlInv'
  <2>1. CASE (\E n \in Name : Join(n)) /\ entry' = c
    <3>1. entry = NULL /\ UNCHANGED <<mpNodeList, made>> /\ at' = 1
      BY <1>1, <2>1 DEF Join, ControlInv, xmlVars, WalkBegins
    <3>2. HeadsInv'
      <4>1. made' # NULL => made \in heads BY <3>1, HeadFacts
      <4>2. mpNodeList' # NULL => mpNodeList \in heads BY <3>1, HeadFacts
      <4>3. QED
        BY <1>1, <1>3, <1>4, <2>1, <3>1, <4>1, <4>2, HeadFacts DEF HeadsInv
    <3>3. ControlInv'
      BY <1>1, <1>3, <1>4, <2>1, <3>1 DEF Join, ControlInv, Walking
    <3>4. QED BY <3>2, <3>3
  <2>2. CASE MakeHead /\ mpNodeList' = c
    <3>1. mpNodeList = NULL /\ made = NULL /\ UNCHANGED <<made, entry, pNode>>
      BY <1>1, <2>2 DEF MakeHead, ControlInv, registryState, walkVars
    <3>2. HeadsInv'
      <4>1. entry' # NULL => entry \in heads BY <3>1, HeadFacts
      <4>2. QED
        BY <1>1, <1>3, <1>4, <2>2, <3>1, <4>1, HeadFacts DEF HeadsInv
    <3>3. ControlInv'
      BY <1>1, <1>3, <1>4, <2>2, <3>1
         DEF MakeHead, ControlInv, Walking, registryState, walkVars
    <3>4. QED BY <3>2, <3>3
  <2>3. CASE MakeNode /\ made' = c
    <3>1. /\ mpNodeList # NULL /\ made = NULL /\ NamesLeft
          /\ UNCHANGED <<mpNodeList, entry, pNode>>
      BY <1>1, <2>3 DEF MakeNode, ControlInv, registryState, walkVars
    <3>2. HeadsInv'
      <4>1. entry' # NULL => entry \in heads BY <3>1, HeadFacts
      <4>2. QED
        BY <1>1, <1>3, <1>4, <2>3, <3>1, <4>1, HeadFacts DEF HeadsInv
    <3>3. ControlInv'
      BY <1>1, <1>3, <1>4, <2>3, <3>1
         DEF MakeNode, NamesLeft, ControlInv, Walking, registryState, walkVars
    <3>4. QED BY <3>2, <3>3
  <2>4. QED BY <1>2, <2>1, <2>2, <2>3
<1>9. QED BY <1>3, <1>5, <1>6, <1>7, <1>8 DEF CellInv

\* The entry goes into the registry.
LEMMA AddEntryKeeps ==
  ASSUME CellInv, AddNodeEntry
  PROVE  CellInv'
<1> DEFINE h == mpNodeListHead
<1>1. ControlInv /\ HeadsInv /\ LabelInv /\ ListInv BY DEF CellInv
<1>2. /\ pc = "add" /\ pc' = "idle" /\ entry # NULL /\ entry' = NULL
      /\ ListAdd(entry, h)
      /\ UNCHANGED <<h, task, arg, at, pNode, name, mpNodeList, made, text,
                     side, source>>
  BY <1>1 DEF AddNodeEntry, ControlInv, walkVars, xmlVars, answerVars
<1>3. at = 0 /\ mpNodeList = NULL /\ made = NULL /\ task = "none"
  BY <1>1, <1>2 DEF ControlInv, Walking
<1>4. h \in heads /\ entry \in heads /\ entry # h /\ Len(order[entry]) = 0
  BY <1>1, <1>2, HeadFacts DEF HeadsInv
<1>5. ListInv' /\ heads' = heads \ {entry} BY <1>1, <1>2, <1>4, AddKeeps
<1>6. h' \in heads' BY <1>2, <1>4, <1>5
<1>7. WalkInv'
  <2>1. pNode = h BY <1>1, <1>3, <1>4, AtFacts DEF CellInv, WalkInv
  <2>2. Len(order'[h]) \in Nat BY <1>2, <1>5, <1>6 DEF ListInv, ListTypeOK
  <2>3. QED BY <1>2, <1>3, <2>1, <2>2 DEF WalkInv, At
<1>8. HeadsInv' BY <1>1, <1>2, <1>3, <1>4, <1>5 DEF HeadsInv
<1>9. ControlInv' BY <1>1, <1>2, <1>3 DEF ControlInv, Walking
<1>10. LabelInv' /\ PrintInv' BY <1>1, <1>2 DEF LabelInv, PrintInv
<1>11. QED BY <1>5, <1>7, <1>8, <1>9, <1>10 DEF CellInv

\* A node goes into the list of the NBUSXML.
LEMMA AddNodeKeeps ==
  ASSUME CellInv, AddNode
  PROVE  CellInv'
<1> DEFINE h == mpNodeListHead
<1>1. ControlInv /\ HeadsInv /\ LabelInv /\ ListInv BY DEF CellInv
<1>2. /\ pc = "collect" /\ pc' = pc /\ made # NULL /\ made' = NULL
      /\ ListAdd(made, mpNodeList)
      /\ UNCHANGED <<h, task, arg, entry, name, mpNodeList, text, side>>
      /\ mpNodeList # NULL /\ NamesLeft
  BY <1>1 DEF AddNode, ControlInv, registryState
<1>3. /\ h \in heads /\ made \in heads /\ mpNodeList \in heads
      /\ made # h /\ made # mpNodeList /\ h # mpNodeList
      /\ Len(order[made]) = 0
  BY <1>1, <1>2, HeadFacts DEF HeadsInv
<1>4. /\ ListInv' /\ heads' = heads \ {made} /\ order'[h] = order[h]
      /\ \A g \in heads \ {mpNodeList} : order'[g] = order[g]
  BY <1>1, <1>2, <1>3, AddKeeps
<1>5. Moves /\ (side = "service" => WalkOn /\ UNCHANGED source)
      /\ (side # "service" => UNCHANGED walkVars /\ source' = Tail(source))
  BY <1>2 DEF AddNode, Moves, NamesLeft
<1>6. WalkInv' BY <1>2, <1>4, <1>5, MovesKeep
<1>7. HeadsInv'
  <2>1. entry # NULL => entry \in heads /\ entry # made /\ entry # mpNodeList
    BY <1>1, <1>2 DEF ControlInv
  <2>2. entry # NULL => order'[entry] = order[entry] BY <1>4, <2>1
  <2>3. QED BY <1>1, <1>2, <1>3, <1>4, <2>1, <2>2 DEF HeadsInv
<1>8. ControlInv'
  <2>1. at' # 0 <=> at # 0
    <3>1. at \in Nat BY HeadFacts
    <3>2. side = "service" => at # 0 BY <1>1, <1>2 DEF ControlInv, Walking
    <3>3. QED BY <1>5, <3>1, <3>2 DEF WalkOn, walkVars
  <2>2. QED BY <1>1, <1>2, <2>1 DEF ControlInv, Walking
<1>9. LabelInv' /\ PrintInv'
  <2>1. source' \in Seq(Label)
    <3>1. CASE side = "service" BY <1>1, <1>5, <3>1 DEF LabelInv
    <3>2. CASE side # "service"
      <4>1. source \in Seq(Label) /\ source # <<>>
        BY <1>1, <1>2, <3>2 DEF NamesLeft, LabelInv
      <4>2. QED BY <1>5, <3>2, <4>1, HeadTailProperties
    <3>3. QED BY <3>1, <3>2
  <2>2. QED BY <1>1, <1>2, <2>1 DEF LabelInv, PrintInv
<1>10. QED BY <1>4, <1>6, <1>7, <1>8, <1>9 DEF CellInv

\* An entry is taken out of the registry: what is left of it, and of the rest.
LEMMA EntryGone ==
  ASSUME CellInv, pNode # mpNodeListHead, Delete(pNode, mpNodeListHead, at)
  PROVE  /\ at \in 1 .. Len(order[mpNodeListHead])
         /\ pNode = order[mpNodeListHead][at] /\ pNode \notin heads
         /\ ListInv' /\ heads' = heads
         /\ order'[mpNodeListHead] = Without(order[mpNodeListHead], at)
         /\ Shortened(order'[mpNodeListHead], order[mpNodeListHead], at)
         /\ \A g \in heads \ {mpNodeListHead} : order'[g] = order[g]
         /\ name' \in [Cell -> Label] /\ \A c \in Cell \ {pNode} : name'[c] = name[c]
<1> DEFINE h == mpNodeListHead
<1>1. ListInv /\ LabelInv /\ h \in heads BY HeadFacts DEF CellInv
<1>2. at \in 1 .. Len(order[h]) /\ pNode = order[h][at] /\ pNode \in Cell
  BY PlaceFacts
<1>3. pNode \notin heads BY <1>1, <1>2, AtFacts
<1>4. /\ ListInv' /\ heads' = heads /\ order'[h] = Without(order[h], at)
      /\ \A g \in heads \ {h} : order'[g] = order[g]
  BY <1>1, <1>2, DelKeeps DEF Delete
<1>5. Shortened(order'[h], order[h], at)
  <2>1. order[h] \in Seq(Cell) BY <1>1, AtFacts
  <2>2. QED BY <1>2, <1>4, <2>1, WithoutFacts
<1>6. name' \in [Cell -> Label] /\ \A c \in Cell \ {pNode} : name'[c] = name[c]
  BY <1>1 DEF Delete, LabelInv, Label
<1>7. QED BY <1>2, <1>3, <1>4, <1>5, <1>6

\* drop() frees the entry it has found, a broadcast that of a send that fails.
LEMMA DroppingKeeps ==
  ASSUME CellInv, DropFinds \/ SendFails
  PROVE  CellInv'
<1> DEFINE h == mpNodeListHead
           n == Len(order[h])
<1>1. ControlInv /\ HeadsInv /\ LabelInv /\ WalkInv BY DEF CellInv
<1>2. /\ pNode # h /\ Delete(pNode, h, at)
      /\ UNCHANGED <<h, entry, mpNodeList, made, text, side, source>>
      /\ pc # "print" /\ pc' # "print"
  BY <1>1 DEF DropFinds, DropReturns, SendFails, ControlInv, xmlVars, answerVars
<1>3. /\ at \in 1 .. n /\ ListInv' /\ heads' = heads
      /\ Shortened(order'[h], order[h], at)
      /\ \A g \in heads \ {h} : order'[g] = order[g]
      /\ name' \in [Cell -> Label]
  BY <1>2, EntryGone
<1>4. n \in Nat /\ Len(order'[h]) = n - 1 BY <1>3, HeadFacts DEF Shortened
<1>5. HeadsInv'
  <2>1. made # NULL => made \in heads \ {h} BY HeadFacts
  <2>2. entry # NULL => entry \in heads \ {h} BY HeadFacts
  <2>3. QED BY <1>1, <1>2, <1>3, <2>1, <2>2 DEF HeadsInv
<1>6. LabelInv' /\ PrintInv' BY <1>1, <1>2, <1>3 DEF LabelInv, PrintInv
<1>7. CASE DropFinds
  <2>1. pNode' = h /\ at' = 0 BY <1>7 DEF DropFinds, DropReturns, WalkIsOver
  <2>2. WalkInv' BY <1>2, <1>4, <2>1 DEF WalkInv, At
  <2>3. ControlInv'
    BY <1>1, <1>2, <1>7, <2>1 DEF DropFinds, DropReturns, ControlInv, Walking
  <2>4. QED BY <1>3, <1>5, <1>6, <2>2, <2>3 DEF CellInv
<1>8. CASE SendFails
  <2>1. /\ UNCHANGED <<pc, task, at>> /\ pc = "broadcast"
        /\ pNode' = p_next'[p_prev[pNode]]
    BY <1>8 DEF SendFails
  <2>2. at \in 0 .. Len(order'[h]) + 1 BY <1>3, <1>4
  <2>3. p_prev[pNode] = At(h, at - 1) BY <1>2, PlaceFacts
  \* The entry before the freed one is where it was in its list.
  <2>4. At(h, at - 1)' = At(h, at - 1)
    <3>1. CASE at = 1
      <4>1. at - 1 \notin 1 .. n /\ at - 1 \notin 1 .. Len(order'[h]) BY <3>1
      <4>2. QED BY <1>2, <2>1, <4>1 DEF At
    <3>2. CASE at # 1
      <4>1. /\ at - 1 \in 1 .. at - 1 /\ at - 1 \in 1 .. n
            /\ at - 1 \in 1 .. Len(order'[h])
        BY <1>3, <1>4, <3>2
      <4>2. order'[h][at - 1] = order[h][at - 1] BY <1>3, <4>1 DEF Shortened
      <4>3. QED BY <2>1, <4>1, <4>2, <1>2 DEF At
    <3>3. QED BY <3>1, <3>2
  <2>5. pNode' = At(h, at)'
    <3>1. at - 1 \in 0 .. Len(order'[h]) /\ (at - 1) + 1 = at BY <1>3, <1>4
    <3>2. h \in heads' BY <1>3, HeadFacts
    <3>3. Linked(h)' BY <1>2, <1>3, <3>2 DEF ListInv
    <3>4. p_next'[At(h, at - 1)'] = At(h, at)'
      BY <1>2, <2>1, <3>1, <3>3 DEF Linked
    <3>5. QED BY <2>1, <2>3, <2>4, <3>4
  <2>6. WalkInv' BY <1>2, <2>1, <2>2, <2>5 DEF WalkInv
  <2>7. ControlInv' BY <1>1, <1>2, <2>1 DEF ControlInv, Walking
  <2>8. QED BY <1>3, <1>5, <1>6, <2>6, <2>7 DEF CellInv
<1>9. QED BY <1>7, <1>8

\* The first cell of an NBUSXML is taken out and freed.
LEMMA NodeGone ==
  ASSUME CellInv, FreeNode
  PROVE  /\ mpNodeList \in heads /\ mpNodeList # mpNodeListHead
         /\ 1 \in 1 .. Len(order[mpNodeList])
         /\ p_next[mpNodeList] = order[mpNodeList][1]
         /\ ListInv' /\ heads' = heads
         /\ \A g \in heads \ {mpNodeList} : order'[g] = order[g]
         /\ name' \in [Cell -> Label]
         /\ \A c \in Cell \ {order[mpNodeList][1]} : name'[c] = name[c]
<1> DEFINE h == mpNodeList
<1>1. ListInv /\ ControlInv /\ LabelInv /\ pc = "free" BY DEF CellInv, FreeNode
<1>2. h \in heads /\ h # mpNodeListHead /\ p_next[h] = At(h, 1)
  BY <1>1, HeadFacts DEF ControlInv
<1>3. Len(order[h]) \in Nat /\ At(h, Len(order[h]) + 1) = h
  BY <1>1, <1>2, AtFacts
<1>4. p_next[h] # h BY DEF FreeNode
<1>5. 1 \in 1 .. Len(order[h]) BY <1>2, <1>3, <1>4
<1>6. p_next[h] = order[h][1] BY <1>1, <1>2, <1>5, AtFacts
<1>7. Delete(order[h][1], h, 1) BY <1>6 DEF FreeNode
<1>8. /\ ListInv' /\ heads' = heads
      /\ \A g \in heads \ {h} : order'[g] = order[g]
  BY <1>1, <1>2, <1>5, <1>7, DelKeeps DEF Delete
<1>9. /\ name' \in [Cell -> Label]
      /\ \A c \in Cell \ {order[h][1]} : name'[c] = name[c]
  BY <1>1, <1>7 DEF Delete, LabelInv, Label
<1>10. QED BY <1>2, <1>5, <1>6, <1>8, <1>9

\* ~NBUSXML() frees the cells and then the head.
LEMMA FreeingKeeps ==
  ASSUME CellInv, FreeNode \/ FreeList
  PROVE  CellInv'
<1>1. ListInv /\ ControlInv /\ HeadsInv /\ LabelInv /\ WalkInv BY DEF CellInv
<1>2. /\ UNCHANGED <<mpNodeListHead, entry, made, text, source, task, walkVars>>
      /\ pc = "free" /\ pc' # "print"
  BY <1>1 DEF FreeNode, FreeList, xmlVars, answerVars, registryState
<1>3. mpNodeList # NULL /\ entry = NULL /\ made = NULL /\ at = 0
  BY <1>1, <1>2 DEF ControlInv, Walking
<1>4. ListInv' /\ HeadsInv' /\ order'[mpNodeListHead] = order[mpNodeListHead]
      /\ name' \in [Cell -> Label]
  <2>1. CASE FreeNode
    <3>1. /\ ListInv' /\ heads' = heads /\ mpNodeListHead # mpNodeList
          /\ mpNodeListHead \in heads
          /\ \A g \in heads \ {mpNodeList} : order'[g] = order[g]
          /\ name' \in [Cell -> Label]
      BY <2>1, NodeGone, HeadFacts
    <3>2. mpNodeList' = mpNodeList BY <2>1 DEF FreeNode, xmlVars
    <3>3. QED BY <1>1, <1>2, <1>3, <3>1, <3>2 DEF HeadsInv
  <2>2. CASE FreeList
    <3>1. /\ FreeHead(mpNodeList) /\ mpNodeList' = NULL /\ name' = name
          /\ p_next[mpNodeList] = mpNodeList
      BY <2>2 DEF FreeList
    <3>2. /\ mpNodeList \in heads /\ mpNodeListHead # mpNodeList
          /\ p_next[mpNodeList] = At(mpNodeList, 1)
      BY <1>3, HeadFacts
    <3>3. Len(order[mpNodeList]) = 0
      <4>1. Len(order[mpNodeList]) \in Nat BY <1>1, <3>2, AtFacts
      <4>2. 1 \in 1 .. Len(order[mpNodeList]) => At(mpNodeList, 1) \notin heads
        BY <1>1, <3>2, AtFacts
      <4>3. QED BY <3>1, <3>2, <4>1, <4>2
    <3>4. ListInv' /\ heads' = heads \ {mpNodeList} /\ order' = order
      BY <1>1, <3>1, <3>2, <3>3, FreeKeeps
    <3>5. QED BY <1>1, <1>2, <1>3, <3>1, <3>2, <3>4 DEF HeadsInv, LabelInv
  <2>3. QED BY <2>1, <2>2
<1>5. LabelInv' /\ PrintInv' BY <1>1, <1>2, <1>4 DEF LabelInv, PrintInv
<1>6. WalkInv'
  <2>1. Moves BY <1>2 DEF Moves
  <2>2. QED BY <1>2, <1>4, <2>1, MovesKeep
<1>7. ControlInv'
  BY <1>1, <1>2, <1>3
     DEF FreeNode, FreeList, ControlInv, Walking, walkVars, xmlVars, answerVars
<1>8. QED BY <1>4, <1>5, <1>6, <1>7 DEF CellInv

\* A service that has been set up, before its first request.
LEMMA CellInvStarts == Init => CellInv
<1> SUFFICES ASSUME Init PROVE CellInv
  OBVIOUS
<1> DEFINE h == mpNodeListHead
<1>1. h \in Cell /\ h # NULL
  <2>1. {} \in SUBSET Cell OBVIOUS
  <2>2. QED BY <2>1, CellAssumption DEF Init
<1>2. /\ live = {h} /\ heads = {h} /\ order = [c \in Cell |-> <<>>]
      /\ p_next = [c \in Cell |-> c] /\ p_prev = [c \in Cell |-> c]
  BY DEF Init
<1>3. <<>> \in Seq(Cell) /\ Len(<<>>) = 0 /\ <<>> \in Seq(Label) OBVIOUS
<1>4. \A c \in Cell : Len(order[c]) = 0 /\ \A i : At(c, i) = c
  <2>1. \A c \in Cell : Len(order[c]) = 0 BY <1>2, <1>3
  <2>2. \A i : i \notin 1 .. 0 OBVIOUS
  <2>3. QED BY <2>1, <2>2 DEF At
<1>5. ListInv
  <2>1. ListTypeOK BY <1>1, <1>2, <1>3 DEF ListTypeOK
  <2>2. \A g \in heads : Linked(g) BY <1>1, <1>2, <1>4 DEF Linked
  <2>3. Members BY <1>1, <1>2, <1>4 DEF Members
  <2>4. Reached BY <1>2 DEF Reached
  <2>5. QED BY <2>1, <2>2, <2>3, <2>4 DEF ListInv
<1>6. ControlInv BY <1>3 DEF Init, ControlInv, Walking
<1>7. HeadsInv BY <1>1, <1>2, <1>4 DEF Init, HeadsInv
<1>8. WalkInv /\ PrintInv /\ LabelInv
  BY <1>1, <1>3, <1>4 DEF Init, WalkInv, PrintInv, LabelInv, Label
<1>9. QED BY <1>5, <1>6, <1>7, <1>8 DEF CellInv

\* Every step keeps it.
LEMMA CellInvKept ==
  ASSUME CellInv, [Next]_vars
  PROVE  CellInv'
<1>1. CASE Next
  BY <1>1, WalkingKeeps, PrintingKeeps, MakingKeeps, AddEntryKeeps, AddNodeKeeps,
     DroppingKeeps, FreeingKeeps
     DEF Next, DropSteps, BroadcastSteps, XmlSteps, FreeSteps
<1>2. CASE UNCHANGED vars
  <2>1. UNCHANGED <<listVars, mpNodeListHead, entry, mpNodeList, made>>
    BY <1>2 DEF vars, registryState, xmlVars
  <2>2. Moves BY <1>2 DEF vars, Moves
  <2>3. ControlInv'
    BY <1>2 DEF vars, CellInv, ControlInv, Walking, NamesLeft, registryState,
                walkVars, xmlVars, answerVars
  <2>4. LabelInv' BY <1>2 DEF vars, CellInv, LabelInv, xmlVars, answerVars
  <2>5. PrintInv'
    BY <1>2 DEF vars, CellInv, PrintInv, At, listVars, xmlVars
  <2>6. QED BY <2>1, <2>2, <2>3, <2>4, <2>5, StillKeeps
<1>3. QED BY <1>1, <1>2

\* For every memory and allocator, any names and any requests: the pointers of
\* the registry and of the lists of an answer lead once round their cells and
\* back, and no walk leaves its list though broadcast() and drop() free entries
\* under it (DefaultService.cpp, XMLTypes.h, List.h).
THEOREM NoStrayCellCorrect == Spec => []NoStrayCell
<1>1. CellInv => NoStrayCell
  <2> SUFFICES ASSUME CellInv PROVE NoStrayCell
    OBVIOUS
  <2>1. pc = "print" => pNodeXML \in live
    <3>1. ControlInv /\ ListInv BY DEF CellInv
    <3>2. pc = "print" => mpNodeList \in heads
      BY <3>1, HeadFacts DEF ControlInv
    <3>3. QED BY <3>1, <3>2, AtFacts DEF CellInv, PrintInv
  <2>2. QED BY <2>1 DEF CellInv, HeadsInv, WalkInv, NoStrayCell
<1>2. QED BY <1>1, CellInvStarts, CellInvKept, PTL DEF Spec

-----------------------------------------------------------------------------
(* The registry is the one that is promised.                               *)

\* The names are a sequence as long as the list.
LEMMA NamesFacts ==
  ASSUME CellInv
  PROVE  /\ Names \in Seq(Label) /\ Len(Names) = Len(order[mpNodeListHead])
         /\ Len(Names) \in Nat
         /\ \A i \in 1 .. Len(Names) : Names[i] = name[order[mpNodeListHead][i]]
<1> DEFINE s == order[mpNodeListHead]
           n == Len(s)
           e(i) == name[s[i]]
<1>1. n \in Nat /\ s \in Seq(Cell) /\ name \in [Cell -> Label]
  BY HeadFacts, AtFacts DEF CellInv, LabelInv
<1>2. \A i \in 1 .. n : e(i) \in Label
  <2>1. \A i \in 1 .. n : s[i] \in Cell BY <1>1, ElementOfSeq
  <2>2. QED BY <1>1, <2>1
<1>3. Names = [i \in 1 .. n |-> e(i)] BY DEF Names
<1>4. Names \in Seq(Label) /\ DOMAIN Names = 1 .. n
  <2> HIDE DEF n, e
  <2>1. QED BY <1>1, <1>2, <1>3, IsASeq
<1>5. Len(Names) = n
  <2>1. DOMAIN Names = 1 .. Len(Names) /\ Len(Names) \in Nat
    BY <1>4, LenProperties
  <2> HIDE DEF n
  <2>2. QED BY <1>1, <1>4, <2>1
<1>6. QED BY <1>1, <1>3, <1>4, <1>5

\* Steps that leave the registry and the names of its cells alone.
LEMMA NamesStay ==
  ASSUME CellInv, UNCHANGED mpNodeListHead,
         order'[mpNodeListHead] = order[mpNodeListHead],
         \A i \in 1 .. Len(order[mpNodeListHead]) :
           name'[order[mpNodeListHead][i]] = name[order[mpNodeListHead][i]]
  PROVE  Names' = Names
BY DEF Names

\* Every step but the three that add an entry or free one.
LEMMA OthersKeepNames ==
  ASSUME CellInv,
         \/ \E n \in Name : Join(n) \/ DropNode(n) \/ SendAnswer(n)
         \/ DropPasses \/ DropEnds \/ Broadcast \/ SendArrives \/ BroadcastEnds
         \/ List \/ XmlSteps \/ FreeSteps \/ UNCHANGED vars
  PROVE  Names' = Names /\ UNCHANGED mNumOfNode
<1> DEFINE h == mpNodeListHead
<1>1. /\ ListInv /\ h \in heads
      /\ \A i \in 1 .. Len(order[h]) : order[h][i] \in live
  BY HeadFacts DEF CellInv, ListInv, Members
<1>2. UNCHANGED <<mpNodeListHead, mNumOfNode>>
  BY DEF Join, DropNode, SendAnswer, DropPasses, DropEnds, Broadcast, SendArrives,
     BroadcastEnds, List, XmlSteps, FreeSteps, MakeHead, MakeNode, AddNode,
     CollectEnds, Writes, CopyAnswer, FreeNode, FreeList, registryState, vars
<1>3. CASE \/ \E n \in Name : DropNode(n) \/ SendAnswer(n)
           \/ DropPasses \/ DropEnds \/ Broadcast \/ SendArrives \/ BroadcastEnds
           \/ List \/ CollectEnds \/ Writes \/ CopyAnswer \/ UNCHANGED vars
  <2>1. UNCHANGED <<order, name>>
    BY <1>3 DEF DropNode, SendAnswer, DropPasses, DropEnds, Broadcast,
       SendArrives, BroadcastEnds, List, CollectEnds, Writes, CopyAnswer, listVars,
       vars
  <2>2. QED BY <1>2, <2>1, NamesStay
<1>4. CASE (\E n \in Name : Join(n)) \/ MakeHead \/ MakeNode
  <2>1. PICK c \in Cell : New(c) /\ \E l : name' = [name EXCEPT ![c] = l]
    BY <1>4 DEF Join, MakeHead, MakeNode
  <2>2. c \notin live /\ order'[h] = order[h] BY <1>1, <2>1, NewKeeps
  <2>3. \A d \in Cell : d # c => name'[d] = name[d]
    BY <2>1 DEF CellInv, LabelInv
  <2>4. \A i \in 1 .. Len(order[h]) : order[h][i] \in Cell /\ order[h][i] # c
    BY <1>1, <2>2 DEF ListInv, ListTypeOK
  <2>5. QED BY <1>2, <2>2, <2>3, <2>4, NamesStay
<1>5. CASE AddNode
  <2>1. /\ ListAdd(made, mpNodeList) /\ name' = name /\ made # NULL
        /\ mpNodeList # NULL
    BY <1>5 DEF AddNode, CellInv, ControlInv
  <2>2. /\ made \in heads /\ mpNodeList \in heads /\ made # mpNodeList
        /\ made # h /\ mpNodeList # h /\ Len(order[made]) = 0
    BY <2>1, HeadFacts DEF CellInv, HeadsInv
  <2>3. order'[h] = order[h] BY <1>1, <2>1, <2>2, AddKeeps
  <2>4. QED BY <1>2, <2>1, <2>3, NamesStay
<1>6. CASE FreeNode
  <2> DEFINE g == mpNodeList
  <2>1. /\ g \in heads /\ g # h /\ 1 \in 1 .. Len(order[g])
        /\ order'[h] = order[h]
        /\ \A c \in Cell \ {order[g][1]} : name'[c] = name[c]
    BY <1>1, <1>6, NodeGone
  <2>2. \A i \in 1 .. Len(order[h]) : order[h][i] # order[g][1]
    BY <1>1, <2>1 DEF ListInv, Members
  <2>3. \A i \in 1 .. Len(order[h]) : order[h][i] \in Cell
    BY <1>1 DEF ListInv, ListTypeOK
  <2>4. QED BY <1>2, <2>1, <2>2, <2>3, NamesStay
<1>7. CASE FreeList
  <2>1. UNCHANGED <<order, name>> BY <1>7 DEF FreeList, FreeHead
  <2>2. QED BY <1>2, <2>1, NamesStay
<1>8. QED BY <1>2, <1>3, <1>4, <1>5, <1>6, <1>7 DEF XmlSteps, FreeSteps

\* add() puts the name of the entry before the others.
LEMMA AddEntryNames ==
  ASSUME CellInv, AddNodeEntry
  PROVE  Names' = Promise!First(name[entry], Names)
<1> DEFINE h == mpNodeListHead
           n == Len(order[h])
<1>1. /\ pc = "add" /\ entry # NULL /\ ListAdd(entry, h)
      /\ UNCHANGED <<h, name>>
  BY DEF AddNodeEntry, CellInv, ControlInv
<1>2. /\ ListInv /\ h \in heads /\ entry \in heads /\ entry # h
      /\ Len(order[entry]) = 0 /\ n \in Nat
  BY <1>1, HeadFacts DEF CellInv, HeadsInv
<1>3. order'[h] = Prepend(entry, order[h]) BY <1>1, <1>2, AddKeeps
<1>4. Prepended(order'[h], entry, order[h])
  <2>1. order[h] \in Seq(Cell) /\ entry \in Cell BY <1>2, AtFacts
  <2>2. QED BY <1>3, <2>1, PrependFacts
<1>5. Len(order'[h]) = n + 1 /\ order'[h][1] = entry
      /\ \A i \in 1 .. n : order'[h][i + 1] = order[h][i]
  BY <1>4 DEF Prepended
<1>6. Len(Names) = n /\ \A i \in 1 .. n : Names[i] = name[order[h][i]]
  BY NamesFacts
<1>7. Names' = [i \in 1 .. n + 1 |-> name[order'[h][i]]]
  BY <1>1, <1>5 DEF Names
<1>8. ASSUME NEW i \in 1 .. n + 1
      PROVE  name[order'[h][i]] = IF i = 1 THEN name[entry] ELSE Names[i - 1]
  <2>1. CASE i = 1 BY <1>5, <2>1
  <2>2. CASE i # 1
    <3>1. i - 1 \in 1 .. n /\ (i - 1) + 1 = i BY <1>2, <2>2
    <3>2. order'[h][i] = order[h][i - 1] BY <1>5, <3>1
    <3>3. QED BY <1>6, <2>2, <3>1, <3>2
  <2>3. QED BY <2>1, <2>2
<1>9. QED BY <1>6, <1>7, <1>8 DEF Promise!First

\* Freeing an entry takes its name out.
LEMMA EntryGoneNames ==
  ASSUME CellInv, pNode # mpNodeListHead, Delete(pNode, mpNodeListHead, at),
         UNCHANGED mpNodeListHead
  PROVE  /\ at \in 1 .. Len(Names) /\ Names[at] = name[pNode]
         /\ Names' = Promise!Drop(Names, at)
<1> DEFINE h == mpNodeListHead
           n == Len(order[h])
<1>1. /\ at \in 1 .. n /\ pNode = order[h][at]
      /\ Shortened(order'[h], order[h], at)
      /\ \A c \in Cell \ {pNode} : name'[c] = name[c]
  BY EntryGone
<1>2. Len(Names) = n /\ n \in Nat /\ \A i \in 1 .. n : Names[i] = name[order[h][i]]
  BY NamesFacts
<1>3. /\ Len(order'[h]) = n - 1
      /\ \A k \in 1 .. at - 1 : order'[h][k] = order[h][k]
      /\ \A k \in at .. n - 1 : order'[h][k] = order[h][k + 1]
  BY <1>1 DEF Shortened
<1>4. \A k \in 1 .. n : k # at => order[h][k] \in Cell /\ order[h][k] # pNode
  BY <1>1, HeadFacts DEF CellInv, ListInv, ListTypeOK, Members
<1>5. \A k \in 1 .. n : k # at => name'[order[h][k]] = Names[k]
  BY <1>1, <1>2, <1>4
<1>6. Names' = [i \in 1 .. n - 1 |-> name'[order'[h][i]]] BY <1>3 DEF Names
<1>7. ASSUME NEW i \in 1 .. n - 1
      PROVE  name'[order'[h][i]] = IF i < at THEN Names[i] ELSE Names[i + 1]
  <2>1. CASE i < at
    <3>1. i \in 1 .. at - 1 /\ i \in 1 .. n /\ i # at BY <1>1, <1>2, <2>1
    <3>2. QED BY <1>3, <1>5, <2>1, <3>1
  <2>2. CASE ~(i < at)
    <3>1. i \in at .. n - 1 /\ i + 1 \in 1 .. n /\ i + 1 # at
      BY <1>1, <1>2, <2>2
    <3>2. QED BY <1>3, <1>5, <2>2, <3>1
  <2>3. QED BY <2>1, <2>2
<1>8. QED BY <1>1, <1>2, <1>6, <1>7 DEF Promise!Drop

\* What First and Drop make of names without repetition.
LEMMA FirstFacts ==
  ASSUME NEW X, NEW x \in X, NEW s \in Seq(X)
  PROVE  /\ Promise!First(x, s) \in Seq(X)
         /\ Prepended(Promise!First(x, s), x, s)
<1>1. Promise!First(x, s) = Prepend(x, s) BY DEF Promise!First, Prepend
<1>2. QED BY <1>1, PrependFacts

LEMMA DropFacts ==
  ASSUME NEW X, NEW s \in Seq(X), NEW i \in 1 .. Len(s)
  PROVE  /\ Promise!Drop(s, i) \in Seq(X)
         /\ Shortened(Promise!Drop(s, i), s, i)
<1>1. Promise!Drop(s, i) = Without(s, i) BY DEF Promise!Drop, Without
<1>2. QED BY <1>1, WithoutFacts

\* A walk of the registry ends at the place behind its last.
LEMMA WalkedOver ==
  ASSUME CellInv, pNode = mpNodeListHead, Walking
  PROVE  at = Len(Names) + 1
<1> DEFINE h == mpNodeListHead
<1>1. /\ h \in heads /\ ListInv /\ at # 0
      /\ at \in 0 .. Len(order[h]) + 1 /\ h = At(h, at)
  BY HeadFacts DEF CellInv, WalkInv, ControlInv
<1>2. at \notin 1 .. Len(order[h]) BY <1>1, AtFacts
<1>3. Len(Names) = Len(order[h]) /\ Len(Names) \in Nat BY NamesFacts
<1>4. QED BY <1>1, <1>2, <1>3

\* Without the name at a place the others still differ.
LEMMA StillDifferent ==
  ASSUME NEW s \in Seq(Name), NEW i \in 1 .. Len(s), NEW r, Shortened(r, s, i),
         \A k, l \in 1 .. Len(s) : s[k] = s[l] => k = l
  PROVE  /\ \A k, l \in 1 .. Len(r) : r[k] = r[l] => k = l
         /\ \A k \in 1 .. Len(r) : r[k] # s[i]
<1>1. Len(s) \in Nat /\ Len(r) = Len(s) - 1 BY LenProperties DEF Shortened
<1> DEFINE from(k) == IF k < i THEN k ELSE k + 1
<1>2. ASSUME NEW k \in 1 .. Len(r)
      PROVE  /\ from(k) \in 1 .. Len(s) /\ from(k) # i
             /\ r[k] = s[from(k)]
  <2>1. CASE k < i
    <3>1. k \in 1 .. i - 1 /\ k \in 1 .. Len(s) BY <1>1, <2>1
    <3>2. r[k] = s[k] BY <3>1 DEF Shortened
    <3>3. QED BY <2>1, <3>1, <3>2
  <2>2. CASE ~(k < i)
    <3>1. k \in i .. Len(s) - 1 /\ k + 1 \in 1 .. Len(s) /\ k + 1 # i
      BY <1>1, <2>2
    <3>2. r[k] = s[k + 1] BY <3>1 DEF Shortened
    <3>3. QED BY <2>2, <3>1, <3>2
  <2>3. QED BY <2>1, <2>2
<1>3. ASSUME NEW k \in 1 .. Len(r), NEW l \in 1 .. Len(r), r[k] = r[l]
      PROVE  k = l
  <2>1. from(k) = from(l) BY <1>2, <1>3
  <2>2. QED BY <1>1, <2>1
<1>4. QED BY <1>2, <1>3

\* The names stay without repetition when one is added or taken out.
LEMMA NamesInvKept ==
  ASSUME CellInv, NamesInv, [Next]_vars
  PROVE  NamesInv'
<1>1. /\ ControlInv /\ LabelInv /\ Len(Names) \in Nat /\ at \in Nat
      /\ Names \in Seq(Name)
  BY HeadFacts, NamesFacts DEF CellInv, NamesInv
<1>2. CASE \E n \in Name : Join(n)
  <2>1. PICK n \in Name : Join(n) BY <1>2
  <2>2. PICK c \in Cell : entry' = c /\ name' = [name EXCEPT ![c] = n]
    BY <2>1 DEF Join
  <2>3. name'[entry'] = n BY <1>1, <2>2 DEF LabelInv
  <2>4. /\ Names' = Names /\ arg' = n /\ pc' = "drop" /\ at' = 1
    BY <2>1, OthersKeepNames DEF Join, WalkBegins
  <2>5. QED BY <2>3, <2>4 DEF NamesInv
<1>3. CASE \E n \in Name : DropNode(n) \/ SendAnswer(n)
  <2>1. entry = NULL /\ entry' = NULL /\ Names' = Names /\ pc' # "add"
    BY <1>1, <1>3, OthersKeepNames DEF DropNode, SendAnswer, Printed, ControlInv
  <2>2. task' # "join" BY <1>1, <1>3 DEF DropNode, SendAnswer, Printed, ControlInv
  <2>3. pc' = "drop" => at' = 1 BY <1>3 DEF DropNode, SendAnswer, WalkBegins
  <2>4. QED BY <2>1, <2>2, <2>3 DEF NamesInv
<1>4. CASE DropPasses
  <2>1. /\ Names' = Names /\ UNCHANGED <<arg, task, entry, name, pc>>
        /\ pc = "drop" /\ at' = at + 1 /\ name[pNode] # arg
    BY <1>4, OthersKeepNames DEF DropPasses, registryState, WalkOn
  <2>2. at \in 1 .. Len(Names) /\ Names[at] = name[pNode]
    BY <1>4, PlaceFacts, NamesFacts DEF DropPasses
  <2>3. \A i \in 1 .. at' - 1 : i = at \/ i \in 1 .. at - 1 BY <1>1, <2>1
  <2>4. \A i \in 1 .. at' - 1 : Names[i] # arg BY <2>1, <2>2, <2>3 DEF NamesInv
  <2>5. QED BY <2>1, <2>4 DEF NamesInv
<1>5. CASE DropFinds \/ SendFails
  <2>1. /\ pNode # mpNodeListHead /\ Delete(pNode, mpNodeListHead, at)
        /\ UNCHANGED <<mpNodeListHead, entry>> /\ pc' # "drop"
    BY <1>1, <1>5 DEF DropFinds, SendFails, DropReturns, ControlInv
  <2>2. /\ at \in 1 .. Len(Names) /\ Names[at] = name[pNode]
        /\ Names' = Promise!Drop(Names, at)
    BY <2>1, EntryGoneNames
  <2>3. Names' \in Seq(Name) /\ Shortened(Names', Names, at)
    BY <1>1, <2>2, DropFacts
  <2>4. /\ \A k, l \in 1 .. Len(Names') : Names'[k] = Names'[l] => k = l
        /\ \A k \in 1 .. Len(Names') : Names'[k] # Names[at]
    BY <1>1, <2>2, <2>3, StillDifferent DEF NamesInv
  <2>5. entry # NULL => name'[entry] = name[entry]
    <3>1. /\ pNode \notin heads
          /\ \A c \in Cell \ {pNode} : name'[c] = name[c]
      BY <2>1, EntryGone
    <3>2. entry # NULL => entry \in heads /\ entry \in Cell
      BY HeadFacts DEF CellInv, ListInv, ListTypeOK
    <3>3. QED BY <3>1, <3>2
  <2>6. /\ task' = "join" => task = "join" /\ arg' = arg /\ entry # NULL
        /\ pc' = "add" => task = "join" /\ Names[at] = arg /\ entry # NULL
    BY <1>1, <1>5, <2>2 DEF DropFinds, SendFails, DropReturns, ControlInv
  <2>7. QED BY <2>1, <2>3, <2>4, <2>5, <2>6 DEF NamesInv
<1>6. CASE DropEnds
  <2>1. at = Len(Names) + 1
    BY <1>1, <1>6, WalkedOver DEF DropEnds, Walking
  <2>2. /\ Names' = Names /\ UNCHANGED <<entry, name>> /\ pc = "drop"
        /\ pc' # "drop" /\ task' = "none" /\ (pc' = "add" => task = "join")
    BY <1>1, <1>6, OthersKeepNames DEF DropEnds, DropReturns, ControlInv
  <2>3. \A i \in 1 .. Len(Names) : Names[i] # arg
    <3>1. at - 1 = Len(Names) BY <1>1, <2>1
    <3>2. QED BY <2>2, <3>1 DEF NamesInv
  <2>4. QED BY <2>2, <2>3 DEF NamesInv
<1>7. CASE AddNodeEntry
  <2>1. /\ pc = "add" /\ pc' = "idle" /\ entry' = NULL /\ task' = task
        /\ entry # NULL /\ task = "none"
    BY <1>1, <1>7 DEF AddNodeEntry, ControlInv
  <2>2. name[entry] \in Name /\ \A i \in 1 .. Len(Names) : Names[i] # name[entry]
    BY <2>1 DEF NamesInv
  <2>3. Names' \in Seq(Name) /\ Prepended(Names', name[entry], Names)
    BY <1>1, <1>7, <2>2, AddEntryNames, FirstFacts
  <2>4. /\ Len(Names') = Len(Names) + 1 /\ Names'[1] = name[entry]
        /\ \A i \in 1 .. Len(Names) : Names'[i + 1] = Names[i]
    BY <2>3 DEF Prepended
  <2>5. ASSUME NEW i \in 2 .. Len(Names')
        PROVE  i - 1 \in 1 .. Len(Names) /\ Names'[i] = Names[i - 1]
    <3>1. i - 1 \in 1 .. Len(Names) /\ (i - 1) + 1 = i BY <1>1, <2>4
    <3>2. QED BY <2>4, <3>1
  <2>6. ASSUME NEW i \in 1 .. Len(Names'), NEW j \in 1 .. Len(Names'),
               Names'[i] = Names'[j]
        PROVE  i = j
    <3>1. (i = 1 \/ i \in 2 .. Len(Names')) /\ (j = 1 \/ j \in 2 .. Len(Names'))
      BY <1>1, <2>4
    <3>2. CASE i = 1 \/ j = 1 BY <2>2, <2>4, <2>5, <2>6, <3>1, <3>2
    <3>3. CASE i \in 2 .. Len(Names') /\ j \in 2 .. Len(Names')
      <4>1. i - 1 = j - 1 BY <2>5, <2>6, <3>3 DEF NamesInv
      <4>2. QED BY <4>1
    <3>4. QED BY <3>1, <3>2, <3>3
  <2>7. QED BY <2>1, <2>3, <2>6 DEF NamesInv
<1>8. CASE \/ Broadcast \/ SendArrives \/ BroadcastEnds
           \/ List \/ XmlSteps \/ FreeSteps
  <2>1. Names' = Names /\ entry = NULL /\ entry' = NULL /\ task' # "join"
    BY <1>1, <1>8, OthersKeepNames
       DEF Broadcast, SendArrives, BroadcastEnds, List, XmlSteps, FreeSteps,
           MakeHead, MakeNode, AddNode, CollectEnds, Writes, CopyAnswer, FreeNode,
           FreeList, Printed, registryState, ControlInv
  <2>2. pc' \notin {"drop", "add"}
    BY <1>8
       DEF Broadcast, SendArrives, BroadcastEnds, List, XmlSteps, FreeSteps,
           MakeHead, MakeNode, AddNode, CollectEnds, Writes, CopyAnswer, FreeNode,
           FreeList, Printed
  <2>3. QED BY <2>1, <2>2 DEF NamesInv
<1>9. CASE UNCHANGED vars
  <2>1. Names' = Names BY <1>9, OthersKeepNames
  <2>2. QED BY <1>9, <2>1 DEF NamesInv, vars, registryState, walkVars
<1>10. QED
  BY <1>2, <1>3, <1>4, <1>5, <1>6, <1>7, <1>8, <1>9
     DEF Next, DropSteps, BroadcastSteps

\* No name is registered yet.
LEMMA NamesInvStarts == Init => NamesInv /\ Promise!RegistryInit
<1> SUFFICES ASSUME Init PROVE NamesInv /\ Promise!RegistryInit
  OBVIOUS
<1>1. CellInv BY CellInvStarts
<1>2. Names \in Seq(Label) /\ Len(Names) = Len(order[mpNodeListHead])
  BY <1>1, NamesFacts
<1>3. order[mpNodeListHead] = <<>>
  <2>1. mpNodeListHead \in Cell
    BY <1>1, HeadFacts DEF CellInv, ListInv, ListTypeOK
  <2>2. QED BY <2>1 DEF Init
<1>4. Len(<<>>) = 0 OBVIOUS
<1>5. Names = <<>> BY <1>2, <1>3, <1>4, EmptySeq
<1>6. pc = "idle" /\ entry = NULL /\ task = "none" /\ mNumOfNode = 0 BY DEF Init
<1>7. Todo = <<>> BY <1>6 DEF Todo
<1>8. <<>> \in Seq(Name) /\ \A i \in 1 .. Len(<<>>) : FALSE BY <1>4
<1>9. QED BY <1>5, <1>6, <1>7, <1>8 DEF NamesInv, Promise!RegistryInit

\* What a broadcast has still to visit is the registry from where it stands.
LEMMA TodoFacts ==
  ASSUME CellInv, pc = "broadcast"
  PROVE  /\ Len(Names) - at + 1 \in Nat
         /\ Todo \in Seq(Label) /\ Len(Todo) = Len(Names) - at + 1
         /\ \A k \in 1 .. Len(Names) - at + 1 : Todo[k] = Names[at + k - 1]
         /\ Todo = <<>> <=> pNode = mpNodeListHead
<1> DEFINE n == Len(Names) - at + 1
           e(k) == Names[at + k - 1]
<1>1. /\ Len(Names) \in Nat /\ Names \in Seq(Label) /\ at \in Nat
      /\ Len(Names) = Len(order[mpNodeListHead]) /\ Walking
  BY NamesFacts, HeadFacts DEF Walking
<1>2. at # 0 /\ at \in 0 .. Len(Names) + 1
  BY <1>1 DEF CellInv, ControlInv, WalkInv
<1>3. n \in Nat BY <1>1, <1>2
<1>4. \A k \in 1 .. n : e(k) \in Label
  <2>1. \A k \in 1 .. n : at + k - 1 \in 1 .. Len(Names) BY <1>1, <1>2
  <2>2. QED BY <1>1, <2>1, ElementOfSeq
<1>5. Todo = [k \in 1 .. n |-> e(k)] BY DEF Todo
<1>6. Todo \in Seq(Label) /\ DOMAIN Todo = 1 .. n
  <2> HIDE DEF n, e
  <2>1. QED BY <1>3, <1>4, <1>5, IsASeq
<1>7. Len(Todo) = n
  <2>1. DOMAIN Todo = 1 .. Len(Todo) /\ Len(Todo) \in Nat
    BY <1>6, LenProperties
  <2> HIDE DEF n
  <2>2. QED BY <1>3, <1>6, <2>1
<1>8. Todo = <<>> <=> n = 0
  <2> HIDE DEF n
  <2>1. QED BY <1>6, <1>7, EmptySeq
<1>9. n = 0 <=> pNode = mpNodeListHead
  <2>1. pNode = mpNodeListHead => at = Len(Names) + 1 BY <1>1, WalkedOver
  <2>2. pNode # mpNodeListHead => at \in 1 .. Len(Names) BY <1>1, PlaceFacts
  <2>3. QED BY <1>1, <1>2, <2>1, <2>2
<1>10. QED BY <1>3, <1>5, <1>6, <1>7, <1>8, <1>9

\* Only a broadcast has anything to visit.
LEMMA NothingToDo ==
  pc # "broadcast" => Todo = <<>>
BY DEF Todo

\* Every step is one of the promised registry, or none.
LEMMA RegistryStep ==
  ASSUME CellInv, NamesInv, [Next]_vars, CellInv'
  PROVE  [Promise!RegistryNext]_<<Names, mNumOfNode, Todo>>
<1>1. /\ ControlInv /\ Len(Names) \in Nat /\ at \in Nat /\ Names \in Seq(Name)
  BY HeadFacts, NamesFacts DEF CellInv, NamesInv
<1>2. CASE AddNodeEntry
  <2>1. /\ pc = "add" /\ pc' = "idle" /\ entry # NULL
        /\ mNumOfNode' = mNumOfNode + 1
    BY <1>1, <1>2 DEF AddNodeEntry, ControlInv
  <2>2. name[entry] \in Name /\ \A i \in 1 .. Len(Names) : Names[i] # name[entry]
    BY <2>1 DEF NamesInv
  <2>3. Todo = <<>> /\ Todo' = <<>> BY <2>1 DEF Todo
  <2>4. Names' = Promise!First(name[entry], Names) BY <1>2, AddEntryNames
  <2>5. Promise!Register(name[entry])
    BY <2>1, <2>2, <2>3, <2>4 DEF Promise!Register
  <2>6. QED BY <2>2, <2>5 DEF Promise!RegistryNext
<1>3. CASE DropFinds
  <2>1. /\ pNode # mpNodeListHead /\ Delete(pNode, mpNodeListHead, at)
        /\ UNCHANGED mpNodeListHead /\ mNumOfNode' = mNumOfNode - 1
        /\ pc = "drop" /\ pc' # "broadcast"
    BY <1>1, <1>3 DEF DropFinds, DropReturns, ControlInv
  <2>2. at \in 1 .. Len(Names) /\ Names' = Promise!Drop(Names, at)
    BY <2>1, EntryGoneNames
  <2>3. Todo = <<>> /\ Todo' = <<>> BY <2>1 DEF Todo
  <2>4. Promise!Remove(at) BY <2>1, <2>2, <2>3 DEF Promise!Remove
  <2>5. QED BY <2>2, <2>4 DEF Promise!RegistryNext
<1>4. CASE Broadcast
  <2>1. pc = "idle" /\ pc' = "broadcast" /\ at' = 1
    BY <1>4 DEF Broadcast, WalkBegins
  <2>2. Names' = Names /\ UNCHANGED mNumOfNode BY <1>4, OthersKeepNames
  <2>3. Todo = <<>> BY <2>1 DEF Todo
  <2>4. Todo' = Names
    <3>1. Todo' = [k \in 1 .. Len(Names) - 1 + 1 |-> Names[1 + k - 1]]
      BY <2>1, <2>2 DEF Todo
    <3>2. Len(Names) - 1 + 1 = Len(Names) BY <1>1
    <3>3. \A k \in 1 .. Len(Names) : 1 + k - 1 = k OBVIOUS
    <3>4. Names = [k \in 1 .. Len(Names) |-> Names[k]] BY <1>1
    <3>5. QED BY <3>1, <3>2, <3>3, <3>4
  <2>5. Promise!Begin BY <2>2, <2>3, <2>4 DEF Promise!Begin
  <2>6. QED BY <2>5 DEF Promise!RegistryNext
<1>5. CASE SendArrives \/ SendFails
  <2>1. pc = "broadcast" /\ pc' = "broadcast" /\ pNode # mpNodeListHead
    BY <1>5 DEF SendArrives, SendFails
  <2>2. /\ Todo # <<>> /\ Len(Todo) = Len(Names) - at + 1
        /\ \A k \in 1 .. Len(Names) - at + 1 : Todo[k] = Names[at + k - 1]
    BY <2>1, TodoFacts
  <2>3. at \in 1 .. Len(Names) BY <2>1, PlaceFacts, NamesFacts
  <2>4. Promise!Drop(Todo, 1) = [k \in 1 .. Len(Names) - at |-> Names[at + k]]
    <3>1. Promise!Drop(Todo, 1)
          = [k \in 1 .. Len(Todo) - 1 |-> IF k < 1 THEN Todo[k] ELSE Todo[k + 1]]
      BY DEF Promise!Drop
    <3>2. Len(Todo) - 1 = Len(Names) - at BY <1>1, <2>2
    <3>3. ASSUME NEW k \in 1 .. Len(Names) - at
          PROVE  ~(k < 1) /\ Todo[k + 1] = Names[at + k]
      <4>1. /\ k + 1 \in 1 .. Len(Names) - at + 1 /\ at + (k + 1) - 1 = at + k
            /\ ~(k < 1)
        BY <1>1, <2>3
      <4>2. Todo[k + 1] = Names[at + (k + 1) - 1] BY <2>2, <4>1
      <4>3. QED BY <4>1, <4>2
    <3>4. QED BY <3>1, <3>2, <3>3
  <2>5. CASE SendArrives
    <3>1. Names' = Names /\ UNCHANGED mNumOfNode /\ at' = at + 1
      BY <2>5, OthersKeepNames DEF SendArrives, WalkOn
    <3>2. Todo' = [k \in 1 .. Len(Names) - (at + 1) + 1 |-> Names[at + 1 + k - 1]]
      BY <2>1, <3>1 DEF Todo
    <3>3. Len(Names) - (at + 1) + 1 = Len(Names) - at BY <1>1
    <3>4. \A k \in 1 .. Len(Names) - at : at + 1 + k - 1 = at + k BY <1>1
    <3>5. Todo' = Promise!Drop(Todo, 1) BY <2>4, <3>2, <3>3, <3>4
    <3>6. Promise!Visit BY <2>2, <3>1, <3>5 DEF Promise!Visit
    <3>7. QED BY <3>6 DEF Promise!RegistryNext
  <2>6. CASE SendFails
    <3>1. /\ Delete(pNode, mpNodeListHead, at) /\ UNCHANGED <<mpNodeListHead, at>>
          /\ mNumOfNode' = mNumOfNode - 1
      BY <2>6 DEF SendFails
    <3>2. Names' = Promise!Drop(Names, at) BY <2>1, <3>1, EntryGoneNames
    <3>3. Shortened(Names', Names, at) BY <1>1, <2>3, <3>2, DropFacts
    <3>4. Todo' = [k \in 1 .. Len(Names') - at + 1 |-> Names'[at + k - 1]]
      BY <2>1, <3>1 DEF Todo
    <3>5. Len(Names') - at + 1 = Len(Names) - at BY <1>1, <3>3 DEF Shortened
    <3>6. ASSUME NEW k \in 1 .. Len(Names) - at
          PROVE  Names'[at + k - 1] = Names[at + k]
      <4>1. /\ at + k - 1 \in at .. Len(Names) - 1
            /\ (at + k - 1) + 1 = at + k
        BY <1>1, <2>3
      <4>2. Names'[at + k - 1] = Names[(at + k - 1) + 1]
        BY <3>3, <4>1 DEF Shortened
      <4>3. QED BY <4>1, <4>2
    <3>7. Todo' = Promise!Drop(Todo, 1) BY <2>4, <3>4, <3>5, <3>6
    <3>8. Len(Names) - Len(Todo) + 1 = at BY <1>1, <2>2
    <3>9. Promise!Visit BY <2>2, <3>1, <3>2, <3>7, <3>8 DEF Promise!Visit
    <3>10. QED BY <3>9 DEF Promise!RegistryNext
  <2>7. QED BY <1>5, <2>5, <2>6
<1>6. CASE BroadcastEnds
  <2>1. pc = "broadcast" /\ pNode = mpNodeListHead /\ pc' = "idle"
    BY <1>6 DEF BroadcastEnds
  <2>2. Todo = <<>> /\ Todo' = <<>> BY <2>1, TodoFacts DEF Todo
  <2>3. Names' = Names /\ UNCHANGED mNumOfNode BY <1>6, OthersKeepNames
  <2>4. QED BY <2>2, <2>3
<1>7. CASE \/ \E n \in Name : Join(n) \/ DropNode(n) \/ SendAnswer(n)
           \/ DropPasses \/ DropEnds \/ List \/ XmlSteps \/ FreeSteps
  <2>1. pc # "broadcast" /\ pc' # "broadcast"
    BY <1>1, <1>7
       DEF Join, DropNode, SendAnswer, DropPasses, DropEnds, DropReturns, List,
           XmlSteps, FreeSteps, MakeHead, MakeNode, AddNode, CollectEnds, Writes,
           CopyAnswer, FreeNode, FreeList, Printed, ControlInv
  <2>2. Todo = <<>> /\ Todo' = <<>> BY <2>1 DEF Todo
  <2>3. Names' = Names /\ UNCHANGED mNumOfNode BY <1>7, OthersKeepNames
  <2>4. QED BY <2>2, <2>3
<1>8. CASE UNCHANGED vars
  <2>1. Names' = Names /\ UNCHANGED mNumOfNode BY <1>8, OthersKeepNames
  <2>2. Todo' = Todo BY <1>8, <2>1 DEF Todo, vars, walkVars
  <2>3. QED BY <2>1, <2>2
<1>9. QED
  BY <1>2, <1>3, <1>4, <1>5, <1>6, <1>7, <1>8
     DEF Next, DropSteps, BroadcastSteps

\* For every memory and any requests the list with its walks does what the
\* service promises of its registry: a name is there once, an entry is added or
\* removed at a time, a broadcast visits every name that was there when it began
\* once, though it frees entries as it goes (DefaultService.cpp's add(), drop(),
\* join() and broadcast()).
THEOREM RefinesRegistryCorrect == Spec => RefinesRegistry
<1>1. Init => CellInv /\ NamesInv /\ Promise!RegistryInit
  BY CellInvStarts, NamesInvStarts
<1>2. CellInv /\ NamesInv /\ [Next]_vars => CellInv' /\ NamesInv'
  BY CellInvKept, NamesInvKept
<1>3. CellInv /\ NamesInv /\ [Next]_vars
      => [Promise!RegistryNext]_<<Names, mNumOfNode, Todo>>
  BY CellInvKept, RegistryStep
<1>4. QED
  BY <1>1, <1>2, <1>3, PTL
     DEF Spec, RefinesRegistry, Promise!RegistrySpec, Promise!registryVars

-----------------------------------------------------------------------------
(* The answer to a LIST request is the registry.                           *)

\* How long the list of the NBUSXML is, and where it is in use.
LEMMA XmlFacts ==
  ASSUME CellInv
  PROVE  /\ XmlLen \in Nat
         /\ mpNodeList # NULL =>
              /\ mpNodeList \in heads /\ XmlLen = Len(order[mpNodeList])
              /\ \A i \in 1 .. XmlLen : /\ order[mpNodeList][i] \in live
                                        /\ order[mpNodeList][i] \in Cell
BY HeadFacts, AtFacts DEF XmlLen, CellInv, ListInv, ListTypeOK, Members

\* Steps that leave the list of the NBUSXML alone.
LEMMA XmlStays ==
  ASSUME UNCHANGED <<mpNodeList, order, name>>
  PROVE  XmlLen' = XmlLen /\ \A i : XmlAt(i)' = XmlAt(i)
BY DEF XmlLen, XmlAt

\* The steps outside the two loops of an answer.
LEMMA QuietAnswer ==
  ASSUME CellInv, AnswerInv,
         \/ \E n \in Name : Join(n) \/ DropNode(n)
         \/ DropSteps \/ AddNodeEntry \/ BroadcastSteps \/ FreeNode
  PROVE  AnswerInv'
<1>1. ControlInv BY DEF CellInv
<1>2. /\ UNCHANGED <<taken, source, text, side>>
      /\ pc \notin {"collect", "print"} /\ pc' \notin {"collect", "print"}
  BY <1>1
     DEF Join, DropNode, DropSteps, DropPasses, DropFinds, DropEnds, DropReturns,
         AddNodeEntry, BroadcastSteps, Broadcast, SendArrives, SendFails,
         BroadcastEnds, FreeNode, xmlVars, answerVars, ControlInv
<1>3. Underway' /\ NothingUnderway'
  <2>1. Underway /\ NothingUnderway BY DEF AnswerInv
  <2>2. CASE \E n \in Name : Join(n) \/ DropNode(n)
    BY <1>1, <1>2, <2>1, <2>2
       DEF Join, DropNode, Underway, NothingUnderway, ControlInv
  <2>3. CASE DropSteps
    BY <1>1, <1>2, <2>1, <2>3
       DEF DropSteps, DropPasses, DropFinds, DropEnds, DropReturns, Underway,
           NothingUnderway, ControlInv, registryState
  <2>4. CASE AddNodeEntry \/ BroadcastSteps
    BY <1>1, <1>2, <2>1, <2>4
       DEF AddNodeEntry, BroadcastSteps, Broadcast, SendArrives, SendFails,
           BroadcastEnds, Underway, NothingUnderway, ControlInv, registryState
  <2>5. CASE FreeNode
    BY <1>1, <1>2, <2>1, <2>5
       DEF FreeNode, Underway, NothingUnderway, ControlInv, registryState
  <2>6. QED BY <2>2, <2>3, <2>4, <2>5
<1>4. AnswerTypeOK' BY <1>2 DEF AnswerInv, AnswerTypeOK
<1>5. QED
  BY <1>2, <1>3, <1>4
     DEF AnswerInv, ServiceCollects, ServicePrints, AdapterCollects, AdapterPrints,
         TextIsXml

\* The service begins with an empty list at the first entry.
LEMMA ListAnswer ==
  ASSUME CellInv, NamesInv, AnswerInv, List
  PROVE  AnswerInv'
<1>1. /\ pc = "idle" /\ pc' = "collect" /\ side' = "service" /\ taken' = Names
      /\ at' = 1 /\ UNCHANGED <<mpNodeList, made, text, source, task>>
  BY DEF List, WalkBegins, xmlVars, registryState
<1>2. mpNodeList = NULL /\ made = NULL /\ source = <<>> /\ task = "none"
  BY <1>1 DEF CellInv, ControlInv, AnswerInv, NothingUnderway
<1>3. Names' = Names BY OthersKeepNames
<1>4. XmlLen' = 0 BY <1>1, <1>2 DEF XmlLen
<1>5. AnswerTypeOK' BY <1>1 DEF NamesInv, AnswerInv, AnswerTypeOK
<1>6. ServiceCollects' BY <1>1, <1>2, <1>3, <1>4 DEF ServiceCollects
<1>7. QED
  BY <1>1, <1>2, <1>5, <1>6
     DEF AnswerInv, ServicePrints, Underway, AdapterCollects, AdapterPrints,
         NothingUnderway, TextIsXml

\* A new cell changes no list; a node of the list has the name that is next.
LEMMA MakingAnswer ==
  ASSUME CellInv, AnswerInv, MakeHead \/ MakeNode
  PROVE  AnswerInv'
<1>1. /\ pc = "collect" /\ ControlInv /\ NamesLeft
      /\ UNCHANGED <<pc, at, task, side, text, source, taken>>
  BY DEF MakeHead, MakeNode, CellInv, answerVars, walkVars, registryState
<1>2. Names' = Names BY OthersKeepNames DEF XmlSteps
<1>3. PICK c \in Cell : /\ New(c)
                        /\ \/ MakeHead /\ mpNodeList' = c
                           \/ MakeNode /\ name' = [name EXCEPT ![c] = NextName]
                                       /\ made' = c
                        /\ \E l : name' = [name EXCEPT ![c] = l]
  BY DEF MakeHead, MakeNode
<1>4. /\ c \notin live /\ Len(order'[c]) = 0 /\ c # NULL
      /\ \A h \in heads : order'[h] = order[h]
      /\ \A d \in Cell : d # c => name'[d] = name[d]
  <2>1. /\ c \notin live /\ Len(order'[c]) = 0
        /\ \A h \in heads : h # c /\ order'[h] = order[h]
    BY <1>3, NewKeeps DEF CellInv
  <2>2. \A d \in Cell : d # c => name'[d] = name[d]
    BY <1>3 DEF CellInv, LabelInv
  <2>3. QED BY <2>1, <2>2, CellAssumption
<1>5. XmlLen' = XmlLen /\ \A i \in 1 .. XmlLen : XmlAt(i)' = XmlAt(i)
  <2>1. CASE MakeHead /\ mpNodeList' = c
    <3>1. XmlLen = 0 /\ XmlLen' = 0
      BY <1>4, <2>1 DEF MakeHead, XmlLen
    <3>2. QED BY <3>1
  <2>2. CASE MakeNode
    <3>1. /\ mpNodeList # NULL /\ mpNodeList' = mpNodeList
          /\ mpNodeList \in heads /\ XmlLen = Len(order[mpNodeList])
          /\ \A i \in 1 .. XmlLen : /\ order[mpNodeList][i] \in live
                                    /\ order[mpNodeList][i] \in Cell
      BY <2>2, XmlFacts DEF MakeNode
    <3>2. order'[mpNodeList'] = order[mpNodeList] BY <1>4, <3>1
    <3>3. \A i \in 1 .. XmlLen :
            name'[order[mpNodeList][i]] = name[order[mpNodeList][i]]
      BY <1>4, <3>1
    <3>4. QED BY <3>1, <3>2, <3>3 DEF XmlLen, XmlAt
  <2>3. QED BY <1>3, <2>1, <2>2
<1>6. made' # NULL => /\ side = "service" => name'[made'] = taken[at]
                      /\ side = "adapter" => /\ Len(source) # 0
                                             /\ name'[made'] = source[1]
  <2>1. CASE MakeHead
    <3>1. made' = NULL BY <1>1, <2>1 DEF MakeHead, ControlInv
    <3>2. QED BY <3>1
  <2>2. CASE MakeNode /\ name' = [name EXCEPT ![c] = NextName] /\ made' = c
    <3>1. name'[made'] = NextName BY <2>2 DEF CellInv, LabelInv
    <3>2. CASE side = "service"
      <4>1. /\ name[pNode] = Names[at] /\ NextName = name[pNode]
        BY <1>1, <3>2, PlaceFacts, NamesFacts DEF NamesLeft, NextName
      <4>2. taken = Names BY <1>1, <3>2 DEF AnswerInv, ServiceCollects
      <4>3. QED BY <3>1, <3>2, <4>1, <4>2
    <3>3. CASE side = "adapter"
      <4>1. source # <<>> /\ NextName = Head(source) /\ source \in Seq(Name)
        BY <1>1, <3>3 DEF NamesLeft, NextName, AnswerInv, AnswerTypeOK
      <4>2. Len(source) # 0 /\ Head(source) = source[1] BY <4>1, EmptySeq
      <4>3. QED BY <3>1, <3>3, <4>1, <4>2
    <3>4. QED BY <1>1, <3>2, <3>3 DEF ControlInv
  <2>3. QED BY <1>3, <2>1, <2>2
<1>7. ServiceCollects'
  BY <1>1, <1>2, <1>5, <1>6 DEF AnswerInv, ServiceCollects
<1>8. AdapterCollects'
  BY <1>1, <1>5, <1>6 DEF AnswerInv, AdapterCollects
<1>9. AnswerTypeOK' /\ NothingUnderway'
  BY <1>1 DEF AnswerInv, AnswerTypeOK, NothingUnderway
<1>10. QED
  BY <1>1, <1>7, <1>8, <1>9
     DEF AnswerInv, ServicePrints, Underway, AdapterPrints, TextIsXml

\* The name that is next goes before the others.
LEMMA AddingAnswer ==
  ASSUME CellInv, AnswerInv, AddNode
  PROVE  AnswerInv'
<1> DEFINE n == XmlLen
           m == Len(source)
<1>1. /\ pc = "collect" /\ ControlInv /\ NamesLeft /\ made # NULL /\ made' = NULL
      /\ mpNodeList # NULL /\ ListAdd(made, mpNodeList)
      /\ UNCHANGED <<pc, task, side, text, taken, mpNodeList, name>>
      /\ side = "service" => at' = at + 1 /\ source' = source
      /\ side = "adapter" => at' = at /\ source' = Tail(source)
  BY DEF AddNode, CellInv, ControlInv, registryState, WalkOn, walkVars
<1>2. Names' = Names BY OthersKeepNames DEF XmlSteps
<1>3. /\ ListInv /\ made \in heads /\ mpNodeList \in heads /\ made # mpNodeList
      /\ Len(order[made]) = 0 /\ n = Len(order[mpNodeList]) /\ n \in Nat
      /\ at \in Nat
  BY <1>1, HeadFacts, XmlFacts DEF CellInv, HeadsInv
<1>4. Prepended(order'[mpNodeList], made, order[mpNodeList])
  <2>1. order[mpNodeList] \in Seq(Cell) /\ made \in Cell BY <1>3, AtFacts
  <2>2. order'[mpNodeList] = Prepend(made, order[mpNodeList])
    BY <1>1, <1>3, AddKeeps
  <2>3. QED BY <2>1, <2>2, PrependFacts
<1>5. /\ XmlLen' = n + 1 /\ XmlAt(1)' = name[made]
      /\ \A i \in 1 .. n : XmlAt(i + 1)' = XmlAt(i)
  BY <1>1, <1>3, <1>4 DEF Prepended, XmlLen, XmlAt
<1>6. ASSUME NEW i \in 1 .. XmlLen', i # 1
      PROVE  i - 1 \in 1 .. n /\ XmlAt(i)' = XmlAt(i - 1)
  <2>1. i - 1 \in 1 .. n /\ (i - 1) + 1 = i BY <1>3, <1>5, <1>6
  <2>2. XmlAt((i - 1) + 1)' = XmlAt(i - 1) BY <1>5, <2>1
  <2>3. QED BY <2>1, <2>2
<1>7. AnswerTypeOK /\ m \in Nat
  BY LenProperties DEF AnswerInv, AnswerTypeOK
<1>8. CASE side = "service"
  <2>1. /\ taken = Names /\ n = at - 1 /\ source = <<>>
        /\ \A i \in 1 .. n : XmlAt(i) = taken[at - i]
        /\ name[made] = taken[at]
    BY <1>1, <1>8 DEF AnswerInv, ServiceCollects
  <2>2. ASSUME NEW i \in 1 .. XmlLen' PROVE XmlAt(i)' = taken[at + 1 - i]
    <3>1. CASE i = 1
      <4>1. at + 1 - 1 = at BY <1>3
      <4>2. QED BY <1>5, <2>1, <3>1, <4>1
    <3>2. CASE i # 1
      <4>1. i - 1 \in 1 .. n /\ XmlAt(i)' = XmlAt(i - 1) BY <1>6, <3>2
      <4>2. XmlAt(i - 1) = taken[at - (i - 1)] BY <2>1, <4>1
      <4>3. at - (i - 1) = at + 1 - i BY <1>3, <1>5
      <4>4. QED BY <4>1, <4>2, <4>3
    <3>3. QED BY <3>1, <3>2
  <2>3. XmlLen' = at + 1 - 1 BY <1>3, <1>5, <2>1
  <2>4. ServiceCollects'
    <3>1. /\ at' = at + 1 /\ taken' = Names' /\ source' = <<>> /\ made' = NULL
          /\ taken' = taken
      BY <1>1, <1>2, <1>8, <2>1
    <3>2. XmlLen' = at' - 1 BY <1>3, <2>3, <3>1
    <3>3. ASSUME NEW i \in 1 .. XmlLen' PROVE XmlAt(i)' = taken'[at' - i]
      <4>1. at + 1 - i = at' - i BY <1>3, <1>5, <3>1
      <4>2. XmlAt(i)' = taken[at + 1 - i] BY <2>2
      <4>3. QED BY <3>1, <4>1, <4>2
    <3>4. QED BY <3>1, <3>2, <3>3 DEF ServiceCollects
  <2>5. AnswerTypeOK' /\ NothingUnderway'
    BY <1>1, <1>7, <1>8, <2>1 DEF AnswerTypeOK, NothingUnderway
  <2>6. QED
    BY <1>1, <1>8, <2>4, <2>5
       DEF AnswerInv, ServicePrints, Underway, AdapterCollects, AdapterPrints,
           TextIsXml
<1>9. CASE side = "adapter"
  <2>1. /\ n + m = Len(taken) /\ m # 0 /\ name[made] = source[1]
        /\ \A i \in 1 .. n : XmlAt(i) = taken[m + i]
        /\ \A i \in 1 .. m : source[i] = taken[m + 1 - i]
    BY <1>1, <1>9 DEF AnswerInv, AdapterCollects
  <2>2. /\ source' \in Seq(Name) /\ Len(source') = m - 1
        /\ \A i \in 1 .. m - 1 : source'[i] = source[i + 1]
    <3>1. source \in Seq(Name) /\ source # <<>> /\ source' = Tail(source)
      BY <1>1, <1>7, <1>9, <2>1, EmptySeq DEF AnswerTypeOK
    <3>2. QED BY <3>1, HeadTailProperties
  <2>3. ASSUME NEW i \in 1 .. XmlLen' PROVE XmlAt(i)' = taken[m - 1 + i]
    <3>1. CASE i = 1
      <4>1. 1 \in 1 .. m /\ m + 1 - 1 = m /\ m - 1 + 1 = m BY <1>7, <2>1
      <4>2. source[1] = taken[m] BY <2>1, <4>1
      <4>3. QED BY <1>5, <2>1, <3>1, <4>1, <4>2
    <3>2. CASE i # 1
      <4>1. i - 1 \in 1 .. n /\ XmlAt(i)' = XmlAt(i - 1) BY <1>6, <3>2
      <4>2. XmlAt(i - 1) = taken[m + (i - 1)] BY <2>1, <4>1
      <4>3. m + (i - 1) = m - 1 + i BY <1>3, <1>5, <1>7
      <4>4. QED BY <4>1, <4>2, <4>3
    <3>3. QED BY <3>1, <3>2
  <2>4. ASSUME NEW i \in 1 .. m - 1 PROVE source'[i] = taken[m - 1 + 1 - i]
    <3>1. i + 1 \in 1 .. m /\ m + 1 - (i + 1) = m - 1 + 1 - i BY <1>7
    <3>2. source[i + 1] = taken[m + 1 - (i + 1)] BY <2>1, <3>1
    <3>3. QED BY <2>2, <3>1, <3>2
  <2>5. XmlLen' + Len(source') = Len(taken)
    <3>1. /\ XmlLen' = n + 1 /\ Len(source') = m - 1
          /\ (n + 1) + (m - 1) = n + m
      BY <1>3, <1>5, <1>7, <2>2
    <3> HIDE DEF n, m
    <3>2. QED BY <2>1, <3>1
  <2>6. AdapterCollects'
    BY <1>1, <1>9, <2>2, <2>3, <2>4, <2>5 DEF AdapterCollects
  <2>7. AnswerTypeOK' BY <1>1, <1>7, <2>2 DEF AnswerTypeOK
  <2>8. NothingUnderway'
    BY <1>1, <1>9 DEF NothingUnderway, ControlInv
  <2>9. QED
    BY <1>1, <1>9, <2>6, <2>7, <2>8
       DEF AnswerInv, ServiceCollects, ServicePrints, Underway, AdapterPrints,
           TextIsXml
<1>10. QED BY <1>1, <1>8, <1>9 DEF ControlInv

\* When all the names are in the list it is printed.
LEMMA CollectedAnswer ==
  ASSUME CellInv, AnswerInv, CollectEnds
  PROVE  AnswerInv'
<1>1. /\ pc = "collect" /\ ControlInv /\ ~NamesLeft /\ pc' \in {"print", "crashed"}
      /\ UNCHANGED <<side, text, source, taken, task, mpNodeList, order, name>>
  BY DEF CollectEnds, CellInv, answerVars, registryState, listVars
<1>2. XmlLen' = XmlLen /\ \A i : XmlAt(i)' = XmlAt(i) BY <1>1, XmlStays
<1>3. AnswerTypeOK /\ Len(text) = 0 /\ task = "none" /\ Len(text') = 0
  <2>1. AnswerTypeOK /\ task = "none" BY <1>1 DEF AnswerInv, ControlInv
  <2>2. Len(text) = 0 BY <1>1 DEF ControlInv
  <2>3. QED BY <1>1, <2>1, <2>2
<1>4. source = <<>>
  BY <1>1 DEF NamesLeft, AnswerInv, ServiceCollects, ControlInv
<1>5. ServicePrints'
  <2>1. CASE side = "service"
    <3>1. at = Len(Names) + 1 BY <1>1, <2>1, WalkedOver DEF NamesLeft, Walking
    <3>2. /\ taken = Names /\ XmlLen = at - 1
          /\ \A i \in 1 .. XmlLen : XmlAt(i) = taken[at - i]
      BY <1>1, <2>1 DEF AnswerInv, ServiceCollects
    <3>3. Len(Names) \in Nat BY NamesFacts
    <3>4. XmlLen = Len(taken) BY <3>1, <3>2, <3>3
    <3>5. \A i \in 1 .. XmlLen : XmlAt(i) = taken[Len(taken) + 1 - i]
      BY <3>1, <3>2
    <3>6. QED BY <1>1, <1>2, <1>4, <3>4, <3>5 DEF ServicePrints
  <2>2. CASE side # "service" BY <1>1, <2>2 DEF ServicePrints
  <2>3. QED BY <2>1, <2>2
<1>6. AdapterPrints'
  <2>1. CASE side = "adapter"
    <3>1. /\ XmlLen + Len(source) = Len(taken)
          /\ \A i \in 1 .. XmlLen : XmlAt(i) = taken[Len(source) + i]
      BY <1>1, <2>1 DEF AnswerInv, AdapterCollects
    <3>2. Len(source) = 0 /\ XmlLen \in Nat BY <1>4, XmlFacts
    <3>3. XmlLen = Len(taken) /\ \A i \in 1 .. XmlLen : XmlAt(i) = taken[i]
      BY <3>1, <3>2
    <3>4. QED BY <1>1, <1>2, <1>4, <3>3 DEF AdapterPrints
  <2>2. CASE side # "adapter" BY <1>1, <2>2 DEF AdapterPrints
  <2>3. QED BY <2>1, <2>2
<1>7. AnswerTypeOK' /\ NothingUnderway' /\ TextIsXml'
  BY <1>1, <1>3, <1>4 DEF AnswerTypeOK, NothingUnderway, TextIsXml
<1>8. QED
  BY <1>1, <1>5, <1>6, <1>7
     DEF AnswerInv, ServiceCollects, Underway, AdapterCollects

\* The names that are printed are names.
LEMMA PrintedNames ==
  ASSUME CellInv, AnswerInv, pc = "print", NEW i \in 1 .. XmlLen
  PROVE  XmlAt(i) \in Name
<1>1. taken \in Seq(Name) /\ Len(taken) \in Nat
  BY LenProperties DEF AnswerInv, AnswerTypeOK
<1>2. ASSUME NEW k \in 1 .. Len(taken) PROVE taken[k] \in Name
  BY <1>1, ElementOfSeq
<1>3. CASE side = "service"
  <2>1. XmlLen = Len(taken) /\ XmlAt(i) = taken[Len(taken) + 1 - i]
    BY <1>3 DEF AnswerInv, ServicePrints
  <2>2. Len(taken) + 1 - i \in 1 .. Len(taken) BY <1>1, <2>1
  <2>3. QED BY <1>2, <2>1, <2>2
<1>4. CASE side = "adapter"
  BY <1>2, <1>4 DEF AnswerInv, AdapterPrints
<1>5. QED BY <1>3, <1>4 DEF CellInv, ControlInv

\* One more name is printed.
LEMMA WritingAnswer ==
  ASSUME CellInv, AnswerInv, Writes
  PROVE  AnswerInv'
<1>1. /\ pc = "print" /\ pNodeXML # mpNodeList
      /\ text' = Append(text, name[pNodeXML])
      /\ UNCHANGED <<pc, side, source, taken, task, mpNodeList, order, name>>
  BY DEF Writes, answerVars, registryState, listVars
<1>2. XmlLen' = XmlLen /\ \A i : XmlAt(i)' = XmlAt(i) BY <1>1, XmlStays
<1>3. AnswerTypeOK /\ Len(text) \in Nat
  BY LenProperties DEF AnswerInv, AnswerTypeOK
<1>4. Len(text) + 1 \in 1 .. XmlLen /\ name[pNodeXML] = XmlAt(Len(text) + 1)
  <2>1. mpNodeList # NULL /\ ListInv BY <1>1 DEF CellInv, ControlInv
  <2>2. /\ mpNodeList \in heads /\ XmlLen = Len(order[mpNodeList]) /\ XmlLen \in Nat
    BY <2>1, XmlFacts
  <2>3. /\ Len(text) <= XmlLen /\ pNodeXML = At(mpNodeList, Len(text) + 1)
    BY <1>1, <2>2 DEF CellInv, PrintInv
  <2>4. At(mpNodeList, XmlLen + 1) = mpNodeList BY <2>1, <2>2, AtFacts
  <2>5. Len(text) # XmlLen BY <1>1, <2>3, <2>4
  <2>6. Len(text) + 1 \in 1 .. XmlLen BY <1>3, <2>2, <2>3, <2>5
  <2>7. At(mpNodeList, Len(text) + 1) = order[mpNodeList][Len(text) + 1]
    BY <2>1, <2>2, <2>6, AtFacts
  <2>8. QED BY <2>3, <2>6, <2>7 DEF XmlAt
<1>5. name[pNodeXML] \in Name BY <1>1, <1>4, PrintedNames
<1>6. /\ text' \in Seq(Name) /\ Len(text') = Len(text) + 1
      /\ \A i \in 1 .. Len(text) : text'[i] = text[i]
      /\ text'[Len(text) + 1] = name[pNodeXML]
  BY <1>1, <1>3, <1>5, AppendProperties DEF AnswerTypeOK
<1>7. ASSUME NEW i \in 1 .. Len(text') PROVE text'[i] = XmlAt(i)
  <2>1. CASE i = Len(text) + 1 BY <1>4, <1>6, <2>1
  <2>2. CASE i # Len(text) + 1
    <3>1. i \in 1 .. Len(text) BY <1>3, <1>6, <2>2
    <3>2. QED BY <1>1, <1>6, <3>1 DEF AnswerInv, TextIsXml
  <2>3. QED BY <2>1, <2>2
<1>8. TextIsXml' BY <1>2, <1>7 DEF TextIsXml
<1>9. ServicePrints' /\ AdapterPrints'
  BY <1>1, <1>2 DEF AnswerInv, ServicePrints, AdapterPrints
<1>10. AnswerTypeOK' /\ NothingUnderway'
  BY <1>1, <1>3, <1>6 DEF AnswerInv, AnswerTypeOK, NothingUnderway
<1>11. QED
  BY <1>1, <1>8, <1>9, <1>10
     DEF AnswerInv, ServiceCollects, Underway, AdapterCollects

\* At the end of toXML() the text is the list.
LEMMA PrintedIsXml ==
  ASSUME CellInv, AnswerInv, Printed
  PROVE  /\ Len(text) = XmlLen
         /\ \A i \in 1 .. Len(text) : text[i] = XmlAt(i)
<1>1. pc = "print" /\ pNodeXML = mpNodeList /\ mpNodeList # NULL /\ ListInv
  BY DEF Printed, CellInv, ControlInv
<1>2. /\ mpNodeList \in heads /\ XmlLen = Len(order[mpNodeList]) /\ XmlLen \in Nat
  BY <1>1, XmlFacts
<1>3. Len(text) <= XmlLen /\ mpNodeList = At(mpNodeList, Len(text) + 1)
  BY <1>1, <1>2 DEF CellInv, PrintInv
<1>4. Len(text) \in Nat BY LenProperties DEF AnswerInv, AnswerTypeOK
<1>5. Len(text) + 1 \notin 1 .. XmlLen BY <1>1, <1>2, <1>3, AtFacts
<1>6. Len(text) = XmlLen BY <1>2, <1>3, <1>4, <1>5
<1>7. QED BY <1>1, <1>6 DEF AnswerInv, TextIsXml

\* The text is sent, or given to the caller, and freed.
LEMMA SendingAnswer ==
  ASSUME CellInv, AnswerInv, CopyAnswer \/ \E n \in Name : SendAnswer(n)
  PROVE  AnswerInv'
<1>1. /\ Printed /\ pc = "print" /\ pc' \in {"free", "drop"} /\ text' = <<>>
      /\ UNCHANGED <<side, taken>> /\ ControlInv /\ AnswerTypeOK
  BY DEF CopyAnswer, SendAnswer, Printed, answerVars, CellInv, AnswerInv
<1>2. task = "none" /\ task' \in {"none", "list"}
  BY <1>1 DEF CopyAnswer, SendAnswer, ControlInv, registryState
<1>3. <<>> \in Seq(Name) OBVIOUS
<1>4. Underway' /\ NothingUnderway' /\ source' \in Seq(Name)
  <2>1. CASE \E n \in Name : SendAnswer(n)
    <3>1. side = "service" /\ source' \in {source, text}
      BY <2>1 DEF SendAnswer
    <3>2. /\ source = <<>> /\ XmlLen = Len(taken)
          /\ \A i \in 1 .. XmlLen : XmlAt(i) = taken[Len(taken) + 1 - i]
      BY <1>1, <3>1 DEF AnswerInv, ServicePrints
    <3>3. Len(text) = Len(taken)
          /\ \A i \in 1 .. Len(text) : text[i] = taken[Len(taken) + 1 - i]
      BY <1>1, <3>2, PrintedIsXml
    <3>4. Underway' BY <1>1, <3>1, <3>2, <3>3 DEF Underway
    <3>5. NothingUnderway' BY <1>1, <1>2, <3>1 DEF NothingUnderway
    <3>6. QED BY <1>1, <3>1, <3>4, <3>5 DEF AnswerTypeOK
  <2>2. CASE CopyAnswer
    <3>1. side = "adapter" /\ source' = source
      BY <2>2 DEF CopyAnswer, answerVars
    <3>2. source = <<>> BY <1>1, <3>1 DEF AnswerInv, AdapterPrints
    <3>3. QED BY <1>1, <1>3, <3>1, <3>2 DEF Underway, NothingUnderway
  <2>3. QED BY <2>1, <2>2
<1>5. QED
  BY <1>1, <1>3, <1>4
     DEF AnswerInv, AnswerTypeOK, ServiceCollects, ServicePrints, AdapterCollects,
         AdapterPrints, TextIsXml

\* What has arrived is read into a new list.
LEMMA FreedAnswer ==
  ASSUME CellInv, AnswerInv, FreeList
  PROVE  AnswerInv'
<1>1. /\ pc = "free" /\ ControlInv /\ AnswerTypeOK /\ mpNodeList' = NULL
      /\ UNCHANGED <<text, source, task, made>>
      /\ made = NULL /\ task = "none" /\ <<>> \in Seq(Name)
  BY DEF FreeList, CellInv, ControlInv, AnswerInv, registryState
<1>2. CASE source = <<>>
  <2>1. pc' = "idle" /\ taken' = <<>> BY <1>2 DEF FreeList
  <2>2. QED
    BY <1>1, <1>2, <2>1
       DEF AnswerInv, AnswerTypeOK, ServiceCollects, ServicePrints, Underway,
           AdapterCollects, AdapterPrints, NothingUnderway, TextIsXml
<1>3. CASE source # <<>>
  <2>1. pc' = "collect" /\ side' = "adapter" /\ taken' = taken
    BY <1>3 DEF FreeList
  <2>2. side = "service"
    BY <1>1, <1>3 DEF AnswerInv, NothingUnderway, ControlInv
  <2>3. /\ Len(source) = Len(taken)
        /\ \A i \in 1 .. Len(source) : source[i] = taken[Len(taken) + 1 - i]
    BY <1>1, <1>3, <2>2 DEF AnswerInv, Underway
  <2>4. XmlLen' = 0 BY <1>1 DEF XmlLen
  <2>5. Len(source) \in Nat BY <1>1, LenProperties DEF AnswerTypeOK
  <2>6. AdapterCollects'
    BY <1>1, <2>1, <2>3, <2>4, <2>5 DEF AdapterCollects
  <2>7. QED
    BY <1>1, <2>1, <2>6
       DEF AnswerInv, AnswerTypeOK, ServiceCollects, ServicePrints, Underway,
           AdapterPrints, NothingUnderway, TextIsXml
<1>4. QED BY <1>2, <1>3

LEMMA AnswerInvKept ==
  ASSUME CellInv, NamesInv, AnswerInv, [Next]_vars
  PROVE  AnswerInv'
<1>1. CASE UNCHANGED vars
  <2>1. UNCHANGED <<mpNodeList, order, name>> BY <1>1 DEF vars, xmlVars, listVars
  <2>2. XmlLen' = XmlLen /\ \A i : XmlAt(i)' = XmlAt(i) BY <2>1, XmlStays
  <2>3. Names' = Names BY <1>1, OthersKeepNames
  <2>4. QED
    BY <1>1, <2>2, <2>3
       DEF vars, xmlVars, answerVars, walkVars, registryState, AnswerInv,
           AnswerTypeOK, ServiceCollects, ServicePrints, Underway,
           AdapterCollects, AdapterPrints, NothingUnderway, TextIsXml
<1>2. CASE Next
  BY <1>2, QuietAnswer, ListAnswer, MakingAnswer, AddingAnswer, CollectedAnswer,
     WritingAnswer, SendingAnswer, FreedAnswer
     DEF Next, XmlSteps, FreeSteps
<1>3. QED BY <1>1, <1>2

LEMMA AnswerInvStarts == Init => AnswerInv
<1>1. <<>> \in Seq(Name) OBVIOUS
<1>2. QED
  BY <1>1
     DEF Init, AnswerInv, AnswerTypeOK, ServiceCollects, ServicePrints, Underway,
         AdapterCollects, AdapterPrints, NothingUnderway, TextIsXml

\* For every memory, any names and any requests: what a LIST request is answered
\* is the registry at the time the service took it, in the registry's order,
\* though addNode() turns the names round on either side
\* (DefaultService::list(), NBUSXML, NodeAdapter::getNodeList()).
THEOREM AnswerIsRegistryCorrect == Spec => []AnswerIsRegistry
<1>1. CellInv /\ AnswerInv => AnswerIsRegistry
  <2> SUFFICES ASSUME CellInv, AnswerInv, Printed, side = "adapter"
               PROVE  text = taken
    BY DEF AnswerIsRegistry
  <2>1. text \in Seq(Name) /\ taken \in Seq(Name)
    BY DEF AnswerInv, AnswerTypeOK
  <2>2. XmlLen = Len(taken) /\ \A i \in 1 .. XmlLen : XmlAt(i) = taken[i]
    BY DEF AnswerInv, AdapterPrints, Printed
  <2>3. Len(text) = XmlLen /\ \A i \in 1 .. Len(text) : text[i] = XmlAt(i)
    BY PrintedIsXml
  <2>4. Len(text) = Len(taken) /\ \A i \in 1 .. Len(text) : text[i] = taken[i]
    BY <2>2, <2>3
  <2>5. QED BY <2>1, <2>4, SeqEqual
<1>2. Init => CellInv /\ NamesInv /\ AnswerInv
  BY CellInvStarts, NamesInvStarts, AnswerInvStarts
<1>3. CellInv /\ NamesInv /\ AnswerInv /\ [Next]_vars
      => CellInv' /\ NamesInv' /\ AnswerInv'
  BY CellInvKept, NamesInvKept, AnswerInvKept
<1>4. QED BY <1>1, <1>2, <1>3, PTL DEF Spec
=============================================================================
