----------------------------- MODULE CmdProofs -----------------------------
(***************************************************************************)
(* Proofs about the two stores of commands, for every size, set of types   *)
(* and set of buffers.  The ring: its type, the agreement of its indexes,  *)
(* the ownership of its buffers, and that it is a bounded FIFO; the stack, *)
(* which shares the ring's slots: its type, the ownership of its buffers,  *)
(* and that it is a bounded last-in first-out store.                       *)
(***************************************************************************)
EXTENDS CmdStack, SequenceTheorems, TLAPS

-----------------------------------------------------------------------------
(* The ring.                                                               *)

\* An index one turn past the end comes back to the start of the ring.
LEMMA Wrap ==
  ASSUME NEW N \in Nat \ {0}, NEW x \in 0 .. (2 * N - 1)
  PROVE  x % N = IF x < N THEN x ELSE x - N
<1>1. CASE x < N
  BY <1>1, SMT
<1>2. CASE x >= N
  BY <1>2, SMT
<1>3. QED BY <1>1, <1>2, SMT

\* The k-th slot counted from slot b, without the remainder.
At(b, k) == IF b + k - 1 < mQSize THEN b + k - 1 ELSE b + k - 1 - mQSize

\* The remainder in SlotOf and in the steps of the indexes is that of one wrap.
LEMMA SlotIsAt ==
  ASSUME NEW b \in Index, NEW k \in 1 .. mQSize + 1
  PROVE  (b + k - 1) % mQSize = At(b, k) /\ At(b, k) \in Index
<1>1. mQSize \in Nat \ {0} BY QueueAssumption
<1>2. b + k - 1 \in 0 .. (2 * mQSize - 1) BY <1>1 DEF Index
<1>3. (b + k - 1) % mQSize = At(b, k)
  <2>1. DEFINE x == b + k - 1
  <2>2. x \in 0 .. (2 * mQSize - 1) BY <1>2
  <2>3. x % mQSize = IF x < mQSize THEN x ELSE x - mQSize
    <3> HIDE DEF x
    <3>1. QED BY <1>1, <2>2, Wrap
  <2>4. QED BY <1>1, <1>2, <2>3 DEF At, Index
<1>4. QED BY <1>1, <1>3 DEF At, Index

\* Different positions of the window are different slots.
LEMMA AtInjective ==
  ASSUME NEW b \in Index, NEW j \in 1 .. mQSize, NEW k \in 1 .. mQSize,
         At(b, j) = At(b, k)
  PROVE  j = k
BY QueueAssumption DEF At, Index

RingInv == TypeOK /\ RingShape /\ Ownership

\* The n slots of the window that starts at slot b.
Window(b, n) == {At(b, k) : k \in 1 .. n}

\* The live slots are a window, written without remainders.
LEMMA LiveIsWindow ==
  ASSUME NEW b \in Index, NEW n \in 0 .. mQSize
  PROVE  {(b + k - 1) % mQSize : k \in 1 .. n} = Window(b, n)
<1>1. \A k \in 1 .. n : (b + k - 1) % mQSize = At(b, k)
  <2>1. TAKE k \in 1 .. n
  <2>2. k \in 1 .. mQSize + 1 BY QueueAssumption
  <2>3. QED BY <2>2, SlotIsAt
<1>2. QED BY <1>1 DEF Window

\* A window that is not full grows at its end by a slot it does not hold.
LEMMA WindowGrows ==
  ASSUME NEW b \in Index, NEW n \in 0 .. mQSize, n < mQSize
  PROVE  /\ Window(b, n + 1) = Window(b, n) \cup {At(b, n + 1)}
         /\ At(b, n + 1) \notin Window(b, n)
         /\ At(At(b, n + 1), 2) = At(b, n + 2)
<1>1. n \in Nat /\ mQSize \in Nat \ {0} BY QueueAssumption
<1>2. Window(b, n + 1) = Window(b, n) \cup {At(b, n + 1)}
  <2>1. 1 .. (n + 1) = (1 .. n) \cup {n + 1} BY <1>1
  <2>2. QED BY <2>1 DEF Window
<1>3. At(b, n + 1) \notin Window(b, n)
  <2>1. \A k \in 1 .. n : At(b, k) # At(b, n + 1)
    BY <1>1, AtInjective
  <2>2. QED BY <2>1 DEF Window
<1>4. At(At(b, n + 1), 2) = At(b, n + 2)
  BY <1>1 DEF At, Index
<1>5. QED BY <1>2, <1>3, <1>4

\* A window that is not empty shrinks at its start by the slot it starts at.
LEMMA WindowShrinks ==
  ASSUME NEW b \in Index, NEW n \in 1 .. mQSize
  PROVE  /\ At(b, 2) \in Index /\ At(b, 1) = b
         /\ \A k \in 1 .. n : At(At(b, 2), k) = At(b, k + 1)
         /\ Window(b, n) = {b} \cup Window(At(b, 2), n - 1)
         /\ b \notin Window(At(b, 2), n - 1)
<1>1. n \in Nat /\ n - 1 \in Nat /\ mQSize \in Nat \ {0} BY QueueAssumption
<1>2. At(b, 2) \in Index /\ At(b, 1) = b
  BY <1>1 DEF At, Index
<1>3. \A k \in 1 .. n : At(At(b, 2), k) = At(b, k + 1)
  BY <1>1 DEF At, Index
<1>4. \A k \in 2 .. n : At(b, k) = At(At(b, 2), k - 1)
  BY <1>1, <1>3
<1>5. Window(b, n) = {b} \cup Window(At(b, 2), n - 1)
  <2>1. ASSUME NEW i \in Window(b, n)
        PROVE  i \in {b} \cup Window(At(b, 2), n - 1)
    <3>1. PICK k \in 1 .. n : i = At(b, k) BY DEF Window
    <3>2. CASE k = 1 BY <3>1, <3>2, <1>2
    <3>3. CASE k # 1
      <4>1. k \in 2 .. n /\ k - 1 \in 1 .. (n - 1) BY <3>3, <1>1
      <4>2. QED BY <4>1, <3>1, <1>4 DEF Window
    <3>4. QED BY <3>2, <3>3
  <2>2. b \in Window(b, n)
    <3>1. 1 \in 1 .. n BY <1>1
    <3>2. QED BY <3>1, <1>2 DEF Window
  <2>3. ASSUME NEW i \in Window(At(b, 2), n - 1)
        PROVE  i \in Window(b, n)
    <3>1. PICK k \in 1 .. (n - 1) : i = At(At(b, 2), k) BY DEF Window
    <3>2. k \in 1 .. n /\ k + 1 \in 1 .. n BY <1>1
    <3>3. QED BY <3>1, <3>2, <1>3 DEF Window
  <2>4. QED BY <2>1, <2>2, <2>3
<1>6. b \notin Window(At(b, 2), n - 1)
  <2>1. \A k \in 1 .. (n - 1) : At(At(b, 2), k) # b
    <3>1. TAKE k \in 1 .. (n - 1)
    <3>2. k \in 1 .. n /\ k + 1 \in 1 .. mQSize /\ 1 \in 1 .. mQSize /\ k + 1 # 1
      BY <1>1
    <3>3. QED BY <3>2, <1>2, <1>3, AtInjective
  <2>2. QED BY <2>1 DEF Window
<1>7. QED BY <1>2, <1>3, <1>5, <1>6

\* The two ways a buffer is copied or freed keep a slot a slot.
LEMMA SlotOps ==
  ASSUME NEW s \in Slot
  PROVE  /\ Assign(s) \in Slot /\ Freed(s) \in Slot
         /\ Freed(s).mpData = NULL
         /\ s \in Cmd => Assign(s) = s
BY DEF Assign, Freed, Slot, Cmd

\* The ring starts empty, with no buffer in any slot.
LEMMA RingInvInit == Init => RingInv
<1> SUFFICES ASSUME Init PROVE RingInv OBVIOUS
<1>1. TypeOK
  <2>1. EmptyCmd \in Slot
    BY QueueAssumption DEF Slot, EmptyCmd
  <2>2. mFull \in BOOLEAN BY DEF Init
  <2>3. QED BY <2>1, <2>2, QueueAssumption DEF Init, TypeOK, Index
<1>2. RingShape
  <2>1. 0 % mQSize = 0 BY QueueAssumption, Wrap
  <2>2. mTop = (mBottom + mSize) % mQSize BY <2>1 DEF Init
  <2>3. mSize # mQSize BY QueueAssumption DEF Init
  <2>4. ~mFull BY DEF Init
  <2>5. QED BY <2>2, <2>3, <2>4 DEF RingShape
<1>3. Ownership
  BY DEF Init, Ownership, Live, EmptyCmd
<1>4. QED BY <1>1, <1>2, <1>3 DEF RingInv

\* Writing the ring through its window: what RingInv says in those terms.
LEMMA RingInvFacts ==
  ASSUME RingInv
  PROVE  /\ mQSize \in Nat \ {0} /\ mSize \in Nat /\ mSize <= mQSize
         /\ mTop = At(mBottom, mSize + 1)
         /\ Live = Window(mBottom, mSize)
<1>1. mBottom \in Index /\ mSize \in 0 .. mQSize BY DEF RingInv, TypeOK
<1>2. mQSize \in Nat \ {0} /\ mSize \in Nat /\ mSize <= mQSize
  BY <1>1, QueueAssumption
<1>3. mTop = At(mBottom, mSize + 1)
  <2>1. mSize + 1 \in 1 .. mQSize + 1 BY <1>2
  <2>2. (mBottom + (mSize + 1) - 1) % mQSize = At(mBottom, mSize + 1)
    BY <1>1, <2>1, SlotIsAt
  <2>3. mBottom + (mSize + 1) - 1 = mBottom + mSize BY <1>1, <1>2 DEF Index
  <2>4. QED BY <2>2, <2>3 DEF RingInv, RingShape
<1>4. Live = Window(mBottom, mSize)
  BY <1>1, LiveIsWindow DEF Live, SlotOf
<1>5. QED BY <1>2, <1>3, <1>4

\* The same facts read back: an assignment to the ring that matches its window
\* keeps the indexes in step.
LEMMA TopIsAt ==
  ASSUME NEW b \in Index, NEW n \in 0 .. mQSize
  PROVE  (b + n) % mQSize = At(b, n + 1) /\ At(b, n + 1) \in Index
<1>1. n + 1 \in 1 .. mQSize + 1 /\ b + (n + 1) - 1 = b + n
  BY QueueAssumption DEF Index
<1>2. QED BY <1>1, SlotIsAt

\* push() into a free slot keeps the ring: the window grows by that slot.
LEMMA PushStoredKeepsRing ==
  ASSUME RingInv, NEW c \in Cmd, PushStored(c)
  PROVE  RingInv'
<1> USE RingInvFacts
<1>1. mSize < mQSize /\ mSize' = mSize + 1 /\ mSize' \in 0 .. mQSize
  BY DEF RingInv, RingShape, PushStored
<1>2. mBottom' = mBottom /\ mBottom \in Index /\ mTop \in Index
  BY DEF PushStored, RingInv, TypeOK
<1>3. mTop' = At(mBottom, mSize + 2) /\ mTop' \in Index
  <2>1. 1 \in 0 .. mQSize BY QueueAssumption
  <2>2. mTop' = At(mTop, 2) /\ mTop' \in Index
    BY <1>2, <2>1, TopIsAt DEF PushStored
  <2>3. mSize \in 0 .. mQSize BY <1>1
  <2>4. QED BY <2>2, <2>3, <1>1, <1>2, WindowGrows
<1>4. mFull' \in BOOLEAN /\ (mFull' <=> mSize' = mQSize)
  BY DEF PushStored
<1>5. c \in Slot /\ Assign(c) = c
  <2>1. c \in Slot BY DEF Cmd
  <2>2. QED BY <2>1, SlotOps
<1>6. mpQ' = [mpQ EXCEPT ![mTop] = c] /\ mpQ \in [Index -> Slot]
  BY <1>5 DEF PushStored, RingInv, TypeOK
<1>7. TypeOK'
  <2>1. mpQ' \in [Index -> Slot] BY <1>2, <1>5, <1>6
  <2>2. nr_q' \in 0 .. mQSize /\ item' = item BY <1>1 DEF PushStored
  <2>3. QED BY <2>1, <2>2, <1>1, <1>2, <1>3, <1>4 DEF TypeOK, RingInv
<1>8. RingShape'
  <2>1. mTop' = (mBottom' + mSize') % mQSize
    BY <1>1, <1>2, <1>3, TopIsAt
  <2>2. QED BY <2>1, <1>4 DEF RingShape
<1>9. Ownership'
  <2>1. Live' = Live \cup {mTop}
    <3>1. Live' = Window(mBottom, mSize + 1)
      BY <1>1, <1>2, LiveIsWindow DEF Live, SlotOf
    <3>2. mSize \in 0 .. mQSize BY <1>1
    <3>3. QED BY <3>1, <3>2, <1>1, <1>2, WindowGrows
  <2>2. ASSUME NEW i \in Live' PROVE mpQ'[i] \in Cmd
    <3>1. CASE i = mTop BY <3>1, <1>2, <1>6
    <3>2. CASE i # mTop /\ i \in Live
      <4>1. i \in Index
        <5>1. PICK k \in 1 .. mSize : i = SlotOf(k) BY <3>2 DEF Live
        <5>2. k \in 1 .. mQSize + 1 BY <1>1
        <5>3. QED BY <5>1, <5>2, <1>2, SlotIsAt DEF SlotOf
      <4>2. QED BY <4>1, <3>2, <1>6 DEF RingInv, Ownership
    <3>3. QED BY <3>1, <3>2, <2>1
  <2>3. ASSUME NEW i \in Index \ Live' PROVE mpQ'[i].mpData = NULL
    BY <2>1, <2>3, <1>6 DEF RingInv, Ownership
  <2>4. QED BY <2>2, <2>3 DEF Ownership
<1>10. QED BY <1>7, <1>8, <1>9 DEF RingInv

\* pop() of a command keeps the ring: the window shrinks by its first slot.
LEMMA PopStoredKeepsRing ==
  ASSUME RingInv, PopStored
  PROVE  RingInv' /\ item' = mpQ[mBottom]
<1> USE RingInvFacts
<1>1. mSize \in 1 .. mQSize /\ mSize' = mSize - 1 /\ mSize' \in 0 .. mQSize
      /\ mSize' # mQSize
  BY DEF PopStored
<1>2. mBottom \in Index /\ mTop \in Index /\ mTop' = mTop
      /\ mpQ \in [Index -> Slot]
  BY DEF PopStored, RingInv, TypeOK
<1>3. mBottom' = At(mBottom, 2) /\ mBottom' \in Index
  <2>1. 1 \in 0 .. mQSize BY QueueAssumption
  <2>2. QED BY <2>1, <1>2, TopIsAt DEF PopStored
<1>4. ~mFull' /\ mFull' \in BOOLEAN BY DEF PopStored
<1>5. mpQ' = [mpQ EXCEPT ![mBottom] = Freed(mpQ[mBottom])]
  BY DEF PopStored
<1>6. mpQ[mBottom] \in Cmd
  <2>1. mBottom \in Live BY <1>1, <1>2, WindowShrinks
  <2>2. QED BY <2>1 DEF RingInv, Ownership
<1>7. /\ item' = mpQ[mBottom] /\ item' \in Slot
      /\ Freed(mpQ[mBottom]) \in Slot /\ Freed(mpQ[mBottom]).mpData = NULL
  <2>1. mpQ[mBottom] \in Slot BY <1>2
  <2>2. QED BY <2>1, <1>6, SlotOps DEF PopStored
<1>8. TypeOK'
  <2>1. mpQ' \in [Index -> Slot] BY <1>2, <1>5, <1>7
  <2>2. nr_q' = nr_q BY DEF PopStored
  <2>3. QED BY <2>1, <2>2, <1>1, <1>2, <1>3, <1>4, <1>7 DEF TypeOK, RingInv
<1>9. RingShape'
  <2>1. (mBottom' + mSize') % mQSize = At(At(mBottom, 2), mSize)
    BY <1>1, <1>3, TopIsAt
  <2>2. At(At(mBottom, 2), mSize) = mTop BY <1>1, <1>2, WindowShrinks
  <2>3. mTop' = (mBottom' + mSize') % mQSize BY <2>1, <2>2, <1>2
  <2>4. QED BY <2>3, <1>1, <1>4 DEF RingShape
<1>10. Ownership'
  <2>1. Live = {mBottom} \cup Live' /\ mBottom \notin Live'
    <3>1. Live' = Window(At(mBottom, 2), mSize - 1)
      BY <1>1, <1>3, LiveIsWindow DEF Live, SlotOf
    <3>2. QED BY <3>1, <1>1, <1>2, WindowShrinks
  <2>2. ASSUME NEW i \in Live' PROVE mpQ'[i] \in Cmd
    <3>1. i # mBottom /\ i \in Live BY <2>1
    <3>2. PICK k \in 1 .. mSize : i = SlotOf(k) BY <3>1 DEF Live
    <3>3. k \in 1 .. mQSize + 1 BY <1>1
    <3>4. i \in Index BY <3>2, <3>3, <1>2, SlotIsAt DEF SlotOf
    <3>5. QED BY <3>1, <3>4, <1>2, <1>5 DEF RingInv, Ownership
  <2>3. ASSUME NEW i \in Index \ Live' PROVE mpQ'[i].mpData = NULL
    <3>1. CASE i = mBottom BY <3>1, <1>2, <1>5, <1>7
    <3>2. CASE i # mBottom
      BY <3>2, <2>1, <2>3, <1>2, <1>5 DEF RingInv, Ownership
    <3>3. QED BY <3>1, <3>2
  <2>4. QED BY <2>2, <2>3 DEF Ownership
<1>11. QED BY <1>7, <1>8, <1>9, <1>10 DEF RingInv

\* clear() leaves an empty ring with no buffer.
LEMMA ClearKeepsRing ==
  ASSUME RingInv, Clear
  PROVE  RingInv'
<1>1. \A i \in Index : mpQ'[i] \in Slot /\ mpQ'[i].mpData = NULL
  BY SlotOps DEF Clear, RingInv, TypeOK
<1>2. 0 \in Index /\ 0 \in 0 .. mQSize /\ 0 % mQSize = 0 /\ 0 # mQSize
  BY QueueAssumption, Wrap DEF Index
<1>3. ~mFull' /\ mFull' \in BOOLEAN BY DEF Clear
<1>4. TypeOK'
  <2>1. mpQ' \in [Index -> Slot] BY <1>1 DEF Clear
  <2>2. QED BY <2>1, <1>2, <1>3 DEF Clear, RingInv, TypeOK
<1>5. RingShape' BY <1>2, <1>3 DEF Clear, RingShape
<1>6. Ownership'
  <2>1. Live' = {} BY DEF Clear, Live
  <2>2. QED BY <2>1, <1>1 DEF Ownership
<1>7. QED BY <1>4, <1>5, <1>6 DEF RingInv

\* The calls that change no slot keep the ring.
LEMMA OthersKeepRing ==
  ASSUME RingInv, PushFull \/ PopEmpty \/ UNCHANGED vars
  PROVE  RingInv'
<1>1. /\ UNCHANGED <<mBottom, mTop, mSize, mFull, mpQ>>
      /\ nr_q' \in 0 .. mQSize /\ item' \in Slot \cup {NULL}
  BY QueueAssumption DEF PushFull, PopEmpty, vars, RingInv, TypeOK
<1>2. TypeOK' BY <1>1 DEF RingInv, TypeOK
<1>3. RingShape' BY <1>1 DEF RingInv, RingShape
<1>4. Ownership' BY <1>1 DEF RingInv, Ownership, Live, SlotOf
<1>5. QED BY <1>2, <1>3, <1>4 DEF RingInv

\* Every call keeps the ring.
LEMMA RingInvNext == RingInv /\ [Next]_vars => RingInv'
BY PushStoredKeepsRing, PopStoredKeepsRing, ClearKeepsRing, OthersKeepRing
   DEF Next

\* TypeOK is an invariant: the indexes stay inside the ring and the count
\* between 0 and mQSize, whatever the order of calls.
THEOREM TypeCorrect == Spec => []TypeOK
BY RingInvInit, RingInvNext, PTL DEF Spec, RingInv

\* RingShape is an invariant: mBottom, mTop, mSize and mFull always agree.
THEOREM RingShapeCorrect == Spec => []RingShape
BY RingInvInit, RingInvNext, PTL DEF Spec, RingInv

\* Ownership is an invariant: queued commands are whole and free slots own no
\* buffer.
THEOREM OwnershipCorrect == Spec => []Ownership
BY RingInvInit, RingInvNext, PTL DEF Spec, RingInv

\* Append and Tail as the functions they are.
LEMMA AppendIs ==
  ASSUME NEW S, NEW s \in Seq(S), NEW e \in S
  PROVE  Append(s, e) = [k \in 1 .. Len(s) + 1 |->
                           IF k = Len(s) + 1 THEN e ELSE s[k]]
<1>1. Append(s, e) \in [1 .. Len(s) + 1 -> S]
  BY AppendProperties, LenProperties
<1>2. \A k \in 1 .. Len(s) + 1 :
        Append(s, e)[k] = IF k = Len(s) + 1 THEN e ELSE s[k]
  BY AppendProperties, LenProperties
<1>3. QED BY <1>1, <1>2

\* The tail of a sequence, place by place.
LEMMA TailIs ==
  ASSUME NEW S, NEW s \in Seq(S), s # <<>>
  PROVE  Tail(s) = [k \in 1 .. (Len(s) - 1) |-> s[k + 1]]
<1>1. Tail(s) \in [1 .. (Len(s) - 1) -> S]
  BY HeadTailProperties, LenProperties
<1>2. \A k \in 1 .. (Len(s) - 1) : Tail(s)[k] = s[k + 1]
  BY HeadTailProperties
<1>3. QED BY <1>1, <1>2

\* A slot of the window, read through Contents.
LEMMA ContentsFacts ==
  ASSUME RingInv
  PROVE  /\ DOMAIN Contents = 1 .. mSize /\ Len(Contents) = mSize
         /\ Contents \in Seq(Cmd)
         /\ \A k \in 1 .. mSize : /\ Contents[k] = mpQ[At(mBottom, k)]
                                 /\ At(mBottom, k) \in Live
                                 /\ At(mBottom, k) \in Index
<1> USE RingInvFacts
<1>1. mBottom \in Index /\ mSize \in 0 .. mQSize BY DEF RingInv, TypeOK
<1>2. \A k \in 1 .. mSize : /\ SlotOf(k) = At(mBottom, k)
                           /\ At(mBottom, k) \in Index
  <2>1. TAKE k \in 1 .. mSize
  <2>2. k \in 1 .. mQSize + 1 BY <1>1, QueueAssumption
  <2>3. QED BY <2>2, <1>1, SlotIsAt DEF SlotOf
<1>3. \A k \in 1 .. mSize : /\ Contents[k] = mpQ[At(mBottom, k)]
                           /\ At(mBottom, k) \in Live
                           /\ At(mBottom, k) \in Index
  BY <1>2 DEF Contents, Live
<1>4. \A k \in 1 .. mSize : Contents[k] \in Cmd
  BY <1>3 DEF RingInv, Ownership
<1>5. Contents = [k \in 1 .. mSize |-> Contents[k]] BY DEF Contents
<1>6. Contents \in Seq(Cmd) /\ DOMAIN Contents = 1 .. mSize
      /\ Len(Contents) = mSize
  BY <1>4, <1>5
<1>7. QED BY <1>3, <1>6

\* A stored push appends the command to the contents.
LEMMA PushStoredAppends ==
  ASSUME RingInv, NEW c \in Cmd, PushStored(c)
  PROVE  Fifo!FifoPush(c)
<1> USE RingInvFacts, ContentsFacts
<1>1. mSize < mQSize /\ mSize' = mSize + 1 /\ mBottom' = mBottom
      /\ mBottom \in Index /\ mTop \in Index /\ mpQ \in [Index -> Slot]
      /\ mSize \in 0 .. mQSize
  BY DEF RingInv, RingShape, TypeOK, PushStored
<1>2. mpQ' = [mpQ EXCEPT ![mTop] = c]
  <2>1. c \in Slot BY DEF Cmd
  <2>2. QED BY <2>1, SlotOps DEF PushStored
<1>3. mTop \notin Live BY <1>1, WindowGrows
<1>4. \A k \in 1 .. mSize + 1 : mpQ'[(mBottom + k - 1) % mQSize]
                              = IF k = mSize + 1 THEN c ELSE Contents[k]
  <2>1. TAKE k \in 1 .. mSize + 1
  <2>2. (mBottom + k - 1) % mQSize = At(mBottom, k)
    <3>1. k \in 1 .. mQSize + 1 BY <1>1
    <3>2. QED BY <3>1, <1>1, SlotIsAt
  <2>3. CASE k = mSize + 1 BY <2>2, <2>3, <1>1, <1>2
  <2>4. CASE k # mSize + 1
    <3>1. k \in 1 .. mSize BY <2>4
    <3>2. At(mBottom, k) # mTop /\ At(mBottom, k) \in Index BY <3>1, <1>3
    <3>3. mpQ'[At(mBottom, k)] = Contents[k] BY <3>1, <3>2, <1>1, <1>2
    <3>4. QED BY <3>3, <2>2, <2>4
  <2>5. QED BY <2>3, <2>4
<1>5. Contents' = Append(Contents, c)
  <2>1. Contents' = [k \in 1 .. mSize + 1 |->
                       IF k = mSize + 1 THEN c ELSE Contents[k]]
    BY <1>1, <1>4 DEF Contents, SlotOf
  <2>2. QED BY <2>1, AppendIs
<1>6. Len(Contents) # mQSize /\ Len(Contents') = mSize + 1
  BY <1>1, <1>5
<1>7. nr_q' = Len(Contents') /\ item' = item BY <1>6, <1>1 DEF PushStored
<1>8. QED BY <1>5, <1>6, <1>7 DEF Fifo!FifoPush

\* A pop of a command returns and removes the first of the contents.
LEMMA PopStoredTakesHead ==
  ASSUME RingInv, PopStored
  PROVE  Fifo!FifoPop
<1> USE RingInvFacts, ContentsFacts
<1>1. mSize \in 1 .. mQSize /\ mSize' = mSize - 1 /\ nr_q' = nr_q
      /\ mBottom \in Index /\ mpQ \in [Index -> Slot]
      /\ mpQ' = [mpQ EXCEPT ![mBottom] = Freed(mpQ[mBottom])]
  BY DEF PopStored, RingInv, TypeOK
<1>2. mBottom' = At(mBottom, 2) /\ At(mBottom, 2) \in Index
      /\ At(mBottom, 1) = mBottom
  <2>1. 1 \in 0 .. mQSize BY QueueAssumption
  <2>2. QED BY <2>1, <1>1, TopIsAt, WindowShrinks DEF PopStored
<1>3. \A k \in 1 .. (mSize - 1) :
        mpQ'[(mBottom' + k - 1) % mQSize] = Contents[k + 1]
  <2>1. TAKE k \in 1 .. (mSize - 1)
  <2>2. k \in 1 .. mSize /\ k + 1 \in 1 .. mSize /\ k \in 1 .. mQSize + 1
        /\ k + 1 \in 1 .. mQSize /\ 1 \in 1 .. mQSize /\ k + 1 # 1
    BY <1>1
  <2>3. (mBottom' + k - 1) % mQSize = At(mBottom, k + 1)
    BY <2>2, <1>1, <1>2, SlotIsAt, WindowShrinks
  <2>4. At(mBottom, k + 1) # mBottom /\ At(mBottom, k + 1) \in Index
    BY <2>2, <1>1, <1>2, AtInjective
  <2>5. QED BY <2>2, <2>3, <2>4, <1>1
<1>4. Contents' = Tail(Contents)
  <2>1. Contents' = [k \in 1 .. (mSize - 1) |-> Contents[k + 1]]
    <3>1. Contents' = [k \in 1 .. mSize' |-> mpQ'[(mBottom' + k - 1) % mQSize]]
      BY DEF Contents, SlotOf
    <3>2. QED BY <3>1, <1>1, <1>3
  <2>2. Contents # <<>> BY <1>1
  <2>3. QED BY <2>1, <2>2, TailIs
<1>5. item' = Head(Contents)
  <2>1. item' = mpQ[mBottom] BY PopStoredKeepsRing
  <2>2. 1 \in 1 .. mSize BY <1>1
  <2>3. Contents[1] = mpQ[mBottom] BY <2>2, <1>2
  <2>4. Head(Contents) = Contents[1] BY <1>1
  <2>5. QED BY <2>1, <2>3, <2>4
<1>6. Contents # <<>> BY <1>1
<1>7. QED BY <1>1, <1>4, <1>5, <1>6 DEF Fifo!FifoPop

\* Each call is a step of the bounded FIFO.
LEMMA StepSimulation ==
  ASSUME RingInv, [Next]_vars
  PROVE  [Fifo!FifoNext]_(Fifo!fifoVars)
<1>1. ASSUME PushFull PROVE \E c \in Cmd : Fifo!FifoPush(c)
  <2>1. EmptyCmd \in Cmd
    BY QueueAssumption DEF EmptyCmd, Cmd, Slot
  <2>2. Contents' = Contents BY <1>1 DEF PushFull, Contents, SlotOf
  <2>3. mSize = mQSize BY <1>1 DEF PushFull, RingInv, RingShape
  <2>4. Len(Contents) = mQSize /\ nr_q' = mQSize /\ item' = item
    BY <1>1, <2>3, ContentsFacts DEF PushFull
  <2>5. Fifo!FifoPush(EmptyCmd) BY <2>2, <2>4 DEF Fifo!FifoPush
  <2>6. QED BY <2>1, <2>5
<1>2. ASSUME PopEmpty PROVE Fifo!FifoPop
  <2>1. Contents' = Contents BY <1>2 DEF PopEmpty, Contents, SlotOf
  <2>2. mSize = 0 /\ item' = NULL /\ nr_q' = nr_q BY <1>2 DEF PopEmpty
  <2>3. Contents = <<>> BY <2>2, ContentsFacts
  <2>4. QED BY <2>1, <2>2, <2>3 DEF Fifo!FifoPop
<1>3. ASSUME Clear PROVE Fifo!FifoClear
  <2>1. Contents' = <<>> BY <1>3 DEF Clear, Contents
  <2>2. QED BY <1>3, <2>1 DEF Clear, Fifo!FifoClear
<1>4. ASSUME UNCHANGED vars PROVE UNCHANGED Fifo!fifoVars
  BY <1>4 DEF vars, Fifo!fifoVars, Contents, SlotOf
<1>5. QED
  BY <1>1, <1>2, <1>3, <1>4, PushStoredAppends, PopStoredTakesHead
     DEF Next, Fifo!FifoNext

\* The ring implements the bounded FIFO: through any wrap of the indexes the
\* dispatching thread gets the commands in the order they were accepted.
THEOREM RingImplementsFifo == Spec => RefinesFifo
<1>1. Init => Fifo!FifoInit
  <2> SUFFICES ASSUME Init PROVE Fifo!FifoInit OBVIOUS
  <2>1. Contents = <<>> BY DEF Init, Contents
  <2>2. QED BY <2>1 DEF Init, Fifo!FifoInit
<1>2. RingInv /\ [Next]_vars => [Fifo!FifoNext]_(Fifo!fifoVars)
  BY StepSimulation
<1>3. QED
  BY <1>1, <1>2, RingInvInit, RingInvNext, PTL
     DEF Spec, RefinesFifo, Fifo!FifoSpec

-----------------------------------------------------------------------------
(* The stack.                                                              *)

StackInv == StackTypeOK /\ StackOwnership

\* The state of a new stack.
LEMMA StackStarts == ASSUME Init PROVE StackInv
<1>1. EmptyCmd \in Slot /\ EmptyCmd.mpData = NULL
  BY QueueAssumption DEF EmptyCmd, Slot
<1>2. \A i \in Index : mpQ[i] = EmptyCmd
  BY DEF Init
<1>3. mpQ \in [Index -> Slot]
  BY <1>1 DEF Init
<1>4. /\ mTop = 0 /\ mSize = 0 /\ mBottom = 0 /\ nr_q = 0
      /\ mFull = FALSE /\ item = NULL
  BY DEF Init
<1>5. 0 \in Index /\ 0 \in 0 .. mQSize /\ 0 # mQSize
  BY QueueAssumption DEF Index
<1>6. mFull \in BOOLEAN /\ (mFull <=> mSize = mQSize)
  BY <1>4, <1>5
<1>7. StackTypeOK
  BY <1>3, <1>4, <1>5, <1>6 DEF StackTypeOK
<1>8. \A i \in Index : ~(i < mTop) /\ mpQ[i].mpData = NULL
  BY <1>1, <1>2, <1>4, QueueAssumption DEF Index
<1>9. QED
  BY <1>4, <1>6, <1>7, <1>8 DEF StackInv, StackOwnership

\* A push fills the slot at mTop, the first that owns no buffer.
LEMMA StackPushKeeps ==
  ASSUME StackInv, NEW c \in Cmd, StackPush(c)
  PROVE  StackInv'
<1> USE QueueAssumption
<1>1. mTop \in Index /\ mTop = mSize /\ mSize # mQSize
  BY DEF StackInv, StackTypeOK, StackOwnership, StackPush, Index
<1>2. Assign(c) \in Slot /\ Assign(c) \in Cmd
  BY SlotOps DEF Cmd
<1>3. mpQ' = [mpQ EXCEPT ![mTop] = Assign(c)] /\ mpQ \in [Index -> Slot]
  BY DEF StackPush, StackInv, StackTypeOK
<1>4. mTop' = mTop + 1 /\ mSize' = mSize + 1 /\ mBottom' = mBottom
      /\ item' = item /\ nr_q' = mSize'
  BY DEF StackPush
<1>5. mFull' <=> mSize' = mQSize
  BY DEF StackPush
<1>6. mFull' \in BOOLEAN
  BY DEF StackPush
<1>7. StackTypeOK'
  BY <1>1, <1>2, <1>3, <1>4, <1>6 DEF StackInv, StackTypeOK, Index
<1>8. \A i \in Index : IF i < mTop' THEN mpQ'[i] \in Cmd ELSE mpQ'[i].mpData = NULL
  <2>1. TAKE i \in Index
  <2>2. CASE i = mTop
    BY <2>2, <1>1, <1>2, <1>3, <1>4 DEF Index
  <2>3. CASE i # mTop
    <3>1. mpQ'[i] = mpQ[i] /\ (i < mTop' <=> i < mTop)
      BY <2>3, <1>1, <1>3, <1>4 DEF Index
    <3>2. QED
      BY <3>1 DEF StackInv, StackOwnership
  <2>4. QED
    BY <2>2, <2>3
<1>9. QED
  BY <1>1, <1>4, <1>5, <1>7, <1>8 DEF StackInv, StackOwnership

\* A pop empties the slot below mTop, which held a whole command.
LEMMA StackPopKeeps ==
  ASSUME StackInv, StackPop
  PROVE  StackInv'
<1> USE QueueAssumption
<1> DEFINE k == mTop - 1
<1>1. k \in Index /\ mTop = mSize /\ mSize \in 1 .. mQSize
  BY DEF StackInv, StackTypeOK, StackOwnership, StackPop, Index
<1>2. /\ mTop' = k /\ mSize' = k /\ mFull' = FALSE
      /\ mpQ' = [mpQ EXCEPT ![k] = Freed(mpQ[k])] /\ item' = Assign(mpQ[k])
      /\ mBottom' = mBottom /\ nr_q' = nr_q
  BY <1>1 DEF StackPop
<1>3. mpQ \in [Index -> Slot] /\ mpQ[k] \in Slot
  BY <1>1 DEF StackInv, StackTypeOK
<1>4. /\ Assign(mpQ[k]) \in Slot /\ Freed(mpQ[k]) \in Slot
      /\ Freed(mpQ[k]).mpData = NULL
  BY <1>3, SlotOps
<1>5. StackTypeOK'
  <2>1. mpQ' \in [Index -> Slot] /\ item' \in Slot \cup {NULL}
    BY <1>2, <1>3, <1>4
  <2>2. k \in 0 .. mQSize
    BY <1>1 DEF Index
  <2>3. mFull' \in BOOLEAN
    BY <1>2
  <2>4. mBottom \in Index /\ nr_q \in 0 .. mQSize
    BY DEF StackInv, StackTypeOK
  <2>5. mTop' \in 0 .. mQSize /\ mSize' \in 0 .. mQSize
    BY <1>2, <2>2
  <2>6. mBottom' \in Index /\ nr_q' \in 0 .. mQSize
    BY <1>2, <2>4
  <2>7. QED
    BY <2>1, <2>3, <2>5, <2>6 DEF StackTypeOK, Index
<1>6. \A i \in Index : IF i < mTop' THEN mpQ'[i] \in Cmd ELSE mpQ'[i].mpData = NULL
  <2>1. TAKE i \in Index
  <2>2. CASE i = k
    BY <2>2, <1>1, <1>2, <1>3, <1>4 DEF Index
  <2>3. CASE i # k
    <3>1. mpQ'[i] = mpQ[i] /\ (i < mTop' <=> i < mTop)
      BY <2>3, <1>1, <1>2, <1>3 DEF Index
    <3>2. QED
      BY <3>1 DEF StackInv, StackOwnership
  <2>4. QED
    BY <2>2, <2>3
<1>7. mSize' # mQSize /\ mTop' = mSize'
  BY <1>1, <1>2
<1>8. QED
  BY <1>2, <1>5, <1>6, <1>7 DEF StackInv, StackOwnership

\* An emptied stack is in order whatever it held.
LEMMA EmptiedKeeps ==
  ASSUME StackInv, Emptied, UNCHANGED nr_q, item' \in Slot \cup {NULL}
  PROVE  StackInv'
<1> USE QueueAssumption
<1>1. \A i \in Index : mpQ'[i] \in Slot /\ mpQ'[i].mpData = NULL
  BY SlotOps DEF Emptied, StackInv, StackTypeOK
<1>2. mpQ' \in [Index -> Slot]
  BY <1>1 DEF Emptied
<1>3. StackTypeOK'
  <2>1. 0 \in Index /\ 0 \in 0 .. mQSize
    BY DEF Index
  <2>2. mFull' \in BOOLEAN
    BY DEF Emptied
  <2>3. nr_q' \in 0 .. mQSize
    BY DEF StackInv, StackTypeOK
  <2>4. mBottom' \in Index /\ mTop' \in 0 .. mQSize /\ mSize' \in 0 .. mQSize
    BY <2>1 DEF Emptied
  <2>5. QED
    BY <1>2, <2>2, <2>3, <2>4 DEF StackTypeOK, Index
<1>4. StackOwnership'
  BY <1>1 DEF Emptied, StackOwnership, Index
<1>5. QED
  BY <1>3, <1>4 DEF StackInv

\* Every call, and every stutter, keeps the invariant.
LEMMA StackNextKeeps ==
  ASSUME StackInv, [StackNext]_vars
  PROVE  StackInv'
<1> USE QueueAssumption
<1>1. CASE PushFull
  BY <1>1 DEF PushFull, StackInv, StackTypeOK, StackOwnership
<1>2. CASE \E c \in Cmd : StackPush(c)
  BY <1>2, StackPushKeeps
<1>3. CASE PopEmpty
  BY <1>3 DEF PopEmpty, StackInv, StackTypeOK, StackOwnership
<1>4. CASE StackPop
  BY <1>4, StackPopKeeps
<1>5. CASE PopClear
  <2>1. item' \in Slot \cup {NULL}
    <3>1. CASE mSize = 0
      BY <1>5, <3>1 DEF PopClear
    <3>2. CASE mSize # 0
      <4>1. mTop - 1 \in Index
        BY <3>2 DEF StackInv, StackTypeOK, StackOwnership, Index
      <4>2. mpQ[mTop - 1] \in Slot
        BY <4>1 DEF StackInv, StackTypeOK
      <4>3. QED
        BY <1>5, <3>2, <4>2, SlotOps DEF PopClear
    <3>3. QED
      BY <3>1, <3>2
  <2>2. QED
    BY <1>5, <2>1, EmptiedKeeps DEF PopClear
<1>6. CASE StackClear
  BY <1>6, EmptiedKeeps DEF StackClear, StackInv, StackTypeOK
<1>7. CASE UNCHANGED vars
  BY <1>7 DEF vars, StackInv, StackTypeOK, StackOwnership
<1>8. QED
  BY <1>1, <1>2, <1>3, <1>4, <1>5, <1>6, <1>7 DEF StackNext

\* Through every sequence of push(), pop(), popclear() and clear(), mTop counts
\* the commands and exactly the slots below it own buffers.
THEOREM StackOwnershipCorrect == StackSpec => []StackOwnership
<1>1. Init => StackInv
  BY StackStarts
<1>2. StackInv /\ [StackNext]_vars => StackInv'
  BY StackNextKeeps
<1>3. StackInv => StackOwnership
  BY DEF StackInv
<1>4. QED
  BY <1>1, <1>2, <1>3, PTL DEF StackSpec

-----------------------------------------------------------------------------
(* The stack as a sequence, and its calls as steps of CmdLifo.             *)

LEMMA StackedFacts ==
  ASSUME StackInv
  PROVE  /\ Stacked \in Seq(Cmd) /\ Len(Stacked) = mSize
         /\ \A k \in 1 .. mSize : Stacked[k] = mpQ[k - 1] /\ k - 1 \in Index
         /\ mSize \in 0 .. mQSize
<1>1. mSize \in 0 .. mQSize /\ mTop = mSize
  BY DEF StackInv, StackTypeOK, StackOwnership
<1>2. \A k \in 1 .. mSize : k - 1 \in Index /\ k - 1 < mTop
  BY <1>1, QueueAssumption DEF Index
<1>3. \A k \in 1 .. mSize : mpQ[k - 1] \in Cmd
  BY <1>2 DEF StackInv, StackOwnership
<1>4. QED
  BY <1>1, <1>2, <1>3 DEF Stacked

\* A push puts the command behind the others.
LEMMA StackPushAppends ==
  ASSUME StackInv, NEW c \in Cmd, StackPush(c)
  PROVE  Lifo!LifoPush(c)
<1> USE StackedFacts, QueueAssumption
<1>1. /\ mSize' = mSize + 1 /\ mTop = mSize /\ mSize < mQSize
      /\ nr_q' = mSize' /\ item' = item
  BY DEF StackInv, StackOwnership, StackPush
<1>2. mpQ' = [mpQ EXCEPT ![mSize] = c] /\ mpQ \in [Index -> Slot]
  <2>1. c \in Slot BY DEF Cmd
  <2>2. QED BY <2>1, <1>1, SlotOps DEF StackPush, StackInv, StackTypeOK
<1>3. \A k \in 1 .. mSize + 1 :
        mpQ'[k - 1] = IF k = mSize + 1 THEN c ELSE Stacked[k]
  <2>1. TAKE k \in 1 .. mSize + 1
  <2>2. CASE k = mSize + 1
    <3>1. k - 1 = mSize /\ mSize \in Index BY <2>2, <1>1 DEF Index
    <3>2. QED BY <3>1, <2>2, <1>2
  <2>3. CASE k # mSize + 1
    <3>1. k \in 1 .. mSize /\ k - 1 # mSize BY <2>3
    <3>2. QED BY <3>1, <2>3, <1>2
  <2>4. QED BY <2>2, <2>3
<1>4. Stacked' = [k \in 1 .. mSize + 1 |->
                    IF k = mSize + 1 THEN c ELSE Stacked[k]]
  BY <1>1, <1>3 DEF Stacked
<1>5. Stacked' = Append(Stacked, c)
  BY <1>4, AppendIs
<1>6. Len(Stacked) # mQSize /\ Len(Stacked') = mSize + 1
  BY <1>1, <1>5
<1>7. QED
  BY <1>1, <1>5, <1>6 DEF Lifo!LifoPush

\* What a pop or a popclear returns is the newest command.
LEMMA TopIsNewest ==
  ASSUME StackInv, mSize # 0
  PROVE  /\ Assign(mpQ[mTop - 1]) = Stacked[Len(Stacked)]
         /\ Stacked # <<>>
<1> USE StackedFacts
<1>1. mTop = mSize /\ mSize \in 1 .. mSize
  BY DEF StackInv, StackOwnership
<1>2. Stacked[mSize] = mpQ[mTop - 1] /\ Stacked[mSize] \in Cmd
  BY <1>1
<1>3. Assign(mpQ[mTop - 1]) = mpQ[mTop - 1]
  <2>1. mpQ[mTop - 1] \in Cmd /\ mpQ[mTop - 1] \in Slot
    BY <1>2 DEF Cmd
  <2>2. QED BY <2>1, SlotOps
<1>4. QED
  BY <1>1, <1>2, <1>3

\* A pop takes the newest command.
LEMMA StackPopTakesNewest ==
  ASSUME StackInv, StackPop
  PROVE  Lifo!LifoPop
<1> USE StackedFacts
<1>1. /\ mSize # 0 /\ mTop = mSize /\ mSize' = mSize - 1
      /\ mTop' = mTop - 1 /\ nr_q' = nr_q /\ mpQ \in [Index -> Slot]
      /\ item' = Assign(mpQ[mTop']) /\ mpQ' = [mpQ EXCEPT ![mTop'] = Freed(@)]
  BY DEF StackInv, StackTypeOK, StackOwnership, StackPop
<1>2. \A k \in 1 .. mSize - 1 : mpQ'[k - 1] = Stacked[k]
  <2>1. TAKE k \in 1 .. mSize - 1
  <2>2. k \in 1 .. mSize /\ k - 1 # mTop' BY <1>1
  <2>3. QED BY <2>2, <1>1
<1>3. Stacked' = [k \in 1 .. mSize - 1 |-> Stacked[k]]
  BY <1>1, <1>2 DEF Stacked
<1>4. SubSeq(Stacked, 1, Len(Stacked) - 1) = [k \in 1 .. mSize - 1 |-> Stacked[k]]
  OBVIOUS
<1>5. Stacked' = SubSeq(Stacked, 1, Len(Stacked) - 1)
  BY <1>3, <1>4
<1>6. item' = Stacked[Len(Stacked)] /\ Stacked # <<>>
  BY <1>1, TopIsNewest
<1>7. QED
  BY <1>1, <1>5, <1>6 DEF Lifo!LifoPop, Lifo!Newest

\* popclear() returns the newest command and leaves nothing.
LEMMA PopClearTakesNewest ==
  ASSUME StackInv, PopClear
  PROVE  Lifo!LifoPopClear
<1>1. Stacked' = <<>> /\ nr_q' = nr_q
  BY DEF PopClear, Emptied, Stacked
<1>2. CASE mSize = 0
  <2>1. Stacked = <<>> BY <1>2, StackedFacts
  <2>2. item' = NULL BY <1>2 DEF PopClear
  <2>3. QED BY <1>1, <2>1, <2>2 DEF Lifo!LifoPopClear, Lifo!Newest
<1>3. CASE mSize # 0
  <2>1. item' = Stacked[Len(Stacked)] /\ Stacked # <<>>
    BY <1>3, TopIsNewest DEF PopClear
  <2>2. QED BY <1>1, <2>1 DEF Lifo!LifoPopClear, Lifo!Newest
<1>4. QED BY <1>2, <1>3

\* Each call is a step of the bounded LIFO.
LEMMA StackStepSimulation ==
  ASSUME StackInv, [StackNext]_vars
  PROVE  [Lifo!LifoNext]_(Lifo!lifoVars)
<1>1. ASSUME PushFull PROVE \E c \in Cmd : Lifo!LifoPush(c)
  <2>1. EmptyCmd \in Cmd
    BY QueueAssumption DEF EmptyCmd, Cmd, Slot
  <2>2. Stacked' = Stacked BY <1>1 DEF PushFull, Stacked
  <2>3. mSize = mQSize BY <1>1 DEF PushFull, StackInv, StackOwnership
  <2>4. Len(Stacked) = mQSize /\ nr_q' = mQSize /\ item' = item
    BY <1>1, <2>3, StackedFacts DEF PushFull
  <2>5. Lifo!LifoPush(EmptyCmd) BY <2>2, <2>4 DEF Lifo!LifoPush
  <2>6. QED BY <2>1, <2>5
<1>2. ASSUME PopEmpty PROVE Lifo!LifoPop
  <2>1. Stacked' = Stacked BY <1>2 DEF PopEmpty, Stacked
  <2>2. mSize = 0 /\ item' = NULL /\ nr_q' = nr_q BY <1>2 DEF PopEmpty
  <2>3. Stacked = <<>> BY <2>2, StackedFacts
  <2>4. QED BY <2>1, <2>2, <2>3 DEF Lifo!LifoPop, Lifo!Newest
<1>3. ASSUME StackClear PROVE Lifo!LifoClear
  <2>1. Stacked' = <<>> BY <1>3 DEF StackClear, Emptied, Stacked
  <2>2. QED BY <1>3, <2>1 DEF StackClear, Lifo!LifoClear
<1>4. ASSUME UNCHANGED vars PROVE UNCHANGED Lifo!lifoVars
  BY <1>4 DEF vars, Lifo!lifoVars, Stacked
<1>5. QED
  BY <1>1, <1>2, <1>3, <1>4, StackPushAppends, StackPopTakesNewest,
     PopClearTakesNewest
     DEF StackNext, Lifo!LifoNext

\* NBUS_CMD_STACK implements the bounded LIFO: whatever is pushed, popped and
\* cleared in between, a reader gets the newest command there is.
THEOREM StackImplementsLifo == StackSpec => RefinesLifo
<1>1. Init => Lifo!LifoInit
  <2> SUFFICES ASSUME Init PROVE Lifo!LifoInit OBVIOUS
  <2>1. Stacked = <<>> BY DEF Init, Stacked
  <2>2. QED BY <2>1 DEF Init, Lifo!LifoInit
<1>2. StackInv /\ [StackNext]_vars => [Lifo!LifoNext]_(Lifo!lifoVars)
  BY StackStepSimulation
<1>3. Init => StackInv
  BY StackStarts
<1>4. StackInv /\ [StackNext]_vars => StackInv'
  BY StackNextKeeps
<1>5. QED
  BY <1>1, <1>2, <1>3, <1>4, PTL
     DEF StackSpec, RefinesLifo, Lifo!LifoSpec
=============================================================================
