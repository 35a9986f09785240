------------------------------ MODULE CmdQueue ------------------------------
(***************************************************************************)
(* NBUS_CMD_QUEUE (service/Queue.cpp, include/Types.h): the bounded ring   *)
(* of commands between the receiving thread of a node and the thread that  *)
(* dispatches them.  Every method holds mMutex for its whole body, so each *)
(* is one step.  A slot keeps mType and mLength of the last command it     *)
(* held; pop() and clear() free only its buffer.                           *)
(***************************************************************************)
EXTENDS Integers, Sequences

CONSTANTS mQSize,       \* the slots of the ring
          Type,         \* message types (mType)
          NONE_MESSAGE, \* the type of a command nobody filled in
          Payload,      \* buffers a command may own
          NULL          \* no buffer, and no command

ASSUME QueueAssumption ==
  /\ mQSize \in Nat \ {0}
  /\ NONE_MESSAGE \in Type
  /\ NULL \notin Payload

VARIABLES mBottom, mTop, mSize, mFull,
          mpQ,          \* the slots
          nr_q,         \* what the last push() returned
          item          \* what the last pop() returned

vars == <<mBottom, mTop, mSize, mFull, mpQ, nr_q, item>>

Index == 0 .. mQSize - 1

\* mLength is 0 for no bytes and 1 for some.
Slot == [mType : Type, mLength : {0, 1}, mpData : Payload \cup {NULL}]

\* The commands callers build: a buffer exactly when there are bytes.
Cmd == {c \in Slot : (c.mLength = 0) = (c.mpData = NULL)}

\* NBUS_CMD::operator=: the target gets its own copy of the buffer when the
\* source claims bytes.  Copying bytes from no buffer is undefined; it stays
\* visible here as a copy with bytes and no buffer, which is no Cmd.
Assign(c) == [c EXCEPT !.mpData = IF c.mLength = 0 THEN NULL ELSE c.mpData]

Freed(s) == [s EXCEPT !.mpData = NULL]

EmptyCmd == [mType |-> NONE_MESSAGE, mLength |-> 0, mpData |-> NULL]

Init ==
  /\ mBottom = 0
  /\ mTop = 0
  /\ mSize = 0
  /\ mFull = FALSE
  /\ mpQ = [i \in Index |-> EmptyCmd]
  /\ nr_q = 0
  /\ item = NULL

\* push() on a full ring drops the command and returns the capacity.
PushFull ==
  /\ mFull
  /\ nr_q' = mQSize
  /\ UNCHANGED <<mBottom, mTop, mSize, mFull, mpQ, item>>

PushStored(c) ==
  /\ ~mFull
  /\ mpQ' = [mpQ EXCEPT ![mTop] = Assign(c)]
  /\ mTop' = (mTop + 1) % mQSize
  /\ mSize' = mSize + 1
  /\ nr_q' = mSize'
  /\ mFull' = (mSize' = mQSize)
  /\ UNCHANGED <<mBottom, item>>

PopEmpty ==
  /\ mSize = 0
  /\ item' = NULL
  /\ UNCHANGED <<mBottom, mTop, mSize, mFull, mpQ, nr_q>>

\* Mutant of PopStored: the buffer is freed before it is copied.
PopStoredFreedFirst ==
  /\ mSize # 0
  /\ item' = Freed(mpQ[mBottom])
  /\ mpQ' = [mpQ EXCEPT ![mBottom] = Freed(@)]
  /\ mBottom' = (mBottom + 1) % mQSize
  /\ mSize' = mSize - 1
  /\ mFull' = FALSE
  /\ UNCHANGED <<mTop, nr_q>>

PopStored ==
  /\ mSize # 0
  /\ item' = Assign(mpQ[mBottom])
  /\ mpQ' = [mpQ EXCEPT ![mBottom] = Freed(@)]
  /\ mBottom' = (mBottom + 1) % mQSize
  /\ mSize' = mSize - 1
  /\ mFull' = FALSE
  /\ UNCHANGED <<mTop, nr_q>>

\* Mutant of Clear: the indexes are reset and the buffers kept.
ClearKeepsBuffers ==
  /\ mSize' = 0
  /\ mTop' = 0
  /\ mBottom' = 0
  /\ mFull' = FALSE
  /\ UNCHANGED <<mpQ, nr_q, item>>

Clear ==
  /\ mpQ' = [i \in Index |-> Freed(mpQ[i])]
  /\ mSize' = 0
  /\ mTop' = 0
  /\ mBottom' = 0
  /\ mFull' = FALSE
  /\ UNCHANGED <<nr_q, item>>

Next ==
  \/ PushFull
  \/ \E c \in Cmd : PushStored(c)
  \/ PopEmpty
  \/ PopStored
  \/ Clear

Spec == Init /\ [][Next]_vars

-----------------------------------------------------------------------------
TypeOK ==
  /\ mBottom \in Index /\ mTop \in Index /\ mSize \in 0 .. mQSize
  /\ mFull \in BOOLEAN
  /\ mpQ \in [Index -> Slot]
  /\ nr_q \in 0 .. mQSize
  /\ item \in Slot \cup {NULL}

\* The slot that holds the k-th oldest command.
SlotOf(k) == (mBottom + k - 1) % mQSize

Live == {SlotOf(k) : k \in 1 .. mSize}

\* The indexes, the count and the full flag agree: mTop is the slot after the
\* newest command and mFull says exactly that no slot is free.
RingShape ==
  /\ mTop = (mBottom + mSize) % mQSize
  /\ mFull <=> mSize = mQSize

\* A queued command is whole (pop() never copies bytes from a missing buffer)
\* and a slot outside the window owns no buffer, so an overwritten, cleared or
\* destroyed slot neither leaks a buffer nor frees one twice.
Ownership ==
  /\ \A i \in Live : mpQ[i] \in Cmd
  /\ \A i \in Index \ Live : mpQ[i].mpData = NULL

\* The ring read as a queue: the window of mSize slots from mBottom on.
Contents == [k \in 1 .. mSize |-> mpQ[SlotOf(k)]]

Fifo == INSTANCE CmdFifo WITH Capacity <- mQSize, NoCmd <- NULL,
                              queue <- Contents, pushed <- nr_q, popped <- item

\* The ring is a bounded first-in first-out queue: nothing is lost, duplicated
\* or reordered across the wrap of the indexes, except the command of a push
\* that returns the capacity, which may have been dropped.
RefinesFifo == Fifo!FifoSpec
=============================================================================
