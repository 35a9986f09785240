------------------------------ MODULE CmdStack ------------------------------
(***************************************************************************)
(* NBUS_CMD_STACK (service/Stack.cpp): the sibling of the command ring,    *)
(* with its slots, its copies and its constructor, that takes the newest   *)
(* command first and so never wraps.  popclear() is for a reader that      *)
(* wants the latest command only.  mBottom is reset and never read.        *)
(***************************************************************************)
EXTENDS CmdQueue

\* push(): a full stack drops the command, as PushFull does.
StackPush(c) ==
  /\ ~mFull
  /\ mpQ' = [mpQ EXCEPT ![mTop] = Assign(c)]
  /\ mTop' = mTop + 1
  /\ mSize' = mSize + 1
  /\ nr_q' = mSize'
  /\ mFull' = (mSize' = mQSize)
  /\ UNCHANGED <<mBottom, item>>

StackPop ==
  /\ mSize # 0
  /\ mTop' = mTop - 1
  /\ item' = Assign(mpQ[mTop'])
  /\ mpQ' = [mpQ EXCEPT ![mTop'] = Freed(@)]
  /\ mSize' = mSize - 1
  /\ mFull' = FALSE
  /\ UNCHANGED <<mBottom, nr_q>>

\* All buffers are freed and all indexes reset, by clear() and popclear().
Emptied ==
  /\ mpQ' = [i \in Index |-> Freed(mpQ[i])]
  /\ mSize' = 0 /\ mTop' = 0 /\ mBottom' = 0 /\ mFull' = FALSE

PopClear ==
  /\ item' = IF mSize = 0 THEN NULL ELSE Assign(mpQ[mTop - 1])
  /\ Emptied
  /\ UNCHANGED nr_q

StackClear == Emptied /\ UNCHANGED <<nr_q, item>>

StackNext ==
  \/ PushFull
  \/ \E c \in Cmd : StackPush(c)
  \/ PopEmpty
  \/ StackPop
  \/ PopClear
  \/ StackClear

StackSpec == Init /\ [][StackNext]_vars

-----------------------------------------------------------------------------
StackTypeOK ==
  /\ mBottom \in Index /\ mTop \in 0 .. mQSize /\ mSize \in 0 .. mQSize
  /\ mFull \in BOOLEAN
  /\ mpQ \in [Index -> Slot]
  /\ nr_q \in 0 .. mQSize
  /\ item \in Slot \cup {NULL}

\* mTop counts the commands and never points behind the slots when something
\* can be pushed; exactly the slots below it own buffers, through every mixture
\* of pops and clears, so nothing is leaked, freed twice or read after.
StackOwnership ==
  /\ mTop = mSize
  /\ mFull <=> mSize = mQSize
  /\ \A i \in Index : IF i < mTop THEN mpQ[i] \in Cmd ELSE mpQ[i].mpData = NULL

Stacked == [k \in 1 .. mSize |-> mpQ[k - 1]]

Lifo == INSTANCE CmdLifo WITH Capacity <- mQSize, NoCmd <- NULL,
                              stack <- Stacked, pushed <- nr_q, popped <- item

\* The stack is a bounded last-in first-out store, popclear() included.
RefinesLifo == Lifo!LifoSpec
=============================================================================
