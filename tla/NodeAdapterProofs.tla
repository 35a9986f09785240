------------------------- MODULE NodeAdapterProofs -------------------------
(***************************************************************************)
(* Proofs about NodeAdapter, and about it as the default node: its types,  *)
(* that every queued command has a wake of its own ahead of it, that no    *)
(* wakeup is lost, that the network's messages are handled before the end, *)
(* that it implements the mailbox, what children that read its pipe can    *)
(* cost it, and that its callback reads what was sent, for any number of   *)
(* threads and children, any size of queue, pipe and batch and any objects. *)
(*                                                                         *)
(* The wakes are counted from pos, so the count is inductive only together *)
(* with two facts about the loop: outside a callback there is no batch     *)
(* (IdleLooper), and the events served were wakes (ServedAreWakes), so     *)
(* that a first event "exit" is the one being served.                      *)
(***************************************************************************)
EXTENDS DefaultNode, QueueCounts

-----------------------------------------------------------------------------
(* What the steps of a looper do to its pipe and batch.                    *)

\* Served events of the batch are wake events: wait() goes no further than the
\* first exit event.
ServedAreWakes == \A j \in 1 .. pos - 1 : batch[j] # "exit"

\* The initial looper is well typed and has served nothing.
LEMMA LooperStarts == LooperInit => LooperTypeOK /\ ServedAreWakes
<1>1. SUFFICES ASSUME LooperInit PROVE LooperTypeOK /\ ServedAreWakes
  OBVIOUS
<1>2. <<>> \in Seq(LooperEvent) /\ Len(<<>>) = 0 OBVIOUS
<1>3. QED BY <1>1, <1>2, LooperAssumption
          DEF LooperInit, LooperTypeOK, ServedAreWakes

\* A write adds one event to the pipe and disturbs nothing else.
LEMMA WriteKeeps ==
  ASSUME LooperTypeOK, NEW e \in LooperEvent, WriteEvent(e)
  PROVE  LooperTypeOK' /\ Len(pipe') = Len(pipe) + 1
BY LooperAssumption, AppendProperties DEF LooperTypeOK, WriteEvent

\* A read moves events from the pipe to the batch: at least one, none lost.
LEMMA ReadKeeps ==
  ASSUME LooperTypeOK, ReadBatch
  PROVE  /\ LooperTypeOK'
         /\ Len(batch') > 0 /\ Len(pipe') + Len(batch') = Len(pipe)
         /\ \A i \in 1 .. Len(batch') : batch'[i] = pipe[i]
         /\ \A i \in 1 .. Len(pipe') : pipe'[i] = pipe[i + Len(batch')]
<1> DEFINE n == IF Len(pipe) < BatchSize THEN Len(pipe) ELSE BatchSize
<1>1. /\ pipe \in Seq(LooperEvent) /\ Len(pipe) \in Nat /\ pipe # <<>>
      /\ batch' = SubSeq(pipe, 1, n)
      /\ pipe' = SubSeq(pipe, n + 1, Len(pipe))
      /\ pos' = 1
  BY LenProperties DEF LooperTypeOK, ReadBatch
<1>2. Len(pipe) > 0 BY <1>1, EmptySeq, LenProperties
<1>3. n \in 1 .. Len(pipe) /\ n <= BatchSize BY <1>1, <1>2, LooperAssumption
<1>4. /\ batch' \in Seq(LooperEvent) /\ Len(batch') = n
      /\ \A i \in 1 .. n : batch'[i] = pipe[i]
  <2> HIDE DEF n
  <2>1. QED BY <1>1, <1>3, FrontOf
<1>5. /\ pipe' \in Seq(LooperEvent) /\ Len(pipe') = Len(pipe) - n
      /\ \A i \in 1 .. Len(pipe) - n : pipe'[i] = pipe[i + n]
  <2> HIDE DEF n
  <2>1. QED BY <1>1, <1>3, RestOf
<1>6. LooperTypeOK'
  <2>1. Len(pipe) <= PipeCapacity BY DEF LooperTypeOK
  <2> HIDE DEF n
  <2>2. pos' \in 0 .. Len(batch') /\ pos' # 0 BY <1>1, <1>3, <1>4
  <2>3. Len(batch') <= BatchSize /\ Len(pipe') <= PipeCapacity
    BY <1>1, <1>3, <1>4, <1>5, <2>1, LooperAssumption
  <2>4. QED BY <1>4, <1>5, <2>2, <2>3 DEF LooperTypeOK
<1>7. QED
  <2> HIDE DEF n
  <2>1. QED BY <1>1, <1>3, <1>4, <1>5, <1>6

\* Serving an event goes on to the next one of the batch, or behind the last
\* one and behind an exit event forgets the batch.
LEMMA ServedKeeps ==
  ASSUME LooperTypeOK, ServedAreWakes, pos # 0, EventServed
  PROVE  /\ LooperTypeOK' /\ ServedAreWakes'
         /\ pipe' = pipe
         /\ MoreEvents => pos' = pos + 1 /\ batch' = batch
         /\ ~MoreEvents => pos' = 0 /\ Len(batch') = 0
         /\ ~MoreEvents /\ ~LeavesLoop => pos = Len(batch)
<1>1. pos \in 1 .. Len(batch) /\ Len(batch) \in Nat
  BY LenProperties DEF LooperTypeOK
<1>2. CASE MoreEvents
  BY <1>1, <1>2 DEF LooperTypeOK, ServedAreWakes, EventServed, MoreEvents,
                    LeavesLoop
<1>3. CASE ~MoreEvents
  <2>1. pos' = 0 /\ batch' = <<>> /\ pipe' = pipe BY <1>3 DEF EventServed
  <2>2. LooperTypeOK'
    BY <1>1, <2>1, LooperAssumption DEF LooperTypeOK
  <2>3. QED BY <1>1, <1>3, <2>1, <2>2 DEF ServedAreWakes, MoreEvents
<1>4. QED BY <1>2, <1>3

-----------------------------------------------------------------------------
(* The shape of an adapter.                                                *)

IdleLooper == dpc \in {"poll", "leave", "exited"} => pos = 0

Shape == TypeOK /\ IdleLooper /\ ServedAreWakes

\* What a posting thread is about to push is a command, and no command is
\* the absence of one.
LEMMA CommandFacts ==
  /\ \A type \in CmdType, t \in Poster : [type |-> type, from |-> t] \in Command
  /\ NoItem \notin Command
BY DEF Command, NoItem, CmdType

\* An adapter starts well typed.
LEMMA ShapeInit == Init => Shape
<1>1. SUFFICES ASSUME Init PROVE Shape
  OBVIOUS
<1>2. LooperTypeOK /\ ServedAreWakes BY <1>1, LooperStarts DEF Init
<1>3. <<>> \in Seq(Command) /\ Len(<<>>) = 0 OBVIOUS
<1>4. TypeOK
  <2>1. mQ \in Seq(Command) /\ Len(mQ) <= QueueSize
    BY <1>1, <1>3, AdapterAssumption DEF Init
  <2>2. /\ pc \in [Poster -> {"bind", "idle"}]
        /\ out = [t \in Poster |-> NoItem]
    BY <1>1 DEF Init
  <2>3. \A t \in Poster : pc[t] # "push" BY <2>2
  <2>4. dpc = "poll" /\ item = NoItem BY <1>1 DEF Init
  <2>5. /\ mSetup \in BOOLEAN /\ mExited \in BOOLEAN /\ returned \in BOOLEAN
        /\ frames \in Nat /\ posts \in [Caller -> Nat] /\ woken \in BOOLEAN
        /\ stops \in Nat
    BY <1>1 DEF Init
  <2>6. QED BY <1>2, <2>1, <2>2, <2>3, <2>4, <2>5 DEF TypeOK
<1>5. IdleLooper BY <1>1 DEF Init, LooperInit, IdleLooper
<1>6. QED BY <1>2, <1>4, <1>5 DEF Shape

\* The steps of the posting threads keep the types.
LEMMA ShapePost ==
  ASSUME Shape, NEW t \in Poster, Push(t) \/ Wake(t)
  PROVE  Shape'
<1>1. TypeOK /\ IdleLooper /\ ServedAreWakes BY DEF Shape
<1>2. CASE Push(t)
  <2>1. out[t] \in Command BY <1>1, <1>2 DEF Push, TypeOK
  <2>2. mQ' \in Seq(Command) /\ Len(mQ') <= QueueSize
    <3>1. mQ \in Seq(Command) /\ Len(mQ) <= QueueSize /\ Len(mQ) \in Nat
      BY <1>1, LenProperties DEF TypeOK
    <3>2. CASE Len(mQ) = QueueSize
      BY <1>2, <3>1, <3>2 DEF Push
    <3>3. CASE Len(mQ) # QueueSize
      <4>1. mQ' = Append(mQ, out[t]) BY <1>2, <3>3 DEF Push
      <4>2. mQ' \in Seq(Command) /\ Len(mQ') = Len(mQ) + 1
        BY <2>1, <3>1, <4>1, AppendProperties
      <4>3. QED BY <3>1, <3>3, <4>2, AdapterAssumption
    <3>4. QED BY <3>2, <3>3
  <2>3. LooperTypeOK' /\ ServedAreWakes'
    BY <1>1, <1>2 DEF Push, TypeOK, LooperTypeOK, ServedAreWakes, looperVars
  <2>4. QED
    BY <1>1, <1>2, <2>2, <2>3
       DEF Push, Shape, TypeOK, IdleLooper, looperVars
<1>3. CASE Wake(t)
  <2>1. LooperTypeOK'
    BY <1>1, <1>3, WriteKeeps DEF Wake, TypeOK, LooperEvent
  <2>2. batch' = batch /\ pos' = pos BY <1>3 DEF Wake, WriteEvent
  <2>3. QED
    BY <1>1, <1>3, <2>1, <2>2
       DEF Wake, Shape, TypeOK, IdleLooper, ServedAreWakes
<1>4. QED BY <1>2, <1>3

\* So do a caller's addQueue() and what the coordinator reads.
LEMMA ShapeReady ==
  ASSUME Shape, NEW t \in Poster, NEW type \in CmdType, Ready(t, type),
         UNCHANGED <<looperVars, mQ, dpc, item, mSetup, mExited, returned,
                     woken, stops>>,
         frames' \in Nat, posts' \in [Caller -> Nat]
  PROVE  Shape'
<1>1. TypeOK /\ IdleLooper /\ ServedAreWakes BY DEF Shape
<1>2. [type |-> type, from |-> t] \in Command BY CommandFacts
<1>3. LooperTypeOK' /\ ServedAreWakes' /\ IdleLooper'
  BY <1>1 DEF TypeOK, LooperTypeOK, ServedAreWakes, IdleLooper, looperVars
<1>4. QED BY <1>1, <1>2, <1>3 DEF Ready, Shape, TypeOK, looperVars

\* So do the coordinator's own steps and the return of run().
LEMMA ShapeOthers ==
  ASSUME Shape,
         \/ \E t \in Caller : AddQueue(t)
         \/ Bind \/ BindFails \/ Receiving \/ Kill \/ AcceptFails \/ Return
  PROVE  Shape'
<1>1. TypeOK /\ IdleLooper /\ ServedAreWakes BY DEF Shape
<1>2. "coordinator" \in Poster /\ Caller \subseteq Poster
      /\ \A t \in Caller : t # "coordinator"
  BY AdapterAssumption DEF Poster
<1>3. ASSUME NEW t \in Caller, AddQueue(t) PROVE Shape'
  <2>1. frames' \in Nat /\ posts' \in [Caller -> Nat]
    BY <1>1, <1>3 DEF AddQueue, TypeOK
  <2>2. "data" \in CmdType BY DEF CmdType
  <2>3. QED BY <1>2, <1>3, <2>1, <2>2, ShapeReady DEF AddQueue
<1>4. CASE Bind
  <2>1. frames' \in Nat /\ posts' \in [Caller -> Nat]
    BY <1>1, <1>4 DEF Bind, netRest, TypeOK
  <2>2. "setup" \in CmdType BY DEF CmdType
  <2>3. QED BY <1>2, <1>4, <2>1, <2>2, ShapeReady DEF Bind, netRest
<1>5. CASE Receiving
  <2>1. ASSUME NEW type \in CmdType, Receive(type) PROVE Shape'
    <3>1. frames' \in Nat /\ posts' \in [Caller -> Nat]
      BY <1>1, <2>1 DEF Receive, netRest, TypeOK
    <3>2. QED BY <1>2, <2>1, <3>1, ShapeReady DEF Receive, netRest
  <2>2. CASE ReceiveShort \/ ReceiveKill
    <3>1. LooperTypeOK' /\ ServedAreWakes' /\ IdleLooper'
      BY <1>1, <2>2 DEF ReceiveShort, ReceiveKill, netRest, TypeOK,
         LooperTypeOK, ServedAreWakes, IdleLooper, looperVars
    <3>2. CASE ReceiveShort
      BY <1>1, <3>1, <3>2 DEF ReceiveShort, netRest, looperVars, Shape, TypeOK
    <3>3. CASE ReceiveKill
      <4>1. /\ pc' \in [Poster -> {"bind", "failed", "accept", "exit", "ended",
                                   "idle", "push", "wake"}]
            /\ \A t \in Poster : pc'[t] = "push" => pc[t] = "push"
        BY <1>1, <1>2, <3>3 DEF ReceiveKill, TypeOK
      <4>2. frames' \in Nat BY <1>1, <3>3 DEF ReceiveKill, TypeOK
      <4>3. QED
        BY <1>1, <3>1, <3>3, <4>1, <4>2
           DEF ReceiveKill, netRest, looperVars, Shape, TypeOK
    <3>4. QED BY <2>2, <3>2, <3>3
  <2>3. QED BY <1>5, <2>1, <2>2 DEF Receiving
<1>6. CASE Kill
  <2>1. LooperTypeOK'
    BY <1>1, <1>6, WriteKeeps DEF Kill, TypeOK, LooperEvent
  <2>2. batch' = batch /\ pos' = pos BY <1>6 DEF Kill, WriteEvent
  <2>3. QED
    BY <1>1, <1>6, <2>1, <2>2
       DEF Kill, Shape, TypeOK, IdleLooper, ServedAreWakes
<1>7. CASE BindFails \/ AcceptFails \/ Return
  <2>1. LooperTypeOK' /\ ServedAreWakes' /\ IdleLooper'
    BY <1>1, <1>7 DEF BindFails, AcceptFails, Return, netRest, TypeOK,
       LooperTypeOK, ServedAreWakes, IdleLooper, looperVars
  <2>2. CASE BindFails
    BY <1>1, <2>1, <2>2 DEF BindFails, netRest, looperVars, Shape, TypeOK
  <2>3. CASE AcceptFails
    BY <1>1, <2>1, <2>3 DEF AcceptFails, netRest, looperVars, Shape, TypeOK
  <2>4. CASE Return
    BY <1>1, <2>1, <2>4 DEF Return, looperVars, Shape, TypeOK
  <2>5. QED BY <1>7, <2>2, <2>3, <2>4
<1>8. QED BY <1>3, <1>4, <1>5, <1>6, <1>7

\* What dispatch() leaves behind when it returns to the loop.
LEMMA BackFacts ==
  ASSUME Shape, dpc \in {"event", "dispatch", "handle"}, BackToLoop
  PROVE  /\ LooperTypeOK' /\ ServedAreWakes' /\ IdleLooper'
         /\ dpc' \in {"leave", "event", "poll"}
         /\ dpc' = "event" => pos' # 0
         /\ dpc' # "leave" => EventsAhead' = Len(pipe) + (Len(batch) - pos)
         /\ LeavesLoop => dpc' = "leave"
<1>1. TypeOK /\ ServedAreWakes /\ LooperTypeOK /\ pos # 0
  BY DEF Shape, TypeOK
<1>2. /\ LooperTypeOK' /\ ServedAreWakes'
      /\ pipe' = pipe
      /\ MoreEvents => pos' = pos + 1 /\ batch' = batch
      /\ ~MoreEvents => pos' = 0 /\ Len(batch') = 0
      /\ ~MoreEvents /\ ~LeavesLoop => pos = Len(batch)
  BY <1>1, ServedKeeps DEF BackToLoop
<1>3. /\ dpc' \in {"leave", "event", "poll"}
      /\ dpc' = "event" <=> MoreEvents
      /\ dpc' = "leave" <=> LeavesLoop
  BY DEF BackToLoop, MoreEvents
<1>4. /\ Len(pipe) \in Nat /\ Len(batch) \in Nat /\ pos \in Nat
  BY <1>1, LenProperties DEF LooperTypeOK
<1>5. IdleLooper' BY <1>2, <1>3 DEF IdleLooper, MoreEvents
<1>6. dpc' = "event" => pos' # 0 BY <1>2, <1>3, <1>4
<1>7. dpc' # "leave" => EventsAhead' = Len(pipe) + (Len(batch) - pos)
  <2>1. CASE MoreEvents BY <1>2, <1>3, <1>4, <2>1 DEF EventsAhead
  <2>2. CASE ~MoreEvents /\ ~LeavesLoop
    BY <1>2, <1>3, <1>4, <2>2 DEF EventsAhead
  <2>3. QED BY <1>3, <2>1, <2>2
<1>8. QED BY <1>2, <1>3, <1>5, <1>6, <1>7

\* The dispatcher's steps keep the types.
LEMMA ShapeDispatch ==
  ASSUME Shape, Dispatch
  PROVE  Shape'
<1>1. TypeOK /\ IdleLooper /\ ServedAreWakes BY DEF Shape
<1>2. CASE Poll
  <2>1. /\ LooperTypeOK' /\ pos' = 1
    BY <1>1, <1>2, ReadKeeps DEF Poll, TypeOK, ReadBatch
  <2>2. ServedAreWakes' BY <2>1 DEF ServedAreWakes
  <2>3. QED
    BY <1>1, <1>2, <2>1, <2>2 DEF Poll, dispRest, Shape, TypeOK, IdleLooper
<1>3. CASE CallbackExit \/ QueueEmpty \/ HandleSetup
  <2>1. dpc \in {"event", "dispatch", "handle"} /\ BackToLoop
    BY <1>3 DEF CallbackExit, QueueEmpty, HandleSetup
  <2>2. /\ LooperTypeOK' /\ ServedAreWakes' /\ IdleLooper'
        /\ dpc' \in {"leave", "event", "poll"}
        /\ dpc' = "event" => pos' # 0
    BY <2>1, BackFacts
  <2>3. /\ UNCHANGED <<mQ, pc, out, mExited, returned, frames, posts, woken,
                       stops>>
        /\ item' \in {item, NoItem} /\ mSetup' \in BOOLEAN
    BY <1>1, <1>3
       DEF CallbackExit, QueueEmpty, HandleSetup, dispRest, TypeOK
  <2>4. QED BY <1>1, <2>2, <2>3 DEF Shape, TypeOK
<1>4. CASE CallbackWake \/ Pop \/ HandleReply \/ HandleData \/ Leave
  <2>1. UNCHANGED looperVars
    BY <1>4 DEF CallbackWake, Pop, HandleReply, HandleData, Leave
  <2>2. LooperTypeOK' /\ ServedAreWakes' /\ IdleLooper'
    <3>1. dpc' \in {"poll", "leave", "exited"}
            => dpc \in {"poll", "leave", "exited"}
      BY <1>4 DEF CallbackWake, Pop, HandleReply, HandleData, Leave
    <3>2. QED BY <1>1, <2>1, <3>1 DEF TypeOK, LooperTypeOK, ServedAreWakes,
                                      IdleLooper, looperVars
  <2>3. CASE Pop
    <3>1. mQ \in Seq(Command) /\ mQ # <<>> /\ Len(mQ) <= QueueSize
      BY <1>1, <2>3 DEF TypeOK, Pop
    <3>2. /\ Head(mQ) \in Command /\ Tail(mQ) \in Seq(Command)
          /\ Len(Tail(mQ)) = Len(mQ) - 1 /\ Len(mQ) \in Nat
      BY <3>1, HeadTailProperties, LenProperties
    <3>3. item' \in Command /\ mQ' \in Seq(Command) /\ Len(mQ') <= QueueSize
          /\ stops' \in Nat
      BY <1>1, <2>3, <3>1, <3>2, AdapterAssumption DEF Pop, TypeOK
    <3>4. QED
      BY <1>1, <2>1, <2>2, <2>3, <3>3
         DEF Pop, dispRest, Shape, TypeOK, looperVars
  <2>4. CASE ~Pop
    BY <1>1, <1>4, <2>1, <2>2, <2>4
       DEF CallbackWake, HandleReply, HandleData, Leave, dispRest, Shape,
           TypeOK, looperVars
  <2>5. QED BY <2>3, <2>4
<1>5. QED BY <1>2, <1>3, <1>4 DEF Dispatch

\* Every step keeps the types.
LEMMA ShapeNext ==
  ASSUME Shape, [Next]_vars
  PROVE  Shape'
<1>1. CASE Next
  BY <1>1, ShapePost, ShapeOthers, ShapeDispatch DEF Next, Post
<1>2. CASE UNCHANGED vars
  BY <1>2 DEF vars, Shape, TypeOK, LooperTypeOK, IdleLooper, ServedAreWakes
<1>3. QED BY <1>1, <1>2

\* The adapter's variables keep their types, for every number of threads and
\* size of the queue, the pipe and the batch: in particular a queue is never
\* filled beyond QueueSize, and dispatch() never handles a command it did not
\* pop.
THEOREM TypeCorrect == Spec => []TypeOK
<1>1. Init => Shape BY ShapeInit
<1>2. Shape /\ [Next]_vars => Shape' BY ShapeNext
<1>3. Shape => TypeOK BY DEF Shape
<1>4. QED BY <1>1, <1>2, <1>3, PTL DEF Spec

-----------------------------------------------------------------------------
(* A wake for every command.                                               *)

\* The first event of the batch that no call of dispatch() was made for yet.
FirstAhead == IF dpc = "event" THEN pos ELSE pos + 1

\* The call of dispatch() in progress that goes on.
Running == IF Draining THEN 1 ELSE 0

\* Wakes no call of dispatch() was made for yet.
WakesAhead == Count(pipe, {"wake"}) + CountFrom(batch, FirstAhead, {"wake"})

\* The dispatcher has left the loop, or is about to.
ExitSeen == dpc \in {"leave", "exited"} \/ (dpc = "event" /\ SeenEvent = "exit")

\* Calls of dispatch() made or to come for a wake.
Due == WakesAhead + Cardinality(Waking) + Running

\* All queued commands but c have a wake of their own, and not only an event.
Covered(c) == ~ExitSeen => Len(mQ) <= Due + c

\* The counts Covered adds up are numbers.
LEMMA CountFacts ==
  ASSUME Shape
  PROVE  /\ Len(mQ) \in Nat /\ Len(pipe) \in Nat /\ Len(batch) \in Nat
         /\ pos \in 0 .. Len(batch) /\ EventsAhead \in Nat
         /\ IsFiniteSet(Waking) /\ Cardinality(Waking) \in Nat
<1>1. /\ Len(mQ) \in Nat /\ Len(pipe) \in Nat /\ Len(batch) \in Nat
      /\ pos \in 0 .. Len(batch)
  BY LenProperties DEF Shape, TypeOK, LooperTypeOK
<1>2. IsFiniteSet(Poster)
  BY AdapterAssumption, FS_AddElement DEF Poster
<1>3. Waking \in SUBSET Poster BY DEF Waking
<1>4. IsFiniteSet(Waking) /\ Cardinality(Waking) \in Nat
  BY <1>2, <1>3, FS_Subset, FS_CardinalityType
<1>5. EventsAhead \in Nat BY <1>1 DEF EventsAhead
<1>6. QED BY <1>1, <1>4, <1>5

\* There are no more wakes ahead than events.
LEMMA WakesFacts ==
  ASSUME Shape
  PROVE  /\ pipe \in Seq(LooperEvent) /\ batch \in Seq(LooperEvent)
         /\ FirstAhead \in 1 .. Len(batch) + 1
         /\ EventsAhead = Len(pipe) + (Len(batch) - FirstAhead + 1)
         /\ Count(pipe, {"wake"}) \in Nat
         /\ CountFrom(batch, FirstAhead, {"wake"}) \in Nat
         /\ WakesAhead \in Nat /\ WakesAhead <= EventsAhead
         /\ Running \in {0, 1}
<1>1. /\ pipe \in Seq(LooperEvent) /\ batch \in Seq(LooperEvent)
      /\ Len(pipe) \in Nat /\ Len(batch) \in Nat /\ pos \in 0 .. Len(batch)
      /\ dpc = "event" => pos # 0
  BY LenProperties DEF Shape, TypeOK, LooperTypeOK
<1>2. /\ FirstAhead \in 1 .. Len(batch) + 1
      /\ EventsAhead = Len(pipe) + (Len(batch) - FirstAhead + 1)
  <2>1. CASE dpc = "event" BY <1>1, <2>1 DEF FirstAhead, EventsAhead
  <2>2. CASE dpc # "event" BY <1>1, <2>2 DEF FirstAhead, EventsAhead
  <2>3. QED BY <2>1, <2>2
<1>3. /\ CountFrom(batch, FirstAhead, {"wake"}) \in Nat
      /\ CountFrom(batch, FirstAhead, {"wake"}) <= Len(batch) - FirstAhead + 1
  BY <1>1, <1>2, CountFromFacts
<1>4. Count(pipe, {"wake"}) \in Nat /\ Count(pipe, {"wake"}) <= Len(pipe)
  <2>1. 1 \in 1 .. Len(pipe) + 1 BY <1>1
  <2>2. /\ CountFrom(pipe, 1, {"wake"}) \in Nat
        /\ CountFrom(pipe, 1, {"wake"}) <= Len(pipe) - 1 + 1
        /\ CountFrom(pipe, 1, {"wake"}) = Count(pipe, {"wake"})
    BY <1>1, <2>1, CountFromFacts
  <2>3. QED BY <1>1, <2>2
<1>5. WakesAhead \in Nat /\ WakesAhead <= EventsAhead
  BY <1>1, <1>2, <1>3, <1>4 DEF WakesAhead
<1>6. Running \in {0, 1} BY DEF Running
<1>7. QED BY <1>1, <1>2, <1>3, <1>4, <1>5, <1>6

\* What is covered by wakes is covered by events.
LEMMA CoveredByEvents ==
  ASSUME Shape, NEW c \in Nat, Covered(c)
  PROVE  /\ Due \in Nat
         /\ ~ExitSeen => Len(mQ) <= EventsAhead + Cardinality(Waking) + Running + c
<1>1. /\ WakesAhead \in Nat /\ EventsAhead \in Nat /\ WakesAhead <= EventsAhead
      /\ Cardinality(Waking) \in Nat /\ Running \in {0, 1} /\ Len(mQ) \in Nat
  BY WakesFacts, CountFacts
<1>2. QED BY <1>1 DEF Covered, Due

\* What is due is a number, before a step ...
LEMMA DueFacts ==
  ASSUME Shape
  PROVE  /\ Due \in Nat /\ Len(mQ) \in Nat
         /\ CountFrom(batch, FirstAhead, {"wake"}) \in Nat
         /\ pipe \in Seq(LooperEvent) /\ batch \in Seq(LooperEvent)
<1>1. /\ WakesAhead \in Nat /\ Running \in Nat /\ Cardinality(Waking) \in Nat
      /\ Len(mQ) \in Nat
  BY WakesFacts, CountFacts
<1>2. Due \in Nat BY <1>1 DEF Due
<1>3. QED BY <1>1, <1>2, WakesFacts

\* A step that adds no more to the queue than to what is due.
LEMMA CoveredStep ==
  ASSUME Shape, NEW c \in Nat, Covered(c), ~ExitSeen' => ~ExitSeen,
         NEW d \in Int, Len(mQ') \in Nat, Len(mQ') <= Len(mQ) + d,
         Due' \in Nat, Due' >= Due + d
  PROVE  Covered(c)'
<1>1. Due \in Nat /\ Len(mQ) \in Nat BY DueFacts
<1>2. ASSUME ~ExitSeen' PROVE Len(mQ') <= Due' + c
  <2>1. Len(mQ) <= Due + c BY <1>2 DEF Covered
  <2>2. QED BY <1>1, <2>1
<1>3. QED BY <1>2 DEF Covered

\* ... and behind it.
LEMMA DueFactsNext ==
  ASSUME Shape'
  PROVE  /\ Due' \in Nat /\ Len(mQ') \in Nat
         /\ CountFrom(batch', FirstAhead', {"wake"}) \in Nat
         /\ pipe' \in Seq(LooperEvent) /\ batch' \in Seq(LooperEvent)
<1>1. (/\ Due \in Nat /\ Len(mQ) \in Nat
       /\ CountFrom(batch, FirstAhead, {"wake"}) \in Nat
       /\ pipe \in Seq(LooperEvent) /\ batch \in Seq(LooperEvent))'
  BY DueFacts, PTL
<1>2. QED BY <1>1

\* A push adds at most one command and exactly one thread about to wake.
LEMMA CoverPush ==
  ASSUME Shape, NEW c \in Nat, Covered(c), NEW t \in Poster, Push(t)
  PROVE  Covered(c)'
<1>1. Waking' = Waking \cup {t} /\ t \notin Waking
  BY DEF Push, Waking, Shape, TypeOK
<1>2. Cardinality(Waking') = Cardinality(Waking) + 1
  BY <1>1, CountFacts, FS_AddElement
<1>3. Len(mQ') <= Len(mQ) + 1
  <2>1. mQ \in Seq(Command) /\ out[t] \in Command /\ Len(mQ) \in Nat
    BY CountFacts DEF Shape, TypeOK, Push
  <2>2. Len(Append(mQ, out[t])) = Len(mQ) + 1 BY <2>1, AppendProperties
  <2>3. CASE Len(mQ) = QueueSize BY <2>1, <2>3 DEF Push
  <2>4. CASE Len(mQ) # QueueSize BY <2>1, <2>2, <2>4 DEF Push
  <2>5. QED BY <2>3, <2>4
<1>4. UNCHANGED <<pipe, batch, pos, dpc, item>> BY DEF Push, looperVars
<1>5. WakesAhead' = WakesAhead /\ Running' = Running /\ (ExitSeen' <=> ExitSeen)
  BY <1>4 DEF WakesAhead, FirstAhead, Running, Draining, ExitSeen, SeenEvent
<1>6. Due' = Due + 1
  <2>1. WakesAhead \in Nat /\ Running \in {0, 1} /\ Cardinality(Waking) \in Nat
    BY WakesFacts, CountFacts
  <2>2. Due' = WakesAhead + (Cardinality(Waking) + 1) + Running
    BY <1>2, <1>5 DEF Due
  <2>3. QED BY <2>1, <2>2 DEF Due
<1>7. Due' \in Nat /\ Len(mQ') \in Nat BY ShapePost, DueFactsNext
<1>8. QED BY <1>3, <1>5, <1>6, <1>7, DueFacts, CoveredStep

\* A wake turns the thread that owes it into an event of the pipe.
LEMMA CoverWake ==
  ASSUME Shape, NEW c \in Nat, Covered(c), NEW t \in Poster, Wake(t)
  PROVE  Covered(c)'
<1>1. Waking' = Waking \ {t} /\ t \in Waking
  BY DEF Wake, Waking, Shape, TypeOK
<1>2. Cardinality(Waking') = Cardinality(Waking) - 1
  BY <1>1, CountFacts, FS_RemoveElement
<1>3. UNCHANGED <<batch, pos, dpc, item, mQ>> /\ pipe' = Append(pipe, "wake")
  BY DEF Wake, WriteEvent
<1>4. Count(pipe', {"wake"}) = Count(pipe, {"wake"}) + 1
  <2>1. pipe \in Seq(LooperEvent) /\ "wake" \in LooperEvent
    BY WakesFacts DEF LooperEvent
  <2>2. QED BY <1>3, <2>1, CountAppend
<1>5. /\ FirstAhead' = FirstAhead /\ Running' = Running /\ batch' = batch
      /\ ExitSeen' <=> ExitSeen
  BY <1>3 DEF FirstAhead, Running, Draining, ExitSeen, SeenEvent
<1>6. Due' = Due
  <2>1. /\ Count(pipe, {"wake"}) \in Nat /\ Cardinality(Waking) \in Nat
        /\ CountFrom(batch, FirstAhead, {"wake"}) \in Nat /\ Running \in {0, 1}
    BY WakesFacts, CountFacts
  <2>2. Due' = (Count(pipe, {"wake"}) + 1 + CountFrom(batch, FirstAhead, {"wake"}))
                 + (Cardinality(Waking) - 1) + Running
    BY <1>2, <1>4, <1>5 DEF Due, WakesAhead
  <2>3. QED BY <2>1, <2>2 DEF Due, WakesAhead
<1>7. Due' \in Nat /\ Len(mQ') \in Nat BY ShapePost, DueFactsNext
<1>8. Len(mQ') <= Len(mQ) + 0 /\ Due' >= Due + 0
  BY <1>3, <1>6, <1>7
<1>9. 0 \in Int OBVIOUS
<1>10. QED BY <1>5, <1>7, <1>8, <1>9, CoveredStep

\* Everything else the other threads do leaves commands and wakes alone, or
\* adds the exit event.
LEMMA CoverOthers ==
  ASSUME Shape, NEW c \in Nat, Covered(c),
         \/ \E t \in Caller : AddQueue(t)
         \/ Bind \/ BindFails \/ Receiving \/ Kill \/ AcceptFails \/ Return
  PROVE  Covered(c)'
<1>1. UNCHANGED <<batch, pos, dpc, item, mQ>>
  BY DEF AddQueue, Bind, BindFails, Receiving, Receive, ReceiveShort,
         ReceiveKill, Kill, AcceptFails, Return, netRest, looperVars, WriteEvent
<1>2. Waking' = Waking
  <2>1. pc \in [Poster -> {"bind", "failed", "accept", "exit", "ended", "idle",
                           "push", "wake"}]
        /\ Caller \subseteq Poster /\ "coordinator" \in Poster
    BY DEF Shape, TypeOK, Poster
  <2>2. CASE \E t \in Caller : AddQueue(t)
    BY <2>1, <2>2 DEF AddQueue, Ready, Waking
  <2>3. CASE Bind \/ Receiving
    BY <2>1, <2>3 DEF Bind, Receiving, Receive, ReceiveShort, ReceiveKill,
                      Ready, netRest, Waking
  <2>4. CASE BindFails \/ Kill \/ AcceptFails \/ Return
    BY <2>1, <2>4 DEF BindFails, Kill, AcceptFails, Return, Waking
  <2>5. QED BY <2>2, <2>3, <2>4
<1>3. Count(pipe', {"wake"}) = Count(pipe, {"wake"})
  <2>1. CASE Kill
    <3>1. pipe \in Seq(LooperEvent) /\ "exit" \in LooperEvent /\ "exit" \notin {"wake"}
      BY WakesFacts DEF LooperEvent
    <3>2. pipe' = Append(pipe, "exit") BY <2>1 DEF Kill, WriteEvent
    <3>3. Count(pipe', {"wake"}) = Count(pipe, {"wake"}) + 0
      BY <3>1, <3>2, CountAppend
    <3>4. QED BY <3>3, WakesFacts
  <2>2. CASE ~Kill
    <3>1. pipe' = pipe
      BY <2>2 DEF AddQueue, Bind, BindFails, Receiving, Receive, ReceiveShort,
         ReceiveKill, AcceptFails, Return, netRest, looperVars
    <3>2. QED BY <3>1
  <2>3. QED BY <2>1, <2>2
<1>4. /\ FirstAhead' = FirstAhead /\ Running' = Running /\ batch' = batch
      /\ ExitSeen' <=> ExitSeen
  BY <1>1 DEF FirstAhead, Running, Draining, ExitSeen, SeenEvent
<1>5. Due' = Due BY <1>2, <1>3, <1>4 DEF Due, WakesAhead
<1>6. QED BY <1>1, <1>4, <1>5 DEF Covered

\* The dispatcher uses up a wake for a call of dispatch(), and the call for
\* an empty queue or for the command it pops.
LEMMA CoverDispatch ==
  ASSUME Shape, NEW c \in Nat, Covered(c), Dispatch
  PROVE  Covered(c)'
<1>1. Waking' = Waking
  <2>1. pc' = pc
    BY DEF Dispatch, Poll, CallbackExit, CallbackWake, Pop, QueueEmpty,
           HandleSetup, HandleReply, HandleData, Leave, dispRest
  <2>2. QED BY <2>1 DEF Waking
<1> DEFINE w == Cardinality(Waking)
           p == Count(pipe, {"wake"})
           b == CountFrom(batch, FirstAhead, {"wake"})
<1>2. w \in Nat /\ p \in Nat /\ b \in Nat /\ Running \in {0, 1} /\ Len(mQ) \in Nat
  BY WakesFacts, CountFacts
<1>3. Due = p + b + w + Running /\ Due \in Nat BY DueFacts DEF Due, WakesAhead
<1>4. ASSUME pipe' = pipe
      PROVE  Due' = p + CountFrom(batch', FirstAhead', {"wake"}) + w + Running'
  BY <1>1, <1>4 DEF Due, WakesAhead
<1>5. /\ Due' \in Nat /\ Len(mQ') \in Nat
      /\ CountFrom(batch', FirstAhead', {"wake"}) \in Nat
      /\ pipe' \in Seq(LooperEvent) /\ batch' \in Seq(LooperEvent)
  <2>1. Shape' BY ShapeDispatch
  <2>2. QED BY <2>1, DueFactsNext
<1>6. ASSUME Len(mQ') <= Len(mQ), Due' >= Due, ~ExitSeen' => ~ExitSeen
      PROVE  Covered(c)'
  <2>1. 0 \in Int /\ Len(mQ') <= Len(mQ) + 0 /\ Due' >= Due + 0
    BY <1>2, <1>3, <1>5, <1>6
  <2>2. QED BY <1>5, <1>6, <2>1, CoveredStep
<1>7. CASE Poll
  <2>1. /\ Len(pipe') + Len(batch') = Len(pipe) /\ Len(batch') > 0
        /\ \A i \in 1 .. Len(batch') : batch'[i] = pipe[i]
        /\ \A i \in 1 .. Len(pipe') : pipe'[i] = pipe[i + Len(batch')]
        /\ pos' = 1 /\ pos = 0 /\ batch = <<>> /\ mQ' = mQ
        /\ dpc = "poll" /\ dpc' = "event"
    BY <1>7, ReadKeeps
       DEF Poll, ReadBatch, Shape, TypeOK, LooperTypeOK, IdleLooper, dispRest
  <2>2. FirstAhead = 1 /\ FirstAhead' = 1 /\ Running = 0 /\ Running' = 0 /\ ~ExitSeen
    BY <2>1 DEF FirstAhead, Running, Draining, ExitSeen
  <2>3. b = 0
    <3>1. /\ batch \in Seq(LooperEvent)
          /\ 1 \in 1 .. Len(batch) + 1 /\ 1 = Len(batch) + 1
      BY <2>1, WakesFacts
    <3>2. CountFrom(batch, 1, {"wake"}) = 0 BY <3>1, CountFromFacts
    <3>3. QED BY <2>2, <3>2
  <2>4. p = CountFrom(batch', 1, {"wake"}) + Count(pipe', {"wake"})
    <3> DEFINE n == Len(batch')
    <3>1. /\ pipe \in Seq(LooperEvent) /\ Len(pipe) \in Nat /\ n \in Nat
          /\ Len(pipe') \in Nat
      BY <1>5, WakesFacts, LenProperties
    <3>2. n \in 0 .. Len(pipe) /\ Len(pipe') = Len(pipe) - n BY <2>1, <3>1
    <3>3. p = Cardinality({k \in 1 .. n : pipe[k] \in {"wake"}})
                + Count(pipe', {"wake"})
      <4> HIDE DEF n
      <4>1. CutAt(pipe, n, pipe') BY <2>1, <3>2 DEF n, CutAt
      <4>2. pipe \in Seq(LooperEvent) /\ pipe' \in Seq(LooperEvent)
            /\ n \in 0 .. Len(pipe)
        BY <1>5, <3>1, <3>2
      <4>3. Count(pipe, {"wake"}) = Cardinality({k \in 1 .. n : pipe[k] \in {"wake"}})
                                      + Count(pipe', {"wake"})
        BY ONLY <4>1, <4>2, CountCut
      <4>4. QED BY <4>3
    <3>4. {k \in 1 .. n : pipe[k] \in {"wake"}} = {k \in 1 .. n : batch'[k] \in {"wake"}}
      BY <2>1
    <3>5. CountFrom(batch', 1, {"wake"})
            = Cardinality({k \in 1 .. n : batch'[k] \in {"wake"}})
      BY DEF CountFrom
    <3>6. QED BY <3>3, <3>4, <3>5
  <2>5. Due' = Due
    <3>1. Due' = (Count(pipe', {"wake"}) + CountFrom(batch', 1, {"wake"})) + w + 0
      BY <1>1, <2>2 DEF Due, WakesAhead
    <3>2. Count(pipe', {"wake"}) \in Nat BY <1>5, CountNat
    <3>3. CountFrom(batch', 1, {"wake"}) \in Nat BY <1>5, <2>2
    <3>4. QED BY <1>2, <1>3, <2>2, <2>3, <2>4, <3>1, <3>2, <3>3
  <2>6. QED BY <1>2, <1>3, <1>6, <2>1, <2>2, <2>5
<1>8. CASE CallbackExit
  <2>1. dpc = "event" /\ batch[1] = "exit" /\ BackToLoop /\ pos # 0
    BY <1>8 DEF CallbackExit, SeenEvent, Shape, TypeOK
  <2>2. pos = 1
    BY <2>1, CountFacts DEF Shape, ServedAreWakes
  <2>3. LeavesLoop BY <2>1, <2>2 DEF LeavesLoop
  <2>4. dpc' = "leave" BY <2>1, <2>3, BackFacts
  <2>5. QED BY <2>4 DEF Covered, ExitSeen
<1>9. CASE CallbackWake
  <2>1. /\ dpc = "event" /\ dpc' = "dispatch" /\ SeenEvent # "exit"
        /\ UNCHANGED <<pipe, batch, pos, mQ>> /\ pos # 0
    BY <1>9 DEF CallbackWake, looperVars, Shape, TypeOK
  <2>2. /\ FirstAhead = pos /\ FirstAhead' = pos + 1
        /\ Running = 0 /\ Running' = 1 /\ ~ExitSeen
    BY <2>1 DEF FirstAhead, Running, Draining, ExitSeen
  <2>3. b <= CountFrom(batch, pos + 1, {"wake"}) + 1
    <3>1. pos \in 1 .. Len(batch) + 1 /\ pos # Len(batch) + 1
      BY <2>1, CountFacts
    <3>2. batch \in Seq(LooperEvent) BY WakesFacts
    <3>3. QED BY <2>2, <3>1, <3>2, CountFromFacts
  <2>4. Due' = p + CountFrom(batch, pos + 1, {"wake"}) + w + 1
    BY <1>4, <2>1, <2>2
  <2>5. CountFrom(batch, pos + 1, {"wake"}) \in Nat BY <1>5, <2>1, <2>2
  <2> HIDE DEF p, b, w
  <2>6. Due' >= Due BY <1>2, <1>3, <2>2, <2>3, <2>4, <2>5
  <2>7. QED BY <1>2, <1>6, <2>1, <2>2, <2>6
<1>10. CASE Pop
  <2>1. /\ dpc = "dispatch" /\ dpc' = "handle" /\ mQ # <<>> /\ mQ' = Tail(mQ)
        /\ UNCHANGED <<pipe, batch, pos>>
    BY <1>10 DEF Pop, looperVars
  <2>2. Len(mQ') = Len(mQ) - 1
    BY <2>1, HeadTailProperties DEF Shape, TypeOK
  <2>3. FirstAhead' = FirstAhead /\ Running = 1 /\ Running' \in {0, 1} /\ ~ExitSeen
    BY <2>1 DEF FirstAhead, Running, Draining, ExitSeen
  <2>4. Due' = p + b + w + Running' BY <1>4, <2>1, <2>3
  <2> HIDE DEF p, b, w
  <2>5. PICK x \in Nat : x = p + b + w BY <1>2
  <2>6. Due = x + 1 /\ Due' = x + Running' BY <1>3, <2>3, <2>4, <2>5
  <2>7. Len(mQ) <= x + 1 + c BY <2>3, <2>6 DEF Covered
  <2>8. PICK y \in Nat : y = Due' BY <1>5
  <2>9. PICK l \in Nat : l = Len(mQ') BY <1>5
  <2>10. l <= x + c BY <1>2, <2>2, <2>7, <2>9
  <2>11. x <= y
    <3>1. PICK z \in {0, 1} : z = Running' BY <2>3
    <3>2. y = x + z BY <2>6, <2>8, <3>1
    <3>3. QED BY <3>2
  <2>12. l <= y + c BY <2>10, <2>11
  <2>13. QED BY <2>8, <2>9, <2>12 DEF Covered
<1>11. CASE QueueEmpty \/ HandleSetup
  <2>1. /\ dpc \in {"dispatch", "handle"} /\ BackToLoop /\ mQ' = mQ /\ pos # 0
    BY <1>11 DEF QueueEmpty, HandleSetup, Shape, TypeOK
  <2>2. /\ dpc' \in {"leave", "event", "poll"} /\ ~ExitSeen /\ FirstAhead = pos + 1
    BY <2>1, BackFacts DEF ExitSeen, FirstAhead
  <2>3. CASE dpc' = "leave" BY <2>3 DEF Covered, ExitSeen
  <2>4. CASE QueueEmpty
    <3>1. Len(mQ') = 0 BY <2>1, <2>4 DEF QueueEmpty
    <3>2. PICK y \in Nat : y = Due' BY <1>5
    <3>3. 0 <= y + c OBVIOUS
    <3>4. Len(mQ') <= Due' + c BY <3>1, <3>2, <3>3
    <3>5. QED BY <3>4 DEF Covered
  <2>5. CASE dpc' # "leave" /\ HandleSetup
    <3>1. Running = 0 /\ Running' = 0
      BY <2>2, <2>5 DEF HandleSetup, Running, Draining
    <3>2. /\ pipe' = pipe
          /\ MoreEvents => pos' = pos + 1 /\ batch' = batch
          /\ ~MoreEvents => pos' = 0 /\ Len(batch') = 0
          /\ ~MoreEvents /\ ~LeavesLoop => pos = Len(batch)
      <4>1. LooperTypeOK /\ ServedAreWakes /\ EventServed
        BY <2>1 DEF BackToLoop, Shape, TypeOK
      <4>2. QED BY <2>1, <4>1, ServedKeeps
    <3>3. ~LeavesLoop /\ dpc' = IF MoreEvents THEN "event" ELSE "poll"
      BY <2>1, <2>5 DEF BackToLoop
    <3>4. CountFrom(batch', FirstAhead', {"wake"}) = b
      <4>1. CASE MoreEvents
        <5>1. FirstAhead' = pos + 1 /\ batch' = batch
          BY <3>2, <3>3, <4>1 DEF FirstAhead
        <5>2. QED BY <2>2, <5>1
      <4>2. CASE ~MoreEvents
        <5>1. FirstAhead' = 1 /\ Len(batch') = 0 /\ FirstAhead = Len(batch) + 1
          BY <2>2, <3>2, <3>3, <4>2 DEF FirstAhead
        <5>2. b = 0
          <6>1. Len(batch) + 1 \in 1 .. Len(batch) + 1 BY CountFacts
          <6>2. batch \in Seq(LooperEvent) BY WakesFacts
          <6>3. CountFrom(batch, Len(batch) + 1, {"wake"}) = 0
            BY <6>1, <6>2, CountFromFacts
          <6>4. QED BY <5>1, <6>3
        <5>3. CountFrom(batch', 1, {"wake"}) = 0
          <6>1. 1 \in 1 .. Len(batch') + 1 /\ 1 = Len(batch') + 1 BY <5>1
          <6>2. QED BY <1>5, <6>1, CountFromFacts
        <5>4. QED BY <5>1, <5>2, <5>3
      <4>3. QED BY <4>1, <4>2
    <3>5. Due' = p + b + w + 0 BY <1>4, <3>1, <3>2, <3>4
    <3>6. Due' = Due BY <1>3, <3>1, <3>5
    <3>7. QED BY <1>2, <1>3, <1>6, <2>1, <2>2, <3>6
  <2>6. QED BY <1>11, <2>3, <2>4, <2>5
<1>12. CASE HandleReply \/ HandleData
  <2>1. /\ dpc = "handle" /\ dpc' = "dispatch" /\ item.type # "setup"
        /\ UNCHANGED <<pipe, batch, pos, mQ>>
    BY <1>12 DEF HandleReply, HandleData, looperVars
  <2>2. FirstAhead' = FirstAhead /\ Running' = Running /\ ~ExitSeen
    BY <2>1 DEF FirstAhead, Running, Draining, ExitSeen
  <2>3. Due' = Due BY <1>3, <1>4, <2>1, <2>2
  <2>4. QED BY <1>2, <1>3, <1>6, <2>1, <2>2, <2>3
<1>13. CASE Leave BY <1>13 DEF Leave, Covered, ExitSeen
<1>14. QED
  BY <1>7, <1>8, <1>9, <1>10, <1>11, <1>12, <1>13 DEF Dispatch

\* Every step keeps all but c commands covered.
LEMMA CoveredNext ==
  ASSUME Shape, NEW c \in Nat, Covered(c), [Next]_vars
  PROVE  Covered(c)'
<1>1. CASE Next
  BY <1>1, CoverPush, CoverWake, CoverOthers, CoverDispatch DEF Next, Post
<1>2. CASE UNCHANGED vars
  <2>1. Due' = Due /\ (ExitSeen' <=> ExitSeen) /\ mQ' = mQ
    BY <1>2 DEF vars, Due, WakesAhead, FirstAhead, Running, Draining, Waking,
       ExitSeen, SeenEvent
  <2>2. QED BY <2>1 DEF Covered
<1>3. QED BY <1>1, <1>2

\* The inductive invariant behind the next two theorems.
WakeInv == Shape /\ Covered(0)

\* An adapter starts with nothing queued.
LEMMA WakeInvInit == Init => WakeInv
<1>1. SUFFICES ASSUME Init PROVE WakeInv
  OBVIOUS
<1>2. Shape BY <1>1, ShapeInit
<1>3. Len(mQ) = 0 BY <1>1 DEF Init
<1>4. QED BY <1>2, <1>3, DueFacts DEF WakeInv, Covered

\* Every step keeps a wake for every command.
LEMMA WakeInvNext == WakeInv /\ [Next]_vars => WakeInv'
BY ShapeNext, CoveredNext DEF WakeInv

\* What the invariant says of the calls of dispatch() to come.
LEMMA WakeInvEvents == WakeInv => WakePerCommand
<1>1. SUFFICES ASSUME Shape, Covered(0) PROVE WakePerCommand
  BY DEF WakeInv
<1>2. /\ EventsAhead \in Nat /\ Cardinality(Waking) \in Nat /\ Running \in {0, 1}
      /\ ~ExitSeen => Len(mQ) <= EventsAhead + Cardinality(Waking) + Running + 0
  BY <1>1, CoveredByEvents, CountFacts, WakesFacts
<1>3. ~ExitSeen => Len(mQ) <= EventsAhead + Cardinality(Waking) + Running
  BY <1>2
<1>4. QED BY <1>3 DEF WakePerCommand, ExitSeen, Running

\* The early return of dispatch() on SETUP strands no command: until the
\* dispatcher sees an exit event, the queue is never longer than the calls of
\* dispatch() still to come.
THEOREM WakePerCommandCorrect == Spec => []WakePerCommand
BY WakeInvInit, WakeInvNext, WakeInvEvents, PTL DEF Spec

\* push() and wakeup() are two steps and nothing guards the pair, yet the
\* dispatcher never sleeps beside a command that no one will wake it for.
THEOREM NoLostWakeupCorrect == Spec => []NoLostWakeup
<1>1. WakeInv => NoLostWakeup
  <2>1. SUFFICES ASSUME WakeInv, dpc = "poll", pipe = <<>>, Waking = {}
                 PROVE  mQ = <<>>
    BY DEF NoLostWakeup
  <2>2. /\ Shape /\ pos = 0 /\ batch = <<>>
    BY <2>1 DEF WakeInv, Shape, IdleLooper, TypeOK, LooperTypeOK
  <2>3. EventsAhead = 0 /\ ~Draining
    BY <2>1, <2>2 DEF EventsAhead, Draining
  <2>4. Cardinality(Waking) = 0 BY <2>1, FS_EmptySet
  <2>5. WakePerCommand BY <2>1, WakeInvEvents
  <2>6. Len(mQ) <= 0
    BY <2>1, <2>2, <2>3, <2>4, <2>5, CountFacts DEF WakePerCommand
  <2>7. QED BY <2>2, <2>6, CountFacts, EmptySeq, LenProperties
            DEF Shape, TypeOK
<1>2. QED BY <1>1, WakeInvInit, WakeInvNext, PTL DEF Spec

-----------------------------------------------------------------------------
(* What the network sent is handled before the dispatcher leaves.          *)

\* An event written is one more call of dispatch() to come.
LEMMA AheadGrows ==
  ASSUME Shape, UNCHANGED <<batch, pos, dpc>>, Len(pipe') = Len(pipe) + 1
  PROVE  EventsAhead' = EventsAhead + 1
<1>1. /\ Len(pipe) \in Nat /\ Len(batch) \in Nat /\ pos \in Nat
      /\ batch' = batch /\ pos' = pos
  BY CountFacts
<1>2. CASE dpc = "event"
  <2>1. /\ EventsAhead = Len(pipe) + (Len(batch) - pos + 1)
        /\ EventsAhead' = Len(pipe') + (Len(batch) - pos + 1)
    BY <1>1, <1>2 DEF EventsAhead
  <2>2. QED BY <1>1, <2>1
<1>3. CASE dpc # "event"
  <2>1. /\ EventsAhead = Len(pipe) + (Len(batch) - pos)
        /\ EventsAhead' = Len(pipe') + (Len(batch) - pos)
    BY <1>1, <1>3 DEF EventsAhead
  <2>2. QED BY <1>1, <2>1
<1>4. QED BY <1>2, <1>3

\* Commands from the network in the queue.
NetQueued == Count(mQ, FromNetwork)

\* ... that have a call of dispatch() of their own to come: all but one for each
\* call that another thread's SETUP has ended.
NetDue == NetQueued - stops

\* The wake the coordinator is about to write.
Owed == IF pc["coordinator"] = "wake" THEN 1 ELSE 0

Left == dpc \in {"leave", "exited"}

Ended == pc["coordinator"] = "ended"

\* A command is pushed by the thread it names: a SETUP is the network's or one
\* of those that stops counts.
OwnCommands ==
  \A t \in Poster : pc[t] = "push" => out[t].from = t

\* The network's commands have calls of dispatch() ahead of them ...
CallPerMessage ==
  ~Left => NetDue <= EventsAhead + Owed + Running

\* ... and, once the exit event is written, ahead of that event: in the pipe,
\* in the batch, as the event being served.
ExitIsLast ==
  /\ \A k \in 1 .. Len(pipe) :
       pipe[k] = "exit"
         => Ended /\ NetDue <= (Len(batch) - FirstAhead + 1) + (k - 1) + Running
  /\ \A k \in FirstAhead .. Len(batch) :
       batch[k] = "exit" => Ended /\ NetDue <= (k - FirstAhead) + Running
  /\ dpc \in {"dispatch", "handle"} /\ batch[pos] = "exit"
       => Ended /\ NetDue <= Running
  /\ Left => Ended /\ NetDue <= 0
  /\ mExited => Left

DrainInv == Shape /\ OwnCommands /\ CallPerMessage /\ ExitIsLast

\* The numbers the invariant compares.
LEMMA DrainFacts ==
  ASSUME Shape
  PROVE  /\ mQ \in Seq(Command) /\ NetQueued \in Nat /\ stops \in Nat
         /\ NetDue = NetQueued - stops /\ NetDue \in Int
         /\ Len(pipe) \in Nat /\ Len(batch) \in Nat /\ pos \in 0 .. Len(batch)
         /\ FirstAhead \in 1 .. Len(batch) + 1
         /\ EventsAhead = Len(pipe) + (Len(batch) - FirstAhead + 1)
         /\ Owed \in {0, 1} /\ Running \in {0, 1}
         /\ dpc \in {"event", "dispatch", "handle"} => pos \in 1 .. Len(batch)
<1>1. mQ \in Seq(Command) BY DEF Shape, TypeOK
<1>2. NetQueued \in Nat BY <1>1, CountNat DEF NetQueued
<1>7. stops \in Nat /\ NetDue = NetQueued - stops /\ NetDue \in Int
  BY <1>2 DEF NetDue, Shape, TypeOK
<1>3. /\ Len(pipe) \in Nat /\ Len(batch) \in Nat /\ pos \in 0 .. Len(batch)
      /\ dpc \in {"event", "dispatch", "handle"} => pos # 0
  BY CountFacts DEF Shape, TypeOK
<1>4. /\ FirstAhead \in 1 .. Len(batch) + 1
      /\ EventsAhead = Len(pipe) + (Len(batch) - FirstAhead + 1)
  <2>1. CASE dpc = "event" BY <1>3, <2>1 DEF FirstAhead, EventsAhead
  <2>2. CASE dpc # "event" BY <1>3, <2>2 DEF FirstAhead, EventsAhead
  <2>3. QED BY <2>1, <2>2
<1>5. Owed \in {0, 1} /\ Running \in {0, 1} BY DEF Owed, Running
<1>6. QED BY <1>1, <1>2, <1>3, <1>4, <1>5, <1>7

\* An empty queue holds nothing of the network's.
LEMMA NoneQueued ==
  ASSUME Shape, Len(mQ) = 0
  PROVE  NetDue <= 0
<1>1. mQ \in Seq(Command) BY DrainFacts
<1>2. \A k \in 1 .. Len(mQ) : mQ[k] \notin FromNetwork OBVIOUS
<1>3. Count(mQ, FromNetwork) = 0 BY <1>1, <1>2, CountNat
<1>4. NetQueued = 0 BY <1>3 DEF NetQueued
<1>5. QED BY <1>4, DrainFacts

\* A step that leaves the looper, the queue and the dispatcher alone, and does
\* not take the coordinator back behind the exit event.
LEMMA DrainQuiet ==
  ASSUME DrainInv, UNCHANGED <<looperVars, mQ, dpc, item, mExited, stops>>,
         Ended => Ended', Owed = 0
  PROVE  CallPerMessage' /\ ExitIsLast'
<1>1. UNCHANGED <<pipe, batch, pos, mQ, dpc, item, mExited, stops>> BY DEF looperVars
<1>2. /\ NetDue' = NetDue /\ EventsAhead' = EventsAhead
      /\ FirstAhead' = FirstAhead /\ Running' = Running /\ (Left' <=> Left)
  BY <1>1 DEF NetQueued, NetDue, EventsAhead, FirstAhead, Running, Draining, Left
<1>3. Owed' \in {0, 1} BY DEF Owed
<1>4. /\ NetDue \in Int /\ EventsAhead \in Nat /\ Running \in {0, 1}
  BY DrainFacts, CountFacts DEF DrainInv
<1>5. CallPerMessage'
  <2>1. ~Left => NetDue <= EventsAhead + 0 + Running
    BY DEF DrainInv, CallPerMessage
  <2>2. \A o \in {0, 1} : ~Left => NetDue <= EventsAhead + o + Running
    BY <1>4, <2>1
  <2>3. ~Left => NetDue <= EventsAhead + Owed' + Running BY <1>3, <2>2
  <2>4. QED BY <1>2, <2>3 DEF CallPerMessage
<1>6. ExitIsLast' BY <1>1, <1>2 DEF DrainInv, ExitIsLast
<1>7. QED BY <1>5, <1>6

\* A push of the coordinator adds at most one message, and the wake it owes;
\* there is no exit event yet.
LEMMA DrainPush ==
  ASSUME DrainInv, NEW t \in Poster, Push(t)
  PROVE  OwnCommands' /\ CallPerMessage' /\ ExitIsLast'
<1> DEFINE c == out[t]
           mine == IF t = "coordinator" THEN 1 ELSE 0
<1>1. /\ Shape /\ OwnCommands /\ CallPerMessage /\ ExitIsLast BY DEF DrainInv
<1>2. /\ mQ' = mQ \/ mQ' = Append(mQ, c)
      /\ pc[t] = "push" /\ pc' = [pc EXCEPT ![t] = "wake"]
      /\ out' = [out EXCEPT ![t] = NoItem]
      /\ UNCHANGED <<pipe, batch, pos, dpc, item, mExited, stops>>
  BY DEF Push, looperVars
<1>3. c \in Command /\ pc \in [Poster -> {"bind", "failed", "accept", "exit",
                                           "ended", "idle", "push", "wake"}]
  BY <1>1, <1>2 DEF Shape, TypeOK
<1>4. /\ "coordinator" \in Poster /\ Caller \subseteq Poster
      /\ \A d \in Caller : d # "coordinator"
      /\ t # "coordinator" => t \in Caller
  BY AdapterAssumption DEF Poster
<1>5. c \in FromNetwork => t = "coordinator"
  <2>1. c.from = t BY <1>1, <1>2 DEF OwnCommands
  <2>2. QED BY <2>1 DEF FromNetwork
<1>6. NetDue' \in Int /\ NetDue' <= NetDue + mine
  <2>1. CASE mQ' = mQ
    <3>1. NetDue' = NetDue BY <1>2, <2>1 DEF NetQueued, NetDue
    <3>2. QED BY <1>1, <3>1, DrainFacts
  <2>2. CASE mQ' = Append(mQ, c)
    <3>1. NetQueued' = NetQueued + (IF c \in FromNetwork THEN 1 ELSE 0)
      <4>1. mQ \in Seq(Command) BY <1>1, DrainFacts
      <4>2. Count(Append(mQ, c), FromNetwork)
              = Count(mQ, FromNetwork) + (IF c \in FromNetwork THEN 1 ELSE 0)
        BY ONLY <1>3, <4>1, CountAppend
      <4>3. QED BY <2>2, <4>2 DEF NetQueued
    <3>2. NetDue' = NetQueued' - stops BY <1>2 DEF NetDue
    <3>3. NetQueued \in Nat /\ stops \in Nat /\ NetDue = NetQueued - stops
      BY <1>1, DrainFacts
    <3>4. (c \in FromNetwork /\ mine = 1) \/ (c \notin FromNetwork /\ mine \in {0, 1})
      BY <1>5
    <3>5. QED BY ONLY <3>1, <3>2, <3>3, <3>4
  <2>3. QED BY <1>2, <2>1, <2>2
<1> HIDE DEF c
<1>7. OwnCommands'
  <2>1. \A d \in Poster : pc'[d] = "push" => pc[d] = "push" /\ out'[d] = out[d]
    BY <1>2, <1>3 DEF Shape, TypeOK, DrainInv
  <2>2. QED BY <1>1, <2>1 DEF OwnCommands
<1>8. /\ EventsAhead' = EventsAhead /\ FirstAhead' = FirstAhead
      /\ Running' = Running /\ (Left' <=> Left)
  BY <1>2 DEF EventsAhead, FirstAhead, Running, Draining, Left
<1>9. Owed' = Owed + mine
  BY <1>2, <1>3, <1>4 DEF Owed
<1>10. CallPerMessage'
  <2>1. /\ NetDue \in Int /\ EventsAhead \in Nat /\ Running \in {0, 1}
        /\ Owed \in {0, 1} /\ mine \in {0, 1}
    BY <1>1, DrainFacts, CountFacts
  <2>2. ~Left => NetDue <= EventsAhead + Owed + Running
    BY <1>1 DEF CallPerMessage
  <2> HIDE DEF mine
  <2>3. QED BY <1>6, <1>8, <1>9, <2>1, <2>2 DEF CallPerMessage
<1>11. ExitIsLast'
  <2>1. CASE t = "coordinator"
    <3>1. ~Ended BY <1>2, <2>1 DEF Ended
    <3>2. QED BY <1>1, <1>2, <1>8, <3>1 DEF ExitIsLast
  <2>2. CASE t # "coordinator"
    <3>1. /\ NetDue' <= NetDue /\ NetDue \in Int /\ NetDue' \in Int
          /\ (Ended' <=> Ended)
      BY <1>1, <1>2, <1>3, <1>4, <1>6, <2>2, DrainFacts DEF Ended
    <3>2. /\ Len(pipe) \in Nat /\ Len(batch) \in Nat /\ FirstAhead \in Nat
          /\ Running \in {0, 1}
      BY <1>1, DrainFacts
    <3>3. ASSUME NEW x \in Int, NetDue <= x PROVE NetDue' <= x
      BY <3>1, <3>3
    <3>4. \A k \in 1 .. Len(pipe) :
            pipe[k] = "exit"
              => Ended /\ NetDue'
                            <= (Len(batch) - FirstAhead + 1) + (k - 1) + Running
      BY <1>1, <3>2, <3>3 DEF ExitIsLast
    <3>5. \A k \in FirstAhead .. Len(batch) :
            batch[k] = "exit" => Ended /\ NetDue' <= (k - FirstAhead) + Running
      BY <1>1, <3>2, <3>3 DEF ExitIsLast
    <3>6. dpc \in {"dispatch", "handle"} /\ batch[pos] = "exit"
            => Ended /\ NetDue' <= Running
      BY <1>1, <3>2, <3>3 DEF ExitIsLast
    <3>7. (Left => Ended /\ NetDue' <= 0) /\ (mExited => Left)
      BY <1>1, <3>1 DEF ExitIsLast
    <3>8. QED BY <1>2, <1>8, <3>1, <3>4, <3>5, <3>6, <3>7 DEF ExitIsLast
  <2>3. QED BY <2>1, <2>2
<1>12. QED BY <1>7, <1>10, <1>11

\* A wake is one more event; behind the exit event it does not count.
LEMMA DrainWake ==
  ASSUME DrainInv, NEW t \in Poster, Wake(t)
  PROVE  OwnCommands' /\ CallPerMessage' /\ ExitIsLast'
<1>1. Shape /\ OwnCommands /\ CallPerMessage /\ ExitIsLast BY DEF DrainInv
<1>2. /\ pc[t] = "wake" /\ Len(pipe) < PipeCapacity /\ pipe' = Append(pipe, "wake")
      /\ pc' = [pc EXCEPT ![t] = IF t = "coordinator" THEN "accept" ELSE "idle"]
      /\ UNCHANGED <<batch, pos, mQ, out, dpc, item, mExited, stops>>
  BY DEF Wake, WriteEvent
<1>3. /\ "coordinator" \in Poster /\ Caller \subseteq Poster
      /\ pc \in [Poster -> {"bind", "failed", "accept", "exit", "ended", "idle",
                            "push", "wake"}]
      /\ pipe \in Seq(LooperEvent)
  BY <1>1 DEF Poster, Shape, TypeOK, LooperTypeOK
<1>4. /\ Len(pipe') = Len(pipe) + 1 /\ pipe'[Len(pipe) + 1] = "wake"
      /\ \A k \in 1 .. Len(pipe) : pipe'[k] = pipe[k]
  BY <1>2, <1>3, AppendProperties DEF LooperEvent
<1>5. OwnCommands'
  BY <1>1, <1>2, <1>3, AdapterAssumption DEF OwnCommands, Poster
<1>6. /\ FirstAhead' = FirstAhead /\ Running' = Running /\ (Left' <=> Left)
      /\ NetDue' = NetDue
  BY <1>2 DEF FirstAhead, Running, Draining, Left, NetQueued, NetDue
<1>7. Ended' <=> Ended BY <1>2, <1>3 DEF Ended
<1>8. Owed <= Owed' + 1 /\ Owed' \in {0, 1} BY DEF Owed
<1>9. /\ Len(pipe) \in Nat /\ Len(batch) \in Nat /\ FirstAhead \in 1 .. Len(batch) + 1
      /\ Running \in {0, 1} /\ NetDue \in Int /\ Owed \in {0, 1}
      /\ EventsAhead = Len(pipe) + (Len(batch) - FirstAhead + 1)
  BY <1>1, DrainFacts
<1>10. CallPerMessage'
  <2>1. EventsAhead' = EventsAhead + 1 BY <1>1, <1>2, <1>4, AheadGrows
  <2>2. EventsAhead \in Nat BY <1>1, CountFacts
  <2>3. ~Left => NetDue <= EventsAhead + Owed + Running
    BY <1>1 DEF CallPerMessage
  <2> DEFINE o == Owed'
             a == EventsAhead'
  <2>4. o \in {0, 1} /\ Owed <= o + 1 /\ a = EventsAhead + 1
    BY <1>8, <2>1
  <2> HIDE DEF o, a
  <2>5. ~Left => NetDue <= a + o + Running
    BY <1>9, <2>2, <2>3, <2>4
  <2>6. QED BY <1>6, <2>5 DEF CallPerMessage, o, a
<1>11. ExitIsLast'
  <2>1. \A k \in 1 .. Len(pipe') :
          pipe'[k] = "exit" => k \in 1 .. Len(pipe) /\ pipe[k] = "exit"
    BY <1>4, <1>9
  <2>2. QED BY <1>1, <1>2, <1>6, <1>7, <2>1 DEF ExitIsLast
<1>12. QED BY <1>5, <1>10, <1>11

\* The exit event is written behind every event there is, and the coordinator
\* pushes nothing after it.
LEMMA DrainKill ==
  ASSUME DrainInv, Kill
  PROVE  OwnCommands' /\ CallPerMessage' /\ ExitIsLast'
<1>1. Shape /\ OwnCommands /\ CallPerMessage /\ ExitIsLast BY DEF DrainInv
<1>2. /\ pc["coordinator"] = "exit" /\ pipe' = Append(pipe, "exit")
      /\ pc' = [pc EXCEPT !["coordinator"] = "ended"]
      /\ UNCHANGED <<batch, pos, mQ, out, dpc, item, mExited, stops>>
  BY DEF Kill, WriteEvent
<1>3. /\ "coordinator" \in Poster /\ Caller \subseteq Poster
      /\ pc \in [Poster -> {"bind", "failed", "accept", "exit", "ended", "idle",
                            "push", "wake"}]
      /\ pipe \in Seq(LooperEvent)
  BY <1>1 DEF Poster, Shape, TypeOK, LooperTypeOK
<1>4. /\ Len(pipe') = Len(pipe) + 1 /\ pipe'[Len(pipe) + 1] = "exit"
      /\ \A k \in 1 .. Len(pipe) : pipe'[k] = pipe[k]
  BY <1>2, <1>3, AppendProperties DEF LooperEvent
<1>5. ~Ended /\ Ended' /\ Owed = 0 /\ Owed' = 0 BY <1>2, <1>3 DEF Ended, Owed
<1>6. OwnCommands' BY <1>1, <1>2, <1>3, AdapterAssumption DEF OwnCommands
<1>7. /\ FirstAhead' = FirstAhead /\ Running' = Running /\ (Left' <=> Left)
      /\ NetDue' = NetDue
  BY <1>2 DEF FirstAhead, Running, Draining, Left, NetQueued, NetDue
<1>8. /\ Len(pipe) \in Nat /\ Len(batch) \in Nat /\ FirstAhead \in 1 .. Len(batch) + 1
      /\ Running \in {0, 1} /\ NetDue \in Int /\ EventsAhead \in Nat
      /\ EventsAhead = Len(pipe) + (Len(batch) - FirstAhead + 1)
  BY <1>1, DrainFacts, CountFacts
<1>9. ~Left BY <1>1, <1>5 DEF ExitIsLast
<1>10. NetDue <= EventsAhead + Running
  <2>1. NetDue <= EventsAhead + 0 + Running
    BY <1>1, <1>5, <1>9 DEF CallPerMessage
  <2>2. QED BY <1>8, <2>1
<1>11. CallPerMessage'
  <2>1. EventsAhead' = EventsAhead + 1 BY <1>1, <1>2, <1>4, AheadGrows
  <2>2. NetDue <= (EventsAhead + 1) + 0 + Running BY <1>8, <1>10
  <2>3. QED BY <1>5, <1>7, <2>1, <2>2 DEF CallPerMessage
<1>12. ExitIsLast'
  <2>1. \A k \in 1 .. Len(pipe') :
          pipe'[k] = "exit"
            => NetDue <= (Len(batch) - FirstAhead + 1) + (k - 1) + Running
    <3>1. \A k \in 1 .. Len(pipe) : pipe'[k] # "exit"
      BY <1>1, <1>4, <1>5 DEF ExitIsLast
    <3>2. \A k \in 1 .. Len(pipe') : pipe'[k] = "exit" => k = Len(pipe) + 1
      BY <1>4, <1>8, <3>1
    <3>3. NetDue <= (Len(batch) - FirstAhead + 1) + (Len(pipe) + 1 - 1) + Running
      BY <1>8, <1>10
    <3>4. QED BY <3>2, <3>3
  <2>2. \A k \in FirstAhead .. Len(batch) : batch[k] # "exit"
    BY <1>1, <1>5 DEF ExitIsLast
  <2>3. ~(dpc \in {"dispatch", "handle"} /\ batch[pos] = "exit")
    BY <1>1, <1>5 DEF ExitIsLast
  <2>4. ~mExited BY <1>1, <1>9 DEF ExitIsLast
  <2>5. QED BY <1>2, <1>5, <1>7, <1>9, <2>1, <2>2, <2>3, <2>4 DEF ExitIsLast
<1>13. QED BY <1>6, <1>11, <1>12

\* What the other threads do besides leaves queue and looper alone.
LEMMA DrainOthers ==
  ASSUME DrainInv,
         \/ \E t \in Caller : AddQueue(t)
         \/ Bind \/ BindFails \/ Receiving \/ AcceptFails \/ Return
  PROVE  OwnCommands' /\ CallPerMessage' /\ ExitIsLast'
<1>1. Shape /\ OwnCommands BY DEF DrainInv
<1>2. /\ "coordinator" \in Poster /\ Caller \subseteq Poster
      /\ \A d \in Caller : d # "coordinator"
      /\ pc \in [Poster -> {"bind", "failed", "accept", "exit", "ended", "idle",
                            "push", "wake"}]
      /\ out \in [Poster -> Command \cup {NoItem}]
  BY <1>1, AdapterAssumption DEF Poster, Shape, TypeOK
<1>3. UNCHANGED <<looperVars, mQ, dpc, item, mExited, stops>>
  BY DEF AddQueue, Bind, BindFails, Receiving, Receive, ReceiveShort,
         ReceiveKill, AcceptFails, Return, netRest
<1>4. CASE \E t \in Caller : AddQueue(t)
  <2>1. PICK t \in Caller : AddQueue(t) BY <1>4
  <2>2. PICK type \in CmdType :
          /\ pc' = [pc EXCEPT ![t] = "push"]
          /\ out' = [out EXCEPT ![t] = [type |-> type, from |-> t]]
    BY <2>1 DEF AddQueue, Ready
  <2>3. pc'["coordinator"] = pc["coordinator"] /\ out'["coordinator"] = out["coordinator"]
    BY <1>2, <2>2
  <2>4. OwnCommands' BY <1>1, <1>2, <1>3, <2>2, <2>3 DEF OwnCommands
  <2>5. Ended' = Ended /\ Owed' = Owed BY <2>3 DEF Ended, Owed
  <2>6. UNCHANGED <<pipe, batch, pos>> BY <1>3 DEF looperVars
  <2>7. /\ NetDue' = NetDue /\ EventsAhead' = EventsAhead
        /\ FirstAhead' = FirstAhead /\ Running' = Running /\ Left' = Left
    BY <1>3, <2>6 DEF NetQueued, NetDue, EventsAhead, FirstAhead, Running, Draining, Left
  <2>8. CallPerMessage' BY <2>5, <2>7 DEF DrainInv, CallPerMessage
  <2>9. ExitIsLast' BY <1>3, <2>5, <2>6, <2>7 DEF DrainInv, ExitIsLast
  <2>10. QED BY <2>4, <2>8, <2>9
<1>5. CASE Bind \/ Receiving \/ BindFails \/ AcceptFails
  <2>1. pc["coordinator"] \in {"bind", "accept"}
    BY <1>5 DEF Bind, BindFails, Receiving, Receive, ReceiveShort, ReceiveKill,
                AcceptFails
  <2>2. \A d \in Caller : pc'[d] = pc[d] /\ out'[d] = out[d]
    BY <1>2, <1>5 DEF Bind, BindFails, Receiving, Receive, ReceiveShort,
                      ReceiveKill, AcceptFails, Ready
  <2>3. pc'["coordinator"] = "push" => out'["coordinator"].from = "coordinator"
    <3>1. \A type \in CmdType :
            Ready("coordinator", type) => out'["coordinator"].from = "coordinator"
      BY <1>2 DEF Ready
    <3>2. CASE Bind BY <3>1, <3>2 DEF Bind, CmdType
    <3>3. CASE \E type \in CmdType : Receive(type) BY <3>1, <3>3 DEF Receive
    <3>4. CASE ReceiveShort \/ ReceiveKill \/ BindFails \/ AcceptFails
      BY <1>2, <2>1, <3>4 DEF ReceiveShort, ReceiveKill, BindFails, AcceptFails
    <3>5. QED BY <1>5, <3>2, <3>3, <3>4 DEF Receiving
  <2>4. OwnCommands' BY <1>1, <2>2, <2>3 DEF OwnCommands, Poster
  <2>5. ~Ended /\ Owed = 0 BY <2>1 DEF Ended, Owed
  <2>6. QED BY <1>3, <2>4, <2>5, DrainQuiet
<1>6. CASE Return
  <2>1. UNCHANGED <<pc, out>> BY <1>6 DEF Return
  <2>2. OwnCommands' BY <1>1, <1>3, <2>1 DEF OwnCommands
  <2>3. UNCHANGED <<pipe, batch, pos>> BY <1>3 DEF looperVars
  <2>4. CallPerMessage' /\ ExitIsLast'
    BY <1>3, <2>1, <2>3 DEF DrainInv, CallPerMessage, ExitIsLast, Ended, Owed,
       NetQueued, NetDue, EventsAhead, FirstAhead, Running, Draining, Left
  <2>5. QED BY <2>2, <2>4
<1>7. QED BY <1>4, <1>5, <1>6

\* A read moves the events from the pipe to the batch, the exit event at the
\* same distance.
LEMMA DrainPoll ==
  ASSUME DrainInv, Poll
  PROVE  OwnCommands' /\ CallPerMessage' /\ ExitIsLast'
<1>1. Shape /\ OwnCommands /\ CallPerMessage /\ ExitIsLast BY DEF DrainInv
<1>2. /\ dpc = "poll" /\ dpc' = "event" /\ pos = 0 /\ batch = <<>> /\ pos' = 1
      /\ UNCHANGED <<mQ, item, mExited, stops, pc, out>>
  BY <1>1 DEF Poll, ReadBatch, dispRest, Shape, IdleLooper, TypeOK, LooperTypeOK
<1> DEFINE n == Len(batch')
<1>3. /\ n > 0 /\ n \in Nat /\ Len(pipe') \in Nat /\ Len(pipe') + n = Len(pipe)
      /\ \A i \in 1 .. n : batch'[i] = pipe[i]
      /\ \A i \in 1 .. Len(pipe') : pipe'[i] = pipe[i + n]
  <2>1. ReadBatch /\ LooperTypeOK BY <1>1 DEF Poll, Shape, TypeOK
  <2>2. LooperTypeOK' BY <2>1, ReadKeeps
  <2>3. Len(batch') \in Nat /\ Len(pipe') \in Nat
    BY <2>2, LenProperties DEF LooperTypeOK
  <2>4. QED BY <2>1, <2>3, ReadKeeps
<1>4. /\ FirstAhead = 1 /\ FirstAhead' = 1 /\ Len(batch) = 0 /\ Running = 0
      /\ Running' = 0 /\ ~Left /\ ~Left' /\ NetDue' = NetDue
      /\ (Ended' <=> Ended) /\ Owed' = Owed
  BY <1>2 DEF FirstAhead, Running, Draining, Left, NetQueued, NetDue, Ended, Owed
<1>5. NetDue \in Int /\ Len(pipe) \in Nat /\ Owed \in {0, 1}
      /\ EventsAhead = Len(pipe)
  BY <1>1, <1>4, DrainFacts
<1>6. OwnCommands' BY <1>1, <1>2 DEF OwnCommands
<1>7. CallPerMessage'
  <2>1. EventsAhead' = Len(pipe') + (n - 1 + 1) BY <1>2 DEF EventsAhead
  <2>2. EventsAhead' = EventsAhead BY <1>3, <1>5, <2>1
  <2>3. QED BY <1>1, <1>4, <2>2 DEF CallPerMessage
<1> HIDE DEF n
<1>8. \A k \in 1 .. Len(pipe) :
        pipe[k] = "exit" => Ended /\ NetDue <= k - 1
  <2>1. \A k \in 1 .. Len(pipe) :
          pipe[k] = "exit" => Ended /\ NetDue <= (0 - 1 + 1) + (k - 1) + 0
    BY <1>1, <1>4 DEF ExitIsLast
  <2>2. QED BY <1>5, <2>1
<1>9. \A k \in 1 .. Len(pipe') :
        pipe'[k] = "exit" => Ended /\ NetDue <= (n - 1 + 1) + (k - 1) + 0
  <2>1. ASSUME NEW k \in 1 .. Len(pipe'), pipe'[k] = "exit"
        PROVE  Ended /\ NetDue <= (n - 1 + 1) + (k - 1) + 0
    <3>1. k + n \in 1 .. Len(pipe) /\ pipe[k + n] = "exit" BY <1>3, <2>1
    <3>2. Ended /\ NetDue <= (k + n) - 1 BY <1>8, <3>1
    <3>3. QED BY <1>3, <1>5, <3>2
  <2>2. QED BY <2>1
<1>10. \A k \in 1 .. n : batch'[k] = "exit" => Ended /\ NetDue <= (k - 1) + 0
  BY <1>3, <1>5, <1>8
<1>11. ExitIsLast'
  BY <1>1, <1>2, <1>4, <1>9, <1>10 DEF ExitIsLast, n
<1>12. QED BY <1>6, <1>7, <1>11

\* The callback for an event: dispatch() is called, or the loop is left, and
\* then nothing of the network's is queued.
LEMMA DrainCallback ==
  ASSUME DrainInv, CallbackExit \/ CallbackWake
  PROVE  OwnCommands' /\ CallPerMessage' /\ ExitIsLast'
<1>1. Shape /\ OwnCommands /\ CallPerMessage /\ ExitIsLast BY DEF DrainInv
<1>2. dpc = "event" /\ UNCHANGED <<mQ, item, mExited, stops, pc, out>>
  BY DEF CallbackExit, CallbackWake, dispRest
<1>3. /\ FirstAhead = pos /\ pos \in 1 .. Len(batch) /\ Running = 0 /\ ~Left
      /\ NetDue' = NetDue /\ (Ended' <=> Ended) /\ Owed' = Owed
  BY <1>1, <1>2, DrainFacts
     DEF FirstAhead, Running, Draining, Left, NetQueued, NetDue, Ended, Owed
<1>4. /\ NetDue \in Int /\ Len(pipe) \in Nat /\ Len(batch) \in Nat
      /\ Owed \in {0, 1} /\ EventsAhead = Len(pipe) + (Len(batch) - pos + 1)
  BY <1>1, <1>3, DrainFacts
<1>5. OwnCommands' BY <1>1, <1>2 DEF OwnCommands
<1>6. \A k \in pos .. Len(batch) :
        batch[k] = "exit" => Ended /\ NetDue <= (k - pos)
  <2>1. \A k \in pos .. Len(batch) :
          batch[k] = "exit" => Ended /\ NetDue <= (k - pos) + 0
    BY <1>1, <1>3 DEF ExitIsLast
  <2>2. QED BY <1>3, <1>4, <2>1
<1>7. \A k \in 1 .. Len(pipe) :
        pipe[k] = "exit"
          => Ended /\ NetDue <= (Len(batch) - pos + 1) + (k - 1)
  <2>1. \A k \in 1 .. Len(pipe) :
          pipe[k] = "exit"
            => Ended /\ NetDue <= (Len(batch) - pos + 1) + (k - 1) + 0
    BY <1>1, <1>3 DEF ExitIsLast
  <2>2. QED BY <1>3, <1>4, <2>1
<1>8. CASE CallbackExit
  <2>1. batch[1] = "exit" /\ BackToLoop BY <1>8 DEF CallbackExit, SeenEvent
  <2>2. pos = 1 BY <1>1, <1>3, <2>1 DEF Shape, ServedAreWakes
  <2>3. Ended /\ NetDue <= 0 BY <1>3, <1>4, <1>6, <2>1, <2>2
  <2>4. LeavesLoop BY <2>1, <2>2 DEF LeavesLoop
  <2>5. dpc' = "leave" /\ pipe' = pipe /\ pos' = 0 /\ Len(batch') = 0
    BY <2>1, <2>4 DEF BackToLoop, EventServed, MoreEvents
  <2>6. Left' /\ FirstAhead' = 1 /\ Running' = 0
    BY <2>5 DEF Left, FirstAhead, Running, Draining
  <2>7. \A k \in 1 .. Len(pipe) : NetDue <= (0 - 1 + 1) + (k - 1) + 0
    BY <1>4, <2>3
  <2>8. ExitIsLast'
    BY <1>1, <1>2, <1>3, <2>3, <2>5, <2>6, <2>7 DEF ExitIsLast
  <2>9. CallPerMessage' BY <2>6 DEF CallPerMessage
  <2>10. QED BY <1>5, <2>8, <2>9
<1>9. CASE CallbackWake
  <2>1. dpc' = "dispatch" /\ UNCHANGED <<pipe, batch, pos>>
    BY <1>9 DEF CallbackWake, looperVars
  <2>2. FirstAhead' = pos + 1 /\ Running' = 1 /\ ~Left'
        /\ EventsAhead' = Len(pipe) + (Len(batch) - pos)
    BY <2>1 DEF FirstAhead, Running, Draining, Left, EventsAhead
  <2>3. CallPerMessage'
    <3>1. NetDue <= Len(pipe) + (Len(batch) - pos + 1) + Owed + 0
      BY <1>1, <1>3, <1>4 DEF CallPerMessage
    <3>2. NetDue <= (Len(pipe) + (Len(batch) - pos)) + Owed + 1
      BY <1>3, <1>4, <3>1
    <3>3. QED BY <1>3, <2>2, <3>2 DEF CallPerMessage
  <2>4. \A k \in 1 .. Len(pipe) :
          pipe[k] = "exit"
            => Ended /\ NetDue <= (Len(batch) - (pos + 1) + 1) + (k - 1) + 1
    BY <1>3, <1>4, <1>7
  <2>5. \A k \in pos + 1 .. Len(batch) :
          batch[k] = "exit" => Ended /\ NetDue <= (k - (pos + 1)) + 1
    BY <1>3, <1>4, <1>6
  <2>6. batch[pos] = "exit" => Ended /\ NetDue <= 1
    BY <1>3, <1>4, <1>6
  <2>7. ExitIsLast'
    BY <1>1, <1>2, <1>3, <2>1, <2>2, <2>4, <2>5, <2>6 DEF ExitIsLast
  <2>8. QED BY <1>5, <2>3, <2>7
<1>10. QED BY <1>8, <1>9

\* A command popped: a SETUP, which ends the call in progress, was one of the
\* network's or is counted.
LEMMA DrainPop ==
  ASSUME DrainInv, Pop
  PROVE  OwnCommands' /\ CallPerMessage' /\ ExitIsLast'
<1>1. Shape /\ OwnCommands /\ CallPerMessage /\ ExitIsLast BY DEF DrainInv
<1>2. /\ dpc = "dispatch" /\ dpc' = "handle" /\ mQ # <<>> /\ item' = Head(mQ)
      /\ mQ' = Tail(mQ) /\ UNCHANGED <<pipe, batch, pos, mExited, pc, out>>
      /\ stops' = IF Head(mQ) \in Stopping THEN stops + 1 ELSE stops
  BY DEF Pop, looperVars, dispRest
<1> DEFINE net == IF mQ[1] \in FromNetwork \cup Stopping THEN 1 ELSE 0
<1>3. Head(mQ) = mQ[1] /\ mQ[1] \in Command /\ NetDue' = NetDue - net
  <2>1. /\ Head(mQ) = mQ[1] /\ mQ[1] \in Command
        /\ NetQueued' = NetQueued - (IF mQ[1] \in FromNetwork THEN 1 ELSE 0)
    BY <1>1, <1>2, DrainFacts, CountTail DEF NetQueued
  <2>2. mQ[1] \in Stopping => mQ[1] \notin FromNetwork
    BY DEF Stopping, FromNetwork
  <2>3. NetDue' = NetQueued' - stops' BY DEF NetDue
  <2>4. NetQueued \in Nat /\ stops \in Nat /\ NetDue = NetQueued - stops
    BY <1>1, DrainFacts
  <2>5. QED BY <1>2, <2>1, <2>2, <2>3, <2>4
<1>4. /\ NetDue \in Int /\ Len(pipe) \in Nat /\ Len(batch) \in Nat
      /\ Owed \in {0, 1} /\ FirstAhead \in Nat /\ EventsAhead \in Nat
  BY <1>1, DrainFacts, CountFacts
<1>5. /\ FirstAhead' = FirstAhead /\ EventsAhead' = EventsAhead /\ Running = 1
      /\ (Ended' <=> Ended) /\ Owed' = Owed /\ ~Left /\ ~Left'
  BY <1>2 DEF FirstAhead, EventsAhead, Running, Draining, Ended, Owed, Left
<1>6. Running' \in {0, 1} /\ net \in {0, 1} /\ 1 - net <= Running'
  <2>1. Running' \in {0, 1} /\ net \in {0, 1} BY DEF Running
  <2>2. CASE mQ[1].type = "setup"
    <3>1. mQ[1] \in FromNetwork \cup Stopping
      BY <1>3, <2>2 DEF FromNetwork, Stopping
    <3>2. QED BY <2>1, <3>1
  <2>3. CASE mQ[1].type # "setup"
    <3>1. Running' = 1 BY <1>2, <1>3, <2>3 DEF Running, Draining
    <3>2. QED BY <2>1, <3>1
  <2>4. QED BY <2>2, <2>3
<1> HIDE DEF net
<1>7. ASSUME NEW x \in Int, NetDue <= x + 1 PROVE NetDue' <= x + Running'
  <2>1. \A run \in {0, 1} : 1 - net <= run => NetDue - net <= x + run
    BY <1>4, <1>6, <1>7
  <2>2. QED BY <1>3, <1>6, <2>1
<1>8. OwnCommands' BY <1>1, <1>2 DEF OwnCommands
<1>9. CallPerMessage'
  <2>1. NetDue <= (EventsAhead + Owed) + 1
    BY <1>1, <1>5 DEF CallPerMessage
  <2>2. EventsAhead + Owed \in Int BY <1>4
  <2>3. NetDue' <= (EventsAhead + Owed) + Running' BY <1>7, <2>1, <2>2
  <2>4. QED BY <1>5, <2>3 DEF CallPerMessage
<1>10. ExitIsLast'
  <2>1. \A k \in 1 .. Len(pipe) :
          pipe[k] = "exit"
            => Ended /\ NetDue'
                          <= (Len(batch) - FirstAhead + 1) + (k - 1) + Running'
    <3>1. \A k \in 1 .. Len(pipe) :
            (Len(batch) - FirstAhead + 1) + (k - 1) \in Int
      BY <1>4
    <3>2. \A k \in 1 .. Len(pipe) :
            pipe[k] = "exit"
              => Ended /\ NetDue <= (Len(batch) - FirstAhead + 1) + (k - 1) + 1
      BY <1>1, <1>5 DEF ExitIsLast
    <3>3. QED BY <1>7, <3>1, <3>2
  <2>2. \A k \in FirstAhead .. Len(batch) :
          batch[k] = "exit" => Ended /\ NetDue' <= (k - FirstAhead) + Running'
    <3>1. \A k \in FirstAhead .. Len(batch) : (k - FirstAhead) \in Int BY <1>4
    <3>2. \A k \in FirstAhead .. Len(batch) :
            batch[k] = "exit" => Ended /\ NetDue <= (k - FirstAhead) + 1
      BY <1>1, <1>5 DEF ExitIsLast
    <3>3. QED BY <1>7, <3>1, <3>2
  <2>3. batch[pos] = "exit" => Ended /\ NetDue' <= Running'
    <3>1. batch[pos] = "exit" => Ended /\ NetDue <= 0 + 1
      BY <1>1, <1>2, <1>5 DEF ExitIsLast
    <3>2. batch[pos] = "exit" => Ended /\ NetDue' <= 0 + Running'
      BY <1>7, <3>1
    <3>3. QED BY <1>6, <3>2
  <2>4. ~mExited BY <1>1, <1>5 DEF ExitIsLast
  <2>5. QED BY <1>2, <1>5, <2>1, <2>2, <2>3, <2>4 DEF ExitIsLast
<1>11. QED BY <1>8, <1>9, <1>10

\* dispatch() returns: the loop goes on, polls, or is left at the exit event,
\* when no message of the network is queued.
LEMMA DrainBack ==
  ASSUME DrainInv, QueueEmpty \/ HandleSetup
  PROVE  OwnCommands' /\ CallPerMessage' /\ ExitIsLast'
<1>1. Shape /\ OwnCommands /\ CallPerMessage /\ ExitIsLast BY DEF DrainInv
<1>2. /\ dpc \in {"dispatch", "handle"} /\ BackToLoop
      /\ UNCHANGED <<mQ, mExited, stops, pc, out>>
  BY DEF QueueEmpty, HandleSetup, dispRest
<1>3. /\ FirstAhead = pos + 1 /\ ~Left /\ NetDue' = NetDue
      /\ (Ended' <=> Ended) /\ Owed' = Owed
  BY <1>2 DEF FirstAhead, Left, NetQueued, NetDue, Ended, Owed
<1>4. /\ NetDue \in Int /\ Len(pipe) \in Nat /\ Len(batch) \in Nat
      /\ Owed \in {0, 1} /\ Running \in {0, 1} /\ pos \in 1 .. Len(batch)
      /\ EventsAhead = Len(pipe) + (Len(batch) - pos)
  <2>1. Shape /\ pos \in 0 .. Len(batch) /\ pos # 0
    BY <1>1, <1>2, CountFacts DEF Shape, TypeOK
  <2>2. dpc # "event" BY <1>2
  <2>3. EventsAhead = Len(pipe) + (Len(batch) - pos) BY <2>2 DEF EventsAhead
  <2>4. QED BY <1>1, <2>1, <2>3, DrainFacts
<1>5. NetDue <= 0 \/ Running = 0
  <2>1. CASE QueueEmpty
    <3>1. Len(mQ) = 0 BY <2>1 DEF QueueEmpty
    <3>2. NetDue <= 0 BY <1>1, <3>1, NoneQueued
    <3>3. QED BY <3>2
  <2>2. CASE HandleSetup BY <2>2 DEF HandleSetup, Running, Draining
  <2>3. QED BY <2>1, <2>2
<1>6. ASSUME NEW x \in Nat, NetDue <= x + Running PROVE NetDue <= x
  BY <1>4, <1>5, <1>6
<1>7. OwnCommands' BY <1>1, <1>2 DEF OwnCommands
<1>8. /\ pipe' = pipe
      /\ MoreEvents => pos' = pos + 1 /\ batch' = batch
      /\ ~MoreEvents => pos' = 0 /\ Len(batch') = 0
      /\ ~MoreEvents /\ ~LeavesLoop => pos = Len(batch)
  <2>1. LooperTypeOK /\ ServedAreWakes /\ EventServed
    BY <1>1, <1>2 DEF BackToLoop, Shape, TypeOK
  <2>2. QED BY <1>4, <2>1, ServedKeeps
<1>9. Running' = 0 /\ dpc' \in {"leave", "event", "poll"}
  BY <1>2, BackFacts DEF BackToLoop, Running, Draining
<1>10. \A k \in 1 .. Len(pipe) :
         pipe[k] = "exit"
           => Ended /\ NetDue <= (Len(batch) - pos) + (k - 1)
  <2>1. \A k \in 1 .. Len(pipe) : (Len(batch) - pos) + (k - 1) \in Nat BY <1>4
  <2>2. \A k \in 1 .. Len(pipe) :
          (Len(batch) - (pos + 1) + 1) + (k - 1) + Running
            = ((Len(batch) - pos) + (k - 1)) + Running
    BY <1>4
  <2>3. \A k \in 1 .. Len(pipe) :
          pipe[k] = "exit"
            => Ended /\ NetDue <= ((Len(batch) - pos) + (k - 1)) + Running
    BY <1>1, <1>3, <2>2 DEF ExitIsLast
  <2>4. QED BY <1>6, <2>1, <2>3
<1>11. ~mExited BY <1>1, <1>3 DEF ExitIsLast
<1>12. CASE LeavesLoop
  <2>1. Ended /\ NetDue <= 0
    <3>1. Ended /\ NetDue <= 0 + Running
      BY <1>1, <1>2, <1>4, <1>12 DEF ExitIsLast, LeavesLoop
    <3>2. QED BY <1>4, <1>6, <3>1
  <2>2. dpc' = "leave" /\ pos' = 0 /\ Len(batch') = 0
    BY <1>2, <1>8, <1>12 DEF BackToLoop, MoreEvents
  <2>3. Left' /\ FirstAhead' = 1 BY <2>2 DEF Left, FirstAhead
  <2>4. \A k \in 1 .. Len(pipe) : NetDue <= (0 - 1 + 1) + (k - 1) + 0
    BY <1>4, <2>1
  <2>5. ExitIsLast'
    BY <1>2, <1>3, <1>8, <1>9, <1>11, <2>1, <2>2, <2>3, <2>4 DEF ExitIsLast
  <2>6. CallPerMessage' BY <2>3 DEF CallPerMessage
  <2>7. QED BY <1>7, <2>5, <2>6
<1>13. CASE ~LeavesLoop
  <2>1. dpc' = IF MoreEvents THEN "event" ELSE "poll" BY <1>2, <1>13 DEF BackToLoop
  <2>2. ~Left' BY <2>1 DEF Left
  <2>3. EventsAhead' = EventsAhead
    BY <1>1, <1>2, <1>4, <2>2, BackFacts DEF Left
  <2>4. CallPerMessage'
    <3>1. NetDue <= (EventsAhead + Owed) + Running
      BY <1>1, <1>3 DEF CallPerMessage
    <3>2. EventsAhead + Owed \in Nat BY <1>4
    <3>3. NetDue <= EventsAhead + Owed + 0 BY <1>4, <1>6, <3>1, <3>2
    <3>4. QED BY <1>3, <1>9, <2>3, <3>3 DEF CallPerMessage
  <2>5. CASE MoreEvents
    <3>1. /\ FirstAhead' = pos + 1 /\ dpc' = "event" /\ batch' = batch
      BY <1>8, <2>1, <2>5 DEF FirstAhead
    <3>2. \A k \in 1 .. Len(pipe) :
            pipe[k] = "exit"
              => Ended /\ NetDue <= (Len(batch) - (pos + 1) + 1) + (k - 1) + 0
      BY <1>4, <1>10
    <3>3. \A k \in pos + 1 .. Len(batch) :
            batch[k] = "exit" => Ended /\ NetDue <= (k - (pos + 1)) + 0
      <4>1. \A k \in pos + 1 .. Len(batch) : k - (pos + 1) \in Nat BY <1>4
      <4>2. \A k \in pos + 1 .. Len(batch) :
              batch[k] = "exit" => Ended /\ NetDue <= (k - (pos + 1)) + Running
        BY <1>1, <1>3 DEF ExitIsLast
      <4>3. \A k \in pos + 1 .. Len(batch) :
              batch[k] = "exit" => Ended /\ NetDue <= k - (pos + 1)
        BY <1>6, <4>1, <4>2
      <4>4. QED BY <1>4, <4>3
    <3>4. ExitIsLast'
      BY <1>2, <1>3, <1>8, <1>9, <1>11, <2>2, <3>1, <3>2, <3>3 DEF ExitIsLast
    <3>5. QED BY <1>7, <2>4, <3>4
  <2>6. CASE ~MoreEvents
    <3>1. /\ FirstAhead' = 1 /\ dpc' = "poll" /\ Len(batch') = 0 /\ pos = Len(batch)
      BY <1>8, <1>13, <2>1, <2>6 DEF FirstAhead
    <3>2. \A k \in 1 .. Len(pipe) :
            pipe[k] = "exit" => Ended /\ NetDue <= (0 - 1 + 1) + (k - 1) + 0
      BY <1>4, <1>10, <3>1
    <3>3. ExitIsLast'
      BY <1>2, <1>3, <1>8, <1>9, <1>11, <2>2, <3>1, <3>2 DEF ExitIsLast
    <3>4. QED BY <1>7, <2>4, <3>3
  <2>7. QED BY <2>5, <2>6
<1>14. QED BY <1>12, <1>13

\* The rest of dispatch(), and the end of the thread, leave the queue alone.
LEMMA DrainRest ==
  ASSUME DrainInv, HandleReply \/ HandleData \/ Leave
  PROVE  OwnCommands' /\ CallPerMessage' /\ ExitIsLast'
<1>1. Shape /\ OwnCommands /\ CallPerMessage /\ ExitIsLast BY DEF DrainInv
<1>2. UNCHANGED <<pipe, batch, pos, mQ, pc, out, stops>>
  BY DEF HandleReply, HandleData, Leave, looperVars, dispRest
<1>3. /\ FirstAhead' = FirstAhead /\ EventsAhead' = EventsAhead
      /\ Running' = Running /\ (Left' <=> Left)
      /\ dpc' = "dispatch" => dpc = "handle"
      /\ dpc' \in {"dispatch", "exited"} /\ (mExited' => mExited \/ Left)
  BY <1>2 DEF HandleReply, HandleData, Leave, FirstAhead, EventsAhead, Running,
              Draining, Left
<1>4. NetDue' = NetDue /\ (Ended' <=> Ended) /\ Owed' = Owed
  BY <1>2 DEF NetQueued, NetDue, Ended, Owed
<1>5. OwnCommands' BY <1>1, <1>2 DEF OwnCommands
<1>6. CallPerMessage' BY <1>1, <1>3, <1>4 DEF CallPerMessage
<1>7. ExitIsLast' BY <1>1, <1>2, <1>3, <1>4 DEF ExitIsLast
<1>8. QED BY <1>5, <1>6, <1>7

\* An adapter starts with empty queues, and its coordinator has not ended.
LEMMA DrainInvInit == Init => DrainInv
<1>1. SUFFICES ASSUME Init PROVE DrainInv
  OBVIOUS
<1>2. Shape BY <1>1, ShapeInit
<1>3. /\ Len(mQ) = 0 /\ Len(pipe) = 0 /\ Len(batch) = 0 /\ dpc = "poll" /\ pos = 0
      /\ ~mExited /\ \A t \in Poster : pc[t] # "push"
  BY <1>1 DEF Init, LooperInit
<1>4. NetDue <= 0
  BY <1>2, <1>3, NoneQueued
<1>5. OwnCommands BY <1>3 DEF OwnCommands, Poster
<1>6. CallPerMessage
  <2>1. /\ EventsAhead \in Nat /\ Owed \in {0, 1} /\ Running \in {0, 1}
        /\ NetDue \in Int
    BY <1>2, DrainFacts, CountFacts
  <2>2. QED BY <1>4, <2>1 DEF CallPerMessage
<1>7. ExitIsLast BY <1>3 DEF ExitIsLast, FirstAhead, Left
<1>8. QED BY <1>2, <1>5, <1>6, <1>7 DEF DrainInv

\* Every step keeps the network's commands ahead of the exit event.
LEMMA DrainInvNext == DrainInv /\ [Next]_vars => DrainInv'
<1>1. SUFFICES ASSUME DrainInv, [Next]_vars PROVE DrainInv'
  OBVIOUS
<1>2. Shape' BY <1>1, ShapeNext DEF DrainInv
<1>3. CASE Next
  <2>1. OwnCommands' /\ CallPerMessage' /\ ExitIsLast'
    BY <1>1, <1>3, DrainPush, DrainWake, DrainKill, DrainOthers, DrainPoll,
       DrainCallback, DrainPop, DrainBack, DrainRest
       DEF Next, Post, Dispatch
  <2>2. QED BY <1>2, <2>1 DEF DrainInv
<1>4. CASE UNCHANGED vars
  <2>1. UNCHANGED <<pipe, batch, pos, mQ, pc, out, dpc, item, mExited, stops>>
    BY <1>4 DEF vars
  <2>2. OwnCommands' BY <1>1, <2>1 DEF DrainInv, OwnCommands
  <2>3. CallPerMessage' /\ ExitIsLast'
    BY <1>1, <2>1 DEF DrainInv, CallPerMessage, ExitIsLast, NetQueued, NetDue, EventsAhead,
       FirstAhead, Owed, Running, Draining, Left, Ended
  <2>4. QED BY <1>2, <2>2, <2>3 DEF DrainInv
<1>5. QED BY <1>1, <1>3, <1>4

\* When the dispatcher has left, no more of the messages that were read from the
\* socket are still queued than other threads' SETUP commands were taken: only
\* such a SETUP spends the wake of another command, as its own may come later.
THEOREM ExitDrainsNetworkCorrect == Spec => []ExitDrainsNetwork
<1>1. DrainInv => ExitDrainsNetwork
  <2>1. SUFFICES ASSUME DrainInv, mExited PROVE NetQueued <= stops
    BY DEF ExitDrainsNetwork, NetQueued, Count, Places
  <2>2. NetDue <= 0 /\ Shape BY <2>1 DEF DrainInv, ExitIsLast
  <2>3. QED BY <2>2, DrainFacts
<1>2. QED BY <1>1, DrainInvInit, DrainInvNext, PTL DEF Spec

-----------------------------------------------------------------------------
(* The adapter implements the mailbox, step by step.                       *)

\* The dispatcher has a command in hand while it handles one, and only then;
\* it is closed once it has left.
HandInv ==
  /\ dpc # "handle" => item = NoItem
  /\ mExited => dpc = "exited"

MailInv == DrainInv /\ HandInv

\* Both hold of a new adapter, and every step keeps them.
LEMMA MailInvInit == Init => MailInv
<1>1. Init => HandInv BY DEF Init, HandInv
<1>2. QED BY <1>1, DrainInvInit DEF MailInv

\* What the dispatcher holds and whether it has left change together.
LEMMA MailInvNext == MailInv /\ [Next]_vars => MailInv'
<1>1. SUFFICES ASSUME DrainInv, HandInv, [Next]_vars PROVE HandInv'
  BY DrainInvNext DEF MailInv
<1>2. CASE Dispatch
  <2>1. CASE CallbackExit \/ QueueEmpty \/ HandleSetup
    <3>1. /\ dpc' # "handle" /\ mExited' = mExited /\ dpc # "exited"
          /\ item' = NoItem
      BY <1>1, <2>1 DEF CallbackExit, QueueEmpty, HandleSetup, BackToLoop, HandInv
    <3>2. QED BY <1>1, <3>1 DEF HandInv
  <2>2. CASE Poll \/ CallbackWake \/ Pop \/ HandleReply \/ HandleData \/ Leave
    BY <1>1, <2>2 DEF Poll, CallbackWake, Pop, HandleReply, HandleData, Leave, HandInv
  <2>3. QED BY <1>2, <2>1, <2>2 DEF Dispatch
<1>3. CASE \/ \E t \in Poster : Post(t)
           \/ \E t \in Caller : AddQueue(t)
           \/ Bind \/ BindFails \/ Receiving \/ Kill \/ AcceptFails
           \/ Return \/ UNCHANGED vars
  <2>1. UNCHANGED <<dpc, item, mExited, stops>>
    BY <1>3 DEF Post, Push, Wake, AddQueue, Bind, BindFails, Receiving, Receive,
       ReceiveShort, ReceiveKill, Kill, AcceptFails, Return, netRest, vars
  <2>2. QED BY <1>1, <2>1 DEF HandInv
<1>4. QED BY <1>1, <1>2, <1>3 DEF Next

\* Every step of the adapter is one of the mailbox or changes nothing of it:
\* a push accepts or finds the box full, a pop takes, the end of a command
\* finishes it, and the dispatcher's end closes.
LEMMA MailStep ==
  ASSUME MailInv, [Next]_vars
  PROVE  [Mail!MailNext]_(Mail!mailVars)
<1>1. Shape /\ HandInv /\ ExitIsLast BY DEF MailInv, DrainInv
<1>2. ASSUME NEW t \in Poster, Push(t) PROVE [Mail!MailNext]_(Mail!mailVars)
  <2>1. UNCHANGED <<item, mExited, stops>> BY <1>2 DEF Push
  <2>2. CASE Len(mQ) = QueueSize
    BY <1>2, <2>1, <2>2 DEF Push, Mail!mailVars
  <2>3. CASE Len(mQ) # QueueSize
    <3>1. Len(mQ) <= QueueSize /\ Len(mQ) \in Nat
      BY <1>1, CountFacts DEF Shape, TypeOK
    <3>2. Len(mQ) < QueueSize BY <2>3, <3>1, AdapterAssumption
    <3>3. out[t] \in Command /\ mQ' = Append(mQ, out[t])
      BY <1>1, <1>2, <2>3 DEF Push, Shape, TypeOK
    <3>4. Mail!Accept(out[t]) BY <2>1, <3>2, <3>3 DEF Mail!Accept
    <3>5. QED BY <3>3, <3>4 DEF Mail!MailNext
  <2>4. QED BY <2>2, <2>3
<1>3. CASE Pop
  <2>1. item = NoItem /\ ~mExited /\ mQ # <<>> /\ UNCHANGED mExited
    BY <1>1, <1>3 DEF Pop, HandInv
  <2>2. Mail!Take BY <1>3, <2>1 DEF Pop, Mail!Take
  <2>3. QED BY <2>2 DEF Mail!MailNext
<1>4. CASE HandleSetup \/ HandleReply \/ HandleData
  <2>1. /\ dpc = "handle" /\ item' = NoItem /\ UNCHANGED <<mQ, mExited, stops>>
    BY <1>4 DEF HandleSetup, HandleReply, HandleData
  <2>2. item # NoItem BY <1>1, <2>1, CommandFacts DEF Shape, TypeOK
  <2>3. Mail!Finish BY <2>1, <2>2 DEF Mail!Finish
  <2>4. QED BY <2>3 DEF Mail!MailNext
<1>5. CASE Leave
  <2>1. /\ dpc = "leave" /\ mExited' = TRUE /\ UNCHANGED <<mQ, item, stops>>
    BY <1>5 DEF Leave
  <2>2. item = NoItem /\ mExited = FALSE
    BY <1>1, <2>1 DEF HandInv, Shape, TypeOK
  <2>3. NetDue <= 0 BY <1>1, <2>1 DEF ExitIsLast, Left
  <2>4. NetQueued <= stops BY <1>1, <2>3, DrainFacts
  <2>5. Cardinality({i \in 1 .. Len(mQ) : mQ[i] \in FromNetwork}) <= stops
    BY <2>4 DEF NetQueued, Count, Places
  <2>6. Mail!Close
    BY <2>1, <2>2, <2>5
       DEF Mail!Close, Mail!Cardinality, Mail!IsFiniteSet, Cardinality, IsFiniteSet
  <2>7. QED BY <2>6 DEF Mail!MailNext
<1>6. CASE \/ \E t \in Poster : Wake(t)
           \/ \E t \in Caller : AddQueue(t)
           \/ Bind \/ BindFails \/ Receiving \/ Kill \/ AcceptFails
           \/ Poll \/ CallbackExit \/ CallbackWake \/ QueueEmpty
           \/ Return \/ UNCHANGED vars
  BY <1>6 DEF Wake, AddQueue, Bind, BindFails, Receiving, Receive, ReceiveShort,
     ReceiveKill, Kill, AcceptFails, Return, netRest, vars, Poll, CallbackExit,
     CallbackWake, QueueEmpty, Mail!mailVars
<1>7. QED BY <1>2, <1>3, <1>4, <1>5, <1>6 DEF Next, Post, Dispatch

\* What NodeAdapter promises those who send to it, step by step: a command is
\* refused only by a full queue, those accepted are handled in order and once,
\* and it closes only when the network's are handled, but for one per SETUP that
\* another thread posted.  That they are
\* handled at all is RefinesMailbox's fairness, which runs check.
THEOREM AdapterImplementsMailbox == Spec => Mail!MailSafety
<1>1. Init => Mail!MailInit BY DEF Init, Mail!MailInit
<1>2. MailInv /\ [Next]_vars => [Mail!MailNext]_(Mail!mailVars) BY MailStep
<1>3. QED BY <1>1, <1>2, MailInvInit, MailInvNext, PTL DEF Spec, Mail!MailSafety

-----------------------------------------------------------------------------
(* The default node: children read the same pipe.                          *)

\* All commands but as many as the children have read wakes have a wake of
\* their own.
NodeInv == Shape /\ takenWakes \in Nat /\ Covered(takenWakes)

\* A default node starts as an adapter without children.
LEMMA NodeInvInit == NodeInit => NodeInv
<1>1. SUFFICES ASSUME NodeInit PROVE NodeInv
  OBVIOUS
<1>2. WakeInv BY <1>1, WakeInvInit DEF NodeInit
<1>3. takenWakes = 0 BY <1>1 DEF NodeInit
<1>4. QED BY <1>2, <1>3 DEF NodeInv, WakeInv

\* The adapter's own steps are those of NodeAdapter, whatever the callback
\* does, and take no wake away.
LEMMA OwnSteps ==
  ASSUME AdapterStep \/ Callback
  PROVE  Next /\ takenWakes' = takenWakes
<1>1. CASE AdapterStep
  BY <1>1 DEF AdapterStep, Next, Dispatch, forkVars
<1>2. CASE Callback
  <2>1. HandleReply \/ HandleData
    BY <1>2 DEF Callback, AnswerCaller, CallbackIgnores, CallbackReturns,
                CallbackCrashes, LogCommand
  <2>2. takenWakes' = takenWakes
    BY <1>2 DEF Callback, AnswerCaller, CallbackIgnores, CallbackReturns,
                CallbackCrashes, LogCommand, forkVars
  <2>3. QED BY <2>1, <2>2 DEF Next, Dispatch
<1>3. QED BY <1>1, <1>2

\* A step that leaves the count alone keeps what is covered.
LEMMA OwnKeeps ==
  ASSUME NodeInv, [Next]_vars, takenWakes' = takenWakes
  PROVE  NodeInv'
<1>1. PICK c \in Nat : c = takenWakes BY DEF NodeInv
<1>2. Shape /\ Covered(c) BY <1>1 DEF NodeInv
<1>3. Shape' /\ Covered(c)' BY <1>2, ShapeNext, CoveredNext
<1>4. takenWakes' = c BY <1>1
<1>5. ~ExitSeen' => Len(mQ') <= Due' + takenWakes' BY <1>3, <1>4 DEF Covered
<1>6. QED BY <1>3, <1>4, <1>5 DEF NodeInv, Covered

\* A child that answers wakes the caller: nothing else of the adapter changes.
LEMMA ChildAnswers ==
  ASSUME NodeInv, NEW k \in Child, ChildHandle(k)
  PROVE  NodeInv'
<1>1. /\ woken' \in {woken, TRUE} /\ takenWakes' = takenWakes
      /\ UNCHANGED <<pipe, batch, pos, mQ, pc, out, dpc, item, mSetup, mExited,
                     returned, frames, posts, stops>>
  BY DEF ChildHandle, looperVars
<1>2. Shape'
  BY <1>1 DEF NodeInv, Shape, TypeOK, LooperTypeOK, IdleLooper, ServedAreWakes
<1>3. Covered(takenWakes)'
  <2>1. Due' = Due /\ (ExitSeen' <=> ExitSeen)
    BY <1>1 DEF Due, WakesAhead, FirstAhead, Running, Draining, Waking,
                ExitSeen, SeenEvent
  <2>2. QED BY <1>1, <2>1 DEF NodeInv, Covered
<1>4. QED BY <1>1, <1>2, <1>3 DEF NodeInv

\* A child that reads the pipe takes as many wakes as it adds to the count.
LEMMA ChildTakes ==
  ASSUME NodeInv, NEW k \in Child, ChildPoll(k)
  PROVE  NodeInv'
<1> DEFINE n == IF Len(pipe) < BatchSize THEN Len(pipe) ELSE BatchSize
           taken == Cardinality({j \in 1 .. n : pipe[j] = "wake"})
<1>1. /\ pipe # <<>> /\ pipe' = SubSeq(pipe, n + 1, Len(pipe))
      /\ takenWakes' = takenWakes + taken
      /\ UNCHANGED <<batch, pos, mQ, pc, out, dpc, item, mSetup, mExited,
                     returned, frames, posts, woken, stops>>
  BY DEF ChildPoll
<1>2. /\ Shape /\ takenWakes \in Nat
      /\ pipe \in Seq(LooperEvent) /\ Len(pipe) \in Nat /\ Len(pipe) # 0
      /\ Len(pipe) <= PipeCapacity
  BY <1>1, LenProperties, EmptySeq DEF NodeInv, Shape, TypeOK, LooperTypeOK
<1>3. n \in 1 .. Len(pipe) BY <1>2, LooperAssumption
<1> HIDE DEF n
<1>4. /\ pipe' \in Seq(LooperEvent) /\ Len(pipe') = Len(pipe) - n
      /\ \A i \in 1 .. Len(pipe) - n : pipe'[i] = pipe[i + n]
  BY <1>1, <1>2, <1>3, RestOf
<1>5. Shape'
  <2>1. Len(pipe') <= PipeCapacity BY <1>2, <1>3, <1>4, LooperAssumption
  <2>2. LooperTypeOK' /\ ServedAreWakes' /\ IdleLooper'
    BY <1>1, <1>2, <1>4, <2>1
       DEF Shape, TypeOK, LooperTypeOK, ServedAreWakes, IdleLooper
  <2>3. QED BY <1>1, <1>2, <2>2 DEF Shape, TypeOK
<1>6. Count(pipe, {"wake"}) = taken + Count(pipe', {"wake"})
  <2>1. n \in 0 .. Len(pipe) /\ CutAt(pipe, n, pipe')
    <3>1. n \in 0 .. Len(pipe) BY <1>3
    <3>2. \A i \in 1 .. Len(pipe') : pipe'[i] = pipe[i + n] BY <1>4
    <3>3. QED BY <1>4, <3>1, <3>2 DEF CutAt
  <2>2. Count(pipe, {"wake"})
          = Cardinality({j \in 1 .. n : pipe[j] \in {"wake"}}) + Count(pipe', {"wake"})
    BY <1>2, <1>4, <2>1, CountCut
  <2>3. {j \in 1 .. n : pipe[j] \in {"wake"}} = {j \in 1 .. n : pipe[j] = "wake"}
    OBVIOUS
  <2>4. QED BY <2>2, <2>3
<1>7. taken \in Nat
  <2>1. IsFiniteSet(1 .. n) BY <1>2, <1>3, FS_Interval
  <2>2. QED BY <2>1, FS_Subset, FS_CardinalityType
<1>8. /\ WakesAhead' = Count(pipe', {"wake"})
                         + CountFrom(batch, FirstAhead, {"wake"})
      /\ Waking' = Waking /\ Running' = Running /\ (ExitSeen' <=> ExitSeen)
  BY <1>1 DEF WakesAhead, FirstAhead, Waking, Running, Draining, ExitSeen, SeenEvent
<1> HIDE DEF taken
<1>9. PICK x \in Nat : x = Count(pipe', {"wake"}) BY <1>4, CountNat
<1>10. PICK y \in Nat : y = CountFrom(batch, FirstAhead, {"wake"})
  BY <1>2, WakesFacts
<1>11. PICK z \in Nat : z = Cardinality(Waking) BY <1>2, CountFacts
<1>12. PICK r \in Nat : r = Running BY <1>2, WakesFacts
<1>13. Due = (taken + x + y) + z + r
  BY <1>6, <1>9, <1>10, <1>11, <1>12 DEF Due, WakesAhead
<1>14. Due' = (x + y) + z + r
  BY <1>8, <1>9, <1>10, <1>11, <1>12 DEF Due
<1>15. Due + takenWakes = Due' + takenWakes'
  BY <1>1, <1>2, <1>7, <1>13, <1>14
<1>16. Covered(takenWakes)' BY <1>1, <1>8, <1>15 DEF NodeInv, Covered
<1>17. takenWakes' \in Nat BY <1>1, <1>2, <1>7
<1>18. QED BY <1>5, <1>16, <1>17 DEF NodeInv

\* Every step of the processes keeps the count.
LEMMA NodeInvNext == NodeInv /\ [NodeNext]_nodeVars => NodeInv'
<1>1. SUFFICES ASSUME NodeInv, [NodeNext]_nodeVars PROVE NodeInv'
  OBVIOUS
<1>2. CASE AdapterStep \/ Callback BY <1>1, <1>2, OwnSteps, OwnKeeps
<1>3. ASSUME NEW k \in Child, ChildStep(k) PROVE NodeInv'
  <2>1. CASE ChildPoll(k) BY <1>1, <2>1, ChildTakes
  <2>2. CASE ChildHandle(k) BY <1>1, <2>2, ChildAnswers
  <2>3. CASE ChildExec(k) \/ ChildPop(k) \/ ChildEvent(k)
    <3>1. UNCHANGED vars /\ takenWakes' = takenWakes
      BY <2>3 DEF ChildExec, ChildPop, ChildEvent
    <3>2. QED BY <1>1, <3>1, OwnKeeps
  <2>4. QED BY <1>3, <2>1, <2>2, <2>3 DEF ChildStep
<1>4. CASE UNCHANGED nodeVars
  <2>1. UNCHANGED vars /\ takenWakes' = takenWakes
    BY <1>4 DEF nodeVars, forkVars
  <2>2. QED BY <1>1, <2>1, OwnKeeps
<1>5. QED BY <1>1, <1>2, <1>3, <1>4 DEF NodeNext

\* However many children a LOG command leaves behind, and wherever in the queue
\* and in the batch it left them, the adapter is short of a call of dispatch()
\* only by wakes that they have read.
THEOREM WakesTakenCorrect == NodeSpec => []WakesTaken
<1>1. NodeInv => WakesTaken
  <2>1. SUFFICES ASSUME NodeInv, ~ExitSeen
                 PROVE  Len(mQ) <= EventsAhead + Cardinality(Waking)
                                     + (IF Draining THEN 1 ELSE 0) + takenWakes
    BY DEF WakesTaken, ExitSeen
  <2>2. PICK c \in Nat : c = takenWakes BY <2>1 DEF NodeInv
  <2>3. Shape /\ Covered(c) BY <2>1, <2>2 DEF NodeInv
  <2>4. Len(mQ) <= EventsAhead + Cardinality(Waking) + Running + c
    BY <2>1, <2>3, CoveredByEvents
  <2>5. QED BY <2>2, <2>4 DEF Running
<1>2. QED BY <1>1, NodeInvInit, NodeInvNext, PTL DEF NodeSpec

-----------------------------------------------------------------------------
(* What is read of an object is what it was printed of.                    *)

\* No word is twice in a list of n.
OnceEach(names, n) ==
  Len(names) = n /\ \A i, j \in 1 .. n : names[i] = names[j] => i = j

\* A table has the first m words of an enumeration of n.
IsTable(table, names, m, n) ==
  /\ OnceEach(names, n) /\ m <= n
  /\ Len(table) = m /\ DOMAIN table = 1 .. m
  /\ \A k \in 1 .. m : table[k] = names[k]

\* The value of a word in an enumeration.
LEMMA EnumOf ==
  ASSUME NEW names, NEW n \in Nat, OnceEach(names, n), NEW k \in 1 .. n
  PROVE  Enum(names, names[k]) = k - 1
<1>1. PICK c : c = CHOOSE j \in 1 .. n : names[j] = names[k] OBVIOUS
<1>2. c \in 1 .. n /\ names[c] = names[k] BY <1>1
<1>3. c = k BY <1>2 DEF OnceEach
<1>4. QED BY <1>1, <1>3 DEF Enum, OnceEach

\* A word of the table comes back as the number it was printed of.
LEMMA KeywordOf ==
  ASSUME NEW table, NEW names, NEW m \in Nat, NEW n \in Nat,
         IsTable(table, names, m, n), NEW t \in 0 .. m - 1, NEW default
  PROVE  /\ Entry(table, t) = Word(names[t + 1])
         /\ Keyword(table, names, Entry(table, t), default) = t
<1>1. t + 1 \in 1 .. m /\ t + 1 \in 1 .. n BY DEF IsTable
<1>2. Entry(table, t) = Word(names[t + 1]) BY <1>1 DEF Entry, IsTable
<1>3. Word(names[t + 1]).word = names[t + 1] BY DEF Word
<1>4. names[t + 1] \in Range(table) BY <1>1 DEF Range, IsTable
<1>5. Enum(names, names[t + 1]) = t
  <2>1. PICK k \in 1 .. n : k = t + 1 BY <1>1
  <2>2. Enum(names, names[k]) = k - 1 BY EnumOf DEF IsTable
  <2>3. QED BY <2>1, <2>2
<1>6. QED BY <1>1, <1>2, <1>3, <1>4, <1>5 DEF Keyword

\* The tables are those of the enumerations.
LEMMA Tables ==
  /\ IsTable(CMD_STR_TABLE, CmdTypes, 22, 23)
  /\ IsTable(EVT_STR_TABLE, EvtTypes, 9, 10)
  /\ IsTable(FORMAT_STR_TABLE, LogFormats, 5, 6)
  /\ IsTable(ERROR_STR_TABLE, ErrorIds, 2, 3)
<1>1. IsTable(CMD_STR_TABLE, CmdTypes, 22, 23)
  <2>1. /\ Len(CmdTypes) = 23 /\ DOMAIN CMD_STR_TABLE = 1 .. 22
        /\ Len(CMD_STR_TABLE) = 22
    BY DEF CmdTypes, CMD_STR_TABLE
  <2>2. \A i, j \in 1 .. 23 : CmdTypes[i] = CmdTypes[j] => i = j
    BY DEF CmdTypes
  <2>3. \A k \in 1 .. 22 : CMD_STR_TABLE[k] = CmdTypes[k]
    BY DEF CmdTypes, CMD_STR_TABLE
  <2>4. QED BY <2>1, <2>2, <2>3 DEF IsTable, OnceEach
<1>2. IsTable(EVT_STR_TABLE, EvtTypes, 9, 10)
  BY DEF EvtTypes, EVT_STR_TABLE, IsTable, OnceEach
<1>3. IsTable(FORMAT_STR_TABLE, LogFormats, 5, 6)
  BY DEF LogFormats, FORMAT_STR_TABLE, IsTable, OnceEach
<1>4. IsTable(ERROR_STR_TABLE, ErrorIds, 2, 3)
  BY DEF ErrorIds, ERROR_STR_TABLE, IsTable, OnceEach
<1>5. QED BY <1>1, <1>2, <1>3, <1>4

LEMMA BusEnums ==
  OnceEach(BusTypes, 4) /\ OnceEach(BusCmds, 9) /\ OnceEach(BusEvents, 4)
BY DEF BusTypes, BusCmds, BusEvents, OnceEach

LEMMA CommandWords ==
  ASSUME NEW t \in 0 .. 21, NEW d
  PROVE  Keyword(CMD_STR_TABLE, CmdTypes, Entry(CMD_STR_TABLE, t), d) = t
<1>1. 22 \in Nat /\ 23 \in Nat /\ t \in 0 .. 22 - 1 OBVIOUS
<1>2. IsTable(CMD_STR_TABLE, CmdTypes, 22, 23) BY Tables
<1>3. QED BY ONLY <1>1, <1>2, KeywordOf

\* An argument is read as it was printed.
LEMMA ArgumentReads ==
  ASSUME NEW a \in [name : Value, value : Value]
  PROVE  ParseArgument(ArgElement(a)) = a
<1>1. PICK e : e = ArgElement(a) OBVIOUS
<1>2. e.value = a.value BY <1>1 DEF ArgElement, Element
<1>3. Prop(e, "name", NoName) = a.name
  <2>1. CASE a.name = NoName
    <3>1. e.attr = <<>> BY <1>1, <2>1 DEF ArgElement, Element
    <3>2. "name" \notin DOMAIN e.attr BY <3>1
    <3>3. QED BY <2>1, <3>2 DEF Prop
  <2>2. CASE a.name # NoName
    <3>1. e.attr = [name |-> a.name] BY <1>1, <2>2 DEF ArgElement, Element
    <3>2. QED BY <3>1 DEF Prop
  <2>3. QED BY <2>1, <2>2
<1>4. QED BY <1>1, <1>2, <1>3 DEF ParseArgument, Argument

\* What is added in front one by one, from the end of a list, is the list.
LEMMA ReverseTwice ==
  ASSUME NEW S, NEW s \in Seq(S), NEW t, NEW n \in Nat, n = Len(s),
         t = [k \in 1 .. n |-> Reverse(s)[k]]
  PROVE  Reverse(t) \o <<>> = s /\ Len(t) = n
<1>1. Reverse(s) = [k \in 1 .. n |-> s[n - k + 1]] BY DEF Reverse
<1>2. \A k \in 1 .. n : n - k + 1 \in 1 .. n /\ n - (n - k + 1) + 1 = k OBVIOUS
<1>3. t = [k \in 1 .. n |-> s[n - k + 1]] BY <1>1
<1>4. \A k \in 1 .. n : s[k] \in S BY ElementOfSeq
<1>5. t \in [1 .. n -> S] BY <1>2, <1>3, <1>4
<1>6. t \in Seq(S) BY <1>5, IsASeq
<1>7. Len(t) = n BY <1>5, <1>6, LenProperties
<1>8. Reverse(t) = [k \in 1 .. n |-> t[n - k + 1]] BY <1>7 DEF Reverse
<1>9. \A k \in 1 .. n : t[n - k + 1] = s[k] BY <1>2, <1>3
<1>10. Reverse(t) = [k \in 1 .. n |-> s[k]] BY <1>8, <1>9
<1>11. s = [k \in 1 .. n |-> s[k]] BY LenProperties
<1>12. Reverse(t) = s BY <1>10, <1>11
<1>13. QED BY <1>7, <1>12, ConcatEmptySeq

LEMMA CommandReads ==
  ASSUME NEW c, IsPrintedCommand(c)
  PROVE  ParseCommand(CommandElement(c)) = [c EXCEPT !.time = 0]
<1>1. /\ c = [class |-> "command", type |-> c.type, time |-> c.time, args |-> c.args]
      /\ c.type \in 0 .. 21 /\ c.args \in Seq([name : Value, value : Value])
  BY Tables DEF IsPrintedCommand, IsTable
<1>2. PICK e : e = CommandElement(c) OBVIOUS
<1>3. PICK kids : kids = [k \in 1 .. Len(c.args) |-> ArgElement(Reverse(c.args)[k])]
  OBVIOUS
<1>4. e.attr = [type |-> Entry(CMD_STR_TABLE, c.type)] /\ e.kids = [arg |-> kids]
  BY <1>2, <1>3 DEF CommandElement, Element
<1>5. Prop(e, "type", Unset) = Entry(CMD_STR_TABLE, c.type) BY <1>4 DEF Prop
<1>6. Prop(e, "time", Num(0)) = Num(0)
  <2>1. "time" \notin DOMAIN e.attr BY <1>4
  <2>2. QED BY <2>1 DEF Prop
<1>7. Kids(e, "arg") = kids BY <1>4 DEF Kids
<1>8. \A d : Keyword(CMD_STR_TABLE, CmdTypes, Entry(CMD_STR_TABLE, c.type), d) = c.type
  BY <1>1, CommandWords
<1>9. PICK n \in Nat : n = Len(c.args) BY <1>1, LenProperties
<1>10. PICK back : back = [k \in 1 .. n |-> Reverse(c.args)[k]] OBVIOUS
<1>11. Reverse(back) \o <<>> = c.args /\ Len(back) = n
  BY <1>1, <1>9, <1>10, ReverseTwice
<1>12. kids \in [1 .. n -> {ArgElement(a) : a \in [name : Value, value : Value]}]
  <2>1. \A k \in 1 .. n : n - k + 1 \in 1 .. n OBVIOUS
  <2>2. \A k \in 1 .. n : Reverse(c.args)[k] = c.args[n - k + 1]
    BY <1>9 DEF Reverse
  <2>3. \A k \in 1 .. n : Reverse(c.args)[k] \in [name : Value, value : Value]
    <3>1. \A k \in 1 .. n : c.args[k] \in [name : Value, value : Value]
      BY <1>1, <1>9, ElementOfSeq
    <3>2. QED BY ONLY <2>1, <2>2, <3>1
  <2>4. QED BY <1>3, <1>9, <2>3
<1>13. Len(kids) = n BY <1>12, IsASeq, LenProperties
<1>14. \A k \in 1 .. n : ParseArgument(kids[k]) = back[k]
  <2>1. \A k \in 1 .. n : n - k + 1 \in 1 .. n OBVIOUS
  <2>2. \A k \in 1 .. n : Reverse(c.args)[k] = c.args[n - k + 1]
    BY <1>9 DEF Reverse
  <2>3. \A k \in 1 .. n : Reverse(c.args)[k] \in [name : Value, value : Value]
    <3>1. \A k \in 1 .. n : c.args[k] \in [name : Value, value : Value]
      BY <1>1, <1>9, ElementOfSeq
    <3>2. QED BY ONLY <2>1, <2>2, <3>1
  <2>4. QED BY <1>3, <1>9, <1>10, <2>3, ArgumentReads
<1>15. [k \in 1 .. Len(kids) |-> ParseArgument(kids[k])] = back
  BY <1>10, <1>13, <1>14
<1>16. ParseCommand(e)
         = [class |-> "command", type |-> c.type, time |-> 0, args |-> c.args]
  <2>1. Num(0).num = 0 BY DEF Num
  <2>2. PICK typed : typed = [NewCommand EXCEPT
        !.type = Keyword(CMD_STR_TABLE, CmdTypes, Prop(e, "type", Unset), @),
        !.time = Prop(e, "time", Num(@)).num]
    OBVIOUS
  <2>3. typed = [class |-> "command", type |-> c.type, time |-> 0, args |-> <<>>]
    BY <1>5, <1>6, <1>8, <2>1, <2>2 DEF NewCommand
  <2>4. ParseCommand(e) = AddArguments(typed, back)
    BY <1>7, <1>15, <2>2 DEF ParseCommand
  <2>5. AddArguments(typed, back) = [typed EXCEPT !.args = Reverse(back) \o <<>>]
    BY <2>3 DEF AddArguments
  <2>6. QED BY <1>11, <2>3, <2>4, <2>5
<1>17. QED BY <1>1, <1>2, <1>16

\* The other tables in the same way.
LEMMA EventWords ==
  ASSUME NEW t \in 0 .. 8, NEW d
  PROVE  /\ Entry(EVT_STR_TABLE, t) = Word(EvtTypes[t + 1])
         /\ Keyword(EVT_STR_TABLE, EvtTypes, Entry(EVT_STR_TABLE, t), d) = t
<1>1. 9 \in Nat /\ 10 \in Nat /\ t \in 0 .. 9 - 1 OBVIOUS
<1>2. IsTable(EVT_STR_TABLE, EvtTypes, 9, 10) BY Tables
<1>3. Entry(EVT_STR_TABLE, t) = Word(EvtTypes[t + 1]) BY ONLY <1>1, <1>2, KeywordOf
<1>4. Keyword(EVT_STR_TABLE, EvtTypes, Entry(EVT_STR_TABLE, t), d) = t
  BY ONLY <1>1, <1>2, KeywordOf
<1>5. QED BY <1>3, <1>4

LEMMA FormatWords ==
  ASSUME NEW t \in 0 .. 4, NEW d
  PROVE  Keyword(FORMAT_STR_TABLE, LogFormats, Entry(FORMAT_STR_TABLE, t), d) = t
<1>1. 5 \in Nat /\ 6 \in Nat /\ t \in 0 .. 5 - 1 OBVIOUS
<1>2. IsTable(FORMAT_STR_TABLE, LogFormats, 5, 6) BY Tables
<1>3. QED BY ONLY <1>1, <1>2, KeywordOf

LEMMA ErrorWords ==
  ASSUME NEW t \in 0 .. 1, NEW d
  PROVE  Keyword(ERROR_STR_TABLE, ErrorIds, Entry(ERROR_STR_TABLE, t), d) = t
<1>1. 2 \in Nat /\ 3 \in Nat /\ t \in 0 .. 2 - 1 OBVIOUS
<1>2. IsTable(ERROR_STR_TABLE, ErrorIds, 2, 3) BY Tables
<1>3. QED BY ONLY <1>1, <1>2, KeywordOf

\* The number of a type of event, and the word it is printed as.
LEMMA EventType ==
  ASSUME NEW t, NEW k \in 1 .. 9, t = Enum(EvtTypes, EvtTypes[k])
  PROVE  t = k - 1 /\ t \in 0 .. 8 /\ Entry(EVT_STR_TABLE, t).word = EvtTypes[k]
<1>1. 10 \in Nat /\ k \in 1 .. 10 /\ OnceEach(EvtTypes, 10) BY Tables DEF IsTable
<1>2. t = k - 1 BY <1>1, EnumOf
<1>3. t \in 0 .. 8 /\ t + 1 = k BY <1>2
<1>4. Entry(EVT_STR_TABLE, t) = Word(EvtTypes[t + 1]) BY <1>3, EventWords
<1>5. QED BY <1>2, <1>3, <1>4 DEF Word

\* No id is none, and a command is none if there is none.
LEMMA EventDefaults ==
  /\ NewEvent = [class |-> "event", type |-> 9, format |-> 0, length |-> 0,
                 id |-> 2, res |-> 0, command |-> NoXml]
  /\ Num(0).num = 0
<1>1. Enum(EvtTypes, "NONE") = 9
  <2>1. 10 \in Nat /\ 10 \in 1 .. 10 /\ OnceEach(EvtTypes, 10)
    BY Tables DEF IsTable
  <2>2. EvtTypes[10] = "NONE" BY DEF EvtTypes
  <2>3. Enum(EvtTypes, EvtTypes[10]) = 10 - 1 BY ONLY <2>1, EnumOf
  <2>4. QED BY <2>2, <2>3
<1>2. Enum(ErrorIds, "NONE") = 2
  <2>1. 3 \in Nat /\ 3 \in 1 .. 3 /\ OnceEach(ErrorIds, 3)
    BY Tables DEF IsTable
  <2>2. ErrorIds[3] = "NONE" BY DEF ErrorIds
  <2>3. Enum(ErrorIds, ErrorIds[3]) = 3 - 1 BY ONLY <2>1, EnumOf
  <2>4. QED BY <2>2, <2>3
<1>3. QED BY <1>1, <1>2 DEF NewEvent, Num

\* What is not there is left as it is.
LEMMA NoFormat == Keyword(FORMAT_STR_TABLE, LogFormats, Unset, 0) = 0
<1>1. DOMAIN FORMAT_STR_TABLE = 1 .. 5
      /\ \A k \in 1 .. 5 : FORMAT_STR_TABLE[k] # "?"
  BY DEF FORMAT_STR_TABLE
<1>2. Unset.word = "?" BY DEF Unset
<1>3. "?" \notin Range(FORMAT_STR_TABLE) BY <1>1 DEF Range
<1>4. QED BY <1>2, <1>3 DEF Keyword

\* The number of a number.
LEMMA NumberOf == ASSUME NEW n PROVE Num(n).num = n
BY DEF Num

\* An event that is read, field by field.
LEMMA EventParsed ==
  ASSUME NEW e, NEW type, NEW format, NEW len, NEW id, NEW res, NEW command,
         Keyword(EVT_STR_TABLE, EvtTypes, Prop(e, "type", Unset), 9) = type,
         Keyword(FORMAT_STR_TABLE, LogFormats, Prop(e, "format", Unset), 0) = format,
         Prop(e, "length", Num(0)).num = len,
         Prop(e, "res", Num(0)).num = res,
         (IF "id" \in DOMAIN e.attr
          THEN Keyword(ERROR_STR_TABLE, ErrorIds, Prop(e, "id", Word("NONE")),
                       Prop(e, "id", Word("NONE")).num)
          ELSE 2) = id,
         (IF Kids(e, "command") = <<>> THEN NoXml
          ELSE ParseCommand(Kids(e, "command")[1])) = command
  PROVE  ParseEvent(e) = [class |-> "event", type |-> type, format |-> format,
                          length |-> len, id |-> id, res |-> res,
                          command |-> command]
<1>1. /\ NewEvent.type = 9 /\ NewEvent.format = 0 /\ NewEvent.length = 0
      /\ NewEvent.res = 0 /\ NewEvent.id = 2 /\ NewEvent.command = NoXml
  BY EventDefaults
<1>2. /\ Keyword(EVT_STR_TABLE, EvtTypes, Prop(e, "type", Unset),
                 NewEvent.type) = type
      /\ Keyword(FORMAT_STR_TABLE, LogFormats, Prop(e, "format", Unset),
                 NewEvent.format) = format
      /\ Prop(e, "length", Num(NewEvent.length)).num = len
      /\ Prop(e, "res", Num(NewEvent.res)).num = res
  BY <1>1
<1>3. /\ (IF "id" \in DOMAIN e.attr
          THEN Keyword(ERROR_STR_TABLE, ErrorIds, Prop(e, "id", Word("NONE")),
                       Prop(e, "id", Word("NONE")).num)
          ELSE NewEvent.id) = id
      /\ (IF Kids(e, "command") = <<>> THEN NewEvent.command
          ELSE ParseCommand(Kids(e, "command")[1])) = command
  BY <1>1
<1>4. ParseEvent(e) = [NewEvent EXCEPT !.type = type, !.format = format,
                         !.length = len, !.res = res, !.id = id,
                         !.command = command]
  BY <1>2, <1>3 DEF ParseEvent
<1>5. NewEvent = [class |-> "event", type |-> 9, format |-> 0, length |-> 0,
                  id |-> 2, res |-> 0, command |-> NoXml]
  BY EventDefaults
<1>6. PICK event : event = NewEvent OBVIOUS
<1>7. QED BY ONLY <1>4, <1>5, <1>6

\* The type of an event that is printed.
LEMMA PrintedType ==
  ASSUME NEW e, NEW w \in {"REGOK", "REGFAIL", "READY", "LOG", "ERROR", "IMG",
                           "TC", "CMD", "INFO"},
         e.type = Enum(EvtTypes, w)
  PROVE  /\ Entry(EVT_STR_TABLE, e.type).word = w
         /\ \A d : Keyword(EVT_STR_TABLE, EvtTypes,
                           Entry(EVT_STR_TABLE, e.type), d) = e.type
<1>1. PICK k \in 1 .. 9 : EvtTypes[k] = w BY DEF EvtTypes
<1>2. PICK t : t = e.type OBVIOUS
<1>3. t = Enum(EvtTypes, EvtTypes[k]) BY <1>1, <1>2
<1>4. t \in 0 .. 8 /\ Entry(EVT_STR_TABLE, t).word = EvtTypes[k]
  BY ONLY <1>3, k \in 1 .. 9, EventType
<1>5. \A d : Keyword(EVT_STR_TABLE, EvtTypes, Entry(EVT_STR_TABLE, t), d) = t
  BY ONLY <1>4, EventWords
<1>6. QED BY ONLY <1>1, <1>2, <1>4, <1>5

\* REGOK, REGFAIL, READY.
LEMMA PlainEventReads ==
  ASSUME NEW e, NEW w \in {"REGOK", "REGFAIL", "READY"},
         e.type = Enum(EvtTypes, w), e = [NewEvent EXCEPT !.type = e.type]
  PROVE  ParseEvent(EventElement(e)) = e
<1>1. PICK x : x = EventElement(e) OBVIOUS
<1>2. PICK type : type = Entry(EVT_STR_TABLE, e.type) OBVIOUS
<1>3. /\ type.word = w
      /\ \A d : Keyword(EVT_STR_TABLE, EvtTypes, type, d) = e.type
  BY <1>2, PrintedType
<1>4. x = Element("event", [type |-> type], Unset, <<>>)
  BY <1>1, <1>2, <1>3 DEF EventElement
<1>5. x.attr = [type |-> type] /\ x.kids = <<>> BY <1>4 DEF Element
<1>6. DOMAIN x.attr = {"type"} /\ x.attr["type"] = type BY <1>5
<1>7. Prop(x, "type", Unset) = type BY <1>6 DEF Prop
<1>8. Prop(x, "format", Unset) = Unset /\ Prop(x, "length", Num(0)) = Num(0)
      /\ Prop(x, "res", Num(0)) = Num(0) /\ "id" \notin DOMAIN x.attr
  BY <1>6 DEF Prop
<1>9. Kids(x, "command") = <<>> BY <1>5 DEF Kids
<1>10. ParseEvent(x) = [class |-> "event", type |-> e.type, format |-> 0,
                        length |-> 0, id |-> 2, res |-> 0, command |-> NoXml]
  BY <1>3, <1>7, <1>8, <1>9, NoFormat, EventParsed, EventDefaults
<1>11. e = [class |-> "event", type |-> e.type, format |-> 0,
                        length |-> 0, id |-> 2, res |-> 0, command |-> NoXml]
  BY EventDefaults
<1>12. QED BY <1>1, <1>10, <1>11

\* LOG, IMG, INFO.
LEMMA LogEventReads ==
  ASSUME NEW e, NEW w \in {"LOG", "IMG", "INFO"}, e.type = Enum(EvtTypes, w),
         e.format \in 0 .. 4, e.length \in Int,
         e = [NewEvent EXCEPT !.type = e.type, !.format = e.format,
                              !.length = e.length]
  PROVE  ParseEvent(EventElement(e)) = e
<1>1. PICK x : x = EventElement(e) OBVIOUS
<1>2. PICK type : type = Entry(EVT_STR_TABLE, e.type) OBVIOUS
<1>3. PICK format : format = Entry(FORMAT_STR_TABLE, e.format) OBVIOUS
<1>4. /\ type.word = w
      /\ \A d : Keyword(EVT_STR_TABLE, EvtTypes, type, d) = e.type
  BY <1>2, PrintedType
<1>5. Keyword(FORMAT_STR_TABLE, LogFormats, format, 0) = e.format
  BY <1>3, FormatWords
<1>6. x = Element("event", [type |-> type, format |-> format,
                            length |-> Num(e.length)], Unset, <<>>)
  BY <1>1, <1>2, <1>3, <1>4 DEF EventElement
<1>7. /\ x.attr = [type |-> type, format |-> format, length |-> Num(e.length)]
      /\ x.kids = <<>>
  BY <1>6 DEF Element
<1>8. /\ DOMAIN x.attr = {"type", "format", "length"} /\ x.attr["type"] = type
      /\ x.attr["format"] = format /\ x.attr["length"] = Num(e.length)
  BY <1>7
<1>9. /\ Prop(x, "type", Unset) = type /\ Prop(x, "format", Unset) = format
      /\ Prop(x, "length", Num(0)).num = e.length
      /\ Prop(x, "res", Num(0)) = Num(0) /\ "id" \notin DOMAIN x.attr
  BY ONLY <1>8, NumberOf DEF Prop
<1>10. Kids(x, "command") = <<>> BY <1>7 DEF Kids
<1>11. ParseEvent(x) = [class |-> "event", type |-> e.type, format |-> e.format,
                        length |-> e.length, id |-> 2, res |-> 0,
                        command |-> NoXml]
  BY <1>4, <1>5, <1>9, <1>10, EventParsed, EventDefaults
<1>12. e = [class |-> "event", type |-> e.type, format |-> e.format,
            length |-> e.length, id |-> 2, res |-> 0, command |-> NoXml]
  BY EventDefaults
<1>13. QED BY <1>1, <1>11, <1>12

\* ERROR.
LEMMA ErrorEventReads ==
  ASSUME NEW e, e.type = Enum(EvtTypes, "ERROR"), e.id \in 0 .. 1,
         e = [NewEvent EXCEPT !.type = e.type, !.id = e.id]
  PROVE  ParseEvent(EventElement(e)) = e
<1>1. PICK x : x = EventElement(e) OBVIOUS
<1>2. PICK type : type = Entry(EVT_STR_TABLE, e.type) OBVIOUS
<1>3. PICK id : id = Entry(ERROR_STR_TABLE, e.id) OBVIOUS
<1>4. /\ type.word = "ERROR"
      /\ \A d : Keyword(EVT_STR_TABLE, EvtTypes, type, d) = e.type
  BY <1>2, PrintedType
<1>5. \A d : Keyword(ERROR_STR_TABLE, ErrorIds, id, d) = e.id
  BY <1>3, ErrorWords
<1>6. x = Element("event", [type |-> type, id |-> id], Unset, <<>>)
  BY <1>1, <1>2, <1>3, <1>4 DEF EventElement
<1>7. x.attr = [type |-> type, id |-> id] /\ x.kids = <<>> BY <1>6 DEF Element
<1>8. /\ DOMAIN x.attr = {"type", "id"} /\ x.attr["type"] = type
      /\ x.attr["id"] = id
  BY <1>7
<1>9. /\ Prop(x, "type", Unset) = type /\ Prop(x, "format", Unset) = Unset
      /\ Prop(x, "length", Num(0)) = Num(0) /\ Prop(x, "res", Num(0)) = Num(0)
      /\ Prop(x, "id", Word("NONE")) = id /\ "id" \in DOMAIN x.attr
  BY ONLY <1>8 DEF Prop
<1>10. Kids(x, "command") = <<>> BY <1>7 DEF Kids
<1>11. ParseEvent(x) = [class |-> "event", type |-> e.type, format |-> 0,
                        length |-> 0, id |-> e.id, res |-> 0, command |-> NoXml]
  BY <1>4, <1>5, <1>9, <1>10, NoFormat, EventParsed, EventDefaults
<1>12. e = [class |-> "event", type |-> e.type, format |-> 0,
            length |-> 0, id |-> e.id, res |-> 0, command |-> NoXml]
  BY EventDefaults
<1>13. QED BY <1>1, <1>11, <1>12

\* TC.
LEMMA TestEventReads ==
  ASSUME NEW e, e.type = Enum(EvtTypes, "TC"), e.id \in 0 .. 1, e.res \in Int,
         e = [NewEvent EXCEPT !.type = e.type, !.id = e.id, !.res = e.res]
  PROVE  ParseEvent(EventElement(e)) = e
<1>1. PICK x : x = EventElement(e) OBVIOUS
<1>2. PICK type : type = Entry(EVT_STR_TABLE, e.type) OBVIOUS
<1>3. PICK id : id = Entry(ERROR_STR_TABLE, e.id) OBVIOUS
<1>4. /\ type.word = "TC"
      /\ \A d : Keyword(EVT_STR_TABLE, EvtTypes, type, d) = e.type
  BY <1>2, PrintedType
<1>5. \A d : Keyword(ERROR_STR_TABLE, ErrorIds, id, d) = e.id
  BY <1>3, ErrorWords
<1>6. x = Element("event", [type |-> type, id |-> id, res |-> Num(e.res)],
                  Unset, <<>>)
  BY <1>1, <1>2, <1>3, <1>4 DEF EventElement
<1>7. x.attr = [type |-> type, id |-> id, res |-> Num(e.res)] /\ x.kids = <<>>
  BY <1>6 DEF Element
<1>8. /\ DOMAIN x.attr = {"type", "id", "res"} /\ x.attr["type"] = type
      /\ x.attr["id"] = id /\ x.attr["res"] = Num(e.res)
  BY <1>7
<1>9. /\ Prop(x, "type", Unset) = type /\ Prop(x, "format", Unset) = Unset
      /\ Prop(x, "length", Num(0)) = Num(0) /\ Prop(x, "res", Num(0)).num = e.res
      /\ Prop(x, "id", Word("NONE")) = id /\ "id" \in DOMAIN x.attr
  BY ONLY <1>8, NumberOf DEF Prop
<1>10. Kids(x, "command") = <<>> BY <1>7 DEF Kids
<1>11. ParseEvent(x) = [class |-> "event", type |-> e.type, format |-> 0,
                        length |-> 0, id |-> e.id, res |-> e.res,
                        command |-> NoXml]
  BY <1>4, <1>5, <1>9, <1>10, NoFormat, EventParsed, EventDefaults
<1>12. e = [class |-> "event", type |-> e.type, format |-> 0,
            length |-> 0, id |-> e.id, res |-> e.res, command |-> NoXml]
  BY EventDefaults
<1>13. QED BY <1>1, <1>11, <1>12

\* CMD, with a command or without one.
LEMMA CommandEventReads ==
  ASSUME NEW e, e.type = Enum(EvtTypes, "CMD"), e.res \in Int,
         e.command = NoXml \/ IsPrintedCommand(e.command),
         e = [NewEvent EXCEPT !.type = e.type, !.res = e.res,
                              !.command = e.command]
  PROVE  ParseEvent(EventElement(e))
           = IF e.command = NoXml THEN e ELSE [e EXCEPT !.command.time = 0]
<1>1. PICK x : x = EventElement(e) OBVIOUS
<1>2. PICK type : type = Entry(EVT_STR_TABLE, e.type) OBVIOUS
<1>3. /\ type.word = "CMD"
      /\ \A d : Keyword(EVT_STR_TABLE, EvtTypes, type, d) = e.type
  BY <1>2, PrintedType
<1>4. PICK kids : kids = IF e.command = NoXml THEN <<>>
                         ELSE [command |-> <<CommandElement(e.command)>>]
  OBVIOUS
<1>5. x = Element("event", [type |-> type, res |-> Num(e.res)], Unset, kids)
  BY <1>1, <1>2, <1>3, <1>4 DEF EventElement
<1>6. x.attr = [type |-> type, res |-> Num(e.res)] /\ x.kids = kids
  BY <1>5 DEF Element
<1>7. /\ DOMAIN x.attr = {"type", "res"} /\ x.attr["type"] = type
      /\ x.attr["res"] = Num(e.res)
  BY <1>6
<1>8. /\ Prop(x, "type", Unset) = type /\ Prop(x, "format", Unset) = Unset
      /\ Prop(x, "length", Num(0)) = Num(0) /\ Prop(x, "res", Num(0)).num = e.res
      /\ "id" \notin DOMAIN x.attr
  BY ONLY <1>7, NumberOf DEF Prop
<1>9. PICK read : read = IF e.command = NoXml THEN NoXml
                         ELSE [e.command EXCEPT !.time = 0]
  OBVIOUS
<1>10. (IF Kids(x, "command") = <<>> THEN NoXml
        ELSE ParseCommand(Kids(x, "command")[1])) = read
  <2>1. CASE e.command = NoXml
    <3>1. Kids(x, "command") = <<>> BY <1>4, <1>6, <2>1 DEF Kids
    <3>2. QED BY <1>9, <2>1, <3>1
  <2>2. CASE e.command # NoXml
    <3>1. Kids(x, "command") = <<CommandElement(e.command)>>
      BY <1>4, <1>6, <2>2 DEF Kids
    <3>2. Kids(x, "command")[1] = CommandElement(e.command)
          /\ Kids(x, "command") # <<>>
      BY <3>1
    <3>3. ParseCommand(CommandElement(e.command)) = read
      BY <1>9, <2>2, CommandReads
    <3>4. QED BY <3>2, <3>3
  <2>3. QED BY <2>1, <2>2
<1>11. ParseEvent(x) = [class |-> "event", type |-> e.type, format |-> 0,
                        length |-> 0, id |-> 2, res |-> e.res, command |-> read]
  BY <1>3, <1>8, <1>10, NoFormat, EventParsed, EventDefaults
<1>12. e = [class |-> "event", type |-> e.type, format |-> 0, length |-> 0,
            id |-> 2, res |-> e.res, command |-> e.command]
  BY EventDefaults
<1>13. CASE e.command = NoXml BY <1>1, <1>9, <1>11, <1>12, <1>13
<1>14. CASE e.command # NoXml
  <2>1. [e EXCEPT !.command.time = 0]
          = [e EXCEPT !.command = [e.command EXCEPT !.time = 0]]
    OBVIOUS
  <2>2. [e EXCEPT !.command = read]
          = [class |-> "event", type |-> e.type, format |-> 0, length |-> 0,
             id |-> 2, res |-> e.res, command |-> read]
    BY <1>12
  <2>3. QED BY <1>1, <1>9, <1>11, <1>14, <2>1, <2>2
<1>15. QED BY <1>13, <1>14

\* An event that is printed is read.
LEMMA EventReads ==
  ASSUME NEW e, IsPrintedEvent(e),
         e.type = Enum(EvtTypes, "TC") => e.id \in 0 .. 1
  PROVE  ParseEvent(EventElement(e))
           = IF e.command = NoXml THEN e ELSE [e EXCEPT !.command.time = 0]
<1>1. Len(FORMAT_STR_TABLE) = 5 /\ Len(ERROR_STR_TABLE) = 2
  BY DEF FORMAT_STR_TABLE, ERROR_STR_TABLE
<1>2. CASE /\ \E w \in {"REGOK", "REGFAIL", "READY"} : e.type = Enum(EvtTypes, w)
           /\ e = [NewEvent EXCEPT !.type = e.type]
  <2>1. e.command = NoXml BY <1>2, EventDefaults
  <2>2. QED BY <1>2, <2>1, PlainEventReads
<1>3. CASE /\ \E w \in {"LOG", "IMG", "INFO"} : e.type = Enum(EvtTypes, w)
           /\ e.format \in 0 .. 4 /\ e.length \in Int
           /\ e = [NewEvent EXCEPT !.type = e.type, !.format = e.format,
                                   !.length = e.length]
  <2>1. e.command = NoXml BY <1>3, EventDefaults
  <2>2. QED BY <1>3, <2>1, LogEventReads
<1>4. CASE /\ e.type = Enum(EvtTypes, "ERROR") /\ e.id \in 0 .. 1
           /\ e = [NewEvent EXCEPT !.type = e.type, !.id = e.id]
  <2>1. e.command = NoXml BY <1>4, EventDefaults
  <2>2. QED BY <1>4, <2>1, ErrorEventReads
<1>5. CASE /\ e.type = Enum(EvtTypes, "TC") /\ e.res \in Int
           /\ e = [NewEvent EXCEPT !.type = e.type, !.id = e.id, !.res = e.res]
  <2>1. e.command = NoXml BY <1>5, EventDefaults
  <2>2. QED BY <1>5, <2>1, TestEventReads
<1>6. CASE /\ e.type = Enum(EvtTypes, "CMD") /\ e.res \in Int
           /\ e.command = NoXml \/ IsPrintedCommand(e.command)
           /\ e = [NewEvent EXCEPT !.type = e.type, !.res = e.res,
                                   !.command = e.command]
  BY <1>6, CommandEventReads
<1>7. QED BY <1>1, <1>2, <1>3, <1>4, <1>5, <1>6 DEF IsPrintedEvent

\* The numbers of what is asked, answered and said.
LEMMA BusNumbers ==
  /\ Enum(BusTypes, "EVENT") = 0 /\ Enum(BusTypes, "REQUEST") = 1
  /\ Enum(BusTypes, "RESPONSE") = 2
  /\ Enum(BusCmds, "JOIN") = 0 /\ Enum(BusCmds, "DROP") = 1
  /\ Enum(BusCmds, "LIST") = 2
  /\ Enum(BusEvents, "NODE_ADDED") = 0 /\ Enum(BusEvents, "NODE_DROPPED") = 1
  /\ Enum(BusEvents, "NETWORK_DETACHED") = 2
  /\ Enum(BusEvents, "SET_DEFAULT_NODE") = 3
<1>1. OnceEach(BusTypes, 4) /\ OnceEach(BusCmds, 9) /\ OnceEach(BusEvents, 4)
      /\ 4 \in Nat /\ 9 \in Nat
  BY BusEnums
<1>2. \A k \in 1 .. 4 : Enum(BusTypes, BusTypes[k]) = k - 1
  BY ONLY <1>1, EnumOf
<1>3. \A k \in 1 .. 9 : Enum(BusCmds, BusCmds[k]) = k - 1
  BY ONLY <1>1, EnumOf
<1>4. \A k \in 1 .. 4 : Enum(BusEvents, BusEvents[k]) = k - 1
  BY ONLY <1>1, EnumOf
<1>5. BusTypes[1] = "EVENT" /\ BusTypes[2] = "REQUEST" /\ BusTypes[3] = "RESPONSE"
  BY DEF BusTypes
<1>6. BusCmds[1] = "JOIN" /\ BusCmds[2] = "DROP" /\ BusCmds[3] = "LIST"
  BY DEF BusCmds
<1>7. /\ BusEvents[1] = "NODE_ADDED" /\ BusEvents[2] = "NODE_DROPPED"
      /\ BusEvents[3] = "NETWORK_DETACHED" /\ BusEvents[4] = "SET_DEFAULT_NODE"
  BY DEF BusEvents
<1>8. /\ Enum(BusTypes, BusTypes[1]) = 0 /\ Enum(BusTypes, BusTypes[2]) = 1
      /\ Enum(BusTypes, BusTypes[3]) = 2
  BY ONLY <1>2
<1>9. /\ Enum(BusCmds, BusCmds[1]) = 0 /\ Enum(BusCmds, BusCmds[2]) = 1
      /\ Enum(BusCmds, BusCmds[3]) = 2
  BY ONLY <1>3
<1>10. /\ Enum(BusEvents, BusEvents[1]) = 0 /\ Enum(BusEvents, BusEvents[2]) = 1
       /\ Enum(BusEvents, BusEvents[3]) = 2 /\ Enum(BusEvents, BusEvents[4]) = 3
  BY ONLY <1>4
<1>11. QED BY ONLY <1>5, <1>6, <1>7, <1>8, <1>9, <1>10

\* The kinds of NBUSXML objects exclude each other.
LEMMA BusKinds ==
  ASSUME NEW b
  PROVE  /\ IsBus(b, "EVENT", BusEvents,
                  {"NODE_ADDED", "NODE_DROPPED", "SET_DEFAULT_NODE"})
              <=> b.type = Num(0) /\ b.id \in {Num(0), Num(1), Num(3)}
         /\ IsBus(b, "EVENT", BusEvents, {"NETWORK_DETACHED"})
              <=> b.type = Num(0) /\ b.id = Num(2)
         /\ IsBus(b, "REQUEST", BusCmds, {"LIST"})
              <=> b.type = Num(1) /\ b.id = Num(2)
         /\ IsBus(b, "REQUEST", BusCmds, {"JOIN", "DROP"})
              <=> b.type = Num(1) /\ b.id \in {Num(0), Num(1)}
         /\ IsBus(b, "RESPONSE", BusCmds, {"LIST"})
              <=> b.type = Num(2) /\ b.id = Num(2)
<1>1. \A names, v, w : (\E u \in {v, w} : b.id = Num(Enum(names, u)))
                         <=> b.id \in {Num(Enum(names, v)), Num(Enum(names, w))}
  OBVIOUS
<1>2. \A names, v, w, x : (\E u \in {v, w, x} : b.id = Num(Enum(names, u)))
         <=> b.id \in {Num(Enum(names, v)), Num(Enum(names, w)), Num(Enum(names, x))}
  OBVIOUS
<1>3. \A names, v : (\E u \in {v} : b.id = Num(Enum(names, u)))
                         <=> b.id = Num(Enum(names, v))
  OBVIOUS
<1>4. QED BY <1>1, <1>2, <1>3, BusNumbers DEF IsBus

\* Numbers differ as numbers, and none is what was never written.
LEMMA NumbersDiffer ==
  /\ \A k, l \in Int : Num(k) = Num(l) => k = l
  /\ \A k \in Int : Num(k) # Unset /\ AsNumber(Num(k)) = Num(k)
  /\ AsNumber(Unset) = Unset
<1>1. \A k \in Int : Num(k).num = k /\ Num(k).word = "" BY DEF Num
<1>2. Unset.word = "?" BY DEF Unset
<1>3. QED BY <1>1, <1>2 DEF AsNumber

LEMMA FewNumbers ==
  /\ Num(0) # Num(1) /\ Num(0) # Num(2) /\ Num(0) # Num(3)
  /\ Num(1) # Num(2) /\ Num(1) # Num(3) /\ Num(2) # Num(3)
<1>1. /\ Num(0).num = 0 /\ Num(1).num = 1 /\ Num(2).num = 2 /\ Num(3).num = 3
  BY NumberOf
<1>2. QED BY <1>1

\* An object that is read, field by field.
LEMMA BusParsed ==
  ASSUME NEW e, NEW type, NEW id, NEW syncId, NEW buffer, NEW node,
         NEW s \in Seq(Value),
         AsNumber(Prop(e, "type", Unset)) = type,
         AsNumber(Prop(e, "id", Unset)) = id,
         Prop(e, "syncid", Num(-1)).num = syncId,
         Prop(e, "buffer", Unset) = buffer,
         Prop(e, "node", Unset) = node,
         Prop(e, "ip", Unset) = Unset, Prop(e, "port", Unset) = Unset,
         [k \in 1 .. Len(Kids(e, "node")) |-> Kids(e, "node")[k].value] = s
  PROVE  ParseBus(e) = [class |-> "bus", type |-> type, id |-> id,
                        syncId |-> syncId, buffer |-> buffer, node |-> node,
                        ip |-> Unset, port |-> Unset, nodes |-> Reverse(s)]
<1>1. NewBus = [class |-> "bus", type |-> Unset, id |-> Unset, syncId |-> -1,
                buffer |-> Unset, node |-> Unset, ip |-> Unset, port |-> Unset,
                nodes |-> <<>>]
  BY DEF NewBus
<1>2. /\ NewBus.type = Unset /\ NewBus.id = Unset /\ NewBus.syncId = -1
      /\ NewBus.buffer = Unset /\ NewBus.node = Unset /\ NewBus.ip = Unset
      /\ NewBus.port = Unset
  BY <1>1
<1>3. PICK plain : plain = [NewBus EXCEPT !.type = type, !.id = id,
                              !.syncId = syncId, !.buffer = buffer,
                              !.node = node, !.ip = Unset, !.port = Unset]
  OBVIOUS
<1>4. plain = [class |-> "bus", type |-> type, id |-> id, syncId |-> syncId,
               buffer |-> buffer, node |-> node, ip |-> Unset, port |-> Unset,
               nodes |-> <<>>]
  BY <1>1, <1>3
<1>5. ParseBus(e) = AddNodeNames(plain, s)
  BY <1>2, <1>3, NumbersDiffer DEF ParseBus
<1>6. Reverse(s) \o <<>> = Reverse(s)
  <2>1. PICK n \in Nat : n = Len(s) BY LenProperties
  <2>2. Reverse(s) = [k \in 1 .. n |-> s[n - k + 1]] BY <2>1 DEF Reverse
  <2>3. \A k \in 1 .. n : n - k + 1 \in 1 .. n OBVIOUS
  <2>4. \A k \in 1 .. n : s[n - k + 1] \in Value BY <2>1, <2>3, ElementOfSeq
  <2>5. Reverse(s) \in [1 .. n -> Value] BY <2>2, <2>4
  <2>6. Reverse(s) \in Seq(Value) BY <2>5, IsASeq
  <2>7. QED BY <2>6, ConcatEmptySeq
<1>7. AddNodeNames(plain, s) = [plain EXCEPT !.nodes = Reverse(s) \o <<>>]
  BY <1>4 DEF AddNodeNames
<1>8. QED BY <1>4, <1>5, <1>6, <1>7

\* What the attributes say of an object with these numbers.
LEMMA BusHead ==
  ASSUME NEW x, NEW t \in 0 .. 2, NEW i \in 0 .. 3,
         "type" \in DOMAIN x.attr, x.attr["type"] = Num(t),
         "id" \in DOMAIN x.attr, x.attr["id"] = Num(i),
         "ip" \notin DOMAIN x.attr, "port" \notin DOMAIN x.attr
  PROVE  /\ AsNumber(Prop(x, "type", Unset)) = Num(t)
         /\ AsNumber(Prop(x, "id", Unset)) = Num(i)
         /\ Prop(x, "ip", Unset) = Unset /\ Prop(x, "port", Unset) = Unset
<1>1. Prop(x, "type", Unset) = Num(t) /\ Prop(x, "id", Unset) = Num(i) BY DEF Prop
<1>2. AsNumber(Num(t)) = Num(t) /\ AsNumber(Num(i)) = Num(i) BY NumbersDiffer
<1>3. Prop(x, "ip", Unset) = Unset /\ Prop(x, "port", Unset) = Unset BY DEF Prop
<1>4. QED BY ONLY <1>1, <1>2, <1>3

\* No names are read where none are written.
LEMMA NoNames ==
  ASSUME NEW x, x.kids = <<>>
  PROVE  /\ [k \in 1 .. Len(Kids(x, "node")) |-> Kids(x, "node")[k].value] = <<>>
         /\ <<>> \in Seq(Value)
<1>1. Kids(x, "node") = <<>> BY DEF Kids
<1>2. Len(<<>>) = 0 OBVIOUS
<1>3. QED BY <1>1, <1>2

\* What is printed of each kind.
LEMMA NamedPrinted ==
  ASSUME NEW b, \/ b.type = Num(0) /\ b.id \in {Num(0), Num(1), Num(3)}
                \/ b.type = Num(1) /\ b.id \in {Num(0), Num(1)}
  PROVE  BusElement(b)
           = Element("nodebus", [type |-> b.type, id |-> b.id, node |-> b.node],
                     Unset, <<>>)
<1>1. /\ ~IsBus(b, "EVENT", BusEvents, {"NETWORK_DETACHED"})
      /\ ~IsBus(b, "REQUEST", BusCmds, {"LIST"})
      /\ ~IsBus(b, "RESPONSE", BusCmds, {"LIST"})
  BY BusKinds, FewNumbers
<1>2. CASE b.type = Num(0)
  <2>1. /\ IsBus(b, "EVENT", BusEvents,
                 {"NODE_ADDED", "NODE_DROPPED", "SET_DEFAULT_NODE"})
        /\ ~IsBus(b, "REQUEST", BusCmds, {"JOIN", "DROP"})
    BY <1>2, BusKinds, FewNumbers
  <2>2. QED BY ONLY <1>1, <2>1 DEF BusElement
<1>3. CASE b.type = Num(1)
  <2>1. /\ ~IsBus(b, "EVENT", BusEvents,
                  {"NODE_ADDED", "NODE_DROPPED", "SET_DEFAULT_NODE"})
        /\ IsBus(b, "REQUEST", BusCmds, {"JOIN", "DROP"})
    BY <1>3, BusKinds, FewNumbers
  <2>2. QED BY ONLY <1>1, <2>1 DEF BusElement
<1>4. QED BY <1>2, <1>3

LEMMA HeadPrinted ==
  ASSUME NEW b, b.type = Num(0), b.id = Num(2)
  PROVE  BusElement(b)
           = Element("nodebus", [type |-> b.type, id |-> b.id], Unset, <<>>)
<1>1. IsBus(b, "EVENT", BusEvents, {"NETWORK_DETACHED"}) BY BusKinds
<1>2. /\ ~IsBus(b, "EVENT", BusEvents,
                {"NODE_ADDED", "NODE_DROPPED", "SET_DEFAULT_NODE"})
      /\ ~IsBus(b, "REQUEST", BusCmds, {"LIST"})
      /\ ~IsBus(b, "REQUEST", BusCmds, {"JOIN", "DROP"})
      /\ ~IsBus(b, "RESPONSE", BusCmds, {"LIST"})
  BY BusKinds, FewNumbers
<1>3. QED BY ONLY <1>1, <1>2 DEF BusElement

LEMMA ListPrinted ==
  ASSUME NEW b, b.type = Num(1) \/ b.type = Num(2), b.id = Num(2)
  PROVE  BusElement(b)
           = Element("nodebus", [type |-> b.type, id |-> b.id, node |-> b.node,
                                 syncid |-> Num(b.syncId), buffer |-> b.buffer],
                     Unset,
                     IF b.type = Num(1) THEN <<>>
                     ELSE [node |-> [k \in 1 .. Len(b.nodes) |->
                                       Element("node", <<>>, b.nodes[k], <<>>)]])
<1>1. /\ ~IsBus(b, "EVENT", BusEvents,
                {"NODE_ADDED", "NODE_DROPPED", "SET_DEFAULT_NODE"})
      /\ ~IsBus(b, "EVENT", BusEvents, {"NETWORK_DETACHED"})
      /\ ~IsBus(b, "REQUEST", BusCmds, {"JOIN", "DROP"})
  BY BusKinds, FewNumbers
<1>2. CASE b.type = Num(1)
  <2>1. /\ IsBus(b, "REQUEST", BusCmds, {"LIST"})
        /\ ~IsBus(b, "RESPONSE", BusCmds, {"LIST"})
    BY <1>2, BusKinds, FewNumbers
  <2>2. QED BY ONLY <1>1, <1>2, <2>1 DEF BusElement
<1>3. CASE b.type = Num(2)
  <2>1. /\ IsBus(b, "RESPONSE", BusCmds, {"LIST"}) /\ b.type # Num(1)
        /\ ~IsBus(b, "REQUEST", BusCmds, {"LIST"})
    BY <1>3, BusKinds, FewNumbers
  <2>2. QED BY ONLY <1>1, <2>1 DEF BusElement
<1>4. QED BY <1>2, <1>3

\* Requests and events that only name a node.
LEMMA NamedBusReads ==
  ASSUME NEW b,
         \/ b.type = Num(0) /\ b.id \in {Num(0), Num(1), Num(3)}
         \/ b.type = Num(1) /\ b.id \in {Num(0), Num(1)},
         b = [NewBus EXCEPT !.type = b.type, !.id = b.id, !.node = b.node]
  PROVE  ParseBus(BusElement(b)) = [b EXCEPT !.nodes = Reverse(b.nodes)]
<1>1. PICK x : x = BusElement(b) OBVIOUS
<1>2. PICK t \in 0 .. 2, i \in 0 .. 3 : b.type = Num(t) /\ b.id = Num(i) OBVIOUS
<1>3. PICK buffer : buffer = Unset OBVIOUS
<1>4. PICK sync : sync = -1 OBVIOUS
<1>5. x = Element("nodebus", [type |-> b.type, id |-> b.id, node |-> b.node],
                  Unset, <<>>)
  BY <1>1, NamedPrinted
<1>6. /\ x.attr = [type |-> b.type, id |-> b.id, node |-> b.node]
      /\ x.kids = <<>>
  BY <1>5 DEF Element
<1>7. /\ DOMAIN x.attr = {"type", "id", "node"} /\ x.attr["type"] = Num(t)
      /\ x.attr["id"] = Num(i) /\ x.attr["node"] = b.node
  BY <1>2, <1>6
<1>8. /\ AsNumber(Prop(x, "type", Unset)) = Num(t)
      /\ AsNumber(Prop(x, "id", Unset)) = Num(i)
      /\ Prop(x, "ip", Unset) = Unset /\ Prop(x, "port", Unset) = Unset
  BY <1>7, BusHead
<1>9. /\ Prop(x, "syncid", Num(-1)).num = sync
      /\ Prop(x, "buffer", Unset) = buffer /\ Prop(x, "node", Unset) = b.node
  BY ONLY <1>3, <1>4, <1>7, NumberOf DEF Prop
<1>10. PICK s \in Seq(Value) : s = <<>> BY NoNames, <1>6
<1>11. ParseBus(x) = [class |-> "bus", type |-> Num(t), id |-> Num(i),
                      syncId |-> sync, buffer |-> buffer, node |-> b.node,
                      ip |-> Unset, port |-> Unset, nodes |-> Reverse(s)]
  <2>1. PICK node : node = b.node OBVIOUS
  <2>2. PICK type : type = Num(t) OBVIOUS
  <2>3. PICK id : id = Num(i) OBVIOUS
  <2>4. /\ AsNumber(Prop(x, "type", Unset)) = type
        /\ AsNumber(Prop(x, "id", Unset)) = id
        /\ Prop(x, "ip", Unset) = Unset /\ Prop(x, "port", Unset) = Unset
    BY ONLY <1>8, <2>2, <2>3
  <2>5. /\ Prop(x, "syncid", Num(-1)).num = sync
        /\ Prop(x, "buffer", Unset) = buffer /\ Prop(x, "node", Unset) = node
    BY ONLY <1>9, <2>1
  <2>6. [k \in 1 .. Len(Kids(x, "node")) |-> Kids(x, "node")[k].value] = s
    BY <1>6, <1>10, NoNames
  <2>7. ParseBus(x) = [class |-> "bus", type |-> type, id |-> id,
                       syncId |-> sync, buffer |-> buffer, node |-> node,
                       ip |-> Unset, port |-> Unset, nodes |-> Reverse(s)]
    BY ONLY <2>4, <2>5, <2>6, s \in Seq(Value), BusParsed
  <2>8. QED BY ONLY <2>1, <2>2, <2>3, <2>7
<1>12. b = [class |-> "bus", type |-> Num(t), id |-> Num(i), syncId |-> -1,
            buffer |-> Unset, node |-> b.node, ip |-> Unset, port |-> Unset,
            nodes |-> <<>>]
  BY <1>2 DEF NewBus
<1>13. QED BY <1>1, <1>3, <1>4, <1>10, <1>11, <1>12

\* The event that names none.
LEMMA HeadBusReads ==
  ASSUME NEW b, b.type = Num(0), b.id = Num(2),
         b = [NewBus EXCEPT !.type = b.type, !.id = b.id]
  PROVE  ParseBus(BusElement(b)) = [b EXCEPT !.nodes = Reverse(b.nodes)]
<1>1. PICK x : x = BusElement(b) OBVIOUS
<1>2. PICK none : none = Unset OBVIOUS
<1>3. PICK sync : sync = -1 OBVIOUS
<1>4. x = Element("nodebus", [type |-> b.type, id |-> b.id], Unset, <<>>)
  BY <1>1, HeadPrinted
<1>5. x.attr = [type |-> b.type, id |-> b.id] /\ x.kids = <<>>
  BY <1>4 DEF Element
<1>6. /\ DOMAIN x.attr = {"type", "id"} /\ x.attr["type"] = Num(0)
      /\ x.attr["id"] = Num(2)
  BY <1>5
<1>7. /\ AsNumber(Prop(x, "type", Unset)) = Num(0)
      /\ AsNumber(Prop(x, "id", Unset)) = Num(2)
      /\ Prop(x, "ip", Unset) = Unset /\ Prop(x, "port", Unset) = Unset
  BY <1>6, BusHead
<1>8. /\ Prop(x, "syncid", Num(-1)).num = sync
      /\ Prop(x, "buffer", Unset) = none /\ Prop(x, "node", Unset) = none
  BY ONLY <1>2, <1>3, <1>6, NumberOf DEF Prop
<1>9. PICK s \in Seq(Value) : s = <<>> BY NoNames, <1>5
<1>10. ParseBus(x) = [class |-> "bus", type |-> Num(0), id |-> Num(2),
                      syncId |-> sync, buffer |-> none, node |-> none,
                      ip |-> Unset, port |-> Unset, nodes |-> Reverse(s)]
  <2>1. PICK node : node = none OBVIOUS
  <2>2. PICK type : type = Num(0) OBVIOUS
  <2>3. PICK id : id = Num(2) OBVIOUS
  <2>4. /\ AsNumber(Prop(x, "type", Unset)) = type
        /\ AsNumber(Prop(x, "id", Unset)) = id
        /\ Prop(x, "ip", Unset) = Unset /\ Prop(x, "port", Unset) = Unset
    BY ONLY <1>7, <2>2, <2>3
  <2>5. /\ Prop(x, "syncid", Num(-1)).num = sync
        /\ Prop(x, "buffer", Unset) = none /\ Prop(x, "node", Unset) = node
    BY ONLY <1>8, <2>1
  <2>6. [k \in 1 .. Len(Kids(x, "node")) |-> Kids(x, "node")[k].value] = s
    BY <1>5, <1>9, NoNames
  <2>7. ParseBus(x) = [class |-> "bus", type |-> type, id |-> id,
                       syncId |-> sync, buffer |-> none, node |-> node,
                       ip |-> Unset, port |-> Unset, nodes |-> Reverse(s)]
    BY ONLY <2>4, <2>5, <2>6, s \in Seq(Value), BusParsed
  <2>8. QED BY ONLY <2>1, <2>2, <2>3, <2>7
<1>11. b = [class |-> "bus", type |-> Num(0), id |-> Num(2), syncId |-> -1,
            buffer |-> Unset, node |-> Unset, ip |-> Unset, port |-> Unset,
            nodes |-> <<>>]
  BY DEF NewBus
<1>12. QED BY <1>1, <1>2, <1>3, <1>9, <1>10, <1>11

\* A LIST, and its answer with the names.
LEMMA ListBusReads ==
  ASSUME NEW b, b.type = Num(1) \/ b.type = Num(2), b.id = Num(2),
         b.type = Num(1) => b.nodes = <<>>, b.nodes \in Seq(Value),
         b = [NewBus EXCEPT !.type = b.type, !.id = b.id, !.node = b.node,
                !.syncId = b.syncId, !.buffer = b.buffer, !.nodes = b.nodes]
  PROVE  ParseBus(BusElement(b)) = [b EXCEPT !.nodes = Reverse(b.nodes)]
<1>1. PICK x : x = BusElement(b) OBVIOUS
<1>2. PICK t \in 0 .. 2 : b.type = Num(t) OBVIOUS
<1>3. PICK named : named = [k \in 1 .. Len(b.nodes) |->
                              Element("node", <<>>, b.nodes[k], <<>>)]
  OBVIOUS
<1>4. PICK kids : kids = IF b.type = Num(1) THEN <<>> ELSE [node |-> named] OBVIOUS
<1>5. PICK attr : attr = [type |-> b.type, id |-> b.id, node |-> b.node,
                          syncid |-> Num(b.syncId), buffer |-> b.buffer]
  OBVIOUS
<1>6. BusElement(b)
        = Element("nodebus", [type |-> b.type, id |-> b.id, node |-> b.node,
                              syncid |-> Num(b.syncId), buffer |-> b.buffer],
                  Unset,
                  IF b.type = Num(1) THEN <<>>
                  ELSE [node |-> [k \in 1 .. Len(b.nodes) |->
                                    Element("node", <<>>, b.nodes[k], <<>>)]])
  BY ListPrinted
<1>7. x = Element("nodebus", attr, Unset, kids)
  BY ONLY <1>1, <1>3, <1>4, <1>5, <1>6
<1>8. x.attr = attr /\ x.kids = kids BY <1>7 DEF Element
<1>9. /\ DOMAIN x.attr = {"type", "id", "node", "syncid", "buffer"}
      /\ x.attr["type"] = Num(t) /\ x.attr["id"] = Num(2)
      /\ x.attr["node"] = b.node /\ x.attr["syncid"] = Num(b.syncId)
      /\ x.attr["buffer"] = b.buffer
  BY <1>2, <1>5, <1>8
<1>10. /\ AsNumber(Prop(x, "type", Unset)) = Num(t)
       /\ AsNumber(Prop(x, "id", Unset)) = Num(2)
       /\ Prop(x, "ip", Unset) = Unset /\ Prop(x, "port", Unset) = Unset
  BY <1>9, BusHead
<1>11. /\ Prop(x, "syncid", Num(-1)).num = b.syncId
       /\ Prop(x, "buffer", Unset) = b.buffer /\ Prop(x, "node", Unset) = b.node
  BY ONLY <1>9, NumberOf DEF Prop
<1>12. [k \in 1 .. Len(Kids(x, "node")) |-> Kids(x, "node")[k].value] = b.nodes
  <2>1. CASE b.type = Num(1)
    <3>1. x.kids = <<>> /\ b.nodes = <<>> BY <1>4, <1>8, <2>1
    <3>2. QED BY <3>1, NoNames
  <2>2. CASE b.type # Num(1)
    <3>1. Kids(x, "node") = named BY <1>4, <1>8, <2>2 DEF Kids
    <3>2. PICK n \in Nat : n = Len(b.nodes) BY LenProperties
    <3>3. /\ named = [k \in 1 .. n |-> Element("node", <<>>, b.nodes[k], <<>>)]
          /\ b.nodes = [k \in 1 .. n |-> b.nodes[k]]
      BY <1>3, <3>2, LenProperties
    <3>4. named \in [1 .. n -> {Element("node", <<>>, v, <<>>) : v \in Value}]
      BY <3>2, <3>3, ElementOfSeq
    <3>5. Len(named) = n BY <3>4, IsASeq, LenProperties
    <3>6. \A k \in 1 .. n : named[k].value = b.nodes[k] BY <3>3 DEF Element
    <3>7. QED BY <3>1, <3>3, <3>5, <3>6
  <2>3. QED BY <2>1, <2>2
<1>13. ParseBus(x) = [class |-> "bus", type |-> Num(t), id |-> Num(2),
                      syncId |-> b.syncId, buffer |-> b.buffer, node |-> b.node,
                      ip |-> Unset, port |-> Unset, nodes |-> Reverse(b.nodes)]
  BY ONLY <1>10, <1>11, <1>12, b.nodes \in Seq(Value), BusParsed
<1>14. b = [class |-> "bus", type |-> Num(t), id |-> Num(2), syncId |-> b.syncId,
            buffer |-> b.buffer, node |-> b.node, ip |-> Unset, port |-> Unset,
            nodes |-> b.nodes]
  BY <1>2 DEF NewBus
<1>15. QED BY <1>1, <1>13, <1>14

\* A request, an answer or an event of the bus that is printed is read.
LEMMA BusReads ==
  ASSUME NEW b, IsPrintedBus(b)
  PROVE  /\ ParseBus(BusElement(b)) = [b EXCEPT !.nodes = Reverse(b.nodes)]
         /\ BusElement(b).tag = "nodebus"
<1>1. NewBus = [class |-> "bus", type |-> Unset, id |-> Unset, syncId |-> -1,
                buffer |-> Unset, node |-> Unset, ip |-> Unset, port |-> Unset,
                nodes |-> <<>>]
  BY DEF NewBus
<1>2. <<>> \in Seq(Value) OBVIOUS
<1>3. CASE /\ \/ IsBus(b, "EVENT", BusEvents,
                       {"NODE_ADDED", "NODE_DROPPED", "SET_DEFAULT_NODE"})
              \/ IsBus(b, "REQUEST", BusCmds, {"JOIN", "DROP"})
           /\ b = [NewBus EXCEPT !.type = b.type, !.id = b.id, !.node = b.node]
  <2>1. \/ b.type = Num(0) /\ b.id \in {Num(0), Num(1), Num(3)}
        \/ b.type = Num(1) /\ b.id \in {Num(0), Num(1)}
    BY <1>3, BusKinds
  <2>2. BusElement(b).tag = "nodebus" BY <2>1, NamedPrinted DEF Element
  <2>3. QED BY <1>3, <2>1, <2>2, NamedBusReads
<1>4. CASE /\ IsBus(b, "EVENT", BusEvents, {"NETWORK_DETACHED"})
           /\ b = [NewBus EXCEPT !.type = b.type, !.id = b.id]
  <2>1. b.type = Num(0) /\ b.id = Num(2) BY <1>4, BusKinds
  <2>2. BusElement(b).tag = "nodebus" BY <2>1, HeadPrinted DEF Element
  <2>3. QED BY <1>4, <2>1, <2>2, HeadBusReads
<1>5. CASE /\ IsBus(b, "REQUEST", BusCmds, {"LIST"})
           /\ b = [NewBus EXCEPT !.type = b.type, !.id = b.id, !.node = b.node,
                     !.syncId = b.syncId, !.buffer = b.buffer]
  <2>1. b.type = Num(1) /\ b.id = Num(2) BY <1>5, BusKinds
  <2>2. b.nodes = <<>> BY <1>1, <1>5
  <2>3. b = [NewBus EXCEPT !.type = b.type, !.id = b.id, !.node = b.node,
               !.syncId = b.syncId, !.buffer = b.buffer, !.nodes = b.nodes]
    BY <1>1, <1>5, <2>2
  <2>4. BusElement(b).tag = "nodebus" BY <2>1, ListPrinted DEF Element
  <2>5. b.nodes \in Seq(Value) BY <1>2, <2>2
  <2>6. QED BY <2>1, <2>2, <2>3, <2>4, <2>5, ListBusReads
<1>6. CASE /\ IsBus(b, "RESPONSE", BusCmds, {"LIST"}) /\ b.nodes \in Seq(Value)
           /\ b = [NewBus EXCEPT !.type = b.type, !.id = b.id, !.node = b.node,
                     !.syncId = b.syncId, !.buffer = b.buffer, !.nodes = b.nodes]
  <2>1. b.type = Num(2) /\ b.type # Num(1) /\ b.id = Num(2)
    BY <1>6, BusKinds, FewNumbers
  <2>2. BusElement(b).tag = "nodebus" BY <2>1, ListPrinted DEF Element
  <2>3. QED BY <1>6, <2>1, <2>2, ListBusReads
<1>7. QED BY <1>3, <1>4, <1>5, <1>6 DEF IsPrintedBus

\* The tag of the event that is printed.
LEMMA EventTag ==
  ASSUME NEW e, IsPrintedEvent(e)
  PROVE  EventElement(e).tag = "event"
<1>1. PICK w \in {"REGOK", "REGFAIL", "READY", "LOG", "ERROR", "IMG", "TC",
                  "CMD", "INFO"} : e.type = Enum(EvtTypes, w)
  BY DEF IsPrintedEvent
<1>2. Entry(EVT_STR_TABLE, e.type).word = w BY <1>1, PrintedType
<1>3. QED BY <1>2 DEF EventElement, Element

\* Whatever is read of an element has the class of its tag.
LEMMA ReadClass ==
  ASSUME NEW e
  PROVE  /\ ParseCommand(e).class = "command" /\ ParseEvent(e).class = "event"
         /\ ParseBus(e).class = "bus" /\ NoXml.class = "null"
<1>1. ParseCommand(e).class = "command"
  BY DEF ParseCommand, AddArguments, NewCommand
<1>2. ParseEvent(e).class = "event" BY DEF ParseEvent, NewEvent
<1>3. ParseBus(e).class = "bus"
  <2>1. \A c, s : c.class = "bus" => AddNodeNames(c, s).class = "bus"
    BY DEF AddNodeNames
  <2>2. QED BY <2>1 DEF ParseBus, AddNodeNames, NewBus
<1>4. QED BY <1>1, <1>2, <1>3 DEF NoXml

\* An event with no time and no testcase number in it is read as it is.
LEMMA WholeEventReads ==
  ASSUME NEW e, e.class = "event", IsPrintedEvent(e), ~HasUnprinted(e)
  PROVE  ParseEvent(EventElement(e)) = e
<1>1. e.type = Enum(EvtTypes, "TC") => e.id \in 0 .. 1
  <2>1. Len(ERROR_STR_TABLE) = 2 BY DEF ERROR_STR_TABLE
  <2>2. QED BY <2>1 DEF HasUnprinted
<1>2. CASE e.command = NoXml BY <1>1, <1>2, EventReads
<1>3. CASE e.command # NoXml
  <2>1. e.command.time = 0 BY <1>3 DEF HasUnprinted
  <2>2. /\ IsPrintedCommand(e.command)
        /\ e = [NewEvent EXCEPT !.type = e.type, !.res = e.res,
                                !.command = e.command]
    BY <1>3, EventDefaults DEF IsPrintedEvent
  <2>3. e.command = [class |-> "command", type |-> e.command.type, time |-> 0,
                     args |-> e.command.args]
    BY <2>1, <2>2 DEF IsPrintedCommand
  <2>4. e = [class |-> "event", type |-> e.type, format |-> 0, length |-> 0,
             id |-> 2, res |-> e.res, command |-> e.command]
    BY <2>2, EventDefaults
  <2>5. [e.command EXCEPT !.time = 0] = e.command BY <2>3
  <2>6. [e EXCEPT !.command = e.command] = e BY <2>4
  <2>7. [e EXCEPT !.command.time = 0] = e BY <2>5, <2>6
  <2>8. QED BY <1>1, <1>3, <2>7, EventReads
<1>4. QED BY <1>2, <1>3

\* What is printed whole is read as it was sent: on its own, and in a packet.
LEMMA HeaderReads ==
  ASSUME NEW m, IsPrinted(m), ~HasUnprinted(m)
  PROVE  /\ ParseXml(Header(m)) = AsSent(m)
         /\ ReadPacket(m) = AsSent(m)
<1>1. PICK h : h = Header(m) OBVIOUS
<1>2. ParseXml(h) = AsSent(m) /\ ParseXml(h).class # "null"
  <2>1. CASE m.class = "command" /\ IsPrintedCommand(m)
    <3>1. h = CommandElement(m) BY <1>1, <2>1 DEF Header
    <3>2. h.tag = "command" BY <3>1 DEF CommandElement, Element
    <3>3. ParseXml(h) = ParseCommand(h) BY <3>2 DEF ParseXml
    <3>4. m.time = 0 BY <2>1 DEF HasUnprinted
    <3>5. m = [class |-> "command", type |-> m.type, time |-> 0, args |-> m.args]
      BY <2>1, <3>4 DEF IsPrintedCommand
    <3>6. [m EXCEPT !.time = 0] = m BY <3>5
    <3>7. ParseXml(h) = m BY <2>1, <3>1, <3>3, <3>6, CommandReads
    <3>8. QED BY <2>1, <3>3, <3>7, ReadClass DEF AsSent
  <2>2. CASE m.class = "event" /\ IsPrintedEvent(m)
    <3>1. h = EventElement(m) BY <1>1, <2>2 DEF Header
    <3>2. h.tag = "event" BY <2>2, <3>1, EventTag
    <3>3. ParseXml(h) = ParseEvent(h) BY <3>2 DEF ParseXml
    <3>4. QED BY <2>2, <3>1, <3>3, WholeEventReads, ReadClass DEF AsSent
  <2>3. CASE m.class = "bus" /\ IsPrintedBus(m)
    <3>1. h = BusElement(m) BY <1>1, <2>3 DEF Header
    <3>2. h.tag = "nodebus" BY <2>3, <3>1, BusReads
    <3>3. ParseXml(h) = ParseBus(h) BY <3>2 DEF ParseXml
    <3>4. QED BY <2>3, <3>1, <3>3, BusReads, ReadClass DEF AsSent
  <2>4. QED BY <2>1, <2>2, <2>3 DEF IsPrinted
<1>3. ParseXml(h) # NoXml BY <1>2 DEF NoXml
<1>4. PICK packet : packet = CopyHeader(h) OBVIOUS
<1>5. packet.start = TRUE /\ packet.header = h BY <1>3, <1>4 DEF CopyHeader
<1>6. ParserPacket(packet) = ParseXml(h) BY <1>5 DEF ParserPacket
<1>7. QED BY <1>1, <1>2, <1>4, <1>6 DEF ReadPacket

\* The default node misreads no object of the bus but those with a command's
\* time or a testcase number in them: of all others what its callback is given,
\* and the answer a caller waits for, is what the global server made, whichever
\* order the words of the tables and the lists have.
THEOREM MisreadOnlyUnprintedCorrect ==
  ASSUME AllPrinted
  PROVE  NodeSpec => []MisreadOnlyUnprinted
<1>1. \A m \in Misread : HasUnprinted(m)
  <2>1. ASSUME NEW m \in Messages, ~HasUnprinted(m) PROVE ReadPacket(m) = AsSent(m)
    BY <2>1, HeaderReads DEF AllPrinted
  <2>2. ASSUME NEW b \in Answers, ~HasUnprinted(b) PROVE ReadAnswer(b) = AsSent(b)
    <3>1. IsPrinted(b) /\ b.class = "bus"
      BY DefaultNodeAssumption DEF AllPrinted, DefaultNodeAssumption
    <3>2. Header(b) = BusElement(b) BY <3>1 DEF Header
    <3>3. QED BY <2>2, <3>1, <3>2, HeaderReads DEF ReadAnswer
  <2>3. QED BY <2>1, <2>2 DEF Misread
<1>2. NodeInit => MisreadOnlyUnprinted BY DEF NodeInit, MisreadOnlyUnprinted
<1>3. MisreadOnlyUnprinted /\ [NodeNext]_nodeVars => MisreadOnlyUnprinted'
  <2>1. SUFFICES ASSUME MisreadOnlyUnprinted, [NodeNext]_nodeVars
                 PROVE  misread' \subseteq misread \cup Misread
    BY <1>1 DEF MisreadOnlyUnprinted
  <2>2. CASE Callback
    <3>1. \A objects : Reads(objects) => misread' \subseteq misread \cup Misread
      BY DEF Reads
    <3>2. QED
      BY <2>2, <3>1
      DEF Callback, AnswerCaller, CallbackIgnores, CallbackReturns,
          CallbackCrashes, LogCommand
  <2>3. CASE AdapterStep BY <2>3 DEF AdapterStep
  <2>4. CASE \E k \in Child : ChildStep(k) BY <2>4 DEF ChildStep
  <2>5. CASE UNCHANGED nodeVars BY <2>5 DEF nodeVars
  <2>6. QED BY <2>1, <2>2, <2>3, <2>4, <2>5 DEF NodeNext
<1>4. QED BY <1>2, <1>3, PTL DEF NodeSpec
=============================================================================
