---------------------------- MODULE NodeAdapter ----------------------------
(***************************************************************************)
(* NodeAdapter (service/NodeAdapter.cpp) with the part of                  *)
(* NodeNetwork::setupLocalNode that calls it: a coordinator thread binds   *)
(* the node's socket and turns every message it reads into a command of    *)
(* the queue mQ and a wake event of the looper; a dispatcher thread serves *)
(* the events and hands the commands to the node's callback; the thread    *)
(* that called run() polls mSetup.  addQueue() lets any other thread post. *)
(*                                                                         *)
(* push() and wakeup() are two steps, so commands, wakes, the exit event   *)
(* and the dispatcher's loop interleave in every order.  mQ is the FIFO    *)
(* that CmdQueue is shown to implement.                                    *)
(***************************************************************************)
EXTENDS NodeLooper, FiniteSets

CONSTANTS QueueSize,    \* NBUS_INT_QUEUE_SIZE
          Caller,       \* threads that call addQueue()
          MaxFrames,    \* bound: connections the peers make
          MaxPosts      \* bound: commands one caller posts

ASSUME AdapterAssumption ==
  /\ QueueSize \in Nat \ {0}
  /\ IsFiniteSet(Caller) /\ "coordinator" \notin Caller
  /\ MaxFrames \in Nat /\ MaxPosts \in Nat

VARIABLES mQ,           \* the command queue
          pc,           \* where each posting thread is
          out,          \* the command a posting thread is about to push
          dpc,          \* where the dispatcher is
          item,         \* the command the dispatcher popped
          mSetup, mExited,
          returned,     \* run() has returned
          frames, posts, \* used up of MaxFrames and MaxPosts
          woken,        \* a thread waiting for a reply was told to go on
          stops         \* history: callers' SETUP commands taken in hand

vars == <<pipe, batch, pos, mQ, pc, out, dpc, item, mSetup, mExited, returned,
          frames, posts, woken, stops>>

Poster == Caller \cup {"coordinator"}

\* What a command is to the dispatcher: SETUP_MESSAGE; an XML response with a
\* sync id; anything the user's callback gets.
CmdType == {"setup", "reply", "data"}

Command == [type : CmdType, from : Poster]

FromNetwork == {c \in Command : c.from = "coordinator"}

\* SETUP commands that addQueue() posted: each ends a call of dispatch() that
\* the wake of another command was written for.
Stopping == {c \in Command : c.type = "setup" /\ c.from # "coordinator"}

NoItem == [type |-> "none", from |-> "coordinator"]

Init ==
  /\ LooperInit
  /\ mQ = <<>>
  /\ pc = [t \in Poster |-> IF t = "coordinator" THEN "bind" ELSE "idle"]
  /\ out = [t \in Poster |-> NoItem]
  /\ dpc = "poll" /\ item = NoItem
  /\ mSetup = FALSE /\ mExited = FALSE /\ returned = FALSE
  /\ frames = 0 /\ posts = [t \in Caller |-> 0]
  /\ woken = FALSE /\ stops = 0

-----------------------------------------------------------------------------
(* Posting: localAction() and addQueue().                                  *)

Ready(t, type) ==
  /\ pc' = [pc EXCEPT ![t] = "push"]
  /\ out' = [out EXCEPT ![t] = [type |-> type, from |-> t]]

\* Mutant of Push: a full queue gives up its oldest command for the new one.
PushDropsOldest(t) ==
  /\ pc[t] = "push"
  /\ mQ' = Append(IF Len(mQ) = QueueSize THEN Tail(mQ) ELSE mQ, out[t])
  /\ pc' = [pc EXCEPT ![t] = "wake"]
  /\ out' = [out EXCEPT ![t] = NoItem]
  /\ UNCHANGED <<looperVars, dpc, item, mSetup, mExited, returned, frames,
                 posts, woken, stops>>

\* Mutant of Push: the wake is written only for a queue that was empty.
PushWakesIfEmpty(t) ==
  /\ pc[t] = "push"
  /\ mQ' = IF Len(mQ) = QueueSize THEN mQ ELSE Append(mQ, out[t])
  /\ pc' = [pc EXCEPT ![t] = IF mQ = <<>> THEN "wake"
                             ELSE IF t = "coordinator" THEN "accept" ELSE "idle"]
  /\ out' = [out EXCEPT ![t] = NoItem]
  /\ UNCHANGED <<looperVars, dpc, item, mSetup, mExited, returned, frames,
                 posts, woken, stops>>

\* mQ.push(item): a full queue drops the command; the caller goes on alike.
Push(t) ==
  /\ pc[t] = "push"
  /\ mQ' = IF Len(mQ) = QueueSize THEN mQ ELSE Append(mQ, out[t])
  /\ pc' = [pc EXCEPT ![t] = "wake"]
  /\ out' = [out EXCEPT ![t] = NoItem]
  /\ UNCHANGED <<looperVars, dpc, item, mSetup, mExited, returned, frames,
                 posts, woken, stops>>

\* mpLooper->wakeup(): waits while the pipe is full.
Wake(t) ==
  /\ pc[t] = "wake"
  /\ WriteEvent("wake")
  /\ pc' = [pc EXCEPT ![t] = IF t = "coordinator" THEN "accept" ELSE "idle"]
  /\ UNCHANGED <<mQ, out, dpc, item, mSetup, mExited, returned, frames, posts,
                 woken, stops>>

\* addQueue() with a command of any type.
AddQueue(t) ==
  /\ pc[t] = "idle" /\ posts[t] < MaxPosts
  /\ posts' = [posts EXCEPT ![t] = @ + 1]
  /\ \E type \in CmdType : Ready(t, type)
  /\ UNCHANGED <<looperVars, mQ, dpc, item, mSetup, mExited, returned, frames,
                 woken, stops>>

-----------------------------------------------------------------------------
(* The coordinator: NodeNetwork::setupLocalNode and nodeCallback.          *)

netRest == <<looperVars, mQ, dpc, item, mSetup, mExited, returned, posts,
             woken, stops>>

\* Mutant of Bind: the socket is bound and nobody is told.
BindSilent ==
  /\ pc["coordinator"] = "bind"
  /\ pc' = [pc EXCEPT !["coordinator"] = "accept"]
  /\ UNCHANGED <<netRest, out, frames>>

\* socket(), bind() and listen() succeed and SETUP is posted.
Bind ==
  /\ pc["coordinator"] = "bind"
  /\ Ready("coordinator", "setup")
  /\ UNCHANGED <<netRest, frames>>

\* One of them fails: setupLocalNode returns without any callback.
BindFails ==
  /\ pc["coordinator"] = "bind"
  /\ pc' = [pc EXCEPT !["coordinator"] = "failed"]
  /\ UNCHANGED <<netRest, out, frames>>

\* A connection that carries a whole message.  A message of type SETUP from a
\* peer is posted like the one of Bind.
Receive(type) ==
  /\ pc["coordinator"] = "accept" /\ frames < MaxFrames
  /\ frames' = frames + 1
  /\ Ready("coordinator", type)
  /\ UNCHANGED netRest

\* A connection whose type, length or data do not all arrive, or of no bytes.
ReceiveShort ==
  /\ pc["coordinator"] = "accept" /\ frames < MaxFrames
  /\ frames' = frames + 1
  /\ UNCHANGED <<netRest, pc, out>>

ReceiveKill ==
  /\ pc["coordinator"] = "accept" /\ frames < MaxFrames
  /\ frames' = frames + 1
  /\ pc' = [pc EXCEPT !["coordinator"] = "exit"]
  /\ UNCHANGED <<netRest, out>>

\* Mutant of Kill: the coordinator ends without the exit event.
KillSilent ==
  /\ pc["coordinator"] = "exit"
  /\ pc' = [pc EXCEPT !["coordinator"] = "ended"]
  /\ UNCHANGED <<netRest, out, frames>>

\* mpLooper->exit(): waits while the pipe is full.
Kill ==
  /\ pc["coordinator"] = "exit"
  /\ WriteEvent("exit")
  /\ pc' = [pc EXCEPT !["coordinator"] = "ended"]
  /\ UNCHANGED <<mQ, out, dpc, item, mSetup, mExited, returned, frames, posts,
                 woken, stops>>

\* accept() fails: the loop ends and nobody tells the dispatcher.
AcceptFails ==
  /\ pc["coordinator"] = "accept"
  /\ pc' = [pc EXCEPT !["coordinator"] = "failed"]
  /\ UNCHANGED <<netRest, out, frames>>

-----------------------------------------------------------------------------
(* The dispatcher: NodeLooper::wait, looperCallback and dispatch.          *)

dispRest == <<pc, out, returned, frames, posts>>

\* Mutant of Poll: the pipe is looked at only while a command is queued.
PollIfQueued ==
  /\ dpc = "poll" /\ mQ # <<>>
  /\ ReadBatch
  /\ dpc' = "event"
  /\ UNCHANGED <<mQ, item, mSetup, mExited, woken, stops, dispRest>>

Poll ==
  /\ dpc = "poll"
  /\ ReadBatch
  /\ dpc' = "event"
  /\ UNCHANGED <<mQ, item, mSetup, mExited, woken, stops, dispRest>>

\* looperCallback() or dispatch() returns to wait().
BackToLoop ==
  /\ EventServed
  /\ dpc' = IF LeavesLoop THEN "leave" ELSE IF MoreEvents THEN "event" ELSE "poll"

\* The callback for one event: the batch's first event decides.
CallbackExit ==
  /\ dpc = "event" /\ SeenEvent = "exit"
  /\ BackToLoop
  /\ UNCHANGED <<mQ, item, mSetup, mExited, woken, stops, dispRest>>

CallbackWake ==
  /\ dpc = "event" /\ SeenEvent # "exit"
  /\ dpc' = "dispatch"
  /\ UNCHANGED <<looperVars, mQ, item, mSetup, mExited, woken, stops, dispRest>>

\* getSize() and pop(): one step, as no other thread pops.
Pop ==
  /\ dpc = "dispatch" /\ mQ # <<>>
  /\ item' = Head(mQ)
  /\ mQ' = Tail(mQ)
  /\ dpc' = "handle"
  /\ stops' = IF Head(mQ) \in Stopping THEN stops + 1 ELSE stops
  /\ UNCHANGED <<looperVars, mSetup, mExited, woken, dispRest>>

QueueEmpty ==
  /\ dpc = "dispatch" /\ mQ = <<>>
  /\ BackToLoop
  /\ UNCHANGED <<mQ, item, mSetup, mExited, woken, stops, dispRest>>

\* SETUP returns from dispatch() at once, whatever the queue still holds.
HandleSetup ==
  /\ dpc = "handle" /\ item.type = "setup"
  /\ mSetup' = TRUE
  /\ item' = NoItem
  /\ BackToLoop
  /\ UNCHANGED <<mQ, mExited, woken, stops, dispRest>>

\* Mutant of HandleReply: the response is taken for a user's message.
HandleReplyAsData ==
  /\ dpc = "handle" /\ item.type = "reply"
  /\ item' = NoItem
  /\ dpc' = "dispatch"
  /\ UNCHANGED <<looperVars, mQ, mSetup, mExited, woken, stops, dispRest>>

\* A response: the waiting thread's looper is told to exit, no user callback.
HandleReply ==
  /\ dpc = "handle" /\ item.type = "reply"
  /\ woken' = TRUE
  /\ item' = NoItem
  /\ dpc' = "dispatch"
  /\ UNCHANGED <<looperVars, mQ, mSetup, mExited, stops, dispRest>>

\* The user's callback, which is assumed to return.
HandleData ==
  /\ dpc = "handle" /\ item.type = "data"
  /\ item' = NoItem
  /\ dpc' = "dispatch"
  /\ UNCHANGED <<looperVars, mQ, mSetup, mExited, woken, stops, dispRest>>

\* Behind wait() in Dispatcher::thread().
Leave ==
  /\ dpc = "leave"
  /\ mExited' = TRUE
  /\ dpc' = "exited"
  /\ UNCHANGED <<looperVars, mQ, item, mSetup, woken, stops, dispRest>>

-----------------------------------------------------------------------------
\* run(): the loop over mSetup ends.
Return ==
  /\ mSetup /\ ~returned
  /\ returned' = TRUE
  /\ UNCHANGED <<looperVars, mQ, pc, out, dpc, item, mSetup, mExited, frames,
                 posts, woken, stops>>

Post(t) == Push(t) \/ Wake(t)

Receiving ==
  \/ \E type \in CmdType : Receive(type)
  \/ ReceiveShort
  \/ ReceiveKill

Dispatch ==
  \/ Poll \/ CallbackExit \/ CallbackWake \/ Pop \/ QueueEmpty
  \/ HandleSetup \/ HandleReply \/ HandleData \/ Leave

Next ==
  \/ \E t \in Poster : Post(t)
  \/ \E t \in Caller : AddQueue(t)
  \/ Bind \/ BindFails \/ Receiving \/ Kill \/ AcceptFails
  \/ Dispatch
  \/ Return

\* Started threads keep running: a post begun is finished, the dispatcher
\* serves what it can and run() sees mSetup.  Nobody has to send anything.
Fairness ==
  /\ \A t \in Poster : WF_vars(Post(t))
  /\ WF_vars(Kill)
  /\ WF_vars(Dispatch)
  /\ WF_vars(Return)

Spec == Init /\ [][Next]_vars /\ Fairness

-----------------------------------------------------------------------------
TypeOK ==
  /\ LooperTypeOK
  /\ mQ \in Seq(Command) /\ Len(mQ) <= QueueSize
  /\ pc \in [Poster -> {"bind", "failed", "accept", "exit", "ended", "idle",
                        "push", "wake"}]
  /\ out \in [Poster -> Command \cup {NoItem}]
  /\ \A t \in Poster : pc[t] = "push" => out[t] \in Command
  /\ dpc \in {"poll", "event", "dispatch", "handle", "leave", "exited"}
  /\ item \in Command \cup {NoItem}
  /\ dpc = "handle" => item \in Command
  /\ dpc \in {"event", "dispatch", "handle"} => pos # 0
  /\ mSetup \in BOOLEAN /\ mExited \in BOOLEAN /\ returned \in BOOLEAN
  /\ frames \in Nat /\ posts \in [Caller -> Nat]
  /\ woken \in BOOLEAN /\ stops \in Nat

\* Threads that have pushed and not yet written their wake event.
Waking == {t \in Poster : pc[t] = "wake"}

\* The call of dispatch() in progress goes on until the queue is empty, unless
\* the command in hand is a SETUP.
Draining ==
  \/ dpc = "dispatch"
  \/ dpc = "handle" /\ item.type # "setup"

\* Calls of dispatch() to come: one per event not yet served.
EventsAhead ==
  Len(pipe) + (IF dpc = "event" THEN Len(batch) - pos + 1 ELSE Len(batch) - pos)

\* Every queued command has a wake of its own ahead of it, so that the early
\* return on SETUP never strands one: the queue never holds more than the
\* wakes unread, the wakes about to be written and the call in progress.
WakePerCommand ==
  dpc \notin {"leave", "exited"} /\ ~(dpc = "event" /\ SeenEvent = "exit")
    => Len(mQ) <= EventsAhead + Cardinality(Waking)
                  + (IF Draining THEN 1 ELSE 0)

\* The dispatcher never sleeps on an empty pipe while a command waits that no
\* thread is about to wake it for.
NoLostWakeup == dpc = "poll" /\ pipe = <<>> /\ Waking = {} => mQ = <<>>

\* When the dispatcher leaves, a message taken from the network is left only for
\* a SETUP that another thread posted: that one ends the call of dispatch() the
\* message's wake was for, and its own wake may come behind the exit event.
ExitDrainsNetwork ==
  mExited => Cardinality({i \in 1 .. Len(mQ) : mQ[i] \in FromNetwork}) <= stops

\* run() returns once the socket is bound, when those who post before it does
\* leave room in the queue (else the SETUP command is dropped).
RunReturns == (pc["coordinator"] = "accept") ~> returned

\* A KILL read from the socket ends the dispatcher.
KillEnds == (pc["coordinator"] = "exit") ~> mExited

\* A reply from the network that got into the queue wakes the thread that waits
\* for it, but when a SETUP posted by another thread let the exit overtake it.
ReplyWakes ==
  (\E i \in 1 .. Len(mQ) : mQ[i].type = "reply" /\ mQ[i] \in FromNetwork)
    ~> (woken \/ (mExited /\ stops > 0))

\* A thread that posts comes back from it, though wakes of commands that have
\* been served fill the pipe, unless the dispatcher has left: then nobody empties
\* the pipe any more and addQueue() waits for ever.
PostReturns ==
  \A t \in Poster :
    (pc[t] = "push") ~> (pc[t] \notin {"push", "wake"} \/ dpc = "exited")

Mail == INSTANCE Mailbox WITH Capacity <- QueueSize, Nothing <- NoItem,
                              box <- mQ, current <- item, closed <- mExited,
                              stopped <- stops

\* The adapter is a mailbox: in order, once each, nothing lost from below the
\* capacity, closed only when the network's messages are handled but for one per
\* SETUP that addQueue() posted.
RefinesMailbox == Mail!MailSpec
=============================================================================
