---------------------------- MODULE DefaultNode ----------------------------
(***************************************************************************)
(* The default node: a NodeAdapter whose callback, DefaultNodeCallback,    *)
(* parses what the global server sends and, for a LOG command, forks a     *)
(* child that is to become rlogcat.  When exec fails the child does not    *)
(* exit: it returns from the callback into a copy of the dispatcher, with  *)
(* a copy of the queue and of the events read, and reads the same pipe as  *)
(* the adapter.  The other threads are not copied, but a mutex one of them *)
(* held stays locked in the copy.                                          *)
(*                                                                         *)
(* What a command says is chosen when the dispatcher parses it (BusXml).   *)
(* A child's buffers are its own; its sync ids are the adapter's pipes.    *)
(***************************************************************************)
EXTENDS NodeAdapter, BusXml

CONSTANTS
  Child,        \* bound: processes forked
  Messages,     \* objects the server's packets are made of
  Answers       \* NBUSXML objects sent as answers

ASSUME DefaultNodeAssumption ==
  /\ IsFiniteSet(Child)
  /\ \A m \in Messages : m.class \in {"command", "event", "bus"}
  /\ \A b \in Answers : b.class = "bus"

VARIABLES
  child,        \* what every child is at
  takenWakes, takenExit, \* history: events of the pipe that children have read
  died,         \* the adapter's process has ended
  misread       \* history: objects that were not read as they were sent

forkVars == <<child, takenWakes, takenExit>>
nodeVars == <<vars, forkVars, died, misread>>

\* A child before its fork.
Unborn ==
  [at |-> "unborn", queue |-> <<>>, batch |-> <<>>, pos |-> 0, item |-> NoItem,
   locked |-> FALSE]

NodeInit ==
  /\ Init
  /\ child = [k \in Child |-> Unborn] /\ takenWakes = 0 /\ takenExit = FALSE
  /\ died = FALSE /\ misread = {}

-----------------------------------------------------------------------------
(* The adapter's own process.                                              *)

\* What the parser makes of an answer, and the callback of a packet, both built
\* with the same library.
ReadAnswer(b) == ParseXml(BusElement(b))
ReadPacket(m) == ParserPacket(CopyHeader(Header(m)))

\* What is to be read of an object: the object, and a list of names turned round.
AsSent(m) == IF m.class = "bus" THEN [m EXCEPT !.nodes = Reverse(@)] ELSE m

IsLog(x) == x.class = "command" /\ x.type = Enum(CmdTypes, "LOG")

\* The objects the callback takes for a LOG command, those it does nothing for,
\* and those that were something else when they were sent.
LogMessages == {m \in Messages : IsLog(ReadPacket(m))}
OtherMessages == {m \in Messages : ReadPacket(m) # NoXml} \ LogMessages
Misread ==
  {m \in Messages : ReadPacket(m) # AsSent(m)}
    \cup {b \in Answers : ReadAnswer(b) # AsSent(b)}

\* The objects have types with names, and no fields but those of their types.
AllPrinted == \A m \in Messages \cup Answers : IsPrinted(m)

\* Objects the dispatcher handles alike are handled in one action.
Reads(objects) ==
  /\ objects # {}
  /\ misread' = misread \cup (objects \cap Misread)

\* An answer with a sync id is for a caller that waits.
WaitedFor ==
  {b \in Answers :
     LET x == ReadAnswer(b)
     IN  x.class = "bus" /\ x.syncId > 0 /\ x.type = Num(Enum(BusTypes, "RESPONSE"))}

AnswerCaller ==
  /\ HandleReply
  /\ Reads(WaitedFor)
  /\ UNCHANGED <<forkVars, died>>

\* nodeCallback() returns 0 for messages of other types than GLOBAL.
CallbackIgnores ==
  /\ HandleData
  /\ UNCHANGED <<forkVars, died, misread>>

\* nodeGlobalCallback() returns 0 and has changed nothing.
CallbackReturns ==
  /\ HandleData
  /\ Reads(OtherMessages)
  /\ UNCHANGED <<forkVars, died>>

\* A packet that is none: pXml is NULL, and pXml->getXMLType() the end.
CallbackCrashes ==
  /\ HandleData
  /\ ParserPacket(NoPacket) = NoXml
  /\ died' = TRUE
  /\ UNCHANGED <<forkVars, misread>>

\* A thread of the adapter may be inside mQ.push(), and hold the queue's mutex.
MutexMayBeHeld == \E t \in Poster : pc[t] = "push"

Copy(queue, b, p, mayLock) ==
  {[at |-> "exec", queue |-> queue, batch |-> b, pos |-> p, item |-> NoItem,
    locked |-> lock] : lock \in {FALSE, mayLock}}

\* Which of the unborn it is makes no difference.
NextChild == CHOOSE k \in Child : child[k].at = "unborn"

\* fork() fails, or there is one more process, in the same place.
Forks(queue, b, p, mayLock) ==
  /\ \E k \in Child : child[k].at = "unborn"
  /\ \E copy \in Copy(queue, b, p, mayLock) :
       child' = [child EXCEPT ![NextChild] = copy]

LogCommand ==
  /\ HandleData
  /\ Reads(LogMessages)
  /\ Forks(mQ, batch, pos, MutexMayBeHeld) \/ UNCHANGED child
  /\ UNCHANGED <<takenWakes, takenExit, died>>

-----------------------------------------------------------------------------
(* A child.                                                                *)

Becomes(k, s) == child' = [child EXCEPT ![k] = s]

\* EventServed for the batch of a child; its thread, the only one, ends behind
\* an exit event.
Served(s) ==
  IF s.batch[s.pos] = "exit"
  THEN [Unborn EXCEPT !.at = "ended"]
  ELSE IF s.pos < Len(s.batch)
       THEN [s EXCEPT !.at = "event", !.pos = @ + 1]
       ELSE [s EXCEPT !.at = "poll", !.pos = 0, !.batch = <<>>]

ChildExec(k) ==
  /\ child[k].at = "exec"
  /\ \/ Becomes(k, [Unborn EXCEPT !.at = "ended"])
     \/ Becomes(k, [child[k] EXCEPT !.at = "dispatch"])
  /\ UNCHANGED <<vars, takenWakes, takenExit>>

\* getSize() and pop(), which waits for ever when the copied mutex is locked.
ChildPop(k) ==
  LET s == child[k]
  IN
  /\ s.at = "dispatch"
  /\ \/ /\ s.queue # <<>> /\ ~s.locked
        /\ Becomes(k, [s EXCEPT !.at = "handle", !.item = Head(s.queue),
                                !.queue = Tail(@)])
     \/ s.queue # <<>> /\ s.locked /\ Becomes(k, [Unborn EXCEPT !.at = "stuck"])
     \/ s.queue = <<>> /\ Becomes(k, Served(s))
  /\ UNCHANGED <<vars, takenWakes, takenExit>>

\* The command is handled once more: SETUP sets a mSetup nobody reads, an answer
\* goes to a copy of the buffer and wakes the caller, a LOG forks again, and
\* what does not parse ends the child.
ChildHandle(k) ==
  LET s == child[k]
      done == [s EXCEPT !.at = "dispatch", !.item = NoItem]
  IN
  /\ s.at = "handle"
  /\ \/ /\ s.item.type = "setup"
        /\ Becomes(k, Served([s EXCEPT !.item = NoItem]))
        /\ UNCHANGED woken
     \/ s.item.type = "reply" /\ woken' = TRUE /\ Becomes(k, done)
     \/ /\ s.item.type = "data"
        /\ \/ Becomes(k, done)
           \/ /\ \E g \in Child : child[g].at = "unborn"
              /\ \E copy \in Copy(s.queue, s.batch, s.pos, FALSE) :
                   child' = [child EXCEPT ![k] = done, ![NextChild] = copy]
           \/ Becomes(k, [Unborn EXCEPT !.at = "ended"])
        /\ UNCHANGED woken
  /\ UNCHANGED <<looperVars, mQ, pc, out, dpc, item, mSetup, mExited, returned,
                 frames, posts, stops, takenWakes, takenExit>>

\* read() takes what is in the pipe from whoever would have read it.
ChildPoll(k) ==
  LET n == IF Len(pipe) < BatchSize THEN Len(pipe) ELSE BatchSize
      read == SubSeq(pipe, 1, n)
  IN
  /\ child[k].at = "poll" /\ pipe # <<>>
  /\ Becomes(k, [child[k] EXCEPT !.at = "event", !.batch = read, !.pos = 1])
  /\ pipe' = SubSeq(pipe, n + 1, Len(pipe))
  /\ takenWakes' = takenWakes + Cardinality({j \in 1 .. n : pipe[j] = "wake"})
  /\ takenExit' = (takenExit \/ "exit" \in Range(read))
  /\ UNCHANGED <<batch, pos, mQ, pc, out, dpc, item, mSetup, mExited, returned,
                 frames, posts, woken, stops>>

\* looperCallback(), with the first event of the batch whichever it is for.
ChildEvent(k) ==
  LET s == child[k]
  IN
  /\ s.at = "event"
  /\ Becomes(k, IF s.batch[1] = "exit" THEN Served(s) ELSE [s EXCEPT !.at = "dispatch"])
  /\ UNCHANGED <<vars, takenWakes, takenExit>>

ChildStep(k) ==
  /\ ChildExec(k) \/ ChildPop(k) \/ ChildHandle(k) \/ ChildPoll(k) \/ ChildEvent(k)
  /\ UNCHANGED <<died, misread>>

-----------------------------------------------------------------------------
\* The adapter as it is, but for the two ways of handling above.
AdapterStep ==
  /\ \/ \E t \in Poster : Post(t)
     \/ \E t \in Caller : AddQueue(t)
     \/ Bind \/ BindFails \/ Receiving \/ Kill \/ AcceptFails
     \/ Poll \/ CallbackExit \/ CallbackWake \/ Pop \/ QueueEmpty \/ HandleSetup
     \/ Leave \/ Return
  /\ UNCHANGED <<forkVars, died, misread>>

Callback ==
  AnswerCaller \/ CallbackIgnores \/ CallbackReturns \/ CallbackCrashes \/ LogCommand

NodeNext ==
  \/ ~died /\ (AdapterStep \/ Callback)
  \/ \E k \in Child : ChildStep(k)

\* As in NodeAdapter; a child may be as slow as it likes.
Dispatching ==
  /\ ~died
  /\ \/ Callback
     \/ /\ \/ Poll \/ CallbackExit \/ CallbackWake \/ Pop \/ QueueEmpty
           \/ HandleSetup \/ Leave
        /\ UNCHANGED <<forkVars, died, misread>>

NodeFairness ==
  /\ \A t \in Poster :
       WF_nodeVars(~died /\ Post(t) /\ UNCHANGED <<forkVars, died, misread>>)
  /\ WF_nodeVars(~died /\ Kill /\ UNCHANGED <<forkVars, died, misread>>)
  /\ WF_nodeVars(Dispatching)

NodeSpec == NodeInit /\ [][NodeNext]_nodeVars /\ NodeFairness

-----------------------------------------------------------------------------
\* A queued command is short of a wake of its own only by wakes that children
\* have read, wherever in the batch and in the queue the forks came.  (Nothing is
\* said of what a child's copies do to those who wait: it may answer a caller of
\* its copied queue, and does so in its copy of the caller's buffer.)
WakesTaken ==
  dpc \notin {"leave", "exited"} /\ ~(dpc = "event" /\ SeenEvent = "exit")
    => Len(mQ) <= EventsAhead + Cardinality(Waking) + (IF Draining THEN 1 ELSE 0)
                  + takenWakes

\* A KILL ends the dispatcher unless a child read the exit event or a message
\* that does not parse has ended the process.
KillEndsNode == (pc["coordinator"] = "exit") ~> (mExited \/ takenExit \/ died)

\* Whatever the server sends of the objects there are, the callback reads what
\* was sent, and the caller of a LIST is given the names that were sent, but for
\* two things that get lost on the way: the time of a command, which XMLTypes.h
\* shows as time="100" and toXML() leaves out, and the testcase number of a TC
\* event, which parseEventXML() reads and toXML() looks up among two error names.
MisreadOnlyUnprinted == \A m \in misread : HasUnprinted(m)
=============================================================================
