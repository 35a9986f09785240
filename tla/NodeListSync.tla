---------------------------- MODULE NodeListSync ----------------------------
(***************************************************************************)
(* INodeBusService::getNodeList, a call over three one-way messages: a     *)
(* caller makes a looper and a buffer, sends LIST with the number of the   *)
(* looper's pipe and the address of the buffer in it, and waits.  The      *)
(* service sends the list to a node adapter of the caller's process, whose *)
(* dispatcher copies it to the address and writes the exit event to the    *)
(* pipe.  Nobody retries, and the wait has no timeout.                     *)
(*                                                                         *)
(* The service is what DefaultService shows it to be to its peers (a queue *)
(* that may be full, requests served in order), the adapter what Mailbox   *)
(* promises; the read of a pipe, one event, is one step with the return.   *)
(***************************************************************************)
EXTENDS Integers, Sequences, FiniteSets

CONSTANTS
  Caller,       \* threads that call getNodeList()
  Node,         \* names that join and drop
  Receiver,     \* pResultReceiver, the adapter's name
  Pipe,         \* numbers a pipe may be given
  ServiceRoom, AdapterRoom, \* what the two queues hold
  MayKill,      \* the adapter may be sent a KILL
  MaxCalls,     \* bound: calls of one caller
  MaxChanges    \* bound: joins and drops

ASSUME ListAssumption ==
  /\ Receiver \in Node
  /\ Caller # {} /\ IsFiniteSet(Caller) /\ IsFiniteSet(Pipe)
  /\ Cardinality(Pipe) >= Cardinality(Caller)
  /\ ServiceRoom \in Nat \ {0} /\ AdapterRoom \in Nat \ {0}
  /\ MayKill \in BOOLEAN /\ MaxCalls \in Nat /\ MaxChanges \in Nat

VARIABLES
  cpc,          \* where a caller is
  inside,       \* those that call in the callback of the adapter itself
  syncId,       \* the number of its looper's pipe
  buff,         \* what its buffer holds: no list, or one
  exits,        \* pipes with an exit event in them
  svcQ, reg,    \* requests of the service, and its registry
  up,           \* the adapter accepts connections
  mQ,           \* replies queued by the adapter
  dpc, reply,   \* its dispatcher, and the reply in hand
  calls, changes, \* used up of MaxCalls and MaxChanges
  seen,         \* history: registries since the call began
  lost          \* history: callers whose request or reply was dropped

callerVars == <<cpc, inside, syncId, buff, calls>>
serviceVars == <<svcQ, reg, changes>>
adapterVars == <<up, mQ, dpc, reply>>
vars == <<callerVars, exits, serviceVars, adapterVars, seen, lost>>

NoList == [known |-> FALSE, nodes |-> {}]
NodeList(r) == [known |-> TRUE, nodes |-> r]

\* A LIST names the caller for the address of its buffer.
Request(kind, c, p, n) == [kind |-> kind, buffer |-> c, sync |-> p, node |-> n]

AnyCaller == CHOOSE c \in Caller : TRUE
AnyPipe == CHOOSE p \in Pipe : TRUE

NoReply == [buffer |-> AnyCaller, sync |-> AnyPipe, list |-> NoList]

Init ==
  /\ cpc = [c \in Caller |-> "idle"] /\ inside = {}
  /\ syncId = [c \in Caller |-> AnyPipe] /\ buff = [c \in Caller |-> NoList]
  /\ calls = [c \in Caller |-> 0]
  /\ exits = {}
  /\ svcQ = <<>> /\ reg = {Receiver} /\ changes = 0
  /\ up = TRUE /\ mQ = <<>> /\ dpc = "ready" /\ reply = NoReply
  /\ seen = [c \in Caller |-> {}] /\ lost = {}

InCall(c) == cpc[c] # "idle"

Open == {syncId[c] : c \in {d \in Caller : InCall(d)}}

\* A call in the adapter's callback keeps its dispatcher.
Blocked == inside # {}

-----------------------------------------------------------------------------
(* The caller.                                                             *)

\* The looper's pipe is new; a number that is closed may come back.
Call(c) ==
  /\ cpc[c] = "idle" /\ calls[c] < MaxCalls
  /\ \/ inside' = inside
     \/ dpc = "ready" /\ ~Blocked /\ inside' = {c}
  /\ \E p \in Pipe \ Open : syncId' = [syncId EXCEPT ![c] = p]
  /\ buff' = [buff EXCEPT ![c] = NoList]
  /\ calls' = [calls EXCEPT ![c] = @ + 1]
  /\ cpc' = [cpc EXCEPT ![c] = "send"]
  /\ seen' = [seen EXCEPT ![c] = {reg}]
  /\ lost' = lost \ {c}
  /\ UNCHANGED <<exits, serviceVars, adapterVars>>

\* Mutant of SendList: the request is sent twice, as by a retry.
SendListTwice(c) ==
  /\ cpc[c] = "send" /\ Len(svcQ) + 1 < ServiceRoom
  /\ svcQ' = svcQ \o <<Request("list", c, syncId[c], Receiver),
                       Request("list", c, syncId[c], Receiver)>>
  /\ cpc' = [cpc EXCEPT ![c] = "wait"]
  /\ UNCHANGED <<inside, syncId, buff, calls, exits, reg, changes, adapterVars,
                 seen, lost>>

\* The result of the send is not looked at: a request the service drops is
\* waited for like any other.
SendList(c) ==
  /\ cpc[c] = "send"
  /\ IF Len(svcQ) < ServiceRoom
     THEN /\ svcQ' = Append(svcQ, Request("list", c, syncId[c], Receiver))
          /\ UNCHANGED lost
     ELSE lost' = lost \cup {c} /\ UNCHANGED svcQ
  /\ cpc' = [cpc EXCEPT ![c] = "wait"]
  /\ UNCHANGED <<inside, syncId, buff, calls, exits, reg, changes, adapterVars, seen>>

\* wait() returns, the looper is destroyed and its pipe closed.
Return(c) ==
  /\ cpc[c] = "wait" /\ syncId[c] \in exits
  /\ exits' = exits \ {syncId[c]}
  /\ cpc' = [cpc EXCEPT ![c] = "idle"] /\ inside' = inside \ {c}
  /\ UNCHANGED <<syncId, buff, calls, serviceVars, adapterVars, seen, lost>>

-----------------------------------------------------------------------------
(* The service and its other peers.                                        *)

\* Someone asks to join or drop a name: join(), drop(), or a cast() that
\* failed and drops the node it was for.
Change(kind, n) ==
  /\ changes < MaxChanges /\ Len(svcQ) < ServiceRoom
  /\ changes' = changes + 1
  /\ svcQ' = Append(svcQ, Request(kind, AnyCaller, AnyPipe, n))
  /\ UNCHANGED <<callerVars, exits, reg, adapterVars, seen, lost>>

\* The registry becomes r; every call under way could be given it.
Becomes(r) ==
  /\ reg' = r
  /\ seen' = [c \in Caller |-> IF InCall(c) THEN seen[c] \cup {r} ELSE seen[c]]

ServeChange ==
  LET request == Head(svcQ)
  IN
  /\ svcQ # <<>> /\ request.kind # "list"
  /\ svcQ' = Tail(svcQ)
  /\ Becomes(IF request.kind = "join" THEN reg \cup {request.node}
             ELSE reg \ {request.node})
  /\ UNCHANGED <<callerVars, exits, changes, adapterVars, lost>>

ReplyTo(request) ==
  [buffer |-> request.buffer, sync |-> request.sync, list |-> NodeList(reg)]

\* Mutant of ServeList: the list is built and not sent.
ServeListStops ==
  LET request == Head(svcQ)
  IN
  /\ svcQ # <<>> /\ request.kind = "list"
  /\ svcQ' = Tail(svcQ)
  /\ UNCHANGED <<mQ, lost, reg, seen>>
  /\ UNCHANGED <<callerVars, exits, changes, up, dpc, reply>>

\* The list is sent.  The adapter drops it when its queue is full; if there is
\* no adapter, the name is dropped from the registry and the reply forgotten.
\* A list that fills its last page arrives and counts as failed (NodeNetwork).
ServeList ==
  LET request == Head(svcQ)
  IN
  /\ svcQ # <<>> /\ request.kind = "list"
  /\ svcQ' = Tail(svcQ)
  /\ \/ /\ up /\ Len(mQ) < AdapterRoom
        /\ mQ' = Append(mQ, ReplyTo(request))
        /\ UNCHANGED <<reg, seen>> \/ Becomes(reg \ {request.node})
        /\ UNCHANGED lost
     \/ /\ up /\ Len(mQ) = AdapterRoom
        /\ lost' = lost \cup {request.buffer}
        /\ UNCHANGED <<reg, seen>> \/ Becomes(reg \ {request.node})
        /\ UNCHANGED mQ
     \/ /\ ~up
        /\ lost' = lost \cup {request.buffer}
        /\ Becomes(reg \ {request.node})
        /\ UNCHANGED mQ
  /\ UNCHANGED <<callerVars, exits, changes, up, dpc, reply>>

-----------------------------------------------------------------------------
(* The adapter.                                                            *)

\* What was accepted before is still handled (ExitDrainsNetwork).
Kill ==
  /\ MayKill /\ up
  /\ up' = FALSE
  /\ UNCHANGED <<callerVars, exits, serviceVars, mQ, dpc, reply, seen, lost>>

Take ==
  /\ dpc = "ready" /\ ~Blocked /\ mQ # <<>>
  /\ reply' = Head(mQ) /\ mQ' = Tail(mQ) /\ dpc' = "copy"
  /\ UNCHANGED <<callerVars, exits, serviceVars, up, seen, lost>>

\* Mutant of Copy: the caller is woken before the list is copied.
CopyLate ==
  /\ dpc = "copy"
  /\ exits' = exits \cup {reply.sync}
  /\ dpc' = "exit"
  /\ UNCHANGED <<callerVars, serviceVars, up, mQ, reply, seen, lost>>

\* strcpy() to the address in the reply.
Copy ==
  /\ dpc = "copy"
  /\ buff' = [buff EXCEPT ![reply.buffer] = reply.list]
  /\ dpc' = "exit"
  /\ UNCHANGED <<cpc, inside, syncId, calls, exits, serviceVars, up, mQ, reply,
                 seen, lost>>

\* NodeLooper::exit() on the number in the reply.
Exit ==
  /\ dpc = "exit"
  /\ exits' = exits \cup {reply.sync}
  /\ dpc' = "ready" /\ reply' = NoReply
  /\ UNCHANGED <<callerVars, serviceVars, up, mQ, seen, lost>>

-----------------------------------------------------------------------------
Serve == ServeChange \/ ServeList

Dispatch == Take \/ Copy \/ Exit

Next ==
  \/ \E c \in Caller : Call(c) \/ SendList(c) \/ Return(c)
  \/ \E kind \in {"join", "drop"}, n \in Node : Change(kind, n)
  \/ Serve
  \/ Kill
  \/ Dispatch

\* Threads run on; nobody has to call, join or drop.
Fairness ==
  /\ \A c \in Caller : WF_vars(SendList(c) \/ Return(c))
  /\ WF_vars(Serve) /\ WF_vars(Dispatch)

Spec == Init /\ [][Next]_vars /\ Fairness

-----------------------------------------------------------------------------
NodeLists == {NoList} \cup {NodeList(r) : r \in SUBSET Node}

Requests == [kind : {"list", "join", "drop"}, buffer : Caller, sync : Pipe, node : Node]

Replies == [buffer : Caller, sync : Pipe, list : NodeLists]

TypeOK ==
  /\ cpc \in [Caller -> {"idle", "send", "wait"}] /\ inside \subseteq Caller
  /\ syncId \in [Caller -> Pipe] /\ buff \in [Caller -> NodeLists]
  /\ calls \in [Caller -> Nat] /\ exits \subseteq Pipe
  /\ svcQ \in Seq(Requests) /\ Len(svcQ) <= ServiceRoom
  /\ reg \in SUBSET Node /\ changes \in Nat /\ up \in BOOLEAN
  /\ mQ \in Seq(Replies) /\ Len(mQ) <= AdapterRoom
  /\ dpc \in {"ready", "copy", "exit"} /\ reply \in Replies
  /\ seen \in [Caller -> SUBSET SUBSET Node] /\ lost \subseteq Caller

\* A call that returns gives the registry as it was at some moment between the
\* call and the return: never an empty buffer, a list of an earlier call or of
\* another caller.
ListIsSnapshot ==
  \A c \in Caller :
    cpc[c] = "wait" /\ syncId[c] \in exits
      => buff[c].known /\ buff[c].nodes \in seen[c]

\* What there is of a call between the send and the return: its request, its
\* reply in the queue or in the dispatcher's hand, or the event in its pipe.
Tokens(c) ==
  Cardinality({k \in 1 .. Len(svcQ) :
                 svcQ[k].kind = "list" /\ svcQ[k].buffer = c})
  + Cardinality({k \in 1 .. Len(mQ) : mQ[k].buffer = c})
  + (IF dpc # "ready" /\ reply.buffer = c THEN 1 ELSE 0)
  + (IF InCall(c) /\ syncId[c] \in exits THEN 1 ELSE 0)

\* A waiting caller has one of them, unless one was dropped on the way: a call
\* that hangs is a message lost.  One that has returned has none, so nothing is
\* written to a buffer that its caller has freed or to a pipe that is closed
\* or belongs to somebody else by now.
OneTokenPerCall ==
  /\ \A c \in Caller :
       Tokens(c) = IF cpc[c] = "wait" /\ c \notin lost THEN 1 ELSE 0
  /\ exits \subseteq Open

\* A call returns if its request and its reply find room and the adapter is
\* not kept by a call from its own callback.
CallReturns ==
  \A c \in Caller : InCall(c) ~> (~InCall(c) \/ c \in lost \/ Blocked)

=============================================================================
