--------------------------- MODULE DefaultService ---------------------------
(***************************************************************************)
(* DefaultService (service/DefaultService.cpp), the daemon every node of   *)
(* the local bus talks to.  A coordinator thread accepts one connection at *)
(* a time on the service's socket and queues its message; a dispatcher     *)
(* thread serves the queue: it keeps the registry of nodes, broadcasts to  *)
(* it, answers LIST, and on REGISTER connects to the global server, starts *)
(* a thread that reads global messages (NodePort::listen) and sets up the  *)
(* default node they are forwarded to.                                     *)
(*                                                                         *)
(* The registry is a sequence in the order of the list, the newest node    *)
(* first; only the dispatcher changes it once it has started.  A broadcast *)
(* holds mLock from its first send to its last, and the coordinator takes  *)
(* it for every SETUP message, also for one a peer sends: LockFree.  The   *)
(* other sections under mLock are one step each; mCLock guards one thread. *)
(***************************************************************************)
EXTENDS NodeLooper, FiniteSets, SequencesExt

CONSTANTS
  Node,         \* nodes of other processes
  Self,         \* DEFAULT_LOCAL_SERVICE_NAME
  Router,       \* LOCAL_ROUTER_NAME
  DefaultNode,  \* DEFAULT_NODE_NAME
  NoName,       \* an empty mDefaultNode
  Kinds,        \* the kinds of messages peers send in this instance
  Target,       \* the names they put into them
  Pages,        \* whether a message may fill its last page: a set of BOOLEANs
  Faults,       \* which of bind(), accept() and a send's socket() may fail
  Mortal,       \* names whose process may end and come back
  Lazy,         \* names whose process may stop reading its socket
  QueueSize,    \* NBUS_INT_QUEUE_SIZE
  Backlog,      \* connections waiting on the service's socket: listen(4) + 1
  MaxRequests,  \* bound: connections of peers
  MaxGlobals,   \* bound: messages of the global server
  MaxPorts      \* bound: successful connections to the global server

Name == Node \cup {Self, Router, DefaultNode}

\* Kinds of messages on the service's socket.  join, drop, list, register and
\* usb are the XML requests, setdef the XML event; other is every message that
\* processMessage() reads and does nothing for; custom is a LOCAL_MESSAGE that
\* does not parse; bc the three BC_ types; setup and kill are SETUP_MESSAGE and
\* KILL_MESSAGE; short is a connection that ends before a whole message, stall
\* one that neither ends nor yields it.
Named == {"join", "drop", "list", "setdef"}

PeerKind == Named \cup {"register", "usb", "other", "custom", "bc", "global",
                        "setup", "kill", "short", "stall"}

ASSUME ServiceAssumption ==
  /\ Self \notin Node /\ Router \notin Node /\ DefaultNode \notin Node
  /\ Self # Router /\ Self # DefaultNode /\ Router # DefaultNode
  /\ NoName \notin Name
  /\ Kinds \subseteq PeerKind /\ Target \subseteq Name /\ Target # {}
  /\ Pages \subseteq BOOLEAN /\ Pages # {}
  /\ Faults \subseteq {"bind", "accept", "socket"}
  /\ Mortal \subseteq Name \ {Self} /\ Lazy \subseteq Name \ {Self}
  /\ QueueSize \in Nat \ {0} /\ Backlog \in Nat \ {0}
  /\ MaxRequests \in Nat /\ MaxGlobals \in Nat /\ MaxPorts \in Nat

\* page: the length of the data is a multiple of SOCK_PAGE_SIZE.
Message == [kind : PeerKind \cup {"json"}, name : Name, page : BOOLEAN]

Msg(kind, name, page) == [kind |-> kind, name |-> name, page |-> page]

NoMsg == [kind |-> "none", name |-> NoName, page |-> FALSE]

\* What peers send here: only some kinds have a name, only the length of a
\* broadcast makes a difference to the service.
Requests ==
  {m \in Message :
     /\ m.kind \in Kinds
     /\ m.name \in IF m.kind \in Named THEN Target ELSE {Self}
     /\ m.page \in IF m.kind = "bc" THEN Pages ELSE {FALSE}}

VARIABLES
  main,         \* where run() is
  cpc, cmsg,    \* the coordinator, and the message it has read
  backlog,      \* connections waiting to be accepted, with their message
  mQ,
  dpc, item,    \* the dispatcher, and the message it has popped
  reg, mNumOfNode, mDefaultNode, mInitialized,
  lost,         \* history: names a broadcast removed and nobody has joined since
  cur,          \* the registry position a broadcast has reached
  toVisit, visited, \* history: the registry when it began; whom it has tried
  up,           \* names, other than Self, that accept connections
  silent,       \* those of them whose connections nobody reads any more
  routerSetup,  \* mSetup of the router's NodeAdapter
  ports,        \* the threads of NodePort::listen
  requests, globals, \* used up of MaxRequests and MaxGlobals
  broadcasts,   \* history: how many of the requests were broadcasts
  died          \* why the process ended

regVars == <<reg, mNumOfNode, mDefaultNode, lost>>
bcVars == <<cur, toVisit, visited>>
envVars == <<requests, globals, broadcasts, silent>>

vars == <<looperVars, main, cpc, cmsg, backlog, mQ, dpc, item, regVars,
          mInitialized, bcVars, up, routerSetup, ports, envVars, died>>

Init ==
  /\ LooperInit
  /\ main = "start"
  /\ cpc = "off" /\ cmsg = NoMsg
  /\ backlog = <<>>
  /\ mQ = <<>>
  /\ dpc = "off" /\ item = NoMsg
  /\ reg = <<>> /\ mNumOfNode = 0 /\ mDefaultNode = NoName
  /\ lost = {}
  /\ mInitialized = FALSE
  /\ cur = 0 /\ toVisit = <<>> /\ visited = <<>>
  /\ up = Node /\ silent = {}
  /\ routerSetup = FALSE
  /\ ports = [i \in 1 .. MaxPorts |-> "off"]
  /\ requests = 0 /\ globals = 0 /\ broadcasts = 0
  /\ died = "no"

-----------------------------------------------------------------------------
(* Shared pieces.                                                          *)

\* mQ.push(): a full queue drops the message.
Queued(m) == IF Len(mQ) = QueueSize THEN mQ ELSE Append(mQ, m)

\* Nobody is in broadcast(), which holds mLock.
LockFree == dpc # "send"

\* The kernel queues connections while the coordinator holds the socket.
Listening == cpc \in {"accept", "lock", "push", "wake", "stalled"}

Connects(n) == IF n = Self THEN Listening ELSE n \in up

\* NodeNetwork::sendNodeMessage(), and whether it reports success.  A message
\* that fills its last page is delivered and reported as failed (see
\* NodeNetwork.tla).  To the service itself the send adds a connection; it waits
\* while the backlog is full, and for a node that has stopped reading.
Send(n, m, ok) ==
  \/ /\ Connects(n) /\ n \notin silent /\ ok = ~m.page
     /\ IF n = Self THEN Len(backlog) < Backlog /\ backlog' = Append(backlog, m)
                    ELSE UNCHANGED backlog
  \/ ~Connects(n) /\ ~ok /\ UNCHANGED backlog
  \/ "socket" \in Faults /\ ~ok /\ UNCHANGED backlog

Registered(n) == \E i \in 1 .. Len(reg) : reg[i] = n

\* The position LIST_FOR_EACH finds n at.
FirstAt(n) == CHOOSE i \in 1 .. Len(reg) :
                reg[i] = n /\ \A j \in 1 .. i - 1 : reg[j] # n

Without(n) == IF Registered(n) THEN RemoveAt(reg, FirstAt(n)) ELSE reg

CountWithout(n) == IF Registered(n) THEN mNumOfNode - 1 ELSE mNumOfNode

\* Mutant of DefaultWithout: drop() leaves mDefaultNode alone.
DefaultKept(n) == mDefaultNode

DefaultWithout(n) ==
  IF Registered(n) /\ mDefaultNode = n THEN NoName ELSE mDefaultNode

\* drop(): the entry, the count and, for the default node, mDefaultNode.
Drop(n) ==
  /\ reg' = Without(n)
  /\ mNumOfNode' = CountWithout(n)
  /\ mDefaultNode' = DefaultWithout(n)
  /\ UNCHANGED lost

\* Mutant of JoinList: the entry is added without dropping the old one.
JoinListKeepsOld(n) == <<n>> \o reg

\* join(): drop(), then the new entry at the head of the list.
JoinList(n) == <<n>> \o Without(n)

JoinCount(n) == CountWithout(n) + 1

-----------------------------------------------------------------------------
(* run() and the start of the two threads.                                 *)

startRest == <<looperVars, cmsg, backlog, mQ, item, mInitialized, bcVars, up,
               routerSetup, ports, envVars, died>>

\* Mutant of StartCoordinator: the service does not join itself.
StartCoordinatorNoJoin ==
  /\ main = "start"
  /\ cpc' = "bind"
  /\ main' = "dispatcher"
  /\ UNCHANGED <<startRest, dpc, regVars>>

StartCoordinator ==
  /\ main = "start"
  /\ cpc' = "bind"
  /\ main' = "join"
  /\ UNCHANGED <<startRest, dpc, regVars>>

JoinSelf ==
  /\ main = "join"
  /\ reg' = JoinList(Self) /\ mNumOfNode' = JoinCount(Self)
  /\ mDefaultNode' = DefaultWithout(Self) /\ lost' = lost \ {Self}
  /\ main' = "dispatcher"
  /\ UNCHANGED <<startRest, cpc, dpc>>

StartDispatcher ==
  /\ main = "dispatcher"
  /\ dpc' = "poll"
  /\ main' = "owner"
  /\ UNCHANGED <<startRest, cpc, regVars>>

\* mNodePort.setOwner(this): until here the port has no owner.
SetOwner ==
  /\ main = "owner"
  /\ main' = "ready"
  /\ UNCHANGED <<startRest, cpc, dpc, regVars>>

-----------------------------------------------------------------------------
(* Peers and nodes: other processes.                                       *)

\* A peer connects and writes its message; it waits while the backlog is full.
Request(m) ==
  /\ Listening /\ Len(backlog) < Backlog
  /\ requests < MaxRequests
  /\ requests' = requests + 1
  /\ broadcasts' = IF m.kind = "bc" THEN broadcasts + 1 ELSE broadcasts
  /\ backlog' = Append(backlog, m)
  /\ UNCHANGED <<looperVars, main, cpc, cmsg, mQ, dpc, item, regVars,
                 mInitialized, bcVars, up, routerSetup, ports, globals, silent,
                 died>>

\* A node's process ends (or one of the daemon's own two nodes gets a KILL), or
\* some process binds the name.
NodeChanges(n) ==
  /\ up' = IF n \in up THEN up \ {n} ELSE up \cup {n}
  /\ silent' = silent \ {n}
  /\ UNCHANGED <<looperVars, main, cpc, cmsg, backlog, mQ, dpc, item, regVars,
                 mInitialized, bcVars, routerSetup, ports, requests, globals,
                 broadcasts, died>>

\* A node's process hangs, with its backlog or its buffer full: a connect() or
\* write() to it waits until the process ends, if it ever does.
NodeStalls(n) ==
  /\ n \in up \ silent
  /\ silent' = silent \cup {n}
  /\ UNCHANGED <<looperVars, main, cpc, cmsg, backlog, mQ, dpc, item, regVars,
                 mInitialized, bcVars, up, routerSetup, ports, requests, globals,
                 broadcasts, died>>

-----------------------------------------------------------------------------
(* The coordinator: setupLocalNode and localAction.                        *)

coordRest == <<batch, pos, main, dpc, item, regVars, bcVars, up, routerSetup,
               ports, envVars, died>>

\* socket(), bind(), listen(); then SETUP sets mInitialized and queues nothing.
CoordinatorBinds ==
  /\ cpc = "bind" /\ LockFree
  /\ cpc' = "accept"
  /\ mInitialized' = TRUE
  /\ UNCHANGED <<coordRest, pipe, cmsg, backlog, mQ>>

CoordinatorFails ==
  /\ cpc = "bind" /\ "bind" \in Faults
  /\ cpc' = "ended"
  /\ UNCHANGED <<coordRest, pipe, cmsg, backlog, mQ, mInitialized>>

AcceptMessage ==
  /\ cpc = "accept" /\ backlog # <<>>
  /\ Head(backlog).kind \notin {"kill", "short", "stall"}
  /\ cmsg' = Head(backlog)
  /\ backlog' = Tail(backlog)
  /\ cpc' = IF Head(backlog).kind = "setup" THEN "lock" ELSE "push"
  /\ UNCHANGED <<coordRest, pipe, mQ, mInitialized>>

\* A SETUP that a peer has sent is one to localAction() like the service's own.
CoordinatorLocks ==
  /\ cpc = "lock" /\ LockFree
  /\ mInitialized' = TRUE
  /\ cpc' = "push"
  /\ UNCHANGED <<coordRest, pipe, cmsg, backlog, mQ>>

AcceptShort ==
  /\ cpc = "accept" /\ backlog # <<>>
  /\ Head(backlog).kind = "short"
  /\ backlog' = Tail(backlog)
  /\ UNCHANGED <<coordRest, pipe, cpc, cmsg, mQ, mInitialized>>

\* read() waits, and nothing ends the wait.
AcceptStall ==
  /\ cpc = "accept" /\ backlog # <<>>
  /\ Head(backlog).kind = "stall"
  /\ backlog' = Tail(backlog)
  /\ cpc' = "stalled"
  /\ UNCHANGED <<coordRest, pipe, cmsg, mQ, mInitialized>>

\* KILL closes the socket, which drops the connections that wait; its callback
\* has no data, so localAction does nothing.
AcceptKill ==
  /\ cpc = "accept" /\ backlog # <<>>
  /\ Head(backlog).kind = "kill"
  /\ backlog' = <<>>
  /\ cpc' = "ended"
  /\ UNCHANGED <<coordRest, pipe, cmsg, mQ, mInitialized>>

\* accept() fails: the loop ends and the socket is closed.
AcceptFails ==
  /\ cpc = "accept" /\ "accept" \in Faults
  /\ backlog' = <<>>
  /\ cpc' = "ended"
  /\ UNCHANGED <<coordRest, pipe, cmsg, mQ, mInitialized>>

CoordinatorPushes ==
  /\ cpc = "push"
  /\ mQ' = Queued(cmsg)
  /\ cmsg' = NoMsg
  /\ cpc' = "wake"
  /\ UNCHANGED <<coordRest, pipe, backlog, mInitialized>>

\* Mutant of CoordinatorWakes: the event is written only to an empty pipe.
CoordinatorWakesOnce ==
  /\ cpc = "wake"
  /\ pipe' = IF pipe = <<>> THEN <<"wake">> ELSE pipe
  /\ cpc' = "accept"
  /\ UNCHANGED <<coordRest, cmsg, backlog, mQ, mInitialized>>

CoordinatorWakes ==
  /\ cpc = "wake"
  /\ WriteEvent("wake")
  /\ cpc' = "accept"
  /\ UNCHANGED <<main, dpc, item, regVars, bcVars, up, routerSetup, ports,
                 envVars, died, cmsg, backlog, mQ, mInitialized>>

-----------------------------------------------------------------------------
(* The threads of NodePort::listen.                                        *)

\* A whole packet from the global server is queued.
GlobalArrives(i) ==
  /\ ports[i] = "read" /\ globals < MaxGlobals /\ main = "ready"
  /\ globals' = globals + 1
  /\ mQ' = Queued(Msg("global", Self, FALSE))
  /\ ports' = [ports EXCEPT ![i] = "wake"]
  /\ UNCHANGED <<looperVars, main, cpc, cmsg, backlog, dpc, item, regVars,
                 mInitialized, bcVars, up, routerSetup, requests, broadcasts,
                 silent, died>>

\* The same before run() of the service has set the port's owner.
PortNoOwner(i) ==
  /\ ports[i] = "read" /\ globals < MaxGlobals /\ main # "ready"
  /\ died' = "no owner"
  /\ UNCHANGED <<looperVars, main, cpc, cmsg, backlog, mQ, dpc, item, regVars,
                 mInitialized, bcVars, up, routerSetup, ports, envVars>>

PortWakes(i) ==
  /\ ports[i] = "wake"
  /\ WriteEvent("wake")
  /\ ports' = [ports EXCEPT ![i] = "read"]
  /\ UNCHANGED <<main, cpc, cmsg, backlog, mQ, dpc, item, regVars,
                 mInitialized, bcVars, up, routerSetup, envVars, died>>

PortCloses(i) ==
  /\ ports[i] = "read"
  /\ ports' = [ports EXCEPT ![i] = "closed"]
  /\ UNCHANGED <<looperVars, main, cpc, cmsg, backlog, mQ, dpc, item, regVars,
                 mInitialized, bcVars, up, routerSetup, envVars, died>>

-----------------------------------------------------------------------------
(* The dispatcher: wait(), processMessage().                               *)

dispRest == <<main, cpc, cmsg, mInitialized, envVars>>

Poll ==
  /\ dpc = "poll"
  /\ ReadBatch
  /\ dpc' = "process"
  /\ UNCHANGED <<dispRest, backlog, mQ, item, regVars, bcVars, up, routerSetup,
                 ports, died>>

\* processMessage() returns to wait(): the next event of the batch, or a poll.
\* Nobody writes an exit event into this looper.
BackToLoop ==
  /\ EventServed
  /\ dpc' = IF MoreEvents THEN "process" ELSE "poll"

QueueEmpty ==
  /\ dpc = "process" /\ mQ = <<>>
  /\ BackToLoop
  /\ UNCHANGED <<dispRest, backlog, mQ, item, regVars, bcVars, up, routerSetup,
                 ports, died>>

\* getSize() and pop(): one step, as no other thread pops.
Pop ==
  /\ dpc = "process" /\ mQ # <<>>
  /\ item' = Head(mQ)
  /\ mQ' = Tail(mQ)
  /\ dpc' = "handle"
  /\ UNCHANGED <<looperVars, dispRest, backlog, regVars, bcVars, up,
                 routerSetup, ports, died>>

Handling(kind) == dpc = "handle" /\ item.kind = kind

\* The message in hand is finished.
Done == dpc' = "process" /\ item' = NoMsg

handleRest == <<looperVars, dispRest, mQ, bcVars, up, routerSetup, ports>>

HandleJoin ==
  /\ Handling("join")
  /\ reg' = JoinList(item.name) /\ mNumOfNode' = JoinCount(item.name)
  /\ mDefaultNode' = DefaultWithout(item.name) /\ lost' = lost \ {item.name}
  /\ Done
  /\ UNCHANGED <<handleRest, backlog, died>>

HandleDrop ==
  /\ Handling("drop")
  /\ Drop(item.name)
  /\ Done
  /\ UNCHANGED <<handleRest, backlog, died>>

HandleSetDefault ==
  /\ Handling("setdef")
  /\ mDefaultNode' = item.name
  /\ Done
  /\ UNCHANGED <<handleRest, backlog, reg, mNumOfNode, lost, died>>

\* LIST: the names go to the requester, who is dropped when the send fails;
\* at the service itself the response is a message nothing is done for.
HandleList ==
  /\ Handling("list") /\ reg # <<>>
  /\ \E page \in Pages, ok \in BOOLEAN :
       /\ Send(item.name, Msg("other", Self, page), ok)
       /\ IF ok THEN UNCHANGED regVars ELSE Drop(item.name)
  /\ Done
  /\ UNCHANGED <<handleRest, died>>

\* LIST of an empty registry: toXML() follows a list head that was never made.
HandleListEmpty ==
  /\ Handling("list") /\ reg = <<>>
  /\ died' = "empty list"
  /\ UNCHANGED <<handleRest, backlog, dpc, item, regVars>>

\* A LOCAL_MESSAGE that does not parse: processMessage() returns, whatever the
\* queue still holds.
HandleCustom ==
  /\ Handling("custom")
  /\ BackToLoop
  /\ item' = NoMsg
  /\ UNCHANGED <<dispRest, backlog, mQ, regVars, bcVars, up, routerSetup,
                 ports, died>>

\* UNREGISTER, responses, unknown events and types, SETUP among them; USB
\* requests when the storage is there, which start a child process.
HandleOther ==
  /\ dpc = "handle" /\ item.kind \in {"other", "json", "setup", "usb"}
  /\ Done
  /\ UNCHANGED <<handleRest, backlog, regVars, died>>

\* A global message goes to the default node, if there is one; the result of
\* the send is not looked at.
HandleGlobal ==
  /\ Handling("global")
  /\ IF mDefaultNode = NoName THEN UNCHANGED backlog
                              ELSE \E ok \in BOOLEAN : Send(mDefaultNode, item, ok)
  /\ Done
  /\ UNCHANGED <<handleRest, regVars, died>>

-----------------------------------------------------------------------------
(* broadcast(): a walk over the registry, one send after the other.        *)

\* The BC_ types are sent on as they are; a USB request without storage is
\* answered with a JSON_MESSAGE to everybody.
StartBroadcast ==
  /\ dpc = "handle" /\ item.kind \in {"bc", "usb"}
  /\ dpc' = "send"
  /\ cur' = 1 /\ toVisit' = reg /\ visited' = <<>>
  /\ UNCHANGED <<looperVars, dispRest, backlog, mQ, item, regVars, up,
                 routerSetup, ports, died>>

BroadcastMsg == IF item.kind = "bc" THEN item ELSE Msg("json", Self, FALSE)

sendRest == <<looperVars, dispRest, mQ, item, mDefaultNode, toVisit, up,
              routerSetup, ports, died>>

\* Mutant of BroadcastSent: the walk does not move on.
BroadcastSentStays ==
  /\ dpc = "send" /\ cur <= Len(reg)
  /\ Send(reg[cur], BroadcastMsg, TRUE)
  /\ visited' = Append(visited, reg[cur])
  /\ UNCHANGED <<sendRest, dpc, cur, reg, mNumOfNode, lost>>

BroadcastSent ==
  /\ dpc = "send" /\ cur <= Len(reg)
  /\ Send(reg[cur], BroadcastMsg, TRUE)
  /\ visited' = Append(visited, reg[cur])
  /\ cur' = cur + 1
  /\ UNCHANGED <<sendRest, dpc, reg, mNumOfNode, lost>>

\* Mutant of BroadcastFailed: the walk goes on behind the entry that moved up.
BroadcastFailedSkips ==
  /\ dpc = "send" /\ cur <= Len(reg)
  /\ Send(reg[cur], BroadcastMsg, FALSE)
  /\ visited' = Append(visited, reg[cur])
  /\ reg' = RemoveAt(reg, cur) /\ mNumOfNode' = mNumOfNode - 1
  /\ cur' = cur + 1 /\ lost' = lost \cup {reg[cur]}
  /\ UNCHANGED <<sendRest, dpc>>

\* Mutant of BroadcastFailed: the walk steps back before the removal.
BroadcastFailedRemovesPrevious ==
  /\ dpc = "send" /\ cur <= Len(reg)
  /\ Send(reg[cur], BroadcastMsg, FALSE)
  /\ visited' = Append(visited, reg[cur])
  /\ reg' = RemoveAt(reg, IF cur > 1 THEN cur - 1 ELSE cur)
  /\ mNumOfNode' = mNumOfNode - 1 /\ lost' = lost \cup {reg[cur]}
  /\ UNCHANGED <<sendRest, dpc, cur>>

\* Mutant of BroadcastFailed: the entry goes and the count stays.
BroadcastFailedNoCount ==
  /\ dpc = "send" /\ cur <= Len(reg)
  /\ Send(reg[cur], BroadcastMsg, FALSE)
  /\ visited' = Append(visited, reg[cur])
  /\ reg' = RemoveAt(reg, cur) /\ lost' = lost \cup {reg[cur]}
  /\ UNCHANGED <<sendRest, dpc, cur, mNumOfNode>>

\* A failed send removes the entry, and the walk goes on from the one before.
\* mDefaultNode stays as it is.
BroadcastFailed ==
  /\ dpc = "send" /\ cur <= Len(reg)
  /\ Send(reg[cur], BroadcastMsg, FALSE)
  /\ visited' = Append(visited, reg[cur])
  /\ reg' = RemoveAt(reg, cur) /\ mNumOfNode' = mNumOfNode - 1
  /\ lost' = lost \cup {reg[cur]}
  /\ UNCHANGED <<sendRest, dpc, cur>>

BroadcastEnds ==
  /\ dpc = "send" /\ cur > Len(reg)
  /\ Done
  /\ cur' = 0 /\ toVisit' = <<>> /\ visited' = <<>>
  /\ UNCHANGED <<looperVars, dispRest, backlog, mQ, regVars, up, routerSetup,
                 ports, died>>

\* The dispatcher is in a send to n, of a message that fills its last page or
\* not: a broadcast, the answer to LIST, a global message or READY.
Sending(n, page) ==
  \/ dpc = "send" /\ cur <= Len(reg) /\ n = reg[cur] /\ page = BroadcastMsg.page
  \/ Handling("list") /\ reg # <<>> /\ n = item.name /\ page \in Pages
  \/ Handling("global") /\ n = mDefaultNode /\ page = item.page
  \/ dpc = "ready" /\ n = Router /\ page = FALSE

\* The service's socket is closed, and the connections that wait with it.
SocketCloses ==
  /\ cpc = "accept"
  /\ "accept" \in Faults \/ (backlog # <<>> /\ Head(backlog).kind = "kill")

\* A receiver that goes between connect() and write(), or that closes behind the
\* last byte before the empty page is written, takes the daemon with it: nothing
\* in the program handles SIGPIPE.
SendBreaks ==
  /\ \E n \in Name, page \in BOOLEAN :
       /\ Sending(n, page) /\ Connects(n)
       /\ n \in Mortal \/ (n = Self /\ SocketCloses) \/ (page /\ n \notin silent)
  /\ died' = "broken pipe"
  /\ UNCHANGED <<looperVars, dispRest, backlog, mQ, dpc, item, regVars, bcVars,
                 up, routerSetup, ports>>

-----------------------------------------------------------------------------
(* REGISTER: the global server, the router and the default node.           *)

regRest == <<looperVars, dispRest, backlog, mQ, bcVars>>

RegisterFails ==
  /\ Handling("register")
  /\ Done
  /\ UNCHANGED <<regRest, regVars, up, routerSetup, ports, died>>

\* connect() succeeds and NodePort::run() starts its listening thread.
RegisterConnects ==
  /\ Handling("register")
  /\ \E i \in 1 .. MaxPorts :
       ports[i] = "off" /\ ports' = [ports EXCEPT ![i] = "read"]
  /\ dpc' = "router"
  /\ UNCHANGED <<regRest, item, regVars, up, routerSetup, died>>

\* The router's adapter runs: a bound name is an error its run() notices only
\* by waiting for ever, unless an earlier run has left mSetup set.
RouterReady == routerSetup \/ Router \notin up

RouterRuns ==
  /\ dpc = "router" /\ RouterReady /\ main = "ready"
  /\ up' = up \cup {Router}
  /\ routerSetup' = TRUE
  /\ reg' = JoinList(Router) /\ mNumOfNode' = JoinCount(Router)
  /\ mDefaultNode' = DefaultWithout(Router) /\ lost' = lost \ {Router}
  /\ dpc' = "default"
  /\ UNCHANGED <<regRest, item, ports, died>>

\* run() of the service has not set the port's owner yet.
RouterNoOwner ==
  /\ dpc = "router" /\ RouterReady /\ main # "ready"
  /\ died' = "no owner"
  /\ UNCHANGED <<regRest, dpc, item, regVars, up, routerSetup, ports>>

RouterHangs ==
  /\ dpc = "router" /\ ~RouterReady
  /\ dpc' = "hung"
  /\ UNCHANGED <<regRest, item, regVars, up, routerSetup, ports, died>>

\* Mutant of DefaultAfterJoin: setDefaultNode() before join().
DefaultBeforeJoin == IF Registered(DefaultNode) THEN NoName ELSE DefaultNode

\* mDefaultNode behind join(DEFAULT_NODE_NAME) and setDefaultNode().
DefaultAfterJoin == DefaultNode

\* A new adapter for the default node: its name must be free.
DefaultRuns ==
  /\ dpc = "default" /\ DefaultNode \notin up
  /\ up' = up \cup {DefaultNode}
  /\ reg' = JoinList(DefaultNode) /\ mNumOfNode' = JoinCount(DefaultNode)
  /\ mDefaultNode' = DefaultAfterJoin /\ lost' = lost \ {DefaultNode}
  /\ dpc' = "ready"
  /\ UNCHANGED <<regRest, item, routerSetup, ports, died>>

DefaultHangs ==
  /\ dpc = "default" /\ DefaultNode \in up
  /\ dpc' = "hung"
  /\ UNCHANGED <<regRest, item, regVars, up, routerSetup, ports, died>>

\* READY is cast to the router; the result is not looked at.
CastReady ==
  /\ dpc = "ready"
  /\ \E ok \in BOOLEAN : Send(Router, Msg("other", Self, FALSE), ok)
  /\ Done
  /\ UNCHANGED <<looperVars, dispRest, mQ, bcVars, regVars, up, routerSetup, ports,
                 died>>

-----------------------------------------------------------------------------
Main == StartCoordinator \/ JoinSelf \/ StartDispatcher \/ SetOwner

Coordinator ==
  \/ CoordinatorBinds \/ CoordinatorFails
  \/ AcceptMessage \/ AcceptShort \/ AcceptStall \/ AcceptKill \/ AcceptFails
  \/ CoordinatorLocks \/ CoordinatorPushes \/ CoordinatorWakes

Port == \E i \in 1 .. MaxPorts :
          \/ GlobalArrives(i) \/ PortNoOwner(i)
          \/ PortWakes(i) \/ PortCloses(i)

Broadcast ==
  StartBroadcast \/ BroadcastSent \/ BroadcastFailed \/ BroadcastEnds

Register ==
  \/ RegisterFails \/ RegisterConnects
  \/ RouterRuns \/ RouterNoOwner \/ RouterHangs
  \/ DefaultRuns \/ DefaultHangs \/ CastReady

Dispatcher ==
  \/ Poll \/ QueueEmpty \/ Pop
  \/ HandleJoin \/ HandleDrop \/ HandleSetDefault
  \/ HandleList \/ HandleListEmpty
  \/ HandleCustom \/ HandleOther \/ HandleGlobal
  \/ Broadcast \/ Register

Peers ==
  \/ \E m \in Requests : Request(m)
  \/ \E n \in Mortal : NodeChanges(n)
  \/ \E n \in Lazy : NodeStalls(n)

Next ==
  died = "no" /\ (Main \/ Coordinator \/ Port \/ Dispatcher \/ SendBreaks \/ Peers)

\* The threads of the daemon keep running; peers owe nothing.
Fairness ==
  /\ WF_vars(died = "no" /\ Main)
  /\ WF_vars(died = "no" /\ Coordinator)
  /\ WF_vars(died = "no" /\ Dispatcher)
  /\ WF_vars(died = "no" /\ \E i \in 1 .. MaxPorts : PortWakes(i))

Spec == Init /\ [][Next]_vars /\ Fairness

-----------------------------------------------------------------------------
Names == {reg[i] : i \in 1 .. Len(reg)}

TypeOK ==
  /\ LooperTypeOK
  /\ main \in {"start", "join", "dispatcher", "owner", "ready"}
  /\ cpc \in {"off", "bind", "accept", "lock", "push", "wake", "stalled", "ended"}
  /\ cmsg \in Message \cup {NoMsg}
  /\ backlog \in Seq(Message) /\ Len(backlog) <= Backlog
  /\ mQ \in Seq(Message) /\ Len(mQ) <= QueueSize
  /\ dpc \in {"off", "poll", "process", "handle", "send", "router", "default",
              "ready", "hung"}
  /\ item \in Message \cup {NoMsg}
  /\ reg \in Seq(Name) /\ mNumOfNode \in Int
  /\ mDefaultNode \in Name \cup {NoName}
  /\ mInitialized \in BOOLEAN /\ lost \subseteq Name
  /\ cur \in Nat /\ toVisit \in Seq(Name) /\ visited \in Seq(Name)
  /\ up \subseteq Name \ {Self} /\ routerSetup \in BOOLEAN
  /\ ports \in [1 .. MaxPorts -> {"off", "read", "wake", "closed"}]
  /\ silent \subseteq up
  /\ requests \in Nat /\ globals \in Nat /\ broadcasts \in Nat
  /\ died \in {"no", "empty list", "broken pipe", "no owner"}

\* Through joins, drops, failed sends and registrations in any order, a name is
\* registered at most once and mNumOfNode counts the entries.
RegistryInv ==
  /\ mNumOfNode = Len(reg)
  /\ \A i, j \in 1 .. Len(reg) : reg[i] = reg[j] => i = j

\* A broadcast tries every node registered when it began exactly once, in the
\* order of the list, although it removes entries from under itself: what it
\* has tried and what is left of the list are together the list it began with.
BroadcastPartition ==
  dpc = "send" =>
    /\ cur \in 1 .. Len(reg) + 1
    /\ toVisit = visited \o SubSeq(reg, cur, Len(reg))

\* The service is in its own registry from before its dispatcher runs, so that
\* a LIST never meets an empty one.  (Instances without a KILL, a failing bind,
\* accept or socket, a DROP of the service and messages that fill their last
\* page.)
SelfRegistered == dpc # "off" => Self \in Names

\* Calls of processMessage() to come or in progress.
Draining == dpc \notin {"off", "poll"} /\ ~Handling("custom")

Waking == (IF cpc = "wake" THEN 1 ELSE 0)
          + Cardinality({i \in 1 .. MaxPorts : ports[i] = "wake"})

\* Every queued message has a wake of its own ahead, or is in reach of the call
\* in progress, so the early return on data that does not parse strands none.
WakePerMessage ==
  Len(mQ) <= Len(pipe) + (Len(batch) - pos) + Waking
             + (IF Draining THEN 1 ELSE 0)

IsBroadcast(m) == m.kind = "bc"

Broadcasts(q) == Cardinality({k \in 1 .. Len(q) : IsBroadcast(q[k])})

\* Broadcasts that are somewhere between a peer and the end of their walk.  The
\* service is a node of its own registry, so the walk sends the message to the
\* service again: in flight until the service's copy is sent.
InFlight ==
  Broadcasts(backlog) + Broadcasts(mQ)
  + (IF IsBroadcast(cmsg) THEN 1 ELSE 0)
  + (IF IsBroadcast(item) /\ \A j \in 1 .. Len(visited) : visited[j] # Self
     THEN 1 ELSE 0)

\* A broadcast goes round for ever, but is never multiplied on its way: there
\* are never more under way than peers have sent.
NoMultiplication == InFlight <= broadcasts

\* A broadcast removes an entry only when its process does not accept
\* connections; the program says "Node Closed: Dropping".
DroppedOnlyIfClosed ==
  [][\A n \in Name : dpc = "send" /\ n \in Names /\ n \notin Names'
                       => ~Connects(n)]_vars

\* However often REGISTER sets the default node up, and whether LIST, DROP or a
\* broadcast meets it ended: it is the one global messages go to exactly while it
\* is registered - or from when a broadcast removed it, which leaves
\* mDefaultNode as it is, to the next join.  (Instances without the JOIN and
\* SET_DEFAULT_NODE of peers, who may name anything.)
DefaultMatchesRegistry ==
  mDefaultNode = DefaultNode <=> DefaultNode \in Names \cup lost

\* Setting up the default node for a second time works: the bind comes behind
\* "Unlink if the socket name is already binded".
RegisterReturns == (dpc = "default") ~> (dpc \notin {"default", "hung"})

\* Everyone waits on everyone: the dispatcher sends to its own service, whose
\* backlog is full, and the coordinator that would take a connection off it
\* waits for room in the pipe only the dispatcher reads, or for mLock, which the
\* broadcast holds.
Wedged ==
  /\ \E page \in BOOLEAN : Sending(Self, page)
  /\ Len(backlog) = Backlog
  /\ (cpc = "wake" /\ Len(pipe) = PipeCapacity) \/ (cpc = "lock" /\ ~LockFree)

\* The dispatcher waits for a node that does not read.
HeldUp == \E n \in silent, page \in BOOLEAN : Sending(n, page)

\* A JOIN that reached the service's socket is carried out, whatever else goes
\* round, unless the process ends or one of three waits keeps coming back or lasts
\* for ever: of its two threads for each other, of the dispatcher for a node that
\* does not read, of the coordinator for a peer that does not write.  (Instances
\* in which the queue has room for all messages, and nothing closes the socket.)
JoinServed ==
  <>[]~(Wedged \/ HeldUp \/ cpc = "stalled") =>
    \A n \in Target :
      (\E i \in 1 .. Len(backlog) : backlog[i].kind = "join"
                                 /\ backlog[i].name = n)
        ~> (n \in Names \/ died = "broken pipe")
=============================================================================
