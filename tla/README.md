# NodeBus: models and proofs

The repository is a local message bus.  Processes ("nodes") own named
stream sockets; a daemon, the *default service*, keeps a registry of the
nodes, broadcasts to them and connects the bus to a global server.  This
directory holds TLA+ models of the bus, TLC configurations that check them on
small instances, and TLAPS proofs for every value of the constants.

    tlc -config <name>.cfg <module>      one run (see the table of runs)
    tlapm <module>Proofs.tla             the proofs about a module

## Inventory

| part | state | operations | talks to |
| --- | --- | --- | --- |
| command queue (`Queue.cpp`, `Types.h`) | ring `mpQ`, `mTop`, `mBottom`, `mSize`, `mFull` | push, pop, clear, getSize under `mMutex` | everyone who posts |
| command stack (`Stack.cpp`) | the same without wrap | push, pop, popclear, clear | nobody in this repository |
| `NodeLooper` | a pipe | wait, wakeup, exit, timer | calls its owner back, once per event |
| `NodeAdapter`, `LocalNode` | `mQ`, a looper, `mSetup`, `mExited` | run, addQueue; coordinator: nodeCallback, localAction; dispatcher: looperCallback, dispatch | its coordinator thread runs `NodeNetwork::setupLocalNode` |
| `NodeNetwork` | sockets, buffers on the stack | setupLocalNode, sendNodeMessage, sendToSocket, connectGlobal | kernel |
| `DefaultService` | registry, `mNumOfNode`, `mDefaultNode`, `mInitialized`, `mQ`, a looper | run, processMessage, join, drop, broadcast, cast, REGISTER | coordinator and dispatcher threads, `NodePort`, the default node's adapter |
| `NodePort` | `mSd`, `mpOwner`, a router | run, connect, listen, send | the global server; queues into the service's `mQ` |
| `NBUSPacket` | header and data buffers | copyHeader, copyData, parseHeader, parserPacket | `NodePort`, router |
| `INodeBusService` | a looper and a shared buffer per LIST | getNodeList, join, drop, cast, ... | one-shot sends; the reply's dispatcher writes into the buffer |
| `List.h`, `NodeEntry` | pointer list with a head | add, delete, walk | the registry, the node list of a LIST response |
| XML parser and types | per message | parseXML, toXML | all of the above |
| `Bridge`, `NBus` | none | bridge_cross, bridge_tie, nbus_join, nbus_drop, nbus_cast | a copy of the one-shot send |
| `DefaultNodeCallback` | none | nodeCallback: fork and exec | started by REGISTER |
| `LocalBusInit` | none | main | starts the service |
| `Lock`, `Thread`, `Log` | - | wrappers | everyone |

What is hard here is not in any one function: every node is three threads
that share an unguarded pair of queue and pipe; a message is four reads and
as many writes between processes that may end in between; the service walks a
list it deletes from, sends messages to itself, and sets up other nodes from
inside its own dispatcher.  The `hazards` of PROJECT.json give each such place
with its line and the properties that watch it.

For each modelled part, what makes it correct:

* queue: the indexes, the count and the full flag agree; exactly the live
  slots own a buffer; it is a bounded FIFO.
* adapter: a command in the queue always has a wakeup of its own ahead; no
  wakeup is lost; `run()` returns; KILL ends the dispatcher with no message
  of the network left, but for one per SETUP that a caller posted; replies reach
  who waits for them.
* network: a callback gets a whole message or none; the receiver always comes
  back for the next client; no send waits for ever; what a result means.
* stack: the top counts the commands, the slots below it own the buffers; it is
  a bounded LIFO, `popclear()` included.
* port: what is queued are the server's packets, whole, once and in order; what
  the server gets are the messages routed to it; nothing is written to a
  descriptor that belongs to somebody else; `listen()` ends with the connection.
* node list: a call gives a registry of its own time, or hangs only because a
  message was dropped; nothing is written to a caller that has returned.
* registry list: no pointer is followed after its cell is freed, no cell is
  freed twice or lost, and a LIST is answered with the registry in its order.
* default node: a child that fails to exec takes commands from its parent by no
  way but the wakes it reads; what the callback and the caller read is what was
  sent, but for what the printer leaves out.
* bridge: the action gets the beginning of a message; the thread comes back for
  the next client.
* service: names are registered once and counted right, through every
  sequence of requests and failures; a broadcast tries each node once;
  the default node is set while it is registered; nothing is stranded or
  multiplied, and a request is held up by no wait but those the code cannot leave.

## Modules

| module | models | constants |
| --- | --- | --- |
| `CmdFifo` | the promise of the queue: a bounded FIFO | capacity, commands |
| `CmdQueue` | `NBUS_CMD_QUEUE` and the copies of `NBUS_CMD` | ring size, types, payloads |
| `NodeLooper` | pipe and batch of a looper; extended by the two below | pipe capacity, batch size |
| `Mailbox` | the promise of an adapter | capacity, commands |
| `NodeAdapter` | adapter, its three threads, posting threads | queue size, callers, bounds |
| `NodeAdapterProofs` | proofs about `NodeAdapter` and `DefaultNode` | |
| `NodeNetwork` | one-shot senders, receive loop, sockets | senders, lengths, page, room, backlog |
| `NodeNetworkProofs` | proofs about `NodeNetwork` and `Bridge` | |
| `CmdLifo` | the promise of the stack: a bounded LIFO | capacity, commands |
| `CmdStack` | `NBUS_CMD_STACK`; extends `CmdQueue`, whose slots and copies it shares | as `CmdQueue` |
| `CmdProofs` | proofs about the queue and the stack | |
| `QueueCounts` | lemmas on counting the members of a queue, and on cuts of it | |
| `NodePort` | `listen()`, `NBUSPacket`, the router's `sendToSocket`, the shared descriptor | lengths, types, page, how the server behaves, bounds |
| `NodePortProofs` | proofs | |
| `NodeListSync` | `getNodeList` with the service and the adapter that answer it | callers, names, pipes, room of the queues, bounds |
| `NodeListSyncProofs` | proofs | |
| `Bridge` | `bridge_cross` and the `bridge_create` thread; extends `NodeNetwork` | a receive buffer |
| `DefaultService` | the daemon | nodes, kinds of requests, faults, sizes, bounds |
| `DefaultServiceProofs` | proofs | |
| `LinkedList` | `List.h` with the memory of its cells | cells, what `new` may return |
| `NodeRegistry` | the registry's list and its walks, and the lists of names on both sides of a LIST; extends `LinkedList` | names |
| `NodeRegistryProofs` | proofs | |
| `Registry` | the promise of the registry: names, their number, a broadcast's walk | names |
| `BusXml` | what is said in XML: the objects, their tables, printing and parsing; the packet of a header | |
| `DefaultNode` | the default node with its callback and the children it forks; extends `NodeAdapter` and `BusXml` | children, objects |
| `MCNodeRegistry`, `MCDefaultNode` | memory, names and objects for TLC | |

The variables have the names of the code's where there is one (`mQ`, `mSetup`,
`mNumOfNode`, ...); `pc`, `cpc`, `dpc`, `spc`, `rpc` say where a thread is, one
value per point at which another thread can get between.  A section under a
lock is one step.  Data is abstracted to what control depends on: a command of
an adapter is SETUP, a reply or anything else, and who posted it; a message of
the service is its kind, a name and whether its length fills its last page; a
byte of a message is its offset; an XML text is its root element, with tag,
attributes, text and children, and what libxml2 makes of it is external.

How the modules fit: `NodeAdapter` and `DefaultService` use `mQ` as the FIFO
that `CmdQueue` is shown to implement, and the callbacks of the read loop as
`NodeNetwork` shows them to be (a whole message or none).  The result of a send
in `DefaultService` (`Send`) is the one of `NodeNetwork`'s `ResultTellsPageEnd`; a
send to a node that does not read, or to the service's own full backlog, is not
enabled until that changes, one that gets no socket fails, and every send may be
the end of the daemon (`SendBreaks`).  In `NodeAdapter` a thread's push and wakeup are separate
steps, and the dispatcher's loop is event by event, because the code's early
returns make the pairing of wakeups with commands matter.  `NodePort` refines the
step `GlobalArrives` of `DefaultService`: what it queues there are the packets
`QueuedAreSent` describes.  `NodeListSync` takes the service and the adapter
from their promises: a queue that may be full, requests in order, replies
handled one by one.  `Bridge` shares the sender and the sockets of
`NodeNetwork`, as the code does by a copy.  In `DefaultService`
only the dispatcher changes the registry once it runs, so most sections under
`mLock` are one step.  `broadcast()` is not: it holds the lock through all its
sends, and the coordinator takes it for every SETUP message, its own and a
peer's, so there the lock is a guard (`LockFree`).

`NodeRegistry` is the registry of `DefaultService` one level down.  There `reg`
is a sequence and a broadcast an index; here they are cells with `p_next` and
`p_prev`, `delete` unlinks and frees, and `new` may give a freed cell back at
once or late.  It refines `Registry`: a name is added or removed in one step,
and a broadcast visits everyone once although it frees the entry it stands on
(it goes on behind the predecessor it has saved).  A LIST is followed to its
end: the service's walk fills an `NBUSXML` from the front, which turns the order
round; the adapter parses the names into a second one, which turns it again;
`AnswerIsRegistry` says the caller gets the order of the registry.  The adapter
is another process and shares nothing with the service but the text, so the
model lets it finish before the service goes on.  An empty registry has no list
to print: `CollectEnds` then ends the process, as `HandleListEmpty` does in
`DefaultService`, whose `SelfRegistered` says when it cannot happen.

`DefaultNode` puts the callback in place of the user's in `NodeAdapter`.  A
LOG command forks.  The child is to become `rlogcat`; when `execvp` fails
it only logs and returns, into a copy of the dispatcher: the copies of the
queue, of the batch and of the place in it are the child's own, the pipe is
its parent's, the other threads are gone, and a mutex one of them held stays
locked for ever.  What is said in a command is decided when it is parsed, so a
queued command stays what it is in `NodeAdapter`, and objects the callback treats
alike are one step; the step evaluates `BusXml` for every one of them, and
`misread` keeps those that were not read as they were sent.

## Runs

All runs but that of the queue set `CHECK_DEADLOCK FALSE`: the
number of connections, posts, messages and calls is bounded (`MaxFrames`,
`MaxPosts`, `MaxRequests`, `MaxGlobals`, `MaxPorts`, `MaxPackets`,
`MaxMessages`, `MaxTraffic`, `MaxCalls`, `MaxChanges`, and the sets of senders
and children), and every instance stops behind the last one.  In `NodeRegistry`
the daemon may end at a LIST; `MaxCell` bounds its memory, which is enough for
three entries, one that is being joined and a list of three names with its head.

| run | instance | what it shows |
| --- | --- | --- |
| `CmdQueue` | ring of 3, 2 types, 2 buffers | the ring wraps, fills and is cleared in every state; `Ownership`, and it refines `CmdFifo` |
| `NodeAdapter` | pipe and batch of 2, queue of 3, one caller, 2 connections, 2 posts, of any type and also before `run()` has returned | an exit event alone, in first and in last place of a batch, SETUP of the coordinator, a peer and a caller before and behind other commands, a full queue and a full pipe; refines `Mailbox` with its fairness |
| `SvcRegistry` | two nodes, one that may end, come back or stop reading, 4 requests of join, setdef, bc, custom, setup and one that never writes; pipe, batch and backlog of 1, a queue for all | the walk under every sequence; a node that ends before or in a broadcast; JOIN beside an endless broadcast, and the three waits it may meet |
| `SvcRegister` | 3 requests of register, custom, kill, short, usb, list, drop; page-sized messages; failing bind, accept and socket; router and default node that end and come back; two connections to the server, one global message | the REGISTER sequence against traffic, twice, and what the faults leave behind |
| `NodeNetwork` | 3 senders, one mortal, one of KILL that may end before it; page of 2, lengths 0, 1, 3, 4, room for 3, backlog of 1; mortal receiver; a send may get no socket | empty, short, one-over and exact messages; every cut of writes and reads; the end of either process at every point |
| `NodePort` | two in all of packets and routed messages; packets of every type (a command is an event without data here) and length, before or behind the name and cut anywhere, messages of 3 and 4 cells on pages of 2, a server that may close or stop reading, a descriptor number given to others | what is queued is what was sent while the stream keeps its step, what is left of that when a header or the greeting is cut, that `listen()` ends, and what the router writes to whom |
| `NodeListSync` | two callers, two calls each, inside or outside the adapter's callback; one join or drop, room for 2 requests and 1 reply, a KILL | replies that cross, are dropped or meet a reused pipe number |
| `NodeRegistry` (module `MCNodeRegistry`) | three names, interchangeable; eight cells, of which `new` returns the first or the last that is free | removal of every entry by `drop()` and by a broadcast, at the head, in the middle and at the tail; both lists of a LIST with all their frees, and a drop of the name that asked |
| `DefaultNode` (module `MCDefaultNode`) | pipe, batch and queue of 2, one caller with one post, two connections, two children; every type of command and event, with and without a time, testcase numbers in and outside the error table, every kind of `NBUSXML`, argument lists of 0 to 3, lists of 1 and 3 names | a fork in every place of the batch and the queue, with and without the mutex locked, a child that forks again; tables and orders of the XML |
| `Bridge` | lengths 0, 2, 3, 5 on pages of 2, a mortal sender, a peer that writes EXIT, buffer of 2 | a recv() that yields a part, senders cut off by close |
| `SvcPageDrop` (violation) | one node, a broadcast that fills its last page | the finding below |
| `SvcRebind` (violation) | REGISTER twice | the finding below |

The command stack has no run: what there is to say of it is proved.

Why the bounds are enough: a property of the queue against the pipe depends on
which event or command is first and on empty, full and what is in between, and a
batch of two has a first event that is not the last; a registry of three
entries has a removal at the head, in the middle and at the tail; a message of
two pages and a part has each kind of page; a second packet, call or message
meets whatever state the first one can leave; two children have a first fork, one
beside it, and one of a child.  The proofs lift the bounds for the safety of the
queue, the stack, the adapter, the network, the node list, the service, the
registry's list and the port.

`JoinServed` is stated for an instance that never fills a queue: a full one
drops messages by design, which `RefinesMailbox` and `RefinesFifo` describe.
It excepts the end of the process and three waits that code nowhere gives up:
`Wedged`, the dispatcher in a send to its own service whose backlog is full, while
the coordinator waits for room in the pipe the dispatcher reads (the pipe holds
thousands of events there, one here) or, with a peer's SETUP in hand, for the
`mLock` the broadcast holds; `HeldUp`, the dispatcher in a send to a node that does
not read; and the coordinator reading from a peer that does not write.  A wait that
passes is no excuse: the property only assumes that from some point on there is
none, and the run shows that nothing else keeps a JOIN back.
`RunReturns` needs room for the SETUP command behind earlier posts.
`SelfRegistered` is stated for an instance without a KILL, a failing bind, accept
or socket, a page-sized message or a DROP of the service itself, because each of
them really removes it: LIST then meets an empty registry (`HandleListEmpty`) and
the daemon ends.  `DefaultMatchesRegistry` is stated for an instance without the
JOIN and SET_DEFAULT_NODE of peers, who may name any node; what a broadcast that
removes the default node leaves behind (`mDefaultNode` stays set,
DefaultService.cpp:329) is its one exception, kept in `lost` until the next join.
`ExitDrainsNetwork` allows for one message of the network per SETUP that another
thread posts with `addQueue()`: such a SETUP ends the call of `dispatch()` that was
woken for the message, and its own wake may come behind the exit event.

Fairness.  Threads that have been started keep running, so each thread's steps
are weakly fair; a write to a pipe or socket that has room is a step that stays
enabled.  Nothing is assumed of peers: no connection is ever made by fairness,
and a bind or an accept may fail for ever.  In `NodeNetwork` a sender that may
write does, until its process ends; without that the read loop, which serves one
connection at a time, waits for a silent peer for ever, and so does everybody
else.  In `NodePort` what the server has sent arrives some time, unless the
connection ends; that it sends, reads, closes or stays is not assumed: the name and
the routed messages may wait in write() for ever, which `PacketArrives` and
`RoutedArrives` say.  In
`NodeListSync` nobody has to call, join or drop.  In `Bridge` a peer that may
write does, as in `NodeNetwork`.  In `DefaultNode` the threads of the adapter run
on until its process ends, and a child may be as slow as it likes.

## Findings

1. `SvcPageDrop`: a length that is a multiple of 4096 makes `sendNodeMessage`
   write an empty last page; `write()` returns 0, the function returns -1, and
   `broadcast()` drops nodes that are alive and have the message
   ("Node Closed: Dropping").  `NodeNetwork` shows more: if the receiver has
   closed the connection by then, the sender is ended by SIGPIPE.
2. `SvcRebind`: "Unlink if the socket name is already binded" has no effect for
   a name in the abstract namespace; the second REGISTER's adapter cannot bind
   and `NodeAdapter::run` waits for ever in the service's dispatcher.

Described by the model and promised by no text: a REGISTER handled before
`setOwner()` ends the daemon (`RouterNoOwner`, `PortNoOwner`); a node that ends
between connect and write ends it too, in a broadcast, the answer to LIST, a global
message or READY (`SendBreaks`); a broadcast that gets no socket drops a node that
lives; `addQueue()` after the
dispatcher has left blocks once the pipe is full.  Of the port: the client's
name may come behind READY or inside a message (`UpIsPrefix` leaves it out); a
header that arrives in two parts is padded with what its buffer held and may be
queued as a packet (`QueuedIsOneRun` says what holds then); the end of the
connection in the data frees the header's buffer a second time (`ReadEnd`);
`sendToSocket` leaves a page it could not write and goes on with the next one;
a send that had begun when `listen()` closed the descriptor goes on under its
number, whoever has it by then.  `getNodeList` in the callback of its own
receiver never returns (`Blocked`).  The bridge gives its action the
first recv() with the type and length words in it, and closes under a sender
that still writes.  A packet that does not parse ends the daemon
(`CallbackCrashes`), and so does a LIST of an empty registry.  A child of a LOG
command may read the KILL of its parent, which then goes on (`takenExit`).  Of
the XML: a command's `time`, which XMLTypes.h:347 shows as `time="100"` and
`parseCommandXML` reads, is printed by neither `toXML()` nor `toFullXML()`
(XMLParser.cpp:828 and 855); `parseTestCaseXML` stores
the repeat count as the id, reads one command and returns NULL, where the comment
at XMLTypes.h:340 shows testcases with several; of an event only the first
command is read; an event TC has a testcase's number for an id (XMLTypes.h:341 has
5123, XMLParser.cpp:318 takes it with atoi), which `toXML()` uses as an index of the two
error names (764-765).  The run of `DefaultNode` has objects of both kinds, and
`MisreadOnlyUnprinted` says that these two fields are the only ones that get lost.  The text `nbus_join` and `nbus_drop` compose lacks the
"<?xml" the service looks for.

## Proofs

Every proof is for all values of the constants its module's assumption allows.
The assumptions ask for sets that are not empty, sizes that are positive and
names that differ; each run evaluates them on its instance.

| proved | of | property of a run |
| --- | --- | --- |
| `TypeCorrect`, `RingShapeCorrect`, `OwnershipCorrect`, `RingImplementsFifo` | `CmdQueue` | `Ownership`, `RefinesFifo` |
| `StackOwnershipCorrect`, `StackImplementsLifo` | `CmdStack` | - |
| `TypeCorrect`, `WakePerCommandCorrect`, `NoLostWakeupCorrect`, `ExitDrainsNetworkCorrect`, `AdapterImplementsMailbox` | `NodeAdapter` | `WakePerCommand`, `NoLostWakeup`, `ExitDrainsNetwork`; the safety part of `RefinesMailbox` |
| `NetworkTypeCorrect`, `WholeOrNothingCorrect`, `ResultTellsPageEndCorrect` | `NodeNetwork` | `WholeOrNothing`, `ResultTellsPageEnd` |
| `WakesTakenCorrect`, `MisreadOnlyUnprintedCorrect` | `DefaultNode` | `WakesTaken`, `MisreadOnlyUnprinted` |
| `ActionGetsBeginningCorrect` | `Bridge` | `ActionGetsBeginning` |
| `SyncTypeCorrect`, `OneTokenPerCallCorrect`, `ListIsSnapshotCorrect` | `NodeListSync` | `OneTokenPerCall`, `ListIsSnapshot` |
| `ServiceTypeCorrect`, `RegistryInvCorrect`, `BroadcastPartitionCorrect`, `WakePerMessageCorrect`, `DefaultMatchesRegistryCorrect`, `NoMultiplicationCorrect`, `SelfRegisteredCorrect` | `DefaultService` | the six of these names |
| `NoStrayCellCorrect`, `RefinesRegistryCorrect`, `AnswerIsRegistryCorrect` | `NodeRegistry` | `NoStrayCell`, `RefinesRegistry`, `AnswerIsRegistry` |
| `NoLateStrayCorrect`, `QueuedIsOneRunCorrect`, `QueuedAreSentCorrect`, `UpIsPrefixCorrect` | `NodePort` | `NoLateStray`, `QueuedIsOneRun`, `QueuedAreSent`, `UpIsPrefix` |

`CmdProofs`, the ring.  The inductive invariant is type, shape and ownership
together: that the live slots are the `mSize` positions from `mBottom` on is
needed to know which slot a push fills, and the shape (`mTop` is `mSize` behind
`mBottom`, full exactly at `mQSize`) to know that it is not a live one.  The
lemmas first replace the remainder by one wrap (`Wrap`, `SlotIsAt`,
`AtInjective`), then say how the window of live slots grows and shrinks, then give
each step of the ring as a step of the FIFO on the sequence the window spells
(`PushStoredAppends`, `PopStoredTakesHead`, `StepSimulation`).

`CmdProofs`, the stack.  The same with the slots below `mTop`: that a push finds
a slot needs `mTop = mSize` and the full flag, and each call is a step on the
sequence of those slots (`StackPushAppends`, `StackPopTakesNewest`,
`PopClearTakesNewest`).

`QueueCounts`: the places at which a queue holds a member of a set, and what an
append, a removal at the head and a cut do to their number; the arguments below
that count messages, tokens, wakes or broadcasts use it.

`NodeAdapterProofs`, the looper: what a write, a read and a served event do to the
number of events in the pipe and the batch.

`NodeAdapterProofs`, the wakeups.  `NoLostWakeup` is not inductive: it speaks
only of an idle dispatcher.  `Covered` generalises it to every state by
counting: the queue is never longer than the wakes unread and unserved, plus the
threads that have pushed and not yet written their wake, plus the call of
dispatch() in progress.  Each action moves a unit from one place to the next, a
push adds one to both sides.  It needs two facts of the loop: outside a callback
there is no batch (`IdleLooper`), and the events served were wakes
(`ServedAreWakes`), so an exit event in first place is the one being served.
There are no more wakes than events, which gives `WakePerCommand`.

`NodeAdapterProofs`, the default node.  `Covered(c)` lets c commands go without.
Every step of the adapter keeps it for every c, so in `WakesTaken`, where c is the
number of wakes the children have read, only the children's steps are left: a
child that reads the pipe takes as many wakes as it adds to c (`ChildTakes`).  That
is why `Covered` counts wakes and not events: an exit event that a child reads is
an event less and covers nothing.

`NodeAdapterProofs`, the XML.  `MisreadOnlyUnprinted` is a fact about `BusXml`
(`HeaderReads`) that every step of the dispatcher then keeps.  It has three parts.
Each table begins like its enumeration, and no word is twice in it, so the word
printed of a number is read as that number (`KeywordOf`, `Tables`).  An object is
printed and read field by field, each type of event and each kind of `NBUSXML` with
fields of its own (`EventParsed`, `BusParsed`).  Arguments are printed from the end of
their list and each linked in front when read, which turns them twice
(`ReverseTwice`); names are printed from the front, so the caller's list is turned,
as `AsSent` says.  An object with a time or a testcase number is misread, and is one
of `HasUnprinted`.  The theorem has the hypothesis `AllPrinted`: types have names in their
tables, and a field that does not belong to a type has the value the constructor
gives it.  It cannot be spared, as nothing brings such a field across;
`MCDefaultNode` has it as an assumption, so TLC evaluates it for the objects of the
run, which include every type and kind.

`NodeAdapterProofs`, the end.  `ExitDrainsNetwork` would follow from
`WakePerCommand` if every wake were for a message of the network; but callers
post too, and their commands are in the same queue.  `DrainInv` therefore counts
the coordinator's commands only, less the calls that callers' SETUPs have ended
(`NetDue`): those are at most the calls of dispatch() to come (`CallPerMessage`) and,
once the exit event is written, the calls that lie ahead of it in the pipe, the batch
or the loop (`ExitIsLast`), as the coordinator queues nothing behind it.  A call that
stops early has taken a SETUP: the coordinator's own, which was one of those
counted, or a caller's, which `stops` counts (`OwnCommands`).
`AdapterImplementsMailbox` then shows every step to be one of `Mailbox`, or none: the
refinement's safety part, `MailSafety`.

`NodeNetworkProofs`.  `WholeOrNothing` speaks of the moment of the callback.
`NetInv` says what holds before: what a sender writes is a stream known
beforehand (`Cell`: type word, length word, the bytes by their offsets), its
place in it is `Put`, the receiver's is `Taken`, and the wire holds the cells
between the two (`WireInv`).  For the sender that takes the arithmetic of page,
rest and index (`SenderInv`), which is also what decides the result:
the receiver closes the connection under its sender only behind the last byte
(`ClosedInv`), so all that can still fail is a page with nothing in it.  For the bridge
`BridgeInv` is the same of a receiver that reads once: what the sender has put is
the beginning of its stream, the wire holds it until the one recv(), which takes a
prefix, and after it the connection is closed without being read again (`OnceInv`).

`NodeListSyncProofs`.  A call of `getNodeList` is one token that is a request,
then a reply, then a wake.  `OneTokenPerCall` counts the tokens of a caller; that
a token reaches its own caller, although pipe numbers come back, takes
`TokensHome`: the number a token carries is still the one of the call it belongs
to.  The two hold each other up: numbers change only between calls, and a caller
between calls has no token.  With them each reply carries a registry of its
call's time, which is `ListIsSnapshot`.

`DefaultServiceProofs`.  `SvcInv` has a part for each of the things that can
go wrong independently.

* `RegistryInv`: the registry has no name twice, so `drop()` that removes the
  first entry of a name removes the name, and `mNumOfNode` is its length.  The
  lemmas say what `RemoveAt`, and the removal and the addition of a name, do
  to a sequence without repetitions.
* `BroadcastPartition`: with the names left to try it needs that they are
  different ones, so that removing the entry the walk stands on leaves those
  behind it in place (`WalkAfterRemoval`) and the one tried was not tried before.
* `WakePerMessage` is `WakePerCommand` with more writers: the coordinator
  and the threads of the ports, counted by `Cardinality`.  Its dispatcher serves a
  whole queue per call and returns early only on data that does not parse.
* `NoMultiplication` follows the broadcasts through backlog, read loop, queue and
  walk; each step moves one or loses one, and only a peer adds one, which
  `broadcasts` counts.
* `DefaultMatchesRegistry` has the hypothesis that peers send neither JOIN nor
  SET_DEFAULT_NODE.  It follows the name through `drop()`, which clears
  `mDefaultNode`, `join()`, which drops first, the REGISTER that sets it behind the join,
  and the broadcast, which removes the entry alone; `DefaultInv` adds that no name is
  lost and registered at once.  It needs that no name is registered twice: else a
  drop would leave an entry of a default node that is no longer set.
* `SelfRegistered` has the hypothesis `Steady`: no length fills its last page,
  nobody sends a KILL or a DROP of the service, and neither bind, accept nor socket
  fails.  Each of these
  really takes the service out of its registry.

`NodeRegistryProofs`, the cells.  `ListInv` of `LinkedList` says that the pointers
of a list lead once round its places and back, and that no cell has two places;
`NewKeeps`, `AddKeeps`, `DelKeeps` and `FreeKeeps` say what the macros of `List.h`
do to the places.  `NoStrayCell` is not inductive: that the cell a walk stands
on is in use depends on where in which list the walk is, and which lists there
are.  `CellInv` says both for each pc (`ControlInv`, `HeadsInv`,
`WalkInv`), and that a text being written goes through the list of names from its
head (`PrintInv`).

`NodeRegistryProofs`, the promise.  A walk that deletes is one deletion and one
step of the walk for `Registry` only if no name is twice in the list and the walk
of a `drop()` has passed no entry of its name; that is `NamesInv`.  With it each
step is a step of the registry of names or none (`RegistryStep`).  `AnswerInv`
follows the names of a LIST through the list that is turned round when it is
made, the text, and the list that is turned round when it is read.

`NodePortProofs`, the descriptor.  `NoLateStray` speaks of the past, so the
invariant `StrayInv` adds how it stays true: `mSd` is reset before the thread is
gone, a message routed after that has no descriptor in its copy, and cells go
astray only from the message in hand.

`NodePortProofs`, the framing.  `ListenInv` is about one packet: what was read of it
is the stream's cells from `Begun`, where it was begun, to where the stream was
taken (`GotInv`), whatever the step of the reads, and what is queued lies before
`Begun` (`QueuedBefore`).  That alone gives `QueuedIsOneRun`.  For `QueuedAreSent`,
`SentInv` adds where the packets lie in the stream (`Layout`, by the place
`ends[p]` behind which packet p begins): in step, listen() is at such a place or
inside of a packet (`AtPacket`), what is queued is whole packets, and the packets
between two of them are none for the queue (`QueuedWhole`, `DoneTo`).

`NodePortProofs`, the router.  `UpIsPrefix` speaks of neighbours in what the server
got; a step adds cells, so the invariant `UpInv` says where the router is against
the last of them: at the beginning of a message behind one that is complete, or
in page `i` of it with `sent` cells of that page sent (`RouterAt`).  What one write puts is at most
a page, and less only if it is the last one (`LastPage`); `CellsFollow` then joins
the new cells to the old.

Only model-checked:

* everything about liveness, with the fairness part of `RefinesMailbox`: the
  prover has no rule for fairness as it is used here.

## Not modelled

Of XML: characters, lengths and what libxml2 does with a text (a name longer than
its field, or an answer longer than `XML_MAX_LENGTH`, is outside the models), and
the printing of testcases, which no parser returns.  Logging, the wrappers of
threads and locks and the build files.  `NodeLooper::timer` and waits with a
timeout, which the bus does not use.  What nothing calls: the overload of
`sendNodeMessage` with a kept socket, `setupServerSocket`, `copyData`, `join` and
`broadcast` for client entries.  `connectGlobal` is a choice of `DefaultService`.
The sockets a child that does exec keeps open, which outlive the daemon with its
names.  Two listening threads on one `mSd`: a second REGISTER connects and
starts the second one, and then hangs (`SvcRebind`); what the two would
read of one stream, no text of the repository says anything about.

## Plan

Done: queue, stack, looper, adapter, network, service, port, node list, bridge, the
registry's list and the lists of a LIST, the XML of buses, events and commands, the
default node with its children; every safety property of a run that can be proved
is.  Left: what "Not modelled" lists, and a model of a second connection of the port
beside the first, once the repository says what it should do.
