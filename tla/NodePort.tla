------------------------------ MODULE NodePort ------------------------------
(***************************************************************************)
(* NodePort: the one connection to the global server.  A thread, listen(), *)
(* answers the server's greeting with the client's name and then cuts the  *)
(* byte stream into packets - start code and header length, header, data - *)
(* that it gives to the queue of the service.  The router, another thread, *)
(* writes what local nodes cast to it to the same descriptor, page by page *)
(* (NodeNetwork::sendToSocket).  When the server goes, listen() closes the *)
(* descriptor under the router, and any thread of the process may be given *)
(* its number next.                                                        *)
(*                                                                         *)
(* A cell of the stream stands for some bytes: the start code, the length, *)
(* a part of the greeting, of a header or of data.  What is read of it is  *)
(* its position, Garbage what a buffer held before.  One registration only *)
(* (see SvcRebind for a second one).                                       *)
(***************************************************************************)
EXTENDS Integers, Sequences, SequencesExt

CONSTANTS
  GreetingLen, HeaderLen, DataLens, \* cells of the greeting, headers, data
  Types,        \* types of packets the server sends
  Page,         \* SOCK_PAGE_SIZE
  MessageLens,  \* lengths of the messages nodes cast to the router
  PeerMortal,   \* the server may close the connection
  MaxPackets,   \* bound: packets of the server
  MaxMessages,  \* bound: messages cast to the router
  MaxTraffic    \* bound: packets and messages together

\* An event has data, a command has none; other is XML that is neither, bad
\* does not parse.
PacketType == {"event", "command", "other", "bad"}

ASSUME PortAssumption ==
  /\ GreetingLen \in Nat \ {0} /\ HeaderLen \in Nat \ {0} /\ DataLens \subseteq Nat
  /\ Types \subseteq PacketType
  /\ Page \in Nat \ {0} /\ MessageLens \subseteq Nat
  /\ PeerMortal \in BOOLEAN
  /\ MaxPackets \in Nat /\ MaxMessages \in Nat /\ MaxTraffic \in Nat

VARIABLES
  stream,       \* cells the server has written
  packets,      \* the packets it has written
  arrived, taken, \* how much of the stream has arrived, and was read
  peer,         \* the server's end is open
  reading,      \* it reads what it is sent
  lpc,          \* where listen() is
  got, need,    \* positions read of the current packet, cells still to read
  queued,       \* history: the items given to mQ.push()
  inStep,       \* history: greeting and headers were each what one read gave
  mSd,          \* "fd", or "none" for -1
  fd,           \* what the descriptor's number stands for
  up,           \* cells written to the server
  rpc, sd,      \* where the router is, and its copy of mSd
  routed,       \* history: lengths of the messages it was given
  late,         \* history: those it was given after listen() had returned
  length, i, sent, sizeToSend, \* locals of sendToSocket()
  stray,        \* history: cells written to a descriptor of somebody else
  died          \* the process has ended

netVars == <<stream, packets, arrived, peer, reading>>
listenVars == <<taken, lpc, got, need, queued, inStep, mSd>>
routerVars == <<rpc, sd, routed, late, length, i, sent, sizeToSend, stray>>
vars == <<netVars, listenVars, routerVars, fd, up, died>>

Cell(part, p) == [part |-> part, packet |-> p]

\* The client's name among the cells <<message, offset>> of the router.
ClientName == <<0, 0>>

Garbage == 0

\* Cells of the start code and of the length of the header.
PrefixLen == 2

Init ==
  /\ stream = [k \in 1 .. GreetingLen |-> Cell("greeting", 0)]
  /\ packets = <<>> /\ arrived = 0 /\ taken = 0
  /\ peer = TRUE /\ reading = TRUE
  /\ lpc = "greeting" /\ got = <<>> /\ need = 0
  /\ queued = <<>> /\ inStep = TRUE
  /\ mSd = "fd" /\ fd = "server" /\ up = <<>>
  /\ rpc = "idle" /\ sd = "none" /\ routed = <<>> /\ late = {}
  /\ length = 0 /\ i = 0 /\ sent = 0 /\ sizeToSend = 0
  /\ stray = {} /\ died = FALSE

-----------------------------------------------------------------------------
(* The server and the network.                                             *)

InBounds == Len(packets) + Len(routed) < MaxTraffic

Packet == [type : Types, data : DataLens]

Cells(packet, p) ==
  <<Cell("start", p), Cell("length", p)>>
  \o [k \in 1 .. HeaderLen |-> Cell("header", p)]
  \o [k \in 1 .. packet.data |-> Cell("data", p)]

ServerSends(packet) ==
  /\ peer /\ Len(packets) < MaxPackets /\ InBounds
  /\ packet.data > 0 => packet.type = "event"
  /\ packets' = Append(packets, packet)
  /\ stream' = stream \o Cells(packet, Len(packets) + 1)
  /\ UNCHANGED <<arrived, peer, reading, listenVars, routerVars, fd, up, died>>

Arrive(n) ==
  /\ n \in arrived + 1 .. Len(stream)
  /\ arrived' = n
  /\ UNCHANGED <<stream, packets, peer, reading, listenVars, routerVars, fd, up, died>>

\* What has not arrived may be lost with the connection.
ServerCloses(n) ==
  /\ PeerMortal /\ peer
  /\ n \in arrived .. Len(stream)
  /\ peer' = FALSE /\ reading' = FALSE
  /\ stream' = SubSeq(stream, 1, n)
  /\ UNCHANGED <<packets, arrived, listenVars, routerVars, fd, up, died>>

\* The server keeps the connection but reads no more, and what the network holds
\* for it has filled up: a write waits until the server closes, if it ever does.
ServerStopsReading ==
  /\ peer /\ reading
  /\ reading' = FALSE
  /\ UNCHANGED <<stream, packets, arrived, peer, listenVars, routerVars, fd, up, died>>

\* A write to the server's connection has not to wait.
Writable == ~peer \/ reading

-----------------------------------------------------------------------------
(* listen().  A read takes what has arrived, up to what was asked for.     *)

Fewer(a, b) == IF a < b THEN a ELSE b

Positions(first, n) == [k \in 1 .. n |-> first + k]

Arrived == arrived - taken

AtEnd == ~peer /\ taken = Len(stream)

\* The loop reads the start code and header length of the next packet.
NextPacket == lpc' = "prefix" /\ got' = <<>> /\ need' = PrefixLen

\* One read, of everything that is there: the rest of a greeting, or what the
\* server sends before it has the name, is taken for something else.
ReadGreeting ==
  /\ lpc = "greeting" /\ Arrived > 0
  /\ taken' = arrived
  /\ inStep' = (arrived = GreetingLen)
  /\ lpc' = "name"
  /\ UNCHANGED <<netVars, got, need, queued, mSd, routerVars, fd, up, died>>

\* The name is a single page.  A write behind the server's end may still be
\* taken by the kernel, or fail, which nobody looks at, or be the end of the
\* process: nothing handles SIGPIPE.
SendName ==
  /\ lpc = "name" /\ Writable
  /\ NextPacket
  /\ \/ peer /\ up' = Append(up, ClientName) /\ died' = FALSE
     \/ ~peer /\ up' = up /\ died' \in BOOLEAN
  /\ UNCHANGED <<netVars, taken, queued, inStep, mSd, routerVars, fd>>

\* Mutant of ReadPrefix: whatever one read returns is the prefix.
ReadPrefixOnce ==
  LET r == Fewer(need, Arrived)
  IN
  /\ lpc = "prefix" /\ r > 0
  /\ taken' = taken + r
  /\ IF stream[taken + 1].part = "start"
     THEN lpc' = "header" /\ got' = Positions(taken, r) /\ need' = HeaderLen
     ELSE NextPacket
  /\ UNCHANGED <<netVars, queued, inStep, mSd, routerVars, fd, up, died>>

\* A prefix without the start code is skipped, all of it.
ReadPrefix ==
  LET r == Fewer(need, Arrived)
      prefix == got \o Positions(taken, r)
  IN
  /\ lpc = "prefix" /\ r > 0
  /\ taken' = taken + r
  /\ \/ r < need /\ got' = prefix /\ need' = need - r /\ UNCHANGED lpc
     \/ /\ r = need /\ stream[prefix[1]].part = "start"
        /\ got' = prefix /\ need' = HeaderLen /\ lpc' = "header"
     \/ r = need /\ stream[prefix[1]].part # "start" /\ NextPacket
  /\ UNCHANGED <<netVars, queued, inStep, mSd, routerVars, fd, up, died>>

\* The header has been read and gives d cells of data; with none the packet is
\* complete.
HeaderRead(r, d) ==
  /\ got' = got \o Positions(taken, r) \o [k \in 1 .. HeaderLen - r |-> Garbage]
  /\ need' = d
  /\ lpc' = IF d = 0 THEN "push" ELSE "data"

\* One read.  The end of a header that has not arrived is what the memory of
\* the buffer held before: it may parse, and as anything.
ReadHeader ==
  LET r == Fewer(HeaderLen, Arrived)
      packet == packets[stream[got[1]].packet]
  IN
  /\ lpc = "header" /\ r > 0
  /\ taken' = taken + r
  /\ inStep' = (inStep /\ r = HeaderLen)
  /\ \/ /\ r = HeaderLen /\ packet.type \in {"event", "command"}
        /\ HeaderRead(r, packet.data)
        /\ UNCHANGED died
     \/ /\ r = HeaderLen /\ packet.type = "bad"
        /\ NextPacket
        /\ UNCHANGED died
     \/ /\ r = HeaderLen /\ packet.type = "other" \* memcpy() to a null mpPacket
        /\ died' = TRUE
        /\ UNCHANGED <<lpc, got, need>>
     \/ /\ r < HeaderLen
        /\ NextPacket \/ \E d \in DataLens : HeaderRead(r, d)
        /\ UNCHANGED died
  /\ UNCHANGED <<netVars, queued, mSd, routerVars, fd, up>>

\* Mutant of ReadData: a short read of data ends the packet.
ReadDataOnce ==
  LET r == Fewer(need, Arrived)
  IN
  /\ lpc = "data" /\ r > 0
  /\ taken' = taken + r
  /\ got' = got \o Positions(taken, r) \o [k \in 1 .. need - r |-> Garbage]
  /\ need' = 0 /\ lpc' = "push"
  /\ UNCHANGED <<netVars, queued, inStep, mSd, routerVars, fd, up, died>>

ReadData ==
  LET r == Fewer(need, Arrived)
  IN
  /\ lpc = "data" /\ r > 0
  /\ taken' = taken + r
  /\ got' = got \o Positions(taken, r)
  /\ need' = need - r
  /\ lpc' = IF r = need THEN "push" ELSE "data"
  /\ UNCHANGED <<netVars, queued, inStep, mSd, routerVars, fd, up, died>>

\* mQ.push() and wakeup().
Push ==
  /\ lpc = "push"
  /\ queued' = Append(queued, got)
  /\ NextPacket
  /\ UNCHANGED <<netVars, taken, inStep, mSd, routerVars, fd, up, died>>

\* Mutant of ReadEnd: only the first read and the data's notice the end.
ReadEndIgnored ==
  /\ lpc \in {"greeting", "data"} /\ AtEnd
  /\ fd' = "free" /\ lpc' = "closed" /\ UNCHANGED died
  /\ UNCHANGED <<netVars, taken, got, need, queued, inStep, mSd, routerVars, up>>

\* The connection is closed.  In the data the header's buffer is freed a second
\* time, which the allocator may end the process for.
ReadEnd ==
  /\ lpc \in {"greeting", "prefix", "header", "data"} /\ AtEnd
  /\ fd' = "free" /\ lpc' = "closed"
  /\ IF lpc = "data" THEN died' \in BOOLEAN ELSE UNCHANGED died
  /\ UNCHANGED <<netVars, taken, got, need, queued, inStep, mSd, routerVars, up>>

\* Mutant of ResetSd: mSd keeps the number of the closed descriptor.
ResetSdForgotten ==
  /\ lpc = "closed"
  /\ lpc' = "gone"
  /\ UNCHANGED <<netVars, taken, got, need, queued, inStep, mSd, routerVars, fd, up,
                 died>>

\* The thread ends.
ResetSd ==
  /\ lpc = "closed"
  /\ mSd' = "none" /\ lpc' = "gone"
  /\ UNCHANGED <<netVars, taken, got, need, queued, inStep, routerVars, fd, up,
                 died>>

-----------------------------------------------------------------------------
(* The router.                                                             *)

PageOf(n) == IF n < Page THEN n ELSE Page

\* Mutant of NrPages: the part of a page behind the whole ones is forgotten.
NrPagesRoundedDown(n) == n \div Page

NrPages(n) == n \div Page + 1

\* routerAction() is called with the next message: send() takes a copy of mSd.
Route(n) ==
  /\ rpc = "idle" /\ Len(routed) < MaxMessages /\ InBounds
  /\ routed' = Append(routed, n)
  /\ late' = IF lpc = "gone" THEN late \cup {Len(routed) + 1} ELSE late
  /\ sd' = mSd /\ length' = n /\ i' = 0 /\ sent' = 0
  /\ sizeToSend' = PageOf(n) /\ rpc' = "write"
  /\ UNCHANGED <<netVars, listenVars, stray, fd, up, died>>

\* A page is done and left bytes remain; the loop over the pages goes on.
PageDone(left) ==
  /\ length' = left /\ i' = i + 1 /\ sent' = 0
  /\ sizeToSend' = PageOf(left)
  /\ rpc' = IF i + 1 < NrPages(Last(routed)) THEN "write" ELSE "idle"

\* Mutant of PageCells: the page is left out of the address.
PageCellsOfFirst(w) == [b \in 1 .. w |-> <<Len(routed), sent + b>>]

PageCells(w) == [b \in 1 .. w |-> <<Len(routed), sent + i * Page + b>>]

\* The descriptor takes w cells, for the server, for nobody behind its end, or
\* for whom the number stands now.
Write(w) ==
  /\ rpc = "write" /\ sd = "fd"
  /\ w \in 1 .. sizeToSend
  /\ \/ fd = "server" /\ peer /\ reading /\ up' = up \o PageCells(w) /\ UNCHANGED stray
     \/ fd = "server" /\ ~peer /\ UNCHANGED <<up, stray>>
     \/ /\ fd = "other"
        /\ stray' = stray \cup {PageCells(w)[b] : b \in 1 .. w}
        /\ UNCHANGED up
  /\ IF w = sizeToSend
     THEN PageDone(length - (sent + w))
     ELSE /\ sent' = sent + w /\ sizeToSend' = sizeToSend - w
          /\ UNCHANGED <<length, i, rpc>>
  /\ UNCHANGED <<netVars, listenVars, sd, routed, late, fd, died>>

\* The descriptor is open, but not, or not any more, the server's.
Broken == sd = "fd" /\ (fd = "other" \/ (fd = "server" /\ ~peer))

\* write() of an empty last page returns 0, and that on a closed descriptor or to
\* a peer that has gone -1, if SIGPIPE does not end the process: the page is
\* given up, and the next one is tried with length as it was.
WriteFails ==
  /\ rpc = "write"
  /\ sizeToSend = 0 \/ sd = "none" \/ fd = "free" \/ Broken
  /\ died' = FALSE \/ (Broken /\ died' = TRUE)
  /\ PageDone(length)
  /\ UNCHANGED <<netVars, listenVars, sd, routed, late, stray, fd, up>>

\* Another thread accepts or opens something and is given the free number, or
\* closes it again.
Reuse == fd = "free" /\ fd' = "other"
Release == fd = "other" /\ fd' = "free"

Others ==
  /\ Reuse \/ Release
  /\ UNCHANGED <<netVars, listenVars, routerVars, up, died>>

-----------------------------------------------------------------------------
Listen ==
  \/ ReadGreeting \/ SendName \/ ReadPrefix \/ ReadHeader \/ ReadData
  \/ Push \/ ReadEnd \/ ResetSd

Sends == WriteFails \/ \E w \in 1 .. Page : Write(w)

Arrives == \E n \in 1 .. Len(stream) : Arrive(n)

Next ==
  /\ ~died
  /\ \/ \E packet \in Packet : ServerSends(packet)
     \/ Arrives
     \/ \E n \in 0 .. Len(stream) : ServerCloses(n)
     \/ ServerStopsReading
     \/ Listen
     \/ \E n \in MessageLens : Route(n)
     \/ Sends
     \/ Others

\* Threads run on, and what was sent arrives; nothing is assumed of the server
\* and of the nodes.
Fairness ==
  WF_vars(~died /\ Listen) /\ WF_vars(~died /\ Sends) /\ WF_vars(~died /\ Arrives)

Spec == Init /\ [][Next]_vars /\ Fairness

-----------------------------------------------------------------------------
TypeOK ==
  /\ stream \in Seq([part : {"greeting", "start", "length", "header", "data"},
                     packet : 0 .. MaxPackets])
  /\ packets \in Seq(Packet) /\ peer \in BOOLEAN
  /\ 0 <= taken /\ taken <= arrived /\ arrived <= Len(stream)
  /\ reading \in BOOLEAN
  /\ lpc \in {"greeting", "name", "prefix", "header", "data", "push",
              "closed", "gone"}
  /\ got \in Seq(Nat) /\ need \in Nat /\ queued \in Seq(Seq(Nat))
  /\ inStep \in BOOLEAN
  /\ mSd \in {"fd", "none"} /\ fd \in {"server", "free", "other"}
  /\ up \in Seq(Nat \X Nat)
  /\ rpc \in {"idle", "write"} /\ sd \in {"fd", "none"}
  /\ routed \in Seq(MessageLens) /\ late \subseteq 1 .. MaxMessages
  /\ length \in Nat /\ i \in Nat /\ sent \in Nat /\ sizeToSend \in Nat
  /\ stray \subseteq Nat \X Nat /\ died \in BOOLEAN

IsGood(p) == packets[p].type \in {"event", "command"}

\* The packets that are for the queue.
Good == SelectSeq(Positions(0, Len(packets)), IsGood)

\* The cells of packet p in the stream, all of them, each once and in order.
IsPacket(item, p) ==
  /\ \A j \in 1 .. Len(item) :
       item[j] \in 1 .. Len(stream) /\ stream[item[j]].packet = p
  /\ \A j \in 2 .. Len(item) : item[j - 1] < item[j]
  /\ \A k \in 1 .. Len(stream) :
       stream[k].packet = p => \E j \in 1 .. Len(item) : item[j] = k

\* The packet of the q-th item.
PacketOf(q) == IF q = 0 THEN 0 ELSE stream[queued[q][1]].packet

\* While one read yields each header whole and the greeting alone, however
\* everything else is cut: the items queued are the server's events and commands
\* from the first on, each with all of its bytes, in order, none left out,
\* repeated or mixed with another.
QueuedAreSent ==
  inStep =>
    \A q \in 1 .. Len(queued) :
      LET p == PacketOf(q)
      IN  /\ p \in 1 .. Len(packets) /\ IsGood(p) /\ IsPacket(queued[q], p)
          /\ PacketOf(q - 1) < p
          /\ \A between \in PacketOf(q - 1) + 1 .. p - 1 : ~IsGood(between)

\* An item read from its first cell on, r of the header's cells among it, the
\* rest of them not read.
IsRun(item, r) ==
  \A j \in 1 .. Len(item) :
    item[j] = IF j <= PrefixLen + r THEN item[1] + (j - 1)
              ELSE IF j <= PrefixLen + HeaderLen THEN Garbage
              ELSE item[1] + (j - 1) - (HeaderLen - r)

\* Also when a header is cut and the stream loses its step: an item is one run
\* of the stream from a start code on, with a gap at the end of its header only,
\* and no byte of the server is queued twice or out of order.
QueuedIsOneRun ==
  \A q \in 1 .. Len(queued) :
    /\ queued[q][1] \in 1 .. Len(stream)
    /\ stream[queued[q][1]].part = "start"
    /\ \E r \in 0 .. HeaderLen : IsRun(queued[q], r)
    /\ q > 1 => \A j \in 1 .. Len(queued[q - 1]) : queued[q - 1][j] < queued[q][1]

Text(m) == [k \in 1 .. routed[m] |-> <<m, k>>]

\* The places of what the server gets, the name apart.
TextPlaces == {k \in 1 .. Len(up) : up[k] # ClientName}

\* d is the first cell behind message m; a message of length 0 has none.
Begins(m, d) ==
  /\ d[1] \in m + 1 .. Len(routed) /\ d[2] = 1 /\ routed[d[1]] > 0
  /\ \A e \in m + 1 .. d[1] - 1 : routed[e] = 0

\* d is the cell behind c; the name stands for what is before the first message.
Follows(c, d) ==
  IF c # ClientName /\ c[2] < routed[c[1]] THEN d = <<c[1], c[2] + 1>>
  ELSE Begins(c[1], d)

UpTo(j) == IF j = 0 THEN ClientName ELSE up[j]

\* The name apart, which may come anywhere, what the server gets is the
\* messages cast to the router in order, each byte once, up to some point: every
\* cell is the one behind the last before it.
UpIsPrefix ==
  \A k \in TextPlaces : \A j \in TextPlaces \cup {0} :
    j < k /\ (\A l \in j + 1 .. k - 1 : up[l] = ClientName)
      => Follows(UpTo(j), up[k])

\* A descriptor that belongs to somebody else is written to only by a send that
\* had begun before listen() was done with the connection.
NoLateStray == \A cell \in stray : cell[1] \notin late

\* Once the server has gone, listen() ends, in whatever part of a packet, and
\* in or out of step.
ListenEnds == ~peer ~> (lpc = "gone" \/ died)

\* While the connection lives and the stream keeps its step, every packet for
\* the queue gets there, whatever came before it and whether the server reads
\* or not - once it has the name: listen() reads no packet before that is sent.
PacketArrives ==
  (Len(queued) < Len(Good))
    ~> (\/ Len(queued) = Len(Good) \/ ~peer \/ died \/ ~inStep
        \/ lpc = "name" /\ ~reading)

Written(m) == Range(Text(m)) \subseteq Range(up)

\* Messages of any length are written to their end, unless the connection ends
\* or the server stops reading, which keeps the router in write() for as long as
\* the connection lasts: no timeout and no flag lets it go.
RoutedArrives ==
  (\E m \in 1 .. Len(routed) : ~Written(m))
    ~> (~peer \/ ~reading \/ died \/ \A m \in 1 .. Len(routed) : Written(m))
=============================================================================
