--------------------------- MODULE NodePortProofs ---------------------------
(***************************************************************************)
(* Proofs about the connection to the global server.  The descriptor, once *)
(* listen() has returned, is not written to by any later send, whatever    *)
(* the number stands for by then.  What listen() queues is one run of the  *)
(* stream each, and while the reads keep step exactly the packets the      *)
(* server sent.  What the server gets is the messages cast to the router,  *)
(* page by page, in order and each byte once.                              *)
(***************************************************************************)
EXTENDS NodePort, SequenceTheorems, TLAPS

-----------------------------------------------------------------------------
(* Nothing goes astray later.                                              *)

\* The invariant: mSd is reset before the thread ends, so a send that begins
\* later has no descriptor in its hand; and what went astray is of messages
\* routed so far, none of them late.
StrayInv ==
  /\ routed \in Seq(MessageLens)
  /\ late \subseteq 1 .. Len(routed)
  /\ lpc = "gone" => mSd = "none"
  /\ Len(routed) \in late => sd = "none"
  /\ \A cell \in stray : cell[1] \in 0 .. Len(routed)
  /\ NoLateStray

\* The invariant speaks of these variables only.
strayVars == <<routed, late, lpc, mSd, sd, stray>>

\* Steps that change none of the variables keep the invariant.
LEMMA StrayInvKept == ASSUME StrayInv, UNCHANGED strayVars
                      PROVE  StrayInv'
  BY DEF StrayInv, strayVars, NoLateStray

\* Steps of listen() but the last do not end it, and leave mSd and the router
\* alone.
LEMMA ListeningKeeps ==
  ASSUME StrayInv, lpc' # "gone", UNCHANGED <<routed, late, mSd, sd, stray>>
  PROVE  StrayInv'
  BY DEF StrayInv, NoLateStray

\* A message is begun: it is late only if listen() has ended, and then the copy
\* of mSd it is given is none.
LEMMA RouteKeeps == ASSUME PortAssumption, StrayInv, NEW n \in MessageLens, Route(n)
                    PROVE  StrayInv'
<1> DEFINE k == Len(routed) + 1
<1>1. /\ routed' \in Seq(MessageLens)
      /\ Len(routed') = k
      /\ Len(routed) \in Nat
  BY DEF StrayInv, Route
<1>2. UNCHANGED <<lpc, mSd, stray>> /\ sd' = mSd
  BY DEF Route, listenVars
<1>3. late' = IF lpc = "gone" THEN late \cup {k} ELSE late
  BY DEF Route
<1>4. late \subseteq 1 .. Len(routed) /\ k \notin late
  BY <1>1 DEF StrayInv
<1>5. late' \subseteq 1 .. Len(routed')
  <2>1. 1 .. Len(routed) \subseteq 1 .. k /\ k \in 1 .. k
    BY <1>1
  <2>2. late' \subseteq late \cup {k}
    BY <1>3
  <2>3. QED
    BY <1>1, <1>4, <2>1, <2>2
<1>6. Len(routed') \in late' => sd' = "none"
  BY <1>1, <1>2, <1>3, <1>4 DEF StrayInv
<1>7. \A cell \in stray' : cell[1] \in 0 .. Len(routed') /\ cell[1] # k
  BY <1>1, <1>2 DEF StrayInv
<1>8. NoLateStray'
  BY <1>2, <1>3, <1>7 DEF StrayInv, NoLateStray
<1>9. (lpc = "gone" => mSd = "none")'
  BY <1>2 DEF StrayInv
<1>10. QED
  BY <1>1, <1>5, <1>6, <1>7, <1>8, <1>9 DEF StrayInv

\* Cells go astray only from a send that holds the descriptor, which a late one
\* does not.
LEMMA WriteStrayKeeps == ASSUME PortAssumption, StrayInv, NEW w \in 1 .. Page, Write(w)
                         PROVE  StrayInv'
<1>1. UNCHANGED <<routed, late, lpc, mSd, sd>> /\ sd = "fd"
  BY DEF Write, listenVars
<1>2. Len(routed) \in Nat /\ Len(routed) \notin late
  BY <1>1 DEF StrayInv
<1>3. \A b \in 1 .. w : PageCells(w)[b][1] = Len(routed)
  BY DEF PageCells
<1>4. \A cell \in stray' : cell \in stray \/ cell[1] = Len(routed)
  BY <1>3 DEF Write
<1>5. \A cell \in stray' : cell[1] \in 0 .. Len(routed) /\ cell[1] \notin late
  BY <1>2, <1>4 DEF StrayInv, NoLateStray
<1>6. QED
  BY <1>1, <1>5 DEF StrayInv, NoLateStray

\* The state of a new port.
LEMMA StrayInvStarts == ASSUME Init PROVE StrayInv
  BY DEF Init, StrayInv, NoLateStray

\* Every step of the port, and every stutter, keeps the invariant.
LEMMA NextKeeps == ASSUME PortAssumption, StrayInv, [Next]_vars
                   PROVE  StrayInv'
<1>1. CASE \E packet \in Packet : ServerSends(packet)
  BY <1>1, StrayInvKept DEF ServerSends, listenVars, routerVars, strayVars
<1>2. CASE Arrives
  BY <1>2, StrayInvKept DEF Arrives, Arrive, listenVars, routerVars, strayVars
<1>3. CASE \E n \in 0 .. Len(stream) : ServerCloses(n)
  BY <1>3, StrayInvKept DEF ServerCloses, listenVars, routerVars, strayVars
<1>4. CASE Listen
  <2>1. CASE ReadGreeting
    BY <2>1, ListeningKeeps DEF ReadGreeting, routerVars
  <2>2. CASE SendName
    BY <2>2, ListeningKeeps DEF SendName, NextPacket, routerVars
  <2>3. CASE ReadPrefix
    BY <2>3, ListeningKeeps DEF ReadPrefix, NextPacket, routerVars
  <2>4. CASE ReadHeader
    BY <2>4, ListeningKeeps DEF ReadHeader, HeaderRead, NextPacket, routerVars
  <2>5. CASE ReadData
    BY <2>5, ListeningKeeps DEF ReadData, routerVars
  <2>6. CASE Push
    BY <2>6, ListeningKeeps DEF Push, NextPacket, routerVars
  <2>7. CASE ReadEnd
    BY <2>7, ListeningKeeps DEF ReadEnd, routerVars
  <2>8. CASE ResetSd
    BY <2>8 DEF ResetSd, routerVars, StrayInv, NoLateStray
  <2>9. QED
    BY <1>4, <2>1, <2>2, <2>3, <2>4, <2>5, <2>6, <2>7, <2>8 DEF Listen
<1>5. CASE \E n \in MessageLens : Route(n)
  BY <1>5, RouteKeeps
<1>6. CASE Sends
  <2>1. CASE WriteFails
    BY <2>1, StrayInvKept DEF WriteFails, PageDone, listenVars, strayVars
  <2>2. CASE \E w \in 1 .. Page : Write(w)
    BY <2>2, WriteStrayKeeps
  <2>3. QED
    BY <1>6, <2>1, <2>2 DEF Sends
<1>7. CASE Others
  BY <1>7, StrayInvKept DEF Others, listenVars, routerVars, strayVars
<1>8. CASE ServerStopsReading
  BY <1>8, StrayInvKept DEF ServerStopsReading, listenVars, routerVars, strayVars
<1>9. CASE UNCHANGED vars
  BY <1>9, StrayInvKept DEF vars, listenVars, routerVars, strayVars
<1>10. QED
  BY <1>1, <1>2, <1>3, <1>4, <1>5, <1>6, <1>7, <1>8, <1>9 DEF Next

\* NodePort::listen closes the connection and sets mSd to -1 before it returns;
\* a message that is cast to the router after that is not written to the
\* descriptor's number, whoever has it then.
THEOREM NoLateStrayCorrect == Spec => []NoLateStray
<1>1. Init => StrayInv
  BY StrayInvStarts
<1>2. StrayInv /\ [Next]_vars => StrayInv'
  BY PortAssumption, NextKeeps
<1>3. StrayInv => NoLateStray
  BY DEF StrayInv
<1>4. QED
  BY <1>1, <1>2, <1>3, PTL DEF Spec

-----------------------------------------------------------------------------
(* What listen() reads.                                                    *)

\* Cells in a row.
LEMMA PositionsFacts ==
  ASSUME NEW first \in Nat, NEW n \in Nat
  PROVE  /\ Positions(first, n) \in Seq(Nat) /\ Len(Positions(first, n)) = n
         /\ \A j \in 1 .. n : Positions(first, n)[j] = first + j
<1>1. \A j \in 1 .. n : first + j \in Nat OBVIOUS
<1>2. Positions(first, n) \in [1 .. n -> Nat] BY <1>1 DEF Positions
<1>3. Positions(first, n) \in Seq(Nat) BY <1>2, IsASeq
<1>4. Len(Positions(first, n)) = n BY <1>2, <1>3, LenProperties
<1>5. QED BY <1>3, <1>4 DEF Positions

\* The end of a header that was not read.
LEMMA PaddingFacts ==
  ASSUME NEW n \in Nat
  PROVE  /\ [k \in 1 .. n |-> Garbage] \in Seq(Nat)
         /\ Len([k \in 1 .. n |-> Garbage]) = n
<1> DEFINE pad == [k \in 1 .. n |-> Garbage]
<1>1. pad \in [1 .. n -> Nat] BY DEF Garbage
<1> HIDE DEF pad
<1>2. pad \in Seq(Nat) BY <1>1, IsASeq
<1>3. Len(pad) = n BY <1>1, <1>2, LenProperties
<1>4. QED BY <1>2, <1>3 DEF pad

\* A read goes on behind what is there.
LEMMA ReadOn ==
  ASSUME NEW item \in Seq(Nat), NEW first \in Nat, NEW r \in Nat
  PROVE  LET on == item \o Positions(first, r)
         IN  /\ on \in Seq(Nat) /\ Len(on) = Len(item) + r
             /\ \A j \in 1 .. Len(item) : on[j] = item[j]
             /\ \A j \in Len(item) + 1 .. Len(item) + r :
                  on[j] = first + (j - Len(item))
<1> DEFINE more == Positions(first, r)
           on == item \o more
<1>1. /\ more \in Seq(Nat) /\ Len(more) = r
      /\ \A j \in 1 .. r : more[j] = first + j
  BY PositionsFacts
<1> HIDE DEF more
<1>2. on \in Seq(Nat) /\ Len(on) = Len(item) + r /\ Len(item) \in Nat
  BY <1>1, ConcatProperties, LenProperties
<1>3. \A j \in 1 .. Len(item) : on[j] = item[j]
  BY <1>1, ConcatProperties
<1>4. ASSUME NEW j \in Len(item) + 1 .. Len(item) + r
      PROVE  on[j] = first + (j - Len(item))
  <2>1. on[j] = more[j - Len(item)] BY <1>1, <1>2, ConcatProperties
  <2>2. j - Len(item) \in 1 .. r BY <1>2
  <2>3. QED BY <1>1, <2>1, <2>2
<1>5. QED BY <1>2, <1>3, <1>4 DEF more

\* A header of which r cells were read is padded to its length.
LEMMA Padded ==
  ASSUME NEW item \in Seq(Nat), NEW n \in Nat
  PROVE  LET padded == item \o [k \in 1 .. n |-> Garbage]
         IN  /\ padded \in Seq(Nat) /\ Len(padded) = Len(item) + n
             /\ \A j \in 1 .. Len(item) : padded[j] = item[j]
             /\ \A j \in Len(item) + 1 .. Len(item) + n : padded[j] = Garbage
<1> DEFINE pad == [k \in 1 .. n |-> Garbage]
           padded == item \o pad
<1>1. \A k \in 1 .. n : pad[k] = Garbage OBVIOUS
<1>2. pad \in Seq(Nat) /\ Len(pad) = n BY PaddingFacts
<1> HIDE DEF pad
<1>3. padded \in Seq(Nat) /\ Len(padded) = Len(item) + n /\ Len(item) \in Nat
  BY <1>2, ConcatProperties, LenProperties
<1>4. \A j \in 1 .. Len(item) : padded[j] = item[j]
  BY <1>2, ConcatProperties
<1>5. ASSUME NEW j \in Len(item) + 1 .. Len(item) + n
      PROVE  padded[j] = Garbage
  <2>1. padded[j] = pad[j - Len(item)] BY <1>2, <1>3, ConcatProperties
  <2>2. j - Len(item) \in 1 .. n BY <1>3
  <2>3. QED BY <1>1, <2>1, <2>2
<1>6. QED BY <1>3, <1>4, <1>5 DEF pad

\* What a read takes.
LEMMA FewerFacts ==
  ASSUME NEW a \in Nat, NEW b \in Int, Fewer(a, b) > 0
  PROVE  Fewer(a, b) \in Nat /\ Fewer(a, b) <= a /\ Fewer(a, b) <= b
  BY DEF Fewer

-----------------------------------------------------------------------------
(* Items are runs of the stream.                                           *)

Parts == {"greeting", "start", "length", "header", "data"}

StreamCell == [part : Parts, packet : 0 .. MaxPackets]

\* The variables of the server and of listen() keep their types, and a start
\* code is that of a packet that was sent.
StreamInv ==
  /\ stream \in Seq(StreamCell)
  /\ packets \in Seq(Packet) /\ Len(packets) <= MaxPackets
  /\ peer \in BOOLEAN
  /\ taken \in Nat /\ arrived \in Nat
  /\ taken <= arrived /\ arrived <= Len(stream)
  /\ \A k \in 1 .. Len(stream) :
       stream[k].part = "start" => stream[k].packet \in 1 .. Len(packets)

\* The cells before the packet that is being read.
BeginOf(item, to) == IF item = <<>> THEN to ELSE item[1] - 1

Begun == BeginOf(got, taken)

\* The last cells before the place to.
InRow(item, to) ==
  /\ Len(item) <= to
  /\ \A j \in 1 .. Len(item) : item[j] = to - Len(item) + j

\* A start code and a header of which r cells were read, and the data behind it
\* as far as the stream was taken.
ReadTo(item, r, to) ==
  /\ PrefixLen + HeaderLen <= Len(item)
  /\ IsRun(item, r)
  /\ to = item[1] + (Len(item) - 1) - (HeaderLen - r)

\* What was read of the current packet is what the stream has behind Begun.
GotInv ==
  /\ Begun <= taken
  /\ lpc \in {"greeting", "name"} => got = <<>>
  /\ lpc = "prefix" => /\ need > 0 /\ Len(got) + need = PrefixLen
                       /\ InRow(got, taken)
  /\ lpc = "header" => /\ need = HeaderLen /\ Len(got) = PrefixLen
                       /\ InRow(got, taken)
                       /\ stream[got[1]].part = "start"
  /\ lpc \in {"data", "push"} => /\ got[1] \in 1 .. taken
                                 /\ stream[got[1]].part = "start"
                                 /\ \E r \in 0 .. HeaderLen : ReadTo(got, r, taken)

\* No item reaches into the packet that is being read.
QueuedBefore ==
  \A q \in 1 .. Len(queued) : \A j \in 1 .. Len(queued[q]) : queued[q][j] <= Begun

\* The invariant.  When the process has ended its variables mean nothing any
\* more, but the queue is as it was.
ListenInv ==
  /\ StreamInv
  /\ lpc \in {"greeting", "name", "prefix", "header", "data", "push",
              "closed", "gone"}
  /\ got \in Seq(Nat) /\ need \in Nat
  /\ queued \in Seq(Seq(Nat)) /\ (\A q \in 1 .. Len(queued) : queued[q] # <<>>)
  /\ inStep \in BOOLEAN /\ died \in BOOLEAN
  /\ QueuedIsOneRun
  /\ ~died => GotInv /\ QueuedBefore

\* c is a with b behind it.
Joined(a, b, c, S) ==
  /\ c \in Seq(S) /\ Len(c) = Len(a) + Len(b)
  /\ \A k \in 1 .. Len(a) : c[k] = a[k]
  /\ \A k \in Len(a) + 1 .. Len(a) + Len(b) :
       c[k] = b[k - Len(a)] /\ k - Len(a) \in 1 .. Len(b)

\* Two sequences put together.
LEMMA JoinFacts == ASSUME NEW S, NEW a \in Seq(S), NEW b \in Seq(S)
                   PROVE  Joined(a, b, a \o b, S)
<1>1. Len(a) \in Nat /\ Len(b) \in Nat BY LenProperties
<1>2. a \o b \in Seq(S) /\ Len(a \o b) = Len(a) + Len(b) BY ConcatProperties
<1>3. \A k \in 1 .. Len(a) + Len(b) :
        (a \o b)[k] = IF k <= Len(a) THEN a[k] ELSE b[k - Len(a)]
  BY ConcatProperties
<1>4. QED BY <1>1, <1>2, <1>3 DEF Joined

\* The cells of a packet.
LEMMA CellsFacts ==
  ASSUME PortAssumption, NEW packet \in Packet, NEW p \in 1 .. MaxPackets
  PROVE  /\ Cells(packet, p) \in Seq(StreamCell)
         /\ packet.data \in Nat
         /\ Len(Cells(packet, p)) = PrefixLen + HeaderLen + packet.data
         /\ \A k \in 1 .. Len(Cells(packet, p)) :
              /\ Cells(packet, p)[k].packet = p
              /\ Cells(packet, p)[k].part = "start" <=> k = 1
<1> DEFINE prefix == <<Cell("start", p), Cell("length", p)>>
           header == [k \in 1 .. HeaderLen |-> Cell("header", p)]
           data == [k \in 1 .. packet.data |-> Cell("data", p)]
           all == (prefix \o header) \o data
<1>1. HeaderLen \in Nat /\ packet.data \in Nat
  BY DEF PortAssumption, Packet
<1>2. \A part \in Parts : /\ Cell(part, p) \in StreamCell
                          /\ Cell(part, p).packet = p /\ Cell(part, p).part = part
  <2>1. p \in 0 .. MaxPackets BY DEF PortAssumption
  <2>2. QED BY <2>1 DEF Cell, StreamCell
<1>3. /\ prefix \in Seq(StreamCell) /\ Len(prefix) = 2
      /\ \A k \in 1 .. 2 : prefix[k].packet = p /\ (prefix[k].part = "start" <=> k = 1)
  BY <1>2 DEF Parts
<1>4. /\ header \in Seq(StreamCell) /\ Len(header) = HeaderLen
      /\ \A k \in 1 .. HeaderLen : header[k].packet = p /\ header[k].part # "start"
  <2>1. header \in [1 .. HeaderLen -> StreamCell] BY <1>2 DEF Parts
  <2>2. \A k \in 1 .. HeaderLen : header[k].packet = p /\ header[k].part # "start"
    BY <1>2 DEF Parts
  <2> HIDE DEF header
  <2>3. header \in Seq(StreamCell) BY <1>1, <2>1, IsASeq
  <2>4. QED BY <1>1, <2>1, <2>2, <2>3, LenProperties
<1>5. /\ data \in Seq(StreamCell) /\ Len(data) = packet.data
      /\ \A k \in 1 .. packet.data : data[k].packet = p /\ data[k].part # "start"
  <2>1. data \in [1 .. packet.data -> StreamCell] BY <1>2 DEF Parts
  <2>2. \A k \in 1 .. packet.data : data[k].packet = p /\ data[k].part # "start"
    BY <1>2 DEF Parts
  <2> HIDE DEF data
  <2>3. data \in Seq(StreamCell) BY <1>1, <2>1, IsASeq
  <2>4. QED BY <1>1, <2>1, <2>2, <2>3, LenProperties
<1>6. Cells(packet, p) = all BY DEF Cells
<1> HIDE DEF prefix, header, data
<1>7. /\ prefix \o header \in Seq(StreamCell)
      /\ Len(prefix \o header) = 2 + HeaderLen
      /\ \A k \in 1 .. 2 : (prefix \o header)[k] = prefix[k]
      /\ \A k \in 2 + 1 .. 2 + HeaderLen :
           (prefix \o header)[k] = header[k - 2] /\ k - 2 \in 1 .. HeaderLen
  <2>1. Len(prefix) = 2 /\ Len(header) = HeaderLen BY <1>3, <1>4
  <2>2. prefix \in Seq(StreamCell) /\ header \in Seq(StreamCell) BY <1>3, <1>4
  <2>3. Joined(prefix, header, prefix \o header, StreamCell) BY <2>2, JoinFacts
  <2>4. QED BY <2>1, <2>3 DEF Joined
<1> DEFINE front == prefix \o header
<1> HIDE DEF front
<1>8. /\ front \in Seq(StreamCell) /\ Len(front) = 2 + HeaderLen
      /\ \A k \in 1 .. 2 + HeaderLen :
           front[k].packet = p /\ (front[k].part = "start" <=> k = 1)
  <2>1. ASSUME NEW k \in 1 .. 2 + HeaderLen
        PROVE  front[k].packet = p /\ (front[k].part = "start" <=> k = 1)
    <3>1. CASE k \in 1 .. 2 BY <1>3, <1>7, <3>1 DEF front
    <3>2. CASE k \in 2 + 1 .. 2 + HeaderLen BY <1>4, <1>7, <3>2 DEF front
    <3>3. QED BY <1>1, <3>1, <3>2
  <2>2. QED BY <1>7, <2>1 DEF front
<1>9. /\ front \o data \in Seq(StreamCell)
      /\ Len(front \o data) = 2 + HeaderLen + packet.data
      /\ \A k \in 1 .. 2 + HeaderLen : (front \o data)[k] = front[k]
      /\ \A k \in 2 + HeaderLen + 1 .. 2 + HeaderLen + packet.data :
           /\ (front \o data)[k] = data[k - (2 + HeaderLen)]
           /\ k - (2 + HeaderLen) \in 1 .. packet.data
  <2>1. Len(front) = 2 + HeaderLen /\ Len(data) = packet.data BY <1>5, <1>8
  <2>2. front \in Seq(StreamCell) /\ data \in Seq(StreamCell) BY <1>5, <1>8
  <2>3. Joined(front, data, front \o data, StreamCell) BY <2>2, JoinFacts
  <2>4. QED BY <2>1, <2>3 DEF Joined
<1>10. ASSUME NEW k \in 1 .. 2 + HeaderLen + packet.data
       PROVE  /\ (front \o data)[k].packet = p
              /\ (front \o data)[k].part = "start" <=> k = 1
  <2>1. CASE k \in 1 .. 2 + HeaderLen BY <1>8, <1>9, <2>1
  <2>2. CASE k \in 2 + HeaderLen + 1 .. 2 + HeaderLen + packet.data
    BY <1>1, <1>5, <1>9, <2>2
  <2>3. k \in 1 .. 2 + HeaderLen \/ k \in 2 + HeaderLen + 1 .. 2 + HeaderLen + packet.data
    BY <1>1
  <2>4. QED BY <2>1, <2>2, <2>3
<1>11. QED BY <1>1, <1>6, <1>9, <1>10 DEF front, PrefixLen

\* listen() is done with a packet or a name: the next one begins where it is.
LEMMA NextPacketGot ==
  ASSUME NextPacket, taken' \in Nat
  PROVE  GotInv' /\ Begun' = taken' /\ got' \in Seq(Nat) /\ need' \in Nat
<1>1. got' = <<>> /\ Len(got') = 0 /\ lpc' = "prefix" /\ need' = PrefixLen
  BY DEF NextPacket
<1>2. Begun' = taken' BY <1>1 DEF Begun, BeginOf
<1>3. QED BY <1>1, <1>2 DEF GotInv, InRow, PrefixLen

\* What is queued was taken before the packet that is being read.
LEMMA QueuedTaken ==
  ASSUME ListenInv, ~died
  PROVE  \A q \in 1 .. Len(queued) : queued[q][1] \in 1 .. taken
<1>1. GotInv /\ QueuedBefore /\ StreamInv /\ QueuedIsOneRun BY DEF ListenInv
<1>2. taken \in Nat /\ Len(stream) \in Nat
  BY <1>1, LenProperties DEF StreamInv
<1>3. Begun \in Int /\ Begun <= taken
  BY <1>1, <1>2, ElementOfSeq, EmptySeq, LenProperties
  DEF ListenInv, Begun, BeginOf, GotInv
<1>4. ASSUME NEW q \in 1 .. Len(queued) PROVE queued[q][1] \in 1 .. taken
  <2>1. queued[q] \in Seq(Nat) /\ queued[q] # <<>> BY DEF ListenInv
  <2>2. 1 \in 1 .. Len(queued[q]) BY <2>1, EmptySeq, LenProperties
  <2>3. queued[q][1] <= Begun /\ queued[q][1] \in 1 .. Len(stream)
    BY <1>1, <2>2 DEF QueuedBefore, QueuedIsOneRun
  <2>4. QED BY <1>2, <1>3, <2>3
<1>5. QED BY <1>4

\* The server and the network only add to what has arrived.
LEMMA StreamKeeps ==
  ASSUME ListenInv, ~died, StreamInv', arrived <= arrived',
         \A k \in 1 .. arrived : stream'[k] = stream[k],
         UNCHANGED <<taken, lpc, got, need, queued, inStep>>, died' \in BOOLEAN
  PROVE  ListenInv'
<1>1. GotInv /\ QueuedBefore /\ StreamInv /\ QueuedIsOneRun BY DEF ListenInv
<1>2. /\ taken \in Nat /\ arrived \in Nat /\ arrived' \in Nat
      /\ taken <= arrived /\ arrived' <= Len(stream')
      /\ Len(stream) \in Nat /\ Len(stream') \in Nat
  <2>1. Len(stream) \in Nat BY <1>1, LenProperties DEF StreamInv
  <2>2. Len(stream') \in Nat BY LenProperties DEF StreamInv
  <2>3. QED BY <1>1, <2>1, <2>2 DEF StreamInv
<1>3. Begun' = Begun BY DEF Begun, BeginOf
<1>4. QueuedBefore' BY <1>1, <1>3 DEF QueuedBefore
<1>5. \A k \in 1 .. taken : stream'[k] = stream[k] BY <1>2
<1>6. GotInv'
  <2>1. ASSUME lpc = "header" PROVE got[1] \in 1 .. taken
    <3>1. Len(got) = 2 /\ 2 <= taken BY <1>1, <2>1 DEF GotInv, InRow, PrefixLen
    <3>2. got[1] = taken - Len(got) + 1 BY <1>1, <2>1, <3>1 DEF GotInv, InRow
    <3>3. QED BY <1>2, <3>1, <3>2
  <2>2. \A r, to : ReadTo(got, r, to)' <=> ReadTo(got, r, to)
    BY DEF ReadTo, IsRun
  <2>3. QED BY <1>1, <1>3, <1>5, <2>1, <2>2 DEF GotInv
<1>7. QueuedIsOneRun'
  <2>1. ASSUME NEW q \in 1 .. Len(queued)
        PROVE  /\ queued[q][1] \in 1 .. Len(stream')
               /\ stream'[queued[q][1]] = stream[queued[q][1]]
    <3>1. queued[q][1] \in 1 .. taken /\ queued[q][1] \in 1 .. Len(stream)
      BY <1>1, QueuedTaken DEF QueuedIsOneRun
    <3>2. QED BY <1>2, <1>5, <3>1
  <2>2. \A item, r : IsRun(item, r)' <=> IsRun(item, r) BY DEF IsRun
  <2>3. QED BY <1>1, <2>1, <2>2 DEF QueuedIsOneRun
<1>8. QED BY <1>4, <1>6, <1>7 DEF ListenInv

\* A step of listen() that queues nothing, moves on in what has arrived and
\* does not go back behind the packet it reads.
LEMMA ReadKeeps ==
  ASSUME ListenInv, ~died, UNCHANGED <<netVars, queued>>,
         taken' \in Nat, taken' <= arrived,
         lpc' \in {"greeting", "name", "prefix", "header", "data", "push",
                   "closed", "gone"},
         got' \in Seq(Nat), need' \in Nat, inStep' \in BOOLEAN, died' \in BOOLEAN,
         ~died' => GotInv' /\ Begun <= Begun' /\ Begun' \in Int
  PROVE  ListenInv'
<1>1. QueuedBefore /\ StreamInv /\ QueuedIsOneRun BY DEF ListenInv
<1>2. /\ stream' = stream /\ packets' = packets /\ arrived' = arrived
      /\ peer' = peer /\ queued' = queued
  BY DEF netVars
<1>3. StreamInv' BY <1>1, <1>2 DEF StreamInv
<1>4. QueuedIsOneRun' BY <1>1, <1>2 DEF QueuedIsOneRun, IsRun
<1>5. ASSUME ~died' PROVE QueuedBefore'
  <2>1. Begun <= Begun' /\ Begun' \in Int BY <1>5
  <2>2. Begun \in Int
    BY <1>1, ElementOfSeq, EmptySeq, LenProperties DEF ListenInv, Begun, BeginOf, StreamInv
  <2>3. ASSUME NEW q \in 1 .. Len(queued), NEW j \in 1 .. Len(queued[q])
        PROVE  queued[q][j] <= Begun'
    <3>1. queued[q][j] \in Nat BY ElementOfSeq DEF ListenInv
    <3>2. queued[q][j] <= Begun BY <1>1 DEF QueuedBefore
    <3>3. QED BY <2>1, <2>2, <3>1, <3>2
  <2>4. QED BY <1>2, <2>3 DEF QueuedBefore
<1>6. QED BY <1>2, <1>3, <1>4, <1>5 DEF ListenInv

\* Steps of the router, of other threads and stutters leave listen() alone.
LEMMA ListenKept ==
  ASSUME ListenInv, ~died, died' \in BOOLEAN,
         UNCHANGED <<stream, packets, arrived, peer, taken, lpc, got, need, queued,
                     inStep>>
  PROVE  ListenInv'
<1>1. stream' = stream /\ arrived' = arrived /\ packets' = packets /\ peer' = peer
  OBVIOUS
<1>2. StreamInv' BY <1>1 DEF ListenInv, StreamInv
<1>3. arrived <= arrived' BY <1>1 DEF ListenInv, StreamInv
<1>4. QED BY <1>1, <1>2, <1>3, StreamKeeps

\* The state of a new port.
LEMMA ListenInvStarts == ASSUME PortAssumption, Init PROVE ListenInv
<1> DEFINE greeting == [k \in 1 .. GreetingLen |-> Cell("greeting", 0)]
<1>1. GreetingLen \in Nat BY DEF PortAssumption
<1>2. Cell("greeting", 0) \in StreamCell /\ Cell("greeting", 0).part = "greeting"
  BY DEF PortAssumption, Cell, StreamCell, Parts
<1>3. greeting \in [1 .. GreetingLen -> StreamCell] BY <1>2
<1>4. \A k \in 1 .. GreetingLen : greeting[k].part = "greeting" BY <1>2
<1> HIDE DEF greeting
<1>5. greeting \in Seq(StreamCell) BY <1>1, <1>3, IsASeq
<1>6. Len(greeting) = GreetingLen BY <1>1, <1>3, <1>5, LenProperties
<1>7. stream = greeting BY DEF Init, greeting
<1>8. /\ packets = <<>> /\ arrived = 0 /\ taken = 0 /\ peer = TRUE
      /\ lpc = "greeting" /\ got = <<>> /\ need = 0
      /\ queued = <<>> /\ inStep = TRUE /\ died = FALSE
  BY DEF Init
<1>9. StreamInv
  BY <1>1, <1>4, <1>5, <1>6, <1>7, <1>8 DEF StreamInv, PortAssumption
<1>10. GotInv /\ QueuedBefore /\ QueuedIsOneRun
  BY <1>8 DEF GotInv, QueuedBefore, QueuedIsOneRun, Begun, BeginOf
<1>11. got \in Seq(Nat) /\ queued \in Seq(Seq(Nat)) /\ Len(queued) = 0
  <2>1. <<>> \in Seq(Nat) /\ <<>> \in Seq(Seq(Nat)) BY EmptySeq
  <2>2. QED BY <1>8, <2>1, EmptySeq
<1>12. \A q \in 1 .. Len(queued) : queued[q] # <<>> BY <1>11
<1>13. QED BY <1>8, <1>9, <1>10, <1>11, <1>12 DEF ListenInv

\* A packet is put behind the stream.
LEMMA ServerSendsListen ==
  ASSUME PortAssumption, ListenInv, ~died, NEW packet \in Packet,
         ServerSends(packet)
  PROVE  ListenInv'
<1> DEFINE p == Len(packets) + 1
           more == Cells(packet, p)
<1>1. StreamInv BY DEF ListenInv
<1>2. /\ stream' = stream \o more /\ packets' = Append(packets, packet)
      /\ arrived' = arrived /\ peer' = peer /\ died' = died
      /\ UNCHANGED <<taken, lpc, got, need, queued, inStep>>
      /\ Len(packets) < MaxPackets
  BY DEF ServerSends, listenVars
<1>3. Len(packets) \in Nat /\ MaxPackets \in Nat /\ p \in 1 .. MaxPackets
  BY <1>1, <1>2, LenProperties DEF StreamInv, PortAssumption
<1>4. /\ more \in Seq(StreamCell)
      /\ \A k \in 1 .. Len(more) : more[k].packet = p
  BY <1>3, CellsFacts
<1> HIDE DEF more
<1>5. Joined(stream, more, stream', StreamCell)
  BY <1>1, <1>2, <1>4, JoinFacts DEF StreamInv
<1>6. Len(stream) \in Nat /\ Len(more) \in Nat
  BY <1>1, <1>4, LenProperties DEF StreamInv
<1>7. packets' \in Seq(Packet) /\ Len(packets') = p
  BY <1>1, <1>2, AppendProperties DEF StreamInv
<1>8. ASSUME NEW k \in 1 .. Len(stream'), stream'[k].part = "start"
      PROVE  stream'[k].packet \in 1 .. Len(packets')
  <2>1. CASE k \in 1 .. Len(stream)
    <3>1. stream[k].packet \in 1 .. Len(packets)
      BY <1>1, <1>5, <1>8, <2>1 DEF StreamInv, Joined
    <3>2. QED BY <1>3, <1>5, <1>7, <2>1, <3>1 DEF Joined
  <2>2. CASE k \in Len(stream) + 1 .. Len(stream) + Len(more)
    <3>1. stream'[k] = more[k - Len(stream)] /\ k - Len(stream) \in 1 .. Len(more)
      BY <1>5, <2>2 DEF Joined
    <3>2. QED BY <1>3, <1>4, <1>7, <3>1
  <2>3. QED BY <1>5, <1>6, <2>1, <2>2 DEF Joined
<1>9. StreamInv'
  <2>1. stream' \in Seq(StreamCell) /\ Len(stream') = Len(stream) + Len(more)
    BY <1>5 DEF Joined
  <2>2. arrived <= Len(stream') BY <1>1, <1>6, <2>1 DEF StreamInv
  <2>3. Len(packets') <= MaxPackets BY <1>3, <1>7
  <2>4. QED BY <1>1, <1>2, <1>7, <1>8, <2>1, <2>2, <2>3 DEF StreamInv
<1>10. \A k \in 1 .. arrived : stream'[k] = stream[k]
  BY <1>1, <1>5, <1>6 DEF StreamInv, Joined
<1>11. arrived <= arrived' BY <1>1, <1>2 DEF StreamInv
<1>12. died' \in BOOLEAN BY <1>2 DEF ListenInv
<1>13. QED BY <1>2, <1>9, <1>10, <1>11, <1>12, StreamKeeps

\* Cells arrive.
LEMMA ArriveListen ==
  ASSUME ListenInv, ~died, NEW n \in Nat, Arrive(n)
  PROVE  ListenInv'
<1>1. /\ arrived' = n /\ n \in arrived + 1 .. Len(stream)
      /\ UNCHANGED <<stream, packets, peer, died>>
      /\ UNCHANGED <<taken, lpc, got, need, queued, inStep>>
  BY DEF Arrive, listenVars
<1>2. StreamInv BY DEF ListenInv
<1>3. taken \in Nat /\ arrived \in Nat /\ taken <= arrived BY <1>2 DEF StreamInv
<1>4. taken <= n /\ arrived <= n /\ n <= Len(stream) BY <1>1, <1>3
<1>5. StreamInv' BY <1>1, <1>2, <1>4 DEF StreamInv
<1>6. died' \in BOOLEAN BY <1>1 DEF ListenInv
<1>7. QED BY <1>1, <1>4, <1>5, <1>6, StreamKeeps

\* The server closes; the rest of its stream is lost.
LEMMA ServerClosesListen ==
  ASSUME ListenInv, ~died, NEW n \in Nat, ServerCloses(n)
  PROVE  ListenInv'
<1>1. /\ n \in arrived .. Len(stream) /\ stream' = SubSeq(stream, 1, n)
      /\ peer' = FALSE
      /\ UNCHANGED <<packets, arrived, died>>
      /\ UNCHANGED <<taken, lpc, got, need, queued, inStep>>
  BY DEF ServerCloses, listenVars
<1>2. StreamInv BY DEF ListenInv
<1>3. /\ arrived \in Nat /\ arrived <= n /\ n <= Len(stream)
      /\ Len(stream) \in Nat /\ stream \in Seq(StreamCell)
  BY <1>1, <1>2, LenProperties DEF StreamInv
<1>4. /\ stream' \in Seq(StreamCell) /\ Len(stream') = n
      /\ \A k \in 1 .. n : stream'[k] = stream[k]
  <2>1. \A k \in 1 .. n : k \in 1 .. Len(stream) BY <1>3
  <2>2. QED BY <1>1, <1>3, <2>1, SubSeqProperties
<1>5. StreamInv'
  <2>1. \A k \in 1 .. n : k \in 1 .. Len(stream) BY <1>3
  <2>2. QED BY <1>1, <1>2, <1>3, <1>4, <2>1 DEF StreamInv
<1>6. \A k \in 1 .. arrived : stream'[k] = stream[k] BY <1>3, <1>4
<1>7. arrived <= arrived' BY <1>1, <1>3
<1>8. died' \in BOOLEAN BY <1>1 DEF ListenInv
<1>9. QED BY <1>1, <1>5, <1>6, <1>7, <1>8, StreamKeeps

\* A read adds to the row it goes on with.
LEMMA RowOn ==
  ASSUME NEW item \in Seq(Nat), NEW to \in Nat, InRow(item, to), NEW r \in Nat
  PROVE  LET on == item \o Positions(to, r)
         IN  on \in Seq(Nat) /\ Len(on) = Len(item) + r /\ InRow(on, to + r)
<1> DEFINE on == item \o Positions(to, r)
<1>1. /\ on \in Seq(Nat) /\ Len(on) = Len(item) + r
      /\ \A j \in 1 .. Len(item) : on[j] = item[j]
      /\ \A j \in Len(item) + 1 .. Len(item) + r : on[j] = to + (j - Len(item))
  BY ReadOn
<1> HIDE DEF on
<1>2. Len(item) \in Nat BY LenProperties
<1>3. ASSUME NEW j \in 1 .. Len(item) + r
      PROVE  on[j] = (to + r) - (Len(item) + r) + j
  <2>1. CASE j \in 1 .. Len(item)
    <3>1. on[j] = to - Len(item) + j BY <1>1, <2>1 DEF InRow
    <3>2. QED BY <1>2, <3>1
  <2>2. CASE j \in Len(item) + 1 .. Len(item) + r
    BY <1>1, <1>2, <2>2
  <2>3. QED BY <1>2, <2>1, <2>2
<1>4. InRow(on, to + r) BY <1>1, <1>2, <1>3 DEF InRow
<1>5. QED BY <1>1, <1>4 DEF on

\* Where a row begins.
LEMMA RowBegun ==
  ASSUME NEW item \in Seq(Nat), NEW to \in Nat, InRow(item, to)
  PROVE  BeginOf(item, to) = to - Len(item)
<1>1. Len(item) \in Nat /\ (item = <<>> <=> Len(item) = 0)
  BY LenProperties, EmptySeq
<1>2. CASE item = <<>> BY <1>1, <1>2 DEF BeginOf
<1>3. CASE item # <<>>
  <2>1. item[1] = to - Len(item) + 1 BY <1>1, <1>3 DEF InRow
  <2>2. QED BY <1>1, <1>3, <2>1 DEF BeginOf
<1>4. QED BY <1>2, <1>3

\* What has arrived and was not taken.
LEMMA ArrivedFacts ==
  ASSUME StreamInv
  PROVE  /\ taken \in Nat /\ arrived \in Nat /\ Len(stream) \in Nat
         /\ taken <= arrived /\ arrived <= Len(stream)
         /\ Arrived \in Nat /\ taken + Arrived = arrived
<1>1. Len(stream) \in Nat BY LenProperties DEF StreamInv
<1>2. QED BY <1>1 DEF StreamInv, Arrived

\* The first read takes what is there.
LEMMA ReadGreetingListen ==
  ASSUME ListenInv, ~died, ReadGreeting
  PROVE  ListenInv'
<1>1. /\ taken' = arrived /\ lpc' = "name" /\ inStep' \in BOOLEAN
      /\ UNCHANGED <<netVars, got, need, queued, died>> /\ lpc = "greeting"
  BY DEF ReadGreeting
<1>2. taken' \in Nat /\ taken <= taken' /\ taken \in Nat
  BY <1>1, ArrivedFacts DEF ListenInv
<1>3. got = <<>> BY <1>1 DEF ListenInv, GotInv
<1>4. Begun = taken /\ Begun' = taken' BY <1>1, <1>3 DEF Begun, BeginOf
<1>5. GotInv' BY <1>1, <1>2, <1>3, <1>4 DEF GotInv
<1>6. taken' <= arrived BY <1>1, <1>2
<1>7. QED BY <1>1, <1>2, <1>4, <1>5, <1>6, ReadKeeps DEF ListenInv

\* The first packet begins.
LEMMA SendNameListen ==
  ASSUME ListenInv, ~died, SendName
  PROVE  ListenInv'
<1>1. /\ NextPacket /\ lpc = "name" /\ died' \in BOOLEAN
      /\ UNCHANGED <<netVars, taken, queued, inStep>>
  BY DEF SendName
<1>2. taken \in Nat /\ taken <= arrived BY ArrivedFacts DEF ListenInv
<1>3. Begun = taken BY <1>1 DEF ListenInv, GotInv, Begun, BeginOf
<1>4. /\ GotInv' /\ Begun' = taken' /\ got' \in Seq(Nat) /\ need' \in Nat
  BY <1>1, <1>2, NextPacketGot
<1>5. lpc' = "prefix" BY <1>1 DEF NextPacket
<1>6. QED BY <1>1, <1>2, <1>3, <1>4, <1>5, ReadKeeps DEF ListenInv

\* The cells of a start code and a length, or what is skipped for them.
LEMMA PrefixGot ==
  ASSUME PortAssumption, ListenInv, ~died, ReadPrefix
  PROVE  /\ lpc = "prefix"
         /\ UNCHANGED <<netVars, queued, inStep, died>>
         /\ taken' \in Nat /\ taken' <= arrived
         /\ Begun \in Nat /\ Begun' \in Nat /\ Begun <= Begun'
         /\ GotInv' /\ got' \in Seq(Nat) /\ need' \in Nat
         /\ \/ lpc' = "prefix" /\ Begun' = Begun
            \/ lpc' = "header" /\ Begun' = Begun /\ Begun + 1 <= taken'
            \/ /\ lpc' = "prefix" /\ Begun + 1 <= taken'
               /\ stream[Begun + 1].part # "start"
<1> DEFINE r == Fewer(need, Arrived)
           prefix == got \o Positions(taken, r)
<1>1. /\ lpc = "prefix" /\ r > 0 /\ taken' = taken + r
      /\ UNCHANGED <<netVars, queued, inStep, died>>
  BY DEF ReadPrefix
<1>2. \/ /\ r < need /\ got' = prefix /\ need' = need - r /\ UNCHANGED lpc
      \/ /\ r = need /\ stream[prefix[1]].part = "start"
         /\ got' = prefix /\ need' = HeaderLen /\ lpc' = "header"
      \/ r = need /\ stream[prefix[1]].part # "start" /\ NextPacket
  BY DEF ReadPrefix
<1>3. /\ got \in Seq(Nat) /\ need \in Nat
      /\ InRow(got, taken) /\ Len(got) + need = PrefixLen
  BY <1>1 DEF ListenInv, GotInv
<1>4. taken \in Nat /\ arrived \in Nat /\ Arrived \in Nat /\ taken + Arrived = arrived
  BY ArrivedFacts DEF ListenInv
<1>5. r \in Nat /\ r <= need /\ r <= Arrived BY <1>1, <1>3, <1>4, FewerFacts
<1>6. taken' \in Nat /\ taken' <= arrived BY <1>1, <1>4, <1>5
<1>7. Begun = taken - Len(got) /\ Len(got) \in Nat /\ Begun \in Nat
  BY <1>3, <1>4, RowBegun, LenProperties DEF Begun, InRow
<1>8. /\ prefix \in Seq(Nat) /\ Len(prefix) = Len(got) + r
      /\ InRow(prefix, taken + r)
  BY <1>3, <1>4, <1>5, RowOn
<1> HIDE DEF r, prefix
<1>9. Begun + 1 <= taken' BY <1>1, <1>4, <1>5, <1>7
<1>10. CASE r < need /\ got' = prefix /\ need' = need - r /\ UNCHANGED lpc
  <2>1. /\ got' \in Seq(Nat) /\ Len(got') = Len(got) + r /\ InRow(got', taken')
    BY <1>1, <1>8, <1>10
  <2>2. need' \in Nat /\ need' > 0 /\ Len(got') + need' = PrefixLen
    BY <1>3, <1>5, <1>7, <1>10, <2>1
  <2>3. Begun' = taken' - Len(got') BY <1>6, <2>1, RowBegun DEF Begun
  <2>4. Begun' = Begun BY <1>1, <1>4, <1>5, <1>7, <2>1, <2>3
  <2>5. Begun' <= taken' BY <1>1, <1>4, <1>5, <1>7, <2>4
  <2>6. InRow(got, taken)' BY <2>1 DEF InRow
  <2>7. GotInv' BY <1>1, <1>10, <2>2, <2>5, <2>6 DEF GotInv
  <2>8. Begun <= Begun' BY <1>7, <2>4
  <2>9. QED BY <1>1, <1>6, <1>7, <1>10, <2>1, <2>2, <2>4, <2>7, <2>8
<1>11. CASE /\ r = need /\ stream[prefix[1]].part = "start"
            /\ got' = prefix /\ need' = HeaderLen /\ lpc' = "header"
  <2>1. /\ got' \in Seq(Nat) /\ Len(got') = PrefixLen /\ InRow(got', taken')
    BY <1>1, <1>3, <1>8, <1>11
  <2>2. Begun' = taken' - Len(got') BY <1>6, <2>1, RowBegun DEF Begun
  <2>3. Begun' = Begun
    BY <1>1, <1>3, <1>4, <1>5, <1>7, <1>11, <2>1, <2>2
  <2>4. Begun' <= taken' BY <1>1, <1>4, <1>5, <1>7, <2>3
  <2>5. stream'[got'[1]].part = "start" BY <1>1, <1>11 DEF netVars
  <2>6. InRow(got, taken)' BY <2>1 DEF InRow
  <2>7. GotInv' BY <1>11, <2>1, <2>4, <2>5, <2>6 DEF GotInv
  <2>8. need' \in Nat BY <1>11 DEF PortAssumption
  <2>9. Begun <= Begun' BY <1>7, <2>3
  <2>10. QED BY <1>1, <1>6, <1>7, <1>9, <1>11, <2>1, <2>3, <2>7, <2>8, <2>9
<1>12. CASE r = need /\ stream[prefix[1]].part # "start" /\ NextPacket
  <2>1. /\ GotInv' /\ Begun' = taken' /\ got' \in Seq(Nat) /\ need' \in Nat
    BY <1>6, <1>12, NextPacketGot
  <2>2. Begun <= Begun' /\ Begun' \in Nat BY <1>6, <1>7, <1>9, <2>1
  <2>3. lpc' = "prefix" BY <1>12 DEF NextPacket
  <2>4. prefix[1] = Begun + 1
    <3>1. Len(got) + r = 2 BY <1>3, <1>12 DEF PrefixLen
    <3>2. Len(prefix) = 2 BY ONLY <1>8, <3>1
    <3>3. prefix[1] = (taken + r) - 2 + 1
      <4>1. \A j \in 1 .. Len(prefix) : prefix[j] = (taken + r) - Len(prefix) + j
        BY ONLY <1>8 DEF InRow
      <4>2. 1 \in 1 .. Len(prefix) BY ONLY <3>2
      <4>3. QED BY ONLY <3>2, <4>1, <4>2
    <3>4. taken \in Nat /\ r \in Nat /\ Len(got) \in Nat BY <1>4, <1>5, <1>7
    <3>5. (taken + r) - 2 + 1 = taken - Len(got) + 1 BY ONLY <3>1, <3>4
    <3>6. QED BY ONLY <1>7, <3>3, <3>5
  <2>5. QED BY <1>1, <1>6, <1>7, <1>9, <1>12, <2>1, <2>2, <2>3, <2>4
<1>13. QED BY <1>2, <1>10, <1>11, <1>12 DEF r, prefix

\* It queues nothing.
LEMMA ReadPrefixListen ==
  ASSUME PortAssumption, ListenInv, ~died, ReadPrefix
  PROVE  ListenInv'
<1>1. inStep' \in BOOLEAN /\ died' \in BOOLEAN BY PrefixGot DEF ListenInv
<1>2. Begun' \in Int BY PrefixGot
<1>3. lpc' \in {"prefix", "header"} BY PrefixGot
<1>4. QED BY <1>1, <1>2, <1>3, PrefixGot, ReadKeeps

\* A header of which r cells were read, and the padding behind them, is the
\* beginning of an item.
LEMMA HeaderIsRun ==
  ASSUME PortAssumption, NEW item \in Seq(Nat), Len(item) = PrefixLen,
         NEW to \in Nat, InRow(item, to), NEW r \in 0 .. HeaderLen
  PROVE  LET all == item \o Positions(to, r) \o [k \in 1 .. HeaderLen - r |-> Garbage]
         IN  /\ all \in Seq(Nat) /\ Len(all) = PrefixLen + HeaderLen
             /\ all[1] = item[1] /\ item[1] = to - 1 /\ item[1] \in 1 .. to
             /\ ReadTo(all, r, to + r)
<1> DEFINE row == item \o Positions(to, r)
           all == row \o [k \in 1 .. HeaderLen - r |-> Garbage]
<1>1. HeaderLen \in Nat /\ r \in Nat /\ HeaderLen - r \in Nat /\ PrefixLen = 2
  BY DEF PortAssumption, PrefixLen
<1>2. row \in Seq(Nat) /\ Len(row) = 2 + r /\ InRow(row, to + r)
  BY <1>1, RowOn
<1> HIDE DEF row
<1>3. /\ all \in Seq(Nat) /\ Len(all) = Len(row) + (HeaderLen - r)
      /\ \A j \in 1 .. Len(row) : all[j] = row[j]
      /\ \A j \in Len(row) + 1 .. Len(row) + (HeaderLen - r) : all[j] = Garbage
  BY <1>1, <1>2, Padded
<1> HIDE DEF all
<1>4. Len(all) = 2 + HeaderLen BY <1>1, <1>2, <1>3
<1>5. \A j \in 1 .. 2 + r : all[j] = to - 2 + j
  <2>1. \A j \in 1 .. 2 + r : row[j] = (to + r) - (2 + r) + j
    BY <1>2 DEF InRow
  <2>2. ASSUME NEW j \in 1 .. 2 + r PROVE all[j] = to - 2 + j
    <3>1. all[j] = row[j] BY ONLY <1>2, <1>3
    <3>2. row[j] = (to + r) - (2 + r) + j BY ONLY <2>1
    <3>3. (to + r) - (2 + r) + j = to - 2 + j BY ONLY <1>1, to \in Nat
    <3>4. QED BY ONLY <3>1, <3>2, <3>3
  <2>3. QED BY <2>2
<1>6. \A j \in 2 + r + 1 .. 2 + HeaderLen : all[j] = Garbage
  BY <1>1, <1>2, <1>3
<1>7. all[1] = to - 1 BY <1>1, <1>5
<1>8. item[1] = to - 1 /\ 2 <= to BY <1>1 DEF InRow
<1>9. ASSUME NEW j \in 1 .. Len(all)
       PROVE  all[j] = IF j <= PrefixLen + r THEN all[1] + (j - 1)
                       ELSE IF j <= PrefixLen + HeaderLen THEN Garbage
                       ELSE all[1] + (j - 1) - (HeaderLen - r)
  <2>1. CASE j \in 1 .. 2 + r BY <1>1, <1>5, <1>7, <2>1
  <2>2. CASE j \in 2 + r + 1 .. 2 + HeaderLen BY <1>1, <1>6, <2>2
  <2>3. QED BY <1>1, <1>4, <2>1, <2>2
<1>10. IsRun(all, r) BY <1>9 DEF IsRun
<1>11. to + r = all[1] + (Len(all) - 1) - (HeaderLen - r)
  <2>1. to + r = (to - 1) + ((2 + HeaderLen) - 1) - (HeaderLen - r)
    BY ONLY <1>1, to \in Nat
  <2>2. QED BY ONLY <1>4, <1>7, <2>1
<1>12. PrefixLen + HeaderLen <= Len(all) BY ONLY <1>1, <1>4
<1>13. ReadTo(all, r, to + r) BY ONLY <1>12, <1>10, <1>11 DEF ReadTo
<1>14. /\ all \in Seq(Nat) /\ Len(all) = PrefixLen + HeaderLen
       /\ all[1] = item[1] /\ item[1] = to - 1 /\ item[1] \in 1 .. to
  <2>1. item[1] \in 1 .. to BY ONLY <1>8, to \in Nat
  <2>2. QED BY <1>1, <1>3, <1>4, <1>7, <1>8, <2>1
<1>15. QED BY ONLY <1>13, <1>14 DEF all, row

\* Data that is read goes on with the item.
LEMMA DataIsRun ==
  ASSUME PortAssumption, NEW item \in Seq(Nat), NEW r \in 0 .. HeaderLen,
         NEW to \in Nat, ReadTo(item, r, to), NEW n \in Nat
  PROVE  LET on == item \o Positions(to, n)
         IN  /\ on \in Seq(Nat) /\ Len(on) = Len(item) + n /\ on[1] = item[1]
             /\ ReadTo(on, r, to + n)
<1> DEFINE on == item \o Positions(to, n)
<1>1. HeaderLen \in Nat /\ PrefixLen = 2 BY DEF PortAssumption, PrefixLen
<1>2. /\ on \in Seq(Nat) /\ Len(on) = Len(item) + n
      /\ \A j \in 1 .. Len(item) : on[j] = item[j]
      /\ \A j \in Len(item) + 1 .. Len(item) + n : on[j] = to + (j - Len(item))
  BY ONLY item \in Seq(Nat), to \in Nat, n \in Nat, ReadOn
<1> HIDE DEF on
<1>3. Len(item) \in Nat /\ r \in Nat BY <1>1, LenProperties
<1>4. /\ Len(item) \in Nat /\ 2 + HeaderLen <= Len(item)
      /\ to = item[1] + (Len(item) - 1) - (HeaderLen - r)
  BY ONLY <1>1, <1>3, ReadTo(item, r, to) DEF ReadTo
<1>5. 1 \in 1 .. Len(item) BY ONLY <1>1, <1>4
<1>6. item[1] \in Nat /\ on[1] = item[1]
  <2>1. on[1] = item[1] BY ONLY <1>2, <1>5
  <2>2. QED BY ONLY <1>5, <2>1, item \in Seq(Nat), ElementOfSeq
<1>7. PICK f : f = item[1] OBVIOUS
<1>8. /\ f \in Nat /\ on[1] = f
      /\ to = f + (Len(item) - 1) - (HeaderLen - r)
  BY ONLY <1>4, <1>6, <1>7
<1>9. ASSUME NEW j \in 1 .. Len(on)
      PROVE  on[j] = IF j <= PrefixLen + r THEN on[1] + (j - 1)
                     ELSE IF j <= PrefixLen + HeaderLen THEN Garbage
                     ELSE on[1] + (j - 1) - (HeaderLen - r)
  <2>1. CASE j \in 1 .. Len(item)
    BY <1>1, <1>2, <1>6, <2>1 DEF ReadTo, IsRun
  <2>2. CASE j \in Len(item) + 1 .. Len(item) + n
    <3>1. on[j] = to + (j - Len(item)) BY ONLY <1>2, <2>2
    <3>2. j \in Nat /\ Len(item) < j BY ONLY <1>3, <2>2, n \in Nat
    <3>3. to + (j - Len(item)) = f + (j - 1) - (HeaderLen - r)
      BY ONLY <1>1, <1>3, <1>8, <3>2, to \in Nat
    <3>4. ~(j <= 2 + r) /\ ~(j <= 2 + HeaderLen)
      <4>1. r \in 0 .. HeaderLen OBVIOUS
      <4>2. QED BY ONLY <1>1, <1>4, <1>3, <3>2, <4>1
    <3>5. QED BY ONLY <1>1, <1>8, <3>1, <3>3, <3>4
  <2>3. QED BY <1>2, <1>4, <2>1, <2>2
<1>10. to + n = on[1] + (Len(on) - 1) - (HeaderLen - r)
  <2>1. Len(on) = Len(item) + n BY ONLY <1>2
  <2>2. to + n = f + ((Len(item) + n) - 1) - (HeaderLen - r)
    BY ONLY <1>1, <1>3, <1>8, n \in Nat
  <2>3. QED BY ONLY <1>8, <2>1, <2>2
<1>11. 2 + HeaderLen <= Len(on)
  BY ONLY <1>1, <1>2, <1>4, <1>3, n \in Nat
<1>12. QED BY <1>1, <1>2, <1>6, <1>9, <1>10, <1>11 DEF ReadTo, IsRun, on

\* No cell of an item lies behind where the stream was read to.
LEMMA RunEnds ==
  ASSUME PortAssumption, NEW item \in Seq(Nat), NEW r \in 0 .. HeaderLen,
         NEW to \in Nat, ReadTo(item, r, to)
  PROVE  item # <<>> /\ \A j \in 1 .. Len(item) : item[j] <= to
<1>1. HeaderLen \in Nat /\ PrefixLen = 2 BY DEF PortAssumption, PrefixLen
<1>2. /\ Len(item) \in Nat /\ 2 + HeaderLen <= Len(item)
      /\ to = item[1] + (Len(item) - 1) - (HeaderLen - r)
  BY <1>1, LenProperties DEF ReadTo
<1>3. item[1] \in Nat BY <1>1, <1>2, ElementOfSeq
<1>4. PICK f : f = item[1] OBVIOUS
<1>5. PICK l : l = Len(item) OBVIOUS
<1>6. ASSUME NEW j \in 1 .. Len(item) PROVE item[j] <= to
  <2>1. item[j] = IF j <= 2 + r THEN item[1] + (j - 1)
                  ELSE IF j <= 2 + HeaderLen THEN 0
                  ELSE item[1] + (j - 1) - (HeaderLen - r)
    BY <1>1 DEF ReadTo, IsRun, Garbage
  <2>2. f \in Nat /\ l \in Nat /\ 2 + HeaderLen <= l /\ to = f + (l - 1) - (HeaderLen - r)
    BY ONLY <1>2, <1>3, <1>4, <1>5
  <2>3. j \in 1 .. l /\ r \in 0 .. HeaderLen BY <1>5
  <2>4. (j <= 2 + r => f + (j - 1) <= to) /\ 0 <= to /\ f + (j - 1) - (HeaderLen - r) <= to
    BY ONLY <1>1, <2>2, <2>3
  <2>5. QED BY ONLY <1>4, <2>1, <2>4
<1>7. item # <<>> BY <1>1, <1>2, EmptySeq
<1>8. QED BY <1>6, <1>7

\* What the header of the current packet may say.
LEMMA HeaderPacket ==
  ASSUME PortAssumption, ListenInv, ~died, lpc = "header"
  PROVE  /\ Len(got) = PrefixLen /\ InRow(got, taken)
         /\ got[1] = taken - 1 /\ got[1] \in 1 .. taken
         /\ stream[got[1]].part = "start"
         /\ stream[got[1]].packet \in 1 .. Len(packets)
         /\ packets[stream[got[1]].packet].data \in Nat
<1>1. /\ GotInv /\ StreamInv /\ Len(got) = 2
  BY DEF ListenInv, GotInv, PrefixLen
<1>2. /\ taken \in Nat /\ arrived \in Nat /\ Len(stream) \in Nat
      /\ taken <= arrived /\ arrived <= Len(stream)
  BY <1>1, ArrivedFacts
<1>3. InRow(got, taken) /\ stream[got[1]].part = "start" BY <1>1 DEF GotInv
<1>4. got[1] = taken - 1 /\ 2 <= taken BY <1>1, <1>2, <1>3 DEF InRow
<1>5. got[1] \in 1 .. taken /\ got[1] \in 1 .. Len(stream) BY <1>2, <1>4
<1>6. stream[got[1]].packet \in 1 .. Len(packets) BY <1>1, <1>3, <1>5 DEF StreamInv
<1>7. packets[stream[got[1]].packet] \in Packet
  BY <1>1, <1>6, ElementOfSeq DEF StreamInv
<1>8. packets[stream[got[1]].packet].data \in Nat
  BY <1>7 DEF Packet, PortAssumption
<1>9. QED BY <1>1, <1>3, <1>4, <1>5, <1>6, <1>8 DEF PrefixLen

\* A header was read, or taken for one: the packet goes on with d cells.
LEMMA HeaderReadGot ==
  ASSUME PortAssumption, ListenInv, ~died, lpc = "header",
         NEW r \in 0 .. HeaderLen, NEW d \in Nat, HeaderRead(r, d),
         taken' = taken + r, UNCHANGED stream
  PROVE  /\ GotInv' /\ Begun' = Begun /\ Begun \in Int
         /\ got' \in Seq(Nat) /\ need' \in Nat
         /\ lpc' \in {"data", "push"} /\ ReadTo(got', r, taken')
         /\ need' = d /\ (lpc' = "push" => need' = 0)
         /\ Len(got') = PrefixLen + HeaderLen /\ got'[1] = got[1]
<1>1. /\ Len(got) = PrefixLen /\ InRow(got, taken)
      /\ got[1] = taken - 1 /\ got[1] \in 1 .. taken
      /\ stream[got[1]].part = "start"
  BY HeaderPacket
<1>2. got \in Seq(Nat) /\ taken \in Nat BY ArrivedFacts DEF ListenInv
<1>3. HeaderLen \in Nat /\ r \in Nat BY DEF PortAssumption
<1>4. /\ got' = got \o Positions(taken, r) \o [k \in 1 .. HeaderLen - r |-> Garbage]
      /\ need' = d /\ lpc' \in {"data", "push"} /\ (lpc' = "push" => d = 0)
  BY DEF HeaderRead
<1>5. /\ got' \in Seq(Nat) /\ Len(got') = PrefixLen + HeaderLen
      /\ got'[1] = got[1] /\ ReadTo(got', r, taken')
  BY <1>1, <1>2, <1>4, HeaderIsRun
<1>6. got' # <<>> /\ got # <<>>
  <2>1. Len(got') # 0 /\ Len(got) # 0 BY <1>1, <1>3, <1>5 DEF PrefixLen
  <2>2. QED BY ONLY <2>1, EmptySeq
<1>7. Begun' = got[1] - 1 /\ Begun = got[1] - 1 BY <1>5, <1>6 DEF Begun, BeginOf
<1>8. got'[1] \in 1 .. taken' /\ Begun' <= taken' /\ Begun \in Int
  BY <1>1, <1>2, <1>3, <1>5, <1>7
<1>9. stream'[got'[1]].part = "start" BY <1>1, <1>5
<1>10. (\E q \in 0 .. HeaderLen : ReadTo(got, q, taken))'
  <2>1. ReadTo(got, r, taken)' BY <1>5 DEF ReadTo, IsRun
  <2>2. QED BY <2>1
<1>11. GotInv' BY <1>4, <1>8, <1>9, <1>10 DEF GotInv
<1>12. QED BY <1>4, <1>5, <1>7, <1>8, <1>11

\* One read of the header: it queues nothing, whatever it finds.
LEMMA ReadHeaderListen ==
  ASSUME PortAssumption, ListenInv, ~died, ReadHeader
  PROVE  ListenInv'
<1> DEFINE r == Fewer(HeaderLen, Arrived)
           packet == packets[stream[got[1]].packet]
<1>1. /\ lpc = "header" /\ r > 0 /\ taken' = taken + r
      /\ inStep' = (inStep /\ r = HeaderLen)
      /\ UNCHANGED <<netVars, queued>>
  BY DEF ReadHeader
<1>2. \/ r = HeaderLen /\ HeaderRead(r, packet.data) /\ UNCHANGED died
      \/ NextPacket /\ UNCHANGED died
      \/ died' = TRUE /\ UNCHANGED <<lpc, got, need>>
      \/ (\E d \in DataLens : HeaderRead(r, d)) /\ UNCHANGED died
  BY DEF ReadHeader
<1>3. /\ taken \in Nat /\ arrived \in Nat /\ Arrived \in Nat
      /\ taken + Arrived = arrived /\ HeaderLen \in Nat /\ DataLens \subseteq Nat
  BY ArrivedFacts DEF ListenInv, PortAssumption
<1>4. r \in 0 .. HeaderLen /\ r \in Nat /\ r <= Arrived BY <1>1, <1>3, FewerFacts
<1>5. packet.data \in Nat BY <1>1, HeaderPacket
<1> HIDE DEF r, packet
<1>6. taken' \in Nat /\ taken' <= arrived /\ taken <= taken' BY <1>1, <1>3, <1>4
<1>7. inStep' \in BOOLEAN /\ UNCHANGED stream BY <1>1 DEF ListenInv, netVars
<1>8. CASE UNCHANGED died /\ \E d \in Nat : HeaderRead(r, d)
  <2>1. PICK d \in Nat : HeaderRead(r, d) BY <1>8
  <2>2. /\ GotInv' /\ Begun' = Begun /\ Begun \in Int
        /\ got' \in Seq(Nat) /\ need' \in Nat /\ lpc' \in {"data", "push"}
    BY <1>1, <1>4, <1>7, <2>1, HeaderReadGot
  <2>3. died' \in BOOLEAN BY <1>8 DEF ListenInv
  <2>4. QED BY <1>1, <1>6, <1>7, <2>2, <2>3, ReadKeeps
<1>9. CASE UNCHANGED died /\ NextPacket
  <2>1. GotInv' /\ Begun' = taken' /\ got' \in Seq(Nat) /\ need' \in Nat
    BY <1>6, <1>9, NextPacketGot
  <2>2. Begun <= Begun' /\ Begun' \in Int
    <3>1. Begun = got[1] - 1 /\ got[1] \in 1 .. taken
      <4>1. Len(got) = PrefixLen /\ got[1] \in 1 .. taken BY <1>1, HeaderPacket
      <4>2. got # <<>> BY <4>1, EmptySeq DEF PrefixLen
      <4>3. QED BY <4>1, <4>2 DEF Begun, BeginOf
    <3>2. QED BY <1>3, <1>6, <2>1, <3>1
  <2>3. lpc' = "prefix" BY <1>9 DEF NextPacket
  <2>4. died' \in BOOLEAN BY <1>9 DEF ListenInv
  <2>5. QED BY <1>1, <1>6, <1>7, <2>1, <2>2, <2>3, <2>4, ReadKeeps
<1>10. CASE died' = TRUE /\ UNCHANGED <<lpc, got, need>>
  <2>1. got' \in Seq(Nat) /\ need' \in Nat /\ died' \in BOOLEAN /\ lpc' = "header"
    BY <1>1, <1>10 DEF ListenInv
  <2>2. QED BY <1>1, <1>6, <1>7, <1>10, <2>1, ReadKeeps
<1>11. QED BY <1>2, <1>3, <1>5, <1>8, <1>9, <1>10

\* Data is read on.
LEMMA ReadDataListen ==
  ASSUME PortAssumption, ListenInv, ~died, ReadData
  PROVE  ListenInv'
<1> DEFINE n == Fewer(need, Arrived)
<1>1. /\ lpc = "data" /\ n > 0 /\ taken' = taken + n
      /\ got' = got \o Positions(taken, n) /\ need' = need - n
      /\ lpc' \in {"data", "push"}
      /\ UNCHANGED <<netVars, queued, inStep, died>>
  BY DEF ReadData
<1>2. /\ taken \in Nat /\ arrived \in Nat /\ Arrived \in Nat
      /\ taken + Arrived = arrived /\ need \in Nat /\ got \in Seq(Nat)
  BY ArrivedFacts DEF ListenInv
<1>3. n \in Nat /\ n <= need /\ n <= Arrived BY <1>1, <1>2, FewerFacts
<1> HIDE DEF n
<1>4. taken' \in Nat /\ taken' <= arrived /\ taken <= taken' /\ need' \in Nat
  BY <1>1, <1>2, <1>3
<1>5. got[1] \in 1 .. taken /\ stream[got[1]].part = "start"
  BY <1>1 DEF ListenInv, GotInv
<1>6. PICK r \in 0 .. HeaderLen : ReadTo(got, r, taken)
  BY <1>1 DEF ListenInv, GotInv
<1>7. got' \in Seq(Nat) /\ got'[1] = got[1] /\ ReadTo(got', r, taken')
  <2>1. n \in Nat /\ got \in Seq(Nat) /\ taken \in Nat BY <1>2, <1>3
  <2>2. LET on == got \o Positions(taken, n)
        IN  /\ on \in Seq(Nat) /\ Len(on) = Len(got) + n /\ on[1] = got[1]
            /\ ReadTo(on, r, taken + n)
    BY ONLY <1>6, <2>1, DataIsRun, PortAssumption
  <2>3. QED BY <1>1, <2>2
<1>8. got # <<>> /\ got' # <<>> BY <1>2, <1>4, <1>6, <1>7, RunEnds
<1>9. Begun' = got[1] - 1 /\ Begun = got[1] - 1 BY <1>7, <1>8 DEF Begun, BeginOf
<1>10. /\ got'[1] \in 1 .. taken' /\ Begun' <= taken' /\ Begun \in Int
       /\ Begun <= Begun'
  <2>1. PICK g : g = got[1] OBVIOUS
  <2>2. g \in 1 .. taken' /\ g - 1 <= taken' /\ g - 1 \in Int
    BY ONLY <1>2, <1>4, <1>5, <2>1
  <2>3. got'[1] = g /\ Begun' = g - 1 /\ Begun = g - 1 BY ONLY <1>7, <1>9, <2>1
  <2>4. g - 1 <= g - 1 BY ONLY <2>2
  <2>5. QED BY ONLY <2>2, <2>3, <2>4
<1>11. stream'[got'[1]].part = "start" BY <1>1, <1>5, <1>7 DEF netVars
<1>12. (\E q \in 0 .. HeaderLen : ReadTo(got, q, taken))'
  <2>1. ReadTo(got, r, taken)' BY <1>7 DEF ReadTo, IsRun
  <2>2. QED BY <2>1
<1>13. GotInv' BY <1>1, <1>10, <1>11, <1>12 DEF GotInv
<1>14. inStep' \in BOOLEAN /\ died' \in BOOLEAN BY <1>1 DEF ListenInv
<1>15. QED BY <1>1, <1>4, <1>7, <1>9, <1>10, <1>13, <1>14, ReadKeeps

\* The end of the connection, and of the thread.
LEMMA EndListen ==
  ASSUME ListenInv, ~died, ReadEnd \/ ResetSd
  PROVE  ListenInv'
<1>1. /\ lpc' \in {"closed", "gone"} /\ died' \in BOOLEAN
      /\ UNCHANGED <<netVars, taken, got, need, queued, inStep>>
  BY DEF ReadEnd, ResetSd, ListenInv
<1>2. taken \in Nat /\ taken <= arrived BY ArrivedFacts DEF ListenInv
<1>3. Begun' = Begun BY <1>1 DEF Begun
<1>4. Begun \in Int /\ Begun <= taken
  BY <1>2, ElementOfSeq, EmptySeq, LenProperties
  DEF ListenInv, GotInv, Begun, BeginOf
<1>5. GotInv' BY <1>1, <1>3, <1>4 DEF GotInv
<1>6. QED BY <1>1, <1>2, <1>3, <1>4, <1>5, ReadKeeps DEF ListenInv

\* The item is queued behind those of the packets before it.
LEMMA PushListen ==
  ASSUME PortAssumption, ListenInv, ~died, Push
  PROVE  ListenInv'
<1> DEFINE last == Len(queued)
<1>1. /\ lpc = "push" /\ queued' = Append(queued, got) /\ NextPacket
      /\ UNCHANGED <<netVars, taken, inStep, died>>
  BY DEF Push
<1>2. /\ taken \in Nat /\ arrived \in Nat /\ Len(stream) \in Nat
      /\ taken <= arrived /\ arrived <= Len(stream)
  BY ArrivedFacts DEF ListenInv
<1>3. /\ got \in Seq(Nat) /\ got[1] \in 1 .. taken
      /\ stream[got[1]].part = "start"
      /\ GotInv /\ QueuedBefore /\ QueuedIsOneRun /\ StreamInv
  BY <1>1 DEF ListenInv, GotInv
<1>4. PICK r \in 0 .. HeaderLen : ReadTo(got, r, taken) BY <1>1, <1>3 DEF GotInv
<1>5. got # <<>> /\ \A j \in 1 .. Len(got) : got[j] <= taken
  BY <1>2, <1>3, <1>4, RunEnds
<1>6. Begun = got[1] - 1 BY <1>5 DEF Begun, BeginOf
<1>7. /\ queued \in Seq(Seq(Nat)) /\ last \in Nat
      /\ \A q \in 1 .. last : queued[q] # <<>> /\ queued[q] \in Seq(Nat)
  BY LenProperties, ElementOfSeq DEF ListenInv
<1>8. /\ queued' \in Seq(Seq(Nat)) /\ Len(queued') = last + 1
      /\ \A q \in 1 .. last : queued'[q] = queued[q]
      /\ queued'[last + 1] = got
  BY <1>1, <1>3, <1>7, AppendProperties
<1> HIDE DEF last
<1>9. /\ GotInv' /\ Begun' = taken /\ got' \in Seq(Nat) /\ need' \in Nat
  BY <1>1, <1>2, NextPacketGot
<1>10. UNCHANGED <<stream, packets, arrived, peer>> BY <1>1 DEF netVars
<1>11. \A q \in 1 .. last : \A j \in 1 .. Len(queued[q]) : queued[q][j] < got[1]
  <2> SUFFICES ASSUME NEW q \in 1 .. last, NEW j \in 1 .. Len(queued[q])
               PROVE  queued[q][j] < got[1]
    OBVIOUS
  <2>1. queued[q][j] <= got[1] - 1 BY <1>3, <1>6 DEF QueuedBefore, last
  <2>2. queued[q][j] \in Nat BY <1>7, ElementOfSeq
  <2>3. got[1] \in Nat BY ONLY <1>2, <1>3
  <2>4. PICK c : c = queued[q][j] OBVIOUS
  <2>5. PICK g : g = got[1] OBVIOUS
  <2>6. c \in Nat /\ g \in Nat /\ c <= g - 1 BY ONLY <2>1, <2>2, <2>3, <2>4, <2>5
  <2>7. c < g BY ONLY <2>6
  <2>8. QED BY ONLY <2>4, <2>5, <2>7
<1>12. QueuedBefore'
  <2>1. ASSUME NEW q \in 1 .. last, NEW j \in 1 .. Len(queued[q])
        PROVE  queued[q][j] <= taken
    <3>1. queued[q][j] < got[1] /\ queued[q][j] \in Nat
      BY <1>7, <1>11, ElementOfSeq
    <3>2. QED BY <1>2, <1>3, <3>1
  <2>2. ASSUME NEW q \in 1 .. last + 1, NEW j \in 1 .. Len(queued'[q])
        PROVE  queued'[q][j] <= taken
    <3>1. CASE q \in 1 .. last BY <1>8, <2>1, <3>1
    <3>2. CASE q = last + 1 BY <1>5, <1>8, <3>2
    <3>3. QED BY <1>7, <3>1, <3>2
  <2>3. QED BY <1>8, <1>9, <2>2 DEF QueuedBefore
<1>13. QueuedIsOneRun'
  <2>1. ASSUME NEW q \in 1 .. last + 1
        PROVE  /\ queued'[q][1] \in 1 .. Len(stream)
               /\ stream[queued'[q][1]].part = "start"
               /\ \E s \in 0 .. HeaderLen : IsRun(queued'[q], s)
               /\ q > 1 => \A j \in 1 .. Len(queued'[q - 1]) :
                             queued'[q - 1][j] < queued'[q][1]
    <3>1. CASE q \in 1 .. last
      <4>1. queued'[q] = queued[q] BY <1>8, <3>1
      <4>2. ASSUME q > 1 PROVE queued'[q - 1] = queued[q - 1]
        <5>1. q - 1 \in 1 .. last BY <1>7, <3>1, <4>2
        <5>2. QED BY <1>8, <5>1
      <4>3. QED BY <1>3, <3>1, <4>1, <4>2 DEF QueuedIsOneRun, last
    <3>2. CASE q = last + 1
      <4>1. queued'[q] = got BY <1>8, <3>2
      <4>2. got[1] \in 1 .. Len(stream) BY <1>2, <1>3
      <4>3. IsRun(got, r) BY <1>4 DEF ReadTo
      <4>4. ASSUME q > 1, NEW j \in 1 .. Len(queued'[q - 1])
            PROVE  queued'[q - 1][j] < got[1]
        <5>1. q - 1 = last /\ last \in 1 .. last BY <1>7, <3>2, <4>4
        <5>2. queued'[q - 1] = queued[last] BY <1>8, <5>1
        <5>3. QED BY <1>11, <4>4, <5>1, <5>2
      <4>5. QED BY <1>3, <4>1, <4>2, <4>3, <4>4
    <3>3. QED BY <1>7, <3>1, <3>2
  <2>2. \A item, s : IsRun(item, s)' <=> IsRun(item, s) BY DEF IsRun
  <2>3. QED BY <1>8, <1>10, <2>1, <2>2 DEF QueuedIsOneRun
<1>14. StreamInv' BY <1>1, <1>3, <1>10 DEF StreamInv
<1>15. \A q \in 1 .. Len(queued') : queued'[q] # <<>>
  <2>1. \A q \in 1 .. last + 1 : q \in 1 .. last \/ q = last + 1 BY <1>7
  <2>2. QED BY <1>5, <1>7, <1>8, <2>1
<1>16. lpc' = "prefix" BY <1>1 DEF NextPacket
<1>17. inStep' \in BOOLEAN /\ died' \in BOOLEAN BY <1>1 DEF ListenInv
<1>18. QED BY <1>8, <1>9, <1>12, <1>13, <1>14, <1>15, <1>16, <1>17 DEF ListenInv

\* Every step of the port, and every stutter, keeps the invariant of listen().
LEMMA ListenNextKeeps == ASSUME PortAssumption, ListenInv, [Next]_vars
                         PROVE  ListenInv'
<1>1. CASE UNCHANGED vars
  <2>1. UNCHANGED <<stream, packets, arrived, peer, taken, lpc, got, need, queued,
                    inStep, died>>
    BY <1>1 DEF vars, netVars, listenVars
  <2>2. QED
    BY <2>1 DEF ListenInv, StreamInv, GotInv, QueuedBefore, QueuedIsOneRun, Begun,
                InRow, ReadTo, IsRun
<1>2. CASE Next
  <2>1. ~died BY <1>2 DEF Next
  <2>2. CASE \E packet \in Packet : ServerSends(packet)
    BY <2>1, <2>2, ServerSendsListen
  <2>3. CASE Arrives
    <3>1. PICK n \in 1 .. Len(stream) : Arrive(n) BY <2>3 DEF Arrives
    <3>2. QED BY <2>1, <3>1, ArriveListen
  <2>4. CASE \E n \in 0 .. Len(stream) : ServerCloses(n)
    <3>1. PICK n \in 0 .. Len(stream) : ServerCloses(n) BY <2>4
    <3>2. QED BY <2>1, <3>1, ServerClosesListen
  <2>5. CASE Listen
    BY <2>1, <2>5, ReadGreetingListen, SendNameListen, ReadPrefixListen,
       ReadHeaderListen, ReadDataListen, PushListen, EndListen DEF Listen
  <2>6. CASE \E n \in MessageLens : Route(n)
    <3>1. UNCHANGED <<stream, packets, arrived, peer, taken, lpc, got, need, queued,
                      inStep, died>>
      BY <2>6 DEF Route, netVars, listenVars
    <3>2. died' \in BOOLEAN BY <3>1 DEF ListenInv
    <3>3. QED BY <2>1, <3>1, <3>2, ListenKept
  <2>7. CASE Sends
    <3>1. /\ UNCHANGED <<stream, packets, arrived, peer, taken, lpc, got, need,
                         queued, inStep>>
          /\ died' \in BOOLEAN
      BY <2>7 DEF Sends, Write, WriteFails, netVars, listenVars, ListenInv
    <3>2. QED BY <2>1, <3>1, ListenKept
  <2>8. CASE Others
    <3>1. UNCHANGED <<stream, packets, arrived, peer, taken, lpc, got, need, queued,
                      inStep, died>>
      BY <2>8 DEF Others, netVars, listenVars
    <3>2. died' \in BOOLEAN BY <3>1 DEF ListenInv
    <3>3. QED BY <2>1, <3>1, <3>2, ListenKept
  <2>9. CASE ServerStopsReading
    <3>1. UNCHANGED <<stream, packets, arrived, peer, taken, lpc, got, need, queued,
                      inStep, died>>
      BY <2>9 DEF ServerStopsReading, listenVars
    <3>2. died' \in BOOLEAN BY <3>1 DEF ListenInv
    <3>3. QED BY <2>1, <3>1, <3>2, ListenKept
  <2>10. QED BY <1>2, <2>2, <2>3, <2>4, <2>5, <2>6, <2>7, <2>8, <2>9 DEF Next
<1>3. QED BY <1>1, <1>2

\* NodePort::listen queues runs of the stream: each item begins with a start
\* code, has a gap at most at the end of its header, which one read may cut, and
\* no byte of the server is in two items or before one of an earlier item.
THEOREM QueuedIsOneRunCorrect == Spec => []QueuedIsOneRun
<1>1. Init => ListenInv
  BY PortAssumption, ListenInvStarts
<1>2. ListenInv /\ [Next]_vars => ListenInv'
  BY PortAssumption, ListenNextKeeps
<1>3. ListenInv => QueuedIsOneRun
  BY DEF ListenInv
<1>4. QED
  BY <1>1, <1>2, <1>3, PTL DEF Spec

-----------------------------------------------------------------------------
(* While the stream keeps its step, items are packets.                     *)

\* ends[p] is the number of cells before packet p: the greeting and the packets
\* follow each other in the stream, up to where the connection was cut.
Layout(ends) ==
  /\ ends \in [1 .. Len(packets) + 1 -> Nat]
  /\ ends[1] = GreetingLen
  /\ \A p \in 1 .. Len(packets) :
       /\ ends[p + 1] = ends[p] + (PrefixLen + HeaderLen + packets[p].data)
       /\ packets[p].data > 0 => packets[p].type = "event"
  /\ \A p, q \in 1 .. Len(packets) + 1 : p < q => ends[p + 1] <= ends[q]
  /\ Len(stream) <= ends[Len(packets) + 1]
  /\ peer => Len(stream) = ends[Len(packets) + 1]
  /\ \A k \in 1 .. Len(stream) :
       /\ stream[k].packet <= Len(packets)
       /\ \A p \in 1 .. Len(packets) :
            stream[k].packet = p <=> k \in ends[p] + 1 .. ends[p + 1]
  /\ \A p \in 1 .. Len(packets) :
       ends[p] + 1 <= Len(stream) => stream[ends[p] + 1].part = "start"

\* All of packet p, which has arrived.
IsWhole(item, ends, p) ==
  /\ item[1] = ends[p] + 1
  /\ Len(item) = ends[p + 1] - ends[p]
  /\ IsRun(item, HeaderLen)
  /\ ends[p + 1] <= arrived

\* The items are whole packets, none for the queue left out between them.
QueuedWhole(ends) ==
  \A q \in 1 .. Len(queued) :
    /\ PacketOf(q) \in 1 .. Len(packets) /\ IsGood(PacketOf(q))
    /\ IsWhole(queued[q], ends, PacketOf(q))
    /\ PacketOf(q - 1) < PacketOf(q)
    /\ \A between \in PacketOf(q - 1) + 1 .. PacketOf(q) - 1 : ~IsGood(between)

\* Every packet for the queue before packet p is in the queue.
DoneTo(p) ==
  /\ PacketOf(Len(queued)) < p
  /\ \A between \in PacketOf(Len(queued)) + 1 .. p - 1 : ~IsGood(between)

\* listen() is where a packet begins, or in one, of which got is what was read.
AtPacket(ends) ==
  /\ lpc = "greeting" => taken = 0 /\ queued = <<>>
  /\ lpc = "name" => taken = GreetingLen /\ queued = <<>>
  /\ lpc \in {"prefix", "header", "data", "push"} =>
       \E p \in 1 .. Len(packets) + 1 :
         /\ Begun = ends[p] /\ DoneTo(p)
         /\ lpc # "prefix" => p <= Len(packets)
         /\ lpc \in {"data", "push"} =>
              /\ IsGood(p) /\ ReadTo(got, HeaderLen, taken)
              /\ Len(got) + need = ends[p + 1] - ends[p]
         /\ lpc = "push" => need = 0

\* The invariant.
SentInv ==
  /\ lpc = "greeting" => inStep
  /\ \E ends : /\ Layout(ends)
               /\ inStep => QueuedWhole(ends)
               /\ inStep /\ ~died => AtPacket(ends)

\* A packet's place in the stream.
LEMMA LayoutFacts ==
  ASSUME PortAssumption, StreamInv, NEW ends, Layout(ends),
         NEW p \in 1 .. Len(packets)
  PROVE  /\ Len(packets) \in Nat /\ p \in Nat /\ p + 1 \in 1 .. Len(packets) + 1
         /\ ends[p] \in Nat /\ ends[p + 1] \in Nat
         /\ packets[p].data \in Nat /\ packets[p].type \in PacketType
         /\ ends[p + 1] = ends[p] + (PrefixLen + HeaderLen + packets[p].data)
         /\ ends[p] + PrefixLen + HeaderLen <= ends[p + 1]
<1>1. Len(packets) \in Nat BY LenProperties DEF StreamInv
<1>2. p \in Nat /\ p + 1 \in 1 .. Len(packets) + 1 /\ p \in 1 .. Len(packets) + 1
  BY <1>1
<1>3. packets[p] \in Packet BY ElementOfSeq DEF StreamInv
<1>4. packets[p].data \in Nat /\ packets[p].type \in PacketType
  BY <1>3 DEF Packet, PortAssumption
<1>5. /\ ends[p] \in Nat /\ ends[p + 1] \in Nat
      /\ ends[p + 1] = ends[p] + (PrefixLen + HeaderLen + packets[p].data)
  <2>1. \A k \in 1 .. Len(packets) + 1 : ends[k] \in Nat BY DEF Layout
  <2>2. \A k \in 1 .. Len(packets) :
          ends[k + 1] = ends[k] + (PrefixLen + HeaderLen + packets[k].data)
    BY DEF Layout
  <2>3. QED BY <1>2, <2>1, <2>2
<1>6. HeaderLen \in Nat /\ PrefixLen \in Nat BY DEF PortAssumption, PrefixLen
<1>7. ends[p] + PrefixLen + HeaderLen <= ends[p + 1]
  <2>1. PICK a : a = ends[p] OBVIOUS
  <2>2. PICK d : d = packets[p].data OBVIOUS
  <2>3. a + PrefixLen + HeaderLen <= a + (PrefixLen + HeaderLen + d)
    BY ONLY <1>4, <1>5, <1>6, <2>1, <2>2
  <2>4. QED BY ONLY <1>5, <2>1, <2>2, <2>3
<1>8. QED BY <1>1, <1>2, <1>4, <1>5, <1>7

\* A cell of a packet.
LEMMA CellOfPacket ==
  ASSUME PortAssumption, StreamInv, NEW ends, Layout(ends),
         NEW p \in 1 .. Len(packets), ends[p] + 1 <= Len(stream)
  PROVE  /\ ends[p] + 1 \in 1 .. Len(stream)
         /\ stream[ends[p] + 1].packet = p /\ stream[ends[p] + 1].part = "start"
<1>1. /\ ends[p] \in Nat /\ ends[p + 1] \in Nat
      /\ ends[p] + PrefixLen + HeaderLen <= ends[p + 1]
  BY LayoutFacts
<1>2. HeaderLen \in Nat /\ PrefixLen = 2 BY DEF PortAssumption, PrefixLen
<1>3. Len(stream) \in Nat BY ArrivedFacts
<1>4. ends[p] + 1 \in 1 .. Len(stream) /\ ends[p] + 1 \in ends[p] + 1 .. ends[p + 1]
  <2>1. PICK a : a = ends[p] OBVIOUS
  <2>2. PICK b : b = ends[p + 1] OBVIOUS
  <2>3. PICK m : m = Len(stream) OBVIOUS
  <2>4. /\ a \in Nat /\ b \in Nat /\ a + PrefixLen + HeaderLen <= b
        /\ m \in Nat /\ a + 1 <= m
    BY <1>1, <1>3, <2>1, <2>2, <2>3
  <2>5. a + 1 \in 1 .. m /\ a + 1 \in a + 1 .. b BY ONLY <1>2, <2>4
  <2>6. QED BY ONLY <2>1, <2>2, <2>3, <2>5
<1>5. QED BY <1>4 DEF Layout

\* A run of the length of packet p from its start code on is the packet.
LEMMA WholeIsPacket ==
  ASSUME PortAssumption, StreamInv, NEW ends, Layout(ends),
         NEW p \in 1 .. Len(packets),
         NEW item \in Seq(Nat), IsWhole(item, ends, p)
  PROVE  IsPacket(item, p)
<1>1. PICK a : a = ends[p] OBVIOUS
<1>2. PICK b : b = ends[p + 1] OBVIOUS
<1>3. PICK l : l = Len(item) OBVIOUS
<1>4. PICK m : m = Len(stream) OBVIOUS
<1>5. a \in Nat /\ b \in Nat /\ HeaderLen \in Nat
  BY <1>1, <1>2, LayoutFacts DEF PortAssumption
<1>6. m \in Nat /\ arrived \in Nat /\ arrived <= m BY <1>4, ArrivedFacts
<1>7. l = b - a /\ l \in Nat /\ item[1] = a + 1 /\ b <= arrived
  BY <1>1, <1>2, <1>3, LenProperties DEF IsWhole
<1>8. b <= m BY ONLY <1>5, <1>6, <1>7
<1>9. ASSUME NEW j \in 1 .. l PROVE item[j] = a + j
  <2>1. item[j] = IF j <= PrefixLen + HeaderLen THEN item[1] + (j - 1)
                  ELSE IF j <= PrefixLen + HeaderLen THEN Garbage
                  ELSE item[1] + (j - 1) - (HeaderLen - HeaderLen)
    BY <1>3 DEF IsWhole, IsRun
  <2>2. item[1] + (j - 1) = a + j BY ONLY <1>5, <1>7
  <2>3. item[1] + (j - 1) - (HeaderLen - HeaderLen) = a + j BY ONLY <1>5, <1>7
  <2>4. QED BY ONLY <2>1, <2>2, <2>3
<1>10. \A k \in 1 .. m : stream[k].packet = p <=> k \in a + 1 .. b
  BY <1>1, <1>2, <1>4 DEF Layout
<1>11. ASSUME NEW j \in 1 .. l
       PROVE  item[j] \in 1 .. m /\ stream[item[j]].packet = p
  <2>1. a + j \in a + 1 .. b BY ONLY <1>5, <1>7
  <2>2. a + j \in 1 .. m BY ONLY <1>5, <1>6, <1>8, <2>1
  <2>3. QED BY ONLY <1>9, <1>10, <2>1, <2>2
<1>12. ASSUME NEW j \in 2 .. l PROVE item[j - 1] < item[j]
  <2>1. j - 1 \in 1 .. l /\ j \in 1 .. l BY ONLY <1>7
  <2>2. item[j - 1] = a + (j - 1) /\ item[j] = a + j BY ONLY <1>9, <2>1
  <2>3. a + (j - 1) < a + j BY ONLY <1>5, <2>1
  <2>4. QED BY ONLY <2>2, <2>3
<1>13. ASSUME NEW k \in 1 .. m, stream[k].packet = p
       PROVE  \E j \in 1 .. l : item[j] = k
  <2>1. k \in a + 1 .. b BY ONLY <1>10, <1>13
  <2>2. k - a \in 1 .. l BY ONLY <1>5, <1>7, <2>1
  <2>3. item[k - a] = a + (k - a) BY ONLY <1>9, <2>2
  <2>4. a + (k - a) = k BY ONLY <1>5, <2>1
  <2>5. QED BY ONLY <2>2, <2>3, <2>4
<1>14. QED BY ONLY <1>3, <1>4, <1>11, <1>12, <1>13 DEF IsPacket

\* What the invariant is for.
LEMMA SentIsSent == ASSUME PortAssumption, ListenInv, SentInv
                    PROVE  QueuedAreSent
<1> SUFFICES ASSUME inStep, NEW q \in 1 .. Len(queued)
             PROVE  LET p == PacketOf(q)
                    IN  /\ p \in 1 .. Len(packets) /\ IsGood(p)
                        /\ IsPacket(queued[q], p)
                        /\ PacketOf(q - 1) < p
                        /\ \A between \in PacketOf(q - 1) + 1 .. p - 1 :
                             ~IsGood(between)
  BY DEF QueuedAreSent
<1>1. PICK ends : Layout(ends) /\ QueuedWhole(ends) BY DEF SentInv
<1>2. queued[q] \in Seq(Nat) /\ StreamInv BY ElementOfSeq DEF ListenInv
<1>3. PacketOf(q) \in 1 .. Len(packets) /\ IsWhole(queued[q], ends, PacketOf(q))
  BY <1>1 DEF QueuedWhole
<1>4. IsPacket(queued[q], PacketOf(q)) BY <1>1, <1>2, <1>3, WholeIsPacket
<1>5. QED BY <1>1, <1>4 DEF QueuedWhole

\* The server and the network leave behind what was taken as it is.
LEMMA SentStreamKeeps ==
  ASSUME PortAssumption, ListenInv, ~died, lpc = "greeting" => inStep,
         NEW ends, Layout(ends), inStep => QueuedWhole(ends),
         inStep => AtPacket(ends),
         NEW to, Layout(to)', \A p \in 1 .. Len(packets) + 1 : to[p] = ends[p],
         Len(packets') \in Nat, Len(packets) <= Len(packets'),
         \A p \in 1 .. Len(packets) : packets'[p] = packets[p],
         arrived' \in Nat, arrived <= arrived',
         \A k \in 1 .. arrived : stream'[k] = stream[k],
         UNCHANGED <<taken, lpc, got, need, queued, inStep>>
  PROVE  SentInv'
<1>1. /\ taken \in Nat /\ arrived \in Nat /\ taken <= arrived
      /\ Len(packets) \in Nat /\ Len(queued) \in Nat
  BY ArrivedFacts, LenProperties DEF ListenInv, StreamInv
<1>2. \A q \in 0 .. Len(queued) : PacketOf(q)' = PacketOf(q)
  <2>1. ASSUME NEW q \in 1 .. Len(queued)
        PROVE  stream'[queued[q][1]] = stream[queued[q][1]]
    <3>1. queued[q][1] \in 1 .. taken BY QueuedTaken
    <3>2. queued[q][1] \in 1 .. arrived BY <1>1, <3>1
    <3>3. QED BY <3>2
  <2>2. QED BY <1>1, <2>1 DEF PacketOf
<1>3. \A p \in 1 .. Len(packets) : IsGood(p)' <=> IsGood(p) BY DEF IsGood
<1>4. \A p \in 1 .. Len(packets) :
        /\ to[p] = ends[p] /\ to[p + 1] = ends[p + 1] /\ p \in 1 .. Len(packets')
  <2>1. \A p \in 1 .. Len(packets) :
          /\ p \in 1 .. Len(packets) + 1 /\ p + 1 \in 1 .. Len(packets) + 1
          /\ p \in 1 .. Len(packets')
    BY <1>1
  <2>2. QED BY <2>1
<1>5. ASSUME inStep PROVE QueuedWhole(to)'
  <2> SUFFICES ASSUME NEW q \in 1 .. Len(queued)
               PROVE  /\ PacketOf(q)' \in 1 .. Len(packets')
                      /\ IsGood(PacketOf(q))'
                      /\ IsWhole(queued[q], to, PacketOf(q))'
                      /\ PacketOf(q - 1)' < PacketOf(q)'
                      /\ \A between \in PacketOf(q - 1)' + 1 .. PacketOf(q)' - 1 :
                           ~IsGood(between)'
    BY DEF QueuedWhole
  <2>1. PICK p \in 1 .. Len(packets) : p = PacketOf(q) BY <1>5 DEF QueuedWhole
  <2>2. PICK before \in Nat : before = PacketOf(q - 1)
    <3>1. CASE q = 1 BY <3>1 DEF PacketOf
    <3>2. CASE q # 1
      <4>1. q - 1 \in 1 .. Len(queued) BY <1>1, <3>2
      <4>2. PacketOf(q - 1) \in 1 .. Len(packets) BY <1>5, <4>1 DEF QueuedWhole
      <4>3. QED BY <1>1, <4>2
    <3>3. QED BY <3>1, <3>2
  <2>3. /\ IsGood(p) /\ IsWhole(queued[q], ends, p) /\ before < p
        /\ \A between \in before + 1 .. p - 1 : ~IsGood(between)
    BY <1>5, <2>1, <2>2 DEF QueuedWhole
  <2>4. PacketOf(q)' = p /\ PacketOf(q - 1)' = before
    <3>1. q \in 0 .. Len(queued) /\ q - 1 \in 0 .. Len(queued) BY <1>1
    <3>2. QED BY <1>2, <2>1, <2>2, <3>1
  <2>5. \A between \in before + 1 .. p - 1 : ~IsGood(between)'
    <3>1. \A between \in before + 1 .. p - 1 : between \in 1 .. Len(packets)
      BY <1>1, <2>2, <2>3
    <3>2. QED BY <1>3, <2>3, <3>1
  <2>6. /\ p \in 1 .. Len(packets') /\ to[p] = ends[p] /\ to[p + 1] = ends[p + 1]
        /\ IsGood(p)'
    BY <1>3, <1>4, <2>3
  <2>7. IsWhole(queued[q], to, p)'
    <3>1. /\ queued[q][1] = to[p] + 1 /\ Len(queued[q]) = to[p + 1] - to[p]
          /\ IsRun(queued[q], HeaderLen) /\ to[p + 1] <= arrived
      BY <2>3, <2>6 DEF IsWhole
    <3>2. to[p + 1] \in Nat
      <4>1. p + 1 \in 1 .. Len(packets) + 1 BY <1>1
      <4>2. ends[p + 1] \in Nat BY ONLY <4>1, Layout(ends) DEF Layout
      <4>3. QED BY <2>6, <4>2
    <3>3. to[p + 1] <= arrived' BY <1>1, <3>1, <3>2
    <3>4. queued' = queued OBVIOUS
    <3>5. QED BY <3>1, <3>3, <3>4 DEF IsWhole, IsRun
  <2>8. IsGood(PacketOf(q))' /\ IsWhole(queued[q], to, PacketOf(q))'
    BY <2>4, <2>6, <2>7 DEF IsGood, IsWhole
  <2>9. QED BY <2>3, <2>4, <2>5, <2>6, <2>8
<1>6. ASSUME inStep PROVE AtPacket(to)'
  <2>1. AtPacket(ends) BY <1>6
  <2>2. Begun' = Begun BY DEF Begun
  <2>3. ASSUME NEW p \in 1 .. Len(packets) + 1, DoneTo(p) PROVE DoneTo(p)'
    <3>1. PICK last \in Nat : last = PacketOf(Len(queued))
      <4>1. CASE Len(queued) = 0 BY <4>1 DEF PacketOf
      <4>2. CASE Len(queued) # 0
        <5>1. Len(queued) \in 1 .. Len(queued) BY <1>1, <4>2
        <5>2. PacketOf(Len(queued)) \in 1 .. Len(packets)
          BY <1>6, <5>1 DEF QueuedWhole
        <5>3. QED BY <1>1, <5>2
      <4>3. QED BY <4>1, <4>2
    <3>2. last < p /\ \A between \in last + 1 .. p - 1 : ~IsGood(between)
      BY <2>3, <3>1 DEF DoneTo
    <3>3. PacketOf(Len(queued))' = last
      <4>1. Len(queued) \in 0 .. Len(queued) BY <1>1
      <4>2. QED BY <1>2, <3>1, <4>1
    <3>4. \A between \in last + 1 .. p - 1 : between \in 1 .. Len(packets)
      BY <1>1, <3>1, <3>2
    <3>5. \A between \in last + 1 .. p - 1 : ~IsGood(between)'
      BY <1>3, <3>2, <3>4
    <3>6. QED BY <3>2, <3>3, <3>5 DEF DoneTo
  <2>4. CASE lpc \in {"prefix", "header", "data", "push"}
    <3>1. PICK p \in 1 .. Len(packets) + 1 :
            /\ Begun = ends[p] /\ DoneTo(p)
            /\ lpc # "prefix" => p <= Len(packets)
            /\ lpc \in {"data", "push"} =>
                 /\ IsGood(p) /\ ReadTo(got, HeaderLen, taken)
                 /\ Len(got) + need = ends[p + 1] - ends[p]
            /\ lpc = "push" => need = 0
      BY <2>1, <2>4 DEF AtPacket
    <3>2. p \in 1 .. Len(packets') + 1 /\ to[p] = ends[p] /\ DoneTo(p)'
      BY <1>1, <2>3, <3>1
    <3>3. ASSUME lpc \in {"data", "push"}
          PROVE  /\ IsGood(p)' /\ ReadTo(got, HeaderLen, taken)'
                 /\ Len(got) + need = to[p + 1] - to[p]
      <4>1. p \in 1 .. Len(packets) BY <1>1, <3>1, <3>3
      <4>2. to[p] = ends[p] /\ to[p + 1] = ends[p + 1] /\ IsGood(p)'
        BY <1>3, <1>4, <3>1, <3>3, <4>1
      <4>3. ReadTo(got, HeaderLen, taken)' BY <3>1, <3>3 DEF ReadTo, IsRun
      <4>4. QED BY <3>1, <3>3, <4>2, <4>3
    <3>4. lpc # "prefix" => p <= Len(packets')
      BY <1>1, <3>1
    <3>5. QED BY <2>2, <2>4, <3>1, <3>2, <3>3, <3>4 DEF AtPacket
  <2>5. CASE lpc \notin {"prefix", "header", "data", "push"}
    BY <2>1, <2>5 DEF AtPacket
  <2>6. QED BY <2>4, <2>5
<1>7. QED BY <1>5, <1>6 DEF SentInv

\* A step of listen() that queues nothing.
LEMMA SentReadKeeps ==
  ASSUME NEW ends, Layout(ends), inStep => QueuedWhole(ends),
         UNCHANGED <<netVars, queued>>, lpc' # "greeting", inStep' => inStep,
         inStep' /\ ~died' => AtPacket(ends)'
  PROVE  SentInv'
<1>1. UNCHANGED <<stream, packets, arrived, peer, queued>> BY DEF netVars
<1>2. Layout(ends)'
  <2>1. Layout(ends) OBVIOUS
  <2>2. QED BY ONLY <1>1, <2>1, Zenon DEF Layout
<1>3. ASSUME inStep' PROVE QueuedWhole(ends)'
  BY <1>1, <1>3 DEF QueuedWhole, PacketOf, IsGood, IsWhole, IsRun
<1>4. QED BY <1>2, <1>3 DEF SentInv

\* What it has queued so far is up to the same packet.
LEMMA DoneToKept ==
  ASSUME UNCHANGED <<netVars, queued>>, NEW p, DoneTo(p)
  PROVE  DoneTo(p)'
BY DEF netVars, DoneTo, PacketOf, IsGood

\* A packet is put behind the layout.
LEMMA LayoutGrows ==
  ASSUME PortAssumption, ListenInv, NEW ends, Layout(ends),
         NEW packet \in Packet, ServerSends(packet)
  PROVE  \E to : /\ Layout(to)'
                 /\ \A p \in 1 .. Len(packets) + 1 : to[p] = ends[p]
                 /\ Len(packets') = Len(packets) + 1
                 /\ \A p \in 1 .. Len(packets) : packets'[p] = packets[p]
                 /\ \A k \in 1 .. Len(stream) : stream'[k] = stream[k]
<1>1. StreamInv BY DEF ListenInv
<1>2. PICK n \in Nat : n = Len(packets) BY <1>1, LenProperties DEF StreamInv
<1>3. PICK m \in Nat : m = Len(stream) BY <1>1, LenProperties DEF StreamInv
<1>4. PICK more : more = Cells(packet, n + 1) OBVIOUS
<1>5. /\ stream' = stream \o more /\ packets' = Append(packets, packet)
      /\ peer /\ peer' = peer /\ n < MaxPackets
      /\ packet.data > 0 => packet.type = "event"
  BY <1>2, <1>4 DEF ServerSends
<1>6. n + 1 \in 1 .. MaxPackets BY <1>2, <1>5 DEF PortAssumption
<1>7. PICK size \in Nat : /\ size = Len(more) /\ size > 0
                          /\ size = PrefixLen + HeaderLen + packet.data
  <2>1. /\ Len(more) = PrefixLen + HeaderLen + packet.data /\ packet.data \in Nat
    BY <1>4, <1>6, CellsFacts
  <2>2. HeaderLen \in Nat /\ PrefixLen = 2 BY DEF PortAssumption, PrefixLen
  <2>3. PrefixLen + HeaderLen + packet.data \in Nat /\ PrefixLen + HeaderLen + packet.data > 0
    BY <2>1, <2>2
  <2>4. QED BY <2>1, <2>3
<1>8. /\ more \in Seq(StreamCell)
      /\ \A k \in 1 .. size : /\ more[k].packet = n + 1
                              /\ more[k].part = "start" <=> k = 1
  BY <1>4, <1>6, <1>7, CellsFacts
<1>9. /\ stream' \in Seq(StreamCell) /\ Len(stream') = m + size
      /\ \A k \in 1 .. m : stream'[k] = stream[k]
      /\ \A k \in m + 1 .. m + size :
           stream'[k] = more[k - m] /\ k - m \in 1 .. size
  <2>1. Joined(stream, more, stream', StreamCell)
    BY <1>1, <1>5, <1>8, JoinFacts DEF StreamInv
  <2>2. QED BY <1>3, <1>7, <2>1 DEF Joined
<1>10. /\ Len(packets') = n + 1 /\ packets'[n + 1] = packet
       /\ \A p \in 1 .. n : packets'[p] = packets[p]
  BY <1>1, <1>2, <1>5, AppendProperties DEF StreamInv
<1>11. /\ ends \in [1 .. n + 1 -> Nat] /\ ends[1] = GreetingLen
       /\ \A p \in 1 .. n :
            /\ ends[p + 1] = ends[p] + (PrefixLen + HeaderLen + packets[p].data)
            /\ packets[p].data > 0 => packets[p].type = "event"
       /\ \A p, q \in 1 .. n + 1 : p < q => ends[p + 1] <= ends[q]
       /\ m = ends[n + 1]
       /\ \A k \in 1 .. m :
            /\ stream[k].packet <= n
            /\ \A p \in 1 .. n :
                 stream[k].packet = p <=> k \in ends[p] + 1 .. ends[p + 1]
       /\ \A p \in 1 .. n : ends[p] + 1 <= m => stream[ends[p] + 1].part = "start"
  BY <1>2, <1>3, <1>5 DEF Layout
<1>12. PICK to : to = [p \in 1 .. n + 2 |-> IF p <= n + 1 THEN ends[p] ELSE m + size]
  OBVIOUS
<1>13. /\ to \in [1 .. n + 2 -> Nat]
       /\ to[n + 2] = m + size
       /\ \A p \in 1 .. n + 1 : to[p] = ends[p]
  <2>1. ASSUME NEW p \in 1 .. n + 2
        PROVE  (IF p <= n + 1 THEN ends[p] ELSE m + size) \in Nat
    <3>1. p <= n + 1 => ends[p] \in Nat BY <1>11
    <3>2. QED BY <3>1
  <2>2. n + 2 \in 1 .. n + 2 /\ \A p \in 1 .. n + 1 : p \in 1 .. n + 2 OBVIOUS
  <2>3. QED BY <1>12, <2>1, <2>2
<1>14. to[n + 1] = m /\ to[1] = GreetingLen BY <1>11, <1>13
<1>15. ASSUME NEW p \in 1 .. n + 1
       PROVE  /\ to[p + 1] = to[p] + (PrefixLen + HeaderLen + packets'[p].data)
              /\ packets'[p].data > 0 => packets'[p].type = "event"
  <2>1. CASE p \in 1 .. n
    <3>1. p \in 1 .. n + 1 /\ p + 1 \in 1 .. n + 1 BY <2>1
    <3>2. to[p] = ends[p] /\ to[p + 1] = ends[p + 1] BY <1>13, <3>1
    <3>3. QED BY <1>10, <1>11, <2>1, <3>2
  <2>2. CASE p = n + 1
    <3>1. to[p + 1] = m + size /\ to[p] = m BY <1>13, <1>14, <2>2
    <3>2. QED BY <1>5, <1>7, <1>10, <2>2, <3>1
  <2>3. QED BY <2>1, <2>2
<1>16. \A p \in 1 .. n + 1 : to[p] \in Nat /\ to[p] <= m
  <2>1. ASSUME NEW p \in 1 .. n PROVE ends[p] <= m
    <3>1. p \in 1 .. n + 1 /\ n + 1 \in 1 .. n + 1 /\ p < n + 1 OBVIOUS
    <3>2. ends[p + 1] <= ends[n + 1] BY <1>11, <3>1
    <3>3. ends[p] \in Nat /\ ends[p + 1] \in Nat
      <4>1. p + 1 \in 1 .. n + 1 OBVIOUS
      <4>2. QED BY <1>11, <3>1, <4>1
    <3>4. packets[p].data \in Nat /\ HeaderLen \in Nat /\ PrefixLen \in Nat
      BY <1>1, <1>2, LayoutFacts DEF PortAssumption, PrefixLen
    <3>5. ends[p + 1] = ends[p] + (PrefixLen + HeaderLen + packets[p].data)
      BY <1>11
    <3>6. PICK a : a = ends[p] OBVIOUS
    <3>7. PICK b : b = ends[p + 1] OBVIOUS
    <3>8. PICK d : d = packets[p].data OBVIOUS
    <3>9. /\ a \in Nat /\ b \in Nat /\ b = a + (PrefixLen + HeaderLen + d)
          /\ d \in Nat /\ b <= m
      BY ONLY <1>11, <3>2, <3>3, <3>4, <3>5, <3>6, <3>7, <3>8
    <3>10. a <= m BY ONLY <1>3, <3>4, <3>9
    <3>11. QED BY ONLY <3>6, <3>10
  <2>2. ASSUME NEW p \in 1 .. n + 1 PROVE to[p] \in Nat /\ to[p] <= m
    <3>1. to[p] = ends[p] /\ ends[p] \in Nat BY <1>11, <1>13
    <3>2. CASE p \in 1 .. n BY <2>1, <3>1, <3>2
    <3>3. CASE p = n + 1 BY <1>14, <3>3
    <3>4. QED BY <3>2, <3>3
  <2>3. QED BY <2>2
<1>17. ASSUME NEW p \in 1 .. n + 2, NEW q \in 1 .. n + 2, p < q
       PROVE  to[p + 1] <= to[q]
  <2>1. CASE q = n + 2
    <3>1. CASE p = n + 1 BY <1>13, <2>1, <3>1
    <3>2. CASE p # n + 1
      <4>1. p + 1 \in 1 .. n + 1 BY <1>17, <2>1, <3>2
      <4>2. to[p + 1] \in Nat /\ to[p + 1] <= m BY <1>16, <4>1
      <4>3. QED BY <1>13, <2>1, <4>2
    <3>3. QED BY <3>1, <3>2
  <2>2. CASE q # n + 2
    <3>1. p \in 1 .. n + 1 /\ q \in 1 .. n + 1 /\ p + 1 \in 1 .. n + 1
      BY <1>17, <2>2
    <3>2. QED BY <1>11, <1>13, <1>17, <3>1
  <2>3. QED BY <2>1, <2>2
<1>18. ASSUME NEW k \in 1 .. m + size
       PROVE  /\ stream'[k].packet <= n + 1
              /\ \A p \in 1 .. n + 1 :
                   stream'[k].packet = p <=> k \in to[p] + 1 .. to[p + 1]
  <2>1. CASE k \in 1 .. m
    <3>1. stream[k].packet \in Nat /\ stream[k].packet <= n /\ stream'[k] = stream[k]
      <4>1. stream[k] \in StreamCell BY <1>1, <1>3, <2>1, ElementOfSeq DEF StreamInv
      <4>2. stream[k].packet \in Nat BY <4>1 DEF StreamCell, PortAssumption
      <4>3. QED BY <1>9, <1>11, <2>1, <4>2
    <3>2. ASSUME NEW p \in 1 .. n
          PROVE  stream[k].packet = p <=> k \in to[p] + 1 .. to[p + 1]
      <4>1. p \in 1 .. n + 1 /\ p + 1 \in 1 .. n + 1 OBVIOUS
      <4>2. to[p] = ends[p] /\ to[p + 1] = ends[p + 1] BY <1>13, <4>1
      <4>3. QED BY <1>11, <2>1, <4>2
    <3>3. ~(k \in to[n + 1] + 1 .. to[n + 2]) BY <1>14, <2>1
    <3>4. stream[k].packet # n + 1 BY <3>1
    <3>5. \A p \in 1 .. n + 1 : p \in 1 .. n \/ p = n + 1 OBVIOUS
    <3>6. n + 1 + 1 = n + 2 OBVIOUS
    <3>7. QED BY <3>1, <3>2, <3>3, <3>4, <3>5, <3>6
  <2>2. CASE k \in m + 1 .. m + size
    <3>1. stream'[k].packet = n + 1
      <4>1. stream'[k] = more[k - m] /\ k - m \in 1 .. size BY <1>9, <2>2
      <4>2. \A c \in 1 .. size : more[c].packet = n + 1 BY <1>8
      <4>3. QED BY ONLY <4>1, <4>2
    <3>2. k \in to[n + 1] + 1 .. to[n + 2] BY <1>13, <1>14, <2>2
    <3>3. ASSUME NEW p \in 1 .. n PROVE ~(k \in to[p] + 1 .. to[p + 1])
      <4>1. p + 1 \in 1 .. n + 1 OBVIOUS
      <4>2. to[p + 1] \in Nat /\ to[p + 1] <= m BY <1>16, <4>1
      <4>3. QED BY <2>2, <4>2
    <3>4. \A p \in 1 .. n + 1 : (p \in 1 .. n /\ p # n + 1) \/ p = n + 1 OBVIOUS
    <3>5. n + 1 + 1 = n + 2 OBVIOUS
    <3>6. QED BY <3>1, <3>2, <3>3, <3>4, <3>5
  <2>3. QED BY <2>1, <2>2
<1>19. ASSUME NEW p \in 1 .. n + 1, to[p] + 1 <= m + size
       PROVE  stream'[to[p] + 1].part = "start"
  <2>1. CASE p = n + 1
    <3>1. m + 1 \in m + 1 .. m + size BY <1>7
    <3>2. stream'[m + 1] = more[m + 1 - m] /\ m + 1 - m \in 1 .. size
      BY <1>9, <3>1
    <3>3. m + 1 - m = 1 OBVIOUS
    <3>4. QED BY <1>8, <1>14, <2>1, <3>2, <3>3
  <2>2. CASE p # n + 1
    <3>1. p \in 1 .. n /\ p + 1 \in 1 .. n + 1 BY <2>2
    <3>2. to[p] = ends[p] /\ to[p] \in Nat BY <1>13, <1>16
    <3>3. to[p] + 1 <= m
      <4>1. to[p + 1] \in Nat /\ to[p + 1] <= m BY <1>16, <3>1
      <4>2. to[p + 1] = to[p] + (PrefixLen + HeaderLen + packets'[p].data)
        BY <1>15
      <4>3. packets'[p].data \in Nat /\ HeaderLen \in Nat /\ PrefixLen = 2
        BY <1>1, <1>2, <1>10, <3>1, LayoutFacts DEF PortAssumption, PrefixLen
      <4>4. QED BY <3>2, <4>1, <4>2, <4>3
    <3>4. to[p] + 1 \in 1 .. m BY <3>2, <3>3
    <3>5. stream[to[p] + 1].part = "start" BY <1>11, <3>1, <3>2, <3>3
    <3>6. stream'[to[p] + 1] = stream[to[p] + 1] BY <1>9, <3>4
    <3>7. QED BY <3>5, <3>6
  <2>3. QED BY <2>1, <2>2
<1>20. Layout(to)'
  BY <1>9, <1>10, <1>13, <1>14, <1>15, <1>17, <1>18, <1>19 DEF Layout
<1>21. QED BY <1>2, <1>3, <1>9, <1>10, <1>13, <1>20

\* The server sends a packet.
LEMMA ServerSendsSent ==
  ASSUME PortAssumption, ListenInv, ~died, SentInv, NEW packet \in Packet,
         ServerSends(packet)
  PROVE  SentInv'
<1>1. PICK ends : /\ Layout(ends)
                  /\ inStep => QueuedWhole(ends)
                  /\ inStep => AtPacket(ends)
  BY DEF SentInv
<1>2. PICK to : /\ Layout(to)'
                /\ \A p \in 1 .. Len(packets) + 1 : to[p] = ends[p]
                /\ Len(packets') = Len(packets) + 1
                /\ \A p \in 1 .. Len(packets) : packets'[p] = packets[p]
                /\ \A k \in 1 .. Len(stream) : stream'[k] = stream[k]
  BY <1>1, LayoutGrows
<1>3. /\ arrived' = arrived
      /\ UNCHANGED <<taken, lpc, got, need, queued, inStep>>
  BY DEF ServerSends, listenVars
<1>4. Len(packets) \in Nat BY LenProperties DEF ListenInv, StreamInv
<1>5. Len(packets') \in Nat /\ Len(packets) <= Len(packets') BY <1>2, <1>4
<1>6. arrived' \in Nat /\ arrived <= arrived' /\ arrived <= Len(stream)
  BY <1>3, ArrivedFacts DEF ListenInv
<1>7. \A k \in 1 .. arrived : stream'[k] = stream[k]
  <2>1. \A k \in 1 .. arrived : k \in 1 .. Len(stream)
    BY <1>6, ArrivedFacts DEF ListenInv
  <2>2. QED BY <1>2, <2>1
<1>8. lpc = "greeting" => inStep BY DEF SentInv
<1>9. QED BY <1>1, <1>2, <1>3, <1>5, <1>6, <1>7, <1>8, SentStreamKeeps

\* A shorter stream has the same layout.
LEMMA ArriveSent ==
  ASSUME PortAssumption, ListenInv, ~died, SentInv, NEW n \in Nat,
         Arrive(n) \/ ServerCloses(n)
  PROVE  SentInv'
<1>1. PICK ends : /\ Layout(ends)
                  /\ inStep => QueuedWhole(ends)
                  /\ inStep => AtPacket(ends)
  BY DEF SentInv
<1>2. /\ taken \in Nat /\ arrived \in Nat /\ Len(stream) \in Nat
      /\ arrived <= Len(stream) /\ stream \in Seq(StreamCell)
      /\ Len(packets) \in Nat
  BY ArrivedFacts, LenProperties DEF ListenInv, StreamInv
<1>3. /\ packets' = packets /\ UNCHANGED <<taken, lpc, got, need, queued, inStep>>
      /\ arrived' \in Nat /\ arrived <= arrived' /\ (peer' => peer)
  BY <1>2 DEF Arrive, ServerCloses, listenVars
<1>4. PICK m \in Nat : m = IF ServerCloses(n) THEN n ELSE Len(stream) BY <1>2
<1>5. /\ Len(stream') = m /\ m <= Len(stream) /\ arrived <= m
      /\ \A k \in 1 .. m : stream'[k] = stream[k] /\ k \in 1 .. Len(stream)
      /\ peer' => m = Len(stream)
  <2>1. CASE ServerCloses(n)
    <3>1. /\ n \in arrived .. Len(stream) /\ stream' = SubSeq(stream, 1, n)
          /\ peer' = FALSE /\ m = n
      BY <1>4, <2>1 DEF ServerCloses
    <3>2. \A k \in 1 .. n : k \in 1 .. Len(stream) BY <1>2, <3>1
    <3>3. Len(stream') = n /\ \A k \in 1 .. n : stream'[k] = stream[k]
      BY <1>2, <3>1, <3>2, SubSeqProperties
    <3>4. QED BY <1>2, <3>1, <3>2, <3>3
  <2>2. CASE ~ServerCloses(n)
    <3>1. stream' = stream /\ m = Len(stream) BY <1>4, <2>2 DEF Arrive
    <3>2. QED BY <1>2, <3>1
  <2>3. QED BY <2>1, <2>2
<1>6. Layout(ends)'
  <2>1. ends[Len(packets) + 1] \in Nat
    <3>1. Len(packets) + 1 \in 1 .. Len(packets) + 1 BY <1>2
    <3>2. QED BY <1>1, <3>1 DEF Layout
  <2>2. /\ Len(stream') <= ends[Len(packets) + 1]
        /\ peer' => Len(stream') = ends[Len(packets) + 1]
    BY <1>1, <1>2, <1>3, <1>5, <2>1 DEF Layout
  <2>3. \A k \in 1 .. Len(stream') :
          /\ stream'[k].packet <= Len(packets)
          /\ \A p \in 1 .. Len(packets) :
               stream'[k].packet = p <=> k \in ends[p] + 1 .. ends[p + 1]
    <3> SUFFICES ASSUME NEW k \in 1 .. m
                 PROVE  /\ stream'[k].packet <= Len(packets)
                        /\ \A p \in 1 .. Len(packets) :
                             stream'[k].packet = p <=> k \in ends[p] + 1 .. ends[p + 1]
      BY <1>5
    <3>1. stream'[k] = stream[k] /\ k \in 1 .. Len(stream) BY <1>5
    <3>2. /\ stream[k].packet <= Len(packets)
          /\ \A p \in 1 .. Len(packets) :
               stream[k].packet = p <=> k \in ends[p] + 1 .. ends[p + 1]
      BY <1>1, <3>1 DEF Layout
    <3>3. QED BY <3>1, <3>2
  <2>4. ASSUME NEW p \in 1 .. Len(packets), ends[p] + 1 <= Len(stream')
        PROVE  stream'[ends[p] + 1].part = "start"
    <3>1. ends[p] \in Nat BY <1>1, LayoutFacts DEF ListenInv
    <3>2. ends[p] + 1 \in 1 .. m /\ ends[p] + 1 <= Len(stream)
      BY <1>2, <1>5, <2>4, <3>1
    <3>3. stream[ends[p] + 1].part = "start" BY <1>1, <3>2 DEF Layout
    <3>4. stream'[ends[p] + 1] = stream[ends[p] + 1] BY <1>5, <3>2
    <3>5. QED BY <3>3, <3>4
  <2>5. QED BY <1>1, <1>3, <2>2, <2>3, <2>4 DEF Layout
<1>7. \A k \in 1 .. arrived : stream'[k] = stream[k]
  <2>1. \A k \in 1 .. arrived : k \in 1 .. m BY <1>2, <1>5
  <2>2. QED BY <1>5, <2>1
<1>8. /\ lpc = "greeting" => inStep
      /\ Len(packets') \in Nat /\ Len(packets) <= Len(packets')
      /\ \A p \in 1 .. Len(packets) : packets'[p] = packets[p]
  BY <1>2, <1>3 DEF SentInv
<1>9. \A p \in 1 .. Len(packets) + 1 : ends[p] = ends[p] OBVIOUS
<1>10. QED BY <1>1, <1>3, <1>6, <1>7, <1>8, <1>9, SentStreamKeeps

\* The router and other threads leave it alone.
LEMMA SentKept ==
  ASSUME SentInv, ~died,
         UNCHANGED <<stream, packets, arrived, peer, taken, lpc, got, need, queued,
                     inStep>>
  PROVE  SentInv'
<1>1. UNCHANGED <<stream, packets, arrived, peer>> OBVIOUS
<1>2. PICK ends : /\ Layout(ends)
                  /\ inStep => QueuedWhole(ends)
                  /\ inStep /\ ~died => AtPacket(ends)
  BY DEF SentInv
<1>3. Layout(ends)'
  <2>1. Layout(ends) BY <1>2
  <2>2. QED BY ONLY <1>1, <2>1, Zenon DEF Layout
<1>4. ASSUME inStep PROVE QueuedWhole(ends)'
  <2>1. QueuedWhole(ends) BY <1>2, <1>4
  <2>2. \A p : IsGood(p)' <=> IsGood(p) BY <1>1 DEF IsGood
  <2>3. \A q : PacketOf(q)' = PacketOf(q) BY <1>1 DEF PacketOf
  <2>4. \A item, p : IsWhole(item, ends, p)' <=> IsWhole(item, ends, p)
    BY <1>1 DEF IsWhole, IsRun
  <2>5. queued' = queued /\ packets' = packets BY <1>1
  <2>6. QED BY <2>1, <2>2, <2>3, <2>4, <2>5 DEF QueuedWhole
<1>5. Begun' = Begun BY DEF Begun
<1>6. \A p : DoneTo(p)' <=> DoneTo(p) BY <1>1 DEF DoneTo, PacketOf, IsGood
<1>7. ASSUME inStep PROVE AtPacket(ends)'
  BY <1>1, <1>2, <1>5, <1>6, <1>7 DEF AtPacket, IsGood, ReadTo, IsRun
<1>8. lpc' = "greeting" => inStep' BY DEF SentInv
<1>9. QED BY <1>3, <1>4, <1>7, <1>8 DEF SentInv

\* The greeting is read, or the name is sent.
LEMMA GreetingSent ==
  ASSUME PortAssumption, ListenInv, ~died, SentInv, ReadGreeting \/ SendName
  PROVE  SentInv'
<1>1. PICK ends : /\ Layout(ends)
                  /\ inStep => QueuedWhole(ends)
                  /\ inStep => AtPacket(ends)
  BY DEF SentInv
<1>2. /\ UNCHANGED <<netVars, queued>> /\ lpc' # "greeting"
      /\ inStep' => inStep
  <2>1. CASE ReadGreeting
    BY <2>1 DEF ReadGreeting, SentInv
  <2>2. CASE SendName
    BY <2>2 DEF SendName, NextPacket
  <2>3. QED BY <2>1, <2>2
<1>3. ASSUME inStep' PROVE AtPacket(ends)'
  <2>1. CASE ReadGreeting
    <3>1. lpc' = "name" /\ taken' = GreetingLen /\ queued' = <<>>
      BY <1>1, <1>2, <1>3, <2>1 DEF ReadGreeting, AtPacket
    <3>2. QED BY <3>1 DEF AtPacket
  <2>2. CASE SendName
    <3>1. /\ NextPacket /\ taken' = taken /\ lpc = "name"
          /\ UNCHANGED <<stream, packets, queued>>
      BY <2>2 DEF SendName, netVars
    <3>2. taken = GreetingLen /\ queued = <<>> BY <1>1, <1>2, <1>3, <3>1 DEF AtPacket
    <3>3. taken' \in Nat BY <3>1, ArrivedFacts DEF ListenInv
    <3>4. Begun' = GreetingLen /\ lpc' = "prefix"
      BY <3>1, <3>2, <3>3, NextPacketGot DEF NextPacket
    <3>5. Begun' = ends[1] BY <1>1, <3>4 DEF Layout
    <3>6. Len(packets) \in Nat BY LenProperties DEF ListenInv, StreamInv
    <3>7. 1 \in 1 .. Len(packets') + 1 BY <3>1, <3>6
    <3>8. Len(queued') = 0 BY <3>1, <3>2, EmptySeq
    <3>9. DoneTo(1)' BY <3>8 DEF DoneTo, PacketOf
    <3>10. QED BY <3>4, <3>5, <3>7, <3>9 DEF AtPacket
  <2>3. QED BY <2>1, <2>2
<1>4. QED BY <1>1, <1>2, <1>3, SentReadKeeps

\* A start code and a length are read.
LEMMA ReadPrefixSent ==
  ASSUME PortAssumption, ListenInv, ~died, SentInv, ReadPrefix
  PROVE  SentInv'
<1>1. PICK ends : /\ Layout(ends)
                  /\ inStep => QueuedWhole(ends)
                  /\ inStep => AtPacket(ends)
  BY DEF SentInv
<1>2. /\ lpc = "prefix" /\ UNCHANGED <<netVars, queued, inStep, died>>
      /\ taken' \in Nat /\ taken' <= arrived /\ Begun \in Nat
      /\ \/ lpc' = "prefix" /\ Begun' = Begun
         \/ lpc' = "header" /\ Begun' = Begun /\ Begun + 1 <= taken'
         \/ /\ lpc' = "prefix" /\ Begun + 1 <= taken'
            /\ stream[Begun + 1].part # "start"
  BY PrefixGot
<1>3. ASSUME inStep PROVE AtPacket(ends)'
  <2>1. PICK p \in 1 .. Len(packets) + 1 : Begun = ends[p] /\ DoneTo(p)
    BY <1>1, <1>2, <1>3 DEF AtPacket
  <2>2. DoneTo(p)' BY <1>2, <2>1, DoneToKept
  <2>3. ASSUME Begun + 1 <= taken'
        PROVE  p \in 1 .. Len(packets) /\ stream[Begun + 1].part = "start"
    <3>1. /\ arrived \in Nat /\ Len(stream) \in Nat /\ arrived <= Len(stream)
          /\ Len(packets) \in Nat
      BY ArrivedFacts, LenProperties DEF ListenInv, StreamInv
    <3>2. Begun + 1 <= Len(stream) BY <1>2, <2>3, <3>1
    <3>3. Len(stream) <= ends[Len(packets) + 1] BY <1>1 DEF Layout
    <3>4. p # Len(packets) + 1
      <4>1. ASSUME p = Len(packets) + 1 PROVE FALSE
        <5>1. Len(stream) <= Begun BY <2>1, <3>3, <4>1
        <5>2. QED BY <1>2, <3>1, <3>2, <5>1
      <4>2. QED BY <4>1
    <3>5. p \in 1 .. Len(packets) BY <3>1, <3>4
    <3>6. QED BY <1>1, <2>1, <3>2, <3>5, CellOfPacket DEF ListenInv
  <2>4. packets' = packets BY <1>2 DEF netVars
  <2>5. CASE lpc' = "prefix" /\ Begun' = Begun
    BY <2>1, <2>2, <2>4, <2>5 DEF AtPacket
  <2>6. CASE lpc' = "header" /\ Begun' = Begun /\ Begun + 1 <= taken'
    <3>1. p \in 1 .. Len(packets) BY <2>3, <2>6
    <3>2. Len(packets) \in Nat BY LenProperties DEF ListenInv, StreamInv
    <3>3. p <= Len(packets) BY <3>1, <3>2
    <3>4. QED BY <2>1, <2>2, <2>4, <2>6, <3>3 DEF AtPacket
  <2>7. QED BY <1>2, <2>3, <2>5, <2>6
<1>4. QED BY <1>1, <1>2, <1>3, SentReadKeeps

\* A header is read; one read takes it whole while the stream keeps its step.
LEMMA ReadHeaderSent ==
  ASSUME PortAssumption, ListenInv, ~died, SentInv, ReadHeader
  PROVE  SentInv'
<1>1. PICK ends : /\ Layout(ends)
                  /\ inStep => QueuedWhole(ends)
                  /\ inStep => AtPacket(ends)
  BY DEF SentInv
<1>2. /\ lpc = "header" /\ taken' = taken + Fewer(HeaderLen, Arrived)
      /\ inStep' = (inStep /\ Fewer(HeaderLen, Arrived) = HeaderLen)
      /\ UNCHANGED <<netVars, queued>>
  BY DEF ReadHeader
<1>3. lpc' # "greeting" BY <1>2 DEF ReadHeader, NextPacket, HeaderRead
<1>4. ASSUME inStep', ~died' PROVE AtPacket(ends)'
  <2>1. inStep /\ Fewer(HeaderLen, Arrived) = HeaderLen /\ taken' = taken + HeaderLen
    BY <1>2, <1>4 DEF ListenInv
  <2>2. PICK p \in 1 .. Len(packets) + 1 :
          Begun = ends[p] /\ DoneTo(p) /\ p <= Len(packets)
    BY <1>1, <1>2, <2>1 DEF AtPacket
  <2>3. Len(packets) \in Nat /\ StreamInv
    BY LenProperties DEF ListenInv, StreamInv
  <2>4. p \in 1 .. Len(packets) BY <2>2, <2>3
  <2>5. /\ Len(got) = PrefixLen /\ got[1] = taken - 1 /\ got[1] \in 1 .. taken
        /\ taken \in Nat
    BY <1>2, HeaderPacket, ArrivedFacts DEF ListenInv
  <2>6. got[1] = ends[p] + 1 /\ taken = ends[p] + 2 /\ ends[p] \in Nat
    <3>1. got # <<>>
      <4>1. Len(got) # 0 BY <2>5 DEF PrefixLen
      <4>2. QED BY ONLY <4>1, EmptySeq
    <3>2. Begun = got[1] - 1 BY <3>1 DEF Begun, BeginOf
    <3>3. ends[p] \in Nat BY <1>1, <2>3, <2>4, LayoutFacts
    <3>4. QED BY <2>2, <2>5, <3>2, <3>3
  <2>7. stream[got[1]].packet = p
    <3>1. /\ arrived \in Nat /\ Len(stream) \in Nat
          /\ taken <= arrived /\ arrived <= Len(stream)
      BY <2>3, ArrivedFacts
    <3>2. ends[p] + 1 <= Len(stream) BY <2>5, <2>6, <3>1
    <3>3. QED BY <1>1, <2>3, <2>4, <2>6, <3>2, CellOfPacket
  <2>8. /\ packets[p].data \in Nat /\ packets[p].type \in PacketType
        /\ ends[p + 1] = ends[p] + (PrefixLen + HeaderLen + packets[p].data)
        /\ ends[p + 1] \in Nat /\ p + 1 \in 1 .. Len(packets) + 1
    BY <1>1, <2>3, <2>4, LayoutFacts
  <2>9. HeaderLen \in Nat /\ HeaderLen \in 0 .. HeaderLen /\ PrefixLen = 2
    BY DEF PortAssumption, PrefixLen
  <2>10. /\ packets' = packets /\ stream' = stream /\ DoneTo(p)'
    BY <1>2, <2>2, DoneToKept DEF netVars
  <2>11. \/ IsGood(p) /\ HeaderRead(HeaderLen, packets[p].data)
         \/ packets[p].type = "bad" /\ NextPacket
    BY <1>4, <2>1, <2>7 DEF ReadHeader, IsGood
  <2>12. CASE IsGood(p) /\ HeaderRead(HeaderLen, packets[p].data)
    <3>1. /\ Begun' = Begun /\ lpc' \in {"data", "push"}
          /\ ReadTo(got', HeaderLen, taken')
          /\ need' = packets[p].data /\ (lpc' = "push" => need' = 0)
          /\ Len(got') = PrefixLen + HeaderLen
      BY <1>2, <2>1, <2>8, <2>9, <2>10, <2>12, HeaderReadGot
    <3>2. ReadTo(got, HeaderLen, taken)' BY <3>1 DEF ReadTo, IsRun
    <3>3. Len(got') + need' = ends[p + 1] - ends[p]
      <4>1. PICK a : a = ends[p] OBVIOUS
      <4>2. PICK d : d = packets[p].data OBVIOUS
      <4>3. a \in Nat /\ d \in Nat BY ONLY <2>6, <2>8, <4>1, <4>2
      <4>4. ends[p + 1] = a + (PrefixLen + HeaderLen + d) BY ONLY <2>8, <4>1, <4>2
      <4>5. (PrefixLen + HeaderLen) + d = (a + (PrefixLen + HeaderLen + d)) - a
        BY ONLY <2>9, <4>3
      <4>6. QED BY ONLY <3>1, <4>1, <4>2, <4>4, <4>5
    <3>4. IsGood(p)' BY <2>10, <2>12 DEF IsGood
    <3>5. QED BY <2>2, <2>10, <3>1, <3>2, <3>3, <3>4 DEF AtPacket
  <2>13. CASE packets[p].type = "bad" /\ NextPacket
    <3>1. Begun' = taken' /\ lpc' = "prefix"
      <4>1. taken' \in Nat BY <2>1, <2>5, <2>9
      <4>2. QED BY <2>13, <4>1, NextPacketGot DEF NextPacket
    <3>2. packets[p].data = 0
      <4>1. packets[p].data > 0 => packets[p].type = "event"
        BY <1>1, <2>4 DEF Layout
      <4>2. QED BY <2>8, <2>13, <4>1
    <3>3. Begun' = ends[p + 1]
      BY <2>1, <2>6, <2>8, <2>9, <3>1, <3>2
    <3>4. ~IsGood(p)' BY <2>10, <2>13 DEF IsGood
    <3>5. DoneTo(p + 1)'
      <4>1. PICK last : last = PacketOf(Len(queued))' OBVIOUS
      <4>2. last < p /\ \A between \in last + 1 .. p - 1 : ~IsGood(between)'
        BY <2>10, <4>1 DEF DoneTo
      <4>3. last \in Int
        <5>1. queued' = queued BY <1>2
        <5>2. last = PacketOf(Len(queued)) BY <2>10, <4>1, <5>1 DEF PacketOf
        <5>3. CASE Len(queued) = 0 BY <5>2, <5>3 DEF PacketOf
        <5>4. CASE Len(queued) # 0
          <6>1. Len(queued) \in 1 .. Len(queued)
            BY <5>4, LenProperties DEF ListenInv
          <6>2. QED BY <1>1, <2>1, <5>2, <6>1 DEF QueuedWhole
        <5>5. QED BY <5>3, <5>4
      <4>4. last < p + 1 BY <2>4, <4>2, <4>3
      <4>5. \A between \in last + 1 .. p + 1 - 1 :
              between \in last + 1 .. p - 1 \/ between = p
        BY <2>4, <4>3
      <4>6. \A between \in last + 1 .. p + 1 - 1 : ~IsGood(between)'
        BY <3>4, <4>2, <4>5
      <4>7. QED BY <4>1, <4>4, <4>6 DEF DoneTo
    <3>6. QED BY <2>8, <2>10, <3>1, <3>3, <3>5 DEF AtPacket
  <2>14. QED BY <2>11, <2>12, <2>13
<1>5. inStep' => inStep BY <1>2 DEF ListenInv
<1>6. QED BY <1>1, <1>2, <1>3, <1>4, <1>5, SentReadKeeps

\* Data is read.
LEMMA ReadDataSent ==
  ASSUME PortAssumption, ListenInv, ~died, SentInv, ReadData
  PROVE  SentInv'
<1>1. PICK ends : /\ Layout(ends)
                  /\ inStep => QueuedWhole(ends)
                  /\ inStep => AtPacket(ends)
  BY DEF SentInv
<1>2. PICK n : n = Fewer(need, Arrived) OBVIOUS
<1>3. /\ lpc = "data" /\ n > 0 /\ taken' = taken + n
      /\ got' = got \o Positions(taken, n) /\ need' = need - n
      /\ lpc' \in {"data", "push"} /\ (lpc' = "push" => n = need)
      /\ UNCHANGED <<netVars, queued, inStep, died>>
  BY <1>2 DEF ReadData
<1>4. /\ taken \in Nat /\ Arrived \in Nat /\ need \in Nat /\ got \in Seq(Nat)
      /\ Len(got) \in Nat
  BY ArrivedFacts, LenProperties DEF ListenInv
<1>5. n \in Nat /\ n <= need BY <1>2, <1>3, <1>4, FewerFacts
<1>6. ASSUME inStep PROVE AtPacket(ends)'
  <2>1. PICK p \in 1 .. Len(packets) + 1 :
          /\ Begun = ends[p] /\ DoneTo(p) /\ p <= Len(packets)
          /\ IsGood(p) /\ ReadTo(got, HeaderLen, taken)
          /\ Len(got) + need = ends[p + 1] - ends[p]
    BY <1>1, <1>3, <1>6 DEF AtPacket
  <2>2. HeaderLen \in 0 .. HeaderLen BY DEF PortAssumption
  <2>3. LET on == got \o Positions(taken, n)
        IN  /\ on \in Seq(Nat) /\ Len(on) = Len(got) + n /\ on[1] = got[1]
            /\ ReadTo(on, HeaderLen, taken + n)
    BY ONLY <1>4, <1>5, <2>1, <2>2, DataIsRun, PortAssumption
  <2>4. /\ got' \in Seq(Nat) /\ Len(got') = Len(got) + n /\ got'[1] = got[1]
        /\ ReadTo(got', HeaderLen, taken') /\ taken' \in Nat
    <3>1. taken' \in Nat BY <1>3, <1>4, <1>5
    <3>2. QED BY ONLY <1>3, <2>3, <3>1
  <2>5. got # <<>> /\ got' # <<>> BY <1>4, <2>1, <2>2, <2>4, RunEnds
  <2>6. Begun' = Begun BY <2>4, <2>5 DEF Begun, BeginOf
  <2>7. Len(got') + need' = Len(got) + need BY <1>3, <1>4, <1>5, <2>4
  <2>8. lpc' = "push" => need' = 0 BY <1>3, <1>4
  <2>9. packets' = packets /\ DoneTo(p)' BY <1>3, <2>1, DoneToKept DEF netVars
  <2>10. IsGood(p)' BY <2>1, <2>9 DEF IsGood
  <2>11. ReadTo(got, HeaderLen, taken)' BY <2>4 DEF ReadTo, IsRun
  <2>12. QED
    BY <1>3, <2>1, <2>6, <2>7, <2>8, <2>9, <2>10, <2>11 DEF AtPacket
<1>7. lpc' # "greeting" BY <1>3
<1>8. QED BY <1>1, <1>3, <1>6, <1>7, SentReadKeeps

\* The connection ends.
LEMMA EndSent ==
  ASSUME ListenInv, ~died, SentInv, ReadEnd \/ ResetSd
  PROVE  SentInv'
<1>1. PICK ends : /\ Layout(ends)
                  /\ inStep => QueuedWhole(ends)
                  /\ inStep => AtPacket(ends)
  BY DEF SentInv
<1>2. lpc' \in {"closed", "gone"} /\ UNCHANGED <<netVars, queued, inStep>>
  BY DEF ReadEnd, ResetSd
<1>3. AtPacket(ends)' BY <1>2 DEF AtPacket
<1>4. lpc' # "greeting" BY <1>2
<1>5. QED BY <1>1, <1>2, <1>3, <1>4, SentReadKeeps

\* A packet is queued.
LEMMA PushSent ==
  ASSUME PortAssumption, ListenInv, ~died, SentInv, Push
  PROVE  SentInv'
<1>1. PICK ends : /\ Layout(ends)
                  /\ inStep => QueuedWhole(ends)
                  /\ inStep => AtPacket(ends)
  BY DEF SentInv
<1>2. /\ lpc = "push" /\ queued' = Append(queued, got) /\ NextPacket
      /\ UNCHANGED <<stream, packets, arrived, peer, taken, inStep, died>>
  BY DEF Push, netVars
<1>3. Layout(ends)'
  <2>1. Layout(ends) BY <1>1
  <2>2. QED BY ONLY <1>2, <2>1, Zenon DEF Layout
<1>4. lpc' = "prefix" BY <1>2 DEF NextPacket
<1>5. PICK last \in Nat : last = Len(queued) BY LenProperties DEF ListenInv
<1>6. /\ Len(queued') = last + 1 /\ queued'[last + 1] = got
      /\ \A q \in 1 .. last : queued'[q] = queued[q]
      /\ got \in Seq(Nat)
  BY <1>2, <1>5, AppendProperties DEF ListenInv
<1>7. \A q \in 0 .. last : PacketOf(q)' = PacketOf(q)
  <2>1. \A q \in 0 .. last : q = 0 \/ q \in 1 .. last OBVIOUS
  <2>2. QED BY <1>2, <1>6, <2>1 DEF PacketOf
<1>8. ASSUME inStep
      PROVE  QueuedWhole(ends)' /\ AtPacket(ends)'
  <2>1. PICK p \in 1 .. Len(packets) + 1 :
          /\ Begun = ends[p] /\ DoneTo(p) /\ p <= Len(packets)
          /\ IsGood(p) /\ ReadTo(got, HeaderLen, taken)
          /\ Len(got) + need = ends[p + 1] - ends[p]
          /\ need = 0
    BY <1>1, <1>2, <1>8 DEF AtPacket
  <2>2. Len(packets) \in Nat /\ StreamInv
    BY LenProperties DEF ListenInv, StreamInv
  <2>3. p \in 1 .. Len(packets) BY <2>1, <2>2
  <2>4. /\ taken \in Nat /\ arrived \in Nat /\ Len(stream) \in Nat
        /\ taken <= arrived /\ arrived <= Len(stream)
    BY <2>2, ArrivedFacts
  <2>5. /\ ends[p] \in Nat /\ ends[p + 1] \in Nat /\ p + 1 \in 1 .. Len(packets) + 1
        /\ HeaderLen \in 0 .. HeaderLen /\ HeaderLen \in Nat
    BY <1>1, <2>2, <2>3, LayoutFacts DEF PortAssumption
  <2>6. got # <<>> /\ Len(got) \in Nat
    BY <1>6, <2>1, <2>4, <2>5, RunEnds, LenProperties
  <2>7. got[1] \in Nat /\ got[1] = ends[p] + 1
    <3>1. Begun = got[1] - 1 BY <2>6 DEF Begun, BeginOf
    <3>2. got[1] \in Nat BY <1>2 DEF ListenInv, GotInv
    <3>3. QED BY <2>1, <2>5, <3>1, <3>2
  <2>8. Len(got) = ends[p + 1] - ends[p] /\ taken = ends[p + 1]
    <3>1. Len(got) = ends[p + 1] - ends[p] BY <2>1, <2>5, <2>6
    <3>2. taken = got[1] + (Len(got) - 1) - (HeaderLen - HeaderLen)
      BY <2>1 DEF ReadTo
    <3>3. PICK a : a = ends[p] OBVIOUS
    <3>4. PICK b : b = ends[p + 1] OBVIOUS
    <3>5. a \in Nat /\ b \in Nat /\ HeaderLen \in Nat BY ONLY <2>5, <3>3, <3>4
    <3>6. Len(got) = b - a /\ got[1] = a + 1 BY ONLY <2>7, <3>1, <3>3, <3>4
    <3>7. (a + 1) + ((b - a) - 1) - (HeaderLen - HeaderLen) = b BY ONLY <3>5
    <3>8. taken = b BY ONLY <3>2, <3>6, <3>7
    <3>9. QED BY ONLY <3>1, <3>4, <3>8
  <2>9. IsWhole(got, ends, p) BY <2>1, <2>4, <2>7, <2>8 DEF IsWhole, ReadTo
  <2>10. PacketOf(last + 1)' = p
    <3>1. ends[p] + 1 <= Len(stream)
      <4>1. ends[p] + PrefixLen + HeaderLen <= ends[p + 1] /\ PrefixLen = 2
        BY <1>1, <2>2, <2>3, LayoutFacts DEF PrefixLen
      <4>2. PICK a : a = ends[p] OBVIOUS
      <4>3. PICK b : b = ends[p + 1] OBVIOUS
      <4>4. a \in Nat /\ b \in Nat /\ a + 2 + HeaderLen <= b /\ b = taken
        BY ONLY <2>5, <2>8, <4>1, <4>2, <4>3
      <4>5. a + 1 <= Len(stream) BY ONLY <2>4, <2>5, <4>4
      <4>6. QED BY ONLY <4>2, <4>5
    <3>2. stream[got[1]].packet = p
      BY <1>1, <2>2, <2>3, <2>7, <3>1, CellOfPacket
    <3>3. QED BY <1>2, <1>5, <1>6, <3>2 DEF PacketOf
  <2>11. PICK before : before = PacketOf(last) OBVIOUS
  <2>12. before < p /\ \A between \in before + 1 .. p - 1 : ~IsGood(between)
    BY <1>5, <2>1, <2>11 DEF DoneTo
  <2>13. PacketOf(last)' = before
    <3>1. last \in 0 .. last OBVIOUS
    <3>2. QED BY <1>7, <2>11, <3>1
  <2>14. \A b : IsGood(b)' <=> IsGood(b) BY <1>2 DEF IsGood
  <2>15. QueuedWhole(ends)'
    <3> SUFFICES ASSUME NEW q \in 1 .. last + 1
                 PROVE  /\ PacketOf(q)' \in 1 .. Len(packets)
                        /\ IsGood(PacketOf(q))'
                        /\ IsWhole(queued[q], ends, PacketOf(q))'
                        /\ PacketOf(q - 1)' < PacketOf(q)'
                        /\ \A b \in PacketOf(q - 1)' + 1 .. PacketOf(q)' - 1 :
                             ~IsGood(b)'
      BY <1>2, <1>6 DEF QueuedWhole
    <3>1. CASE q \in 1 .. last
      <4>1. /\ PacketOf(q) \in 1 .. Len(packets) /\ IsGood(PacketOf(q))
            /\ IsWhole(queued[q], ends, PacketOf(q))
            /\ PacketOf(q - 1) < PacketOf(q)
            /\ \A b \in PacketOf(q - 1) + 1 .. PacketOf(q) - 1 : ~IsGood(b)
        BY <1>1, <1>5, <1>8, <3>1 DEF QueuedWhole
      <4>2. PacketOf(q)' = PacketOf(q) /\ PacketOf(q - 1)' = PacketOf(q - 1)
        <5>1. q \in 0 .. last /\ q - 1 \in 0 .. last BY <3>1
        <5>2. QED BY <1>7, <5>1
      <4>3. queued'[q] = queued[q] BY <1>6, <3>1
      <4>4. IsGood(PacketOf(q))' BY <1>2, <4>1, <4>2 DEF IsGood
      <4>5. IsWhole(queued[q], ends, PacketOf(q))'
        BY <1>2, <4>1, <4>2, <4>3 DEF IsWhole, IsRun
      <4>6. QED BY <2>14, <4>1, <4>2, <4>4, <4>5
    <3>2. CASE q = last + 1
      <4>1. PacketOf(q)' = p /\ PacketOf(q - 1)' = before
        <5>1. q - 1 = last BY <3>2
        <5>2. QED BY <2>10, <2>13, <3>2, <5>1
      <4>2. IsGood(PacketOf(q))' BY <1>2, <2>1, <4>1 DEF IsGood
      <4>3. IsWhole(queued[q], ends, PacketOf(q))'
        BY <1>2, <1>6, <2>9, <3>2, <4>1 DEF IsWhole, IsRun
      <4>4. QED BY <2>3, <2>12, <2>14, <4>1, <4>2, <4>3
    <3>3. QED BY <3>1, <3>2
  <2>16. Begun' = ends[p + 1]
    BY <1>2, <2>4, <2>8, NextPacketGot
  <2>17. DoneTo(p + 1)'
    <3>1. PacketOf(Len(queued))' = p BY <1>6, <2>10 DEF PacketOf
    <3>2. p < p + 1 /\ \A b \in p + 1 .. p + 1 - 1 : FALSE BY <2>3
    <3>3. QED BY <3>1, <3>2 DEF DoneTo
  <2>18. AtPacket(ends)' BY <1>2, <1>4, <2>5, <2>16, <2>17 DEF AtPacket
  <2>19. QED BY <2>15, <2>18
<1>9. QED BY <1>2, <1>3, <1>4, <1>8 DEF SentInv

\* The state of a new port.
LEMMA SentInvStarts == ASSUME PortAssumption, Init PROVE SentInv
<1>1. /\ packets = <<>> /\ peer = TRUE /\ lpc = "greeting" /\ queued = <<>>
      /\ taken = 0 /\ inStep = TRUE
      /\ stream = [k \in 1 .. GreetingLen |-> Cell("greeting", 0)]
  BY DEF Init
<1>2. GreetingLen \in Nat /\ StreamInv
  BY ListenInvStarts DEF PortAssumption, ListenInv
<1>3. Len(packets) = 0 /\ Len(queued) = 0 BY <1>1, EmptySeq
<1>4. DOMAIN stream = 1 .. GreetingLen BY <1>1
<1>5. Len(stream) = GreetingLen
  BY <1>2, <1>4, LenProperties DEF StreamInv
<1>6. \A k \in 1 .. GreetingLen : stream[k].packet = 0 BY <1>1 DEF Cell
<1>7. PICK ends : ends = [p \in 1 .. 1 |-> GreetingLen] OBVIOUS
<1>8. ends \in [1 .. 1 -> Nat] /\ ends[1] = GreetingLen BY <1>2, <1>7
<1>9. Layout(ends) BY <1>1, <1>3, <1>5, <1>6, <1>8 DEF Layout
<1>10. QueuedWhole(ends) /\ AtPacket(ends)
  BY <1>1, <1>3 DEF QueuedWhole, AtPacket
<1>11. QED BY <1>1, <1>9, <1>10 DEF SentInv

\* Every step of the port, and every stutter, keeps the invariant.
LEMMA SentNextKeeps == ASSUME PortAssumption, ListenInv, SentInv, [Next]_vars
                       PROVE  SentInv'
<1>1. CASE UNCHANGED vars
  <2>1. UNCHANGED <<stream, packets, arrived, peer, taken, lpc, got, need, queued,
                    inStep, died>>
    BY <1>1 DEF vars, netVars, listenVars
  <2>2. \A ends : Layout(ends)' <=> Layout(ends) BY <2>1 DEF Layout
  <2>3. \A ends : QueuedWhole(ends)' <=> QueuedWhole(ends)
    BY <2>1 DEF QueuedWhole, PacketOf, IsGood, IsWhole, IsRun
  <2>4. \A ends : AtPacket(ends)' <=> AtPacket(ends)
    BY <2>1 DEF AtPacket, DoneTo, PacketOf, IsGood, ReadTo, IsRun, Begun
  <2>5. QED BY <2>1, <2>2, <2>3, <2>4 DEF SentInv
<1>2. CASE Next
  <2>1. ~died BY <1>2 DEF Next
  <2>2. CASE \E packet \in Packet : ServerSends(packet)
    BY <2>1, <2>2, ServerSendsSent
  <2>3. CASE Arrives
    <3>1. PICK n \in 1 .. Len(stream) : Arrive(n) BY <2>3 DEF Arrives
    <3>2. QED BY <2>1, <3>1, ArriveSent
  <2>4. CASE \E n \in 0 .. Len(stream) : ServerCloses(n)
    <3>1. PICK n \in 0 .. Len(stream) : ServerCloses(n) BY <2>4
    <3>2. QED BY <2>1, <3>1, ArriveSent
  <2>5. CASE Listen
    BY <2>1, <2>5, GreetingSent, ReadPrefixSent, ReadHeaderSent, ReadDataSent,
       PushSent, EndSent DEF Listen
  <2>6. CASE ServerStopsReading \/ (\E n \in MessageLens : Route(n)) \/ Sends \/ Others
    <3>1. UNCHANGED <<stream, packets, arrived, peer, taken, lpc, got, need, queued,
                      inStep>>
      BY <2>6 DEF ServerStopsReading, Route, Sends, Write, WriteFails, Others,
                  netVars, listenVars
    <3>2. QED BY <2>1, <3>1, SentKept
  <2>7. QED BY <1>2, <2>2, <2>3, <2>4, <2>5, <2>6 DEF Next
<1>3. QED BY <1>1, <1>2

\* NodePort::listen queues what the server sends while one read yields each
\* header whole and the greeting alone: every event and command from the first
\* on, with all of its bytes in order, and nothing else, however the stream is
\* cut and wherever the connection ends.
THEOREM QueuedAreSentCorrect == Spec => []QueuedAreSent
<1>1. Init => ListenInv /\ SentInv
  BY PortAssumption, ListenInvStarts, SentInvStarts
<1>2. ListenInv /\ SentInv /\ [Next]_vars => ListenInv' /\ SentInv'
  BY PortAssumption, ListenNextKeeps, SentNextKeeps
<1>3. ListenInv /\ SentInv => QueuedAreSent
  BY PortAssumption, SentIsSent
<1>4. QED
  BY <1>1, <1>2, <1>3, PTL DEF Spec

-----------------------------------------------------------------------------
(* What the server gets are the messages of the router.                    *)

\* c is the last cell of a message the server has got.
AtText(c) ==
  \E j \in TextPlaces \cup {0} :
    c = UpTo(j) /\ \A l \in j + 1 .. Len(up) : up[l] = ClientName

\* The messages up to m are written when c is the last cell.
Finished(c, m) ==
  /\ c[1] \in 0 .. m
  /\ c # ClientName => ~(c[2] < routed[c[1]])
  /\ \A e \in c[1] + 1 .. m : routed[e] = 0

\* The router has written its message up to the page i and the cell sent of it.
RouterAt(c) ==
  /\ rpc \in {"idle", "write"}
  /\ rpc = "idle" => Finished(c, Len(routed))
  /\ rpc = "write" =>
       /\ sd = "fd" /\ i \in Nat /\ sent \in Nat /\ sizeToSend \in Nat
       /\ Len(routed) # 0 /\ i * Page <= Last(routed)
       /\ length = Last(routed) - i * Page
       /\ sent + sizeToSend = PageOf(length)
       /\ sizeToSend = 0 => sent = 0
       /\ IF sent + i * Page = 0 THEN Finished(c, Len(routed) - 1)
          ELSE c = <<Len(routed), sent + i * Page>>

\* The invariant.  While the server is there nobody closes the descriptor, and
\* the router's place in its message is behind what the server has got.
UpInv ==
  /\ up \in Seq(Nat \X Nat) /\ routed \in Seq(MessageLens)
  /\ \A k \in TextPlaces : up[k][1] \in 1 .. Len(routed)
  /\ UpIsPrefix
  /\ peer => /\ fd = "server" /\ mSd = "fd" /\ lpc \notin {"closed", "gone"}
             /\ \E c : AtText(c) /\ RouterAt(c)

\* The next page of n cells.
LEMMA PageOfFacts ==
  ASSUME PortAssumption, NEW n \in Nat
  PROVE  /\ PageOf(n) \in Nat /\ PageOf(n) <= n /\ PageOf(n) <= Page
         /\ PageOf(n) = 0 => n = 0
         /\ n >= Page => PageOf(n) = Page
         /\ n < Page => PageOf(n) = n
BY DEF PortAssumption, PageOf

\* There is a page behind page j if that one is full.
LEMMA LastPage ==
  ASSUME PortAssumption, NEW n \in Nat, NEW j \in Nat, j * Page <= n
  PROVE  /\ j * Page \in Nat /\ (j + 1) * Page = j * Page + Page
         /\ j + 1 < NrPages(n) <=> (j + 1) * Page <= n
<1>1. Page \in Nat /\ Page > 0 BY DEF PortAssumption
<1>2. j * Page \in Nat /\ (j + 1) * Page = j * Page + Page BY <1>1
<1> DEFINE q == n \div Page
           r == n % Page
<1>3. q \in Nat /\ r \in Nat /\ r < Page /\ n = q * Page + r BY <1>1
<1>4. NrPages(n) = q + 1 BY DEF NrPages
<1> HIDE DEF q, r
<1>5. ASSUME j + 1 <= q PROVE (j + 1) * Page <= n
  BY <1>1, <1>3, <1>5
<1>6. ASSUME (j + 1) * Page <= n, j + 1 > q PROVE FALSE
  <2>1. j + 1 >= q + 1 BY <1>3, <1>6
  <2>2. (j + 1) * Page >= (q + 1) * Page BY <1>1, <1>3, <2>1
  <2>3. (q + 1) * Page = q * Page + Page BY <1>1, <1>3
  <2>4. QED BY <1>1, <1>3, <1>6, <2>2, <2>3
<1>7. QED BY <1>2, <1>3, <1>4, <1>5, <1>6

\* Cells that follow each other, and the last one before them, are put behind.
LEMMA CellsFollow ==
  ASSUME up \in Seq(Nat \X Nat), UpIsPrefix, NEW c, AtText(c),
         NEW w \in Nat, w > 0, NEW more \in Seq(Nat \X Nat), Len(more) = w,
         \A b \in 1 .. w : more[b] # ClientName,
         Follows(c, more[1]),
         \A b \in 2 .. w : Follows(more[b - 1], more[b]),
         up' = up \o more, routed' = routed
  PROVE  UpIsPrefix' /\ AtText(more[w])' /\ up' \in Seq(Nat \X Nat)
         /\ \A k \in TextPlaces' :
              \/ k \in TextPlaces /\ up'[k] = up[k]
              \/ \E b \in 1 .. w : up'[k] = more[b]
<1>1. PICK n \in Nat : n = Len(up) BY LenProperties
<1>2. /\ up' \in Seq(Nat \X Nat) /\ Len(up') = n + w
      /\ \A k \in 1 .. n : up'[k] = up[k]
      /\ \A k \in n + 1 .. n + w : up'[k] = more[k - n] /\ k - n \in 1 .. w
  <2>1. Joined(up, more, up', Nat \X Nat) BY JoinFacts
  <2>2. QED BY <1>1, <2>1 DEF Joined
<1>3. \A k \in 1 .. n + w : k \in 1 .. n \/ k \in n + 1 .. n + w OBVIOUS
<1>4. \A k \in TextPlaces' :
        /\ k \in 1 .. n + w /\ up'[k] # ClientName
        /\ k \in 1 .. n => k \in TextPlaces /\ up'[k] = up[k]
  BY <1>1, <1>2 DEF TextPlaces
<1>5. \A k \in n + 1 .. n + w : k \in TextPlaces'
  <2>1. \A k \in n + 1 .. n + w : k \in 1 .. n + w OBVIOUS
  <2>2. QED BY <1>2, <2>1 DEF TextPlaces
<1>6. PICK j0 \in TextPlaces \cup {0} :
        c = UpTo(j0) /\ \A l \in j0 + 1 .. n : up[l] = ClientName
  BY <1>1 DEF AtText
<1>7. j0 \in 0 .. n /\ (j0 # 0 => up[j0] # ClientName)
  BY <1>1, <1>6 DEF TextPlaces
<1>8. \A a, b : Follows(a, b)' <=> Follows(a, b) BY DEF Follows, Begins
<1>9. ASSUME NEW k \in TextPlaces', NEW j \in TextPlaces' \cup {0}, j < k,
             \A l \in j + 1 .. k - 1 : up'[l] = ClientName
      PROVE  Follows(UpTo(j)', up'[k])
  <2>1. k \in 1 .. n + w /\ j \in 0 .. n + w BY <1>4
  <2>2. CASE k \in 1 .. n
    <3>1. j \in TextPlaces \cup {0} /\ k \in TextPlaces /\ up'[k] = up[k]
      <4>1. k \in TextPlaces /\ up'[k] = up[k] BY <1>4, <1>9, <2>2
      <4>2. j = 0 \/ j \in 1 .. n BY <1>9, <2>1, <2>2
      <4>3. j # 0 => j \in TextPlaces'
        <5>1. SUFFICES ASSUME j # 0 PROVE j \in TextPlaces' OBVIOUS
        <5>2. QED BY ONLY <1>9, <5>1
      <4>4. j # 0 => j \in TextPlaces BY <1>4, <4>2, <4>3
      <4>5. QED BY <4>1, <4>4
    <3>2. UpTo(j)' = UpTo(j)
      <4>1. j # 0 => j \in 1 .. n BY <1>9, <2>1, <2>2
      <4>2. QED BY <1>2, <4>1 DEF UpTo
    <3>3. \A l \in j + 1 .. k - 1 : up[l] = ClientName
      <4>1. \A l \in j + 1 .. k - 1 : l \in 1 .. n BY <2>1, <2>2
      <4>2. QED BY <1>2, <1>9, <4>1
    <3>4. QED BY <1>9, <3>1, <3>2, <3>3 DEF UpIsPrefix
  <2>3. CASE k = n + 1
    <3>1. up'[k] = more[1]
      <4>1. n + 1 \in n + 1 .. n + w /\ n + 1 - n = 1 OBVIOUS
      <4>2. \A l \in n + 1 .. n + w : up'[l] = more[l - n] BY <1>2
      <4>3. up'[n + 1] = more[n + 1 - n] BY ONLY <4>1, <4>2
      <4>4. QED BY ONLY <2>3, <4>1, <4>3
    <3>2. j \in 0 .. n BY <1>9, <2>1, <2>3
    <3>3. \A l \in j + 1 .. n : up[l] = ClientName
      <4>1. \A l \in j + 1 .. n : l \in 1 .. n /\ l \in j + 1 .. k - 1
        BY <2>3, <3>2
      <4>2. QED BY <1>2, <1>9, <4>1
    <3>4. j # 0 => up[j] # ClientName
      <4>1. j # 0 => j \in 1 .. n BY <3>2
      <4>2. QED BY <1>2, <1>4, <1>9, <4>1
    <3>5. ~(j < j0)
      <4>1. j < j0 => j0 \in j + 1 .. n BY <1>7, <3>2
      <4>2. j < j0 => j0 # 0 BY <3>2
      <4>3. QED BY <1>7, <3>3, <4>1, <4>2
    <3>6. ~(j0 < j)
      <4>1. j0 < j => j \in j0 + 1 .. n BY <1>7, <3>2
      <4>2. j0 < j => j # 0 BY <1>7
      <4>3. QED BY <1>6, <3>4, <4>1, <4>2
    <3>7. j = j0 BY <1>7, <3>2, <3>5, <3>6
    <3>8. UpTo(j)' = c
      <4>1. j # 0 => j \in 1 .. n BY <3>2
      <4>2. QED BY <1>2, <1>6, <3>7, <4>1 DEF UpTo
    <3>9. QED BY <3>1, <3>8
  <2>4. CASE k \in n + 2 .. n + w
    <3>1. k - 1 \in n + 1 .. n + w /\ k \in n + 1 .. n + w /\ k - 1 - n = k - n - 1
      BY <2>4
    <3>2. up'[k - 1] = more[k - n - 1] /\ up'[k] = more[k - n]
      BY <1>2, <3>1
    <3>3. up'[k - 1] # ClientName BY <1>4, <1>5, <3>1
    <3>4. j = k - 1
      <4>1. j # k - 1 => k - 1 \in j + 1 .. k - 1 BY <1>9, <2>1, <2>4
      <4>2. QED BY <1>9, <3>3, <4>1
    <3>5. UpTo(j)' = more[k - n - 1]
      <4>1. j # 0 BY <2>4, <3>4
      <4>2. QED BY <3>2, <3>4, <4>1 DEF UpTo
    <3>6. k - n \in 2 .. w BY <2>4
    <3>7. QED BY <3>2, <3>5, <3>6
  <2>5. k \in 1 .. n \/ k = n + 1 \/ k \in n + 2 .. n + w BY <2>1
  <2>6. QED BY <2>2, <2>3, <2>4, <2>5
<1>10. UpIsPrefix' BY <1>8, <1>9 DEF UpIsPrefix
<1>11. AtText(more[w])'
  <2>1. n + w \in n + 1 .. n + w /\ n + w - n = w OBVIOUS
  <2>2. n + w \in TextPlaces' /\ up'[n + w] = more[w]
    <3>1. n + w \in TextPlaces' BY <1>5, <2>1
    <3>2. up'[n + w] = more[n + w - n] BY <1>2, <2>1
    <3>3. QED BY <2>1, <3>1, <3>2
  <2>3. UpTo(n + w)' = more[w]
    <3>1. n + w # 0 OBVIOUS
    <3>2. QED BY <2>2, <3>1 DEF UpTo
  <2>4. \A l \in n + w + 1 .. Len(up') : up'[l] = ClientName BY <1>2
  <2>5. QED BY <2>2, <2>3, <2>4 DEF AtText
<1>12. QED BY <1>2, <1>3, <1>4, <1>10, <1>11


\* A step that is not the router's, nor writes the name.
LEMMA UpKept ==
  ASSUME UpInv,
         UNCHANGED <<up, routed, rpc, sd, length, i, sent, sizeToSend>>,
         peer' => /\ peer /\ UNCHANGED <<fd, mSd>>
                  /\ lpc' \notin {"closed", "gone"}
  PROVE  UpInv'
<1>1. TextPlaces' = TextPlaces /\ \A j : UpTo(j)' = UpTo(j)
  BY DEF TextPlaces, UpTo
<1>2. \A c, d : Follows(c, d)' <=> Follows(c, d) BY DEF Follows, Begins
<1>3. UpIsPrefix' BY <1>1, <1>2 DEF UpInv, UpIsPrefix
<1>4. \A c : AtText(c)' <=> AtText(c) BY <1>1 DEF AtText
<1>5. \A c : RouterAt(c)' <=> RouterAt(c) BY DEF RouterAt, Finished
<1>6. QED BY <1>1, <1>3, <1>4, <1>5 DEF UpInv

\* The last cell is the name's or one of a message.
LEMMA AtTextFacts ==
  ASSUME UpInv, NEW c, AtText(c)
  PROVE  c # ClientName => c[1] \in 1 .. Len(routed)
<1>1. PICK j \in TextPlaces \cup {0} : c = UpTo(j) BY DEF AtText
<1>2. CASE j = 0 BY <1>1, <1>2 DEF UpTo
<1>3. CASE j # 0 BY <1>1, <1>3 DEF UpTo, UpInv
<1>4. QED BY <1>2, <1>3

\* The name may come anywhere.
LEMMA SendNameUp == ASSUME UpInv, SendName
                    PROVE  UpInv'
<1>1. /\ UNCHANGED <<peer, fd, mSd, routed, rpc, sd, length, i, sent, sizeToSend>>
      /\ lpc' = "prefix"
  BY DEF SendName, NextPacket, netVars, routerVars
<1>2. CASE up' = up BY <1>1, <1>2, UpKept
<1>3. CASE up' = Append(up, ClientName)
  <2>1. PICK n \in Nat : n = Len(up) BY LenProperties DEF UpInv
  <2>2. ClientName \in Nat \X Nat BY DEF ClientName
  <2>3. /\ up' \in Seq(Nat \X Nat) /\ Len(up') = n + 1
        /\ \A k \in 1 .. n : up'[k] = up[k]
        /\ up'[n + 1] = ClientName
    BY <1>3, <2>1, <2>2, AppendProperties DEF UpInv
  <2>4. \A k \in 1 .. n + 1 : k \in 1 .. n \/ k = n + 1 BY <2>1
  <2>5. TextPlaces' = TextPlaces
    <3>1. \A k \in TextPlaces' : k \in 1 .. n BY <2>3, <2>4 DEF TextPlaces
    <3>2. \A k \in 1 .. n : k \in 1 .. n + 1 OBVIOUS
    <3>3. QED BY <2>1, <2>3, <3>1, <3>2 DEF TextPlaces
  <2>6. TextPlaces \subseteq 1 .. n BY <2>1 DEF TextPlaces
  <2>7. \A j \in TextPlaces \cup {0} : UpTo(j)' = UpTo(j)
    BY <2>3, <2>6 DEF UpTo
  <2>8. \A c, d : Follows(c, d)' <=> Follows(c, d)
    BY <1>1 DEF Follows, Begins
  <2>9. UpIsPrefix'
    <3>1. ASSUME NEW k \in TextPlaces, NEW j \in TextPlaces \cup {0}, j < k,
                 \A l \in j + 1 .. k - 1 : up'[l] = ClientName
          PROVE  Follows(UpTo(j)', up'[k])
      <4>1. k \in 1 .. n /\ (j = 0 \/ j \in 1 .. n) BY <2>6
      <4>2. \A l \in j + 1 .. k - 1 : l \in 1 .. n BY <4>1
      <4>3. \A l \in j + 1 .. k - 1 : up[l] = ClientName
        BY <2>3, <3>1, <4>2
      <4>4. Follows(UpTo(j), up[k]) BY <3>1, <4>3 DEF UpInv, UpIsPrefix
      <4>5. QED BY <2>3, <2>7, <4>1, <4>4
    <3>2. QED BY <2>5, <2>8, <3>1 DEF UpIsPrefix
  <2>10. ASSUME NEW c, AtText(c) PROVE AtText(c)'
    <3>1. PICK j \in TextPlaces \cup {0} :
            c = UpTo(j) /\ \A l \in j + 1 .. n : up[l] = ClientName
      BY <2>1, <2>10 DEF AtText
    <3>2. \A l \in j + 1 .. n + 1 : up'[l] = ClientName
      <4>1. j = 0 \/ j \in 1 .. n BY <2>6
      <4>2. \A l \in j + 1 .. n + 1 : l = n + 1 \/ (l \in j + 1 .. n /\ l \in 1 .. n)
        BY <4>1
      <4>3. \A l \in 1 .. n : up'[l] = up[l] BY <2>3
      <4>4. up'[n + 1] = ClientName BY <2>3
      <4>5. \A l \in j + 1 .. n : up[l] = ClientName BY <3>1
      <4>6. QED BY ONLY <4>2, <4>3, <4>4, <4>5
    <3>3. QED BY <2>3, <2>5, <2>7, <3>1, <3>2 DEF AtText
  <2>11. \A c : RouterAt(c)' <=> RouterAt(c) BY <1>1 DEF RouterAt, Finished
  <2>12. \A k \in TextPlaces' : up'[k][1] \in 1 .. Len(routed')
    BY <1>1, <2>3, <2>5, <2>6 DEF UpInv
  <2>13. QED BY <1>1, <2>3, <2>9, <2>10, <2>11, <2>12 DEF UpInv
<1>4. QED BY <1>2, <1>3 DEF SendName

\* What follows does so still when there is another message.
LEMMA RouteUp == ASSUME PortAssumption, UpInv, NEW n \in MessageLens, Route(n)
                 PROVE  UpInv'
<1>1. /\ routed' = Append(routed, n) /\ sd' = mSd /\ length' = n /\ i' = 0
      /\ sent' = 0 /\ sizeToSend' = PageOf(n) /\ rpc' = "write" /\ rpc = "idle"
      /\ UNCHANGED <<up, peer, fd, lpc, mSd>>
  BY DEF Route, netVars, listenVars
<1>2. PICK m \in Nat : m = Len(routed) BY LenProperties DEF UpInv
<1>3. /\ routed' \in Seq(MessageLens) /\ Len(routed') = m + 1
      /\ \A k \in 1 .. m : routed'[k] = routed[k]
      /\ routed'[m + 1] = n
  BY <1>1, <1>2, AppendProperties DEF UpInv
<1>4. \A k \in 1 .. m : k \in 1 .. m + 1 OBVIOUS
<1>5. TextPlaces' = TextPlaces /\ \A j : UpTo(j)' = UpTo(j)
  BY <1>1 DEF TextPlaces, UpTo
<1>6. \A k \in TextPlaces : up[k][1] \in 1 .. m BY <1>2 DEF UpInv
<1>7. ASSUME NEW c, NEW d, c # ClientName => c[1] \in 1 .. m, d[1] \in 1 .. m,
             Follows(c, d)
      PROVE  Follows(c, d)'
  <2>1. CASE c # ClientName /\ c[2] < routed[c[1]]
    BY <1>3, <1>7, <2>1 DEF Follows
  <2>2. CASE ~(c # ClientName /\ c[2] < routed[c[1]])
    <3>1. Begins(c[1], d) BY <1>7, <2>2 DEF Follows
    <3>2. c[1] \in 0 .. m BY <1>7 DEF ClientName
    <3>3. \A e \in c[1] + 1 .. d[1] - 1 : e \in 1 .. m BY <1>7, <3>2
    <3>4. d[1] \in c[1] + 1 .. m + 1 BY <1>2, <1>7, <3>1, <3>2 DEF Begins
    <3>5. Begins(c[1], d)' BY <1>3, <1>7, <3>1, <3>3, <3>4 DEF Begins
    <3>6. ~(c # ClientName /\ c[2] < routed'[c[1]]) BY <1>3, <1>7, <2>2
    <3>7. QED BY <3>5, <3>6 DEF Follows
  <2>3. QED BY <2>1, <2>2
<1>8. \A j \in TextPlaces \cup {0} : UpTo(j) # ClientName => UpTo(j)[1] \in 1 .. m
  BY <1>6 DEF UpTo
<1>9. UpIsPrefix'
  <2>1. ASSUME NEW k \in TextPlaces, NEW j \in TextPlaces \cup {0}, j < k,
               \A l \in j + 1 .. k - 1 : up[l] = ClientName
        PROVE  Follows(UpTo(j), up[k])'
    <3>1. Follows(UpTo(j), up[k]) BY <2>1 DEF UpInv, UpIsPrefix
    <3>2. PICK c : c = UpTo(j) OBVIOUS
    <3>3. PICK d : d = up[k] OBVIOUS
    <3>4. Follows(c, d)' BY <1>6, <1>7, <1>8, <3>1, <3>2, <3>3
    <3>5. c = UpTo(j)' /\ d = up[k]' BY <1>1, <1>5, <3>2, <3>3
    <3>6. QED BY <3>4, <3>5
  <2>2. QED BY <1>1, <1>5, <2>1 DEF UpIsPrefix
<1>10. ASSUME NEW c, AtText(c), RouterAt(c), peer, mSd = "fd"
       PROVE  AtText(c)' /\ RouterAt(c)'
  <2>1. AtText(c)' BY <1>1, <1>5, <1>10 DEF AtText
  <2>2. Finished(c, m) BY <1>1, <1>2, <1>10 DEF RouterAt
  <2>3. c # ClientName => c[1] \in 1 .. m BY <1>2, <1>10, AtTextFacts
  <2>4. \A e \in c[1] + 1 .. m : e \in 1 .. m BY <2>2 DEF Finished
  <2>5. Finished(c, m)' BY <1>3, <2>2, <2>3, <2>4 DEF Finished
  <2>6. n \in Nat /\ 0 * Page = 0 /\ PageOf(n) \in Nat
    BY PageOfFacts DEF PortAssumption
  <2>7. Last(routed') = n BY <1>3 DEF Last
  <2>8. RouterAt(c)'
    BY <1>1, <1>3, <1>10, <2>5, <2>6, <2>7 DEF RouterAt
  <2>9. QED BY <2>1, <2>8
<1>11. \A k \in TextPlaces' : up'[k][1] \in 1 .. Len(routed')
  BY <1>1, <1>3, <1>4, <1>5, <1>6
<1>12. QED BY <1>1, <1>3, <1>9, <1>10, <1>11 DEF UpInv

\* A write of nothing: the message is over, or nobody is there.
LEMMA WriteFailsUp == ASSUME PortAssumption, UpInv, WriteFails
                      PROVE  UpInv'
<1>1. /\ UNCHANGED <<up, routed, peer, fd, lpc, mSd, sd>>
      /\ rpc = "write" /\ PageDone(length)
      /\ peer /\ fd = "server" => sizeToSend = 0 \/ sd = "none"
  BY DEF WriteFails, Broken, netVars, listenVars
<1>2. TextPlaces' = TextPlaces /\ \A j : UpTo(j)' = UpTo(j)
  BY <1>1 DEF TextPlaces, UpTo
<1>3. \A c, d : Follows(c, d)' <=> Follows(c, d) BY <1>1 DEF Follows, Begins
<1>4. UpIsPrefix' BY <1>1, <1>2, <1>3 DEF UpInv, UpIsPrefix
<1>5. ASSUME NEW c, AtText(c), RouterAt(c), peer, fd = "server"
      PROVE  AtText(c)' /\ RouterAt(c)'
  <2>1. AtText(c)' BY <1>1, <1>2, <1>5 DEF AtText
  <2>2. PICK m : m = Len(routed) OBVIOUS
  <2>3. m \in Nat /\ m # 0
    BY <1>1, <1>5, <2>2, LenProperties DEF RouterAt, UpInv
  <2>4. PICK total : total = Last(routed) OBVIOUS
  <2>5. total = routed[m] /\ total \in Nat
    <3>1. m \in 1 .. m BY <2>3
    <3>2. QED BY <2>2, <2>4, <3>1, ElementOfSeq DEF Last, UpInv, PortAssumption
  <2>6. /\ i \in Nat /\ sent = 0 /\ length = total - i * Page /\ i * Page <= total
        /\ PageOf(length) = 0
        /\ IF sent + i * Page = 0 THEN Finished(c, m - 1)
           ELSE c = <<m, sent + i * Page>>
    <3>1. sizeToSend = 0 BY <1>1, <1>5 DEF RouterAt
    <3>2. sent = 0 /\ sent + sizeToSend = PageOf(length)
      BY <1>1, <1>5, <3>1 DEF RouterAt
    <3>3. QED BY <1>1, <1>5, <2>2, <2>4, <3>1, <3>2 DEF RouterAt
  <2>7. PICK done : done = i * Page OBVIOUS
  <2>8. /\ done \in Nat /\ (i + 1) * Page = done + Page
        /\ i + 1 < NrPages(total) <=> (i + 1) * Page <= total
    BY <2>5, <2>6, <2>7, LastPage
  <2>9. length = 0 /\ done = total
    <3>1. length \in Nat /\ length = total - done BY <2>5, <2>6, <2>7, <2>8
    <3>2. length = 0 BY <2>6, <3>1, PageOfFacts
    <3>3. QED BY <2>5, <2>8, <3>1, <3>2
  <2>10. ~(i + 1 < NrPages(total)) BY <2>5, <2>8, <2>9 DEF PortAssumption
  <2>11. rpc' = "idle" BY <1>1, <2>4, <2>10 DEF PageDone
  <2>12. Finished(c, m)
    <3>1. CASE total = 0
      <4>1. Finished(c, m - 1) BY <2>6, <2>7, <2>9, <3>1
      <4>2. c[1] \in 0 .. m BY <2>3, <4>1 DEF Finished
      <4>3. \A e \in c[1] + 1 .. m : e = m \/ e \in c[1] + 1 .. m - 1
        BY <2>3, <4>2
      <4>4. QED BY <2>5, <3>1, <4>1, <4>2, <4>3 DEF Finished
    <3>2. CASE total # 0
      <4>1. c = <<m, total>> BY <2>5, <2>6, <2>7, <2>9, <3>2
      <4>2. c[1] = m /\ c[2] = total BY <4>1
      <4>3. QED BY <2>3, <2>5, <4>2 DEF Finished
    <3>3. QED BY <3>1, <3>2
  <2>13. Finished(c, m)' BY <1>1, <2>12 DEF Finished
  <2>14. RouterAt(c)' BY <1>1, <2>2, <2>11, <2>13 DEF RouterAt
  <2>15. QED BY <2>1, <2>14
<1>6. QED BY <1>1, <1>2, <1>4, <1>5 DEF UpInv

\* What is written to the server goes on where the last write ended.
LEMMA WriteUp == ASSUME PortAssumption, UpInv, NEW w \in 1 .. Page, Write(w)
                 PROVE  UpInv'
<1>1. /\ UNCHANGED <<routed, peer, fd, lpc, mSd, sd>>
      /\ rpc = "write" /\ w \in 1 .. sizeToSend
      /\ fd = "server" /\ peer => up' = up \o PageCells(w)
      /\ ~peer => up' = up
      /\ IF w = sizeToSend THEN PageDone(length - (sent + w))
         ELSE /\ sent' = sent + w /\ sizeToSend' = sizeToSend - w
              /\ UNCHANGED <<length, i, rpc>>
  <2>1. fd = "server" /\ peer => up' = up \o PageCells(w) BY DEF Write
  <2>2. ~peer => up' = up BY DEF Write
  <2>3. QED BY <2>1, <2>2 DEF Write, netVars, listenVars
<1>2. CASE ~peer
  <2>1. TextPlaces' = TextPlaces /\ \A j : UpTo(j)' = UpTo(j)
    BY <1>1, <1>2 DEF TextPlaces, UpTo
  <2>2. \A c, d : Follows(c, d)' <=> Follows(c, d)
    BY <1>1 DEF Follows, Begins
  <2>3. UpIsPrefix' BY <1>1, <1>2, <2>1, <2>2 DEF UpInv, UpIsPrefix
  <2>4. QED BY <1>1, <1>2, <2>1, <2>3 DEF UpInv
<1>3. CASE peer
  <2>1. PICK c : AtText(c) /\ RouterAt(c) BY <1>3 DEF UpInv
  <2>2. fd = "server" BY <1>3 DEF UpInv
  <2>3. PICK m : m = Len(routed) OBVIOUS
  <2>4. PICK total : total = Last(routed) OBVIOUS
  <2>5. PICK done : done = i * Page OBVIOUS
  <2>6. /\ i \in Nat /\ sent \in Nat /\ sizeToSend \in Nat
        /\ done <= total /\ length = total - done
        /\ sent + sizeToSend = PageOf(length)
        /\ IF sent + done = 0 THEN Finished(c, m - 1) ELSE c = <<m, sent + done>>
    BY <1>1, <2>1, <2>3, <2>4, <2>5 DEF RouterAt
  <2>7. m \in Nat /\ m # 0
    BY <1>1, <2>1, <2>3, LenProperties DEF RouterAt, UpInv
  <2>8. total = routed[m] /\ total \in Nat
    <3>1. m \in 1 .. m BY <2>7
    <3>2. QED BY <2>3, <2>4, <3>1, ElementOfSeq DEF Last, UpInv, PortAssumption
  <2>9. /\ done \in Nat /\ (i + 1) * Page = done + Page
        /\ i + 1 < NrPages(total) <=> done + Page <= total
    BY <2>5, <2>6, <2>8, LastPage
  <2>10. PICK off : off = sent + done OBVIOUS
  <2>11. off \in Nat /\ w \in Nat /\ w > 0 /\ length \in Nat
    BY <2>6, <2>8, <2>9, <2>10 DEF PortAssumption
  <2>12. off + w <= total
    <3>1. PageOf(length) <= length BY <2>11, PageOfFacts
    <3>2. PageOf(length) \in Nat BY <2>11, PageOfFacts
    <3>3. w <= sizeToSend BY <1>1
    <3>4. QED BY <2>6, <2>8, <2>9, <2>10, <2>11, <3>1, <3>2, <3>3
  <2>13. PICK more : more = PageCells(w) OBVIOUS
  <2>14. /\ more \in Seq(Nat \X Nat) /\ Len(more) = w
         /\ \A b \in 1 .. w : more[b] = <<m, off + b>>
    <3>1. more = [b \in 1 .. w |-> <<m, sent + i * Page + b>>]
      BY <2>3, <2>13 DEF PageCells
    <3>2. more = [b \in 1 .. w |-> <<m, off + b>>]
      BY <2>5, <2>10, <3>1
    <3>3. \A b \in 1 .. w : more[b] = <<m, off + b>> BY <3>2
    <3>4. \A b \in 1 .. w : <<m, off + b>> \in Nat \X Nat BY <2>7, <2>11
    <3>5. more \in [1 .. w -> Nat \X Nat] BY <3>2, <3>4
    <3>6. more \in Seq(Nat \X Nat) BY <2>11, <3>5, IsASeq
    <3>7. Len(more) = w BY <2>11, <3>5, <3>6, LenProperties
    <3>8. QED BY <3>3, <3>6, <3>7
  <2>15. \A b \in 1 .. w : /\ more[b] # ClientName /\ more[b][1] = m
                           /\ more[b][2] = off + b
    BY <2>7, <2>14 DEF ClientName
  <2>16. Follows(c, more[1])
    <3>1. 1 \in 1 .. w BY <2>11
    <3>2. more[1] = <<m, off + 1>> BY <2>14, <3>1
    <3>3. CASE off = 0
      <4>1. Finished(c, m - 1) BY <2>6, <2>10, <3>3
      <4>2. Begins(c[1], <<m, 1>>)
        <5>1. c[1] \in 0 .. m - 1 BY <4>1 DEF Finished
        <5>2. m \in c[1] + 1 .. m BY <2>7, <5>1
        <5>3. routed[m] > 0 BY <2>8, <2>11, <2>12, <3>3
        <5>4. QED BY <2>3, <4>1, <5>2, <5>3 DEF Begins, Finished
      <4>3. more[1] = <<m, 1>> BY <3>2, <3>3
      <4>4. ~(c # ClientName /\ c[2] < routed[c[1]]) BY <4>1 DEF Finished
      <4>5. QED BY <4>2, <4>3, <4>4 DEF Follows
    <3>4. CASE off # 0
      <4>1. c = <<m, off>> BY <2>6, <2>10, <3>4
      <4>2. c # ClientName /\ c[1] = m /\ c[2] = off
        BY <2>7, <4>1 DEF ClientName
      <4>3. off < total BY <2>8, <2>11, <2>12
      <4>4. QED BY <2>8, <3>2, <4>2, <4>3 DEF Follows
    <3>5. QED BY <3>3, <3>4
  <2>17. ASSUME NEW b \in 2 .. w PROVE Follows(more[b - 1], more[b])
    <3>1. b \in 1 .. w /\ b - 1 \in 1 .. w BY <2>11
    <3>2. more[b] = <<m, off + b>> BY <2>14, <3>1
    <3>3. /\ more[b - 1] # ClientName /\ more[b - 1][1] = m
          /\ more[b - 1][2] = off + (b - 1)
      BY <2>15, <3>1
    <3>4. off + (b - 1) < total /\ off + (b - 1) + 1 = off + b
      BY <2>8, <2>11, <2>12
    <3>5. QED BY <2>8, <3>2, <3>3, <3>4 DEF Follows
  <2>18. up' = up \o more /\ routed' = routed
    BY <1>1, <1>3, <2>2, <2>13
  <2>19. /\ UpIsPrefix' /\ AtText(more[w])' /\ up' \in Seq(Nat \X Nat)
         /\ \A k \in TextPlaces' :
              \/ k \in TextPlaces /\ up'[k] = up[k]
              \/ \E b \in 1 .. w : up'[k] = more[b]
    <3>1. up \in Seq(Nat \X Nat) /\ UpIsPrefix BY DEF UpInv
    <3>2. more \in Seq(Nat \X Nat) /\ Len(more) = w BY <2>14
    <3>3. \A b \in 1 .. w : more[b] # ClientName BY <2>15
    <3>4. \A b \in 2 .. w : Follows(more[b - 1], more[b]) BY <2>17
    <3>5. AtText(c) /\ w \in Nat /\ w > 0 BY <2>1, <2>11
    <3>6. QED
      BY ONLY <2>16, <2>18, <3>1, <3>2, <3>3, <3>4, <3>5, CellsFollow
  <2>20. \A k \in TextPlaces' : up'[k][1] \in 1 .. Len(routed')
    <3>1. m \in 1 .. m BY <2>7
    <3>2. Len(routed') = m BY <2>3, <2>18
    <3>3. ASSUME NEW k \in TextPlaces' PROVE up'[k][1] \in 1 .. m
      <4>1. CASE k \in TextPlaces /\ up'[k] = up[k]
        <5>1. up[k][1] \in 1 .. Len(routed) BY <4>1 DEF UpInv
        <5>2. QED BY ONLY <2>3, <4>1, <5>1
      <4>2. CASE \E b \in 1 .. w : up'[k] = more[b]
        BY <2>15, <3>1, <4>2
      <4>3. QED BY <2>19, <3>3, <4>1, <4>2
    <3>4. QED BY <3>2, <3>3
  <2>21. PICK d : d = more[w] OBVIOUS
  <2>22. d[1] = m /\ d[2] = off + w /\ d = <<m, off + w>> /\ d # ClientName
    <3>1. w \in 1 .. w BY <2>11
    <3>2. QED BY <2>14, <2>15, <2>21, <3>1
  <2>23. sd = "fd" BY <1>1, <2>1 DEF RouterAt
  <2>24. RouterAt(d)'
    <3>1. CASE w # sizeToSend
      <4>1. /\ sent' = sent + w /\ sizeToSend' = sizeToSend - w
            /\ UNCHANGED <<length, i, rpc, sd, routed>>
        BY <1>1, <3>1
      <4>2. /\ sent' \in Nat /\ sizeToSend' \in Nat /\ sizeToSend' # 0
            /\ sent' + sizeToSend' = PageOf(length)
            /\ sent' + done = off + w /\ off + w # 0
        BY <1>1, <2>6, <2>9, <2>10, <2>11, <3>1, <4>1
      <4>3. (sent + i * Page)' = off + w BY <2>5, <4>1, <4>2
      <4>4. QED
        BY <1>1, <2>3, <2>4, <2>5, <2>6, <2>7, <2>22, <2>23, <4>1, <4>2, <4>3
        DEF RouterAt
    <3>2. CASE w = sizeToSend
      <4>1. PageDone(length - (sent + w)) /\ sd' = sd BY <1>1, <3>2
      <4>2. sent + w = PageOf(length) BY <2>6, <3>2
      <4>3. CASE length >= Page
        <5>1. PageOf(length) = Page BY <2>11, <4>3, PageOfFacts
        <5>2. PICK left : left = length - (sent + w) OBVIOUS
        <5>3. /\ left \in Nat /\ left = total - (done + Page)
              /\ done + Page <= total
          BY <2>6, <2>8, <2>9, <2>11, <4>2, <4>3, <5>1, <5>2 DEF PortAssumption
        <5>4. /\ rpc' = "write" /\ length' = left /\ i' = i + 1 /\ sent' = 0
              /\ sizeToSend' = PageOf(left)
          BY <2>4, <2>9, <4>1, <5>2, <5>3 DEF PageDone
        <5>5. PageOf(left) \in Nat BY <5>3, PageOfFacts
        <5>6. off + w = done + Page /\ done + Page # 0
          BY <2>6, <2>9, <2>10, <2>11, <4>2, <5>1 DEF PortAssumption
        <5>7. i' * Page = done + Page BY <2>9, <5>4
        <5>8. (sent + i * Page)' = off + w
          BY <2>9, <5>4, <5>6, <5>7 DEF PortAssumption
        <5>9. i' \in Nat BY <2>6, <5>4
        <5>10. Last(routed') = total /\ Len(routed') = m
          BY <1>1, <2>3, <2>4
        <5>11. QED
          BY <2>7, <2>22, <2>23, <4>1, <5>3, <5>4, <5>5, <5>6, <5>7, <5>8,
             <5>9, <5>10
          DEF RouterAt
      <4>4. CASE length < Page
        <5>1. PageOf(length) = length BY <2>11, <4>4, PageOfFacts
        <5>2. off + w = total
          BY <2>6, <2>8, <2>9, <2>10, <2>11, <4>2, <5>1
        <5>3. ~(done + Page <= total)
          BY <2>6, <2>8, <2>9, <2>11, <4>4 DEF PortAssumption
        <5>4. rpc' = "idle" BY <2>4, <2>9, <4>1, <5>3 DEF PageDone
        <5>5. Finished(d, m)'
          <6>1. m \in 0 .. m /\ \A e \in m + 1 .. m : FALSE BY <2>7
          <6>2. QED BY <1>1, <2>8, <2>22, <5>2, <6>1 DEF Finished
        <5>6. QED BY <1>1, <2>3, <5>4, <5>5 DEF RouterAt
      <4>5. length >= Page \/ length < Page BY <2>11 DEF PortAssumption
      <4>6. QED BY <4>3, <4>4, <4>5
    <3>3. QED BY <3>1, <3>2
  <2>25. AtText(d)' BY <2>19, <2>21
  <2>26. fd' = "server" /\ mSd' = "fd" /\ lpc' \notin {"closed", "gone"}
    BY <1>1, <1>3 DEF UpInv
  <2>27. routed' \in Seq(MessageLens) BY <1>1 DEF UpInv
  <2>28. QED BY <2>19, <2>20, <2>24, <2>25, <2>26, <2>27 DEF UpInv
<1>4. QED BY <1>2, <1>3

\* The state of a new port.
LEMMA UpInvStarts == ASSUME PortAssumption, Init PROVE UpInv
<1>1. /\ up = <<>> /\ routed = <<>> /\ rpc = "idle" /\ fd = "server"
      /\ mSd = "fd" /\ lpc = "greeting"
  BY DEF Init
<1>2. Len(up) = 0 /\ Len(routed) = 0 BY <1>1, EmptySeq
<1>3. TextPlaces = {} BY <1>2 DEF TextPlaces
<1>4. AtText(ClientName) BY <1>2 DEF AtText, UpTo
<1>5. Finished(ClientName, 0) BY DEF Finished, ClientName
<1>6. RouterAt(ClientName) BY <1>1, <1>2, <1>5 DEF RouterAt
<1>7. up \in Seq(Nat \X Nat) /\ routed \in Seq(MessageLens)
  BY <1>1, EmptySeq
<1>8. QED BY <1>1, <1>3, <1>4, <1>6, <1>7 DEF UpInv, UpIsPrefix

\* Every step of the port, and every stutter, keeps the invariant.
LEMMA UpNextKeeps == ASSUME PortAssumption, UpInv, [Next]_vars
                     PROVE  UpInv'
<1>1. CASE \E packet \in Packet : ServerSends(packet)
  BY <1>1, UpKept DEF ServerSends, listenVars, routerVars, UpInv
<1>2. CASE Arrives
  BY <1>2, UpKept DEF Arrives, Arrive, listenVars, routerVars, UpInv
<1>3. CASE \E n \in 0 .. Len(stream) : ServerCloses(n)
  BY <1>3, UpKept DEF ServerCloses, routerVars
<1>4. CASE Listen
  <2>1. CASE ReadGreeting
    BY <2>1, UpKept DEF ReadGreeting, netVars, routerVars, UpInv
  <2>2. CASE SendName
    BY <2>2, SendNameUp
  <2>3. CASE ReadPrefix
    BY <2>3, UpKept DEF ReadPrefix, NextPacket, netVars, routerVars, UpInv
  <2>4. CASE ReadHeader
    BY <2>4, UpKept DEF ReadHeader, HeaderRead, NextPacket, netVars, routerVars,
                        UpInv
  <2>5. CASE ReadData
    BY <2>5, UpKept DEF ReadData, netVars, routerVars, UpInv
  <2>6. CASE Push
    BY <2>6, UpKept DEF Push, NextPacket, netVars, routerVars, UpInv
  <2>7. CASE ReadEnd
    BY <2>7, UpKept DEF ReadEnd, AtEnd, netVars, routerVars
  <2>8. CASE ResetSd
    BY <2>8, UpKept DEF ResetSd, netVars, routerVars, UpInv
  <2>9. QED
    BY <1>4, <2>1, <2>2, <2>3, <2>4, <2>5, <2>6, <2>7, <2>8 DEF Listen
<1>5. CASE \E n \in MessageLens : Route(n)
  BY <1>5, RouteUp
<1>6. CASE Sends
  BY <1>6, WriteFailsUp, WriteUp DEF Sends
<1>7. CASE Others
  BY <1>7, UpKept DEF Others, Reuse, Release, netVars, listenVars, routerVars,
                      UpInv
<1>8. CASE ServerStopsReading
  BY <1>8, UpKept DEF ServerStopsReading, listenVars, routerVars, UpInv
<1>9. CASE UNCHANGED vars
  BY <1>9, UpKept DEF vars, netVars, listenVars, routerVars, UpInv
<1>10. QED
  BY <1>1, <1>2, <1>3, <1>4, <1>5, <1>6, <1>7, <1>8, <1>9 DEF Next

\* NodePort's router writes what is cast to it as NodeNetwork::sendToSocket cuts
\* it up: the server gets the messages in their order, each byte once, the
\* client's name apart, whatever a write takes and wherever the connection ends.
THEOREM UpIsPrefixCorrect == Spec => []UpIsPrefix
<1>1. Init => UpInv
  BY PortAssumption, UpInvStarts
<1>2. UpInv /\ [Next]_vars => UpInv'
  BY PortAssumption, UpNextKeeps
<1>3. UpInv => UpIsPrefix
  BY DEF UpInv
<1>4. QED
  BY <1>1, <1>2, <1>3, PTL DEF Spec
=============================================================================
