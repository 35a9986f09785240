---------------------------- MODULE NodeNetwork ----------------------------
(***************************************************************************)
(* One-shot messages between nodes: NodeNetwork::sendNodeMessage on the    *)
(* sending side, the read loop of NodeNetwork::setupLocalNode on the       *)
(* receiving side, and the stream sockets between them.  A sender connects,*)
(* writes type, length and data (the data in pages, a write may be short)  *)
(* and closes.  The receiver takes one connection at a time and calls back *)
(* for a message it has read to its last byte.  Either side's process may  *)
(* end anywhere; a write to a closed connection ends the writer's process  *)
(* too, as nothing in the program handles SIGPIPE.                         *)
(*                                                                         *)
(* A byte is its offset in the sender's data, counted from 1; type and     *)
(* length are read and written as a whole.                                 *)
(***************************************************************************)
EXTENDS Integers, Sequences

CONSTANTS Sender,       \* threads that send one message each
          Lengths,      \* the lengths of their data
          Page,         \* SOCK_PAGE_SIZE
          Room,         \* what a connection buffers before a write waits
          Backlog,      \* connections waiting to be accepted
          Kills,        \* senders that send KILL_MESSAGE
          Mortal,       \* senders whose process may end
          ReceiverMortal, \* the receiver's process may end
          Nobody        \* no connection accepted

ASSUME NetworkAssumption ==
  /\ Lengths \subseteq Nat
  /\ Page \in Nat \ {0} /\ Room \in Nat \ {0} /\ Backlog \in Nat \ {0}
  /\ Kills \subseteq Sender /\ Mortal \subseteq Sender
  /\ ReceiverMortal \in BOOLEAN /\ Nobody \notin Sender

VARIABLES
  spc, res,             \* where a sender is, and what its call came to
  total,                \* the length it was called with
  length, i, sent, sizeToSend, \* its locals, with the names of the code
  wire,                 \* written to its connection and not read
  writing,              \* its end of the connection is open
  backlog,              \* connections not accepted yet
  rpc, conn,            \* where the receiver is, and whose connection it reads
  want, got,            \* its length and tempBuff
  delivered             \* <<sender, data>> for every call of nodeCallback

sendVars == <<spc, res, total, length, i, sent, sizeToSend, writing>>
recvVars == <<rpc, conn, want, got, delivered>>
vars == <<sendVars, wire, backlog, recvVars>>

\* The words of the header, apart from the bytes of the data.
TypeWord == 0
KillWord == -1
LengthWord == -2

Init ==
  /\ spc = [s \in Sender |-> "connect"] /\ res = [s \in Sender |-> "none"]
  /\ total \in [Sender -> Lengths]
  /\ length = total /\ i = [s \in Sender |-> 0]
  /\ sent = [s \in Sender |-> 0] /\ sizeToSend = [s \in Sender |-> 0]
  /\ wire = [s \in Sender |-> <<>>] /\ writing = [s \in Sender |-> FALSE]
  /\ backlog = <<>>
  /\ rpc = "accept" /\ conn = Nobody /\ want = 0 /\ got = <<>>
  /\ delivered = {}

-----------------------------------------------------------------------------
(* The sender.                                                             *)

Listening == rpc \notin {"ended", "dead"}

\* The other end of a sender's connection is open.
Reading(s) == conn = s \/ \E k \in 1 .. Len(backlog) : backlog[k] = s

Free(s) == Room - Len(wire[s])

\* The call returns r and its end of the connection, if any, is closed.
Return(s, r) ==
  /\ spc' = [spc EXCEPT ![s] = "done"]
  /\ res' = [res EXCEPT ![s] = r]
  /\ writing' = [writing EXCEPT ![s] = FALSE]

\* socket() fails, and nothing is sent.  The call returns -1 as for any failure;
\* the model remembers that it was this one.
NoSocket(s) ==
  /\ spc[s] = "connect"
  /\ Return(s, "nosocket")
  /\ UNCHANGED <<total, length, i, sent, sizeToSend, wire, backlog, recvVars>>

\* connect() waits while the backlog is full.
Connect(s) ==
  /\ spc[s] = "connect" /\ Listening /\ Len(backlog) < Backlog
  /\ backlog' = Append(backlog, s)
  /\ writing' = [writing EXCEPT ![s] = TRUE]
  /\ spc' = [spc EXCEPT ![s] = "type"]
  /\ UNCHANGED <<res, total, length, i, sent, sizeToSend, wire, recvVars>>

ConnectFails(s) ==
  /\ spc[s] = "connect" /\ ~Listening
  /\ Return(s, "failed")
  /\ UNCHANGED <<total, length, i, sent, sizeToSend, wire, backlog, recvVars>>

WriteType(s) ==
  /\ spc[s] = "type" /\ s \notin Kills /\ Reading(s) /\ Free(s) > 0
  /\ wire' = [wire EXCEPT ![s] = Append(@, TypeWord)]
  /\ spc' = [spc EXCEPT ![s] = "length"]
  /\ UNCHANGED <<res, total, length, i, sent, sizeToSend, writing, backlog,
                 recvVars>>

\* A KILL_MESSAGE is its type alone.
WriteKill(s) ==
  /\ spc[s] = "type" /\ s \in Kills /\ Reading(s) /\ Free(s) > 0
  /\ wire' = [wire EXCEPT ![s] = Append(@, KillWord)]
  /\ Return(s, "sent")
  /\ UNCHANGED <<total, length, i, sent, sizeToSend, backlog, recvVars>>

\* The size of the next page of a message with n bytes left.
PageOf(n) == IF n < Page THEN n ELSE Page

WriteLength(s) ==
  /\ spc[s] = "length" /\ Reading(s) /\ Free(s) > 0
  /\ wire' = [wire EXCEPT ![s] = Append(@, LengthWord)]
  /\ sizeToSend' = [sizeToSend EXCEPT ![s] = PageOf(total[s])]
  /\ spc' = [spc EXCEPT ![s] = "data"]
  /\ UNCHANGED <<res, total, length, i, sent, writing, backlog, recvVars>>

\* The w bytes at (char *)data + sent + i*SOCK_PAGE_SIZE.
PageBytes(s, w) == [b \in 1 .. w |-> sent[s] + i[s] * Page + b]

\* Mutant of NrPages: a length of whole pages has no empty page behind them.
NrPagesRoundedUp(n) == (n + Page - 1) \div Page

\* Mutant of NrPages: the part of a page behind the whole ones is forgotten.
NrPagesRoundedDown(n) == n \div Page

NrPages(n) == n \div Page + 1

\* A write of some of the rest of the page; with the last one the loops over
\* the page and over the pages go on.
WriteData(s, w) ==
  LET whole == w = sizeToSend[s]
      left == length[s] - (sent[s] + w)
  IN
  /\ spc[s] = "data" /\ Reading(s)
  /\ w \in 1 .. sizeToSend[s] /\ w <= Free(s)
  /\ wire' = [wire EXCEPT ![s] = @ \o PageBytes(s, w)]
  /\ IF ~whole
     THEN /\ sent' = [sent EXCEPT ![s] = @ + w]
          /\ sizeToSend' = [sizeToSend EXCEPT ![s] = @ - w]
          /\ UNCHANGED <<spc, res, length, i, writing>>
     ELSE /\ length' = [length EXCEPT ![s] = left]
          /\ i' = [i EXCEPT ![s] = @ + 1]
          /\ sent' = [sent EXCEPT ![s] = 0]
          /\ sizeToSend' = [sizeToSend EXCEPT ![s] = PageOf(left)]
          /\ IF i[s] + 1 < NrPages(total[s])
             THEN UNCHANGED <<spc, res, writing>>
             ELSE Return(s, "sent")
  /\ UNCHANGED <<total, backlog, recvVars>>

\* The last page of a length that is a multiple of SOCK_PAGE_SIZE is empty:
\* write() of nothing returns 0, and that is a failure.
WriteNothing(s) ==
  /\ spc[s] = "data" /\ sizeToSend[s] = 0 /\ Reading(s)
  /\ Return(s, "failed")
  /\ UNCHANGED <<total, length, i, sent, sizeToSend, wire, backlog, recvVars>>

\* A write, of nothing too, to a connection the receiver has closed: SIGPIPE.
WriteBreaks(s) ==
  /\ spc[s] \in {"type", "length", "data"} /\ ~Reading(s)
  /\ Return(s, "killed")
  /\ UNCHANGED <<total, length, i, sent, sizeToSend, wire, backlog, recvVars>>

SenderDies(s) ==
  /\ spc[s] \notin {"connect", "done"} /\ s \in Mortal
  /\ Return(s, "died")
  /\ UNCHANGED <<total, length, i, sent, sizeToSend, wire, backlog, recvVars>>

-----------------------------------------------------------------------------
(* The receiver.                                                           *)

\* The read loop's connection is closed and the next one is waited for.
NextClient ==
  /\ rpc' = "accept" /\ conn' = Nobody /\ want' = 0 /\ got' = <<>>

Accept ==
  /\ rpc = "accept" /\ backlog # <<>>
  /\ conn' = Head(backlog)
  /\ backlog' = Tail(backlog)
  /\ rpc' = "type"
  /\ UNCHANGED <<sendVars, wire, want, got, delivered>>

\* read() of the four bytes of a type or length.
ReadWord(word) ==
  /\ conn # Nobody /\ wire[conn] # <<>> /\ Head(wire[conn]) = word
  /\ wire' = [wire EXCEPT ![conn] = Tail(@)]

ReadType ==
  /\ rpc = "type" /\ ReadWord(TypeWord)
  /\ rpc' = "length"
  /\ UNCHANGED <<sendVars, backlog, conn, want, got, delivered>>

\* KILL: both sockets are closed, the connections that wait are dropped.
ReadKill ==
  /\ rpc = "type" /\ ReadWord(KillWord)
  /\ rpc' = "ended" /\ conn' = Nobody /\ backlog' = <<>>
  /\ UNCHANGED <<sendVars, want, got, delivered>>

ReadLength ==
  /\ rpc = "length" /\ ReadWord(LengthWord)
  /\ want' = total[conn]
  /\ rpc' = "data"
  /\ UNCHANGED <<sendVars, backlog, conn, got, delivered>>

AtEnd == wire[conn] = <<>> /\ ~writing[conn]

\* The peer is gone before the header is complete.
ReadNoHeader ==
  /\ rpc \in {"type", "length"} /\ AtEnd
  /\ NextClient
  /\ UNCHANGED <<sendVars, wire, backlog, delivered>>

\* Mutant of ReadData: a short read ends the message.
ReadDataOnce(r) ==
  /\ rpc = "data" /\ r \in 1 .. want /\ r <= Len(wire[conn])
  /\ wire' = [wire EXCEPT ![conn] = SubSeq(@, r + 1, Len(@))]
  /\ delivered' = delivered \cup {<<conn, SubSeq(wire[conn], 1, r)>>}
  /\ NextClient
  /\ UNCHANGED <<sendVars, backlog>>

\* Some of what is there; with the last byte the node is called back.
ReadData(r) ==
  LET data == got \o SubSeq(wire[conn], 1, r)
  IN
  /\ rpc = "data" /\ r \in 1 .. want /\ r <= Len(wire[conn])
  /\ wire' = [wire EXCEPT ![conn] = SubSeq(@, r + 1, Len(@))]
  /\ IF r < want
     THEN /\ want' = want - r
          /\ got' = data
          /\ UNCHANGED <<rpc, conn, delivered>>
     ELSE /\ delivered' = delivered \cup {<<conn, data>>}
          /\ NextClient
  /\ UNCHANGED <<sendVars, backlog>>

\* Mutant of ReadNothing: what was read before the end is called back with.
ReadNothingDelivers ==
  /\ rpc = "data" /\ (want = 0 \/ AtEnd)
  /\ delivered' = delivered \cup {<<conn, got>>}
  /\ NextClient
  /\ UNCHANGED <<sendVars, wire, backlog>>

\* Mutant of ReadNothing: only an error of read() ends the message, not its 0.
ReadNothingRetries ==
  /\ rpc = "data" /\ want = 0
  /\ NextClient
  /\ UNCHANGED <<sendVars, wire, backlog, delivered>>

\* The peer is gone, or the length is 0: read() returns 0 and what was read is
\* thrown away.
ReadNothing ==
  /\ rpc = "data" /\ (want = 0 \/ AtEnd)
  /\ NextClient
  /\ UNCHANGED <<sendVars, wire, backlog, delivered>>

ReceiverDies ==
  /\ Listening /\ ReceiverMortal
  /\ rpc' = "dead" /\ conn' = Nobody /\ backlog' = <<>>
  /\ UNCHANGED <<sendVars, wire, want, got, delivered>>

-----------------------------------------------------------------------------
Send(s) ==
  \/ Connect(s) \/ ConnectFails(s)
  \/ WriteType(s) \/ WriteKill(s) \/ WriteLength(s)
  \/ \E w \in 1 .. Page : WriteData(s, w)
  \/ WriteNothing(s) \/ WriteBreaks(s)

Receive ==
  \/ Accept \/ ReadType \/ ReadKill \/ ReadLength \/ ReadNoHeader
  \/ \E r \in 1 .. Room : ReadData(r)
  \/ ReadNothing

Next ==
  \/ \E s \in Sender : Send(s) \/ NoSocket(s) \/ SenderDies(s)
  \/ Receive \/ ReceiverDies

\* Both loops run on: a sender that may write does, until its process ends.
Fairness == WF_vars(Receive) /\ \A s \in Sender : WF_vars(Send(s))

Spec == Init /\ [][Next]_vars /\ Fairness

-----------------------------------------------------------------------------
TypeOK ==
  /\ spc \in [Sender -> {"connect", "type", "length", "data", "done"}]
  /\ res \in [Sender -> {"none", "sent", "failed", "nosocket", "killed", "died"}]
  /\ total \in [Sender -> Lengths]
  /\ length \in [Sender -> Nat] /\ i \in [Sender -> Nat]
  /\ sent \in [Sender -> Nat] /\ sizeToSend \in [Sender -> Nat]
  /\ wire \in [Sender -> Seq(Int)]
  /\ \A s \in Sender : Len(wire[s]) <= Room
  /\ writing \in [Sender -> BOOLEAN]
  /\ backlog \in Seq(Sender) /\ Len(backlog) <= Backlog
  /\ rpc \in {"accept", "type", "length", "data", "ended", "dead"}
  /\ conn \in Sender \cup {Nobody}
  /\ want \in Nat /\ got \in Seq(Nat \ {0})

\* However the writes and reads were cut, and whichever process ended where, a
\* node is called back with the whole of what the sender was given, its bytes
\* in order, or not at all.
WholeOrNothing ==
  \A d \in delivered : d[2] = [b \in 1 .. total[d[1]] |-> b]

PageMultiple(s) == total[s] % Page = 0

\* With a receiver that stays, the result of a send that has got its socket tells
\* nothing but whether the length is a multiple of the page size: those, the empty
\* message too, are reported as failed or even end the sender (the receiver closes
\* behind the last byte and the empty page is written after that); no other fails.
ResultTellsPageEnd ==
  \A s \in Sender \ Kills :
    Listening /\ res[s] \in {"sent", "failed", "killed"}
      => (res[s] = "sent" <=> ~PageMultiple(s))

Delivered(s) == \E d \in delivered : d[1] = s

\* What the sender has written in full reaches the node while its receiver
\* runs, also when the sender was told that the send failed.
WholeMessageArrives ==
  \A s \in Sender \ Kills :
    (res[s] \in {"sent", "failed", "killed"} /\ total[s] > 0)
      ~> (Delivered(s) \/ ~Listening)

\* Nobody waits for ever in a send: a full connection is drained, a full
\* backlog is accepted, and a receiver that is gone lets its senders go.
SendReturns == \A s \in Sender : (spc[s] # "connect") ~> (spc[s] = "done")
=============================================================================
