------------------------------- MODULE Bridge -------------------------------
(***************************************************************************)
(* The C interface (service/Bridge.cpp).  bridge_cross sends like          *)
(* NodeNetwork::sendNodeMessage, in its own copy of that code, without the *)
(* KILL; the copies share their steps here.  bridge_create starts a thread *)
(* that receives in its own way: one recv() per connection, whatever it    *)
(* yields is given to the action, and the connection is closed at once,    *)
(* under a sender that may still be writing.                               *)
(*                                                                         *)
(* Kills are the peers that write the text EXIT and close.                 *)
(***************************************************************************)
EXTENDS NodeNetwork

CONSTANT BufferSize     \* cells one recv() of the bridge takes

ASSUME BridgeAssumption == BufferSize \in Nat \ {0}

-----------------------------------------------------------------------------
(* bridge_sendNodeMessage.                                                 *)

Cross(s) ==
  \/ Connect(s) \/ ConnectFails(s)
  \/ WriteType(s) \/ WriteLength(s)
  \/ \E w \in 1 .. Page : WriteData(s, w)
  \/ WriteNothing(s) \/ WriteBreaks(s)

\* The text EXIT, from a peer of some other make.
PeerExit(s) == WriteKill(s)

-----------------------------------------------------------------------------
(* bridge_thread.                                                          *)

BridgeAccept ==
  /\ rpc = "accept" /\ backlog # <<>>
  /\ conn' = Head(backlog) /\ backlog' = Tail(backlog)
  /\ rpc' = "recv"
  /\ UNCHANGED <<sendVars, wire, want, got, delivered>>

\* recv() and close() of the failed descriptor come to nothing, then the
\* listening socket is closed.
BridgeAcceptFails ==
  /\ rpc = "accept"
  /\ rpc' = "ended" /\ backlog' = <<>>
  /\ UNCHANGED <<sendVars, wire, conn, want, got, delivered>>

ExitText == <<KillWord>>

\* What one recv() returns.
Received == SubSeq(wire[conn], 1, IF Len(wire[conn]) < BufferSize
                                  THEN Len(wire[conn]) ELSE BufferSize)

\* Mutant of Recv: the connection is kept until its end.
RecvAll ==
  /\ rpc = "recv" /\ wire[conn] # <<>>
  /\ delivered' = delivered \cup {<<conn, Received>>}
  /\ wire' = [wire EXCEPT ![conn] = SubSeq(@, Len(Received) + 1, Len(@))]
  /\ UNCHANGED <<rpc, conn, backlog, want, got, sendVars>>

\* The action is called with what was received, EXIT too.
Recv ==
  /\ rpc = "recv" /\ wire[conn] # <<>>
  /\ delivered' = delivered \cup {<<conn, Received>>}
  /\ wire' = [wire EXCEPT ![conn] = <<>>]
  /\ conn' = Nobody
  /\ IF Received = ExitText
     THEN rpc' = "ended" /\ backlog' = <<>>
     ELSE rpc' = "accept" /\ UNCHANGED backlog
  /\ UNCHANGED <<sendVars, want, got>>

\* Mutant of RecvNothing: the end is taken for nothing yet, and recv() called
\* again.
RecvNothingRetries == rpc = "recv" /\ AtEnd /\ UNCHANGED vars

\* The peer closed without a word: no action.
RecvNothing ==
  /\ rpc = "recv" /\ AtEnd
  /\ NextClient
  /\ UNCHANGED <<sendVars, wire, backlog, delivered>>

-----------------------------------------------------------------------------
BridgeReceive == BridgeAccept \/ Recv \/ RecvNothing

BridgeNext ==
  \/ \E s \in Sender : Cross(s) \/ PeerExit(s) \/ SenderDies(s)
  \/ BridgeReceive
  \/ BridgeAcceptFails

BridgeFairness ==
  WF_vars(BridgeReceive) /\ \A s \in Sender : WF_vars(Cross(s) \/ PeerExit(s))

BridgeSpec == Init /\ [][BridgeNext]_vars /\ BridgeFairness

-----------------------------------------------------------------------------
\* What a sender means to write.
Stream(s) ==
  IF s \in Kills THEN ExitText
  ELSE <<TypeWord, LengthWord>> \o [b \in 1 .. total[s] |-> b]

\* The action is called at most once for a connection, with a part of what its
\* sender writes: the first, not empty and never more than the buffer holds.
\* More is not promised: the type and length words are part of it, and what
\* comes behind the first recv() is lost.
ActionGetsBeginning ==
  \A d \in delivered :
    /\ 0 < Len(d[2]) /\ Len(d[2]) <= BufferSize
    /\ d[2] = SubSeq(Stream(d[1]), 1, Len(d[2]))
    /\ \A e \in delivered : e[1] = d[1] => e = d

\* However a client behaves, as long as it writes or closes, the bridge comes
\* back for the next one.
BridgeMovesOn == (conn # Nobody) ~> (conn = Nobody)

=============================================================================
