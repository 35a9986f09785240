------------------------- MODULE NodeListSyncProofs -------------------------
(***************************************************************************)
(* Proofs about getNodeList: a call has one token under way and one that   *)
(* has returned has none, and the list a call returns with is a registry   *)
(* of its own time; for any number of callers, names and pipes and any     *)
(* room in the two queues.                                                 *)
(*                                                                         *)
(* OneTokenPerCall is not inductive: that a token goes to its own caller   *)
(* takes TokensHome, the numbers a token carries are still those of the    *)
(* call it belongs to.  It is kept because a caller whose numbers change   *)
(* has no token, which is OneTokenPerCall again.                           *)
(***************************************************************************)
EXTENDS NodeListSync, QueueCounts

\* Requests of c in the service's queue, and replies to c in the adapter's.
Asked(c) ==
  {k \in 1 .. Len(svcQ) : svcQ[k].kind = "list" /\ svcQ[k].buffer = c}

Answered(c) == {k \in 1 .. Len(mQ) : mQ[k].buffer = c}

InHand(c) == IF dpc # "ready" /\ reply.buffer = c THEN 1 ELSE 0

Woken(c) == IF InCall(c) /\ syncId[c] \in exits THEN 1 ELSE 0

\* What OneTokenPerCall says there is of c.
Due(c) == IF cpc[c] = "wait" /\ c \notin lost THEN 1 ELSE 0

\* A reply carries the pipe of its caller and a registry of the call's time.
Good(r) ==
  /\ r.sync = syncId[r.buffer]
  /\ r.list.known /\ r.list.nodes \in seen[r.buffer]

TokensHome ==
  /\ \A k \in 1 .. Len(svcQ) :
       svcQ[k].kind = "list" => svcQ[k].sync = syncId[svcQ[k].buffer]
  /\ \A k \in 1 .. Len(mQ) : Good(mQ[k])
  /\ dpc # "ready" => Good(reply)
  /\ dpc = "exit" => buff[reply.buffer] = reply.list

\* Calls under way: what they could be given, and that they do not share pipes.
CallInv ==
  /\ \A c \in Caller : InCall(c) => reg \in seen[c]
  /\ \A c \in Caller : cpc[c] = "send" => c \notin lost
  /\ \A c, d \in Caller :
       InCall(c) /\ InCall(d) /\ syncId[c] = syncId[d] => c = d

SyncInv ==
  TypeOK /\ TokensHome /\ CallInv /\ ListIsSnapshot /\ OneTokenPerCall

-----------------------------------------------------------------------------
(* Counting the tokens.                                                    *)

\* The places of a caller in the two queues, counted.
LEMMA TokenFacts ==
  ASSUME TypeOK, NEW c \in Caller
  PROVE  /\ svcQ \in Seq(Requests) /\ Len(svcQ) \in Nat
         /\ mQ \in Seq(Replies) /\ Len(mQ) \in Nat
         /\ IsFiniteSet(Asked(c)) /\ Cardinality(Asked(c)) \in Nat
         /\ IsFiniteSet(Answered(c)) /\ Cardinality(Answered(c)) \in Nat
         /\ InHand(c) \in {0, 1} /\ Woken(c) \in {0, 1}
         /\ Tokens(c) = Cardinality(Asked(c)) + Cardinality(Answered(c))
                        + InHand(c) + Woken(c)
<1>1. /\ svcQ \in Seq(Requests) /\ Len(svcQ) \in Nat
      /\ mQ \in Seq(Replies) /\ Len(mQ) \in Nat
  BY LenProperties DEF TypeOK
<1>2. Asked(c) \in SUBSET (1 .. Len(svcQ)) /\ Answered(c) \in SUBSET (1 .. Len(mQ))
  BY DEF Asked, Answered
<1>3. /\ IsFiniteSet(Asked(c)) /\ Cardinality(Asked(c)) \in Nat
      /\ IsFiniteSet(Answered(c)) /\ Cardinality(Answered(c)) \in Nat
  BY <1>1, <1>2, OneMore
<1>4. QED BY <1>1, <1>3 DEF Tokens, Asked, Answered, InHand, Woken

\* Every token belongs to a caller and has a pipe.
LEMMA Buffers ==
  ASSUME TypeOK
  PROVE  /\ \A k \in 1 .. Len(svcQ) :
              svcQ[k] \in Requests /\ svcQ[k].buffer \in Caller /\ svcQ[k].sync \in Pipe
         /\ \A k \in 1 .. Len(mQ) :
              mQ[k] \in Replies /\ mQ[k].buffer \in Caller /\ mQ[k].sync \in Pipe
         /\ reply.buffer \in Caller /\ reply.sync \in Pipe /\ reply.list \in NodeLists
<1>1. svcQ \in Seq(Requests) /\ mQ \in Seq(Replies) /\ reply \in Replies
  BY DEF TypeOK
<1>2. /\ \A k \in 1 .. Len(svcQ) : svcQ[k] \in Requests
      /\ \A k \in 1 .. Len(mQ) : mQ[k] \in Replies
  BY <1>1, ElementOfSeq
<1>3. QED BY <1>1, <1>2 DEF Requests, Replies

\* A caller that has no token is in neither queue nor in the hand, and its
\* pipe is empty.
LEMMA NoToken ==
  ASSUME TypeOK, NEW c \in Caller, Tokens(c) = 0
  PROVE  /\ \A k \in 1 .. Len(svcQ) : svcQ[k].kind = "list" => svcQ[k].buffer # c
         /\ \A k \in 1 .. Len(mQ) : mQ[k].buffer # c
         /\ dpc # "ready" => reply.buffer # c
         /\ InCall(c) => syncId[c] \notin exits
<1>1. /\ Cardinality(Asked(c)) = 0 /\ Cardinality(Answered(c)) = 0
      /\ InHand(c) = 0 /\ Woken(c) = 0
      /\ IsFiniteSet(Asked(c)) /\ IsFiniteSet(Answered(c))
  BY TokenFacts
<1>2. Asked(c) = {} /\ Answered(c) = {} BY <1>1, FS_EmptySet
<1>3. QED BY <1>1, <1>2 DEF Asked, Answered, InHand, Woken

\* A caller with one token has it in one place only.
LEMMA OneToken ==
  ASSUME TypeOK, OneTokenPerCall, NEW c \in Caller
  PROVE  /\ Tokens(c) = Due(c) /\ Due(c) \in {0, 1}
         /\ Tokens(c) # 0 => cpc[c] = "wait" /\ c \notin lost
         /\ InHand(c) = 1 => Woken(c) = 0
         /\ Asked(c) # {} => Woken(c) = 0 /\ InHand(c) = 0
<1>1. Tokens(c) = Due(c) BY DEF OneTokenPerCall, Due
<1>2. Due(c) \in {0, 1} /\ (Due(c) # 0 => cpc[c] = "wait" /\ c \notin lost)
  BY DEF Due
<1>3. InHand(c) = 1 => Woken(c) = 0 BY <1>1, <1>2, TokenFacts
<1>4. Asked(c) # {} => Cardinality(Asked(c)) # 0 BY TokenFacts, FS_EmptySet
<1>5. QED BY <1>1, <1>2, <1>3, <1>4, TokenFacts

\* The places of c hold the requests and the replies that are its own.
Ask(c) == {q \in Requests : q.kind = "list" /\ q.buffer = c}

Answer(c) == {r \in Replies : r.buffer = c}

\* The places counted by OneTokenPerCall are those.
LEMMA OwnPlaces ==
  ASSUME NEW c \in Caller, NEW q \in Seq(Requests), NEW r \in Seq(Replies)
  PROVE  /\ {k \in 1 .. Len(q) : q[k].kind = "list" /\ q[k].buffer = c}
              = Places(q, Ask(c))
         /\ {k \in 1 .. Len(r) : r[k].buffer = c} = Places(r, Answer(c))
<1>1. /\ \A k \in 1 .. Len(q) : q[k] \in Requests
      /\ \A k \in 1 .. Len(r) : r[k] \in Replies
  BY ElementOfSeq
<1>2. QED BY <1>1 DEF Places, Ask, Answer

\* A request or a reply added adds a place for its caller.
LEMMA AskedAppended ==
  ASSUME TypeOK, NEW c \in Caller, NEW q \in Requests, svcQ' = Append(svcQ, q)
  PROVE  /\ svcQ' \in Seq(Requests) /\ Len(svcQ') = Len(svcQ) + 1
         /\ \A k \in 1 .. Len(svcQ') :
              svcQ'[k] = q \/ (k \in 1 .. Len(svcQ) /\ svcQ'[k] = svcQ[k])
         /\ Cardinality(Asked(c)')
              = Cardinality(Asked(c))
                + (IF q.kind = "list" /\ q.buffer = c THEN 1 ELSE 0)
<1>1. svcQ \in Seq(Requests) BY DEF TypeOK
<1>2. /\ svcQ' \in Seq(Requests) /\ Len(svcQ') = Len(svcQ) + 1
      /\ \A k \in 1 .. Len(svcQ') :
           svcQ'[k] = q \/ (k \in 1 .. Len(svcQ) /\ svcQ'[k] = svcQ[k])
      /\ Count(svcQ', Ask(c)) = Count(svcQ, Ask(c)) + (IF q \in Ask(c) THEN 1 ELSE 0)
  BY <1>1, CountAppend
<1>3. Asked(c) = Places(svcQ, Ask(c)) BY <1>1, OwnPlaces, EmptySeq DEF Asked
<1>4. Asked(c)' = Places(svcQ', Ask(c)) BY <1>2, OwnPlaces, EmptySeq DEF Asked
<1>5. QED BY <1>2, <1>3, <1>4 DEF Count, Ask

\* The same of a reply the adapter queues.
LEMMA AnsweredAppended ==
  ASSUME TypeOK, NEW c \in Caller, NEW r \in Replies, mQ' = Append(mQ, r)
  PROVE  /\ mQ' \in Seq(Replies) /\ Len(mQ') = Len(mQ) + 1
         /\ \A k \in 1 .. Len(mQ') :
              mQ'[k] = r \/ (k \in 1 .. Len(mQ) /\ mQ'[k] = mQ[k])
         /\ Cardinality(Answered(c)')
              = Cardinality(Answered(c)) + (IF r.buffer = c THEN 1 ELSE 0)
<1>1. mQ \in Seq(Replies) BY DEF TypeOK
<1>2. /\ mQ' \in Seq(Replies) /\ Len(mQ') = Len(mQ) + 1
      /\ \A k \in 1 .. Len(mQ') :
           mQ'[k] = r \/ (k \in 1 .. Len(mQ) /\ mQ'[k] = mQ[k])
      /\ Count(mQ', Answer(c)) = Count(mQ, Answer(c)) + (IF r \in Answer(c) THEN 1 ELSE 0)
  BY <1>1, CountAppend
<1>3. Answered(c) = Places(mQ, Answer(c)) BY <1>1, OwnPlaces, EmptySeq DEF Answered
<1>4. Answered(c)' = Places(mQ', Answer(c)) BY <1>2, OwnPlaces, EmptySeq DEF Answered
<1>5. QED BY <1>2, <1>3, <1>4 DEF Count, Answer

\* The first request or reply taken gives up its caller's place.
LEMMA AskedTaken ==
  ASSUME TypeOK, NEW c \in Caller, svcQ # <<>>, svcQ' = Tail(svcQ)
  PROVE  /\ svcQ' \in Seq(Requests) /\ Len(svcQ') = Len(svcQ) - 1
         /\ Head(svcQ) = svcQ[1] /\ svcQ[1] \in Requests /\ 1 \in 1 .. Len(svcQ)
         /\ \A k \in 1 .. Len(svcQ') :
              k + 1 \in 1 .. Len(svcQ) /\ svcQ'[k] = svcQ[k + 1]
         /\ Cardinality(Asked(c)')
              = Cardinality(Asked(c))
                - (IF svcQ[1].kind = "list" /\ svcQ[1].buffer = c THEN 1 ELSE 0)
<1>1. svcQ \in Seq(Requests) BY DEF TypeOK
<1>2. /\ svcQ' \in Seq(Requests) /\ Len(svcQ') = Len(svcQ) - 1
      /\ Head(svcQ) = svcQ[1] /\ svcQ[1] \in Requests /\ 1 \in 1 .. Len(svcQ)
      /\ \A k \in 1 .. Len(svcQ') :
           k + 1 \in 1 .. Len(svcQ) /\ svcQ'[k] = svcQ[k + 1]
      /\ Count(svcQ', Ask(c))
           = Count(svcQ, Ask(c)) - (IF svcQ[1] \in Ask(c) THEN 1 ELSE 0)
  BY <1>1, CountTail
<1>3. Asked(c) = Places(svcQ, Ask(c)) BY <1>1, OwnPlaces, EmptySeq DEF Asked
<1>4. Asked(c)' = Places(svcQ', Ask(c)) BY <1>2, OwnPlaces, EmptySeq DEF Asked
<1>5. QED BY <1>2, <1>3, <1>4 DEF Count, Ask

\* The same of the reply the dispatcher takes.
LEMMA AnsweredTaken ==
  ASSUME TypeOK, NEW c \in Caller, mQ # <<>>, mQ' = Tail(mQ)
  PROVE  /\ mQ' \in Seq(Replies) /\ Len(mQ') = Len(mQ) - 1
         /\ Head(mQ) = mQ[1] /\ mQ[1] \in Replies /\ 1 \in 1 .. Len(mQ)
         /\ \A k \in 1 .. Len(mQ') : k + 1 \in 1 .. Len(mQ) /\ mQ'[k] = mQ[k + 1]
         /\ Cardinality(Answered(c)')
              = Cardinality(Answered(c)) - (IF mQ[1].buffer = c THEN 1 ELSE 0)
<1>1. mQ \in Seq(Replies) BY DEF TypeOK
<1>2. /\ mQ' \in Seq(Replies) /\ Len(mQ') = Len(mQ) - 1
      /\ Head(mQ) = mQ[1] /\ mQ[1] \in Replies /\ 1 \in 1 .. Len(mQ)
      /\ \A k \in 1 .. Len(mQ') : k + 1 \in 1 .. Len(mQ) /\ mQ'[k] = mQ[k + 1]
      /\ Count(mQ', Answer(c)) = Count(mQ, Answer(c)) - (IF mQ[1] \in Answer(c) THEN 1 ELSE 0)
  BY <1>1, CountTail
<1>3. Answered(c) = Places(mQ, Answer(c)) BY <1>1, OwnPlaces, EmptySeq DEF Answered
<1>4. Answered(c)' = Places(mQ', Answer(c)) BY <1>2, OwnPlaces, EmptySeq DEF Answered
<1>5. QED BY <1>2, <1>3, <1>4 DEF Count, Answer

\* What is under way for a caller, after a step.
LEMMA TokensNext ==
  ASSUME NEW c \in Caller
  PROVE  Tokens(c)' = Cardinality(Asked(c)') + Cardinality(Answered(c)')
                      + InHand(c)' + Woken(c)'
BY DEF Tokens, Asked, Answered, InHand, Woken

-----------------------------------------------------------------------------
(* One lemma for each step: the caller, the service, the adapter.          *)

\* A caller that calls has no token: its new buffer and its new pipe are known
\* to nobody.
LEMMA CallKeeps ==
  ASSUME SyncInv, NEW d \in Caller, Call(d)
  PROVE  SyncInv'
<1> USE DEF SyncInv
<1>1. PICK p \in Pipe \ Open : syncId' = [syncId EXCEPT ![d] = p] BY DEF Call
<1>2. cpc[d] = "idle" /\ Due(d) = 0 BY DEF Call, Due
<1>3. /\ \A k \in 1 .. Len(svcQ) : svcQ[k].kind = "list" => svcQ[k].buffer # d
      /\ \A k \in 1 .. Len(mQ) : mQ[k].buffer # d
      /\ dpc # "ready" => reply.buffer # d
  BY <1>2, OneToken, NoToken
<1>4. p \notin exits BY DEF OneTokenPerCall
<1>5. /\ cpc'[d] = "send" /\ syncId'[d] = p /\ seen'[d] = {reg} /\ d \notin lost'
      /\ \A c \in Caller \ {d} :
           /\ cpc'[c] = cpc[c] /\ syncId'[c] = syncId[c] /\ buff'[c] = buff[c]
           /\ seen'[c] = seen[c] /\ (c \in lost' <=> c \in lost)
      /\ UNCHANGED <<exits, serviceVars, adapterVars>>
  BY <1>1 DEF Call, TypeOK
<1>6. \A c \in Caller \ {d} : InCall(c) => syncId[c] # p BY DEF Open
<1>7. TypeOK'
  BY <1>1 DEF Call, TypeOK, NodeLists, serviceVars, adapterVars
<1>8. TokensHome'
  <2>1. \A k \in 1 .. Len(svcQ) :
          svcQ[k].kind = "list" => svcQ[k].sync = syncId'[svcQ[k].buffer]
    BY <1>3, <1>5, Buffers DEF TokensHome
  <2>2. \A k \in 1 .. Len(mQ) : Good(mQ[k])'
    BY <1>3, <1>5, Buffers DEF TokensHome, Good, adapterVars
  <2>3. dpc # "ready" => Good(reply)' /\ buff'[reply.buffer] = buff[reply.buffer]
    BY <1>3, <1>5, Buffers DEF TokensHome, Good, adapterVars
  <2>4. QED BY <1>5, <2>1, <2>2, <2>3 DEF TokensHome, serviceVars, adapterVars
<1>9. CallInv'
  BY <1>2, <1>5, <1>6 DEF CallInv, InCall, serviceVars
<1>10. ListIsSnapshot' BY <1>5 DEF ListIsSnapshot
<1>11. OneTokenPerCall'
  <2>1. \A c \in Caller : Tokens(c)' = Due(c)'
    <3>1. SUFFICES ASSUME NEW c \in Caller PROVE Tokens(c)' = Due(c)'
      OBVIOUS
    <3>2. Asked(c)' = Asked(c) /\ Answered(c)' = Answered(c) /\ InHand(c)' = InHand(c)
      BY <1>5 DEF Asked, Answered, InHand, serviceVars, adapterVars
    <3>3. Woken(c)' = Woken(c)
      BY <1>2, <1>4, <1>5 DEF Woken, InCall
    <3>4. Due(c)' = Due(c) BY <1>2, <1>5 DEF Due
    <3>5. QED BY <3>2, <3>3, <3>4, TokensNext, TokenFacts, OneToken
  <2>2. exits' \subseteq Open'
    BY <1>2, <1>5 DEF OneTokenPerCall, Open, InCall
  <2>3. QED BY <2>1, <2>2 DEF OneTokenPerCall, Due
<1>12. QED BY <1>7, <1>8, <1>9, <1>10, <1>11

\* The request that is sent is the one token of its caller, or it is lost.
LEMMA SendListKeeps ==
  ASSUME SyncInv, NEW d \in Caller, SendList(d)
  PROVE  SyncInv'
<1> USE DEF SyncInv
<1> DEFINE q == Request("list", d, syncId[d], Receiver)
           room == Len(svcQ) < ServiceRoom
<1>1. /\ cpc[d] = "send" /\ cpc'[d] = "wait" /\ d \notin lost /\ Due(d) = 0
      /\ \A c \in Caller \ {d} : cpc'[c] = cpc[c]
      /\ \A c \in Caller : InCall(c)' <=> InCall(c)
      /\ UNCHANGED <<inside, syncId, buff, calls, exits, reg, changes, adapterVars, seen>>
  BY DEF SendList, TypeOK, CallInv, Due, InCall
<1>2. IF room THEN svcQ' = Append(svcQ, q) /\ lost' = lost
      ELSE svcQ' = svcQ /\ lost' = lost \cup {d}
  BY DEF SendList
<1>3. syncId[d] \notin exits BY <1>1, OneToken, NoToken DEF InCall
<1>4. q \in Requests /\ q.kind = "list" /\ q.buffer = d /\ q.sync = syncId[d]
  BY ListAssumption DEF Request, Requests, TypeOK
<1> HIDE DEF q
<1>5. TypeOK'
  <2>1. svcQ' \in Seq(Requests) /\ Len(svcQ') <= ServiceRoom
    <3>1. CASE room
      <4>1. svcQ' = Append(svcQ, q) BY <1>2, <3>1
      <4>2. svcQ' \in Seq(Requests) /\ Len(svcQ') = Len(svcQ) + 1
        BY <1>4, <4>1, AskedAppended
      <4>3. QED BY <3>1, <4>2, TokenFacts, ListAssumption
    <3>2. CASE ~room BY <1>2, <3>2 DEF TypeOK
    <3>3. QED BY <3>1, <3>2
  <2>2. cpc' \in [Caller -> {"idle", "send", "wait"}] BY DEF SendList, TypeOK
  <2>3. lost' \subseteq Caller BY <1>2 DEF TypeOK
  <2>4. QED BY <1>1, <2>1, <2>2, <2>3 DEF TypeOK, adapterVars
<1>6. TokensHome'
  <2>1. \A k \in 1 .. Len(svcQ') :
          svcQ'[k].kind = "list" => svcQ'[k].sync = syncId[svcQ'[k].buffer]
    <3>1. CASE room
      <4>1. svcQ' = Append(svcQ, q) BY <1>2, <3>1
      <4>2. \A k \in 1 .. Len(svcQ') :
              svcQ'[k] = q \/ (k \in 1 .. Len(svcQ) /\ svcQ'[k] = svcQ[k])
        BY <1>4, <4>1, AskedAppended
      <4>3. QED BY <1>4, <4>2 DEF TokensHome
    <3>2. CASE ~room BY <1>2, <3>2 DEF TokensHome
    <3>3. QED BY <3>1, <3>2
  <2>2. QED BY <1>1, <2>1 DEF TokensHome, Good, adapterVars
<1>7. CallInv' BY <1>1, <1>2 DEF CallInv
<1>8. ListIsSnapshot' BY <1>1, <1>3 DEF ListIsSnapshot
<1>9. OneTokenPerCall'
  <2>1. ASSUME NEW c \in Caller PROVE Tokens(c)' = Due(c)'
    <3>1. /\ Answered(c)' = Answered(c) /\ InHand(c)' = InHand(c)
          /\ Woken(c)' = Woken(c)
      BY <1>1 DEF Answered, InHand, Woken, adapterVars
    <3>2. CASE room
      <4>1. Cardinality(Asked(c)')
              = Cardinality(Asked(c)) + (IF d = c THEN 1 ELSE 0)
        BY <1>2, <1>4, <3>2, AskedAppended
      <4>2. Due(c)' = Due(c) + (IF d = c THEN 1 ELSE 0)
        BY <1>1, <1>2, <3>2 DEF Due
      <4>3. /\ Tokens(c)' = Tokens(c) + (IF d = c THEN 1 ELSE 0)
            /\ Tokens(c) = Due(c)
        <5>1. /\ Cardinality(Asked(c)) \in Nat /\ Cardinality(Answered(c)) \in Nat
              /\ InHand(c) \in {0, 1} /\ Woken(c) \in {0, 1}
          BY TokenFacts
        <5>2. Tokens(c) = Due(c) BY OneToken
        <5>3. QED BY <3>1, <4>1, <5>1, <5>2, TokensNext, TokenFacts
      <4>4. QED BY <4>2, <4>3
    <3>3. CASE ~room
      <4>1. Asked(c)' = Asked(c) BY <1>2, <3>3 DEF Asked
      <4>2. Due(c)' = Due(c) BY <1>1, <1>2, <3>3 DEF Due
      <4>3. QED BY <3>1, <4>1, <4>2, TokensNext, TokenFacts, OneToken
    <3>4. QED BY <3>2, <3>3
  <2>2. exits' \subseteq Open' BY <1>1 DEF OneTokenPerCall, Open
  <2>3. QED BY <2>1, <2>2 DEF OneTokenPerCall, Due
<1>10. QED BY <1>5, <1>6, <1>7, <1>8, <1>9

\* A call that returns takes its event along and no other.
LEMMA ReturnKeeps ==
  ASSUME SyncInv, NEW d \in Caller, Return(d)
  PROVE  SyncInv'
<1> USE DEF SyncInv
<1>1. /\ cpc[d] = "wait" /\ cpc'[d] = "idle" /\ syncId[d] \in exits
      /\ \A c \in Caller \ {d} : cpc'[c] = cpc[c]
      /\ exits' = exits \ {syncId[d]}
      /\ UNCHANGED <<syncId, buff, calls, serviceVars, adapterVars, seen, lost>>
  BY DEF Return, TypeOK
<1>2. \A c \in Caller \ {d} : InCall(c) => syncId[c] # syncId[d]
  BY <1>1 DEF CallInv, InCall
<1>3. TypeOK' BY <1>1 DEF Return, TypeOK, serviceVars, adapterVars
<1>4. TokensHome' BY <1>1 DEF TokensHome, Good, serviceVars, adapterVars
<1>5. CallInv' BY <1>1 DEF CallInv, InCall, serviceVars
<1>6. ListIsSnapshot' BY <1>1 DEF ListIsSnapshot
<1>7. OneTokenPerCall'
  <2>1. ASSUME NEW c \in Caller PROVE Tokens(c)' = Due(c)'
    <3>1. /\ Asked(c)' = Asked(c) /\ Answered(c)' = Answered(c)
          /\ InHand(c)' = InHand(c)
      BY <1>1 DEF Asked, Answered, InHand, serviceVars, adapterVars
    <3>2. CASE c = d
      <4>1. Woken(c) = 1 /\ Woken(c)' = 0 BY <1>1, <3>2 DEF Woken, InCall
      <4>2. Due(c)' = 0 BY <1>1, <3>2 DEF Due
      <4>3. QED BY <3>1, <4>1, <4>2, TokensNext, TokenFacts, OneToken
    <3>3. CASE c # d
      <4>1. Woken(c)' = Woken(c) BY <1>1, <1>2, <3>3 DEF Woken, InCall
      <4>2. Due(c)' = Due(c) BY <1>1, <3>3 DEF Due
      <4>3. QED BY <3>1, <4>1, <4>2, TokensNext, TokenFacts, OneToken
    <3>4. QED BY <3>2, <3>3
  <2>2. exits' \subseteq Open'
    BY <1>1 DEF OneTokenPerCall, Open, InCall
  <2>3. QED BY <2>1, <2>2 DEF OneTokenPerCall, Due
<1>8. QED BY <1>3, <1>4, <1>5, <1>6, <1>7

\* There are a caller and a pipe to stand for those that do not matter.
LEMMA AnyOfEach ==
  AnyCaller \in Caller /\ AnyPipe \in Pipe
<1>1. Cardinality(Caller) # 0 /\ Cardinality(Caller) \in Nat
  BY ListAssumption, FS_EmptySet, FS_CardinalityType
<1>2. Pipe # {} BY <1>1, ListAssumption, FS_EmptySet
<1>3. QED BY <1>2, ListAssumption DEF AnyCaller, AnyPipe

\* A request to join or drop a name is nobody's token.
LEMMA ChangeKeeps ==
  ASSUME SyncInv, NEW kind \in {"join", "drop"}, NEW n \in Node, Change(kind, n)
  PROVE  SyncInv'
<1> USE DEF SyncInv
<1> DEFINE q == Request(kind, AnyCaller, AnyPipe, n)
<1>1. q \in Requests /\ q.kind # "list" BY AnyOfEach DEF Request, Requests
<1>2. svcQ' = Append(svcQ, q) /\ Len(svcQ) < ServiceRoom BY DEF Change
<1> HIDE DEF q
<1>3. UNCHANGED <<callerVars, exits, reg, adapterVars, seen, lost>> BY DEF Change
<1>4. svcQ' \in Seq(Requests) /\ Len(svcQ') = Len(svcQ) + 1
  BY <1>1, <1>2, AskedAppended, AnyOfEach
<1>5. \A k \in 1 .. Len(svcQ') :
        svcQ'[k] = q \/ (k \in 1 .. Len(svcQ) /\ svcQ'[k] = svcQ[k])
  BY <1>1, <1>2, AskedAppended, AnyOfEach
<1>6. TypeOK'
  <2>1. changes' \in Nat BY DEF Change, TypeOK
  <2>2. Len(svcQ') <= ServiceRoom
    BY <1>2, <1>4, TokenFacts, AnyOfEach, ListAssumption
  <2>3. QED BY <1>3, <1>4, <2>1, <2>2 DEF TypeOK, callerVars, adapterVars
<1>7. TokensHome'
  BY <1>1, <1>3, <1>5 DEF TokensHome, Good, callerVars, adapterVars
<1>8. CallInv' BY <1>3 DEF CallInv, InCall, callerVars
<1>9. ListIsSnapshot' BY <1>3 DEF ListIsSnapshot, callerVars
<1>10. OneTokenPerCall'
  <2>1. ASSUME NEW c \in Caller PROVE Tokens(c)' = Due(c)'
    <3>1. /\ Answered(c)' = Answered(c) /\ InHand(c)' = InHand(c)
          /\ Woken(c)' = Woken(c) /\ Due(c)' = Due(c)
      BY <1>3 DEF Answered, InHand, Woken, InCall, Due, callerVars, adapterVars
    <3>2. Cardinality(Asked(c)') = Cardinality(Asked(c)) + 0
      BY <1>1, <1>2, AskedAppended
    <3>3. QED BY <3>1, <3>2, TokensNext, TokenFacts, OneToken
  <2>2. exits' \subseteq Open' BY <1>3 DEF OneTokenPerCall, Open, InCall, callerVars
  <2>3. QED BY <2>1, <2>2 DEF OneTokenPerCall, Due
<1>11. QED BY <1>6, <1>7, <1>8, <1>9, <1>10

\* A change of the registry is added to what the calls under way could be
\* given, and takes nothing away.
LEMMA SeenGrows ==
  ASSUME TypeOK, CallInv, NEW r \in SUBSET Node,
         Becomes(r) \/ UNCHANGED <<reg, seen>>, UNCHANGED cpc
  PROVE  /\ reg' \in SUBSET Node /\ seen' \in [Caller -> SUBSET SUBSET Node]
         /\ \A c \in Caller : seen[c] \subseteq seen'[c]
         /\ \A c \in Caller : InCall(c)' => reg' \in seen'[c]
<1>1. CASE UNCHANGED <<reg, seen>> BY <1>1 DEF TypeOK, CallInv, InCall
<1>2. CASE Becomes(r)
  <2>1. /\ reg' = r
        /\ seen' = [c \in Caller |-> IF InCall(c) THEN seen[c] \cup {r} ELSE seen[c]]
    BY <1>2 DEF Becomes
  <2>2. \A c \in Caller : seen[c] \in SUBSET SUBSET Node BY DEF TypeOK
  <2>3. \A c \in Caller :
          (IF InCall(c) THEN seen[c] \cup {r} ELSE seen[c]) \in SUBSET SUBSET Node
    BY <2>2
  <2>4. seen' \in [Caller -> SUBSET SUBSET Node] BY <2>1, <2>3
  <2>5. \A c \in Caller : seen[c] \subseteq seen'[c] BY <2>1
  <2>6. \A c \in Caller : InCall(c)' => reg' \in seen'[c] BY <2>1 DEF InCall
  <2>7. QED BY <2>1, <2>4, <2>5, <2>6
<1>3. QED BY <1>1, <1>2

\* Serving a join or a drop.
LEMMA ServeChangeKeeps ==
  ASSUME SyncInv, ServeChange
  PROVE  SyncInv'
<1> USE DEF SyncInv
<1>1. /\ svcQ # <<>> /\ svcQ' = Tail(svcQ) /\ Head(svcQ).kind # "list"
      /\ UNCHANGED <<callerVars, exits, changes, adapterVars, lost>>
  BY DEF ServeChange
<1>2. /\ svcQ' \in Seq(Requests) /\ Len(svcQ') = Len(svcQ) - 1
      /\ Head(svcQ) = svcQ[1] /\ svcQ[1] \in Requests
      /\ \A k \in 1 .. Len(svcQ') :
           k + 1 \in 1 .. Len(svcQ) /\ svcQ'[k] = svcQ[k + 1]
  BY <1>1, AskedTaken, AnyOfEach
<1>3. PICK r \in SUBSET Node : Becomes(r)
  BY <1>2 DEF ServeChange, TypeOK, Requests
<1>4. /\ reg' \in SUBSET Node /\ seen' \in [Caller -> SUBSET SUBSET Node]
      /\ \A c \in Caller : seen[c] \subseteq seen'[c]
      /\ \A c \in Caller : InCall(c)' => reg' \in seen'[c]
  BY <1>1, <1>3, SeenGrows DEF callerVars
<1>5. TypeOK'
  <2>1. Len(svcQ') <= ServiceRoom
    BY <1>2, TokenFacts, AnyOfEach, ListAssumption DEF TypeOK
  <2>2. QED BY <1>1, <1>2, <1>4, <2>1 DEF TypeOK, callerVars, adapterVars
<1>6. TokensHome'
  <2>1. \A k \in 1 .. Len(mQ) : Good(mQ[k])'
    BY <1>1, <1>4, Buffers DEF TokensHome, Good, callerVars, adapterVars
  <2>2. dpc # "ready" => Good(reply)'
    BY <1>1, <1>4, Buffers DEF TokensHome, Good, callerVars, adapterVars
  <2>3. QED BY <1>1, <1>2, <2>1, <2>2 DEF TokensHome, callerVars, adapterVars
<1>7. CallInv' BY <1>1, <1>4 DEF CallInv, InCall, callerVars
<1>8. ListIsSnapshot' BY <1>1, <1>4 DEF ListIsSnapshot, callerVars
<1>9. OneTokenPerCall'
  <2>1. ASSUME NEW c \in Caller PROVE Tokens(c)' = Due(c)'
    <3>1. /\ Answered(c)' = Answered(c) /\ InHand(c)' = InHand(c)
          /\ Woken(c)' = Woken(c) /\ Due(c)' = Due(c)
      BY <1>1 DEF Answered, InHand, Woken, InCall, Due, callerVars, adapterVars
    <3>2. Cardinality(Asked(c)') = Cardinality(Asked(c)) - 0
      BY <1>1, <1>2, AskedTaken
    <3>3. QED BY <3>1, <3>2, TokensNext, TokenFacts, OneToken
  <2>2. exits' \subseteq Open' BY <1>1 DEF OneTokenPerCall, Open, InCall, callerVars
  <2>3. QED BY <2>1, <2>2 DEF OneTokenPerCall, Due
<1>10. QED BY <1>5, <1>6, <1>7, <1>8, <1>9

\* Serving a LIST: the request's token becomes the reply's, or it is lost.
LEMMA ServeListKeeps ==
  ASSUME SyncInv, ServeList
  PROVE  SyncInv'
<1> USE DEF SyncInv
<1> DEFINE q == svcQ[1]
           b == q.buffer
           a == ReplyTo(q)
           sent == mQ' = Append(mQ, a) /\ lost' = lost /\ Len(mQ) < AdapterRoom
           dropped == mQ' = mQ /\ lost' = lost \cup {b}
<1>1. /\ svcQ # <<>> /\ svcQ' = Tail(svcQ) /\ Head(svcQ).kind = "list"
      /\ UNCHANGED <<callerVars, exits, changes, up, dpc, reply>>
  BY DEF ServeList
<1>2. /\ svcQ' \in Seq(Requests) /\ Len(svcQ') = Len(svcQ) - 1
      /\ Head(svcQ) = q /\ q \in Requests /\ 1 \in 1 .. Len(svcQ)
      /\ \A k \in 1 .. Len(svcQ') :
           k + 1 \in 1 .. Len(svcQ) /\ svcQ'[k] = svcQ[k + 1]
  BY <1>1, AskedTaken, AnyOfEach
<1>3. sent \/ dropped BY <1>2 DEF ServeList
<1>4. \E r \in SUBSET Node : Becomes(r) \/ UNCHANGED <<reg, seen>>
  <2>1. reg \ {Head(svcQ).node} \in SUBSET Node BY DEF TypeOK
  <2>2. QED BY <2>1 DEF ServeList
<1>5. /\ reg' \in SUBSET Node /\ seen' \in [Caller -> SUBSET SUBSET Node]
      /\ \A c \in Caller : seen[c] \subseteq seen'[c]
      /\ \A c \in Caller : InCall(c)' => reg' \in seen'[c]
  BY <1>1, <1>4, SeenGrows DEF callerVars
<1>6. b \in Caller /\ cpc[b] = "wait" /\ b \notin lost /\ Woken(b) = 0
  <2>1. b \in Caller /\ 1 \in Asked(b) BY <1>1, <1>2 DEF Requests, Asked
  <2>2. Cardinality(Asked(b)) # 0 BY <2>1, TokenFacts, FS_EmptySet
  <2>3. Asked(b) # {} BY <2>1
  <2>4. Tokens(b) # 0 BY <2>1, <2>2, TokenFacts
  <2>5. QED BY <2>1, <2>3, <2>4, OneToken
<1>7. a \in Replies /\ a.buffer = b /\ Good(a)
  <2>1. a = [buffer |-> b, sync |-> q.sync, list |-> [known |-> TRUE, nodes |-> reg]]
    BY DEF ReplyTo, NodeList
  <2>2. q.sync = syncId[b] BY <1>1, <1>2 DEF TokensHome
  <2>3. reg \in seen[b] BY <1>6 DEF CallInv, InCall
  <2>4. a.list \in NodeLists
    <3>1. NodeList(reg) \in NodeLists BY DEF NodeLists, TypeOK
    <3>2. QED BY <2>1, <3>1 DEF NodeList
  <2>5. b \in Caller /\ q.sync \in Pipe BY <1>2 DEF Requests
  <2>6. a \in Replies BY <2>1, <2>4, <2>5 DEF Replies
  <2>7. QED BY <2>1, <2>2, <2>3, <2>6 DEF Good
<1> HIDE DEF a
<1>8. TypeOK'
  <2>1. Len(svcQ') <= ServiceRoom
    BY <1>2, TokenFacts, AnyOfEach, ListAssumption DEF TypeOK
  <2>2. mQ' \in Seq(Replies) /\ Len(mQ') <= AdapterRoom
    <3>1. CASE sent
      <4>1. mQ' \in Seq(Replies) /\ Len(mQ') = Len(mQ) + 1
        BY <1>7, <3>1, AnsweredAppended, AnyOfEach
      <4>2. QED BY <3>1, <4>1, TokenFacts, AnyOfEach, ListAssumption
    <3>2. CASE dropped BY <3>2 DEF TypeOK
    <3>3. QED BY <1>3, <3>1, <3>2
  <2>3. lost' \subseteq Caller BY <1>3, <1>6 DEF TypeOK
  <2>4. QED BY <1>1, <1>2, <1>5, <2>1, <2>2, <2>3 DEF TypeOK, callerVars
<1>9. TokensHome'
  <2>1. \A k \in 1 .. Len(mQ') : Good(mQ'[k])
    <3>1. CASE sent
      <4>1. \A k \in 1 .. Len(mQ') :
              mQ'[k] = a \/ (k \in 1 .. Len(mQ) /\ mQ'[k] = mQ[k])
        BY <1>7, <3>1, AnsweredAppended, AnyOfEach
      <4>2. QED BY <1>7, <4>1 DEF TokensHome
    <3>2. CASE dropped BY <3>2 DEF TokensHome
    <3>3. QED BY <1>3, <3>1, <3>2
  <2>2. \A k \in 1 .. Len(mQ') : mQ'[k].buffer \in Caller
    <3>1. mQ' \in Seq(Replies) BY <1>8 DEF TypeOK
    <3>2. \A k \in 1 .. Len(mQ') : mQ'[k] \in Replies BY <3>1, ElementOfSeq
    <3>3. QED BY <3>2 DEF Replies
  <2>3. \A k \in 1 .. Len(mQ') : Good(mQ[k])'
    BY <1>1, <1>5, <2>1, <2>2 DEF Good, callerVars
  <2>4. dpc # "ready" => Good(reply)'
    BY <1>1, <1>5, Buffers DEF TokensHome, Good, callerVars
  <2>5. QED BY <1>1, <1>2, <2>3, <2>4 DEF TokensHome, callerVars
<1>10. CallInv' BY <1>1, <1>3, <1>5, <1>6 DEF CallInv, InCall, callerVars
<1>11. ListIsSnapshot' BY <1>1, <1>5 DEF ListIsSnapshot, callerVars
<1>12. OneTokenPerCall'
  <2>1. ASSUME NEW c \in Caller PROVE Tokens(c)' = Due(c)'
    <3> DEFINE one == IF b = c THEN 1 ELSE 0
    <3>1. InHand(c)' = InHand(c) /\ Woken(c)' = Woken(c)
      BY <1>1 DEF InHand, Woken, InCall, callerVars
    <3>2. Cardinality(Asked(c)') = Cardinality(Asked(c)) - one
      BY <1>1, <1>2, AskedTaken
    <3>3. CASE sent
      <4>1. Due(c)' = Due(c) BY <1>1, <3>3 DEF Due, callerVars
      <4>2. Cardinality(Answered(c)') = Cardinality(Answered(c)) + one
        BY <1>7, <3>3, AnsweredAppended
      <4>3. QED BY <3>1, <3>2, <4>1, <4>2, TokensNext, TokenFacts, OneToken
    <3>4. CASE dropped
      <4>1. Due(c)' = Due(c) - one BY <1>1, <1>6, <3>4 DEF Due, callerVars
      <4>2. Answered(c)' = Answered(c) BY <3>4 DEF Answered
      <4>3. QED BY <3>1, <3>2, <4>1, <4>2, TokensNext, TokenFacts, OneToken
    <3>5. QED BY <1>3, <3>3, <3>4
  <2>2. exits' \subseteq Open' BY <1>1 DEF OneTokenPerCall, Open, InCall, callerVars
  <2>3. QED BY <2>1, <2>2 DEF OneTokenPerCall, Due
<1>13. QED BY <1>8, <1>9, <1>10, <1>11, <1>12

\* The adapter stops to accept; what it holds stays.
LEMMA KillKeeps ==
  ASSUME SyncInv, Kill
  PROVE  SyncInv'
<1> USE DEF SyncInv
<1>1. /\ up' \in BOOLEAN
      /\ UNCHANGED <<callerVars, exits, serviceVars, mQ, dpc, reply, seen, lost>>
  BY DEF Kill
<1>2. TypeOK' BY <1>1 DEF TypeOK, callerVars, serviceVars
<1>3. TokensHome' BY <1>1 DEF TokensHome, Good, callerVars, serviceVars
<1>4. CallInv' BY <1>1 DEF CallInv, InCall, callerVars, serviceVars
<1>5. ListIsSnapshot' BY <1>1 DEF ListIsSnapshot, callerVars
<1>6. OneTokenPerCall'
  BY <1>1 DEF OneTokenPerCall, Tokens, Open, InCall, callerVars, serviceVars
<1>7. QED BY <1>2, <1>3, <1>4, <1>5, <1>6

\* The dispatcher takes a reply: the token goes from the queue to its hand.
LEMMA TakeKeeps ==
  ASSUME SyncInv, Take
  PROVE  SyncInv'
<1> USE DEF SyncInv
<1>1. /\ mQ # <<>> /\ reply' = Head(mQ) /\ mQ' = Tail(mQ)
      /\ dpc = "ready" /\ dpc' = "copy"
      /\ UNCHANGED <<callerVars, exits, serviceVars, up, seen, lost>>
  BY DEF Take
<1>2. /\ mQ' \in Seq(Replies) /\ Len(mQ') = Len(mQ) - 1
      /\ reply' = mQ[1] /\ mQ[1] \in Replies /\ 1 \in 1 .. Len(mQ)
      /\ \A k \in 1 .. Len(mQ') : k + 1 \in 1 .. Len(mQ) /\ mQ'[k] = mQ[k + 1]
  BY <1>1, AnsweredTaken, AnyOfEach
<1>3. TypeOK'
  <2>1. Len(mQ') <= AdapterRoom
    BY <1>2, TokenFacts, AnyOfEach, ListAssumption DEF TypeOK
  <2>2. QED BY <1>1, <1>2, <2>1 DEF TypeOK, callerVars, serviceVars
<1>4. TokensHome'
  <2>1. \A k \in 1 .. Len(mQ') : Good(mQ[k])' BY <1>1, <1>2 DEF TokensHome, Good, callerVars
  <2>2. Good(reply)' BY <1>1, <1>2 DEF TokensHome, Good, callerVars
  <2>3. QED BY <1>1, <2>1, <2>2 DEF TokensHome, callerVars, serviceVars
<1>5. CallInv' BY <1>1 DEF CallInv, InCall, callerVars, serviceVars
<1>6. ListIsSnapshot' BY <1>1 DEF ListIsSnapshot, callerVars
<1>7. OneTokenPerCall'
  <2>1. ASSUME NEW c \in Caller PROVE Tokens(c)' = Due(c)'
    <3> DEFINE one == IF mQ[1].buffer = c THEN 1 ELSE 0
    <3>1. Asked(c)' = Asked(c) /\ Woken(c)' = Woken(c) /\ Due(c)' = Due(c)
      BY <1>1 DEF Asked, Woken, InCall, Due, callerVars, serviceVars
    <3>2. Cardinality(Answered(c)') = Cardinality(Answered(c)) - one
      BY <1>1, AnsweredTaken
    <3>3. InHand(c) = 0 /\ InHand(c)' = one BY <1>1, <1>2 DEF InHand
    <3>4. QED BY <3>1, <3>2, <3>3, TokensNext, TokenFacts, OneToken
  <2>2. exits' \subseteq Open' BY <1>1 DEF OneTokenPerCall, Open, InCall, callerVars
  <2>3. QED BY <2>1, <2>2 DEF OneTokenPerCall, Due
<1>8. QED BY <1>3, <1>4, <1>5, <1>6, <1>7

\* The caller whose reply is in the hand waits, and its pipe is empty.
LEMMA HandIsAwaited ==
  ASSUME SyncInv, dpc # "ready"
  PROVE  /\ reply.buffer \in Caller /\ cpc[reply.buffer] = "wait"
         /\ InHand(reply.buffer) = 1 /\ syncId[reply.buffer] \notin exits
<1> DEFINE b == reply.buffer
<1>1. b \in Caller BY Buffers DEF SyncInv
<1>2. InHand(b) = 1 BY DEF InHand
<1>3. Tokens(b) # 0 BY <1>1, <1>2, TokenFacts DEF SyncInv
<1>4. cpc[b] = "wait" /\ Woken(b) = 0
  BY <1>1, <1>2, <1>3, OneToken DEF SyncInv
<1>5. syncId[b] \notin exits BY <1>4 DEF Woken, InCall
<1>6. QED BY <1>1, <1>2, <1>4, <1>5

\* The list is copied to the buffer of a caller that waits and is not woken.
LEMMA CopyKeeps ==
  ASSUME SyncInv, Copy
  PROVE  SyncInv'
<1> USE DEF SyncInv
<1>1. /\ dpc = "copy" /\ dpc' = "exit"
      /\ buff' = [buff EXCEPT ![reply.buffer] = reply.list]
      /\ UNCHANGED <<cpc, inside, syncId, calls, exits, serviceVars, up, mQ, reply,
                     seen, lost>>
  BY DEF Copy
<1>2. reply.buffer \in Caller /\ syncId[reply.buffer] \notin exits
  BY <1>1, HandIsAwaited
<1>3. TypeOK' BY <1>1, Buffers DEF TypeOK, serviceVars
<1>4. TokensHome'
  <2>1. buff'[reply.buffer] = reply.list BY <1>1, <1>2 DEF TypeOK
  <2>2. QED BY <1>1, <2>1 DEF TokensHome, Good, serviceVars
<1>5. CallInv' BY <1>1 DEF CallInv, InCall, serviceVars
<1>6. ListIsSnapshot' BY <1>1, <1>2 DEF ListIsSnapshot, TypeOK
<1>7. OneTokenPerCall'
  BY <1>1 DEF OneTokenPerCall, Tokens, Open, InCall, serviceVars
<1>8. QED BY <1>3, <1>4, <1>5, <1>6, <1>7

\* The event is written: the token goes from the hand to the pipe.
LEMMA ExitKeeps ==
  ASSUME SyncInv, Exit
  PROVE  SyncInv'
<1> USE DEF SyncInv
<1> DEFINE b == reply.buffer
<1>1. /\ dpc = "exit" /\ dpc' = "ready" /\ reply' = NoReply
      /\ exits' = exits \cup {reply.sync}
      /\ UNCHANGED <<callerVars, serviceVars, up, mQ, seen, lost>>
  BY DEF Exit
<1>2. b \in Caller /\ cpc[b] = "wait" /\ InHand(b) = 1 /\ syncId[b] \notin exits
  BY <1>1, HandIsAwaited
<1>3. reply.sync = syncId[b] /\ Good(reply) /\ buff[b] = reply.list
  BY <1>1 DEF TokensHome, Good
<1>4. \A c \in Caller \ {b} : InCall(c) => syncId[c] # syncId[b]
  BY <1>2 DEF CallInv, InCall
<1>5. TypeOK'
  <2>1. NoReply \in Replies
    BY AnyOfEach DEF NoReply, Replies, NodeLists
  <2>2. QED BY <1>1, <2>1, Buffers DEF TypeOK, callerVars, serviceVars
<1>6. TokensHome' BY <1>1 DEF TokensHome, Good, callerVars, serviceVars
<1>7. CallInv' BY <1>1 DEF CallInv, InCall, callerVars, serviceVars
<1>8. ListIsSnapshot'
  <2>1. ASSUME NEW c \in Caller, cpc[c] = "wait", syncId[c] \in exits'
        PROVE  buff[c].known /\ buff[c].nodes \in seen[c]
    <3>1. CASE c = b BY <1>3, <3>1 DEF Good
    <3>2. CASE c # b
      <4>1. syncId[c] \in exits BY <1>1, <1>3, <1>4, <2>1, <3>2 DEF InCall
      <4>2. QED BY <2>1, <4>1 DEF ListIsSnapshot
    <3>3. QED BY <3>1, <3>2
  <2>2. QED BY <1>1, <2>1 DEF ListIsSnapshot, callerVars
<1>9. OneTokenPerCall'
  <2>1. ASSUME NEW c \in Caller PROVE Tokens(c)' = Due(c)'
    <3>1. Asked(c)' = Asked(c) /\ Answered(c)' = Answered(c) /\ Due(c)' = Due(c)
      BY <1>1 DEF Asked, Answered, Due, callerVars, serviceVars
    <3>2. InHand(c)' = 0 BY <1>1 DEF InHand
    <3>3. Woken(c)' = Woken(c) + InHand(c)
      <4>1. CASE c = b
        <5>1. Woken(c) = 0 /\ Woken(c)' = 1
          BY <1>1, <1>2, <1>3, <4>1 DEF Woken, InCall, callerVars
        <5>2. QED BY <1>2, <4>1, <5>1
      <4>2. CASE c # b
        <5>1. InHand(c) = 0 BY <4>2 DEF InHand
        <5>2. Woken(c)' = Woken(c)
          BY <1>1, <1>3, <1>4, <4>2 DEF Woken, InCall, callerVars
        <5>3. QED BY <5>1, <5>2, TokenFacts
      <4>3. QED BY <4>1, <4>2
    <3>4. QED BY <3>1, <3>2, <3>3, TokensNext, TokenFacts, OneToken
  <2>2. exits' \subseteq Open'
    BY <1>1, <1>2, <1>3 DEF OneTokenPerCall, Open, InCall, callerVars
  <2>3. QED BY <2>1, <2>2 DEF OneTokenPerCall, Due
<1>10. QED BY <1>5, <1>6, <1>7, <1>8, <1>9

-----------------------------------------------------------------------------
(* The invariant, and what it gives.                                       *)

\* Before the first call there are no tokens.
LEMMA SyncInvInit ==
  ASSUME Init
  PROVE  SyncInv
<1> USE DEF Init
<1>1. svcQ \in Seq(Requests) /\ Len(svcQ) = 0 /\ mQ \in Seq(Replies) /\ Len(mQ) = 0
  BY EmptySeq
<1>2. NoReply \in Replies /\ NoList \in NodeLists
  BY AnyOfEach DEF NoReply, Replies, NodeLists
<1>3. TypeOK BY <1>1, <1>2, AnyOfEach, ListAssumption DEF TypeOK
<1>4. TokensHome BY <1>1 DEF TokensHome
<1>5. CallInv BY DEF CallInv, InCall
<1>6. ListIsSnapshot BY DEF ListIsSnapshot
<1>7. OneTokenPerCall
  <2>1. ASSUME NEW c \in Caller PROVE Tokens(c) = 0 /\ Due(c) = 0
    <3>1. Asked(c) = {} /\ Answered(c) = {} BY <1>1 DEF Asked, Answered
    <3>2. InHand(c) = 0 /\ Woken(c) = 0 /\ Due(c) = 0
      BY DEF InHand, Woken, InCall, Due
    <3>3. Cardinality(Asked(c)) = 0 /\ Cardinality(Answered(c)) = 0
      BY <3>1, FS_EmptySet
    <3>4. QED BY <1>3, <3>2, <3>3, TokenFacts
  <2>2. QED BY <2>1 DEF OneTokenPerCall, Due
<1>8. QED BY <1>3, <1>4, <1>5, <1>6, <1>7 DEF SyncInv

\* Every step keeps it.
LEMMA SyncInvNext ==
  ASSUME SyncInv, [Next]_vars
  PROVE  SyncInv'
<1>1. ASSUME NEW c \in Caller, Call(c) \/ SendList(c) \/ Return(c) PROVE SyncInv'
  BY <1>1, CallKeeps, SendListKeeps, ReturnKeeps
<1>2. ASSUME NEW kind \in {"join", "drop"}, NEW n \in Node, Change(kind, n)
      PROVE  SyncInv'
  BY <1>2, ChangeKeeps
<1>3. CASE Serve BY <1>3, ServeChangeKeeps, ServeListKeeps DEF Serve
<1>4. CASE Kill BY <1>4, KillKeeps
<1>5. CASE Dispatch BY <1>5, TakeKeeps, CopyKeeps, ExitKeeps DEF Dispatch
<1>6. CASE UNCHANGED vars
  <2>1. UNCHANGED <<cpc, inside, syncId, buff, calls, exits, svcQ, reg, changes, up,
                    mQ, dpc, reply, seen, lost>>
    BY <1>6 DEF vars, callerVars, serviceVars, adapterVars
  <2>2. TypeOK' BY <2>1 DEF SyncInv, TypeOK
  <2>3. TokensHome' BY <2>1 DEF SyncInv, TokensHome, Good
  <2>4. CallInv' /\ ListIsSnapshot'
    BY <2>1 DEF SyncInv, CallInv, InCall, ListIsSnapshot
  <2>5. OneTokenPerCall'
    BY <2>1 DEF SyncInv, OneTokenPerCall, Tokens, Open, InCall
  <2>6. QED BY <2>2, <2>3, <2>4, <2>5 DEF SyncInv
<1>7. QED BY <1>1, <1>2, <1>3, <1>4, <1>5, <1>6 DEF Next

\* What always holds of getNodeList's messages, numbers and buffers.
THEOREM SyncInvCorrect == Spec => []SyncInv
<1>1. Init => SyncInv BY SyncInvInit
<1>2. SyncInv /\ [Next]_vars => SyncInv' BY SyncInvNext
<1>3. QED BY <1>1, <1>2, PTL DEF Spec

\* The variables keep their types, the queues their room.
THEOREM SyncTypeCorrect == Spec => []TypeOK
<1>1. SyncInv => TypeOK BY DEF SyncInv
<1>2. QED BY <1>1, SyncInvCorrect, PTL

\* A waiting caller of getNodeList has exactly one message under way unless one
\* was dropped, a caller that has returned has none, and no closed pipe is
\* written to: for any number of callers, pipes and names and any queues.
THEOREM OneTokenPerCallCorrect == Spec => []OneTokenPerCall
<1>1. SyncInv => OneTokenPerCall BY DEF SyncInv
<1>2. QED BY <1>1, SyncInvCorrect, PTL

\* A call of getNodeList returns with the registry of some moment of the call.
THEOREM ListIsSnapshotCorrect == Spec => []ListIsSnapshot
<1>1. SyncInv => ListIsSnapshot BY DEF SyncInv
<1>2. QED BY <1>1, SyncInvCorrect, PTL
=============================================================================
