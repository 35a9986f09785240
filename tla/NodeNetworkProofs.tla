------------------------- MODULE NodeNetworkProofs -------------------------
(***************************************************************************)
(* Proofs about one-shot messages: that a node is called back with whole   *)
(* messages only, and what the result of a send means, for any number of   *)
(* senders, any lengths, and any size of a page, a connection and the      *)
(* backlog.                                                                *)
(*                                                                         *)
(* Both rest on one description of a connection.  What its sender writes   *)
(* is a stream of cells that is known beforehand (Cell); its place in that *)
(* stream is Put, the receiver's is Taken, and the wire holds the cells    *)
(* between the two.                                                        *)
(*                                                                         *)
(* The last part is about the bridge, whose senders take the same steps:   *)
(* there a connection is read once, so the wire always holds the beginning *)
(* of its stream (BridgeInv).                                              *)
(***************************************************************************)
EXTENDS Bridge, SequenceTheorems, TLAPS

\* The k-th cell a sender writes.
Cell(s, k) ==
  IF k = 1 THEN IF s \in Kills THEN KillWord ELSE TypeWord
  ELSE IF k = 2 THEN LengthWord ELSE k - 2

\* Bytes of the data written, by a sender that is at its data.
Written(s) == i[s] * Page + sent[s]

\* Cells written, by a sender that is not through.
Put(s) ==
  IF spc[s] = "data" THEN 2 + Written(s) ELSE IF spc[s] = "length" THEN 1 ELSE 0

\* Cells of a connection read, if it is still open.
Taken(s) ==
  IF conn # s \/ rpc = "type" THEN 0
  ELSE IF rpc = "length" THEN 1 ELSE 2 + Len(got)

Connected == {"type", "length", "data"}

\* A sender's locals: it is in the page of its i, and has written a part of it.
\* A page is left as soon as it is written.
SenderInv(s) ==
  /\ spc[s] \in {"connect", "type", "length"}
       => length[s] = total[s] /\ i[s] = 0 /\ sent[s] = 0
  /\ spc[s] = "data"
       => /\ i[s] * Page <= total[s] /\ length[s] = total[s] - i[s] * Page
          /\ sent[s] + sizeToSend[s] = PageOf(length[s])
          /\ sent[s] > 0 => sizeToSend[s] > 0
  /\ writing[s] <=> spc[s] \in Connected
  /\ res[s] = "none" <=> spc[s] # "done"
  /\ spc[s] = "connect" => wire[s] = <<>>

\* What is on the wire of an open connection.
WireInv(s) ==
  Reading(s)
    => /\ \A k \in 1 .. Len(wire[s]) : wire[s][k] = Cell(s, Taken(s) + k)
       /\ spc[s] # "done" => Taken(s) + Len(wire[s]) = Put(s)

\* The receiver closes a connection under its sender only behind the last byte.
ClosedInv(s) ==
  Listening /\ spc[s] \in Connected /\ ~Reading(s)
    => spc[s] = "data" /\ Written(s) = total[s]

ResultInv(s) ==
  s \notin Kills /\ Listening /\ res[s] \in {"sent", "failed", "killed"}
    => (res[s] = "sent" <=> ~PageMultiple(s))

SideInv(s) == SenderInv(s) /\ WireInv(s) /\ ClosedInv(s) /\ ResultInv(s)

\* A sender connects once; a connection waits, or is read, or is closed.
QueueInv ==
  /\ \A j, k \in 1 .. Len(backlog) : backlog[j] = backlog[k] => j = k
  /\ \A k \in 1 .. Len(backlog) : backlog[k] # conn /\ spc[backlog[k]] # "connect"
  /\ conn # Nobody => spc[conn] # "connect"
  /\ conn # Nobody <=> rpc \in Connected

\* The receiver's buffer holds the first bytes, and want is the rest.
GotInv ==
  /\ \A k \in 1 .. Len(got) : got[k] = k
  /\ rpc \in {"accept", "type", "length"} => got = <<>>
  /\ rpc = "data" => /\ want + Len(got) = total[conn]
                     /\ want = 0 => total[conn] = 0

NetInv ==
  /\ TypeOK /\ QueueInv /\ GotInv /\ WholeOrNothing
  /\ \A s \in Sender : SideInv(s)

-----------------------------------------------------------------------------
(* Arithmetic of pages.                                                    *)

\* The next page of n bytes is no longer than what is left, and empty only if
\* nothing is left.
LEMMA PageOfFacts ==
  ASSUME NetworkAssumption, NEW n \in Nat
  PROVE  /\ PageOf(n) \in 0 .. n /\ PageOf(n) <= Page
         /\ PageOf(n) = 0 => n = 0
         /\ n >= Page => PageOf(n) = Page
BY DEF NetworkAssumption, PageOf

\* The pages before the last one are whole: a page j with j*Page bytes before it
\* is the last one if less than a page is left, and there is one behind it if
\* not.
LEMMA LastPage ==
  ASSUME NetworkAssumption, NEW n \in Nat, NEW j \in Nat, j * Page <= n
  PROVE  /\ j * Page \in Nat /\ (j + 1) * Page = j * Page + Page
         /\ j + 1 < NrPages(n) <=> (j + 1) * Page <= n
<1>1. Page \in Nat /\ Page > 0 BY DEF NetworkAssumption
<1>2. j * Page \in Nat /\ (j + 1) * Page = j * Page + Page BY <1>1
<1> DEFINE q == n \div Page
           r == n % Page
<1>3. q \in Nat /\ r \in Nat /\ r < Page /\ n = q * Page + r BY <1>1
<1>4. NrPages(n) = q + 1 BY DEF NrPages
<1> HIDE DEF q, r
<1>5. ASSUME j + 1 <= q PROVE (j + 1) * Page <= n
  BY <1>1, <1>3, <1>5
<1>6. ASSUME (j + 1) * Page <= n, j + 1 > q PROVE FALSE
  <2>1. j + 1 >= q + 1 BY <1>3, <1>6
  <2>2. (j + 1) * Page >= (q + 1) * Page BY <1>1, <1>3, <2>1
  <2>3. (q + 1) * Page = q * Page + Page BY <1>1, <1>3
  <2>4. QED BY <1>1, <1>3, <1>6, <2>2, <2>3
<1>7. QED BY <1>2, <1>3, <1>4, <1>5, <1>6

\* A length is a multiple of the page exactly if whole pages fill it up.
LEMMA MultipleFacts ==
  ASSUME NetworkAssumption, NEW n \in Nat, NEW j \in Nat, j * Page <= n
  PROVE  /\ n = j * Page => n % Page = 0
         /\ n - j * Page < Page => n % Page = n - j * Page
<1>1. Page \in Nat /\ Page > 0 /\ j * Page \in Nat BY DEF NetworkAssumption
<1> DEFINE q == n \div Page
           r == n % Page
           d == n - j * Page
<1>2. q \in Nat /\ r \in Nat /\ r < Page /\ n = q * Page + r BY <1>1
<1>3. d \in Nat /\ n = j * Page + d BY <1>1
<1> HIDE DEF q, r, d
<1>4. ASSUME d < Page PROVE r = d
  <2>1. CASE q = j BY <1>1, <1>2, <1>3, <2>1
  <2>2. CASE q < j
    <3>1. (q + 1) * Page <= j * Page BY <1>1, <1>2, <2>2
    <3>2. (q + 1) * Page = q * Page + Page BY <1>1, <1>2
    <3>3. QED BY <1>1, <1>2, <1>3, <3>1, <3>2
  <2>3. CASE q > j
    <3>1. (j + 1) * Page <= q * Page BY <1>1, <1>2, <2>3
    <3>2. (j + 1) * Page = j * Page + Page BY <1>1, <1>2
    <3>3. QED BY <1>1, <1>2, <1>3, <1>4, <3>1, <3>2
  <2>4. QED BY <1>2, <2>1, <2>2, <2>3
<1>5. QED BY <1>1, <1>3, <1>4 DEF r, d

-----------------------------------------------------------------------------
(* Cells on the wire.                                                      *)

\* A piece of a stream: the cells behind the first base ones.
Piece(s, base, w) == \A k \in 1 .. Len(w) : w[k] = Cell(s, base + k)

\* Cells appended behind those of a stream, as the stream has them.
LEMMA CellsAppended ==
  ASSUME NEW s, NEW base \in Nat, NEW w \in Seq(Int), NEW c \in Seq(Int),
         Piece(s, base, w), Piece(s, base + Len(w), c)
  PROVE  /\ w \o c \in Seq(Int) /\ Len(w \o c) = Len(w) + Len(c)
         /\ Piece(s, base, w \o c)
<1>1. Len(w) \in Nat /\ Len(c) \in Nat BY LenProperties
<1>2. /\ w \o c \in Seq(Int) /\ Len(w \o c) = Len(w) + Len(c)
      /\ \A k \in 1 .. Len(w) + Len(c) :
           (w \o c)[k] = IF k <= Len(w) THEN w[k] ELSE c[k - Len(w)]
  BY ConcatProperties
<1>3. ASSUME NEW k \in 1 .. Len(w) + Len(c)
      PROVE  (w \o c)[k] = Cell(s, base + k)
  <2>1. CASE k <= Len(w)
    <3>1. k \in 1 .. Len(w) BY <1>1, <2>1
    <3>2. QED BY <1>2, <2>1, <3>1 DEF Piece
  <2>2. CASE k > Len(w)
    <3>1. k - Len(w) \in 1 .. Len(c) BY <1>1, <2>2
    <3>2. c[k - Len(w)] = Cell(s, base + Len(w) + (k - Len(w)))
      BY <3>1 DEF Piece
    <3>3. base + Len(w) + (k - Len(w)) = base + k BY <1>1
    <3>4. ~(k <= Len(w)) BY <1>1, <2>2
    <3>5. QED BY <1>2, <3>2, <3>3, <3>4
  <2>3. QED BY <1>1, <2>1, <2>2
<1>4. QED BY <1>2, <1>3 DEF Piece

\* The next cell of a stream appended.
LEMMA CellAppended ==
  ASSUME NEW s, NEW base \in Nat, NEW w \in Seq(Int), NEW e \in Int,
         Piece(s, base, w), e = Cell(s, base + Len(w) + 1)
  PROVE  /\ Append(w, e) \in Seq(Int) /\ Len(Append(w, e)) = Len(w) + 1
         /\ Piece(s, base, Append(w, e))
<1>1. Len(w) \in Nat BY LenProperties
<1>2. /\ Append(w, e) \in Seq(Int) /\ Len(Append(w, e)) = Len(w) + 1
      /\ \A k \in 1 .. Len(w) : Append(w, e)[k] = w[k]
      /\ Append(w, e)[Len(w) + 1] = e
  BY AppendProperties
<1>3. base + Len(w) + 1 = base + (Len(w) + 1) BY <1>1
<1>4. ASSUME NEW k \in 1 .. Len(w) + 1 PROVE Append(w, e)[k] = Cell(s, base + k)
  <2>1. CASE k = Len(w) + 1 BY <1>2, <1>3, <2>1
  <2>2. CASE k # Len(w) + 1
    <3>1. k \in 1 .. Len(w) BY <1>1, <2>2
    <3>2. QED BY <1>2, <3>1 DEF Piece
  <2>3. QED BY <2>1, <2>2
<1>5. QED BY <1>2, <1>4 DEF Piece

\* What is left of a sequence whose first r elements are taken.
LEMMA RestOf ==
  ASSUME NEW w \in Seq(Int), NEW r \in 0 .. Len(w)
  PROVE  /\ SubSeq(w, r + 1, Len(w)) \in Seq(Int)
         /\ Len(SubSeq(w, r + 1, Len(w))) = Len(w) - r
         /\ \A k \in 1 .. Len(w) - r : SubSeq(w, r + 1, Len(w))[k] = w[r + k]
<1> DEFINE m == r + 1
           l == Len(w)
<1>1. l \in Nat BY LenProperties
<1>2. m \in Int /\ l \in Int /\ \A k \in m .. l : w[k] \in Int
  BY <1>1, ElementOfSeq
<1>3. /\ SubSeq(w, m, l) \in Seq(Int)
      /\ Len(SubSeq(w, m, l)) = IF m <= l THEN l - m + 1 ELSE 0
      /\ \A k \in 1 .. l - m + 1 : SubSeq(w, m, l)[k] = w[m + k - 1]
  <2> HIDE DEF m, l
  <2>1. QED BY <1>2, SubSeqProperties
<1>4. Len(SubSeq(w, m, l)) = l - r BY <1>1, <1>3
<1>5. l - m + 1 = l - r /\ \A k \in 1 .. l - r : m + k - 1 = r + k BY <1>1
<1>6. QED BY <1>3, <1>4, <1>5

\* The first r elements of a sequence.
LEMMA StartOf ==
  ASSUME NEW w \in Seq(Int), NEW r \in 1 .. Len(w)
  PROVE  /\ SubSeq(w, 1, r) \in Seq(Int) /\ Len(SubSeq(w, 1, r)) = r
         /\ \A k \in 1 .. r : SubSeq(w, 1, r)[k] = w[k]
<1>1. Len(w) \in Nat BY LenProperties
<1>2. \A k \in 1 .. r : w[k] \in Int BY <1>1, ElementOfSeq
<1>3. /\ SubSeq(w, 1, r) \in Seq(Int)
      /\ Len(SubSeq(w, 1, r)) = IF 1 <= r THEN r - 1 + 1 ELSE 0
      /\ \A k \in 1 .. r - 1 + 1 : SubSeq(w, 1, r)[k] = w[1 + k - 1]
  BY <1>1, <1>2, SubSeqProperties
<1>4. QED BY <1>1, <1>3

-----------------------------------------------------------------------------
(* The steps of a sender.                                                  *)

\* Nothing of sender t has changed.
Untouched(t) ==
  /\ spc'[t] = spc[t] /\ res'[t] = res[t] /\ length'[t] = length[t]
  /\ i'[t] = i[t] /\ sent'[t] = sent[t] /\ sizeToSend'[t] = sizeToSend[t]
  /\ writing'[t] = writing[t] /\ wire'[t] = wire[t]

\* What holds of a sender's side stays while its locals, its connection and
\* the receiver's place in it do.
LEMMA UntouchedKeeps ==
  ASSUME NEW t \in Sender, SideInv(t), Untouched(t), total' = total,
         Reading(t)' <=> Reading(t), Taken(t)' = Taken(t), Listening' => Listening
  PROVE  SideInv(t)'
<1>1. SenderInv(t)' BY DEF SideInv, SenderInv, Untouched
<1>2. Put(t)' = Put(t) BY DEF Put, Written, Untouched
<1>3. WireInv(t)' BY <1>2 DEF SideInv, WireInv, Untouched
<1>4. ClosedInv(t)' BY DEF SideInv, ClosedInv, Written, Untouched
<1>5. ResultInv(t)' BY DEF SideInv, ResultInv, PageMultiple, Untouched
<1>6. QED BY <1>1, <1>3, <1>4, <1>5 DEF SideInv

\* A step of sender s on an open connection, or of one that has none, is to be
\* looked at on its own side only.
LEMMA SenderStep ==
  ASSUME NetInv, NEW s \in Sender, \A t \in Sender \ {s} : Untouched(t),
         UNCHANGED <<total, backlog, recvVars>>,
         TypeOK', SideInv(s)', spc'[s] # "connect"
  PROVE  NetInv'
<1>1. \A t \in Sender :
        /\ Reading(t)' <=> Reading(t)
        /\ Taken(t)' = Taken(t)
  BY DEF Reading, Taken, recvVars
<1>2. Listening' <=> Listening BY DEF Listening, recvVars
<1>3. \A t \in Sender : SideInv(t)'
  BY <1>1, <1>2, UntouchedKeeps DEF NetInv
<1>4. QueueInv'
  <2>1. \A t \in Sender : spc[t] # "connect" => spc'[t] # "connect"
    BY DEF Untouched
  <2>2. \A k \in 1 .. Len(backlog) : backlog[k] \in Sender
    BY ElementOfSeq DEF NetInv, TypeOK
  <2>3. conn \in Sender \cup {Nobody} BY DEF NetInv, TypeOK
  <2>4. QED BY <2>1, <2>2, <2>3 DEF NetInv, QueueInv, recvVars
<1>5. GotInv' /\ WholeOrNothing'
  BY DEF NetInv, GotInv, WholeOrNothing, recvVars
<1>6. QED BY <1>3, <1>4, <1>5 DEF NetInv

\* Where a sender is in its message, from the invariant.
LEMMA SideFacts ==
  ASSUME NetInv, NEW s \in Sender
  PROVE  /\ SenderInv(s) /\ WireInv(s) /\ ClosedInv(s) /\ ResultInv(s)
         /\ total[s] \in Nat /\ length[s] \in Nat /\ i[s] \in Nat
         /\ sent[s] \in Nat /\ sizeToSend[s] \in Nat
         /\ wire[s] \in Seq(Int) /\ Len(wire[s]) \in Nat
         /\ got \in Seq(Nat) /\ Len(got) \in Nat /\ Taken(s) \in Nat
<1>1. SenderInv(s) /\ WireInv(s) /\ ClosedInv(s) /\ ResultInv(s)
  BY DEF NetInv, SideInv
<1>2. /\ total[s] \in Nat /\ length[s] \in Nat /\ i[s] \in Nat
      /\ sent[s] \in Nat /\ sizeToSend[s] \in Nat /\ wire[s] \in Seq(Int)
  BY NetworkAssumption DEF NetInv, TypeOK, NetworkAssumption
<1>3. got \in Seq(Nat)
  BY SeqMonotonic DEF NetInv, TypeOK
<1>4. Len(wire[s]) \in Nat /\ Len(got) \in Nat
  BY <1>2, <1>3, LenProperties
<1>5. Taken(s) \in Nat BY <1>4 DEF Taken
<1>6. QED BY <1>1, <1>2, <1>3, <1>4, <1>5

\* A call that returns without another write.
LEMMA ReturnStep ==
  ASSUME NetInv, NEW s \in Sender, spc[s] # "done",
         NEW r \in {"sent", "failed", "nosocket", "killed", "died"}, Return(s, r),
         UNCHANGED <<total, length, i, sent, sizeToSend, wire, backlog,
                     recvVars>>,
         ResultInv(s)'
  PROVE  NetInv'
<1>1. TypeOK BY DEF NetInv
<1>2. /\ \A t \in Sender \ {s} : Untouched(t)
      /\ spc'[s] = "done" /\ res'[s] = r /\ writing'[s] = FALSE
      /\ wire'[s] = wire[s]
  BY <1>1 DEF Return, Untouched, TypeOK
<1>3. TypeOK' BY <1>1 DEF TypeOK, Return, recvVars
<1>4. SenderInv(s)' BY <1>2 DEF SenderInv, Connected
<1>5. WireInv(s)'
  <2>1. Reading(s)' <=> Reading(s) BY DEF Reading, recvVars
  <2>2. Taken(s)' = Taken(s) BY DEF Taken, recvVars
  <2>3. QED BY <1>2, <2>1, <2>2, SideFacts DEF WireInv
<1>6. ClosedInv(s)' BY <1>2 DEF ClosedInv, Connected
<1>7. QED BY <1>2, <1>3, <1>4, <1>5, <1>6, SenderStep DEF SideInv

\* A sender that gets no socket, finds nobody listening, or ends, has no result
\* that counts.
LEMMA GivesUpKeeps ==
  ASSUME NetInv, NEW s \in Sender, NoSocket(s) \/ ConnectFails(s) \/ SenderDies(s)
  PROVE  NetInv'
<1>1. CASE ConnectFails(s)
  <2>1. ~Listening' BY <1>1 DEF ConnectFails, Listening, recvVars
  <2>2. ResultInv(s)' BY <2>1 DEF ResultInv
  <2>3. QED BY <1>1, <2>2, ReturnStep DEF ConnectFails
<1>2. CASE SenderDies(s)
  <2>1. res'[s] = "died" BY <1>2 DEF SenderDies, Return, NetInv, TypeOK
  <2>2. ResultInv(s)' BY <2>1 DEF ResultInv
  <2>3. QED BY <1>2, <2>2, ReturnStep DEF SenderDies
<1>3. CASE NoSocket(s)
  <2>1. res'[s] = "nosocket" BY <1>3 DEF NoSocket, Return, NetInv, TypeOK
  <2>2. ResultInv(s)' BY <2>1 DEF ResultInv
  <2>3. QED BY <1>3, <2>2, ReturnStep DEF NoSocket
<1>4. QED BY <1>1, <1>2, <1>3

\* The empty page, and SIGPIPE for the empty page, come behind whole pages.
LEMMA EmptyPageKeeps ==
  ASSUME NetInv, NEW s \in Sender, WriteNothing(s) \/ WriteBreaks(s)
  PROVE  NetInv'
<1>1. /\ SenderInv(s) /\ ClosedInv(s)
      /\ total[s] \in Nat /\ i[s] \in Nat /\ sent[s] \in Nat
      /\ length[s] \in Nat /\ sizeToSend[s] \in Nat
  BY SideFacts
<1>2. NetworkAssumption BY NetworkAssumption
<1>3. PageOf(length[s]) \in Nat /\ (PageOf(length[s]) = 0 => length[s] = 0)
      /\ PageOf(length[s]) <= length[s]
  BY <1>1, <1>2, PageOfFacts
<1>4. CASE WriteNothing(s)
  <2>1. spc[s] = "data" /\ sizeToSend[s] = 0 BY <1>4 DEF WriteNothing
  <2>2. length[s] = 0 BY <1>1, <1>3, <2>1 DEF SenderInv
  <2>3. total[s] = i[s] * Page /\ i[s] * Page <= total[s]
    <3>1. length[s] = total[s] - i[s] * Page /\ i[s] * Page <= total[s]
      BY <1>1, <2>1 DEF SenderInv
    <3>2. i[s] * Page \in Nat BY <1>1, <1>2, <3>1, LastPage
    <3>3. QED BY <1>1, <2>2, <3>1, <3>2
  <2>4. PageMultiple(s) BY <1>1, <1>2, <2>3, MultipleFacts DEF PageMultiple
  <2>5. res'[s] = "failed" /\ total' = total
    BY <1>4 DEF WriteNothing, Return, NetInv, TypeOK
  <2>6. ResultInv(s)' BY <2>4, <2>5 DEF ResultInv, PageMultiple
  <2>7. QED BY <1>4, <2>1, <2>6, ReturnStep DEF WriteNothing
<1>5. CASE WriteBreaks(s)
  <2>1. spc[s] \in Connected /\ ~Reading(s)
    BY <1>5 DEF WriteBreaks, Connected
  <2>2. ASSUME Listening PROVE PageMultiple(s)
    <3>1. spc[s] = "data" /\ i[s] * Page + sent[s] = total[s]
      BY <1>1, <2>1, <2>2 DEF ClosedInv, Written
    <3>2. /\ i[s] * Page <= total[s] /\ length[s] = total[s] - i[s] * Page
          /\ sent[s] + sizeToSend[s] = PageOf(length[s])
          /\ sent[s] > 0 => sizeToSend[s] > 0
      BY <1>1, <3>1 DEF SenderInv
    <3>3. i[s] * Page \in Nat BY <1>1, <1>2, <3>2, LastPage
    <3>4. sent[s] = 0 BY <1>1, <1>3, <3>1, <3>2, <3>3
    <3>5. total[s] = i[s] * Page BY <1>1, <3>1, <3>3, <3>4
    <3>6. QED BY <1>1, <1>2, <3>2, <3>5, MultipleFacts DEF PageMultiple
  <2>3. res'[s] = "killed" /\ total' = total /\ (Listening' <=> Listening)
    BY <1>5 DEF WriteBreaks, Return, NetInv, TypeOK, Listening, recvVars
  <2>4. ResultInv(s)' BY <2>2, <2>3 DEF ResultInv, PageMultiple
  <2>5. spc[s] # "done" BY <1>5 DEF WriteBreaks
  <2>6. QED BY <1>5, <2>4, <2>5, ReturnStep DEF WriteBreaks
<1>6. QED BY <1>4, <1>5

\* The words of the header are the first cells.
LEMMA WriteHeaderKeeps ==
  ASSUME NetInv, NEW s \in Sender, WriteType(s) \/ WriteKill(s) \/ WriteLength(s)
  PROVE  NetInv'
<1> DEFINE e == IF spc[s] = "length" THEN LengthWord
                ELSE IF s \in Kills THEN KillWord ELSE TypeWord
           k == IF spc[s] = "length" THEN 2 ELSE 1
           p == IF spc[s] = "length" THEN "data"
                ELSE IF s \in Kills THEN "done" ELSE "length"
           r == IF p = "done" THEN "sent" ELSE res[s]
           z == IF spc[s] = "length" THEN PageOf(total[s]) ELSE sizeToSend[s]
<1>1. TypeOK /\ NetworkAssumption BY NetworkAssumption DEF NetInv
<1>2. /\ spc[s] \in {"type", "length"} /\ Reading(s) /\ Free(s) > 0
      /\ wire' = [wire EXCEPT ![s] = Append(@, e)]
      /\ UNCHANGED <<total, length, i, sent, backlog, recvVars>>
  BY DEF WriteType, WriteKill, WriteLength
<1>3. /\ spc' = [spc EXCEPT ![s] = p] /\ res' = [res EXCEPT ![s] = r]
      /\ sizeToSend' = [sizeToSend EXCEPT ![s] = z]
      /\ writing' = [writing EXCEPT ![s] = p # "done"]
  <2>1. spc[s] \in Connected /\ writing[s] = TRUE
    <3>1. spc[s] \in Connected BY <1>2 DEF Connected
    <3>2. writing[s] \in BOOLEAN /\ (writing[s] <=> spc[s] \in Connected)
      BY <1>1, SideFacts DEF SenderInv, TypeOK
    <3>3. QED BY <3>1, <3>2
  <2>2. CASE WriteType(s)
    BY <1>1, <2>1, <2>2 DEF WriteType, TypeOK
  <2>3. CASE WriteKill(s)
    BY <1>1, <2>1, <2>3 DEF WriteKill, Return, TypeOK
  <2>4. CASE WriteLength(s)
    BY <1>1, <2>1, <2>4 DEF WriteLength, TypeOK
  <2>5. QED BY <2>2, <2>3, <2>4
<1>4. /\ SenderInv(s) /\ WireInv(s)
      /\ total[s] \in Nat /\ wire[s] \in Seq(Int) /\ Len(wire[s]) \in Nat
      /\ Taken(s) \in Nat
  BY SideFacts
<1>5. /\ PageOf(total[s]) \in Nat /\ PageOf(total[s]) <= total[s]
      /\ (PageOf(total[s]) = 0 => total[s] = 0)
  <2>1. total[s] \in Nat BY <1>4
  <2>2. QED BY ONLY NetworkAssumption, <2>1, PageOfFacts
<1>6. /\ Append(wire[s], e) \in Seq(Int)
      /\ Len(Append(wire[s], e)) = Len(wire[s]) + 1
      /\ \A j \in 1 .. Len(Append(wire[s], e)) :
           Append(wire[s], e)[j] = Cell(s, Taken(s) + j)
  <2>1. e \in Int BY DEF TypeWord, KillWord, LengthWord
  <2>2. Taken(s) + Len(wire[s]) + 1 = k
    BY <1>2, <1>4 DEF WireInv, Put
  <2>3. e = Cell(s, Taken(s) + Len(wire[s]) + 1) BY <1>2, <2>2 DEF Cell
  <2>4. \A j \in 1 .. Len(wire[s]) : wire[s][j] = Cell(s, Taken(s) + j)
    BY <1>2, <1>4 DEF WireInv
  <2> DEFINE w == wire[s]
             base == Taken(s)
  <2>5. /\ base \in Nat /\ w \in Seq(Int) /\ e = Cell(s, base + Len(w) + 1)
        /\ Piece(s, base, w)
    BY <1>4, <2>3, <2>4 DEF Piece
  <2> HIDE DEF e, k, p, r, z, w, base
  <2>6. /\ Append(w, e) \in Seq(Int) /\ Len(Append(w, e)) = Len(w) + 1
        /\ Piece(s, base, Append(w, e))
    BY ONLY <2>1, <2>5, CellAppended
  <2>7. QED BY <2>6 DEF w, base, Piece
<1> HIDE DEF e, k
<1>7. /\ \A t \in Sender \ {s} : Untouched(t)
      /\ spc'[s] = p /\ res'[s] = r /\ sizeToSend'[s] = z
      /\ writing'[s] = (p # "done") /\ wire'[s] = Append(wire[s], e)
  BY <1>1, <1>2, <1>3 DEF TypeOK, Untouched
<1>8. TypeOK'
  <2>1. Len(wire[s]) < Room /\ Room \in Nat
    BY <1>1, <1>2, <1>4 DEF Free, NetworkAssumption
  <2>2. wire' \in [Sender -> Seq(Int)]
    BY <1>1, <1>2, <1>6 DEF TypeOK
  <2>6. \A t \in Sender : Len(wire'[t]) <= Room
    <3>1. Len(wire'[s]) <= Room BY <1>4, <1>6, <1>7, <2>1
    <3>2. QED BY <1>1, <1>7, <3>1 DEF TypeOK, Untouched
  <2>3. z \in Nat BY <1>1, <1>5 DEF TypeOK
  <2>4. p \in {"connect", "type", "length", "data", "done"}
        /\ r \in {"none", "sent", "failed", "nosocket", "killed", "died"}
    BY <1>1 DEF TypeOK
  <2> HIDE DEF p, r, z
  <2>5. QED BY <1>1, <1>2, <1>3, <2>2, <2>3, <2>4, <2>6 DEF TypeOK, recvVars
<1>9. SenderInv(s)'
  <2>1. length[s] = total[s] /\ i[s] = 0 /\ sent[s] = 0 /\ res[s] = "none"
    BY <1>2, <1>4 DEF SenderInv
  <2>2. 0 * Page = 0 BY <1>1 DEF NetworkAssumption
  <2>3. /\ UNCHANGED <<total, length, i, sent>> /\ p # "connect"
        /\ p \in {"type", "length", "data", "done"}
        /\ p = "data" => z = PageOf(total[s])
    BY <1>2
  <2>4. r = "none" <=> p # "done" BY <2>1
  <2> HIDE DEF p, r, z
  <2>5. /\ length'[s] = total'[s] /\ i'[s] = 0 /\ sent'[s] = 0
        /\ total'[s] \in Nat /\ PageOf(length'[s])= PageOf(total[s])
    BY <1>4, <2>1, <2>3
  <2>6. spc'[s] = "data"
          => /\ i'[s] * Page <= total'[s]
             /\ length'[s] = total'[s] - i'[s] * Page
             /\ sent'[s] + sizeToSend'[s] = PageOf(length'[s])
             /\ sent'[s] > 0 => sizeToSend'[s] > 0
    BY <1>5, <1>7, <2>2, <2>3, <2>5
  <2>7. writing'[s] <=> spc'[s] \in Connected
    BY <1>7, <2>3 DEF Connected
  <2>8. (res'[s] = "none" <=> spc'[s] # "done") /\ spc'[s] # "connect"
    BY <1>7, <2>3, <2>4
  <2>9. QED BY <2>5, <2>6, <2>7, <2>8 DEF SenderInv, PageOf
<1>10. Reading(s)' /\ Taken(s)' = Taken(s) /\ (Listening' <=> Listening)
  BY <1>2 DEF Reading, Taken, Listening, recvVars
<1>11. WireInv(s)'
  <2>1. p # "done" => Put(s)' = Put(s) + 1
    BY <1>1, <1>2, <1>4, <1>7 DEF Put, Written, SenderInv, NetworkAssumption
  <2>2. Taken(s) + Len(wire[s]) = Put(s) BY <1>2, <1>4 DEF WireInv
  <2>3. Put(s) \in Nat BY <1>2 DEF Put
  <2>4. p # "done" => Taken(s) + Len(wire'[s]) = Put(s)'
    BY <1>4, <1>6, <1>7, <2>1, <2>2, <2>3
  <2> HIDE DEF p
  <2>5. QED BY <1>6, <1>7, <1>10, <2>4 DEF WireInv
<1>12. ClosedInv(s)' BY <1>10 DEF ClosedInv
<1>13. ResultInv(s)'
  <2>1. res[s] = "none" BY <1>2, <1>4 DEF SenderInv
  <2>2. CASE s \in Kills BY <2>2 DEF ResultInv
  <2>3. CASE s \notin Kills BY <1>7, <2>1, <2>3 DEF ResultInv
  <2>4. QED BY <2>2, <2>3
<1>14. spc'[s] # "connect" BY <1>7
<1>15. QED
  BY <1>2, <1>7, <1>8, <1>9, <1>11, <1>12, <1>13, <1>14, SenderStep DEF SideInv

\* A write of a part of a page puts the next bytes on the wire.
LEMMA BytesAppended ==
  ASSUME NetInv, NEW s \in Sender, NEW w \in 1 .. Page, WriteData(s, w)
  PROVE  /\ wire'[s] \in Seq(Int) /\ Len(wire'[s]) = Len(wire[s]) + w
         /\ Len(wire'[s]) <= Room
         /\ \A k \in 1 .. Len(wire'[s]) : wire'[s][k] = Cell(s, Taken(s) + k)
         /\ Taken(s) + Len(wire'[s]) = 2 + Written(s) + w
<1> DEFINE old == wire[s]
           new == PageBytes(s, w)
           base == Taken(s)
<1>1. /\ spc[s] = "data" /\ Reading(s) /\ w \in Nat /\ w > 0 /\ w <= Free(s)
      /\ wire'[s] = old \o new
  <2>1. wire \in [Sender -> Seq(Int)] /\ Page \in Nat
    BY NetworkAssumption DEF NetInv, TypeOK, NetworkAssumption
  <2>2. /\ spc[s] = "data" /\ Reading(s) /\ w <= Free(s)
        /\ wire' = [wire EXCEPT ![s] = @ \o new]
    BY DEF WriteData
  <2> HIDE DEF new
  <2>3. wire'[s] = old \o new BY <2>1, <2>2
  <2>4. QED BY <2>1, <2>2, <2>3
<1>2. /\ WireInv(s) /\ i[s] \in Nat /\ sent[s] \in Nat
      /\ old \in Seq(Int) /\ Len(old) \in Nat /\ base \in Nat
  BY SideFacts
<1>3. i[s] * Page \in Nat
  BY <1>2, NetworkAssumption DEF NetworkAssumption
<1>4. Written(s) \in Nat BY <1>2, <1>3 DEF Written
<1>5. /\ base + Len(old) = 2 + Written(s)
      /\ \A k \in 1 .. Len(old) : old[k] = Cell(s, base + k)
  BY <1>1, <1>2 DEF WireInv, Put
<1>6. /\ new \in Seq(Int) /\ Len(new) = w
      /\ \A k \in 1 .. w : new[k] = Written(s) + k
  <2>1. new = [b \in 1 .. w |-> sent[s] + i[s] * Page + b] BY DEF PageBytes
  <2>2. \A b \in 1 .. w : sent[s] + i[s] * Page + b \in Int
    BY <1>1, <1>2, <1>3
  <2>3. new \in [1 .. w -> Int] BY <2>1, <2>2
  <2>4. new \in Seq(Int) BY <1>1, <2>3, SeqDef
  <2>5. \A b \in 1 .. w : sent[s] + i[s] * Page + b = Written(s) + b
    BY <1>1, <1>2, <1>3 DEF Written
  <2>6. Len(new) = w BY <1>1, <2>3, <2>4, LenProperties
  <2> HIDE DEF new
  <2>7. QED BY <2>1, <2>4, <2>5, <2>6
<1>7. \A k \in 1 .. Len(new) : new[k] = Cell(s, base + Len(old) + k)
  <2>1. ASSUME NEW k \in 1 .. w PROVE Cell(s, 2 + Written(s) + k) = Written(s) + k
    BY <1>1, <1>4, <2>1 DEF Cell
  <2>2. QED BY <1>5, <1>6, <2>1
<1>8. Len(old) + w <= Room
  BY <1>1, <1>2, NetworkAssumption DEF Free, NetworkAssumption
<1> HIDE DEF old, new, base
<1>9. /\ old \o new \in Seq(Int) /\ Len(old \o new) = Len(old) + w
      /\ \A k \in 1 .. Len(old \o new) : (old \o new)[k] = Cell(s, base + k)
  <2>1. /\ base \in Nat /\ old \in Seq(Int) /\ new \in Seq(Int)
        /\ Piece(s, base, old) /\ Piece(s, base + Len(old), new)
    BY <1>2, <1>5, <1>6, <1>7 DEF Piece
  <2>2. /\ old \o new \in Seq(Int) /\ Len(old \o new) = Len(old) + Len(new)
        /\ Piece(s, base, old \o new)
    BY ONLY <2>1, CellsAppended
  <2>3. QED BY <1>6, <2>2 DEF Piece
<1>10. base + Len(old \o new) = 2 + Written(s) + w
  BY <1>1, <1>2, <1>4, <1>5, <1>9
<1>11. QED BY <1>1, <1>8, <1>9, <1>10 DEF old, base

\* One number of a sender is set.
LEMMA NumberSet ==
  ASSUME NEW f \in [Sender -> Nat], NEW s \in Sender, NEW n \in Nat
  PROVE  /\ [f EXCEPT ![s] = n] \in [Sender -> Nat]
         /\ [f EXCEPT ![s] = n][s] = n
         /\ \A t \in Sender \ {s} : [f EXCEPT ![s] = n][t] = f[t]
OBVIOUS

\* A sender's variables keep their types if those that change do.
LEMMA SenderTypes ==
  ASSUME TypeOK, UNCHANGED <<total, backlog, recvVars>>,
         spc' \in [Sender -> {"connect", "type", "length", "data", "done"}],
         res' \in [Sender -> {"none", "sent", "failed", "nosocket", "killed", "died"}],
         length' \in [Sender -> Nat], i' \in [Sender -> Nat],
         sent' \in [Sender -> Nat], sizeToSend' \in [Sender -> Nat],
         wire' \in [Sender -> Seq(Int)], \A t \in Sender : Len(wire'[t]) <= Room,
         writing' \in [Sender -> BOOLEAN]
  PROVE  TypeOK'
BY DEF TypeOK, recvVars

\* A write of data goes on in the page, or behind it with the next one, or
\* returns behind a last page that is not empty.
LEMMA WriteDataKeeps ==
  ASSUME NetInv, NEW s \in Sender, NEW w \in 1 .. Page, WriteData(s, w)
  PROVE  NetInv'
<1> DEFINE left == length[s] - (sent[s] + w)
<1>1. TypeOK /\ NetworkAssumption /\ Page \in Nat /\ Page > 0
  BY NetworkAssumption DEF NetInv, NetworkAssumption
<1>2. /\ spc[s] = "data" /\ Reading(s) /\ w \in Nat /\ w > 0
      /\ w <= sizeToSend[s]
      /\ UNCHANGED <<total, backlog, recvVars>>
      /\ wire' = [wire EXCEPT ![s] = @ \o PageBytes(s, w)]
  BY <1>1, SideFacts DEF WriteData
<1>3. /\ SenderInv(s) /\ ClosedInv(s)
      /\ total[s] \in Nat /\ length[s] \in Nat /\ i[s] \in Nat
      /\ sent[s] \in Nat /\ sizeToSend[s] \in Nat
  BY SideFacts
<1>4. /\ i[s] * Page <= total[s] /\ length[s] = total[s] - i[s] * Page
      /\ sent[s] + sizeToSend[s] = PageOf(length[s])
      /\ writing[s] /\ res[s] = "none"
  BY <1>2, <1>3 DEF SenderInv, Connected
<1>5. /\ i[s] * Page \in Nat /\ (i[s] + 1) * Page = i[s] * Page + Page
      /\ i[s] + 1 < NrPages(total[s]) <=> (i[s] + 1) * Page <= total[s]
  BY <1>1, <1>3, <1>4, LastPage
<1>6. /\ PageOf(length[s]) \in 0 .. length[s] /\ PageOf(length[s]) <= Page
      /\ length[s] >= Page => PageOf(length[s]) = Page
  BY <1>1, <1>3, PageOfFacts
<1>7. /\ wire'[s] \in Seq(Int) /\ Len(wire'[s]) <= Room
      /\ \A k \in 1 .. Len(wire'[s]) : wire'[s][k] = Cell(s, Taken(s) + k)
      /\ Taken(s) + Len(wire'[s]) = 2 + Written(s) + w
  BY BytesAppended
<1>8. Reading(s)' /\ Taken(s)' = Taken(s) /\ (Listening' <=> Listening)
  BY <1>2 DEF Reading, Taken, Listening, recvVars
<1>9. \A t \in Sender \ {s} : Untouched(t)
  <2>1. \A t \in Sender \ {s} : wire'[t] = wire[t] BY <1>1, <1>2 DEF TypeOK
  <2>2. CASE w # sizeToSend[s]
    <3>1. /\ sent' = [sent EXCEPT ![s] = @ + w]
          /\ sizeToSend' = [sizeToSend EXCEPT ![s] = @ - w]
          /\ UNCHANGED <<spc, res, length, i, writing>>
      BY <2>2 DEF WriteData
    <3>2. QED BY <1>1, <2>1, <3>1 DEF TypeOK, Untouched
  <2>3. CASE w = sizeToSend[s]
    <3>1. /\ length' = [length EXCEPT ![s] = left]
          /\ i' = [i EXCEPT ![s] = @ + 1]
          /\ sent' = [sent EXCEPT ![s] = 0]
          /\ sizeToSend' = [sizeToSend EXCEPT ![s] = PageOf(left)]
          /\ UNCHANGED <<spc, res, writing>> \/ Return(s, "sent")
      BY <2>3 DEF WriteData
    <3>2. \A t \in Sender \ {s} :
            spc'[t] = spc[t] /\ res'[t] = res[t] /\ writing'[t] = writing[t]
      BY <1>1, <3>1 DEF TypeOK, Return
    <3>3. PageOf(left) \in Nat /\ left \in Nat
      <4>1. left = length[s] - PageOf(length[s]) BY <1>3, <1>4, <1>6, <2>3
      <4>2. left \in Nat BY <1>3, <1>6, <4>1
      <4>3. QED BY <1>1, <4>2, PageOfFacts
    <3> HIDE DEF left
    <3>4. \A t \in Sender \ {s} :
            /\ length'[t] = length[t] /\ i'[t] = i[t] /\ sent'[t] = sent[t]
            /\ sizeToSend'[t] = sizeToSend[t]
      BY <1>1, <1>3, <3>1, <3>3, NumberSet DEF TypeOK
    <3>5. QED BY <2>1, <3>2, <3>4 DEF Untouched
  <2>4. QED BY <2>2, <2>3
<1>10. /\ wire' \in [Sender -> Seq(Int)]
       /\ \A t \in Sender : Len(wire'[t]) <= Room
  <2>1. wire' \in [Sender -> Seq(Int)] BY <1>1, <1>2, <1>7 DEF TypeOK
  <2>2. QED BY <1>1, <1>7, <1>9, <2>1 DEF TypeOK, Untouched
<1>11. ClosedInv(s)' BY <1>8 DEF ClosedInv
<1>12. CASE w # sizeToSend[s]
  <2>1. /\ sent' = [sent EXCEPT ![s] = @ + w]
        /\ sizeToSend' = [sizeToSend EXCEPT ![s] = @ - w]
        /\ UNCHANGED <<spc, res, length, i, writing>>
    BY <1>12 DEF WriteData
  <2>2. sent'[s] = sent[s] + w /\ sizeToSend'[s] = sizeToSend[s] - w
    BY <1>1, <2>1 DEF TypeOK
  <2>3. sizeToSend[s] - w \in Nat /\ sizeToSend[s] - w > 0
    BY <1>2, <1>3, <1>12
  <2>4. TypeOK'
    <3>1. sent' \in [Sender -> Nat]
      <4>1. sent[s] + w \in Nat BY <1>2, <1>3
      <4>2. QED BY <1>1, <2>1, <4>1, NumberSet DEF TypeOK
    <3>2. sizeToSend' \in [Sender -> Nat] BY <1>1, <2>1, <2>3 DEF TypeOK
    <3>3. QED
      BY <1>1, <1>2, <1>10, <2>1, <3>1, <3>2, SenderTypes DEF TypeOK
  <2>5. SenderInv(s)'
    <3>1. sent'[s] + sizeToSend'[s] = PageOf(length[s])
      BY <1>2, <1>3, <1>4, <2>2
    <3>2. QED
      BY <1>2, <1>3, <1>4, <2>1, <2>2, <2>3, <3>1
         DEF SenderInv, Connected, PageOf
  <2>6. WireInv(s)'
    <3>1. Written(s)' = Written(s) + w
      BY <1>2, <1>3, <1>5, <2>1, <2>2 DEF Written
    <3>2. Put(s)' = 2 + Written(s) + w
      BY <1>2, <1>3, <1>5, <2>1, <3>1 DEF Put, Written
    <3>3. QED BY <1>7, <1>8, <3>2 DEF WireInv
  <2>7. ResultInv(s)' BY <1>4, <2>1 DEF ResultInv
  <2>8. QED
    BY <1>2, <1>9, <1>11, <2>1, <2>4, <2>5, <2>6, <2>7, SenderStep DEF SideInv
<1>13. CASE w = sizeToSend[s]
  <2>1. /\ length' = [length EXCEPT ![s] = left]
        /\ i' = [i EXCEPT ![s] = @ + 1]
        /\ sent' = [sent EXCEPT ![s] = 0]
        /\ sizeToSend' = [sizeToSend EXCEPT ![s] = PageOf(left)]
        /\ IF i[s] + 1 < NrPages(total[s])
           THEN UNCHANGED <<spc, res, writing>>
           ELSE Return(s, "sent")
    BY <1>13 DEF WriteData
  <2>2. sent[s] + w = PageOf(length[s]) /\ left = length[s] - PageOf(length[s])
    BY <1>3, <1>4, <1>6, <1>13
  <2>3. left \in Nat BY <1>3, <1>6, <2>2
  <2>4. PageOf(left) \in Nat BY <1>1, <2>3, PageOfFacts
  <2>5. /\ length'[s] = left /\ i'[s] = i[s] + 1 /\ sent'[s] = 0
        /\ sizeToSend'[s] = PageOf(left)
    BY <1>1, <2>1 DEF TypeOK
  <2> HIDE DEF left
  <2>9. /\ length' \in [Sender -> Nat] /\ i' \in [Sender -> Nat]
        /\ sent' \in [Sender -> Nat] /\ sizeToSend' \in [Sender -> Nat]
    <3>1. i[s] + 1 \in Nat BY <1>3
    <3>2. i' \in [Sender -> Nat] BY <1>1, <2>1, <3>1, NumberSet DEF TypeOK
    <3>3. length' \in [Sender -> Nat] /\ sent' \in [Sender -> Nat]
      BY <1>1, <2>1, <2>3, NumberSet DEF TypeOK
    <3>4. sizeToSend' \in [Sender -> Nat]
      BY <1>1, <2>1, <2>4, NumberSet DEF TypeOK
    <3>5. QED BY <3>2, <3>3, <3>4
  <2>6. CASE i[s] + 1 < NrPages(total[s])
    <3>1. UNCHANGED <<spc, res, writing>> BY <2>1, <2>6
    <3>2. /\ (i[s] + 1) * Page <= total[s] /\ length[s] >= Page
          /\ PageOf(length[s]) = Page /\ left = total[s] - (i[s] + 1) * Page
      BY <1>1, <1>3, <1>4, <1>5, <1>6, <2>2, <2>6
    <3>3. TypeOK' BY <1>1, <1>2, <1>10, <2>9, <3>1, SenderTypes DEF TypeOK
    <3>4. SenderInv(s)'
      <4>1. 0 + PageOf(left) = PageOf(left) BY <2>4
      <4>2. /\ spc'[s] = "data" /\ res'[s] = "none" /\ writing'[s] = TRUE
            /\ total'[s] = total[s]
        BY <1>1, <1>2, <1>4, <3>1 DEF TypeOK
      <4>3. /\ i'[s] * Page <= total'[s]
            /\ length'[s] = total'[s] - i'[s] * Page
            /\ sent'[s] + sizeToSend'[s] = PageOf(length'[s])
            /\ sent'[s] = 0
        BY <2>5, <3>2, <4>1, <4>2 DEF PageOf
      <4>4. QED BY <4>2, <4>3 DEF SenderInv, Connected, PageOf
    <3>5. WireInv(s)'
      <4>1. Written(s)' = Written(s) + w
        <5>1. Written(s)' = (i[s] + 1) * Page + 0 BY <1>1, <2>5 DEF Written
        <5>2. sent[s] + w = Page BY <1>1, <1>2, <1>3, <1>5, <2>2, <3>2
        <5>3. Written(s) = i[s] * Page + sent[s] BY DEF Written
        <5>4. QED BY <1>1, <1>2, <1>3, <1>5, <5>1, <5>2, <5>3
      <4>2. Put(s)' = 2 + Written(s) + w
        BY <1>2, <1>3, <1>5, <3>1, <4>1 DEF Put, Written
      <4>3. QED BY <1>7, <1>8, <4>2 DEF WireInv
    <3>6. ResultInv(s)' BY <1>4, <3>1 DEF ResultInv
    <3>7. QED
      BY <1>2, <1>9, <1>11, <3>1, <3>3, <3>4, <3>5, <3>6, SenderStep
         DEF SideInv
  <2>7. CASE ~(i[s] + 1 < NrPages(total[s]))
    <3>1. Return(s, "sent") BY <2>1, <2>7
    <3>2. spc'[s] = "done" /\ res'[s] = "sent" /\ writing'[s] = FALSE
      BY <1>1, <3>1 DEF Return, TypeOK
    <3>3. TypeOK'
      <4>1. /\ spc' \in [Sender -> {"connect", "type", "length", "data", "done"}]
            /\ res' \in [Sender -> {"none", "sent", "failed", "nosocket", "killed", "died"}]
            /\ writing' \in [Sender -> BOOLEAN]
        BY <1>1, <3>1 DEF Return, TypeOK
      <4>2. QED BY <1>1, <1>2, <1>10, <2>9, <4>1, SenderTypes
    <3>4. SenderInv(s)' BY <3>2 DEF SenderInv, Connected
    <3>5. WireInv(s)' BY <1>7, <1>8, <3>2 DEF WireInv
    <3>6. ~PageMultiple(s)
      <4>1. length[s] < Page /\ length[s] > 0
        <5>1. (i[s] + 1) * Page > total[s] BY <1>1, <1>3, <1>5, <2>7
        <5>2. length[s] < Page BY <1>1, <1>3, <1>4, <1>5, <5>1
        <5>3. PageOf(length[s]) > 0 BY <1>2, <1>3, <2>2
        <5>4. QED BY <1>3, <1>6, <5>2, <5>3
      <4>2. total[s] % Page = length[s]
        BY <1>1, <1>3, <1>4, <4>1, MultipleFacts
      <4>3. QED BY <1>3, <4>1, <4>2 DEF PageMultiple
    <3>7. ResultInv(s)' BY <1>2, <3>2, <3>6 DEF ResultInv, PageMultiple
    <3>8. QED
      BY <1>2, <1>9, <1>11, <3>2, <3>3, <3>4, <3>5, <3>7, SenderStep
         DEF SideInv
  <2>8. QED BY <2>6, <2>7
<1>14. QED BY <1>12, <1>13

\* A new connection waits at the end of the backlog; nothing is on its wire.
LEMMA ConnectKeeps ==
  ASSUME NetInv, NEW s \in Sender, Connect(s)
  PROVE  NetInv'
<1>1. /\ TypeOK /\ QueueInv /\ NetworkAssumption
      /\ SenderInv(s) /\ ResultInv(s)
  BY NetworkAssumption, SideFacts DEF NetInv
<1>2. /\ spc[s] = "connect" /\ Listening /\ Len(backlog) < Backlog
      /\ backlog' = Append(backlog, s)
      /\ spc'[s] = "type" /\ writing'[s] = TRUE /\ wire[s] = <<>>
      /\ UNCHANGED <<res, total, length, i, sent, sizeToSend, wire, recvVars>>
      /\ \A t \in Sender \ {s} : Untouched(t)
  BY <1>1 DEF Connect, TypeOK, SenderInv, Untouched
<1>3. /\ backlog \in Seq(Sender) /\ Len(backlog) \in Nat
      /\ \A k \in 1 .. Len(backlog) : backlog[k] \in Sender
  BY <1>1, LenProperties, ElementOfSeq DEF TypeOK
<1>4. /\ backlog' \in Seq(Sender) /\ Len(backlog') = Len(backlog) + 1
      /\ \A k \in 1 .. Len(backlog) : backlog'[k] = backlog[k]
      /\ backlog'[Len(backlog) + 1] = s
  BY <1>2, <1>3, AppendProperties
<1>5. conn # s /\ \A k \in 1 .. Len(backlog) : backlog[k] # s
  BY <1>1, <1>2 DEF QueueInv, NetworkAssumption
<1>6. TypeOK'
  <2>1. /\ spc' \in [Sender -> {"connect", "type", "length", "data", "done"}]
        /\ writing' \in [Sender -> BOOLEAN]
    BY <1>1 DEF Connect, TypeOK
  <2>2. Len(backlog') <= Backlog
    BY <1>1, <1>2, <1>3, <1>4 DEF NetworkAssumption
  <2>3. QED BY <1>1, <1>2, <1>4, <2>1, <2>2 DEF TypeOK, recvVars
<1>7. QueueInv'
  <2>1. \A t \in Sender : spc[t] # "connect" => spc'[t] # "connect"
    BY <1>2 DEF Untouched
  <2>2. \A k \in 1 .. Len(backlog') :
          k \in 1 .. Len(backlog) \/ (k = Len(backlog) + 1 /\ backlog'[k] = s)
    BY <1>3, <1>4
  <2>3. \A j, k \in 1 .. Len(backlog') : backlog'[j] = backlog'[k] => j = k
    BY <1>1, <1>4, <1>5, <2>2 DEF QueueInv
  <2>4. \A k \in 1 .. Len(backlog') :
          backlog'[k] # conn /\ spc'[backlog'[k]] # "connect"
    BY <1>1, <1>2, <1>3, <1>4, <1>5, <2>1, <2>2 DEF QueueInv
  <2>5. conn # Nobody => spc'[conn] # "connect"
    BY <1>1, <2>1 DEF QueueInv, TypeOK
  <2>6. QED BY <1>1, <1>2, <2>3, <2>4, <2>5 DEF QueueInv, recvVars
<1>8. GotInv' /\ WholeOrNothing'
  BY <1>2 DEF NetInv, GotInv, WholeOrNothing, recvVars
<1>9. Listening' <=> Listening BY <1>2 DEF Listening, recvVars
<1>10. \A t \in Sender \ {s} : SideInv(t)'
  <2>1. \A t \in Sender \ {s} : Reading(t)' <=> Reading(t)
    BY <1>2, <1>3, <1>4 DEF Reading, recvVars
  <2>2. \A t \in Sender : Taken(t)' = Taken(t) BY <1>2 DEF Taken, recvVars
  <2>3. QED BY <1>2, <1>9, <2>1, <2>2, UntouchedKeeps DEF NetInv
<1>11. SideInv(s)'
  <2>1. Reading(s)' BY <1>3, <1>4 DEF Reading
  <2>2. Taken(s)' = 0 /\ Put(s)' = 0
    BY <1>2, <1>5 DEF Taken, Put, recvVars
  <2>3. SenderInv(s)' BY <1>1, <1>2 DEF SenderInv, Connected
  <2>4. WireInv(s)'
    <3>1. wire'[s] = <<>> /\ Len(<<>>) = 0 BY <1>2
    <3>2. QED BY <2>2, <3>1 DEF WireInv
  <2>5. ClosedInv(s)' BY <2>1 DEF ClosedInv
  <2>6. ResultInv(s)' BY <1>1, <1>2, <1>9 DEF ResultInv, PageMultiple
  <2>7. QED BY <2>3, <2>4, <2>5, <2>6 DEF SideInv
<1>12. QED BY <1>6, <1>7, <1>8, <1>10, <1>11 DEF NetInv

\* Every step of a sender keeps the invariant.
LEMMA SendKeeps ==
  ASSUME NetInv, NEW s \in Sender, Send(s) \/ NoSocket(s) \/ SenderDies(s)
  PROVE  NetInv'
BY ConnectKeeps, GivesUpKeeps, WriteHeaderKeeps, WriteDataKeeps,
   EmptyPageKeeps DEF Send

-----------------------------------------------------------------------------
(* The steps of the receiver.                                              *)

\* Nobody has written more than the data.
LEMMA WrittenFacts ==
  ASSUME NetInv, NEW s \in Sender, spc[s] = "data"
  PROVE  Written(s) \in Nat /\ Written(s) <= total[s] /\ Put(s) = 2 + Written(s)
<1>1. /\ SenderInv(s) /\ total[s] \in Nat /\ length[s] \in Nat /\ i[s] \in Nat
      /\ sent[s] \in Nat /\ sizeToSend[s] \in Nat
  BY SideFacts
<1>2. /\ i[s] * Page <= total[s] /\ length[s] = total[s] - i[s] * Page
      /\ sent[s] + sizeToSend[s] = PageOf(length[s])
  BY <1>1 DEF SenderInv
<1>3. i[s] * Page \in Nat BY <1>1, <1>2, NetworkAssumption, LastPage
<1>4. PageOf(length[s]) <= length[s] /\ PageOf(length[s]) \in Nat
  BY <1>1, NetworkAssumption, PageOfFacts
<1>5. QED BY <1>1, <1>2, <1>3, <1>4 DEF Written, Put

\* What of its connection the receiver reads, the wire holds no more.
LEMMA TakeKeeps ==
  ASSUME NetInv, conn # Nobody, NEW r \in 0 .. Len(wire[conn]),
         wire' = [wire EXCEPT ![conn] = SubSeq(@, r + 1, Len(@))],
         conn' = conn, backlog' = backlog, UNCHANGED sendVars,
         Taken(conn)' = Taken(conn) + r, Listening, Listening'
  PROVE  /\ \A s \in Sender : SideInv(s)'
         /\ wire' \in [Sender -> Seq(Int)]
         /\ \A s \in Sender : Len(wire'[s]) <= Room
<1> DEFINE c == conn
           w == wire[c]
<1>1. TypeOK /\ QueueInv /\ c \in Sender /\ c = conn
  BY DEF NetInv, TypeOK
<1>2. w \in Seq(Int) /\ Len(w) \in Nat /\ Taken(c) \in Nat /\ WireInv(c)
  BY <1>1, SideFacts
<1>3. /\ wire'[c] \in Seq(Int) /\ Len(wire'[c]) = Len(w) - r
      /\ \A k \in 1 .. Len(w) - r : wire'[c][k] = w[r + k]
  <2>1. wire'[c] = SubSeq(w, r + 1, Len(w)) BY <1>1 DEF TypeOK
  <2> HIDE DEF c, w
  <2>2. r \in 0 .. Len(w) BY DEF c, w
  <2>3. QED BY <1>2, <2>1, <2>2, RestOf
<1>4. \A s \in Sender \ {c} : wire'[s] = wire[s] BY <1>1 DEF TypeOK
<1>5. \A s \in Sender : Reading(s)' <=> Reading(s) BY DEF Reading
<1>6. \A s \in Sender \ {c} : SideInv(s)'
  <2>1. \A s \in Sender \ {c} : Untouched(s) /\ Taken(s)' = Taken(s)
    BY <1>4 DEF Untouched, sendVars, Taken
  <2>2. total' = total BY DEF sendVars
  <2>3. QED BY <1>5, <2>1, <2>2, UntouchedKeeps DEF NetInv
<1>7. SideInv(c)'
  <2>1. Put(c)' = Put(c) BY DEF Put, Written, sendVars
  <2>2. Reading(c) BY DEF Reading
  <2>3. WireInv(c)'
    <3>1. \A k \in 1 .. Len(w) : w[k] = Cell(c, Taken(c) + k)
      BY <1>2, <2>2 DEF WireInv
    <3>2. spc[c] # "done" => Taken(c) + Len(w) = Put(c)
      BY <1>2, <2>2 DEF WireInv
    <3>3. Taken(c)' = Taken(c) + r OBVIOUS
    <3>4. r \in Nat /\ r <= Len(w) BY <1>2
    <3> DEFINE base == Taken(c)
    <3>5. base \in Nat BY <1>2
    <3>6. ASSUME NEW k \in 1 .. Len(w) - r
          PROVE  wire'[c][k] = Cell(c, base + r + k)
      <4>1. r + k \in 1 .. Len(w) /\ base + (r + k) = base + r + k
        BY <1>2, <3>4, <3>5
      <4>2. w[r + k] = Cell(c, base + (r + k)) BY <3>1, <4>1
      <4>3. QED BY <1>3, <4>1, <4>2
    <3>7. spc[c] # "done" => base + r + (Len(w) - r) = Put(c)
      BY <1>2, <3>2, <3>4, <3>5
    <3>8. spc' = spc BY DEF sendVars
    <3>9. QED BY <1>1, <1>3, <2>1, <3>3, <3>6, <3>7, <3>8 DEF WireInv
  <2>4. SenderInv(c)'
    <3>1. SenderInv(c) BY <1>1, SideFacts
    <3>2. wire[c] = <<>> => wire'[c] = <<>>
      BY <1>2, <1>3, EmptySeq, LenProperties
    <3>3. spc[c] # "connect" BY <1>1 DEF QueueInv
    <3>4. QED BY <3>1, <3>3 DEF SenderInv, sendVars
  <2>5. ClosedInv(c)' BY <1>1, <1>5, <2>2 DEF ClosedInv
  <2>6. ResultInv(c)'
    BY <1>1, SideFacts DEF ResultInv, PageMultiple, sendVars
  <2>7. QED BY <2>3, <2>4, <2>5, <2>6 DEF SideInv
<1>8. wire' \in [Sender -> Seq(Int)]
  <2>1. \A s \in Sender : wire'[s] \in Seq(Int) BY <1>1, <1>3, <1>4 DEF TypeOK
  <2>2. QED BY <1>1, <2>1 DEF TypeOK
<1>9. \A s \in Sender : Len(wire'[s]) <= Room
  <2>1. Len(w) <= Room /\ Room \in Nat
    BY <1>1, NetworkAssumption DEF TypeOK, NetworkAssumption
  <2>2. Len(wire'[c]) <= Room BY <1>2, <1>3, <2>1
  <2>3. QED BY <1>1, <1>4, <2>2 DEF TypeOK
<1>10. QED BY <1>6, <1>7, <1>8, <1>9

\* The first of the connections that wait is read next, from its first cell.
LEMMA AcceptKeeps == ASSUME NetInv, Accept PROVE NetInv'
<1>1. /\ TypeOK /\ QueueInv /\ GotInv /\ NetworkAssumption
  BY NetworkAssumption DEF NetInv
<1>2. /\ rpc = "accept" /\ rpc' = "type" /\ backlog # <<>>
      /\ conn' = Head(backlog) /\ backlog' = Tail(backlog)
      /\ UNCHANGED <<sendVars, wire, want, got, delivered>>
  BY DEF Accept
<1>3. conn = Nobody BY <1>1, <1>2 DEF QueueInv, Connected
<1>4. /\ backlog \in Seq(Sender) /\ Len(backlog) \in Nat /\ Len(backlog) > 0
      /\ \A k \in 1 .. Len(backlog) : backlog[k] \in Sender
  <2>1. backlog \in Seq(Sender) BY <1>1 DEF TypeOK
  <2>2. Len(backlog) \in Nat \ {0} BY <1>2, <2>1, EmptySeq
  <2>3. QED BY <2>1, <2>2, ElementOfSeq
<1>5. /\ conn' = backlog[1] /\ conn' \in Sender /\ conn' # Nobody
      /\ backlog' \in Seq(Sender) /\ Len(backlog') = Len(backlog) - 1
      /\ \A k \in 1 .. Len(backlog') : backlog'[k] = backlog[k + 1]
  BY <1>1, <1>2, <1>4, HeadTailProperties DEF NetworkAssumption
<1>6. TypeOK'
  <2>1. Len(backlog') <= Backlog
    BY <1>1, <1>4, <1>5 DEF TypeOK, NetworkAssumption
  <2>2. QED BY <1>1, <1>2, <1>5, <2>1 DEF TypeOK, sendVars
<1>7. QueueInv'
  <2>1. \A k \in 1 .. Len(backlog') :
          k + 1 \in 1 .. Len(backlog) /\ k + 1 # 1 /\ k \in Nat
    BY <1>4, <1>5
  <2>2. 1 \in 1 .. Len(backlog) BY <1>4
  <2>3. \A k \in 1 .. Len(backlog') : backlog'[k] # conn'
    BY <1>1, <1>5, <2>1, <2>2 DEF QueueInv
  <2>4. \A j, k \in 1 .. Len(backlog') : backlog'[j] = backlog'[k] => j = k
    BY <1>1, <1>5, <2>1 DEF QueueInv
  <2>5. /\ \A k \in 1 .. Len(backlog') : spc'[backlog'[k]] # "connect"
        /\ spc'[conn'] # "connect"
    BY <1>1, <1>2, <1>5, <2>1, <2>2 DEF QueueInv, sendVars
  <2>6. QED BY <1>2, <1>5, <2>3, <2>4, <2>5 DEF QueueInv, Connected
<1>8. GotInv' /\ WholeOrNothing'
  BY <1>1, <1>2 DEF NetInv, GotInv, WholeOrNothing, sendVars
<1>9. \A s \in Sender : SideInv(s)'
  <2>1. \A s \in Sender : Reading(s)' <=> Reading(s)
    <3>1. ASSUME NEW s \in Sender PROVE Reading(s)' <=> Reading(s)
      <4>1. Reading(s) <=> \E k \in 1 .. Len(backlog) : backlog[k] = s
        BY <1>1, <1>3 DEF Reading, NetworkAssumption
      <4>2. Reading(s)' <=> backlog[1] = s
                           \/ \E k \in 1 .. Len(backlog') : backlog[k + 1] = s
        BY <1>5 DEF Reading
      <4>3. \A k \in 1 .. Len(backlog) :
              k = 1 \/ (k - 1 \in 1 .. Len(backlog') /\ (k - 1) + 1 = k)
        BY <1>4, <1>5
      <4>4. 1 \in 1 .. Len(backlog)
            /\ \A k \in 1 .. Len(backlog') : k + 1 \in 1 .. Len(backlog)
        BY <1>4, <1>5
      <4>5. QED BY <4>1, <4>2, <4>3, <4>4
    <3>2. QED BY <3>1
  <2>2. \A s \in Sender : Taken(s)' = Taken(s)
    BY <1>1, <1>2, <1>3 DEF Taken, NetworkAssumption
  <2>3. \A s \in Sender : Untouched(s) BY <1>2 DEF Untouched, sendVars
  <2>4. Listening' => Listening BY <1>2 DEF Listening
  <2>5. total' = total BY <1>2 DEF sendVars
  <2>6. QED BY <2>1, <2>2, <2>3, <2>4, <2>5, UntouchedKeeps DEF NetInv
<1>10. QED BY <1>6, <1>7, <1>8, <1>9 DEF NetInv

\* What is known of the connection that is read.
LEMMA ConnFacts ==
  ASSUME NetInv, rpc \in Connected
  PROVE  /\ conn \in Sender /\ conn # Nobody /\ Reading(conn)
         /\ wire[conn] \in Seq(Int) /\ Len(wire[conn]) \in Nat
         /\ spc[conn] # "connect" /\ Listening
         /\ got \in Seq(Nat \ {0}) /\ Len(got) \in Nat
         /\ total[conn] \in Nat /\ want \in Nat
<1>1. conn # Nobody /\ conn \in Sender /\ spc[conn] # "connect"
  BY DEF NetInv, QueueInv, TypeOK
<1>2. Reading(conn) /\ Listening BY DEF Reading, Listening, Connected
<1>3. got \in Seq(Nat \ {0}) /\ want \in Nat BY DEF NetInv, TypeOK
<1>4. QED BY <1>1, <1>2, <1>3, SideFacts

\* The header's words are read off the wire.
LEMMA ReadHeaderKeeps == ASSUME NetInv, ReadType \/ ReadLength PROVE NetInv'
<1> DEFINE c == conn
           w == wire[c]
<1>1. TypeOK /\ QueueInv /\ GotInv /\ NetworkAssumption
  BY NetworkAssumption DEF NetInv
<1>2. /\ rpc \in {"type", "length"}
      /\ rpc' = IF rpc = "type" THEN "length" ELSE "data"
      /\ want' = IF rpc = "type" THEN want ELSE total[c]
      /\ w # <<>> /\ wire' = [wire EXCEPT ![c] = Tail(@)]
      /\ UNCHANGED <<sendVars, backlog, conn, got, delivered>>
  BY DEF ReadType, ReadLength, ReadWord
<1>3. /\ c \in Sender /\ c # Nobody /\ w \in Seq(Int) /\ Len(w) \in Nat
      /\ Listening /\ Len(got) \in Nat /\ total[c] \in Nat /\ want \in Nat
  BY <1>2, ConnFacts DEF Connected
<1>4. Len(w) > 0 /\ Tail(w) = SubSeq(w, 2, Len(w))
  BY <1>2, <1>3, EmptySeq, TailIsSubSeq
<1>5. got = <<>> /\ Len(got) = 0 BY <1>1, <1>2 DEF GotInv
<1>6. 1 \in 0 .. Len(w) /\ 1 + 1 = 2 BY <1>3, <1>4
<1>7. wire' = [wire EXCEPT ![conn] = SubSeq(@, 1 + 1, Len(@))]
  BY <1>2, <1>4, <1>6
<1>8. Taken(conn)' = Taken(conn) + 1
  BY <1>2, <1>5 DEF Taken
<1>9. Listening' BY <1>2 DEF Listening
<1>10. /\ \A s \in Sender : SideInv(s)'
       /\ wire' \in [Sender -> Seq(Int)]
       /\ \A s \in Sender : Len(wire'[s]) <= Room
  BY <1>2, <1>3, <1>6, <1>7, <1>8, <1>9, TakeKeeps
<1>11. TypeOK' BY <1>1, <1>2, <1>3, <1>10 DEF TypeOK, sendVars
<1>12. QueueInv' BY <1>1, <1>2, <1>3 DEF QueueInv, Connected, sendVars
<1>13. GotInv'
  BY <1>1, <1>2, <1>3, <1>5 DEF GotInv, sendVars
<1>14. WholeOrNothing'
  BY <1>2 DEF NetInv, WholeOrNothing, sendVars
<1>15. QED BY <1>10, <1>11, <1>12, <1>13, <1>14 DEF NetInv

\* The receiver closes its connection: nothing more is written there, or the
\* receiver itself is through, or the sender has written its last byte.
LEMMA CloseKeeps ==
  ASSUME NetInv, conn' = Nobody, UNCHANGED <<sendVars>>,
         wire' \in [Sender -> Seq(Int)],
         \A s \in Sender : s # conn => wire'[s] = wire[s],
         Listening' =>
           /\ Listening /\ backlog' = backlog
           /\ conn # Nobody /\ spc[conn] \in Connected
                => spc[conn] = "data" /\ Written(conn) = total[conn],
         backlog' \in {backlog, <<>>}
  PROVE  \A s \in Sender : SideInv(s)'
<1>1. SUFFICES ASSUME NEW s \in Sender PROVE SideInv(s)'
  OBVIOUS
<1>2. /\ TypeOK /\ QueueInv /\ NetworkAssumption
      /\ SenderInv(s) /\ WireInv(s) /\ ClosedInv(s) /\ ResultInv(s)
  BY NetworkAssumption, SideFacts DEF NetInv
<1>3. s # Nobody BY <1>2 DEF NetworkAssumption
<1>4. Reading(s)' => Reading(s) /\ s # conn
  <2>1. Len(<<>>) = 0 OBVIOUS
  <2>2. Reading(s)' => backlog' = backlog
                       /\ \E k \in 1 .. Len(backlog) : backlog[k] = s
    BY <1>3, <2>1 DEF Reading
  <2>3. QED BY <1>2, <2>2 DEF Reading, QueueInv
<1>5. SenderInv(s)'
  <2>1. spc[s] = "connect" => s # conn
    BY <1>2, <1>3 DEF QueueInv
  <2>2. QED BY <1>2, <2>1 DEF SenderInv, sendVars
<1>6. WireInv(s)'
  <2>1. Reading(s)' => Taken(s) = 0 /\ Taken(s)' = 0
    BY <1>3, <1>4 DEF Taken
  <2>2. Put(s)' = Put(s) BY DEF Put, Written, sendVars
  <2>3. QED BY <1>2, <1>4, <2>1, <2>2 DEF WireInv, sendVars
<1>7. ClosedInv(s)'
  <2>1. SUFFICES ASSUME Listening', spc[s] \in Connected, ~Reading(s)'
                 PROVE  spc[s] = "data" /\ Written(s) = total[s]
    BY DEF ClosedInv, Written, sendVars
  <2>2. CASE s = conn BY <1>3, <2>1, <2>2
  <2>3. CASE s # conn
    <3>1. ~Reading(s) BY <2>1, <2>3 DEF Reading
    <3>2. QED BY <1>2, <2>1, <3>1 DEF ClosedInv
  <2>4. QED BY <2>2, <2>3
<1>8. ResultInv(s)' BY <1>2 DEF ResultInv, PageMultiple, sendVars
<1>9. QED BY <1>5, <1>6, <1>7, <1>8 DEF SideInv

\* The peer is gone, or has sent a message of no length.
LEMMA DropKeeps == ASSUME NetInv, ReadNoHeader \/ ReadNothing PROVE NetInv'
<1> DEFINE c == conn
<1>1. TypeOK /\ QueueInv /\ GotInv BY DEF NetInv
<1>2. /\ rpc \in Connected /\ (AtEnd \/ (rpc = "data" /\ want = 0))
      /\ NextClient
      /\ UNCHANGED <<sendVars, wire, backlog, delivered>>
  BY DEF ReadNoHeader, ReadNothing, Connected
<1>3. /\ c \in Sender /\ c # Nobody /\ Reading(c) /\ Listening
      /\ Len(wire[c]) \in Nat /\ Len(got) \in Nat /\ total[c] \in Nat
  BY <1>2, ConnFacts
<1>4. SenderInv(c) /\ WireInv(c) BY <1>3, SideFacts
<1>5. spc[c] \in Connected => spc[c] = "data" /\ Written(c) = total[c]
  <2>1. CASE AtEnd BY <1>4, <2>1 DEF AtEnd, SenderInv
  <2>2. CASE rpc = "data" /\ want = 0
    <3>1. SUFFICES ASSUME spc[c] \in Connected
                   PROVE  spc[c] = "data" /\ Written(c) = total[c]
      OBVIOUS
    <3>2. total[c] = 0 BY <1>1, <2>2 DEF GotInv
    <3>3. Taken(c) >= 2 BY <1>3, <2>2 DEF Taken
    <3>4. Put(c) >= 2 BY <1>3, <1>4, <3>1, <3>3, SideFacts DEF WireInv, Connected
    <3>5. spc[c] = "data" BY <3>4 DEF Put
    <3>6. QED BY <1>3, <3>2, <3>5, WrittenFacts
  <2>3. QED BY <1>2, <2>1, <2>2
<1>6. \A s \in Sender : SideInv(s)'
  BY <1>1, <1>2, <1>3, <1>5, CloseKeeps DEF NextClient, TypeOK
<1>7. <<>> \in Seq(Nat \ {0}) /\ Len(<<>>) = 0 OBVIOUS
<1>8. TypeOK' BY <1>1, <1>2, <1>7 DEF NextClient, TypeOK, sendVars
<1>9. QueueInv'
  <2>1. Nobody \notin Sender BY NetworkAssumption DEF NetworkAssumption
  <2>2. \A k \in 1 .. Len(backlog) : backlog[k] \in Sender
    BY <1>1, ElementOfSeq DEF TypeOK
  <2>3. QED BY <1>1, <1>2, <2>1, <2>2
            DEF NextClient, QueueInv, Connected, sendVars
<1>10. GotInv' BY <1>2, <1>7 DEF NextClient, GotInv
<1>11. WholeOrNothing' BY <1>2 DEF NetInv, WholeOrNothing, sendVars
<1>12. QED BY <1>6, <1>8, <1>9, <1>10, <1>11 DEF NetInv

\* The receiver ends, by a KILL or by itself.
LEMMA EndKeeps == ASSUME NetInv, ReadKill \/ ReceiverDies PROVE NetInv'
<1>1. TypeOK /\ QueueInv /\ NetworkAssumption
  BY NetworkAssumption DEF NetInv
<1>2. /\ conn' = Nobody /\ backlog' = <<>> /\ rpc' \in {"ended", "dead"}
      /\ UNCHANGED <<sendVars, want, got, delivered>>
  BY DEF ReadKill, ReceiverDies
<1>3. /\ wire' \in [Sender -> Seq(Int)]
      /\ \A s \in Sender : s # conn => wire'[s] = wire[s]
      /\ \A s \in Sender : Len(wire'[s]) <= Room
  <2>1. CASE ReceiverDies BY <1>1, <2>1 DEF ReceiverDies, TypeOK
  <2>2. CASE ReadKill
    <3>1. /\ rpc \in Connected /\ wire[conn] # <<>>
          /\ wire' = [wire EXCEPT ![conn] = Tail(@)]
      BY <2>2 DEF ReadKill, ReadWord, Connected
    <3>2. conn \in Sender /\ wire[conn] \in Seq(Int) /\ Len(wire[conn]) \in Nat
      BY <3>1, ConnFacts
    <3>3. /\ Tail(wire[conn]) \in Seq(Int)
          /\ Len(Tail(wire[conn])) = Len(wire[conn]) - 1
      BY <3>1, <3>2, HeadTailProperties
    <3>4. Len(Tail(wire[conn])) <= Room
      <4>1. Len(wire[conn]) <= Room /\ Room \in Nat
        BY <1>1, <3>2 DEF TypeOK, NetworkAssumption
      <4>2. QED BY <3>2, <3>3, <4>1
    <3>5. \A s \in Sender :
            wire'[s] = IF s = conn THEN Tail(wire[conn]) ELSE wire[s]
      BY <1>1, <3>1 DEF TypeOK
    <3>6. wire' \in [Sender -> Seq(Int)] BY <1>1, <3>1, <3>3 DEF TypeOK
    <3>7. \A s \in Sender : Len(wire'[s]) <= Room
      BY <1>1, <3>4, <3>5 DEF TypeOK
    <3>8. QED BY <3>5, <3>6, <3>7
  <2>3. QED BY <2>1, <2>2
<1>4. ~Listening' BY <1>2 DEF Listening
<1>5. \A s \in Sender : SideInv(s)' BY <1>2, <1>3, <1>4, CloseKeeps
<1>6. <<>> \in Seq(Sender) /\ Len(<<>>) = 0 OBVIOUS
<1>7. TypeOK'
  <2>1. 0 <= Backlog BY <1>1 DEF NetworkAssumption
  <2>2. QED BY <1>1, <1>2, <1>3, <1>6, <2>1 DEF TypeOK, sendVars
<1>8. QueueInv' BY <1>2, <1>6 DEF QueueInv, Connected
<1>9. GotInv' BY <1>2 DEF NetInv, GotInv
<1>10. WholeOrNothing' BY <1>2 DEF NetInv, WholeOrNothing, sendVars
<1>11. QED BY <1>5, <1>7, <1>8, <1>9, <1>10 DEF NetInv

\* What is read of the data are its next bytes.
LEMMA DataRead ==
  ASSUME NetInv, rpc = "data", NEW r \in 1 .. Len(wire[conn])
  PROVE  LET data == got \o SubSeq(wire[conn], 1, r)
         IN  /\ data \in Seq(Nat \ {0}) /\ Len(data) = Len(got) + r
             /\ \A k \in 1 .. Len(data) : data[k] = k
<1> DEFINE w == wire[conn]
           new == SubSeq(w, 1, r)
           data == got \o new
<1>1. /\ conn \in Sender /\ Reading(conn)
      /\ w \in Seq(Int) /\ Len(w) \in Nat
      /\ got \in Seq(Nat \ {0}) /\ Len(got) \in Nat
  BY ConnFacts DEF Connected
<1>2. /\ \A k \in 1 .. Len(w) : w[k] = Cell(conn, Taken(conn) + k)
      /\ Taken(conn) = 2 + Len(got)
  BY <1>1, SideFacts DEF WireInv, Taken
<1>3. \A k \in 1 .. Len(got) : got[k] = k BY DEF NetInv, GotInv
<1>4. got \in Seq(Int)
  <2>1. Nat \ {0} \subseteq Int OBVIOUS
  <2>2. QED BY <1>1, <2>1, SeqMonotonic
<1>5. /\ new \in Seq(Int) /\ Len(new) = r
      /\ \A k \in 1 .. r : new[k] = w[k]
  <2>1. r \in 1 .. Len(w) OBVIOUS
  <2> HIDE DEF w
  <2>2. QED BY <1>1, <2>1, StartOf
<1>6. \A k \in 1 .. r : new[k] = Len(got) + k
  <2>1. ASSUME NEW k \in 1 .. r PROVE new[k] = Len(got) + k
    <3>1. k \in 1 .. Len(w) BY <1>1
    <3>2. w[k] = Cell(conn, 2 + Len(got) + k) BY <1>2, <3>1
    <3>3. Cell(conn, 2 + Len(got) + k) = Len(got) + k BY <1>1, <3>1 DEF Cell
    <3>4. QED BY <1>5, <3>2, <3>3
  <2>2. QED BY <2>1
<1>7. r \in Nat BY <1>1
<1> HIDE DEF w, new
<1>8. /\ data \in Seq(Int) /\ Len(data) = Len(got) + r
      /\ \A k \in 1 .. Len(got) + r :
           data[k] = IF k <= Len(got) THEN got[k] ELSE new[k - Len(got)]
  BY <1>4, <1>5, ConcatProperties
<1> HIDE DEF data
<1>9. ASSUME NEW k \in 1 .. Len(data) PROVE data[k] = k
  <2>1. CASE k <= Len(got)
    <3>1. k \in 1 .. Len(got) BY <1>1, <1>7, <1>8, <2>1
    <3>2. QED BY <1>3, <1>8, <2>1, <3>1
  <2>2. CASE k > Len(got)
    <3>1. k - Len(got) \in 1 .. r BY <1>1, <1>7, <1>8, <2>2
    <3>2. data[k] = new[k - Len(got)] BY <1>1, <1>7, <1>8, <2>2
    <3>3. Len(got) + (k - Len(got)) = k BY <1>1, <1>7, <1>8
    <3>4. QED BY <1>6, <3>1, <3>2, <3>3
  <2>3. QED BY <1>1, <1>7, <1>8, <2>1, <2>2
<1>10. data \in Seq(Nat \ {0})
  <2> DEFINE n == Len(data)
  <2>1. n \in Nat /\ data \in [1 .. n -> Int] BY <1>8, LenProperties
  <2>2. \A k \in 1 .. n : data[k] \in Nat \ {0} BY <1>9, <2>1
  <2>3. data \in [1 .. n -> Nat \ {0}] BY <2>1, <2>2
  <2> HIDE DEF n
  <2>4. QED BY <2>1, <2>3, SeqDef
<1>11. QED BY <1>8, <1>9, <1>10 DEF data, new, w

\* A read of data goes on with the message, or calls back with all of it: its
\* sender has nothing left to write but an empty page.
LEMMA ReadDataKeeps ==
  ASSUME NetInv, NEW r \in 1 .. Room, ReadData(r) PROVE NetInv'
<1> DEFINE c == conn
           data == got \o SubSeq(wire[c], 1, r)
<1>1. TypeOK /\ QueueInv /\ GotInv /\ NetworkAssumption
  BY NetworkAssumption DEF NetInv
<1>2. /\ rpc = "data" /\ r \in 1 .. want /\ r <= Len(wire[c])
      /\ wire' = [wire EXCEPT ![c] = SubSeq(@, r + 1, Len(@))]
      /\ UNCHANGED <<sendVars, backlog>>
  BY DEF ReadData
<1>3. /\ c \in Sender /\ c # Nobody /\ Reading(c) /\ Listening
      /\ Len(wire[c]) \in Nat /\ Len(got) \in Nat /\ total[c] \in Nat
      /\ want \in Nat
  BY <1>2, ConnFacts DEF Connected
<1>4. r \in 1 .. Len(wire[c]) /\ r \in 0 .. Len(wire[c]) /\ r \in Nat /\ r > 0
  BY <1>2, <1>3
<1>5. /\ data \in Seq(Nat \ {0}) /\ Len(data) = Len(got) + r
      /\ \A k \in 1 .. Len(data) : data[k] = k
  BY <1>2, <1>4, DataRead
<1>6. want + Len(got) = total[c] BY <1>1, <1>2 DEF GotInv
<1>7. WireInv(c) /\ Taken(c) = 2 + Len(got)
  BY <1>2, <1>3, SideFacts DEF Taken
<1>8. CASE r < want
  <2>1. want' = want - r /\ got' = data /\ UNCHANGED <<rpc, conn, delivered>>
    BY <1>8 DEF ReadData
  <2>11. Len(got') = Len(got) + r BY <1>5, <2>1
  <2> HIDE DEF data
  <2>2. Taken(conn)' = Taken(conn) + r
    <3>1. Taken(conn)' = 2 + Len(got') BY <1>2, <2>1 DEF Taken
    <3>2. QED BY <1>3, <1>4, <1>7, <2>11, <3>1
  <2>3. Listening' BY <1>2, <2>1 DEF Listening
  <2>4. /\ \A s \in Sender : SideInv(s)'
        /\ wire' \in [Sender -> Seq(Int)]
        /\ \A s \in Sender : Len(wire'[s]) <= Room
    BY <1>2, <1>3, <1>4, <2>1, <2>2, <2>3, TakeKeeps
  <2>5. want - r \in Nat /\ want - r > 0 BY <1>3, <1>4, <1>8
  <2>6. TypeOK' BY <1>1, <1>2, <1>5, <2>1, <2>4, <2>5 DEF TypeOK, sendVars
  <2>7. QueueInv' BY <1>1, <1>2, <2>1 DEF QueueInv, sendVars
  <2>8. GotInv'
    <3>1. want' + Len(got') = total'[conn']
      <4>1. total' = total BY <1>2 DEF sendVars
      <4>2. (want - r) + (Len(got) + r) = total[c] BY <1>3, <1>4, <1>6
      <4>3. QED BY <2>1, <2>11, <4>1, <4>2
    <3>2. QED BY <1>2, <1>5, <2>1, <2>5, <3>1 DEF GotInv
  <2>9. WholeOrNothing' BY <1>2, <2>1 DEF NetInv, WholeOrNothing, sendVars
  <2>10. QED BY <2>4, <2>6, <2>7, <2>8, <2>9 DEF NetInv
<1>9. CASE r = want
  <2>1. delivered' = delivered \cup {<<c, data>>} /\ NextClient
    <3>1. ~(r < want) BY <1>3, <1>9
    <3>2. IF r < want THEN TRUE
          ELSE delivered' = delivered \cup {<<conn, data>>} /\ NextClient
      BY Zenon DEF ReadData
    <3> HIDE DEF data
    <3>3. QED BY <3>1, <3>2
  <2>2. spc[c] \in Connected => spc[c] = "data" /\ Written(c) = total[c]
    <3>1. SUFFICES ASSUME spc[c] \in Connected
                   PROVE  spc[c] = "data" /\ Written(c) = total[c]
      OBVIOUS
    <3> DEFINE g == Len(got)
               l == Len(wire[c])
    <3>2. 2 + g + l = Put(c)
      BY <1>3, <1>7, <3>1 DEF WireInv, Connected
    <3>3. g \in Nat /\ l \in Nat /\ want <= l BY <1>2, <1>3, <1>9
    <3>4. want > 0 /\ want + g = total[c] BY <1>4, <1>6, <1>9
    <3> HIDE DEF g, l, data
    <3>5. 2 + g + l > 2 BY <1>3, <3>3, <3>4
    <3>6. spc[c] = "data" BY <3>2, <3>5 DEF Put
    <3>7. Written(c) \in Nat /\ Written(c) <= total[c] /\ Put(c) = 2 + Written(c)
      BY <1>3, <3>6, WrittenFacts
    <3>8. 2 + g + l = 2 + Written(c) BY <3>2, <3>7
    <3> DEFINE u == Written(c)
               n == total[c]
    <3>9. /\ u \in Nat /\ n \in Nat /\ u <= n /\ 2 + g + l = 2 + u
          /\ want + g = n
      BY <1>3, <3>4, <3>7, <3>8
    <3> HIDE DEF u, n
    <3>10. u = n BY <1>3, <3>3, <3>9
    <3>11. QED BY <3>6, <3>10 DEF u, n
  <2>3. /\ wire' \in [Sender -> Seq(Int)]
        /\ \A s \in Sender : s # conn => wire'[s] = wire[s]
        /\ \A s \in Sender : Len(wire'[s]) <= Room
    <3> DEFINE w == wire[c]
               rest == SubSeq(w, r + 1, Len(w))
    <3>1. w \in Seq(Int) /\ r \in 0 .. Len(w) /\ Len(w) \in Nat
      BY <1>3, <1>4, SideFacts
    <3>2. Len(w) <= Room /\ Room \in Nat
      BY <1>1, <1>3 DEF TypeOK, NetworkAssumption
    <3> HIDE DEF w
    <3>3. rest \in Seq(Int) /\ Len(rest) = Len(w) - r BY <3>1, RestOf
    <3>4. Len(rest) <= Room BY <1>4, <3>1, <3>2, <3>3
    <3>5. wire' = [wire EXCEPT ![c] = rest] BY <1>2 DEF w
    <3> HIDE DEF rest
    <3>6. QED BY <1>1, <1>3, <3>3, <3>4, <3>5 DEF TypeOK
  <2>4. \A s \in Sender : SideInv(s)'
    BY <1>2, <1>3, <2>1, <2>2, <2>3, CloseKeeps DEF NextClient
  <2>5. <<>> \in Seq(Nat \ {0}) /\ Len(<<>>) = 0 OBVIOUS
  <2>6. TypeOK'
    BY <1>1, <1>2, <2>1, <2>3, <2>5 DEF NextClient, TypeOK, sendVars
  <2>7. QueueInv'
    <3>1. Nobody \notin Sender BY <1>1 DEF NetworkAssumption
    <3>2. \A k \in 1 .. Len(backlog) : backlog[k] \in Sender
      BY <1>1, ElementOfSeq DEF TypeOK
    <3>3. QED BY <1>1, <1>2, <2>1, <3>1, <3>2
              DEF NextClient, QueueInv, Connected, sendVars
  <2>8. GotInv' BY <2>1, <2>5 DEF NextClient, GotInv
  <2>9. WholeOrNothing'
    <3>1. Len(data) = total[c] BY <1>3, <1>5, <1>6, <1>9
    <3>2. DOMAIN data = 1 .. Len(data) /\ data \in [1 .. Len(data) -> Nat \ {0}]
      <4> HIDE DEF data
      <4>1. QED BY <1>5, LenProperties
    <3> HIDE DEF data
    <3>3. data = [b \in 1 .. total[c] |-> b] BY <1>5, <3>1, <3>2
    <3>4. total' = total BY <1>2 DEF sendVars
    <3>5. ASSUME NEW d \in delivered'
          PROVE  d[2] = [b \in 1 .. total[d[1]] |-> b]
      <4>1. CASE d \in delivered BY <4>1 DEF NetInv, WholeOrNothing
      <4>2. CASE d = <<c, data>> BY <3>3, <4>2
      <4>3. QED BY <2>1, <4>1, <4>2 DEF data
    <3>6. QED BY <3>4, <3>5 DEF WholeOrNothing
  <2>10. QED BY <2>4, <2>6, <2>7, <2>8, <2>9 DEF NetInv
<1>10. QED BY <1>2, <1>3, <1>4, <1>8, <1>9

-----------------------------------------------------------------------------
(* The theorems.                                                           *)

\* Nobody has connected yet.
LEMMA NetInvInit == Init => NetInv
<1>1. SUFFICES ASSUME Init PROVE NetInv
  OBVIOUS
<1>2. <<>> \in Seq(Int) /\ <<>> \in Seq(Sender) /\ <<>> \in Seq(Nat \ {0})
      /\ Len(<<>>) = 0
  OBVIOUS
<1>3. NetworkAssumption BY NetworkAssumption
<1>4. TypeOK
  <2>1. /\ spc \in [Sender -> {"connect", "type", "length", "data", "done"}]
        /\ res \in [Sender -> {"none", "sent", "failed", "nosocket", "killed", "died"}]
        /\ writing \in [Sender -> BOOLEAN] /\ total \in [Sender -> Lengths]
    BY <1>1 DEF Init
  <2>2. total \in [Sender -> Nat] BY <1>3, <2>1 DEF NetworkAssumption
  <2>3. /\ length \in [Sender -> Nat] /\ i \in [Sender -> Nat]
        /\ sent \in [Sender -> Nat] /\ sizeToSend \in [Sender -> Nat]
    BY <1>1, <2>2 DEF Init
  <2>4. 0 <= Room /\ 0 <= Backlog BY <1>3 DEF NetworkAssumption
  <2>5. /\ wire \in [Sender -> Seq(Int)]
        /\ \A s \in Sender : Len(wire[s]) <= Room
    BY <1>1, <1>2, <2>4 DEF Init
  <2>6. backlog \in Seq(Sender) /\ Len(backlog) <= Backlog
    BY <1>1, <1>2, <2>4 DEF Init
  <2>7. QED BY <1>1, <1>2, <2>1, <2>3, <2>5, <2>6 DEF Init, TypeOK
<1>5. QueueInv
  BY <1>1, <1>2 DEF Init, QueueInv, Connected
<1>6. GotInv /\ WholeOrNothing
  BY <1>1, <1>2 DEF Init, GotInv, WholeOrNothing
<1>7. ASSUME NEW s \in Sender PROVE SideInv(s)
  <2>1. spc[s] = "connect" /\ res[s] = "none" /\ writing[s] = FALSE
        /\ length[s] = total[s] /\ i[s] = 0 /\ sent[s] = 0 /\ wire[s] = <<>>
    BY <1>1 DEF Init
  <2>2. ~Reading(s)
    BY <1>1, <1>2, <1>3 DEF Init, Reading, NetworkAssumption
  <2>3. QED BY <2>1, <2>2
            DEF SideInv, SenderInv, WireInv, ClosedInv, ResultInv, Connected
<1>8. QED BY <1>4, <1>5, <1>6, <1>7 DEF NetInv

\* A step that changes nothing keeps the invariant.
LEMMA StutterKeeps == ASSUME NetInv, UNCHANGED vars PROVE NetInv'
<1>1. TypeOK' /\ QueueInv' /\ GotInv' /\ WholeOrNothing'
  BY DEF NetInv, TypeOK, QueueInv, GotInv, WholeOrNothing, vars, sendVars,
         recvVars
<1>2. \A s \in Sender : Untouched(s) BY DEF Untouched, vars, sendVars
<1>3. /\ \A s \in Sender : (Reading(s)' <=> Reading(s)) /\ Taken(s)' = Taken(s)
      /\ Listening' <=> Listening
      /\ total' = total
  BY DEF Reading, Taken, Listening, vars, sendVars, recvVars
<1>4. \A s \in Sender : SideInv(s)' BY <1>2, <1>3, UntouchedKeeps DEF NetInv
<1>5. QED BY <1>1, <1>4 DEF NetInv

\* Every step keeps the invariant.
LEMMA NetInvNext == NetInv /\ [Next]_vars => NetInv'
<1>1. SUFFICES ASSUME NetInv, [Next]_vars PROVE NetInv'
  OBVIOUS
<1>2. CASE \E s \in Sender : Send(s) \/ NoSocket(s) \/ SenderDies(s)
  BY <1>1, <1>2, SendKeeps
<1>3. CASE Receive
  BY <1>1, <1>3, AcceptKeeps, ReadHeaderKeeps, EndKeeps, DropKeeps,
     ReadDataKeeps DEF Receive
<1>4. CASE ReceiverDies BY <1>1, <1>4, EndKeeps
<1>5. CASE UNCHANGED vars BY <1>1, <1>5, StutterKeeps
<1>6. QED BY <1>1, <1>2, <1>3, <1>4, <1>5 DEF Next

\* The variables keep their types: in particular no connection holds more than
\* its room, and the backlog no more than its own.
THEOREM NetworkTypeCorrect == Spec => []TypeOK
<1>1. NetInv => TypeOK BY DEF NetInv
<1>2. QED BY <1>1, NetInvInit, NetInvNext, PTL DEF Spec

\* setupLocalNode calls the node back with the whole message of one sender, or
\* not at all, however the writes and reads are cut and whichever process ends
\* where.
THEOREM WholeOrNothingCorrect == Spec => []WholeOrNothing
<1>1. NetInv => WholeOrNothing BY DEF NetInv
<1>2. QED BY <1>1, NetInvInit, NetInvNext, PTL DEF Spec

\* While the receiver stays, sendNodeMessage reports success for the lengths
\* that do not fill their last page, and for those only.
THEOREM ResultTellsPageEndCorrect == Spec => []ResultTellsPageEnd
<1>1. NetInv => ResultTellsPageEnd
  BY DEF NetInv, SideInv, ResultInv, ResultTellsPageEnd
<1>2. QED BY <1>1, NetInvInit, NetInvNext, PTL DEF Spec

-----------------------------------------------------------------------------
(* The bridge.                                                             *)

\* Cells a sender means to write.
StreamLen(s) == IF s \in Kills THEN 1 ELSE 2 + total[s]

\* A sender's locals, as in SenderInv.
LocalsInv(s) ==
  /\ spc[s] \in {"connect", "type", "length"}
       => length[s] = total[s] /\ i[s] = 0 /\ sent[s] = 0
  /\ spc[s] = "data"
       => /\ i[s] * Page <= total[s] /\ length[s] = total[s] - i[s] * Page
          /\ sent[s] + sizeToSend[s] = PageOf(length[s])
  /\ s \in Kills => spc[s] \in {"connect", "type", "done"}

\* What is on the wire are the first cells of the stream: the connection is
\* closed with the first read.
BeginningInv(s) ==
  /\ Piece(s, 0, wire[s]) /\ Len(wire[s]) <= StreamLen(s)
  /\ spc[s] = "connect" => wire[s] = <<>>
  /\ Reading(s) /\ spc[s] \in Connected => Len(wire[s]) = Put(s)

\* The types the invariant needs.
BridgeTypes ==
  /\ spc \in [Sender -> {"connect", "type", "length", "data", "done"}]
  /\ total \in [Sender -> Lengths]
  /\ length \in [Sender -> Nat] /\ i \in [Sender -> Nat]
  /\ sent \in [Sender -> Nat] /\ sizeToSend \in [Sender -> Nat]
  /\ wire \in [Sender -> Seq(Int)]
  /\ backlog \in Seq(Sender) /\ conn \in Sender \cup {Nobody}

\* A sender connects once; a connection waits, or is read, or has been.
OnceInv ==
  /\ rpc = "recv" => conn \in Sender
  /\ \A j, k \in 1 .. Len(backlog) : backlog[j] = backlog[k] => j = k
  /\ \A k \in 1 .. Len(backlog) : backlog[k] # conn /\ spc[backlog[k]] # "connect"
  /\ conn # Nobody => spc[conn] # "connect"
  /\ \A d \in delivered :
       /\ d[1] \in Sender /\ ~Reading(d[1]) /\ spc[d[1]] # "connect"

BridgeInv ==
  /\ BridgeTypes /\ OnceInv /\ ActionGetsBeginning
  /\ \A s \in Sender : LocalsInv(s) /\ BeginningInv(s)

\* The cells of the stream.
LEMMA StreamCells ==
  ASSUME BridgeTypes, NetworkAssumption, NEW s \in Sender
  PROVE  /\ total[s] \in Nat /\ StreamLen(s) \in Nat
         /\ Stream(s) \in Seq(Int) /\ Len(Stream(s)) = StreamLen(s)
         /\ Piece(s, 0, Stream(s))
<1>1. total[s] \in Nat BY DEF BridgeTypes, NetworkAssumption
<1>2. StreamLen(s) \in Nat BY <1>1 DEF StreamLen
<1>3. CASE s \in Kills
  <2>1. Stream(s) = <<KillWord>> BY <1>3 DEF Stream, ExitText
  <2>2. KillWord \in Int /\ Cell(s, 1) = KillWord /\ StreamLen(s) = 1
    BY <1>3 DEF KillWord, Cell, StreamLen
  <2>3. <<KillWord>> \in Seq(Int) /\ Len(<<KillWord>>) = 1
        /\ <<KillWord>>[1] = KillWord
    BY <2>2
  <2>4. Piece(s, 0, <<KillWord>>) BY <2>2, <2>3 DEF Piece
  <2>5. QED BY <1>1, <1>2, <2>1, <2>2, <2>3, <2>4
<1>4. CASE s \notin Kills
  <2> DEFINE a == <<TypeWord, LengthWord>>
             d == [b \in 1 .. total[s] |-> b]
  <2>1. a \in Seq(Int) /\ Len(a) = 2 /\ a[1] = TypeWord /\ a[2] = LengthWord
    BY DEF TypeWord, LengthWord
  <2>2. d \in Seq(Int) /\ Len(d) = total[s] /\ \A k \in 1 .. total[s] : d[k] = k
    <3>1. d \in [1 .. total[s] -> Int] /\ \A k \in 1 .. total[s] : d[k] = k
      BY <1>1
    <3>2. d \in Seq(Int) BY <1>1, <3>1, SeqDef
    <3>3. QED BY <1>1, <3>1, <3>2, LenProperties
  <2>3. Stream(s) = a \o d BY <1>4 DEF Stream
  <2> HIDE DEF a, d
  <2>4. Piece(s, 0, a)
    <3>1. Cell(s, 0 + 1) = TypeWord /\ Cell(s, 0 + 2) = LengthWord
      BY <1>4 DEF Cell
    <3>2. \A k \in 1 .. 2 : k = 1 \/ k = 2 OBVIOUS
    <3>3. QED BY <2>1, <3>1, <3>2 DEF Piece
  <2>5. Piece(s, 0 + Len(a), d)
    <3>1. \A k \in 1 .. total[s] : Cell(s, 2 + k) = k BY <1>1 DEF Cell
    <3>2. QED BY <2>1, <2>2, <3>1 DEF Piece
  <2>6. /\ a \o d \in Seq(Int) /\ Len(a \o d) = 2 + total[s]
        /\ Piece(s, 0, a \o d)
    <3>1. 0 \in Nat OBVIOUS
    <3>2. /\ a \o d \in Seq(Int) /\ Len(a \o d) = Len(a) + Len(d)
          /\ Piece(s, 0, a \o d)
      BY ONLY <2>1, <2>2, <2>4, <2>5, <3>1, CellsAppended
    <3>3. QED BY <2>1, <2>2, <3>2
  <2>7. QED BY <1>1, <1>2, <1>4, <2>3, <2>6 DEF StreamLen
<1>5. QED BY <1>3, <1>4

\* The first cells of a wire that holds the beginning of the stream.
LEMMA BeginningOf ==
  ASSUME BridgeTypes, NetworkAssumption, NEW s \in Sender, BeginningInv(s),
         NEW n \in 1 .. Len(wire[s])
  PROVE  /\ Len(SubSeq(wire[s], 1, n)) = n
         /\ SubSeq(wire[s], 1, n) = SubSeq(Stream(s), 1, n)
<1> DEFINE w == wire[s]
           t == Stream(s)
<1>1. w \in Seq(Int) /\ Len(w) \in Nat BY LenProperties DEF BridgeTypes
<1>2. /\ t \in Seq(Int) /\ Len(t) \in Nat /\ Len(w) <= Len(t)
      /\ Piece(s, 0, t) /\ Piece(s, 0, w)
  BY StreamCells DEF BeginningInv
<1> HIDE DEF w, t
<1>3. n \in 1 .. Len(w) /\ n \in 1 .. Len(t) BY <1>1, <1>2 DEF w
<1>4. /\ SubSeq(w, 1, n) \in Seq(Int) /\ Len(SubSeq(w, 1, n)) = n
      /\ \A k \in 1 .. n : SubSeq(w, 1, n)[k] = w[k]
  BY <1>1, <1>3, StartOf
<1>5. /\ SubSeq(t, 1, n) \in Seq(Int) /\ Len(SubSeq(t, 1, n)) = n
      /\ \A k \in 1 .. n : SubSeq(t, 1, n)[k] = t[k]
  BY <1>2, <1>3, StartOf
<1>6. \A k \in 1 .. n : w[k] = t[k]
  <2>1. \A k \in 1 .. n : k \in 1 .. Len(w) /\ k \in 1 .. Len(t)
    BY <1>1, <1>2, <1>3
  <2>2. QED BY <1>2, <2>1 DEF Piece
<1>7. SubSeq(w, 1, n) = SubSeq(t, 1, n) BY <1>4, <1>5, <1>6, SeqEqual
<1>8. QED BY <1>4, <1>7 DEF w, t

\* Nothing the bridge's invariant says of sender t has changed.
Same(t) ==
  /\ spc'[t] = spc[t] /\ length'[t] = length[t] /\ i'[t] = i[t]
  /\ sent'[t] = sent[t] /\ sizeToSend'[t] = sizeToSend[t] /\ wire'[t] = wire[t]

\* What holds of a sender stays while its locals and its connection do.
LEMMA SameKeeps ==
  ASSUME NEW t \in Sender, LocalsInv(t), BeginningInv(t), Same(t),
         total' = total, Reading(t)' => Reading(t)
  PROVE  LocalsInv(t)' /\ BeginningInv(t)'
<1>1. LocalsInv(t)' BY DEF LocalsInv, Same
<1>2. Put(t)' = Put(t) BY DEF Put, Written, Same
<1>3. StreamLen(t)' = StreamLen(t) BY DEF StreamLen
<1>4. Piece(t, 0, wire[t])' <=> Piece(t, 0, wire[t]) BY DEF Piece, Cell, Same
<1>5. QED BY <1>1, <1>2, <1>3, <1>4 DEF BeginningInv, Same

\* A step of sender s, with its connection where it was.
LEMMA CrossStep ==
  ASSUME BridgeInv, NEW s \in Sender, \A t \in Sender \ {s} : Same(t),
         UNCHANGED <<total, backlog, recvVars>>,
         BridgeTypes', LocalsInv(s)', BeginningInv(s)', spc'[s] # "connect"
  PROVE  BridgeInv'
<1>1. \A t \in Sender : Reading(t)' <=> Reading(t) BY DEF Reading, recvVars
<1>2. \A t \in Sender : LocalsInv(t)' /\ BeginningInv(t)'
  BY <1>1, SameKeeps DEF BridgeInv
<1>3. OnceInv'
  <2>1. \A t \in Sender : spc[t] # "connect" => spc'[t] # "connect" BY DEF Same
  <2>2. \A k \in 1 .. Len(backlog) : backlog[k] \in Sender
    BY ElementOfSeq DEF BridgeInv, BridgeTypes
  <2>3. conn \in Sender \cup {Nobody} BY DEF BridgeInv, BridgeTypes
  <2>4. QED BY <1>1, <2>1, <2>2, <2>3 DEF BridgeInv, OnceInv, recvVars
<1>4. ActionGetsBeginning'
  <2>1. \A d \in delivered : Stream(d[1])' = Stream(d[1]) BY DEF Stream
  <2>2. QED BY <2>1 DEF BridgeInv, ActionGetsBeginning, recvVars
<1>5. QED BY <1>2, <1>3, <1>4 DEF BridgeInv

\* What the invariant says of one sender, with the types of what it speaks of.
LEMMA CrossFacts ==
  ASSUME BridgeInv, NEW s \in Sender
  PROVE  /\ BridgeTypes /\ NetworkAssumption /\ LocalsInv(s) /\ BeginningInv(s)
         /\ Page \in Nat /\ Page > 0
         /\ total[s] \in Nat /\ length[s] \in Nat /\ i[s] \in Nat
         /\ sent[s] \in Nat /\ sizeToSend[s] \in Nat
         /\ wire[s] \in Seq(Int) /\ Len(wire[s]) \in Nat
<1>1. NetworkAssumption BY NetworkAssumption
<1>2. Page \in Nat /\ Page > 0 BY <1>1 DEF NetworkAssumption
<1>3. /\ total[s] \in Nat /\ length[s] \in Nat /\ i[s] \in Nat
      /\ sent[s] \in Nat /\ sizeToSend[s] \in Nat /\ wire[s] \in Seq(Int)
  BY <1>1 DEF BridgeInv, BridgeTypes, NetworkAssumption
<1>4. QED BY <1>1, <1>2, <1>3, LenProperties DEF BridgeInv

\* A call that returns without another write.
LEMMA CrossEnds ==
  ASSUME BridgeInv, NEW s \in Sender,
         ConnectFails(s) \/ WriteNothing(s) \/ WriteBreaks(s) \/ SenderDies(s)
  PROVE  BridgeInv'
<1>1. /\ spc' = [spc EXCEPT ![s] = "done"]
      /\ UNCHANGED <<total, length, i, sent, sizeToSend, wire, backlog, recvVars>>
  BY DEF ConnectFails, WriteNothing, WriteBreaks, SenderDies, Return
<1>2. BridgeTypes BY CrossFacts
<1>3. spc'[s] = "done" /\ \A t \in Sender \ {s} : Same(t)
  BY <1>1, <1>2 DEF BridgeTypes, Same
<1>4. BridgeTypes' BY <1>1, <1>2 DEF BridgeTypes, recvVars
<1>5. LocalsInv(s)' BY <1>3 DEF LocalsInv
<1>6. BeginningInv(s)'
  BY <1>1, <1>3, CrossFacts DEF BeginningInv, Connected, Piece, Cell, StreamLen
<1>7. QED BY <1>1, <1>3, <1>4, <1>5, <1>6, CrossStep

\* The header is written word by word, or the text EXIT.
LEMMA CrossWordKeeps ==
  ASSUME BridgeInv, NEW s \in Sender,
         WriteType(s) \/ WriteKill(s) \/ WriteLength(s)
  PROVE  BridgeInv'
<1> DEFINE c == IF spc[s] = "length" THEN LengthWord
                ELSE IF s \in Kills THEN KillWord ELSE TypeWord
           p == IF spc[s] = "length" THEN "data"
                ELSE IF s \in Kills THEN "done" ELSE "length"
<1>1. /\ spc[s] \in {"type", "length"} /\ Reading(s)
      /\ spc[s] = "length" => s \notin Kills
      /\ wire' = [wire EXCEPT ![s] = Append(@, c)]
      /\ spc' = [spc EXCEPT ![s] = p]
      /\ UNCHANGED <<total, length, i, sent, backlog, recvVars>>
      /\ \/ sizeToSend' = sizeToSend
         \/ sizeToSend' = [sizeToSend EXCEPT ![s] = PageOf(total[s])]
      /\ spc[s] = "length"
           => sizeToSend' = [sizeToSend EXCEPT ![s] = PageOf(total[s])]
  BY CrossFacts DEF WriteType, WriteKill, WriteLength, Return, LocalsInv
<1>2. c \in Int /\ p \in {"length", "data", "done"}
  BY DEF TypeWord, KillWord, LengthWord
<1>3. /\ BridgeTypes /\ LocalsInv(s) /\ BeginningInv(s) /\ total[s] \in Nat
      /\ wire[s] \in Seq(Int) /\ PageOf(total[s]) \in Nat
  <2>1. /\ BridgeTypes /\ LocalsInv(s) /\ BeginningInv(s) /\ total[s] \in Nat
        /\ wire[s] \in Seq(Int) /\ NetworkAssumption
    BY CrossFacts
  <2>2. PageOf(total[s]) \in 0 .. total[s] BY <2>1, PageOfFacts
  <2>3. QED BY <2>1, <2>2
<1>4. /\ length[s] = total[s] /\ i[s] = 0 /\ sent[s] = 0
      /\ Len(wire[s]) = IF spc[s] = "length" THEN 1 ELSE 0
  BY <1>1, <1>3 DEF LocalsInv, BeginningInv, Connected, Put
<1>5. c = Cell(s, Len(wire[s]) + 1)
  BY <1>1, <1>4 DEF Cell
<1> HIDE DEF c, p
<1>6. /\ spc'[s] = p /\ wire'[s] = Append(wire[s], c)
      /\ \A t \in Sender \ {s} : Same(t)
  BY <1>1, <1>3 DEF BridgeTypes, Same
<1>7. /\ wire'[s] \in Seq(Int) /\ Len(wire'[s]) = Len(wire[s]) + 1
      /\ Piece(s, 0, wire'[s])
  <2>1. 0 \in Nat /\ c = Cell(s, 0 + Len(wire[s]) + 1) BY <1>3, <1>4, <1>5
  <2>2. Piece(s, 0, wire[s]) BY <1>3 DEF BeginningInv
  <2>3. QED BY <1>2, <1>3, <1>6, <2>1, <2>2, CellAppended
<1>8. BridgeTypes'
  <2>1. wire' \in [Sender -> Seq(Int)] BY <1>1, <1>3, <1>6, <1>7 DEF BridgeTypes
  <2>2. sizeToSend' \in [Sender -> Nat] BY <1>1, <1>3 DEF BridgeTypes
  <2>3. spc' \in [Sender -> {"connect", "type", "length", "data", "done"}]
    BY <1>1, <1>2, <1>3 DEF BridgeTypes
  <2>4. QED BY <1>1, <1>3, <2>1, <2>2, <2>3 DEF BridgeTypes, recvVars
<1>9. LocalsInv(s)'
  <2>1. /\ length'[s] = total[s] /\ i'[s] = 0 /\ sent'[s] = 0 /\ total' = total
        /\ s \in Kills => p = "done"
    BY <1>1, <1>4 DEF p
  <2>2. CASE p # "data" BY <1>2, <1>6, <2>1, <2>2 DEF LocalsInv
  <2>3. CASE p = "data"
    <3>1. sizeToSend'[s] = PageOf(total[s]) BY <1>1, <1>3, <2>3 DEF p, BridgeTypes
    <3>2. 0 * Page = 0 /\ total[s] - 0 = total[s]
          /\ 0 + PageOf(total[s]) = PageOf(total[s])
      BY <1>3, CrossFacts
    <3>3. QED BY <1>3, <1>6, <2>1, <2>3, <3>1, <3>2 DEF LocalsInv, PageOf
  <2>4. QED BY <2>2, <2>3
<1>10. BeginningInv(s)'
  <2>1. StreamLen(s)' = StreamLen(s) BY <1>1 DEF StreamLen
  <2>2. Len(wire'[s]) <= StreamLen(s) BY <1>1, <1>3, <1>4, <1>7 DEF StreamLen
  <2>3. p # "done" => Put(s)' = Len(wire[s]) + 1
    BY <1>1, <1>2, <1>4, <1>6, CrossFacts DEF Put, Written, p
  <2>4. QED BY <1>2, <1>6, <1>7, <2>1, <2>2, <2>3 DEF BeginningInv, Connected, Piece, Cell
<1>11. spc'[s] # "connect" BY <1>2, <1>6
<1>12. QED BY <1>1, <1>6, <1>8, <1>9, <1>10, <1>11, CrossStep

\* A write of data: where the locals are behind it, and that it stays inside
\* the message.
LEMMA PagesKept ==
  ASSUME BridgeInv, NEW s \in Sender, NEW w \in 1 .. Page, WriteData(s, w)
  PROVE  /\ Written(s) \in Nat /\ Written(s) + w <= total[s]
         /\ \/ spc' = [spc EXCEPT ![s] = "done"]
            \/ spc' = spc /\ LocalsInv(s)' /\ Written(s)' = Written(s) + w
         /\ length' \in [Sender -> Nat] /\ i' \in [Sender -> Nat]
         /\ sent' \in [Sender -> Nat] /\ sizeToSend' \in [Sender -> Nat]
         /\ \A t \in Sender \ {s} :
              /\ length'[t] = length[t] /\ i'[t] = i[t] /\ sent'[t] = sent[t]
              /\ sizeToSend'[t] = sizeToSend[t]
<1> DEFINE left == length[s] - (sent[s] + w)
<1>1. /\ BridgeTypes /\ NetworkAssumption /\ Page \in Nat /\ Page > 0
      /\ total[s] \in Nat /\ length[s] \in Nat /\ i[s] \in Nat
      /\ sent[s] \in Nat /\ sizeToSend[s] \in Nat
  BY CrossFacts
<1>2. /\ spc[s] = "data" /\ w \in Nat /\ w > 0 /\ w <= sizeToSend[s]
      /\ total' = total
  BY <1>1 DEF WriteData
<1>3. /\ i[s] * Page <= total[s] /\ length[s] = total[s] - i[s] * Page
      /\ sent[s] + sizeToSend[s] = PageOf(length[s]) /\ s \notin Kills
  BY <1>2, CrossFacts DEF LocalsInv
<1>4. /\ i[s] * Page \in Nat /\ (i[s] + 1) * Page = i[s] * Page + Page
      /\ i[s] + 1 < NrPages(total[s]) <=> (i[s] + 1) * Page <= total[s]
  BY <1>1, <1>3, LastPage
<1>5. /\ PageOf(length[s]) \in 0 .. length[s] /\ PageOf(length[s]) <= Page
      /\ length[s] >= Page => PageOf(length[s]) = Page
  BY <1>1, PageOfFacts
<1>6. Written(s) = i[s] * Page + sent[s] BY DEF Written
<1>7. Written(s) \in Nat /\ Written(s) + w <= total[s]
  BY <1>1, <1>2, <1>3, <1>4, <1>5, <1>6
<1>8. left \in Nat BY <1>1, <1>2, <1>3, <1>5
<1>9. CASE w # sizeToSend[s]
  <2>1. /\ sent' = [sent EXCEPT ![s] = @ + w]
        /\ sizeToSend' = [sizeToSend EXCEPT ![s] = @ - w]
        /\ UNCHANGED <<spc, length, i>>
    BY <1>9 DEF WriteData
  <2>2. sent[s] + w \in Nat /\ sizeToSend[s] - w \in Nat BY <1>1, <1>2
  <2>3. /\ sent' \in [Sender -> Nat] /\ sent'[s] = sent[s] + w
        /\ \A t \in Sender \ {s} : sent'[t] = sent[t]
    BY <1>1, <2>1, <2>2, NumberSet DEF BridgeTypes
  <2>4. /\ sizeToSend' \in [Sender -> Nat] /\ sizeToSend'[s] = sizeToSend[s] - w
        /\ \A t \in Sender \ {s} : sizeToSend'[t] = sizeToSend[t]
    BY <1>1, <2>1, <2>2, NumberSet DEF BridgeTypes
  <2>5. Written(s)' = i[s] * Page + (sent[s] + w) BY <2>1, <2>3 DEF Written
  <2>6. Written(s)' = Written(s) + w BY <1>1, <1>2, <1>4, <1>6, <2>5
  <2>7. sent'[s] + sizeToSend'[s] = PageOf(length[s])
    <3>1. sent'[s] + sizeToSend'[s] = (sent[s] + w) + (sizeToSend[s] - w)
      BY <2>3, <2>4
    <3>2. (sent[s] + w) + (sizeToSend[s] - w) = sent[s] + sizeToSend[s]
      BY <1>1, <1>2
    <3>3. QED BY <1>3, <3>1, <3>2
  <2>8. LocalsInv(s)' BY <1>2, <1>3, <2>1, <2>7 DEF LocalsInv, PageOf
  <2>9. QED BY <1>1, <1>7, <2>1, <2>3, <2>4, <2>6, <2>8 DEF BridgeTypes
<1>10. CASE w = sizeToSend[s]
  <2>1. /\ length' = [length EXCEPT ![s] = left]
        /\ i' = [i EXCEPT ![s] = @ + 1]
        /\ sent' = [sent EXCEPT ![s] = 0]
        /\ sizeToSend' = [sizeToSend EXCEPT ![s] = PageOf(left)]
        /\ IF i[s] + 1 < NrPages(total[s])
           THEN spc' = spc ELSE spc' = [spc EXCEPT ![s] = "done"]
    BY <1>10 DEF WriteData, Return
  <2>2. sent[s] + w = PageOf(length[s]) /\ left = length[s] - PageOf(length[s])
    BY <1>1, <1>3, <1>5, <1>10
  <2>3. PageOf(left) \in 0 .. left BY <1>1, <1>8, PageOfFacts
  <2> HIDE DEF left
  <2>4. PageOf(left) \in Nat /\ i[s] + 1 \in Nat /\ 0 \in Nat
    BY <1>1, <1>8, <2>3
  <2>5. /\ length' \in [Sender -> Nat] /\ length'[s] = left
        /\ \A t \in Sender \ {s} : length'[t] = length[t]
    BY <1>1, <1>8, <2>1, NumberSet DEF BridgeTypes
  <2>6. /\ i' \in [Sender -> Nat] /\ i'[s] = i[s] + 1
        /\ \A t \in Sender \ {s} : i'[t] = i[t]
    BY <1>1, <2>1, <2>4, NumberSet DEF BridgeTypes
  <2>7. /\ sent' \in [Sender -> Nat] /\ sent'[s] = 0
        /\ \A t \in Sender \ {s} : sent'[t] = sent[t]
    BY <1>1, <2>1, <2>4, NumberSet DEF BridgeTypes
  <2>8. /\ sizeToSend' \in [Sender -> Nat] /\ sizeToSend'[s] = PageOf(left)
        /\ \A t \in Sender \ {s} : sizeToSend'[t] = sizeToSend[t]
    BY <1>1, <2>1, <2>4, NumberSet DEF BridgeTypes
  <2>9. CASE ~(i[s] + 1 < NrPages(total[s]))
    BY <1>7, <2>1, <2>5, <2>6, <2>7, <2>8, <2>9
  <2>10. CASE i[s] + 1 < NrPages(total[s])
    <3>1. /\ (i[s] + 1) * Page <= total[s] /\ length[s] >= Page
          /\ PageOf(length[s]) = Page /\ left = total[s] - (i[s] + 1) * Page
      BY <1>1, <1>3, <1>4, <1>5, <2>2, <2>10
    <3>2. sent[s] + w = Page BY <2>2, <3>1
    <3>3. Written(s)' = (i[s] + 1) * Page + 0 BY <2>6, <2>7 DEF Written
    <3>4. Written(s)' = Written(s) + w
      BY <1>1, <1>2, <1>4, <1>6, <3>2, <3>3
    <3>5. 0 + PageOf(left) = PageOf(left) BY <2>4
    <3>6. LocalsInv(s)'
      BY <1>2, <1>3, <2>1, <2>5, <2>6, <2>7, <2>8, <2>10, <3>1, <3>5
         DEF LocalsInv, PageOf
    <3>7. QED BY <1>7, <2>1, <2>5, <2>6, <2>7, <2>8, <2>10, <3>4, <3>6
  <2>11. QED BY <2>9, <2>10
<1>11. QED BY <1>9, <1>10

\* The data goes on the wire behind what was written of it.
LEMMA CrossDataKeeps ==
  ASSUME BridgeInv, NEW s \in Sender, NEW w \in 1 .. Page, WriteData(s, w)
  PROVE  BridgeInv'
<1> DEFINE new == PageBytes(s, w)
<1>1. /\ BridgeTypes /\ LocalsInv(s) /\ BeginningInv(s)
      /\ total[s] \in Nat /\ i[s] \in Nat /\ sent[s] \in Nat
      /\ wire[s] \in Seq(Int) /\ Len(wire[s]) \in Nat
      /\ Page \in Nat /\ w \in Nat /\ w > 0
  BY CrossFacts
<1>2. /\ Written(s) \in Nat /\ Written(s) + w <= total[s]
      /\ \/ spc' = [spc EXCEPT ![s] = "done"]
         \/ spc' = spc /\ LocalsInv(s)' /\ Written(s)' = Written(s) + w
      /\ length' \in [Sender -> Nat] /\ i' \in [Sender -> Nat]
      /\ sent' \in [Sender -> Nat] /\ sizeToSend' \in [Sender -> Nat]
      /\ \A t \in Sender \ {s} :
           /\ length'[t] = length[t] /\ i'[t] = i[t] /\ sent'[t] = sent[t]
           /\ sizeToSend'[t] = sizeToSend[t]
  BY PagesKept
<1>3. /\ spc[s] = "data" /\ Reading(s)
      /\ wire' = [wire EXCEPT ![s] = @ \o new]
      /\ UNCHANGED <<total, backlog, recvVars>>
  BY DEF WriteData
<1>4. s \notin Kills /\ Len(wire[s]) = 2 + Written(s)
  BY <1>1, <1>3 DEF LocalsInv, BeginningInv, Connected, Put
<1>5. i[s] * Page \in Nat BY <1>1
<1>6. /\ new \in Seq(Int) /\ Len(new) = w
      /\ \A k \in 1 .. w : new[k] = Written(s) + k
  <2>1. new = [b \in 1 .. w |-> sent[s] + i[s] * Page + b] BY DEF PageBytes
  <2>2. \A b \in 1 .. w : sent[s] + i[s] * Page + b \in Int BY <1>1, <1>5
  <2>3. new \in [1 .. w -> Int] BY <2>1, <2>2
  <2>4. new \in Seq(Int) BY <1>1, <2>3, SeqDef
  <2>5. \A b \in 1 .. w : sent[s] + i[s] * Page + b = Written(s) + b
    BY <1>1, <1>5 DEF Written
  <2>6. Len(new) = w BY <1>1, <2>3, <2>4, LenProperties
  <2> HIDE DEF new
  <2>7. QED BY <2>1, <2>4, <2>5, <2>6
<1>7. Piece(s, 0 + Len(wire[s]), new)
  <2>1. ASSUME NEW k \in 1 .. w PROVE Cell(s, 2 + Written(s) + k) = Written(s) + k
    <3>1. Written(s) \in Nat /\ k \in Nat /\ k > 0 BY <1>1, <1>2
    <3>2. /\ 2 + Written(s) + k # 1 /\ 2 + Written(s) + k # 2
          /\ (2 + Written(s) + k) - 2 = Written(s) + k
      BY ONLY <3>1
    <3>3. QED BY <3>2 DEF Cell
  <2>2. 0 + Len(wire[s]) = 2 + Written(s) BY <1>2, <1>4
  <2>3. QED BY <1>6, <2>1, <2>2 DEF Piece
<1> HIDE DEF new
<1>8. /\ wire' \in [Sender -> Seq(Int)] /\ Len(wire'[s]) = 2 + Written(s) + w
      /\ Piece(s, 0, wire'[s])
      /\ \A t \in Sender \ {s} : wire'[t] = wire[t]
  <2>1. /\ 0 \in Nat /\ Piece(s, 0, wire[s])
        /\ wire[s] \in Seq(Int) /\ new \in Seq(Int)
    BY <1>1, <1>6 DEF BeginningInv
  <2>2. /\ wire[s] \o new \in Seq(Int)
        /\ Len(wire[s] \o new) = Len(wire[s]) + Len(new)
        /\ Piece(s, 0, wire[s] \o new)
    BY ONLY <1>7, <2>1, CellsAppended
  <2>3. wire'[s] = wire[s] \o new /\ \A t \in Sender \ {s} : wire'[t] = wire[t]
    BY <1>1, <1>3 DEF BridgeTypes
  <2>4. wire' \in [Sender -> Seq(Int)] BY <1>1, <1>3, <2>2 DEF BridgeTypes
  <2>5. Len(wire'[s]) = 2 + Written(s) + w BY <1>4, <1>6, <2>2, <2>3
  <2>6. QED BY <2>2, <2>3, <2>4, <2>5
<1>9. /\ spc' \in [Sender -> {"connect", "type", "length", "data", "done"}]
      /\ spc'[s] \in {"data", "done"}
      /\ \A t \in Sender \ {s} : spc'[t] = spc[t]
  BY <1>1, <1>2, <1>3 DEF BridgeTypes
<1>10. BridgeTypes' BY <1>1, <1>2, <1>3, <1>8, <1>9 DEF BridgeTypes, recvVars
<1>11. \A t \in Sender \ {s} : Same(t) BY <1>2, <1>8, <1>9 DEF Same
<1>12. LocalsInv(s)'
  <2>1. CASE spc'[s] = "done" BY <2>1 DEF LocalsInv
  <2>2. CASE spc'[s] = "data" BY <1>1, <1>2, <2>2 DEF BridgeTypes
  <2>3. QED BY <1>9, <2>1, <2>2
<1>13. BeginningInv(s)'
  <2>1. Len(wire'[s]) <= StreamLen(s)' /\ Piece(s, 0, wire[s])'
    <3>1. StreamLen(s)' = 2 + total[s] BY <1>3, <1>4 DEF StreamLen
    <3>2. Piece(s, 0, wire[s])' BY <1>8 DEF Piece, Cell
    <3>3. 2 + Written(s) + w <= 2 + total[s] BY <1>1, <1>2
    <3>4. Len(wire'[s]) <= StreamLen(s)' BY <1>8, <3>1, <3>3
    <3>5. QED BY <3>2, <3>4
  <2>2. spc'[s] = "data" => Put(s)' = 2 + Written(s) + w
    <3>1. ASSUME spc'[s] = "data" PROVE Written(s)' = Written(s) + w
      BY <1>1, <1>2, <3>1 DEF BridgeTypes
    <3>2. ASSUME spc'[s] = "data" PROVE Put(s)' = 2 + Written(s)'
      BY <3>2 DEF Put
    <3>3. QED BY <1>2, <1>1, <3>1, <3>2
  <2>3. QED BY <1>8, <1>9, <2>1, <2>2 DEF BeginningInv, Connected
<1>14. QED BY <1>3, <1>9, <1>10, <1>11, <1>12, <1>13, CrossStep

\* Connections that are closed, or are read instead of waiting: the receiver's
\* end of no other connection opens.
LEMMA BridgeStep ==
  ASSUME BridgeInv, UNCHANGED sendVars, BridgeTypes', OnceInv',
         ActionGetsBeginning',
         \A s \in Sender : BeginningInv(s)'
  PROVE  BridgeInv'
<1>1. \A s \in Sender : LocalsInv(s)'
  BY DEF BridgeInv, LocalsInv, sendVars
<1>2. QED BY <1>1 DEF BridgeInv

\* A wire that stays keeps its beginning, if no connection has been opened.
LEMMA BeginningStays ==
  ASSUME BridgeInv, UNCHANGED sendVars, NEW s \in Sender, wire'[s] = wire[s],
         Reading(s)' => Reading(s)
  PROVE  BeginningInv(s)'
<1>1. BeginningInv(s) BY DEF BridgeInv
<1>2. Put(s)' = Put(s) BY DEF Put, Written, sendVars
<1>3. StreamLen(s)' = StreamLen(s) BY DEF StreamLen, sendVars
<1>4. Piece(s, 0, wire[s])' BY <1>1 DEF BeginningInv, Piece, Cell
<1>5. QED BY <1>1, <1>2, <1>3, <1>4 DEF BeginningInv, sendVars

\* What the action was called with stays the beginning of a stream.
LEMMA BeginningsStay ==
  ASSUME ActionGetsBeginning, UNCHANGED <<total, delivered>>
  PROVE  ActionGetsBeginning'
<1>1. \A d \in delivered : Stream(d[1])' = Stream(d[1]) BY DEF Stream
<1>2. QED BY <1>1 DEF ActionGetsBeginning

\* A sender's connection waits for the bridge.
LEMMA CrossConnectKeeps ==
  ASSUME BridgeInv, NEW s \in Sender, Connect(s)
  PROVE  BridgeInv'
<1> DEFINE n == Len(backlog)
<1>1. /\ spc[s] = "connect" /\ backlog' = Append(backlog, s)
      /\ spc' = [spc EXCEPT ![s] = "type"]
      /\ UNCHANGED <<total, length, i, sent, sizeToSend, wire, recvVars>>
  BY DEF Connect
<1>2. BridgeTypes /\ LocalsInv(s) /\ BeginningInv(s) BY CrossFacts
<1>3. n \in Nat BY <1>2, LenProperties DEF BridgeTypes
<1>4. /\ backlog' \in Seq(Sender) /\ Len(backlog') = n + 1
      /\ \A k \in 1 .. n : backlog'[k] = backlog[k] /\ backlog[k] \in Sender
      /\ backlog'[n + 1] = s
      /\ \A k \in 1 .. n + 1 : k \in 1 .. n \/ k = n + 1
      /\ \A k \in 1 .. n : k \in 1 .. n + 1
      /\ n + 1 \in 1 .. n + 1
  <2>1. backlog \in Seq(Sender) BY <1>2 DEF BridgeTypes
  <2>2. \A k \in 1 .. n : backlog[k] \in Sender BY <2>1, ElementOfSeq
  <2>3. /\ backlog' \in Seq(Sender) /\ Len(backlog') = n + 1
        /\ \A k \in 1 .. n : backlog'[k] = backlog[k]
        /\ backlog'[n + 1] = s
    BY <1>1, <2>1, AppendProperties
  <2>4. QED BY ONLY <1>3, <2>2, <2>3
<1> HIDE DEF n
<1>5. spc'[s] = "type" /\ \A t \in Sender \ {s} : Same(t)
  BY <1>1, <1>2 DEF BridgeTypes, Same
<1>6. conn # s /\ ~Reading(s)
  BY <1>1, <1>4, NetworkAssumption
     DEF BridgeInv, OnceInv, Reading, n, NetworkAssumption
<1>7. \A t \in Sender \ {s} : Reading(t)' <=> Reading(t)
  BY <1>1, <1>4 DEF Reading, recvVars, n
<1>8. BridgeTypes' BY <1>1, <1>2, <1>4 DEF BridgeTypes, recvVars
<1>9. OnceInv'
  <2>1. OnceInv BY DEF BridgeInv
  <2>2. \A t \in Sender : spc[t] # "connect" => t # s /\ spc'[t] # "connect"
    BY <1>1, <1>5 DEF Same
  <2>3. \A k \in 1 .. n : backlog[k] # s BY <1>6 DEF Reading, n
  <2>4. UNCHANGED <<rpc, conn, delivered>> BY <1>1 DEF recvVars
  <2>5. \A j, k \in 1 .. Len(backlog') : backlog'[j] = backlog'[k] => j = k
    BY <1>4, <2>1, <2>3 DEF OnceInv, n
  <2>6. \A k \in 1 .. Len(backlog') :
          backlog'[k] # conn' /\ spc'[backlog'[k]] # "connect"
    BY <1>4, <1>5, <1>6, <2>1, <2>2, <2>4 DEF OnceInv, n
  <2>7. conn' # Nobody => spc'[conn'] # "connect"
    BY <1>2, <2>1, <2>2, <2>4 DEF OnceInv, BridgeTypes
  <2>8. \A d \in delivered' :
          /\ d[1] \in Sender /\ ~Reading(d[1])' /\ spc'[d[1]] # "connect"
    BY <1>7, <2>1, <2>2, <2>4 DEF OnceInv
  <2>9. QED BY <2>1, <2>4, <2>5, <2>6, <2>7, <2>8 DEF OnceInv
<1>10. ASSUME NEW t \in Sender PROVE LocalsInv(t)' /\ BeginningInv(t)'
  <2>1. CASE t # s BY <1>1, <1>5, <1>7, <2>1, SameKeeps DEF BridgeInv
  <2>2. CASE t = s
    <3>1. LocalsInv(s)' BY <1>1, <1>2, <1>5 DEF LocalsInv
    <3>2. Len(wire[s]) = 0 BY <1>1, <1>2 DEF BeginningInv
    <3>3. BeginningInv(s)'
      BY <1>1, <1>2, <1>5, <3>2
         DEF BeginningInv, Piece, Cell, StreamLen, Put
    <3>4. QED BY <2>2, <3>1, <3>3
  <2>3. QED BY <2>1, <2>2
<1>11. ActionGetsBeginning'
  BY <1>1, BeginningsStay DEF BridgeInv, recvVars
<1>12. QED BY <1>8, <1>9, <1>10, <1>11 DEF BridgeInv

\* The connection that has waited longest is read next.
LEMMA BridgeAcceptKeeps == ASSUME BridgeInv, BridgeAccept PROVE BridgeInv'
<1> DEFINE n == Len(backlog)
           c == Head(backlog)
<1>1. /\ backlog # <<>> /\ conn' = c /\ backlog' = Tail(backlog)
      /\ rpc' = "recv" /\ UNCHANGED <<sendVars, wire, delivered>>
  BY DEF BridgeAccept
<1>2. /\ BridgeTypes /\ OnceInv /\ ActionGetsBeginning
      /\ backlog \in Seq(Sender) /\ n \in Nat
  BY LenProperties DEF BridgeInv, BridgeTypes
<1>3. n > 0 BY <1>1, <1>2, EmptySeq
<1>4. /\ c = backlog[1] /\ c \in Sender /\ 1 \in 1 .. n
      /\ backlog' \in Seq(Sender) /\ Len(backlog') = n - 1
      /\ \A k \in 1 .. n - 1 : backlog'[k] = backlog[k + 1] /\ k + 1 \in 1 .. n
                             /\ k + 1 # 1 /\ backlog[k + 1] \in Sender
  <2>1. c = backlog[1] /\ c \in Sender
    BY <1>1, <1>2, HeadTailProperties
  <2>2. /\ backlog' \in Seq(Sender) /\ Len(backlog') = n - 1
        /\ \A k \in 1 .. n - 1 : backlog'[k] = backlog[k + 1]
    BY <1>1, <1>2, HeadTailProperties
  <2>3. 1 \in 1 .. n /\ \A k \in 1 .. n - 1 : k + 1 \in 1 .. n /\ k + 1 # 1
    BY <1>2, <1>3
  <2>4. \A k \in 1 .. n : backlog[k] \in Sender BY <1>2, ElementOfSeq
  <2>5. QED BY <2>1, <2>2, <2>3, <2>4
<1> HIDE DEF n, c
<1>5. \A t \in Sender : Reading(t)' => Reading(t)
  <2>1. ASSUME NEW t \in Sender, Reading(t)' PROVE Reading(t)
    <3>1. CASE conn' = t BY <1>1, <1>4, <3>1 DEF Reading, n
    <3>2. CASE \E k \in 1 .. Len(backlog') : backlog'[k] = t
      BY <1>4, <3>2 DEF Reading, n
    <3>3. QED BY <2>1, <3>1, <3>2 DEF Reading
  <2>2. QED BY <2>1
<1>6. BridgeTypes' BY <1>1, <1>2, <1>4 DEF BridgeTypes, sendVars
<1>7. OnceInv'
  <2>1. \A j, k \in 1 .. Len(backlog') : backlog'[j] = backlog'[k] => j = k
    <3>1. ASSUME NEW j \in 1 .. n - 1, NEW k \in 1 .. n - 1,
                 backlog'[j] = backlog'[k]
          PROVE  j = k
      <4>1. j + 1 = k + 1 BY <1>2, <1>4, <3>1 DEF OnceInv, n
      <4>2. QED BY <4>1
    <3>2. QED BY <1>4, <3>1
  <2>2. \A k \in 1 .. Len(backlog') :
          backlog'[k] # conn' /\ spc'[backlog'[k]] # "connect"
    BY <1>1, <1>2, <1>4 DEF OnceInv, n, sendVars
  <2>3. conn' \in Sender /\ spc'[conn'] # "connect"
    BY <1>1, <1>2, <1>4 DEF OnceInv, n, sendVars
  <2>4. \A d \in delivered' :
          /\ d[1] \in Sender /\ ~Reading(d[1])' /\ spc'[d[1]] # "connect"
    BY <1>1, <1>2, <1>5 DEF OnceInv, sendVars
  <2>5. QED BY <2>1, <2>2, <2>3, <2>4 DEF OnceInv
<1>8. \A t \in Sender : BeginningInv(t)' BY <1>1, <1>5, BeginningStays
<1>9. ActionGetsBeginning' BY <1>1, <1>2, BeginningsStay DEF sendVars
<1>10. QED BY <1>1, <1>6, <1>7, <1>8, <1>9, BridgeStep

\* The listening socket is closed, or a connection whose peer said nothing.
LEMMA BridgeClosesKeeps ==
  ASSUME BridgeInv, BridgeAcceptFails \/ RecvNothing
  PROVE  BridgeInv'
<1>1. /\ rpc' # "recv" /\ UNCHANGED <<sendVars, wire, delivered>>
      /\ conn' = conn \/ conn' = Nobody
      /\ backlog' = backlog \/ backlog' = <<>>
  BY DEF BridgeAcceptFails, RecvNothing, NextClient
<1>2. BridgeTypes /\ OnceInv /\ ActionGetsBeginning BY DEF BridgeInv
<1>3. /\ <<>> \in Seq(Sender) /\ Len(<<>>) = 0 /\ Nobody \notin Sender
      /\ \A k \in 1 .. Len(backlog) : backlog[k] \in Sender
  BY <1>2, NetworkAssumption, ElementOfSeq DEF BridgeTypes, NetworkAssumption
<1>4. \A t \in Sender : Reading(t)' => Reading(t) BY <1>1, <1>3 DEF Reading
<1>5. BridgeTypes' BY <1>1, <1>2, <1>3 DEF BridgeTypes, sendVars
<1>6. OnceInv' BY <1>1, <1>2, <1>3, <1>4 DEF OnceInv, sendVars
<1>7. \A t \in Sender : BeginningInv(t)' BY <1>1, <1>4, BeginningStays
<1>8. ActionGetsBeginning' BY <1>1, <1>2, BeginningsStay DEF sendVars
<1>9. QED BY <1>1, <1>5, <1>6, <1>7, <1>8, BridgeStep

\* The action gets what one recv() returns, and the connection is closed.
LEMMA RecvKeeps == ASSUME BridgeInv, Recv PROVE BridgeInv'
<1> DEFINE n == IF Len(wire[conn]) < BufferSize
                THEN Len(wire[conn]) ELSE BufferSize
<1>1. /\ rpc = "recv" /\ wire[conn] # <<>>
      /\ delivered' = delivered \cup {<<conn, Received>>}
      /\ wire' = [wire EXCEPT ![conn] = <<>>] /\ conn' = Nobody
      /\ rpc' # "recv" /\ UNCHANGED sendVars
      /\ backlog' = backlog \/ backlog' = <<>>
  BY DEF Recv
<1>2. /\ BridgeTypes /\ OnceInv /\ ActionGetsBeginning
      /\ conn \in Sender /\ Nobody \notin Sender
  BY <1>1, NetworkAssumption DEF BridgeInv, OnceInv, NetworkAssumption
<1>3. /\ wire[conn] \in Seq(Int) /\ Len(wire[conn]) \in Nat
      /\ BeginningInv(conn) /\ NetworkAssumption
  BY <1>2, CrossFacts
<1>4. Len(wire[conn]) > 0 BY <1>1, <1>3, EmptySeq
<1>5. n \in 1 .. Len(wire[conn]) /\ n <= BufferSize
  BY <1>3, <1>4, BridgeAssumption DEF BridgeAssumption
<1>6. Received = SubSeq(wire[conn], 1, n) BY DEF Received
<1> HIDE DEF n
<1>7. Len(Received) = n /\ Received = SubSeq(Stream(conn), 1, n)
  BY <1>2, <1>3, <1>5, <1>6, BeginningOf
<1>8. /\ <<>> \in Seq(Sender) /\ <<>> \in Seq(Int) /\ Len(<<>>) = 0
      /\ \A k \in 1 .. Len(backlog) : backlog[k] \in Sender
  BY <1>2, ElementOfSeq DEF BridgeTypes
<1>9. \A t \in Sender : (Reading(t)' => Reading(t)) /\ (t = conn => ~Reading(t)')
  <2>1. \A k \in 1 .. Len(backlog) : backlog[k] # conn BY <1>2 DEF OnceInv
  <2>2. QED BY <1>1, <1>2, <1>8, <2>1 DEF Reading
<1>10. /\ wire' \in [Sender -> Seq(Int)] /\ wire'[conn] = <<>>
       /\ \A t \in Sender \ {conn} : wire'[t] = wire[t]
  BY <1>1, <1>2, <1>8 DEF BridgeTypes
<1>11. BridgeTypes'
  <2>1. backlog' \in Seq(Sender) /\ conn' \in Sender \cup {Nobody}
    BY <1>1, <1>2, <1>8 DEF BridgeTypes
  <2>2. QED BY <1>1, <1>2, <1>10, <2>1 DEF BridgeTypes, sendVars
<1>12. OnceInv'
  <2>1. \A j, k \in 1 .. Len(backlog') : backlog'[j] = backlog'[k] => j = k
    BY <1>1, <1>2, <1>8 DEF OnceInv
  <2>2. \A k \in 1 .. Len(backlog') :
          backlog'[k] # conn' /\ spc'[backlog'[k]] # "connect"
    BY <1>1, <1>2, <1>8 DEF OnceInv, sendVars
  <2>3. spc[conn] # "connect" BY <1>2 DEF OnceInv
  <2>4. ASSUME NEW d \in delivered'
        PROVE  /\ d[1] \in Sender /\ ~Reading(d[1])'
               /\ spc'[d[1]] # "connect"
    <3>1. CASE d \in delivered BY <1>1, <1>2, <1>9, <3>1 DEF OnceInv, sendVars
    <3>2. CASE d = <<conn, Received>>
      BY <1>1, <1>2, <1>9, <2>3, <3>2 DEF sendVars
    <3>3. QED BY <1>1, <3>1, <3>2
  <2>5. QED BY <1>1, <2>1, <2>2, <2>4 DEF OnceInv
<1>13. ASSUME NEW t \in Sender PROVE BeginningInv(t)'
  <2>1. CASE t # conn BY <1>1, <1>9, <1>10, <2>1, BeginningStays
  <2>2. CASE t = conn
    <3>1. StreamLen(t)' \in Nat
      <4>1. StreamLen(t)' = StreamLen(t) BY <1>1 DEF StreamLen, sendVars
      <4>2. QED BY <1>2, <1>3, <4>1, StreamCells
    <3>2. QED BY <1>8, <1>9, <1>10, <2>2, <3>1 DEF BeginningInv, Piece
  <2>3. QED BY <2>1, <2>2
<1>14. ActionGetsBeginning'
  <2> DEFINE new == <<conn, Received>>
  <2>1. \A t \in Sender : Stream(t)' = Stream(t) BY <1>1 DEF Stream, sendVars
  <2>2. new[1] = conn /\ new[2] = Received OBVIOUS
  <2>3. \A d \in delivered : d[1] \in Sender /\ d[1] # conn
    BY <1>2 DEF OnceInv, Reading
  <2> HIDE DEF new
  <2>4. ASSUME NEW d \in delivered'
        PROVE  /\ 0 < Len(d[2]) /\ Len(d[2]) <= BufferSize
               /\ d[2] = SubSeq(Stream(d[1])', 1, Len(d[2]))
               /\ \A e \in delivered' : e[1] = d[1] => e = d
    <3>1. CASE d \in delivered
      <4>1. \A e \in delivered' : e[1] = d[1] => e = d
        BY <1>1, <1>2, <2>2, <2>3, <3>1 DEF ActionGetsBeginning, new
      <4>2. QED BY <1>2, <2>1, <2>3, <3>1, <4>1 DEF ActionGetsBeginning
    <3>2. CASE d = new
      <4>1. \A e \in delivered' : e[1] = d[1] => e = d
        BY <1>1, <2>2, <2>3, <3>2 DEF new
      <4>2. Len(d[2]) = n /\ d[2] = SubSeq(Stream(d[1])', 1, n)
        BY <1>2, <1>7, <2>1, <2>2, <3>2
      <4>3. QED BY <1>3, <1>5, <4>1, <4>2
    <3>3. QED BY <1>1, <3>1, <3>2 DEF new
  <2>5. QED BY <2>4 DEF ActionGetsBeginning
<1>15. QED BY <1>1, <1>11, <1>12, <1>13, <1>14, BridgeStep

\* Nobody has connected to the bridge yet.
LEMMA BridgeInvInit == Init => BridgeInv
<1>1. SUFFICES ASSUME Init PROVE BridgeInv
  OBVIOUS
<1>2. /\ <<>> \in Seq(Int) /\ <<>> \in Seq(Sender) /\ Len(<<>>) = 0
      /\ NetworkAssumption
  BY NetworkAssumption
<1>3. total \in [Sender -> Lengths] /\ total \in [Sender -> Nat]
  BY <1>1, <1>2 DEF Init, NetworkAssumption
<1>4. BridgeTypes BY <1>1, <1>2, <1>3 DEF Init, BridgeTypes
<1>5. OnceInv /\ ActionGetsBeginning
  BY <1>1, <1>2 DEF Init, OnceInv, ActionGetsBeginning
<1>6. ASSUME NEW s \in Sender PROVE LocalsInv(s) /\ BeginningInv(s)
  <2>1. spc[s] = "connect" /\ length[s] = total[s] /\ i[s] = 0 /\ sent[s] = 0
        /\ wire[s] = <<>>
    BY <1>1 DEF Init
  <2>2. StreamLen(s) \in Nat BY <1>2, <1>4, StreamCells
  <2>3. QED BY <1>2, <2>1, <2>2 DEF LocalsInv, BeginningInv, Connected, Piece
<1>7. QED BY <1>4, <1>5, <1>6 DEF BridgeInv

\* Every step with the bridge keeps its invariant.
LEMMA BridgeInvNext == BridgeInv /\ [BridgeNext]_vars => BridgeInv'
<1>1. SUFFICES ASSUME BridgeInv, [BridgeNext]_vars PROVE BridgeInv'
  OBVIOUS
<1>2. CASE \E s \in Sender : Cross(s) \/ PeerExit(s) \/ SenderDies(s)
  BY <1>1, <1>2, CrossConnectKeeps, CrossWordKeeps, CrossDataKeeps, CrossEnds
     DEF Cross, PeerExit
<1>3. CASE BridgeReceive
  BY <1>1, <1>3, BridgeAcceptKeeps, RecvKeeps, BridgeClosesKeeps
     DEF BridgeReceive
<1>4. CASE BridgeAcceptFails BY <1>1, <1>4, BridgeClosesKeeps
<1>5. CASE UNCHANGED vars
  <2>1. /\ UNCHANGED sendVars /\ UNCHANGED <<wire, backlog, rpc, conn, delivered>>
    BY <1>5 DEF vars, recvVars
  <2>2. \A t \in Sender : Reading(t)' <=> Reading(t) BY <2>1 DEF Reading
  <2>3. BridgeTypes' BY <1>1, <2>1 DEF BridgeInv, BridgeTypes, sendVars
  <2>4. OnceInv' BY <1>1, <2>1, <2>2 DEF BridgeInv, OnceInv, sendVars
  <2>5. ActionGetsBeginning'
    BY <1>1, <2>1, BeginningsStay DEF BridgeInv, sendVars
  <2>6. \A t \in Sender : BeginningInv(t)' BY <1>1, <2>1, <2>2, BeginningStays
  <2>7. QED BY <1>1, <2>1, <2>3, <2>4, <2>5, <2>6, BridgeStep
<1>6. QED BY <1>1, <1>2, <1>3, <1>4, <1>5 DEF BridgeNext

\* bridge_thread calls the action at most once for a connection, with the first
\* cells of what its peer writes, however the peer's writes are cut and whoever
\* ends first.
THEOREM ActionGetsBeginningCorrect == BridgeSpec => []ActionGetsBeginning
<1>1. BridgeInv => ActionGetsBeginning BY DEF BridgeInv
<1>2. QED BY <1>1, BridgeInvInit, BridgeInvNext, PTL DEF BridgeSpec
=============================================================================
