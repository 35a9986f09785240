---------------------------- MODULE NodeRegistry ----------------------------
(***************************************************************************)
(* The registry of DefaultService as the code keeps it, a linked list of   *)
(* NodeEntry that one thread walks with a pointer, and the way its names   *)
(* go in the answer to a LIST request: the service walks the registry and  *)
(* adds each name at the front of an NBUSXML's list, prints that list and  *)
(* sends it; the node adapter of the caller adds each name it reads at the *)
(* front of a list of its own and prints that for the caller.  The lists   *)
(* are freed as the code frees them, and a freed cell may come back.       *)
(*                                                                         *)
(* Requests, the queues and the default node are DefaultService's and      *)
(* NodeListSync's; here a request is served whenever the service is idle,  *)
(* a send has any result, and a list of any length fits its buffer.  The   *)
(* adapter is another process: all it shares with the service is the text, *)
(* so its part is taken before the service goes on.                        *)
(***************************************************************************)
EXTENDS LinkedList

CONSTANTS Name, NoName  \* node names, and none

ASSUME NameAssumption == NoName \notin Name

VARIABLES
  mpNodeListHead, mNumOfNode, \* the registry
  name,         \* mDescriptor or mName of a cell
  pc,           \* what is being done
  task, arg,    \* what drop() is called for, and for which name
  entry,        \* the entry join() has made
  pNode, at,    \* the cell a walk of the registry has reached, and its place
  side,         \* whose NBUSXML it is: the service's or the adapter's
  mpNodeList,   \* the head of its list
  made,         \* the NodeXML addNode() has made
  pNodeXML,     \* the cell toXML() has reached
  text,         \* the names toXML() has printed
  source,       \* names the adapter has still to read
  taken         \* history: the registry when the service began its answer

registryState == <<mpNodeListHead, mNumOfNode, task, arg, entry>>
walkVars == <<pNode, at>>
xmlVars == <<mpNodeList, made, pNodeXML, text>>
answerVars == <<side, source, taken>>
vars == <<listVars, registryState, walkVars, name, pc, xmlVars, answerVars>>

\* setupService(): the head is a NodeEntry without a name.
Init ==
  /\ mpNodeListHead \in Malloc[{}] /\ mNumOfNode = 0
  /\ live = {mpNodeListHead} /\ heads = live
  /\ p_next = [c \in Cell |-> c] /\ p_prev = [c \in Cell |-> c]
  /\ order = [c \in Cell |-> <<>>]
  /\ name = [c \in Cell |-> NoName]
  /\ pc = "idle" /\ task = "none" /\ arg = NoName
  /\ entry = NULL /\ pNode = mpNodeListHead /\ at = 0
  /\ side = "service" /\ mpNodeList = NULL /\ made = NULL /\ pNodeXML = NULL
  /\ text = <<>> /\ source = <<>> /\ taken = <<>>

\* The names in the registry, first to last, without the pointers.
Names ==
  [i \in 1 .. Len(order[mpNodeListHead]) |-> name[order[mpNodeListHead][i]]]

\* LIST_FOR_EACH over the registry: its first step, and the next one.
WalkBegins == pNode' = p_next[mpNodeListHead] /\ at' = 1
WalkOn == pNode' = p_next[pNode] /\ at' = at + 1
WalkIsOver == pNode' = mpNodeListHead /\ at' = 0

\* LIST_DEL and delete: the name goes with the cell.
Delete(c, h, i) == ListDel(c, h, i) /\ name' = [name EXCEPT ![c] = NoName]

-----------------------------------------------------------------------------
(* join() and drop().                                                      *)

\* Mutant of Join: the name it replaces is not dropped.
JoinBeside(n) ==
  /\ pc = "idle"
  /\ \E c \in Cell : New(c) /\ entry' = c /\ name' = [name EXCEPT ![c] = n]
  /\ pc' = "add"
  /\ UNCHANGED <<mpNodeListHead, mNumOfNode, task, arg, walkVars, xmlVars, answerVars>>

\* join() makes the entry before it drops the name it replaces.
Join(n) ==
  /\ pc = "idle"
  /\ \E c \in Cell : New(c) /\ entry' = c /\ name' = [name EXCEPT ![c] = n]
  /\ task' = "join" /\ arg' = n /\ pc' = "drop"
  /\ WalkBegins
  /\ UNCHANGED <<mpNodeListHead, mNumOfNode, xmlVars, answerVars>>

DropNode(n) ==
  /\ pc = "idle"
  /\ task' = "drop" /\ arg' = n /\ pc' = "drop"
  /\ WalkBegins
  /\ UNCHANGED <<listVars, mpNodeListHead, mNumOfNode, entry, name, xmlVars,
                 answerVars>>

\* drop() returns to where it was called.
DropReturns ==
  /\ pc' = CASE task = "join" -> "add"
             [] task = "drop" -> "idle"
             [] task = "list" -> "free"
  /\ task' = "none" /\ arg' = NoName
  /\ WalkIsOver

DropPasses ==
  /\ pc = "drop" /\ pNode # mpNodeListHead /\ name[pNode] # arg
  /\ WalkOn
  /\ UNCHANGED <<listVars, registryState, name, pc, xmlVars, answerVars>>

DropFinds ==
  /\ pc = "drop" /\ pNode # mpNodeListHead /\ name[pNode] = arg
  /\ mNumOfNode' = mNumOfNode - 1
  /\ Delete(pNode, mpNodeListHead, at)
  /\ DropReturns
  /\ UNCHANGED <<mpNodeListHead, entry, xmlVars, answerVars>>

DropEnds ==
  /\ pc = "drop" /\ pNode = mpNodeListHead
  /\ DropReturns
  /\ UNCHANGED <<listVars, mpNodeListHead, mNumOfNode, entry, name, xmlVars,
                 answerVars>>

AddNodeEntry ==
  /\ pc = "add"
  /\ ListAdd(entry, mpNodeListHead)
  /\ mNumOfNode' = mNumOfNode + 1
  /\ entry' = NULL /\ pc' = "idle"
  /\ UNCHANGED <<mpNodeListHead, task, arg, walkVars, name, xmlVars, answerVars>>

-----------------------------------------------------------------------------
(* broadcast().                                                            *)

Broadcast ==
  /\ pc = "idle"
  /\ pc' = "broadcast" /\ WalkBegins
  /\ UNCHANGED <<listVars, registryState, name, xmlVars, answerVars>>

SendArrives ==
  /\ pc = "broadcast" /\ pNode # mpNodeListHead
  /\ WalkOn
  /\ UNCHANGED <<listVars, registryState, name, pc, xmlVars, answerVars>>

\* Mutant of SendFails: the walk goes on from the entry it has freed.
SendFailsDangling ==
  /\ pc = "broadcast" /\ pNode # mpNodeListHead
  /\ mNumOfNode' = mNumOfNode - 1
  /\ Delete(pNode, mpNodeListHead, at)
  /\ UNCHANGED <<mpNodeListHead, task, arg, entry, walkVars, pc, xmlVars,
                 answerVars>>

\* The entry is freed.  The walk goes on behind the one before it, saved before.
SendFails ==
  /\ pc = "broadcast" /\ pNode # mpNodeListHead
  /\ mNumOfNode' = mNumOfNode - 1
  /\ Delete(pNode, mpNodeListHead, at)
  /\ pNode' = p_next'[p_prev[pNode]]
  /\ UNCHANGED <<mpNodeListHead, task, arg, entry, at, pc, xmlVars, answerVars>>

BroadcastEnds ==
  /\ pc = "broadcast" /\ pNode = mpNodeListHead
  /\ pc' = "idle" /\ WalkIsOver
  /\ UNCHANGED <<listVars, registryState, name, xmlVars, answerVars>>

-----------------------------------------------------------------------------
(* LIST.  Both sides fill an NBUSXML, print it and free it.                *)

List ==
  /\ pc = "idle"
  /\ pc' = "collect" /\ side' = "service" /\ taken' = Names
  /\ WalkBegins
  /\ UNCHANGED <<listVars, registryState, name, xmlVars, source>>

\* The names still to add: of the service's entries, or in the adapter's text.
NamesLeft == IF side = "service" THEN pNode # mpNodeListHead ELSE source # <<>>
NextName == IF side = "service" THEN name[pNode] ELSE Head(source)

\* addNode() makes the head of the list when there is none.
MakeHead ==
  /\ pc = "collect" /\ NamesLeft /\ mpNodeList = NULL
  /\ \E c \in Cell :
       New(c) /\ mpNodeList' = c /\ name' = [name EXCEPT ![c] = NoName]
  /\ UNCHANGED <<registryState, walkVars, pc, made, pNodeXML, text, answerVars>>

MakeNode ==
  /\ pc = "collect" /\ NamesLeft /\ mpNodeList # NULL /\ made = NULL
  /\ \E c \in Cell :
       New(c) /\ made' = c /\ name' = [name EXCEPT ![c] = NextName]
  /\ UNCHANGED <<registryState, walkVars, pc, mpNodeList, pNodeXML, text,
                 answerVars>>

\* The new cell goes to the front, and the loop moves on.
AddNode ==
  /\ pc = "collect" /\ made # NULL
  /\ ListAdd(made, mpNodeList)
  /\ made' = NULL
  /\ IF side = "service" THEN WalkOn /\ UNCHANGED source
     ELSE source' = Tail(source) /\ UNCHANGED walkVars
  /\ UNCHANGED <<registryState, name, pc, mpNodeList, pNodeXML, text, side, taken>>

\* toXML() starts at the head: without one, when there was no name, it crashes.
CollectEnds ==
  /\ pc = "collect" /\ ~NamesLeft
  /\ IF mpNodeList = NULL
     THEN pc' = "crashed" /\ UNCHANGED pNodeXML
     ELSE pc' = "print" /\ pNodeXML' = p_next[mpNodeList]
  /\ WalkIsOver
  /\ UNCHANGED <<listVars, registryState, name, mpNodeList, made, text, answerVars>>

\* Mutant of Writes: the adapter prints the list in the order its names were
\* added, as a command prints its arguments.
WritesBackwards ==
  /\ pc = "print" /\ pNodeXML # mpNodeList
  /\ text' = Append(text, name[pNodeXML])
  /\ pNodeXML' = IF side = "service" THEN p_next[pNodeXML] ELSE p_prev[pNodeXML]
  /\ UNCHANGED <<listVars, registryState, walkVars, name, pc, mpNodeList, made,
                 answerVars>>

Writes ==
  /\ pc = "print" /\ pNodeXML # mpNodeList
  /\ text' = Append(text, name[pNodeXML])
  /\ pNodeXML' = p_next[pNodeXML]
  /\ UNCHANGED <<listVars, registryState, walkVars, name, pc, mpNodeList, made,
                 answerVars>>

Printed == pc = "print" /\ pNodeXML = mpNodeList

\* The text is sent and freed.  Whether it arrives and whether the send fails are
\* two things (NodeNetwork); if it fails, the name it was for is dropped.
SendAnswer(n) ==
  /\ Printed /\ side = "service"
  /\ source' = text \/ UNCHANGED source
  /\ \/ /\ pc' = "free"
        /\ UNCHANGED <<task, arg, walkVars>>
     \/ /\ pc' = "drop" /\ task' = "list" /\ arg' = n
        /\ WalkBegins
  /\ text' = <<>> /\ pNodeXML' = NULL
  /\ UNCHANGED <<listVars, mpNodeListHead, mNumOfNode, entry, name, mpNodeList,
                 made, side, taken>>

\* The adapter copies the text to the caller's buffer (NodeListSync) and frees it.
CopyAnswer ==
  /\ Printed /\ side = "adapter"
  /\ text' = <<>> /\ pNodeXML' = NULL
  /\ pc' = "free"
  /\ UNCHANGED <<listVars, registryState, walkVars, name, mpNodeList, made,
                 answerVars>>

\* ~NBUSXML(): the first cell is taken out and freed until there is none.
FreeNode ==
  /\ pc = "free" /\ p_next[mpNodeList] # mpNodeList
  /\ Delete(p_next[mpNodeList], mpNodeList, 1)
  /\ UNCHANGED <<registryState, walkVars, pc, xmlVars, answerVars>>

\* Then the head.  When the service is done the adapter parses what has arrived.
FreeList ==
  /\ pc = "free" /\ p_next[mpNodeList] = mpNodeList
  /\ FreeHead(mpNodeList)
  /\ mpNodeList' = NULL
  /\ IF source = <<>> THEN pc' = "idle" /\ side' = "service" /\ taken' = <<>>
     ELSE pc' = "collect" /\ side' = "adapter" /\ UNCHANGED taken
  /\ UNCHANGED <<registryState, walkVars, name, made, pNodeXML, text, source>>

-----------------------------------------------------------------------------
DropSteps == DropPasses \/ DropFinds \/ DropEnds

BroadcastSteps == Broadcast \/ SendArrives \/ SendFails \/ BroadcastEnds

XmlSteps == MakeHead \/ MakeNode \/ AddNode \/ CollectEnds \/ Writes \/ CopyAnswer

FreeSteps == FreeNode \/ FreeList

Next ==
  \/ \E n \in Name : Join(n) \/ DropNode(n) \/ SendAnswer(n)
  \/ DropSteps \/ AddNodeEntry \/ BroadcastSteps
  \/ List \/ XmlSteps \/ FreeSteps

Spec == Init /\ [][Next]_vars

-----------------------------------------------------------------------------
\* Every pointer a walk is about to follow leads to a cell in use, at the place
\* of its list the walk has come to; and what is in use is what the registry
\* and the list under way hold: nothing is followed after it is freed, freed
\* twice or leaked, also when an entry is freed under the walk of a broadcast.
NoStrayCell ==
  /\ ListInv
  /\ heads = {mpNodeListHead, mpNodeList, made, entry} \ {NULL}
  /\ at \in 0 .. Len(order[mpNodeListHead]) + 1
  /\ pNode = At(mpNodeListHead, at)
  /\ pc = "print" => pNodeXML \in live

\* The caller is given the names that were registered when the service took its
\* list, in the order of the registry: each side turns the order of the names
\* round, and the two make up for each other.
AnswerIsRegistry == Printed /\ side = "adapter" => text = taken

\* The list with its walks is the registry the service promises: join() adds a
\* name in one step and never one that is there, a broadcast visits everyone
\* once though entries are freed under it, and mNumOfNode keeps count.
Todo ==
  IF pc = "broadcast"
  THEN [k \in 1 .. Len(Names) - at + 1 |-> Names[at + k - 1]] ELSE <<>>

Promise == INSTANCE Registry WITH nodes <- Names, count <- mNumOfNode, todo <- Todo
RefinesRegistry == Promise!RegistrySpec
=============================================================================
