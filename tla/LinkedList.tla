----------------------------- MODULE LinkedList -----------------------------
(***************************************************************************)
(* The circular doubly linked list of List.h, with the cells it links: a   *)
(* cell is linked to itself when it is made (LIST_INIT in the constructors *)
(* of NodeEntry and NodeXML) and may then be the head of a list or be put  *)
(* into one.  The macros check nothing: that they are used on cells that   *)
(* exist and are linked the way they expect is up to the code that uses    *)
(* them.  "heads" and "order" are history: which live cells are heads, and *)
(* what the list behind each should hold.                                  *)
(***************************************************************************)
EXTENDS Naturals, Sequences

CONSTANTS
  Cell,         \* places in memory
  NULL,         \* no place
  Malloc        \* what new may return, given the cells in use

ASSUME CellAssumption ==
  /\ NULL \notin Cell
  /\ Malloc \in [SUBSET Cell -> SUBSET Cell]
  /\ \A used \in SUBSET Cell : Malloc[used] \cap used = {}

VARIABLES
  p_next, p_prev, \* the links of every cell
  live,           \* cells allocated and not freed
  heads, order    \* history: see above

listVars == <<p_next, p_prev, live, heads, order>>

\* c before s, and s without its i-th element.
Prepend(c, s) == [k \in 1 .. Len(s) + 1 |-> IF k = 1 THEN c ELSE s[k - 1]]
Without(s, i) == [k \in 1 .. Len(s) - 1 |-> IF k < i THEN s[k] ELSE s[k + 1]]

\* The i-th cell of the list behind h, which stands before the first and
\* after the last.
At(h, i) == IF i \in 1 .. Len(order[h]) THEN order[h][i] ELSE h

\* new and LIST_INIT.
New(c) ==
  /\ c \in Malloc[live]
  /\ live' = live \cup {c}
  /\ p_next' = [p_next EXCEPT ![c] = c]
  /\ p_prev' = [p_prev EXCEPT ![c] = c]
  /\ heads' = heads \cup {c}
  /\ order' = [order EXCEPT ![c] = <<>>]

\* LIST_ADD(c, h).  The macro reads h->p_next twice and overwrites it last.
ListAdd(c, h) ==
  /\ p_prev' = [p_prev EXCEPT ![p_next[h]] = c, ![c] = h]
  /\ p_next' = [p_next EXCEPT ![c] = p_next[h], ![h] = c]
  /\ heads' = heads \ {c}
  /\ order' = [order EXCEPT ![h] = Prepend(c, order[h])]
  /\ UNCHANGED live

\* LIST_DEL(c) and delete, c the i-th behind h.  What a freed cell holds does not
\* matter: it is not to be looked at.
ListDel(c, h, i) ==
  /\ p_next' = [p_next EXCEPT ![p_prev[c]] = p_next[c], ![c] = c]
  /\ p_prev' = [p_prev EXCEPT ![p_next[c]] = p_prev[c], ![c] = c]
  /\ live' = live \ {c}
  /\ order' = [order EXCEPT ![h] = Without(order[h], i)]
  /\ UNCHANGED heads

\* delete on a head.
FreeHead(h) ==
  /\ live' = live \ {h}
  /\ heads' = heads \ {h}
  /\ UNCHANGED <<p_next, p_prev, order>>

-----------------------------------------------------------------------------
ListTypeOK ==
  /\ p_next \in [Cell -> Cell] /\ p_prev \in [Cell -> Cell]
  /\ heads \subseteq live /\ live \subseteq Cell
  /\ order \in [Cell -> Seq(Cell)]

\* The links of a ring lead once round its members and back, in both directions.
Linked(h) ==
  \A i \in 0 .. Len(order[h]) :
    p_next[At(h, i)] = At(h, i + 1) /\ p_prev[At(h, i + 1)] = At(h, i)

\* No cell is in two places, and only live cells are in one.
Members ==
  /\ \A h \in heads : \A i \in 1 .. Len(order[h]) : order[h][i] \in live \ heads
  /\ \A h, g \in heads : \A i \in 1 .. Len(order[h]), j \in 1 .. Len(order[g]) :
       order[h][i] = order[g][j] => h = g /\ i = j

\* Every live cell is a head or behind one: none is out of reach.
Reached ==
  \A c \in live \ heads :
    \E h \in heads : \E i \in 1 .. Len(order[h]) : order[h][i] = c

ListInv ==
  /\ ListTypeOK
  /\ \A h \in heads : Linked(h)
  /\ Members
  /\ Reached
=============================================================================
