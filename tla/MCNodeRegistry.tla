--------------------------- MODULE MCNodeRegistry ---------------------------
(***************************************************************************)
(* NodeRegistry for TLC: memory is handed out from either end of what is   *)
(* free, so that a freed cell comes back at once or much later.            *)
(***************************************************************************)
EXTENDS NodeRegistry, FiniteSetsExt, TLC

CONSTANT MaxCell

Cells == 1 .. MaxCell

EitherEnd ==
  [used \in SUBSET Cells |->
     IF Cells \subseteq used THEN {} ELSE {Min(Cells \ used), Max(Cells \ used)}]

AnyName == Permutations(Name)
=============================================================================
