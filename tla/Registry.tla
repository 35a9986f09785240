------------------------------ MODULE Registry ------------------------------
(***************************************************************************)
(* What the service promises about its registry of nodes: names without    *)
(* repetition, the latest first, and their number; a name is added or      *)
(* removed at a time; a broadcast visits every name that is registered     *)
(* when it begins, once and in their order, and removes those it cannot    *)
(* send to.                                                                *)
(***************************************************************************)
EXTENDS Naturals, Sequences

CONSTANT Name

VARIABLES nodes,        \* the names registered, latest first
          count,        \* how many
          todo          \* names a broadcast still has to visit

registryVars == <<nodes, count, todo>>

RegistryInit == nodes = <<>> /\ count = 0 /\ todo = <<>>

First(n, s) == [k \in 1 .. Len(s) + 1 |-> IF k = 1 THEN n ELSE s[k - 1]]
Drop(s, i) == [k \in 1 .. Len(s) - 1 |-> IF k < i THEN s[k] ELSE s[k + 1]]

Register(n) ==
  /\ todo = <<>> /\ \A i \in 1 .. Len(nodes) : nodes[i] # n
  /\ nodes' = First(n, nodes) /\ count' = count + 1
  /\ UNCHANGED todo

Remove(i) ==
  /\ todo = <<>>
  /\ nodes' = Drop(nodes, i) /\ count' = count - 1
  /\ UNCHANGED todo

Begin ==
  /\ todo = <<>>
  /\ todo' = nodes
  /\ UNCHANGED <<nodes, count>>

\* What is still to be visited is the end of the registry.
Visit ==
  /\ todo # <<>>
  /\ todo' = Drop(todo, 1)
  /\ \/ UNCHANGED <<nodes, count>>
     \/ /\ nodes' = Drop(nodes, Len(nodes) - Len(todo) + 1)
        /\ count' = count - 1

RegistryNext ==
  \/ \E n \in Name : Register(n)
  \/ \E i \in 1 .. Len(nodes) : Remove(i)
  \/ Begin \/ Visit

RegistrySpec == RegistryInit /\ [][RegistryNext]_registryVars
=============================================================================
