------------------------------ MODULE CmdLifo ------------------------------
(***************************************************************************)
(* What a NBUS_CMD_STACK promises: a bounded last-in first-out store of    *)
(* commands, and popclear(), which takes the newest command and forgets    *)
(* the others.                                                             *)
(***************************************************************************)
EXTENDS Naturals, Sequences

CONSTANTS Capacity,     \* the most commands held
          Cmd,          \* the commands
          NoCmd         \* what a pop returns when there is none

VARIABLES stack,        \* the commands held, oldest first
          pushed,       \* what the last push() returned
          popped        \* what the last pop() or popclear() returned

lifoVars == <<stack, pushed, popped>>

LifoInit == stack = <<>> /\ pushed = 0 /\ popped = NoCmd

LifoPush(c) ==
  /\ stack' = IF Len(stack) = Capacity THEN stack ELSE Append(stack, c)
  /\ pushed' = Len(stack')
  /\ UNCHANGED popped

Newest == IF stack = <<>> THEN NoCmd ELSE stack[Len(stack)]

LifoPop ==
  /\ popped' = Newest
  /\ stack' = IF stack = <<>> THEN stack ELSE SubSeq(stack, 1, Len(stack) - 1)
  /\ UNCHANGED pushed

LifoPopClear == popped' = Newest /\ stack' = <<>> /\ UNCHANGED pushed

LifoClear == stack' = <<>> /\ UNCHANGED <<pushed, popped>>

LifoNext == (\E c \in Cmd : LifoPush(c)) \/ LifoPop \/ LifoPopClear \/ LifoClear

LifoSpec == LifoInit /\ [][LifoNext]_lifoVars
=============================================================================
