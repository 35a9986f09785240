------------------------------ MODULE CmdFifo ------------------------------
(***************************************************************************)
(* What a NBUS_CMD_QUEUE promises its callers, without saying how: a       *)
(* bounded first-in first-out queue of commands.  push() on a full queue   *)
(* changes nothing and returns the capacity, so a caller cannot tell a     *)
(* dropped command from the one that filled the queue; pop() on an empty   *)
(* queue returns no command.                                               *)
(***************************************************************************)
EXTENDS Naturals, Sequences

CONSTANTS Capacity,     \* the most commands held
          Cmd,          \* the commands
          NoCmd         \* what pop() returns when there is none

VARIABLES queue,        \* the commands held, oldest first
          pushed,       \* what the last push() returned
          popped        \* what the last pop() returned

fifoVars == <<queue, pushed, popped>>

FifoInit == queue = <<>> /\ pushed = 0 /\ popped = NoCmd

FifoPush(c) ==
  /\ queue' = IF Len(queue) = Capacity THEN queue ELSE Append(queue, c)
  /\ pushed' = Len(queue')
  /\ UNCHANGED popped

FifoPop ==
  /\ \/ queue = <<>> /\ popped' = NoCmd /\ UNCHANGED queue
     \/ queue # <<>> /\ popped' = Head(queue) /\ queue' = Tail(queue)
  /\ UNCHANGED pushed

FifoClear == queue' = <<>> /\ UNCHANGED <<pushed, popped>>

FifoNext == (\E c \in Cmd : FifoPush(c)) \/ FifoPop \/ FifoClear

FifoSpec == FifoInit /\ [][FifoNext]_fifoVars
=============================================================================
