----------------------------- MODULE NodeLooper -----------------------------
(***************************************************************************)
(* NodeLooper (service/NodeLooper.cpp): a pipe that other threads write    *)
(* four-byte events into and one thread, inside wait(), reads in batches.  *)
(* Every write is of one whole event, so the pipe is a sequence of events; *)
(* a write to a full pipe blocks its caller.  wait() calls back once per   *)
(* event of the batch, but always with the address of the FIRST event, and *)
(* leaves the loop behind an exit event, dropping what the batch and the   *)
(* pipe still hold.                                                        *)
(*                                                                         *)
(* The module has no specification of its own: the modules of the threads  *)
(* that share a looper extend it.                                          *)
(***************************************************************************)
EXTENDS Naturals, Sequences

CONSTANTS PipeCapacity, \* events the pipe holds before a writer blocks
          BatchSize     \* events one read() returns at most (BUFSIZ / 4)

ASSUME LooperAssumption ==
  PipeCapacity \in Nat \ {0} /\ BatchSize \in Nat \ {0}

VARIABLES pipe,         \* events written and not read
          batch,        \* events the last read() returned
          pos           \* the event of batch being served

looperVars == <<pipe, batch, pos>>

LooperEvent == {"wake", "exit"}

LooperTypeOK ==
  /\ pipe \in Seq(LooperEvent) /\ Len(pipe) <= PipeCapacity
  /\ batch \in Seq(LooperEvent) /\ Len(batch) <= BatchSize
  /\ pos \in 0 .. Len(batch)
  /\ pos = 0 => batch = <<>>

LooperInit == pipe = <<>> /\ batch = <<>> /\ pos = 0

\* wakeup(), exit() and exit(fd): enabled when the write does not block.
WriteEvent(e) ==
  /\ Len(pipe) < PipeCapacity
  /\ pipe' = Append(pipe, e)
  /\ UNCHANGED <<batch, pos>>

\* poll() and read(): take what the pipe holds, up to a buffer full.
ReadBatch ==
  LET n == IF Len(pipe) < BatchSize THEN Len(pipe) ELSE BatchSize
  IN  /\ pipe # <<>>
      /\ batch' = SubSeq(pipe, 1, n)
      /\ pipe' = SubSeq(pipe, n + 1, Len(pipe))
      /\ pos' = 1

\* What the callback is shown, whichever event it is called for.
SeenEvent == batch[1]

\* After the callback for the event at pos: wait() returns behind an exit
\* event, goes on with the batch, or polls again.
LeavesLoop == batch[pos] = "exit"

\* Mutant of MoreEvents: one event per read().
MoreEventsNever == FALSE

MoreEvents == ~LeavesLoop /\ pos < Len(batch)

\* Leaving the loop and finishing a batch both forget the batch.
EventServed ==
  /\ IF MoreEvents THEN pos' = pos + 1 /\ UNCHANGED batch
                   ELSE pos' = 0 /\ batch' = <<>>
  /\ UNCHANGED pipe
=============================================================================
