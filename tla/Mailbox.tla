------------------------------ MODULE Mailbox ------------------------------
(***************************************************************************)
(* What a NodeAdapter promises: the commands it accepts are handled one at *)
(* a time, in the order they were accepted, each once; a command is lost   *)
(* only when the box is full (a step that changes nothing here); and the   *)
(* adapter closes only when no command from the network waits, but for one *)
(* per command of those that stop it (SETUP posted by another thread).     *)
(***************************************************************************)
EXTENDS Naturals, Sequences, FiniteSets

CONSTANTS Capacity,     \* the most commands waiting
          Command,      \* commands
          FromNetwork,  \* the commands that arrived on the node's socket
          Stopping,     \* the commands behind which it does not look on in the box
          Nothing       \* no command

VARIABLES box,          \* commands accepted and waiting, oldest first
          current,      \* the command being handled
          closed,       \* the handling thread is gone
          stopped       \* how many of Stopping it has taken

mailVars == <<box, current, closed, stopped>>

MailInit ==
  box = <<>> /\ current = Nothing /\ closed = FALSE /\ stopped = 0

Accept(c) ==
  /\ Len(box) < Capacity
  /\ box' = Append(box, c)
  /\ UNCHANGED <<current, closed, stopped>>

Take ==
  /\ ~closed /\ current = Nothing /\ box # <<>>
  /\ current' = Head(box)
  /\ box' = Tail(box)
  /\ stopped' = IF Head(box) \in Stopping THEN stopped + 1 ELSE stopped
  /\ UNCHANGED closed

Finish ==
  /\ current # Nothing
  /\ current' = Nothing
  /\ UNCHANGED <<box, closed, stopped>>

Close ==
  /\ ~closed /\ current = Nothing
  /\ Cardinality({i \in 1 .. Len(box) : box[i] \in FromNetwork}) <= stopped
  /\ closed' = TRUE
  /\ UNCHANGED <<box, current, stopped>>

MailNext == (\E c \in Command : Accept(c)) \/ Take \/ Finish \/ Close

\* What is promised step by step, and that what waits is handled.
MailSafety == MailInit /\ [][MailNext]_mailVars

MailSpec == MailSafety /\ WF_mailVars(Take) /\ WF_mailVars(Finish)
=============================================================================
