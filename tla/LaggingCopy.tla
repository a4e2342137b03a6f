------------------------------ MODULE LaggingCopy ------------------------------
(***************************************************************************)
(* What a book feed promises: the program's copy of a venue's book shows   *)
(* books the venue had, in the order it had them, and falls behind only by *)
(* the messages on their way.  A lost connection loses those messages; the *)
(* copy then stands still until the book is sent again.                    *)
(***************************************************************************)
EXTENDS Sequences

VARIABLES
  truth,    \* the venue's book
  backlog,  \* the books that messages on their way will show
  copy      \* the program's copy

vars == <<truth, backlog, copy>>

\* The venue's book changes, and the change is sent or not.
Change == backlog' \in {backlog, Append(backlog, truth')} /\ UNCHANGED copy

\* The book is sent as it is.
Resend == backlog' = Append(backlog, truth) /\ UNCHANGED <<truth, copy>>

Lose == backlog' = <<>> /\ UNCHANGED <<truth, copy>>

Show ==
  /\ backlog # <<>>
  /\ copy' = Head(backlog)
  /\ backlog' = Tail(backlog)
  /\ UNCHANGED truth

Next == Change \/ Resend \/ Lose \/ Show
=============================================================================
