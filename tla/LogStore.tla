------------------------------ MODULE LogStore ------------------------------
(***************************************************************************)
(* What a log promises (src/common/log.h): the messages added while it is  *)
(* open are written once each, in the order in which they were added, and  *)
(* it is opened again, or its file changed, only after all of them were    *)
(* written.                                                                *)
(***************************************************************************)
EXTENDS Naturals, Sequences

CONSTANTS Files,   \* the files a log may write to
          Messages

VARIABLES accepted, \* the messages taken while the log was open
          written,  \* those written so far
          open, file

vars == <<accepted, written, open, file>>

Init ==
  /\ accepted = <<>> /\ written = <<>>
  /\ open = TRUE
  /\ file \in Files

Add(m) == open /\ accepted' = Append(accepted, m) /\ UNCHANGED <<written, open, file>>

Write ==
  /\ Len(written) < Len(accepted)
  /\ written' = Append(written, accepted[Len(written) + 1])
  /\ UNCHANGED <<accepted, open, file>>

Close == open /\ open' = FALSE /\ UNCHANGED <<accepted, written, file>>

Reopen(f) ==
  /\ ~open /\ written = accepted
  /\ open' = TRUE /\ file' = f
  /\ UNCHANGED <<accepted, written>>

Next == Write \/ Close \/ (\E m \in Messages : Add(m)) \/ (\E f \in Files : Reopen(f))

Spec == Init /\ [][Next]_vars
=============================================================================
