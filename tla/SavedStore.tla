----------------------------- MODULE SavedStore -----------------------------
(***************************************************************************)
(* What saving and restoring promise (eden_state_seq_get_data and the like,*)
(* include/eden.h): a buffer holds what one sequence, or the whole memory, *)
(* held when it was written; reading it into a sequence makes this         *)
(* sequence, and no other, hold the same, or nothing when there is no room.*)
(* A buffer with nothing in it changes nothing.                            *)
(***************************************************************************)
EXTENDS SeqStore

VARIABLE buffer \* of which kind, and the bag of positions of each sequence in it

One(s) == [kind |-> "seq", held |-> [t \in {0} |-> content[s]]]
All == [kind |-> "all", held |-> content]

SaveInit == Init /\ buffer = [kind |-> "seq", held |-> [t \in {0} |-> Nothing]]

Save(s) == buffer' = One(s) /\ UNCHANGED content
SaveAll == buffer' = All /\ UNCHANGED content

Restore(s) ==
  /\ buffer.kind = "seq" /\ buffer.held[0] # Nothing
  /\ \E b \in {buffer.held[0], Nothing} : content' = [content EXCEPT ![s] = b]
  /\ UNCHANGED buffer

RestoreAll ==
  /\ buffer.kind = "all" /\ \E s \in SeqId : buffer.held[s] # Nothing
  /\ content' = buffer.held
  /\ UNCHANGED buffer

SaveNext ==
  \/ Next /\ UNCHANGED buffer
  \/ SaveAll \/ RestoreAll
  \/ \E s \in SeqId : Save(s) \/ Restore(s)

SaveSpec == SaveInit /\ [][SaveNext]_<<content, buffer>>
=============================================================================
