------------------------- MODULE MCRecurrentMemory -------------------------
(* Finite instances of RecurrentMemory for TLC.                            *)
EXTENDS RecurrentMemory

Cut == {<<-1, -1>>, <<1, -1>>}
Left == {-1}
Halves == {2}
Coupled == {<<2, 1>>}

LiveRows == [g \in Group |-> [c \in Cell |->
  IF mem.src[c] = Nowhere \/ (g > 0 /\ \A s \in mem.seqs[c] : g > kept[s] /\ g # mem.rs_idx[s])
  THEN <<>> ELSE rows[g][c]]]
LiveView == <<mem, kept, todo, saved, LiveRows>>
=============================================================================
