----------------------------- MODULE MCKvState -----------------------------
(* Finite instances of KvState for TLC: ranges of the runs.                *)
EXTENDS KvState

Nowhere == {}
Everywhere == {<<-1, -1>>}
Suffixes == {<<-1, -1>>, <<1, -1>>}
Left == {-1}
=============================================================================
