----------------------------- MODULE MCKvCache -----------------------------
(* Finite instances of KvCache for TLC: ranges and limits of the runs.     *)
EXTENDS KvCache

None == {}
All == {<<-1, -1>>}
Suffixes == {<<-1, -1>>, <<1, -1>>, <<2, -1>>}
Parts == {<<-1, -1>>, <<1, -1>>, <<0, 1>>, <<1, 2>>}
Tails == {<<-1, -1>>, <<1, -1>>}
Ends == {<<-1, -1>>, <<0, 1>>}
Halves == {2}
Left == {-1}
=============================================================================
