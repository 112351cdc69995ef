---------------------------- MODULE MCThreadPool ----------------------------
(* Finite instances of ThreadPool for TLC: the graphs of the runs.         *)
EXTENDS ThreadPool

One == {<<"mm", "nop", "op", "nop">>}
=============================================================================
