--------------------------- MODULE MCServerTasks ---------------------------
(* Finite instances of ServerTasks for TLC: three requests; in Requests the*)
(* first one asks for two answers (task 1 with its child 2).               *)
EXTENDS ServerTasks

CONSTANTS a, b, c

Requests == [r \in Reader |-> CASE r = a -> <<1>> [] r = b -> <<3>> [] OTHER -> <<4>>]
OneChild == [t \in TaskId |-> IF t = 1 THEN <<2>> ELSE <<>>]
AllCmpl == [t \in TaskId |-> "cmpl"]
LastIsSlot == [t \in TaskId |-> IF t = 4 THEN "slot" ELSE "cmpl"]
LastOnZero == [t \in TaskId |-> IF t = 4 THEN 0 ELSE -1]
=============================================================================
