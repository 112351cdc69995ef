------------------------------ MODULE MCRouter ------------------------------
(* Finite instances of Router for TLC.                                     *)
EXTENDS Router
=============================================================================
