----------------------------- MODULE MCLogRing ------------------------------
(* Finite instances of LogRing for TLC.                                    *)
EXTENDS LogRing
=============================================================================
