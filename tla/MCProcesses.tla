---------------------------- MODULE MCProcesses ----------------------------
(* Processes for TLC: a negative argument of Exit, that ExitProcess turns  *)
(* into 0, and a positive one.                                             *)
EXTENDS Processes

NegativeAndPositive == {-1, 1}
=============================================================================
