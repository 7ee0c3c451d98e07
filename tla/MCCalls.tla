------------------------------ MODULE MCCalls ------------------------------
(* Instances of Calls for TLC.                                             *)
EXTENDS Calls, TLC

(* The calls of the server are alike, those of the client are not: one is  *)
(* made by a method that the worker runs.                                  *)
Symmetry == Permutations(ServerCalls)
=============================================================================
