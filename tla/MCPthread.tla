------------------------------ MODULE MCPthread ------------------------------
(* Threads, handles and mutexes are interchangeable; slots are searched in   *)
(* order and are not.                                                        *)
EXTENDS Pthread, TLC

MCSymmetry == Permutations(Threads) \cup Permutations(Handles)
=============================================================================
