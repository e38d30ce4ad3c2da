------------------------------ MODULE MCQueue ------------------------------
(***************************************************************************)
(* TLC instances of Queue.                                                 *)
(***************************************************************************)
EXTENDS Queue, TLC

\* Goroutines, messages and addresses are interchangeable.
QueueSymmetry ==
    Permutations(Workers) \cup Permutations(Rcpts) \cup Permutations(Msgs)
=============================================================================
