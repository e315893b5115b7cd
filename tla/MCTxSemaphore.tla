---------------------------- MODULE MCTxSemaphore ----------------------------
(* Two semaphores, each with a name of its own.  The threads are alike.    *)
EXTENDS TxSemaphore, TLC
CONSTANTS s1, s2, name1, name2
OwnNames == [s \in Sems |-> IF s = s1 THEN name1 ELSE name2]
ThreadSymmetry == Permutations(Threads)
==============================================================================
