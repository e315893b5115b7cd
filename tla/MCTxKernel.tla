------------------------------ MODULE MCTxKernel ------------------------------
(* Two mutexes, each with a name of its own, and what the threads may do.  *)
EXTENDS TxKernel

CONSTANTS t1, t2, t3, m1, m2

BlockName == [m \in Mutexes |-> m]

(* Mutexes alone; a thread that three threads, itself included, suspend and*)
(* resume; three threads that use a mutex, one of which suspends itself and*)
(* is suspended and resumed by another.                                    *)
Few ==
  {[mutexes |-> {m1, m2}, controls |-> {}],
   [mutexes |-> {}, controls |-> Threads \X {t3}],
   [mutexes |-> {m1}, controls |-> {<<t1, t2>>, <<t2, t2>>}]}
===============================================================================
