------------------------------- MODULE Mutexes -------------------------------
(***************************************************************************)
(* What recursive mutexes promise: one owner at a time, who may get the    *)
(* mutex again and must put it as often; a get that need not wait for ever *)
(* may find another owner; a put by anybody else is an error.  When an     *)
(* owner ends, the next get takes the mutex over and is told of an error.  *)
(***************************************************************************)
EXTENDS Naturals

CONSTANTS Threads, Mutexes, NoThread, NoMutex

VARIABLES
  open,       (* the mutexes that exist                                   *)
  broken,     (* those of them that cannot be used                        *)
  alive,      (* the threads that have not ended                          *)
  lock,       (* the owner of each mutex, and how often it got it         *)
  request,    (* the get each thread is waiting in                        *)
  status      (* what the last call of each thread returned               *)

vars == <<open, broken, alive, lock, request, status>>

Waits == {"none", "some", "forever"}
Free == [owner |-> NoThread, depth |-> 0, abandoned |-> FALSE]
NoRequest == [mutex |-> NoMutex, wait |-> "none"]

Init ==
  /\ open = {} /\ broken = {}
  /\ alive = Threads
  /\ lock = [m \in Mutexes |-> Free]
  /\ request = [t \in Threads |-> NoRequest]
  /\ status = [t \in Threads |-> "none"]

Idle(t) == t \in alive /\ request[t] = NoRequest

Create(m) ==
  /\ m \notin open
  /\ open' = open \cup {m}
  /\ broken' \in {broken, broken \cup {m}}
  /\ UNCHANGED <<alive, lock, request, status>>

Delete(m) ==
  /\ m \in open
  /\ \A t \in Threads : request[t].mutex # m
  /\ open' = open \ {m}
  /\ broken' = broken \ {m}
  /\ lock' = [lock EXCEPT ![m] = Free]
  /\ UNCHANGED <<alive, request, status>>

Get(t, m, w) ==
  /\ Idle(t) /\ m \in open
  /\ request' = [request EXCEPT ![t] = [mutex |-> m, wait |-> w]]
  /\ status' = [status EXCEPT ![t] = "none"]
  /\ UNCHANGED <<open, broken, alive, lock>>

(* The get of a thread is over.                                            *)
Answer(t, s) ==
  /\ request[t] # NoRequest
  /\ t \in alive
  /\ request' = [request EXCEPT ![t] = NoRequest]
  /\ status' = [status EXCEPT ![t] = s]
  /\ UNCHANGED <<open, broken, alive>>

Wanted(t) == request[t].mutex

Grant(t) ==
  /\ Answer(t, IF lock[Wanted(t)].abandoned THEN "TX_MUTEX_ERROR" ELSE "TX_SUCCESS")
  /\ Wanted(t) \notin broken
  /\ lock[Wanted(t)].owner \in {NoThread, t}
  /\ lock' = [lock EXCEPT ![Wanted(t)] =
                [owner |-> t, depth |-> @.depth + 1, abandoned |-> FALSE]]

TimeOut(t) ==
  /\ Answer(t, "TX_NO_INSTANCE")
  /\ Wanted(t) \notin broken
  /\ lock[Wanted(t)].owner \in Threads \ {t}
  /\ request[t].wait # "forever"
  /\ UNCHANGED lock

Fail(t) == Answer(t, "TX_MUTEX_ERROR") /\ Wanted(t) \in broken /\ UNCHANGED lock

Put(t, m) ==
  /\ Idle(t) /\ m \in open
  /\ IF lock[m].owner = t
     THEN /\ lock' = [lock EXCEPT ![m] =
                       IF @.depth = 1 THEN Free
                       ELSE [owner |-> t, depth |-> @.depth - 1, abandoned |-> FALSE]]
          /\ status' = [status EXCEPT ![t] = "TX_SUCCESS"]
     ELSE /\ status' = [status EXCEPT ![t] = "TX_MUTEX_ERROR"]
          /\ UNCHANGED lock
  /\ UNCHANGED <<open, broken, alive, request>>

Exit(t) ==
  /\ Idle(t)
  /\ alive' = alive \ {t}
  /\ lock' = [m \in Mutexes |-> IF lock[m].owner = t THEN [Free EXCEPT !.abandoned = TRUE]
                                ELSE lock[m]]
  /\ UNCHANGED <<open, broken, request, status>>

Next ==
  \/ \E m \in Mutexes : Create(m) \/ Delete(m)
  \/ \E t \in Threads :
       \/ Grant(t) \/ TimeOut(t) \/ Fail(t) \/ Exit(t)
       \/ \E m \in Mutexes : Put(t, m) \/ \E w \in Waits : Get(t, m, w)

Spec == Init /\ [][Next]_vars
===============================================================================
