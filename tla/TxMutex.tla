------------------------------- MODULE TxMutex -------------------------------
(***************************************************************************)
(* The mutexes of threadx_glue/glue.c.  A control block holds a handle to  *)
(* a Windows mutex.  The Windows mutexes live in one name space: creating  *)
(* one under the name of one that exists gives a handle to that one.  The  *)
(* handle is not checked: when CreateMutexA fails the block is created all *)
(* the same, and every call on it fails.  The kernel keeps the owner, and  *)
(* marks a mutex abandoned when the owner ends.  An operator whose name    *)
(* starts with Mut is a broken variant of the definition after it; no      *)
(* specification uses it.                                                  *)
(***************************************************************************)
EXTENDS Naturals, FiniteSets

CONSTANTS
  Threads,    (* the threads that use the mutexes                         *)
  NoThread,   (* the owner of a mutex nobody owns                         *)
  Mutexes,    (* the control blocks                                       *)
  NoMutex,    (* the control block of a thread that is not in a get       *)
  Names,      (* the names of the kernel objects                          *)
  NameOf,     (* the name each block is created under                     *)
  MaxDepth    (* bound: how often a thread gets a mutex it already owns   *)

ASSUME MutexAssumption ==
  /\ NoThread \notin Threads
  /\ NoMutex \notin Mutexes /\ IsFiniteSet(Mutexes)
  /\ NameOf \in [Mutexes -> Names]
  /\ MaxDepth \in Nat \ {0}

VARIABLES
  open,       (* the blocks created and not deleted                       *)
  broken,     (* those of them whose handle is null                       *)
  handles,    (* per name: how many handles its kernel object has         *)
  object,     (* per name: its owner, depth, and whether it is abandoned  *)
  alive,      (* the threads that have not ended                          *)
  request,    (* mutex_ptr and wait_option of the get a thread is in      *)
  status,     (* what the last call of each thread returned               *)
  held,       (* history: how often each thread has been told it got a    *)
              (* mutex, less how often it was told it put it              *)
  bequeathed  (* history: some thread ended while it owned a mutex        *)

mutex_vars == <<open, broken, handles, object, request, status, held, bequeathed>>
vars == <<mutex_vars, alive>>

Waits == {"none", "some", "forever"}
Free == [owner |-> NoThread, depth |-> 0, abandoned |-> FALSE]
NoRequest == [mutex |-> NoMutex, wait |-> "none"]
NothingHeld == [m \in Mutexes |-> 0]

Init ==
  /\ open = {} /\ broken = {}
  /\ handles = [x \in Names |-> 0]
  /\ object = [x \in Names |-> Free]
  /\ alive = Threads
  /\ request = [t \in Threads |-> NoRequest]
  /\ status = [t \in Threads |-> "none"]
  /\ held = [t \in Threads |-> NothingHeld]
  /\ bequeathed = FALSE

Idle(t) == t \in alive /\ request[t] = NoRequest
Unused(m) == \A t \in Threads : request[t].mutex # m

(* Whether CreateMutexA succeeds or not, the answer is TX_SUCCESS.         *)
Create(m) ==
  /\ m \notin open
  /\ open' = open \cup {m}
  /\ \/ handles' = [handles EXCEPT ![NameOf[m]] = @ + 1] /\ UNCHANGED broken
     \/ broken' = broken \cup {m} /\ UNCHANGED handles
  /\ UNCHANGED <<object, alive, request, status, held, bequeathed>>

MutDeleteLeaks(m) ==
  /\ m \in open /\ Unused(m)
  /\ open' = open \ {m}
  /\ broken' = broken \ {m}
  /\ held' = [t \in Threads |-> [held[t] EXCEPT ![m] = 0]]
  /\ UNCHANGED <<handles, object, alive, request, status, bequeathed>>

(* The last handle takes the kernel object away, owned or not.  Callers    *)
(* delete a mutex only when no thread is in a get of it.                   *)
Delete(m) ==
  /\ m \in open /\ Unused(m)
  /\ open' = open \ {m}
  /\ broken' = broken \ {m}
  /\ IF m \in broken
     THEN UNCHANGED <<handles, object>>
     ELSE /\ handles' = [handles EXCEPT ![NameOf[m]] = @ - 1]
          /\ object' = IF handles[NameOf[m]] = 1 THEN [object EXCEPT ![NameOf[m]] = Free]
                       ELSE object
  /\ held' = [t \in Threads |-> [held[t] EXCEPT ![m] = 0]]
  /\ UNCHANGED <<alive, request, status, bequeathed>>

GetCall(t, m, w) ==
  /\ Idle(t) /\ m \in open
  /\ object[NameOf[m]].owner = t => object[NameOf[m]].depth < MaxDepth
  /\ request' = [request EXCEPT ![t] = [mutex |-> m, wait |-> w]]
  /\ status' = [status EXCEPT ![t] = "none"]
  /\ UNCHANGED <<open, broken, handles, object, alive, held, bequeathed>>

Name(t) == NameOf[request[t].mutex]

MutStatusTimeoutIsSuccess(result) ==
  IF result \in {"WAIT_OBJECT_0", "WAIT_TIMEOUT"} THEN "TX_SUCCESS" ELSE "TX_MUTEX_ERROR"

Status(result) ==
  CASE result = "WAIT_OBJECT_0" -> "TX_SUCCESS"
    [] result = "WAIT_TIMEOUT"  -> "TX_NO_INSTANCE"
    [] OTHER                    -> "TX_MUTEX_ERROR"

(* The wait of a get is over, and the get returns.                         *)
Answer(t, result) ==
  /\ t \in alive /\ request[t] # NoRequest
  /\ request' = [request EXCEPT ![t] = NoRequest]
  /\ status' = [status EXCEPT ![t] = Status(result)]
  /\ held' = IF Status(result) = "TX_SUCCESS" THEN [held EXCEPT ![t][request[t].mutex] = @ + 1]
             ELSE held
  /\ UNCHANGED <<open, broken, handles, alive, bequeathed>>

MutGetGrantedTwice(t) ==
  /\ Answer(t, IF object[Name(t)].abandoned THEN "WAIT_ABANDONED" ELSE "WAIT_OBJECT_0")
  /\ request[t].mutex \notin broken
  /\ object[Name(t)].owner \in {NoThread, t}
  /\ object' = [object EXCEPT ![Name(t)] =
                  [owner |-> t, depth |-> @.depth + 2, abandoned |-> FALSE]]

(* WaitForSingleObject of a mutex that is free or the thread's own.        *)
GetGranted(t) ==
  /\ Answer(t, IF object[Name(t)].abandoned THEN "WAIT_ABANDONED" ELSE "WAIT_OBJECT_0")
  /\ request[t].mutex \notin broken
  /\ object[Name(t)].owner \in {NoThread, t}
  /\ object' = [object EXCEPT ![Name(t)] =
                  [owner |-> t, depth |-> @.depth + 1, abandoned |-> FALSE]]

MutGetTimesOutAlways(t) ==
  /\ Answer(t, "WAIT_TIMEOUT")
  /\ request[t].mutex \notin broken
  /\ object[Name(t)].owner \in Threads \ {t}
  /\ UNCHANGED object

GetTimesOut(t) ==
  /\ Answer(t, "WAIT_TIMEOUT")
  /\ request[t].mutex \notin broken
  /\ object[Name(t)].owner \in Threads \ {t}
  /\ request[t].wait # "forever"
  /\ UNCHANGED object

(* A wait for the null handle.                                             *)
GetFails(t) ==
  /\ Answer(t, "WAIT_FAILED")
  /\ request[t].mutex \in broken
  /\ UNCHANGED object

(* ReleaseMutex, which only the owner may call.                            *)
Put(t, m) ==
  /\ Idle(t) /\ m \in open
  /\ IF m \notin broken /\ object[NameOf[m]].owner = t
     THEN /\ object' = [object EXCEPT ![NameOf[m]] =
                          IF @.depth = 1 THEN Free ELSE [owner |-> t, depth |-> @.depth - 1, abandoned |-> FALSE]]
          /\ status' = [status EXCEPT ![t] = "TX_SUCCESS"]
          /\ held' = [held EXCEPT ![t][m] = IF @ = 0 THEN 0 ELSE @ - 1]
     ELSE /\ status' = [status EXCEPT ![t] = "TX_MUTEX_ERROR"]
          /\ UNCHANGED <<object, held>>
  /\ UNCHANGED <<open, broken, handles, alive, request, bequeathed>>

(* tx_thread_entry returns, and the kernel abandons what the thread owns.  *)
Owned(t) == {x \in Names : object[x].owner = t}

Exit(t) ==
  /\ Idle(t)
  /\ alive' = alive \ {t}
  /\ object' = [x \in Names |-> IF x \in Owned(t) THEN [Free EXCEPT !.abandoned = TRUE]
                                ELSE object[x]]
  /\ held' = [held EXCEPT ![t] = NothingHeld]
  /\ bequeathed' = (bequeathed \/ Owned(t) # {})
  /\ UNCHANGED <<open, broken, handles, request, status>>

(* What thread t does with the mutexes, short of ending.                   *)
Step(t) ==
  \/ GetGranted(t) \/ GetTimesOut(t) \/ GetFails(t)
  \/ \E m \in Mutexes : Put(t, m) \/ \E w \in Waits : GetCall(t, m, w)

Manage == \E m \in Mutexes : Create(m) \/ Delete(m)

Next == Manage \/ \E t \in Threads : Step(t) \/ Exit(t)

Spec == Init /\ [][Next]_vars
-------------------------------------------------------------------------------
Statuses == {"none", "TX_SUCCESS", "TX_NO_INSTANCE", "TX_MUTEX_ERROR"}

(* The blocks that share the kernel object of a name.                      *)
Holders(x) == {m \in open \ broken : NameOf[m] = x}

HandlesCounted == handles = [x \in Names |-> Cardinality(Holders(x))]

(* A mutex that is owned is owned by a live thread, and is not abandoned.  *)
OwnersLive ==
  \A x \in Names :
    IF object[x].owner = NoThread THEN object[x].depth = 0
    ELSE object[x].owner \in alive /\ object[x].depth > 0 /\ ~object[x].abandoned

(* No handle leaks over create and delete, none is closed that another     *)
(* block still uses, and nobody owns a mutex who has ended.                *)
TypeOK ==
  /\ open \subseteq Mutexes /\ broken \subseteq open
  /\ alive \subseteq Threads
  /\ object \in [Names -> [owner : Threads \cup {NoThread}, depth : 0 .. MaxDepth,
                           abandoned : BOOLEAN]]
  /\ request \in [Threads -> [mutex : Mutexes \cup {NoMutex}, wait : Waits]]
  /\ status \in [Threads -> Statuses]
  /\ held \in [Threads -> [Mutexes -> Nat]]
  /\ bequeathed \in BOOLEAN
  /\ HandlesCounted
  /\ OwnersLive

OwnNames == \A m, n \in Mutexes : NameOf[m] = NameOf[n] => m = n

(***************************************************************************)
(* A thread that counts its gets and puts by the statuses they returned    *)
(* owns the kernel object as often as it thinks, or more often: no status  *)
(* promises a mutex that another thread may be in, though owners end, their*)
(* mutexes are taken over, deleted, created anew, or never came to exist.  *)
(***************************************************************************)
HeldMeansOwned ==
  OwnNames => \A t \in Threads : \A m \in Mutexes :
    held[t][m] > 0 =>
      m \notin broken /\ object[NameOf[m]].owner = t /\ object[NameOf[m]].depth >= held[t][m]

(***************************************************************************)
(* Unless an owner has ended, nobody owns a mutex without having been told *)
(* so: an owner that puts what it was given leaves the mutex free.         *)
(***************************************************************************)
OwnedMeansHeld ==
  OwnNames /\ ~bequeathed => \A m \in open \ broken :
    LET o == object[NameOf[m]]
    IN o.owner # NoThread => held[o.owner][m] = o.depth

(***************************************************************************)
(* With a name for each block the mutexes are independent and recursive.   *)
(***************************************************************************)
Locks == INSTANCE Mutexes WITH
  lock <- [m \in Mutexes |-> IF m \in open \ broken THEN object[NameOf[m]] ELSE Free]

ImplementsMutexes == Locks!Spec
===============================================================================
