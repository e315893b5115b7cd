----------------------------- MODULE TxSemaphore -----------------------------
(***************************************************************************)
(* The semaphores of threadx_glue/glue.c.  A control block holds a handle  *)
(* to a Windows semaphore and a count of its own beside it.  The Windows   *)
(* semaphores live in one name space: creating one under the name of one   *)
(* that exists gives a handle to that one.  The handle is not checked: when*)
(* CreateSemaphore fails the block is created all the same, and every call *)
(* on it fails.  The glue's count is read and written after the kernel has *)
(* decided, whatever it decided.  An operator whose name starts with Mut is*)
(* a broken variant of the definition after it; no specification uses it.  *)
(***************************************************************************)
EXTENDS Naturals, FiniteSets

CONSTANTS
  Threads,    (* the threads that use the semaphores                      *)
  Sems,       (* the control blocks                                       *)
  NoSem,      (* the control block of a thread that is not calling        *)
  Names,      (* the names of the kernel objects                          *)
  NameOf,     (* the name each block is created under                     *)
  MaxCount,   (* the maximum count, 4096 in the code                      *)
  Initials,   (* the initial counts                                       *)
  UlongSize   (* 2^32: tx_semaphore_count is a ULONG                      *)

ASSUME SemaphoreAssumption ==
  /\ NoSem \notin Sems /\ IsFiniteSet(Sems)
  /\ NameOf \in [Sems -> Names]
  /\ MaxCount \in Nat \ {0}
  /\ Initials \subseteq 0 .. MaxCount
  /\ UlongSize \in Nat /\ UlongSize > MaxCount

VARIABLES
  open,       (* the blocks created and not deleted                       *)
  broken,     (* those of them whose handle is null                       *)
  handles,    (* per name: how many handles its kernel object has         *)
  count,      (* per name: the count of its kernel object                 *)
  tx_count,   (* tx_semaphore_count of each block                         *)
  pc,         (* where each thread is                                     *)
  call,       (* its block, wait_option and locals                        *)
  status      (* what its last call returned, once it has                 *)

vars == <<open, broken, handles, count, tx_count, pc, call, status>>

Waits == {"none", "some", "forever"}
Fresh(s, w) == [sem |-> s, wait |-> w, outcome |-> "none", read |-> 0]
Idle == Fresh(NoSem, "none")

Init ==
  /\ open = {} /\ broken = {}
  /\ handles = [x \in Names |-> 0]
  /\ count = [x \in Names |-> 0]
  /\ tx_count = [s \in Sems |-> 0]
  /\ pc = [t \in Threads |-> "idle"]
  /\ call = [t \in Threads |-> Idle]
  /\ status = [t \in Threads |-> "none"]

Goto(t, label) == pc' = [pc EXCEPT ![t] = label]
Object(t) == NameOf[call[t].sem]
Unused(s) == \A t \in Threads : call[t].sem # s

(* The first handle creates the object; the last one takes it away.        *)
CountAfterOpen(s, n) == IF handles[NameOf[s]] = 0 THEN n ELSE count[NameOf[s]]

(* Whether CreateSemaphore succeeds or not, the answer is TX_SUCCESS.      *)
Create(s, n) ==
  /\ s \notin open
  /\ open' = open \cup {s}
  /\ \/ /\ handles' = [handles EXCEPT ![NameOf[s]] = @ + 1]
        /\ count' = [count EXCEPT ![NameOf[s]] = CountAfterOpen(s, n)]
        /\ UNCHANGED broken
     \/ broken' = broken \cup {s} /\ UNCHANGED <<handles, count>>
  /\ tx_count' = [tx_count EXCEPT ![s] = n]
  /\ UNCHANGED <<pc, call, status>>

MutDeleteLeaks(s) ==
  /\ s \in open /\ Unused(s)
  /\ open' = open \ {s} /\ broken' = broken \ {s}
  /\ UNCHANGED <<handles, count, tx_count, pc, call, status>>

(* The callers delete a semaphore only when nobody is using it.            *)
Delete(s) ==
  /\ s \in open /\ Unused(s)
  /\ open' = open \ {s} /\ broken' = broken \ {s}
  /\ handles' = IF s \in broken THEN handles ELSE [handles EXCEPT ![NameOf[s]] = @ - 1]
  /\ UNCHANGED <<count, tx_count, pc, call, status>>

Begin(t, label, s, w) ==
  /\ pc[t] = "idle"
  /\ s \in open
  /\ Goto(t, label)
  /\ call' = [call EXCEPT ![t] = Fresh(s, w)]
  /\ status' = [status EXCEPT ![t] = "none"]
  /\ UNCHANGED <<open, broken, handles, count, tx_count>>

GetCall(t, s, w) == Begin(t, "get_wait", s, w)
PutCall(t, s)    == Begin(t, "put_release", s, "none")

(* WaitForSingleObject: WAIT_OBJECT_0, or WAIT_TIMEOUT.                    *)
GetTaken(t) ==
  /\ pc[t] = "get_wait" /\ call[t].sem \notin broken
  /\ count[Object(t)] > 0
  /\ count' = [count EXCEPT ![Object(t)] = @ - 1]
  /\ call' = [call EXCEPT ![t].outcome = "taken"]
  /\ Goto(t, "get_read")
  /\ UNCHANGED <<open, broken, handles, tx_count, status>>

GetTimesOut(t) ==
  /\ pc[t] = "get_wait" /\ call[t].sem \notin broken
  /\ count[Object(t)] = 0 /\ call[t].wait # "forever"
  /\ call' = [call EXCEPT ![t].outcome = "timeout"]
  /\ Goto(t, "get_read")
  /\ UNCHANGED <<open, broken, handles, count, tx_count, status>>

(* A wait for the null handle, or a release of it.                         *)
CallFails(t) ==
  /\ pc[t] \in {"get_wait", "put_release"} /\ call[t].sem \in broken
  /\ call' = [call EXCEPT ![t].outcome = "failed"]
  /\ Goto(t, IF pc[t] = "get_wait" THEN "get_read" ELSE "put_read")
  /\ UNCHANGED <<open, broken, handles, count, tx_count, status>>

(* ReleaseSemaphore by one, which fails at the maximum.                    *)
PutRelease(t) ==
  /\ pc[t] = "put_release" /\ call[t].sem \notin broken
  /\ IF count[Object(t)] < MaxCount
     THEN /\ count' = [count EXCEPT ![Object(t)] = @ + 1]
          /\ call' = [call EXCEPT ![t].outcome = "released"]
     ELSE /\ call' = [call EXCEPT ![t].outcome = "refused"]
          /\ UNCHANGED count
  /\ Goto(t, "put_read")
  /\ UNCHANGED <<open, broken, handles, tx_count, status>>

(* tx_semaphore_count-- and tx_semaphore_count++                           *)
ReadCount(t) ==
  /\ pc[t] \in {"get_read", "put_read"}
  /\ call' = [call EXCEPT ![t].read = tx_count[call[t].sem]]
  /\ Goto(t, IF pc[t] = "get_read" THEN "get_write" ELSE "put_write")
  /\ UNCHANGED <<open, broken, handles, count, tx_count, status>>

MutChangedCountNoWrap(t) ==
  IF pc[t] = "get_write" THEN call[t].read - 1 ELSE call[t].read + 1
ChangedCount(t) ==
  (call[t].read + (IF pc[t] = "get_write" THEN UlongSize - 1 ELSE 1)) % UlongSize

WriteCount(t) ==
  /\ pc[t] \in {"get_write", "put_write"}
  /\ tx_count' = [tx_count EXCEPT ![call[t].sem] = ChangedCount(t)]
  /\ Goto(t, IF pc[t] = "get_write" THEN "get_return" ELSE "put_return")
  /\ UNCHANGED <<open, broken, handles, count, call, status>>

(* The statuses.  A put without a handle and one that finds the semaphore  *)
(* full are told the same.                                                 *)
MutGetStatusTimeoutIsSuccess(outcome) ==
  IF outcome = "failed" THEN "TX_MUTEX_ERROR" ELSE "TX_SUCCESS"

GetStatus(outcome) ==
  CASE outcome = "taken"   -> "TX_SUCCESS"
    [] outcome = "timeout" -> "TX_NO_INSTANCE"
    [] OTHER               -> "TX_MUTEX_ERROR"

MutPutStatusHidesFull(outcome) ==
  IF outcome = "failed" THEN "TX_SEMAPHORE_ERROR" ELSE "TX_SUCCESS"

PutStatus(outcome) == IF outcome = "released" THEN "TX_SUCCESS" ELSE "TX_SEMAPHORE_ERROR"

Return(t) ==
  /\ pc[t] \in {"get_return", "put_return"}
  /\ status' = [status EXCEPT ![t] = IF pc[t] = "get_return" THEN GetStatus(call[t].outcome)
                                                           ELSE PutStatus(call[t].outcome)]
  /\ Goto(t, "idle")
  /\ call' = [call EXCEPT ![t] = Idle]
  /\ UNCHANGED <<open, broken, handles, count, tx_count>>

Step(t) ==
  \/ GetTaken(t) \/ GetTimesOut(t) \/ CallFails(t) \/ PutRelease(t)
  \/ ReadCount(t) \/ WriteCount(t) \/ Return(t)

Next ==
  \/ \E s \in Sems : Delete(s) \/ \E n \in Initials : Create(s, n)
  \/ \E t \in Threads :
       \/ \E s \in Sems : PutCall(t, s) \/ \E w \in Waits : GetCall(t, s, w)
       \/ Step(t)

Spec == Init /\ [][Next]_vars
-------------------------------------------------------------------------------
(* What the kernel may answer, and what the caller may be told.            *)
Outcomes == {"none", "taken", "timeout", "released", "refused", "failed"}
Statuses == {"none", "TX_SUCCESS", "TX_NO_INSTANCE", "TX_MUTEX_ERROR", "TX_SEMAPHORE_ERROR"}
Labels == {"idle", "get_wait", "put_release", "get_read", "put_read", "get_write",
           "put_write", "get_return", "put_return"}

TypeOK ==
  /\ open \subseteq Sems /\ broken \subseteq open
  /\ handles \in [Names -> Nat]
  /\ count \in [Names -> 0 .. MaxCount]
  /\ tx_count \in [Sems -> 0 .. UlongSize - 1]
  /\ pc \in [Threads -> Labels]
  /\ call \in [Threads -> [sem : Sems \cup {NoSem}, wait : Waits, outcome : Outcomes,
                           read : 0 .. UlongSize - 1]]
  /\ status \in [Threads -> Statuses]
  /\ \A t \in Threads : pc[t] # "idle" => call[t].sem \in open

(***************************************************************************)
(* A kernel object has one handle for each block of its name: none         *)
(* leaks over create and delete, and none is closed that another block     *)
(* still waits on.                                                         *)
(***************************************************************************)
Holders(x) == {s \in open \ broken : NameOf[s] = x}

HandlesCounted == \A x \in Names : handles[x] = Cardinality(Holders(x))

(***************************************************************************)
(* With a name for each block the semaphores are independent: a block that *)
(* is created starts with its own initial count, a token put to one is     *)
(* taken from that one only, and the status says what became of the call.  *)
(***************************************************************************)
PhaseOf(t) ==
  CASE pc[t] = "idle"        -> "idle"
    [] pc[t] = "get_wait"    -> "get"
    [] pc[t] = "put_release" -> "put"
    [] OTHER -> CASE call[t].outcome = "taken"    -> "granted"
                  [] call[t].outcome = "timeout"  -> "empty"
                  [] call[t].outcome = "released" -> "added"
                  [] call[t].outcome = "failed"   -> "failed"
                  [] OTHER                        -> "full"

Meaning(s) ==
  CASE s = "none"                                      -> "none"
    [] s = "TX_SUCCESS"                                -> "done"
    [] s = "TX_NO_INSTANCE"                            -> "nothing"
    [] s \in {"TX_MUTEX_ERROR", "TX_SEMAPHORE_ERROR"} -> "error"

Counting == INSTANCE Semaphores WITH
  dead   <- broken,
  tokens <- [s \in Sems |-> IF s \in open \ broken THEN count[NameOf[s]] ELSE 0],
  calls  <- [t \in Threads |-> [phase |-> PhaseOf(t), sem |-> call[t].sem,
                                wait |-> call[t].wait]],
  told   <- [t \in Threads |-> Meaning(status[t])]

ImplementsSemaphores == Counting!Spec
===============================================================================
