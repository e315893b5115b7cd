----------------------------- MODULE TxEventFlags -----------------------------
(***************************************************************************)
(* The event flags group of threadx_glue/glue.c: a flag word and a Windows *)
(* critical section.  _tx_event_flags_get polls: it enters the critical    *)
(* section, reads the word into a local, perhaps writes the word back with *)
(* the requested flags cleared, leaves, yields, and looks at the clock.    *)
(* _tx_event_flags_set updates the word under the same critical section.   *)
(* Every access to shared state is a step of its own.  An operator whose   *)
(* name starts with Mut is a broken variant of the definition that follows *)
(* it; no specification uses it.                                           *)
(***************************************************************************)
EXTENDS TxApi

CONSTANTS
  Threads,    (* the threads that use the group                           *)
  NoThread,   (* the owner of a free critical section                     *)
  Requests,   (* the calls the threads make                               *)
  LastTick    (* GetTickCount stops here, unless this is ULONG_MAX: then  *)
              (* the counter wraps to 0, as it does after 49.7 days       *)

NoStatus == "none"

NoRequest == [op |-> "none", flags |-> {}, option |-> TX_OR, wait |-> TX_NO_WAIT]

ASSUME ThreadAssumption == NoThread \notin Threads
ASSUME RequestAssumption ==
  Requests \subseteq [op     : {"get", "set"},
                      flags  : SUBSET Flags,
                      option : Options,
                      wait   : 0 .. ULONG_MAX]
ASSUME ClockAssumption == LastTick \in 0 .. ULONG_MAX

VARIABLES
  created,    (* tx_event_flags_group_id holds TX_EVENT_FLAGS_ID          *)
  current,    (* tx_event_flags_group_current                             *)
  c,          (* the owner of the critical section                        *)
  now,        (* what GetTickCount returns                                *)
  pc,         (* where each thread is                                     *)
  req,        (* the arguments of its last call                           *)
  timeout,    (* its local of that name                                   *)
  seen,       (* the word it read last: *actual_flags_ptr, and            *)
              (* current_flags until the clear                            *)
  satisfied,  (* flags_satisfied of its last call                         *)
  result,     (* the status its last call returned, once it has           *)
  edge        (* history, read by the properties only: its last call was  *)
              (* a get and met the greatest value of the counter          *)

locals == <<timeout, seen, satisfied, result>>
vars == <<created, current, c, now, pc, req, timeout, seen, satisfied, result, edge>>

GetSection == {"get_read", "get_clear", "get_leave"}
SetSection == {"set_read", "set_write", "set_leave"}
Section    == GetSection \cup SetSection
Labels     == {"idle", "get_enter", "get_test", "get_return", "set_enter"} \cup Section

Init ==
  /\ created = FALSE
  /\ current = {}
  /\ c = NoThread
  /\ now = 0
  /\ pc = [t \in Threads |-> "idle"]
  /\ req = [t \in Threads |-> NoRequest]
  /\ timeout = [t \in Threads |-> 0]
  /\ seen = [t \in Threads |-> {}]
  /\ satisfied = [t \in Threads |-> {}]
  /\ result = [t \in Threads |-> NoStatus]
  /\ edge = [t \in Threads |-> FALSE]

Goto(t, label) == pc' = [pc EXCEPT ![t] = label]

(* The locals end with the call; flags_satisfied is kept for the           *)
(* properties, which compare it with the status.                           *)
Forget(t) ==
  /\ timeout' = [timeout EXCEPT ![t] = 0]
  /\ seen' = [seen EXCEPT ![t] = {}]

(***************************************************************************)
(* The group's life.  The callers create a group before they use it and    *)
(* delete it when no call is in progress.                                  *)
(***************************************************************************)
Create ==
  /\ ~created
  /\ created' = TRUE
  /\ current' = {}
  /\ c' = NoThread
  /\ UNCHANGED <<now, pc, req, locals, edge>>

Delete ==
  /\ created
  /\ \A t \in Threads : pc[t] = "idle"
  /\ created' = FALSE
  /\ UNCHANGED <<current, c, now, pc, req, locals, edge>>

(***************************************************************************)
(* _tx_event_flags_get                                                     *)
(***************************************************************************)

(* The values of the local timeout once the two assignments are done.  For *)
(* a wait that is neither forever nor none it is read uninitialized.       *)
MutTimeoutsNotTruncated(wait) == {now + wait}
MutTimeoutsForeverUnset(wait) ==
  IF wait = TX_NO_WAIT THEN {now} ELSE 0 .. ULONG_MAX
MutTimeoutsNoWaitIsForever(wait) ==
  IF wait \in {TX_WAIT_FOREVER, TX_NO_WAIT} THEN {INFINITE} ELSE 0 .. ULONG_MAX

Timeouts(wait) ==
  CASE wait = TX_WAIT_FOREVER -> {INFINITE}
    [] wait = TX_NO_WAIT      -> {now}
    [] OTHER                  -> 0 .. ULONG_MAX

GetCall(t, r) ==
  /\ created
  /\ pc[t] = "idle"
  /\ r.op = "get"
  /\ Goto(t, "get_enter")
  /\ req' = [req EXCEPT ![t] = r]
  /\ \E x \in Timeouts(r.wait) : timeout' = [timeout EXCEPT ![t] = x]
  /\ satisfied' = [satisfied EXCEPT ![t] = {}]
  /\ result' = [result EXCEPT ![t] = NoStatus]
  /\ edge' = [edge EXCEPT ![t] = now = ULONG_MAX]
  /\ UNCHANGED <<created, current, c, now, seen>>

GetEnter(t) ==
  /\ pc[t] = "get_enter"
  /\ c = NoThread
  /\ c' = t
  /\ Goto(t, "get_read")
  /\ UNCHANGED <<created, current, now, req, locals, edge>>

GetRead(t) ==
  LET hit == Satisfying(current, req[t].flags, req[t].option)
  IN /\ pc[t] = "get_read"
     /\ seen' = [seen EXCEPT ![t] = current]
     /\ satisfied' = [satisfied EXCEPT ![t] = hit]
     /\ Goto(t, IF hit # {} /\ Clears(req[t].option) THEN "get_clear" ELSE "get_leave")
     /\ UNCHANGED <<created, current, c, now, req, timeout, result, edge>>

MutGetClearAll(t) ==
  /\ pc[t] = "get_clear"
  /\ current' = {}
  /\ Goto(t, "get_leave")
  /\ UNCHANGED <<created, c, now, req, locals, edge>>

GetClear(t) ==
  /\ pc[t] = "get_clear"
  /\ current' = seen[t] \ req[t].flags
  /\ Goto(t, "get_leave")
  /\ UNCHANGED <<created, c, now, req, locals, edge>>

GetLeave(t) ==
  /\ pc[t] = "get_leave"
  /\ c' = NoThread
  /\ Goto(t, "get_test")
  /\ UNCHANGED <<created, current, now, req, locals, edge>>

(* while (!flags_satisfied && (GetTickCount() < timeout))                  *)
GoesOn(t) == satisfied[t] = {} /\ now < timeout[t]

MutGetTestSpins(t) ==
  /\ pc[t] = "get_test"
  /\ Goto(t, IF GoesOn(t) THEN "get_test" ELSE "get_return")
  /\ UNCHANGED <<created, current, c, now, req, locals, edge>>

GetTest(t) ==
  /\ pc[t] = "get_test"
  /\ Goto(t, IF GoesOn(t) THEN "get_enter" ELSE "get_return")
  /\ UNCHANGED <<created, current, c, now, req, locals, edge>>

(* The status looks at the clock again and never at flags_satisfied.       *)
MutStatusOffByOne(t) == IF now > timeout[t] THEN TX_NO_EVENTS ELSE TX_SUCCESS

Status(t) == IF now >= timeout[t] THEN TX_NO_EVENTS ELSE TX_SUCCESS

GetReturn(t) ==
  /\ pc[t] = "get_return"
  /\ result' = [result EXCEPT ![t] = Status(t)]
  /\ Goto(t, "idle")
  /\ Forget(t)
  /\ UNCHANGED <<created, current, c, now, req, satisfied, edge>>

(***************************************************************************)
(* _tx_event_flags_set                                                     *)
(***************************************************************************)
SetCall(t, r) ==
  /\ created
  /\ pc[t] = "idle"
  /\ r.op = "set"
  /\ Goto(t, "set_enter")
  /\ req' = [req EXCEPT ![t] = r]
  /\ satisfied' = [satisfied EXCEPT ![t] = {}]
  /\ result' = [result EXCEPT ![t] = NoStatus]
  /\ edge' = [edge EXCEPT ![t] = FALSE]
  /\ UNCHANGED <<created, current, c, now, timeout, seen>>

MutSetEnterUnlocked(t) ==
  /\ pc[t] = "set_enter"
  /\ Goto(t, "set_read")
  /\ UNCHANGED <<created, current, c, now, req, locals, edge>>

SetEnter(t) ==
  /\ pc[t] = "set_enter"
  /\ c = NoThread
  /\ c' = t
  /\ Goto(t, "set_read")
  /\ UNCHANGED <<created, current, now, req, locals, edge>>

SetRead(t) ==
  /\ pc[t] = "set_read"
  /\ seen' = [seen EXCEPT ![t] = current]
  /\ Goto(t, "set_write")
  /\ UNCHANGED <<created, current, c, now, req, timeout, satisfied, result, edge>>

SetWrite(t) ==
  /\ pc[t] = "set_write"
  /\ current' = Updated(seen[t], req[t].flags, req[t].option)
  /\ Goto(t, "set_leave")
  /\ UNCHANGED <<created, c, now, req, locals, edge>>

SetLeave(t) ==
  /\ pc[t] = "set_leave"
  /\ c' = NoThread
  /\ result' = [result EXCEPT ![t] = TX_SUCCESS]
  /\ Goto(t, "idle")
  /\ Forget(t)
  /\ UNCHANGED <<created, current, now, req, satisfied, edge>>

(* The millisecond counter, a DWORD: it wraps when LastTick allows it.     *)
Tick ==
  /\ now < LastTick \/ LastTick = ULONG_MAX
  /\ now' = IF now = ULONG_MAX THEN 0 ELSE now + 1
  /\ edge' = [t \in Threads |->
                edge[t] \/ (pc[t] # "idle" /\ req[t].op = "get" /\ now' = ULONG_MAX)]
  /\ UNCHANGED <<created, current, c, pc, req, locals>>

Step(t) ==
  \/ GetEnter(t) \/ GetRead(t) \/ GetClear(t) \/ GetLeave(t) \/ GetTest(t) \/ GetReturn(t)
  \/ SetEnter(t) \/ SetRead(t) \/ SetWrite(t) \/ SetLeave(t)

Next ==
  \/ Create
  \/ Delete
  \/ Tick
  \/ \E t \in Threads :
       \/ \E r \in Requests : GetCall(t, r) \/ SetCall(t, r)
       \/ Step(t)

Spec == Init /\ [][Next]_vars

(***************************************************************************)
(* The kernel goes on running a thread that is inside a call, and a free   *)
(* critical section is handed to its waiters in turn.  Nothing makes a     *)
(* thread call, nor the clock advance.                                     *)
(***************************************************************************)
Fairness ==
  \A t \in Threads :
    /\ WF_vars(Step(t))
    /\ SF_vars(GetEnter(t) \/ SetEnter(t))

FairSpec == Spec /\ Fairness
-------------------------------------------------------------------------------
(***************************************************************************)
(* Safety                                                                  *)
(***************************************************************************)

TypeOK ==
  /\ created \in BOOLEAN
  /\ current \in SUBSET Flags
  /\ c \in Threads \cup {NoThread}
  /\ now \in 0 .. LastTick
  /\ pc \in [Threads -> Labels]
  /\ req \in [Threads -> Requests \cup {NoRequest}]
  /\ timeout \in [Threads -> 0 .. ULONG_MAX]
  /\ seen \in [Threads -> SUBSET Flags]
  /\ satisfied \in [Threads -> SUBSET Flags]
  /\ result \in [Threads -> {TX_SUCCESS, TX_NO_EVENTS, NoStatus}]
  /\ edge \in [Threads -> BOOLEAN]

(* Who is between EnterCriticalSection and LeaveCriticalSection owns it.   *)
SectionOwned == \A t \in Threads : pc[t] \in Section <=> c = t

(* A local copy that is about to be written back, or that was just taken   *)
(* from the word, is still the word: no update came in between.            *)
CopyIsFresh ==
  \A t \in Threads : pc[t] \in {"get_clear", "set_write"} => seen[t] = current

(* A group that does not exist is not in use.                              *)
UnusedWhenDeleted == ~created => \A t \in Threads : pc[t] = "idle"

(* What each point of a call has established: a clear follows a satisfied  *)
(* poll, a new poll an unsatisfied one.                                    *)
CallShape ==
  \A t \in Threads :
    /\ pc[t] \in GetSection \cup {"get_enter", "get_test", "get_return"} => req[t].op = "get"
    /\ pc[t] \in SetSection \cup {"set_enter"} => req[t].op = "set" /\ satisfied[t] = {}
    /\ pc[t] \in {"get_enter", "get_read"} => satisfied[t] = {}
    /\ pc[t] = "get_clear" =>
         /\ Clears(req[t].option)
         /\ satisfied[t] # {}
         /\ satisfied[t] = Satisfying(seen[t], req[t].flags, req[t].option)

(* The inductive invariant of the word and its critical section.           *)
SectionInv == TypeOK /\ SectionOwned /\ CopyIsFresh /\ UnusedWhenDeleted /\ CallShape

Returned(t, wait) == pc[t] = "idle" /\ req[t].op = "get" /\ req[t].wait \in wait

(***************************************************************************)
(* A caller that is told TX_SUCCESS has its flags: whenever a get returns  *)
(* TX_SUCCESS its last poll was satisfied.  The return expression reads    *)
(* only the clock, a second time and outside the critical section.  The    *)
(* one exception is a call during which the counter stood at its greatest  *)
(* value: it may leave the loop without flags there, and find the clock    *)
(* before its deadline again once the counter has wrapped.                 *)
(***************************************************************************)
SuccessMeansSatisfied ==
  \A t \in Threads :
    Returned(t, 0 .. ULONG_MAX) /\ result[t] = TX_SUCCESS => satisfied[t] # {} \/ edge[t]

(***************************************************************************)
(* A get that waits forever comes back only with its flags, and says so.   *)
(* "Forever" is the deadline INFINITE, compared with a counter that does   *)
(* reach it every 49.7 days.  A wait that is in progress at that tick may  *)
(* end without flags, or with flags and TX_NO_EVENTS; the property says    *)
(* that no other wait does.                                                *)
(***************************************************************************)
ForeverGetIsGranted ==
  \A t \in Threads :
    Returned(t, {TX_WAIT_FOREVER}) => (satisfied[t] # {} /\ result[t] = TX_SUCCESS) \/ edge[t]

(* What a get knows of the clock: a deadline once passed stays passed, and *)
(* INFINITE is never reached, until the counter is at its greatest value.  *)
DeadlineInv ==
  \A t \in Threads :
    /\ pc[t] # "idle" /\ req[t].op = "get" /\ now = ULONG_MAX => edge[t]
    /\ pc[t] = "get_return" /\ satisfied[t] = {} => now >= timeout[t] \/ edge[t]
    /\ pc[t] # "idle" /\ req[t].op = "get" /\ req[t].wait = TX_WAIT_FOREVER
         => timeout[t] = INFINITE

(***************************************************************************)
(* A get that took its flags out of the word tells its caller so: otherwise*)
(* the event is gone and nobody knows of it.                               *)
(***************************************************************************)
TakenMeansSuccess ==
  \A t \in Threads :
    Returned(t, 0 .. ULONG_MAX) /\ Clears(req[t].option) /\ satisfied[t] # {}
      => result[t] = TX_SUCCESS

(***************************************************************************)
(* The group implements the atomic one.  A get takes effect where it       *)
(* writes the word back, or where it reads it when nothing is cleared; a   *)
(* set takes effect at its write.                                          *)
(***************************************************************************)
Phase(t) ==
  CASE pc[t] = "idle"                                        -> "idle"
    [] pc[t] \in {"get_leave", "get_test", "get_return"} /\ satisfied[t] # {}
                                                             -> "granted"
    [] pc[t] = "get_return" /\ satisfied[t] = {}             -> "done"
    [] pc[t] = "set_leave"                                   -> "done"
    [] OTHER                                                 -> "pending"

Got(t) == IF Phase(t) = "granted" THEN seen[t] ELSE {}

Atomic == INSTANCE EventFlags WITH
            phase <- [t \in Threads |-> Phase(t)],
            got   <- [t \in Threads |-> Got(t)]

(* Every flag set reaches at most one clearing get, and none is lost or    *)
(* resurrected by two calls that overlap: the steps of concurrent calls    *)
(* are those of atomic ones.                                               *)
ImplementsAtomicFlags == Atomic!Spec
-------------------------------------------------------------------------------
(***************************************************************************)
(* Liveness                                                                *)
(***************************************************************************)

Waiting(t) == pc[t] \notin {"idle", "get_return"} /\ req[t].op = "get" /\ satisfied[t] = {}
Satisfiable(t) == Satisfying(current, req[t].flags, req[t].option) # {}

(***************************************************************************)
(* A waiter polls on while its flags are missing; flags that are set and   *)
(* stay set end its wait, however busy the other threads keep the section. *)
(***************************************************************************)
StandingFlagsAreSeen ==
  \A t \in Threads : Waiting(t) /\ []Satisfiable(t) ~> ~Waiting(t)

(***************************************************************************)
(* A set, and a get that must not wait, come back, however the threads     *)
(* contend for the section.  A get that must not wait has the tick of its  *)
(* call as its deadline: called at the greatest tick and delayed past the  *)
(* wrap it polls on, and so the gets that met that tick are left out.      *)
(***************************************************************************)
NonWaitingCallsReturn ==
  \A t \in Threads :
    pc[t] # "idle" /\ (req[t].op = "get" => req[t].wait = TX_NO_WAIT)
      ~> pc[t] = "idle" \/ edge[t]
===============================================================================
