------------------------------ MODULE TxSuspend ------------------------------
(***************************************************************************)
(* Suspending and resuming threads in threadx_glue/glue.c.  The kernel     *)
(* counts the suspends of a thread, which runs while the count is zero; the*)
(* control block holds tx_thread_state and tx_thread_suspending beside it, *)
(* written before and after the kernel is called.  Nothing makes a call    *)
(* one step: the calls of several threads about one thread interleave, and *)
(* a thread that suspends itself stops in the middle of its call.          *)
(* _tx_thread_system_suspend and _tx_thread_system_resume are the same two *)
(* calls.  An operator whose name starts with Mut is a broken variant of   *)
(* the definition after it; no specification uses it.                      *)
(***************************************************************************)
EXTENDS Naturals

CONSTANTS
  Threads,    (* the threads, each with its control block                 *)
  Nobody,     (* the thread a call is about when there is no call         *)
  MaxSuspend  (* the kernel's maximum suspend count, 127                  *)

(* What the module that uses this one assumes.                             *)
SuspendAssumption == Nobody \notin Threads /\ MaxSuspend \in Nat /\ MaxSuspend > 1

VARIABLES
  alive,      (* the threads that have not ended                          *)
  count,      (* the kernel's suspend count of each thread                *)
  state,      (* tx_thread_state: "TX_READY" or "TX_SUSPENDED"            *)
  suspending, (* tx_thread_suspending                                     *)
  control,    (* the suspend or resume each thread is in                  *)
  overlapped, (* history: the last call about a thread began before the   *)
              (* one before it was over                                   *)
  nested      (* history: suspended again since it last ran               *)

vars == <<alive, count, state, suspending, control, overlapped, nested>>

NoControl == [at |-> "idle", thread |-> Nobody]

(* _tx_thread_create: with auto_start, or suspended.                       *)
Init ==
  /\ alive = Threads
  /\ count \in [Threads -> {0, 1}]
  /\ state = [t \in Threads |-> IF count[t] = 0 THEN "TX_READY" ELSE "TX_SUSPENDED"]
  /\ suspending = [t \in Threads |-> FALSE]
  /\ control = [a \in Threads |-> NoControl]
  /\ overlapped = [t \in Threads |-> FALSE]
  /\ nested = [t \in Threads |-> FALSE]

Runs(a) == a \in alive /\ count[a] = 0
At(a, label) == Runs(a) /\ control[a].at = label
Goto(a, label) == control' = [control EXCEPT ![a].at = label]
Finish(a) == control' = [control EXCEPT ![a] = NoControl]
About(a) == control[a].thread
Settled(t) == \A a \in Threads : About(a) # t

Begin(a, t, label) ==
  /\ At(a, "idle")
  /\ control' = [control EXCEPT ![a] = [at |-> label, thread |-> t]]
  /\ overlapped' = [overlapped EXCEPT ![t] = ~Settled(t)]

(***************************************************************************)
(* _tx_thread_suspend                                                      *)
(***************************************************************************)
SuspendCall(a, t) ==
  /\ Begin(a, t, "suspend_kernel")
  /\ suspending' = [suspending EXCEPT ![t] = TRUE]
  /\ UNCHANGED <<alive, count, state, nested>>

(* NtSuspendThread: the thread does not run from here on.                  *)
SuspendKernel(a) ==
  /\ At(a, "suspend_kernel")
  /\ About(a) \in alive /\ count[About(a)] < MaxSuspend
  /\ count' = [count EXCEPT ![About(a)] = @ + 1]
  /\ nested' = [nested EXCEPT ![About(a)] = count[About(a)] > 0]
  /\ Goto(a, "suspend_state")
  /\ UNCHANGED <<alive, state, suspending, overlapped>>

(* It has ended, or is suspended too often: TX_RESUME_ERROR.               *)
SuspendFails(a) ==
  /\ At(a, "suspend_kernel")
  /\ About(a) \notin alive \/ count[About(a)] = MaxSuspend
  /\ Finish(a)
  /\ UNCHANGED <<alive, count, state, suspending, overlapped, nested>>

MutSuspendStateForgotten(a) ==
  /\ At(a, "suspend_state")
  /\ Goto(a, "suspend_flag")
  /\ UNCHANGED <<alive, count, state, suspending, overlapped, nested>>

SuspendState(a) ==
  /\ At(a, "suspend_state")
  /\ state' = [state EXCEPT ![About(a)] = "TX_SUSPENDED"]
  /\ Goto(a, "suspend_flag")
  /\ UNCHANGED <<alive, count, suspending, overlapped, nested>>

SuspendFlag(a) ==
  /\ At(a, "suspend_flag")
  /\ suspending' = [suspending EXCEPT ![About(a)] = FALSE]
  /\ Finish(a)
  /\ UNCHANGED <<alive, count, state, overlapped, nested>>

(***************************************************************************)
(* _tx_thread_resume                                                       *)
(***************************************************************************)
ResumeCall(a, t) ==
  /\ Begin(a, t, "resume_kernel")
  /\ UNCHANGED <<alive, count, state, suspending, nested>>

(* NtResumeThread undoes one suspend, and also succeeds without any.       *)
ResumeKernel(a) ==
  /\ At(a, "resume_kernel")
  /\ About(a) \in alive
  /\ LET n == count[About(a)]
     IN /\ count' = [count EXCEPT ![About(a)] = IF n = 0 THEN 0 ELSE n - 1]
        /\ nested' = [nested EXCEPT ![About(a)] = @ /\ n > 1]
  /\ Goto(a, "resume_state")
  /\ UNCHANGED <<alive, state, suspending, overlapped>>

(* The thread has ended: the kernel may refuse, TX_RESUME_ERROR, or not.   *)
ResumeEnded(a) ==
  /\ At(a, "resume_kernel")
  /\ About(a) \notin alive
  /\ Finish(a) \/ Goto(a, "resume_state")
  /\ UNCHANGED <<alive, count, state, suspending, overlapped, nested>>

ResumeState(a) ==
  /\ At(a, "resume_state")
  /\ state' = [state EXCEPT ![About(a)] = "TX_READY"]
  /\ Goto(a, "resume_flag")
  /\ UNCHANGED <<alive, count, suspending, overlapped, nested>>

ResumeFlag(a) ==
  /\ At(a, "resume_flag")
  /\ suspending' = [suspending EXCEPT ![About(a)] = FALSE]
  /\ Finish(a)
  /\ UNCHANGED <<alive, count, state, overlapped, nested>>

(* tx_thread_entry returns.                                                *)
Exit(t) ==
  /\ At(t, "idle")
  /\ alive' = alive \ {t}
  /\ UNCHANGED <<count, state, suspending, control, overlapped, nested>>

Step(a) ==
  \/ \E t \in Threads : SuspendCall(a, t) \/ ResumeCall(a, t)
  \/ SuspendKernel(a) \/ SuspendFails(a) \/ SuspendState(a) \/ SuspendFlag(a)
  \/ ResumeKernel(a) \/ ResumeEnded(a) \/ ResumeState(a) \/ ResumeFlag(a)

Next == \E a \in Threads : Step(a) \/ Exit(a)

Spec == Init /\ [][Next]_vars
-------------------------------------------------------------------------------
Labels == {"idle", "suspend_kernel", "suspend_state", "suspend_flag", "resume_kernel",
           "resume_state", "resume_flag"}

(* A call in progress is about some thread.                                *)
TypeOK ==
  /\ alive \subseteq Threads
  /\ count \in [Threads -> 0 .. MaxSuspend]
  /\ state \in [Threads -> {"TX_READY", "TX_SUSPENDED"}]
  /\ suspending \in [Threads -> BOOLEAN]
  /\ control \in [Threads -> [at : Labels, thread : Threads \cup {Nobody}]]
  /\ \A a \in Threads : control[a].at = "idle" <=> About(a) = Nobody
  /\ overlapped \in [Threads -> BOOLEAN]
  /\ nested \in [Threads -> BOOLEAN]

(***************************************************************************)
(* What _tx_thread_info_get says of a thread is true when the last call    *)
(* about it is over and did not begin in the middle of another one: a      *)
(* thread marked suspended does not run, and a thread marked ready runs    *)
(* unless it was suspended twice.  However wrong the marks have become, the*)
(* next call that nobody disturbs puts them right.  Only a refused suspend *)
(* leaves tx_thread_suspending set.                                        *)
(***************************************************************************)
StateAgrees ==
  \A t \in alive : Settled(t) /\ ~overlapped[t] =>
    /\ state[t] = "TX_SUSPENDED" => count[t] > 0
    /\ count[t] > 0 /\ ~nested[t] => state[t] = "TX_SUSPENDED"
    /\ suspending[t] => nested[t]
===============================================================================
