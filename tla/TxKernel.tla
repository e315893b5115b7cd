------------------------------- MODULE TxKernel -------------------------------
(***************************************************************************)
(* Threads of threadx_glue/glue.c that use mutexes and suspend and resume  *)
(* one another at any point: between the calls of a mutex, while they own  *)
(* one, in the middle of a wait, and until they end.  A suspended thread   *)
(* takes no step, of a mutex or of a call about another thread.            *)
(***************************************************************************)
EXTENDS TxMutex

CONSTANTS
  Nobody, MaxSuspend,   (* of TxSuspend                                    *)
  Scenarios             (* what the threads may do: the mutexes there are, *)
                        (* and who may suspend and resume whom             *)

ASSUME KernelAssumption ==
  /\ Nobody \notin Threads
  /\ MaxSuspend \in Nat /\ MaxSuspend > 1
  /\ Scenarios \subseteq [mutexes : SUBSET Mutexes, controls : SUBSET (Threads \X Threads)]

VARIABLES
  count, state, suspending, control, overlapped, nested,   (* of TxSuspend *)
  scenario    (* what the threads do; chosen once                          *)

Control == INSTANCE TxSuspend

controls == <<count, state, suspending, control, overlapped, nested>>
kernel_vars == <<vars, controls, scenario>>

KernelInit ==
  /\ Init
  /\ Control!Init
  /\ scenario \in Scenarios

(* A call of a mutex; its waits end only while the thread runs.            *)
LockStep(t) ==
  /\ Control!At(t, "idle")
  /\ Step(t)
  /\ UNCHANGED controls

(* A step of a call about a thread, by a thread that is not in a get.      *)
ControlStep(a) ==
  /\ Idle(a)
  /\ Control!Step(a)
  /\ Control!At(a, "idle") => <<a, control'[a].thread>> \in scenario.controls
  /\ UNCHANGED mutex_vars

End(t) == Exit(t) /\ Control!Exit(t)

ManageStep ==
  /\ Manage
  /\ open' \subseteq scenario.mutexes
  /\ UNCHANGED controls

KernelNext ==
  /\ ManageStep \/ \E t \in Threads : LockStep(t) \/ ControlStep(t) \/ End(t)
  /\ UNCHANGED scenario

KernelSpec == KernelInit /\ [][KernelNext]_kernel_vars
-------------------------------------------------------------------------------
(* The mutexes and the suspend counts have their types together.           *)
KernelTypeOK == TypeOK /\ Control!TypeOK

(* The marks of the control blocks agree with the kernel, as TxSuspend     *)
(* states it, for threads that also wait for mutexes.                      *)
StateAgrees == Control!StateAgrees
===============================================================================
