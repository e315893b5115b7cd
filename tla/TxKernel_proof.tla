---------------------------- MODULE TxKernel_proof ----------------------------
(***************************************************************************)
(* Threads that suspend one another at any point do nothing to the mutexes *)
(* that threads left alone could not do, and the mutexes do nothing to the *)
(* marks: what TxMutex_proof and TxSuspend_proof show of each part holds of*)
(* their composition.                                                      *)
(***************************************************************************)
EXTENDS TxKernel, TxMutex_proof

Suspension == INSTANCE TxSuspend_proof

LEMMA MutexSteps == [KernelNext]_kernel_vars => [Next]_vars
<1> SUFFICES ASSUME [KernelNext]_kernel_vars PROVE [Next]_vars
  OBVIOUS
<1>1. ASSUME ManageStep PROVE Next
  BY <1>1 DEF ManageStep, Next
<1>2. ASSUME NEW t \in Threads, LockStep(t) PROVE Next
  BY <1>2 DEF LockStep, Next
<1>3. ASSUME NEW t \in Threads, ControlStep(t) PROVE UNCHANGED vars
  <2>1. alive' = alive
    BY <1>3 DEF ControlStep, Control!Step, Control!SuspendCall, Control!ResumeCall,
      Control!SuspendKernel, Control!SuspendFails, Control!SuspendState, Control!SuspendFlag,
      Control!ResumeKernel, Control!ResumeEnded, Control!ResumeState, Control!ResumeFlag
  <2> QED
    BY <1>3, <2>1 DEF ControlStep, vars
<1>4. ASSUME NEW t \in Threads, End(t) PROVE Next
  BY <1>4 DEF End, Next
<1>5. CASE UNCHANGED kernel_vars
  BY <1>5 DEF kernel_vars
<1> QED
  BY <1>1, <1>2, <1>3, <1>4, <1>5 DEF KernelNext

LEMMA SuspendSteps == [KernelNext]_kernel_vars => [Suspension!Next]_Suspension!vars
<1> DEFINE Goal == Suspension!Next \/ UNCHANGED <<alive, controls>>
<1> SUFFICES ASSUME [KernelNext]_kernel_vars PROVE Goal
  BY DEF Suspension!vars, controls
<1>1. ASSUME ManageStep PROVE Goal
  BY <1>1 DEF ManageStep, Manage, Create, Delete
<1>2. ASSUME NEW t \in Threads, LockStep(t) PROVE Goal
  BY <1>2 DEF LockStep, Step, GetGranted, GetTimesOut, GetFails, Answer, Put, GetCall
<1>3. ASSUME NEW t \in Threads, ControlStep(t) PROVE Goal
  <2>1. Control!Step(t)
    BY <1>3 DEF ControlStep
  <2>2. Suspension!Step(t)
    BY <2>1, Zenon DEF Control!Step, Suspension!Step,
      Control!SuspendCall, Control!ResumeCall, Control!SuspendKernel, Control!SuspendFails,
      Control!SuspendState, Control!SuspendFlag, Control!ResumeKernel, Control!ResumeEnded,
      Control!ResumeState, Control!ResumeFlag, Control!Runs, Control!At, Control!Goto,
      Control!Finish, Control!About, Control!Settled, Control!Begin, Control!NoControl,
      Suspension!SuspendCall, Suspension!ResumeCall, Suspension!SuspendKernel,
      Suspension!SuspendFails, Suspension!SuspendState, Suspension!SuspendFlag,
      Suspension!ResumeKernel, Suspension!ResumeEnded, Suspension!ResumeState,
      Suspension!ResumeFlag, Suspension!Runs, Suspension!At, Suspension!Goto,
      Suspension!Finish, Suspension!About, Suspension!Settled, Suspension!Begin,
      Suspension!NoControl
  <2> QED
    BY <2>2 DEF Suspension!Next
<1>4. ASSUME NEW t \in Threads, End(t) PROVE Goal
  <2>1. Suspension!Exit(t)
    BY <1>4 DEF End, Control!Exit, Suspension!Exit, Control!At, Suspension!At, Control!Runs,
      Suspension!Runs
  <2> QED
    BY <2>1 DEF Suspension!Next
<1>5. CASE UNCHANGED kernel_vars
  BY <1>5 DEF kernel_vars, vars
<1> QED
  BY <1>1, <1>2, <1>3, <1>4, <1>5 DEF KernelNext
-------------------------------------------------------------------------------
(* Suspending threads adds no behaviour of the mutexes.                    *)
THEOREM KernelLocks == KernelSpec => Spec
<1>1. KernelInit => Init
  BY DEF KernelInit
<1> QED
  BY <1>1, MutexSteps, PTL DEF KernelSpec, Spec

(* A status never promises a mutex that another thread may be in, whoever  *)
(* is suspended while it owns one or waits for one.                        *)
THEOREM KernelStatus == KernelSpec => [](HeldMeansOwned /\ OwnedMeansHeld)
  BY KernelLocks, StatusNeverOverpromises, StatusNeverHides, PTL

(* Mutexes with names of their own stay the independent recursive mutexes  *)
(* of module Mutexes when their users are suspended anywhere.              *)
THEOREM KernelRefinement == ASSUME OwnNames PROVE KernelSpec => ImplementsMutexes
  BY KernelLocks, MutexRefinement, PTL

LEMMA KernelSuspends == KernelSpec => Suspension!Spec
<1>1. KernelInit => Suspension!Init
  BY DEF KernelInit, Control!Init, Suspension!Init, Control!NoControl, Suspension!NoControl
<1> QED
  BY <1>1, SuspendSteps, PTL DEF KernelSpec, Suspension!Spec

(* The composition keeps the types of both parts: in particular a thread   *)
(* that is suspended in the middle of a wait leaves every object's owner,  *)
(* depth and handles in range, and no suspend count leaves the kernel's    *)
(* range.                                                                  *)
THEOREM KernelTypes == KernelSpec => []KernelTypeOK
<1>1. Suspension!SuspendAssumption
  BY KernelAssumption DEF Suspension!SuspendAssumption
<1>2. Suspension!Spec => []Suspension!TypeOK
  BY <1>1, Suspension!SuspendType
<1>3. TypeOK /\ Suspension!TypeOK => KernelTypeOK
  BY DEF KernelTypeOK, Suspension!TypeOK, Control!TypeOK, Suspension!Labels, Control!Labels,
    Suspension!About, Control!About
<1> QED
  BY <1>2, <1>3, KernelLocks, MutexType, KernelSuspends, PTL

(* An undisturbed suspend or resume puts the marks of a thread right, also *)
(* when threads wait for mutexes and own them.                             *)
THEOREM KernelMarks == KernelSpec => []StateAgrees
<1>1. Suspension!SuspendAssumption
  BY KernelAssumption DEF Suspension!SuspendAssumption
<1>2. Suspension!Spec => []Suspension!StateAgrees
  BY <1>1, Suspension!MarksAgree
<1>3. Suspension!StateAgrees => StateAgrees
  BY DEF Suspension!StateAgrees, StateAgrees, Control!StateAgrees, Suspension!Settled,
    Control!Settled, Suspension!About, Control!About
<1> QED
  BY <1>2, <1>3, KernelSuspends, PTL
===============================================================================
