--------------------------- MODULE TxSuspend_proof ---------------------------
(***************************************************************************)
(* Proofs about TxSuspend, for every set of threads and every maximum      *)
(* suspend count above one: an undisturbed call leaves the marks of the    *)
(* thread it is about right, whatever they were before.                    *)
(***************************************************************************)
EXTENDS TxSuspend, TLAPS

(* A thread that is suspended more than once was suspended again.          *)
NestedCounts == \A t \in Threads : count[t] > 1 => nested[t]

(* Two calls about one thread overlap.                                     *)
OnlyCall ==
  \A t \in Threads : ~overlapped[t] =>
    \A a, b \in Threads : About(a) = t /\ About(b) = t => a = b

(* How far the only call about a thread has brought its marks.             *)
Progress ==
  \A a \in Threads : About(a) \in alive /\ ~overlapped[About(a)] =>
    /\ control[a].at \in {"suspend_state", "suspend_flag"} => count[About(a)] > 0
    /\ control[a].at = "suspend_flag" => state[About(a)] = "TX_SUSPENDED"
    /\ control[a].at \in {"resume_state", "resume_flag"} =>
         count[About(a)] = 0 \/ nested[About(a)]
    /\ control[a].at = "resume_flag" => state[About(a)] = "TX_READY"

SuspendInv == TypeOK /\ NestedCounts /\ OnlyCall /\ Progress /\ StateAgrees

LEMMA SuspendInit == ASSUME SuspendAssumption PROVE Init => SuspendInv
<1> SUFFICES ASSUME Init PROVE SuspendInv
  OBVIOUS
<1>1. \A t \in Threads : count[t] \in {0, 1}
  BY DEF Init
<1>2. count \in [Threads -> 0 .. MaxSuspend]
  <2>1. 0 \in 0 .. MaxSuspend /\ 1 \in 0 .. MaxSuspend
    BY DEF SuspendAssumption
  <2> QED
    BY <2>1 DEF Init
<1>3. TypeOK
  BY <1>2 DEF Init, TypeOK, NoControl, About, Labels
<1>4. NestedCounts
  BY <1>1 DEF NestedCounts
<1>5. \A a \in Threads : About(a) = Nobody
  BY DEF Init, About, NoControl
<1>6. OnlyCall /\ Progress
  BY <1>5 DEF OnlyCall, Progress, TypeOK, SuspendAssumption, Init
<1>7. StateAgrees
  BY <1>1 DEF StateAgrees, Init
<1> QED
  BY <1>3, <1>4, <1>6, <1>7 DEF SuspendInv

(* A step of a call is about one thread, and moves only the caller.        *)
LEMMA CallMoves ==
  ASSUME SuspendAssumption, SuspendInv, NEW a \in Threads, control[a].at # "idle"
  PROVE  About(a) \in Threads
  BY DEF SuspendInv, TypeOK, About

LEMMA TypeStep ==
  ASSUME SuspendAssumption, SuspendInv, [Next]_vars PROVE TypeOK' /\ NestedCounts'
<1> DEFINE Goal == TypeOK' /\ NestedCounts'
<1> SUFFICES Goal
  OBVIOUS
<1> USE DEF SuspendInv, TypeOK, NestedCounts, About, At, Runs, Labels
<1>1. ASSUME NEW a \in Threads, NEW t \in Threads, SuspendCall(a, t) PROVE Goal
  BY <1>1 DEF SuspendCall, Begin, Settled, SuspendAssumption
<1>2. ASSUME NEW a \in Threads, NEW t \in Threads, ResumeCall(a, t) PROVE Goal
  BY <1>2 DEF ResumeCall, Begin, Settled, SuspendAssumption
<1>3. ASSUME NEW a \in Threads, SuspendKernel(a) PROVE Goal
  <2> DEFINE t == control[a].thread
  <2>1. t \in Threads /\ count[t] + 1 \in 0 .. MaxSuspend
    BY <1>3 DEF SuspendKernel, SuspendAssumption
  <2>2. count' \in [Threads -> 0 .. MaxSuspend]
    BY <1>3, <2>1 DEF SuspendKernel
  <2>a. /\ nested' = [nested EXCEPT ![t] = count[t] > 0]
        /\ count' = [count EXCEPT ![t] = count[t] + 1]
    BY <1>3 DEF SuspendKernel
  <2>b. (nested'[t] <=> count[t] > 0) /\ count'[t] = count[t] + 1
    BY <2>a, <2>1
  <2>c. \A u \in Threads \ {t} : nested'[u] = nested[u] /\ count'[u] = count[u]
    BY <2>a
  <2>3. NestedCounts'
    <3>1. count'[t] > 1 => nested'[t]
      BY <2>1, <2>b
    <3> QED
      BY <2>c, <3>1
  <2>4. control' \in [Threads -> [at : Labels, thread : Threads \cup {Nobody}]]
        /\ \A b \in Threads : control'[b].at = "idle" <=> control'[b].thread = Nobody
    BY <1>3 DEF SuspendKernel, Goto
  <2> QED
    BY <1>3, <2>2, <2>3, <2>4 DEF SuspendKernel
<1>4. ASSUME NEW a \in Threads, ResumeKernel(a) PROVE Goal
  <2> DEFINE t == control[a].thread
             n == IF count[t] = 0 THEN 0 ELSE count[t] - 1
  <2>t. t \in Threads
    BY <1>4 DEF ResumeKernel
  <2>0. count[t] \in 0 .. MaxSuspend
    BY <2>t
  <2>1. t \in Threads /\ n \in 0 .. MaxSuspend
    <3>1. ASSUME NEW c \in 0 .. MaxSuspend
          PROVE  (IF c = 0 THEN 0 ELSE c - 1) \in 0 .. MaxSuspend
      BY DEF SuspendAssumption
    <3> HIDE DEF t
    <3> QED
      BY <2>t, <2>0, <3>1
  <2>2. count' \in [Threads -> 0 .. MaxSuspend]
    BY <1>4, <2>1 DEF ResumeKernel
  <2>a. /\ nested' = [nested EXCEPT ![t] = nested[t] /\ count[t] > 1]
        /\ count' = [count EXCEPT ![t] = n]
    BY <1>4 DEF ResumeKernel
  <2>b. (nested'[t] <=> nested[t] /\ count[t] > 1) /\ count'[t] = n
    BY <2>a, <2>1
  <2>c. \A u \in Threads \ {t} : nested'[u] = nested[u] /\ count'[u] = count[u]
    BY <2>a
  <2>3. NestedCounts'
    <3>1. count'[t] > 1 => nested'[t]
      BY <2>1, <2>b
    <3> QED
      BY <2>c, <3>1
  <2>4. control' \in [Threads -> [at : Labels, thread : Threads \cup {Nobody}]]
        /\ \A b \in Threads : control'[b].at = "idle" <=> control'[b].thread = Nobody
    BY <1>4 DEF ResumeKernel, Goto
  <2>5. nested' \in [Threads -> BOOLEAN]
    BY <1>4, <2>1 DEF ResumeKernel
  <2> QED
    BY <1>4, <2>2, <2>3, <2>4, <2>5 DEF ResumeKernel
<1>5. ASSUME NEW a \in Threads, SuspendFails(a) \/ SuspendFlag(a) \/ ResumeFlag(a) PROVE Goal
  <2>0. control' = [control EXCEPT ![a] = [at |-> "idle", thread |-> Nobody]]
    BY <1>5 DEF SuspendFails, SuspendFlag, ResumeFlag, Finish, NoControl
  <2>1. control' \in [Threads -> [at : Labels, thread : Threads \cup {Nobody}]]
        /\ \A b \in Threads : control'[b].at = "idle" <=> control'[b].thread = Nobody
    BY <2>0
  <2>2. suspending' \in [Threads -> BOOLEAN]
    BY <1>5 DEF SuspendFails, SuspendFlag, ResumeFlag
  <2> QED
    BY <1>5, <2>1, <2>2 DEF SuspendFails, SuspendFlag, ResumeFlag
<1>g. ASSUME NEW a \in Threads, NEW label \in Labels \ {"idle"}, control[a].at # "idle",
             control' = [control EXCEPT ![a].at = label]
      PROVE  control' \in [Threads -> [at : Labels, thread : Threads \cup {Nobody}]]
             /\ \A b \in Threads : control'[b].at = "idle" <=> control'[b].thread = Nobody
  BY <1>g
<1>6. ASSUME NEW a \in Threads, SuspendState(a) \/ ResumeState(a) PROVE Goal
  <2>1. CASE SuspendState(a)
    <3>1. control[a].at # "idle" /\ control' = [control EXCEPT ![a].at = "suspend_flag"]
      BY <2>1 DEF SuspendState, Goto
    <3>2. state' \in [Threads -> {"TX_READY", "TX_SUSPENDED"}]
      BY <2>1 DEF SuspendState
    <3> QED
      BY <2>1, <3>1, <3>2, <1>g DEF SuspendState
  <2>2. CASE ResumeState(a)
    <3>1. control[a].at # "idle" /\ control' = [control EXCEPT ![a].at = "resume_flag"]
      BY <2>2 DEF ResumeState, Goto
    <3>2. state' \in [Threads -> {"TX_READY", "TX_SUSPENDED"}]
      BY <2>2 DEF ResumeState
    <3> QED
      BY <2>2, <3>1, <3>2, <1>g DEF ResumeState
  <2> QED
    BY <1>6, <2>1, <2>2
<1>7. ASSUME NEW a \in Threads, ResumeEnded(a) PROVE Goal
  BY <1>7 DEF ResumeEnded, Goto, Finish, NoControl
<1>8. ASSUME NEW a \in Threads, Exit(a) PROVE Goal
  BY <1>8 DEF Exit
<1>9. CASE UNCHANGED vars
  BY <1>9 DEF vars
<1> QED
  BY <1>1, <1>2, <1>3, <1>4, <1>5, <1>6, <1>7, <1>8, <1>9 DEF Next, Step

(* After a step that begins no call the calls in progress are the ones of  *)
(* before, or fewer.                                                       *)
LEMMA StillOnlyCall ==
  ASSUME SuspendAssumption, SuspendInv, overlapped' = overlapped,
         \A b \in Threads : About(b)' \in {About(b), Nobody}
  PROVE  OnlyCall'
<1>1. ASSUME NEW t \in Threads, ~overlapped[t], NEW a \in Threads, NEW b \in Threads,
             About(a)' = t, About(b)' = t
      PROVE  a = b
  <2>1. About(a) = t /\ About(b) = t
    BY <1>1 DEF SuspendAssumption
  <2> QED
    BY <1>1, <2>1 DEF SuspendInv, OnlyCall
<1> QED
  BY <1>1 DEF OnlyCall

(* What a step about a thread leaves alone, and what it has to establish.  *)
LEMMA OneCallMoves ==
  ASSUME SuspendAssumption, SuspendInv, NEW a \in Threads, NEW t \in Threads,
         About(a) = t, alive' = alive, overlapped' = overlapped,
         \A b \in Threads \ {a} : control'[b] = control[b],
         control'[a].thread \in {t, Nobody},
         \A u \in Threads \ {t} :
           /\ count'[u] = count[u] /\ state'[u] = state[u] /\ suspending'[u] = suspending[u]
           /\ nested'[u] = nested[u],
         t \in alive /\ ~overlapped[t] =>
           IF control'[a].thread = t
           THEN /\ control'[a].at \in {"suspend_state", "suspend_flag"} => count'[t] > 0
                /\ control'[a].at = "suspend_flag" => state'[t] = "TX_SUSPENDED"
                /\ control'[a].at \in {"resume_state", "resume_flag"} =>
                     count'[t] = 0 \/ nested'[t]
                /\ control'[a].at = "resume_flag" => state'[t] = "TX_READY"
           ELSE /\ state'[t] = "TX_SUSPENDED" => count'[t] > 0
                /\ count'[t] > 0 /\ ~nested'[t] => state'[t] = "TX_SUSPENDED"
                /\ suspending'[t] => nested'[t]
  PROVE  OnlyCall' /\ Progress' /\ StateAgrees'
<1>1. OnlyCall'
  <2>1. \A b \in Threads : About(b)' \in {About(b), Nobody}
    BY DEF About
  <2> QED
    BY <2>1, StillOnlyCall
<1>2. ASSUME NEW b \in Threads, About(b)' \in alive, ~overlapped[About(b)']
      PROVE  /\ control'[b].at \in {"suspend_state", "suspend_flag"} => count'[About(b)'] > 0
             /\ control'[b].at = "suspend_flag" => state'[About(b)'] = "TX_SUSPENDED"
             /\ control'[b].at \in {"resume_state", "resume_flag"} =>
                  count'[About(b)'] = 0 \/ nested'[About(b)']
             /\ control'[b].at = "resume_flag" => state'[About(b)'] = "TX_READY"
  <2>1. Nobody \notin alive
    BY DEF SuspendAssumption, SuspendInv, TypeOK
  <2>2. CASE b = a
    BY <1>2, <2>1, <2>2 DEF About
  <2>3. CASE b # a
    <3>1. About(b)' = About(b) /\ control'[b] = control[b] /\ About(b) \in Threads
      BY <1>2, <2>3 DEF About, SuspendInv, TypeOK
    <3>2. About(b) # t
      BY <1>2, <2>3, <3>1 DEF SuspendInv, OnlyCall
    <3> QED
      BY <1>2, <3>1, <3>2 DEF SuspendInv, Progress
  <2> QED
    BY <2>2, <2>3
<1>3. ASSUME NEW u \in alive, \A b \in Threads : About(b)' # u, ~overlapped[u]
      PROVE  /\ state'[u] = "TX_SUSPENDED" => count'[u] > 0
             /\ count'[u] > 0 /\ ~nested'[u] => state'[u] = "TX_SUSPENDED"
             /\ suspending'[u] => nested'[u]
  <2>1. CASE u = t
    BY <1>3, <2>1 DEF About
  <2>2. CASE u # t
    <3>1. Settled(u) /\ u \in Threads
      BY <1>3, <2>2 DEF Settled, About, SuspendInv, TypeOK
    <3> QED
      BY <1>3, <2>2, <3>1 DEF SuspendInv, StateAgrees
  <2> QED
    BY <2>1, <2>2
<1> QED
  BY <1>1, <1>2, <1>3 DEF Progress, StateAgrees, Settled

(* A call that begins about a thread is the only one, or it overlaps.      *)
LEMMA BeginStep ==
  ASSUME SuspendAssumption, SuspendInv, NEW a \in Threads, NEW t \in Threads,
         NEW label \in {"suspend_kernel", "resume_kernel"}, Begin(a, t, label),
         UNCHANGED <<alive, count, state, nested>>,
         \A u \in Threads \ {t} : suspending'[u] = suspending[u]
  PROVE  OnlyCall' /\ Progress' /\ StateAgrees'
<1>1. /\ control' = [control EXCEPT ![a] = [at |-> label, thread |-> t]]
      /\ About(a) = Nobody /\ control[a].at = "idle"
      /\ About(a)' = t /\ \A b \in Threads \ {a} : About(b)' = About(b) /\ control'[b] = control[b]
      /\ control'[a].at = label
  BY DEF Begin, At, About, SuspendInv, TypeOK
<1>2. \A u \in Threads \ {t} : overlapped'[u] = overlapped[u]
  BY DEF Begin, SuspendInv, TypeOK
<1>3. ~overlapped'[t] <=> Settled(t)
  BY DEF Begin, SuspendInv, TypeOK
<1>4. OnlyCall'
  <2> SUFFICES ASSUME NEW u \in Threads, ~overlapped'[u], NEW b \in Threads, NEW c \in Threads,
                      About(b)' = u, About(c)' = u
               PROVE  b = c
    BY DEF OnlyCall
  <2>1. CASE u = t
    BY <1>1, <1>3, <2>1 DEF Settled
  <2>2. CASE u # t
    BY <1>1, <1>2, <2>2 DEF SuspendInv, OnlyCall
  <2> QED
    BY <2>1, <2>2
<1>5. Progress'
  <2> SUFFICES ASSUME NEW b \in Threads, About(b)' \in alive, ~overlapped'[About(b)']
               PROVE  /\ control'[b].at \in {"suspend_state", "suspend_flag"} => count[About(b)'] > 0
                      /\ control'[b].at = "suspend_flag" => state[About(b)'] = "TX_SUSPENDED"
                      /\ control'[b].at \in {"resume_state", "resume_flag"} =>
                           count[About(b)'] = 0 \/ nested[About(b)']
                      /\ control'[b].at = "resume_flag" => state[About(b)'] = "TX_READY"
    BY DEF Progress
  <2>1. CASE b = a
    BY <1>1, <2>1
  <2>2. CASE b # a
    <3>1. About(b)' = About(b) /\ control'[b] = control[b] /\ About(b) \in Threads
      BY <1>1, <2>2 DEF SuspendInv, TypeOK
    <3>2. About(b) # t
      BY <1>3, <3>1 DEF Settled
    <3> QED
      BY <1>2, <3>1, <3>2 DEF SuspendInv, Progress
  <2> QED
    BY <2>1, <2>2
<1>6. StateAgrees'
  <2> SUFFICES ASSUME NEW u \in alive, Settled(u)', ~overlapped'[u]
               PROVE  /\ state[u] = "TX_SUSPENDED" => count[u] > 0
                      /\ count[u] > 0 /\ ~nested[u] => state[u] = "TX_SUSPENDED"
                      /\ suspending'[u] => nested[u]
    BY DEF StateAgrees
  <2>1. u # t /\ u \in Threads
    BY <1>1 DEF Settled, SuspendInv, TypeOK
  <2>2. Settled(u)
    BY <1>1, <2>1 DEF Settled, SuspendAssumption
  <2> QED
    BY <1>2, <2>1, <2>2 DEF SuspendInv, StateAgrees
<1> QED
  BY <1>4, <1>5, <1>6

LEMMA CallStep ==
  ASSUME SuspendAssumption, SuspendInv, [Next]_vars
  PROVE  OnlyCall' /\ Progress' /\ StateAgrees'
<1> DEFINE Goal == OnlyCall' /\ Progress' /\ StateAgrees'
<1> SUFFICES Goal
  OBVIOUS
<1>1. ASSUME NEW a \in Threads, NEW t \in Threads, SuspendCall(a, t) PROVE Goal
  <2>1. \A u \in Threads \ {t} : suspending'[u] = suspending[u]
    BY <1>1 DEF SuspendCall, SuspendInv, TypeOK
  <2> QED
    BY <1>1, <2>1, BeginStep DEF SuspendCall
<1>2. ASSUME NEW a \in Threads, NEW t \in Threads, ResumeCall(a, t) PROVE Goal
  BY <1>2, BeginStep DEF ResumeCall
<1>t. /\ count \in [Threads -> 0 .. MaxSuspend] /\ state \in [Threads -> {"TX_READY", "TX_SUSPENDED"}]
      /\ suspending \in [Threads -> BOOLEAN] /\ nested \in [Threads -> BOOLEAN]
      /\ control \in [Threads -> [at : Labels, thread : Threads \cup {Nobody}]]
  BY DEF SuspendInv, TypeOK
<1>p. ASSUME NEW a \in Threads, About(a) \in alive, ~overlapped[About(a)]
      PROVE  /\ control[a].at \in {"suspend_state", "suspend_flag"} => count[About(a)] > 0
             /\ control[a].at = "suspend_flag" => state[About(a)] = "TX_SUSPENDED"
             /\ control[a].at \in {"resume_state", "resume_flag"} =>
                  count[About(a)] = 0 \/ nested[About(a)]
             /\ control[a].at = "resume_flag" => state[About(a)] = "TX_READY"
  BY <1>p DEF SuspendInv, Progress
<1>n. \A t \in Threads : count[t] > 1 => nested[t]
  BY DEF SuspendInv, NestedCounts
<1>3. ASSUME NEW a \in Threads, SuspendKernel(a) PROVE Goal
  <2> DEFINE t == About(a)
  <2>1. t \in Threads
    BY <1>3, CallMoves DEF SuspendKernel, At
  <2>2. /\ control'[a].thread = t /\ control'[a].at = "suspend_state"
        /\ \A b \in Threads \ {a} : control'[b] = control[b]
    BY <1>3, <1>t DEF SuspendKernel, Goto, About
  <2>3. count'[t] > 0
    BY <1>3, <1>t, <2>1 DEF SuspendKernel
  <2>4. \A u \in Threads \ {t} : count'[u] = count[u] /\ nested'[u] = nested[u]
    BY <1>3, <1>t DEF SuspendKernel
  <2>5. UNCHANGED <<alive, state, suspending, overlapped>>
    BY <1>3 DEF SuspendKernel
  <2> QED
    BY <2>1, <2>2, <2>3, <2>4, <2>5, OneCallMoves
<1>4. ASSUME NEW a \in Threads, ResumeKernel(a) PROVE Goal
  <2> DEFINE t == About(a)
  <2>1. t \in Threads
    BY <1>4, CallMoves DEF ResumeKernel, At
  <2>2. /\ control'[a].thread = t /\ control'[a].at = "resume_state"
        /\ \A b \in Threads \ {a} : control'[b] = control[b]
    BY <1>4, <1>t DEF ResumeKernel, Goto, About
  <2>3. /\ count' = [count EXCEPT ![t] = IF count[t] = 0 THEN 0 ELSE count[t] - 1]
        /\ nested' = [nested EXCEPT ![t] = nested[t] /\ count[t] > 1]
    BY <1>4 DEF ResumeKernel
  <2>4. \A u \in Threads \ {t} : count'[u] = count[u] /\ nested'[u] = nested[u]
    BY <1>t, <2>3
  <2>a. count'[t] = IF count[t] = 0 THEN 0 ELSE count[t] - 1
    BY <1>t, <2>1, <2>3
  <2>b. nested'[t] <=> nested[t] /\ count[t] > 1
    BY <1>t, <2>1, <2>3
  <2>c. count[t] \in 0 .. MaxSuspend
    BY <1>t, <2>1
  <2>d. count[t] \in Nat
    BY <2>c DEF SuspendAssumption
  <2>5. count'[t] = (IF count[t] = 0 THEN 0 ELSE count[t] - 1)
        /\ (nested'[t] <=> nested[t] /\ count[t] > 1) /\ count[t] \in Nat
    BY <2>a, <2>b, <2>d
  <2>6. count'[t] = 0 \/ nested'[t]
    BY <1>n, <2>1, <2>5
  <2>7. UNCHANGED <<alive, state, suspending, overlapped>>
    BY <1>4 DEF ResumeKernel
  <2> QED
    BY <2>1, <2>2, <2>4, <2>6, <2>7, OneCallMoves
<1>5. ASSUME NEW a \in Threads, SuspendFails(a) PROVE Goal
  <2> DEFINE t == About(a)
  <2>1. t \in Threads
    BY <1>5, CallMoves DEF SuspendFails, At
  <2>2. /\ control'[a].thread = Nobody
        /\ \A b \in Threads \ {a} : control'[b] = control[b]
    BY <1>5, <1>t DEF SuspendFails, Finish, NoControl
  <2>3. t \in alive => count[t] > 1 /\ nested[t]
    BY <1>5, <1>n, <2>1 DEF SuspendFails, SuspendAssumption
  <2>4. UNCHANGED <<alive, count, state, suspending, overlapped, nested>>
    BY <1>5 DEF SuspendFails
  <2>5. t \in alive => count'[t] > 0 /\ nested'[t]
    BY <2>1, <2>3, <2>4, <1>t
  <2>6. Nobody # t
    BY <2>1 DEF SuspendAssumption
  <2> QED
    BY <2>1, <2>2, <2>4, <2>5, <2>6, OneCallMoves
<1>6. ASSUME NEW a \in Threads, SuspendFlag(a) \/ ResumeFlag(a) PROVE Goal
  <2> DEFINE t == About(a)
  <2>1. t \in Threads /\ Nobody # t
    BY <1>6, CallMoves DEF SuspendFlag, ResumeFlag, At, SuspendAssumption
  <2>2. /\ control'[a].thread = Nobody
        /\ \A b \in Threads \ {a} : control'[b] = control[b]
    BY <1>6, <1>t DEF SuspendFlag, ResumeFlag, Finish, NoControl
  <2>3. suspending' = [suspending EXCEPT ![t] = FALSE]
    BY <1>6 DEF SuspendFlag, ResumeFlag
  <2>4. ~suspending'[t] /\ \A u \in Threads \ {t} : suspending'[u] = suspending[u]
    BY <1>t, <2>1, <2>3
  <2>5. UNCHANGED <<alive, count, state, overlapped, nested>>
    BY <1>6 DEF SuspendFlag, ResumeFlag
  <2>6. t \in alive /\ ~overlapped[t] =>
          \/ count[t] > 0 /\ state[t] = "TX_SUSPENDED"
          \/ (count[t] = 0 \/ nested[t]) /\ state[t] = "TX_READY"
    BY <1>6, <1>p DEF SuspendFlag, ResumeFlag, At
  <2> QED
    BY <2>1, <2>2, <2>4, <2>5, <2>6, OneCallMoves
<1>7. ASSUME NEW a \in Threads, SuspendState(a) \/ ResumeState(a) PROVE Goal
  <2> DEFINE t == About(a)
  <2>1. t \in Threads
    BY <1>7, CallMoves DEF SuspendState, ResumeState, At
  <2>2. /\ control'[a].thread = t /\ \A b \in Threads \ {a} : control'[b] = control[b]
        /\ control'[a].at = IF SuspendState(a) THEN "suspend_flag" ELSE "resume_flag"
    BY <1>7, <1>t DEF SuspendState, ResumeState, Goto, About, At
  <2>3. /\ state'[t] = IF SuspendState(a) THEN "TX_SUSPENDED" ELSE "TX_READY"
        /\ \A u \in Threads \ {t} : state'[u] = state[u]
    BY <1>7, <1>t, <2>1 DEF SuspendState, ResumeState, At
  <2>4. UNCHANGED <<alive, count, suspending, overlapped, nested>>
    BY <1>7 DEF SuspendState, ResumeState
  <2>5. t \in alive /\ ~overlapped[t] =>
          IF SuspendState(a) THEN count[t] > 0 ELSE count[t] = 0 \/ nested[t]
    BY <1>7, <1>p DEF SuspendState, ResumeState, At
  <2> QED
    BY <2>1, <2>2, <2>3, <2>4, <2>5, OneCallMoves
<1>8. ASSUME NEW a \in Threads, ResumeEnded(a) PROVE Goal
  <2>1. About(a) \in Threads /\ About(a) \notin alive
    BY <1>8, CallMoves DEF ResumeEnded, At
  <2>2. /\ control'[a].thread \in {About(a), Nobody}
        /\ \A b \in Threads \ {a} : control'[b] = control[b]
    BY <1>8, <1>t DEF ResumeEnded, Finish, Goto, NoControl, About
  <2>3. UNCHANGED <<alive, count, state, suspending, overlapped, nested>>
    BY <1>8 DEF ResumeEnded
  <2> QED
    BY <2>1, <2>2, <2>3, OneCallMoves
<1>9. ASSUME NEW a \in Threads, Exit(a) PROVE Goal
  BY <1>9 DEF Exit, SuspendInv, OnlyCall, Progress, StateAgrees, Settled, About
<1>10. CASE UNCHANGED vars
  BY <1>10 DEF vars, SuspendInv, OnlyCall, Progress, StateAgrees, Settled, About
<1> QED
  BY <1>1, <1>2, <1>3, <1>4, <1>5, <1>6, <1>7, <1>8, <1>9, <1>10 DEF Next, Step

LEMMA SuspendInvariant == ASSUME SuspendAssumption PROVE Spec => []SuspendInv
<1>1. Init => SuspendInv
  BY SuspendInit
<1>2. SuspendInv /\ [Next]_vars => SuspendInv'
  BY TypeStep, CallStep DEF SuspendInv
<1> QED
  BY <1>1, <1>2, PTL DEF Spec

(* The kernel's counts stay in their range, and a call in progress is      *)
(* about a thread.                                                         *)
THEOREM SuspendType == ASSUME SuspendAssumption PROVE Spec => []TypeOK
<1>1. SuspendInv => TypeOK
  BY DEF SuspendInv
<1> QED
  BY <1>1, SuspendInvariant, PTL

(* An undisturbed suspend or resume puts the marks of a thread right.      *)
THEOREM MarksAgree == ASSUME SuspendAssumption PROVE Spec => []StateAgrees
<1>1. SuspendInv => StateAgrees
  BY DEF SuspendInv
<1> QED
  BY <1>1, SuspendInvariant, PTL
===============================================================================
