--------------------------- MODULE TxSemaphore_proof ---------------------------
(***************************************************************************)
(* Proofs about TxSemaphore, for every set of threads, semaphores and names*)
(* and every maximum count: types, handles, and that semaphores with names *)
(* of their own are the independent semaphores of module Semaphores.       *)
(***************************************************************************)
EXTENDS TxSemaphore, FiniteSetTheorems, TLAPS

(* A thread that is not in a call has no semaphore.                        *)
IdleCalls == \A t \in Threads : pc[t] = "idle" => call[t] = Idle

(* Past the kernel's answer, a call holds one that its kind can get.       *)
Fits(label, outcome) ==
  /\ label \in {"get_read", "get_write", "get_return"} => outcome \in {"taken", "timeout", "failed"}
  /\ label \in {"put_read", "put_write", "put_return"} => outcome \in {"released", "refused", "failed"}

Decided == \A t \in Threads : Fits(pc[t], call[t].outcome)

SemInv == TypeOK /\ HandlesCounted /\ IdleCalls /\ Decided

Calls == [sem : Sems \cup {NoSem}, wait : Waits, outcome : Outcomes, read : 0 .. UlongSize - 1]

LEMMA SemInit == Init => SemInv
<1> SUFFICES ASSUME Init PROVE SemInv
  OBVIOUS
<1>1. 0 \in 0 .. MaxCount /\ 0 \in 0 .. UlongSize - 1
  BY SemaphoreAssumption
<1>2. TypeOK
  BY <1>1 DEF Init, TypeOK, Idle, Fresh, Waits, Outcomes, Labels, Statuses
<1>3. \A x \in Names : Holders(x) = {}
  BY DEF Init, Holders
<1>4. HandlesCounted
  BY <1>3, FS_EmptySet DEF HandlesCounted, Init
<1>5. Decided
  BY DEF Init, Decided, Fits
<1> QED
  BY <1>2, <1>4, <1>5 DEF SemInv, IdleCalls, Init
-------------------------------------------------------------------------------
(***************************************************************************)
(* Types                                                                   *)
(***************************************************************************)
(* A count stays within the width of a ULONG.                              *)
LEMMA CountWraps ==
  ASSUME NEW c \in 0 .. UlongSize - 1
  PROVE  /\ (c + (UlongSize - 1)) % UlongSize \in 0 .. UlongSize - 1
         /\ (c + 1) % UlongSize \in 0 .. UlongSize - 1
<1>1. UlongSize \in Nat /\ UlongSize > 0
  BY SemaphoreAssumption
<1>2. \A x \in Nat : x % UlongSize \in 0 .. UlongSize - 1
  BY <1>1
<1> QED
  BY <1>1, <1>2

(* What a step of thread t does to pc and call, when it keeps its block.   *)
LEMMA StepOf ==
  ASSUME SemInv, NEW t \in Threads, NEW label \in Labels, NEW c \in Calls,
         pc' = [pc EXCEPT ![t] = label], call' = [call EXCEPT ![t] = c],
         UNCHANGED <<open, broken>>, label # "idle" => c.sem \in open,
         label = "idle" => c = Idle
  PROVE  /\ pc' \in [Threads -> Labels] /\ call' \in [Threads -> Calls]
         /\ \A u \in Threads : pc'[u] # "idle" => call'[u].sem \in open'
         /\ IdleCalls'
<1>1. pc \in [Threads -> Labels] /\ call \in [Threads -> Calls]
  BY DEF SemInv, TypeOK, Calls
<1>2. pc' \in [Threads -> Labels] /\ call' \in [Threads -> Calls]
  BY <1>1
<1>3. \A u \in Threads : pc[u] # "idle" => call[u].sem \in open
  BY DEF SemInv, TypeOK
<1>4. \A u \in Threads : pc'[u] # "idle" => call'[u].sem \in open'
  BY <1>1, <1>3
<1>5. IdleCalls'
  BY <1>1 DEF SemInv, IdleCalls
<1> QED
  BY <1>2, <1>4, <1>5

LEMMA TypeStep == SemInv /\ [Next]_vars => TypeOK' /\ IdleCalls'
<1> DEFINE Goal == TypeOK' /\ IdleCalls'
<1> SUFFICES ASSUME SemInv, [Next]_vars PROVE Goal
  OBVIOUS
<1>t. /\ open \subseteq Sems /\ broken \subseteq open
      /\ handles \in [Names -> Nat] /\ count \in [Names -> 0 .. MaxCount]
      /\ tx_count \in [Sems -> 0 .. UlongSize - 1]
      /\ pc \in [Threads -> Labels] /\ call \in [Threads -> Calls]
      /\ status \in [Threads -> Statuses]
  BY DEF SemInv, TypeOK, Calls
<1>o. \A t \in Threads : pc[t] # "idle" => call[t].sem \in open
  BY DEF SemInv, TypeOK
<1>i. IdleCalls
  BY DEF SemInv
<1>n. NameOf \in [Sems -> Names] /\ NoSem \notin Sems
  BY SemaphoreAssumption
<1>u. Initials \subseteq 0 .. MaxCount /\ \A n \in 0 .. MaxCount : n \in 0 .. UlongSize - 1
  BY SemaphoreAssumption
<1>1. ASSUME NEW s \in Sems, NEW n \in Initials, Create(s, n) PROVE Goal
  <2>1. handles' \in [Names -> Nat]
    BY <1>1, <1>t, <1>n DEF Create
  <2>2. count' \in [Names -> 0 .. MaxCount]
    <3>1. CountAfterOpen(s, n) \in 0 .. MaxCount
      BY <1>t, <1>n, <1>u DEF CountAfterOpen
    <3> QED
      BY <1>1, <1>t, <1>n, <3>1 DEF Create
  <2>3. tx_count' \in [Sems -> 0 .. UlongSize - 1]
    BY <1>1, <1>t, <1>u DEF Create
  <2>4. open' \subseteq Sems /\ broken' \subseteq open' /\ open \subseteq open'
        /\ UNCHANGED <<pc, call, status>>
    BY <1>1, <1>t DEF Create
  <2> QED
    BY <2>1, <2>2, <2>3, <2>4, <1>t, <1>o, <1>i DEF TypeOK, Calls, IdleCalls
<1>2. ASSUME NEW s \in Sems, Delete(s) PROVE Goal
  <2>1. handles' \in [Names -> Nat]
    <3>1. CASE s \in broken
      BY <1>2, <1>t, <3>1 DEF Delete
    <3>2. CASE s \notin broken
      <4>1. s \in Holders(NameOf[s])
        BY <1>2, <3>2 DEF Delete, Holders
      <4>2. Holders(NameOf[s]) \in SUBSET Sems
        BY <1>t DEF Holders
      <4>3. IsFiniteSet(Holders(NameOf[s]))
        BY <4>2, SemaphoreAssumption, FS_Subset
      <4>4. handles[NameOf[s]] # 0
        BY <4>1, <4>3, <1>n, FS_EmptySet DEF SemInv, HandlesCounted
      <4>5. handles[NameOf[s]] - 1 \in Nat
        BY <4>4, <1>t, <1>n
      <4> QED
        BY <1>2, <1>t, <1>n, <3>2, <4>5 DEF Delete
    <3> QED
      BY <3>1, <3>2
  <2>2. open' \subseteq Sems /\ broken' \subseteq open'
    BY <1>2, <1>t DEF Delete
  <2>3. \A t \in Threads : pc'[t] # "idle" => call'[t].sem \in open'
    BY <1>2, <1>o DEF Delete, Unused
  <2> QED
    BY <1>2, <2>1, <2>2, <2>3, <1>t, <1>i DEF Delete, TypeOK, Calls, IdleCalls
<1>3. ASSUME NEW t \in Threads, NEW s \in Sems, NEW w \in Waits, NEW label \in Labels \ {"idle"},
             Begin(t, label, s, w)
      PROVE  Goal
  <2>1. Fresh(s, w) \in Calls /\ Fresh(s, w).sem = s
    BY SemaphoreAssumption DEF Fresh, Calls, Outcomes
  <2>2. /\ pc' \in [Threads -> Labels] /\ call' \in [Threads -> Calls]
        /\ \A u \in Threads : pc'[u] # "idle" => call'[u].sem \in open'
        /\ IdleCalls'
    BY <1>3, <2>1, StepOf DEF Begin, Goto
  <2>3. status' \in [Threads -> Statuses]
    BY <1>3, <1>t DEF Begin, Statuses
  <2> QED
    BY <1>3, <2>2, <2>3, <1>t DEF Begin, TypeOK, Calls
<1>4. ASSUME NEW t \in Threads, Step(t) PROVE Goal
  <2>1. call[t] \in Calls /\ pc[t] \in Labels
    BY <1>t
  <2>2. ASSUME NEW o \in Outcomes, NEW label \in Labels \ {"idle"}, pc[t] # "idle",
               call' = [call EXCEPT ![t].outcome = o], pc' = [pc EXCEPT ![t] = label],
               UNCHANGED <<open, broken, handles, tx_count, status>>, count' \in [Names -> 0 .. MaxCount]
        PROVE  Goal
    <3> DEFINE c == [call[t] EXCEPT !.outcome = o]
    <3>1. c \in Calls /\ c.sem = call[t].sem
      BY <2>1 DEF Calls
    <3>2. call' = [call EXCEPT ![t] = c]
      BY <2>2, <1>t
    <3> HIDE DEF c
    <3>3. /\ pc' \in [Threads -> Labels] /\ call' \in [Threads -> Calls]
          /\ \A u \in Threads : pc'[u] # "idle" => call'[u].sem \in open'
          /\ IdleCalls'
      BY <2>2, <3>1, <3>2, <1>o, StepOf
    <3> QED
      BY <2>2, <3>3, <1>t DEF TypeOK, Calls
  <2>n. pc[t] # "idle" => NameOf[call[t].sem] \in Names
    BY <1>o, <1>t, <1>n
  <2>3. ASSUME GetTaken(t) PROVE Goal
    <3>1. count[Object(t)] \in 0 .. MaxCount /\ count[Object(t)] > 0
      BY <2>3, <2>n, <1>t DEF GetTaken, Object
    <3>2. count[Object(t)] - 1 \in 0 .. MaxCount
      BY <3>1, SemaphoreAssumption
    <3>3. count' \in [Names -> 0 .. MaxCount]
      BY <2>3, <3>2, <1>t DEF GetTaken
    <3> QED
      BY <2>2, <2>3, <3>3 DEF GetTaken, Goto, Outcomes, Labels
  <2>4. ASSUME GetTimesOut(t) PROVE Goal
    BY <2>2, <2>4, <1>t DEF GetTimesOut, Goto, Outcomes, Labels
  <2>5. ASSUME CallFails(t) PROVE Goal
    BY <2>2, <2>5, <1>t DEF CallFails, Goto, Outcomes, Labels
  <2>6. ASSUME PutRelease(t) PROVE Goal
    <3>1. CASE count[Object(t)] < MaxCount
      <4>1. count[Object(t)] \in 0 .. MaxCount
        BY <2>6, <2>n, <1>t DEF PutRelease, Object
      <4>2. count[Object(t)] + 1 \in 0 .. MaxCount
        BY <3>1, <4>1, SemaphoreAssumption
      <4>3. count' \in [Names -> 0 .. MaxCount]
        BY <2>6, <3>1, <4>2, <1>t DEF PutRelease
      <4> QED
        BY <2>2, <2>6, <3>1, <4>3 DEF PutRelease, Goto, Outcomes, Labels
    <3>2. CASE ~(count[Object(t)] < MaxCount)
      BY <2>2, <2>6, <3>2, <1>t DEF PutRelease, Goto, Outcomes, Labels
    <3> QED
      BY <3>1, <3>2
  <2>7. ASSUME ReadCount(t) PROVE Goal
    <3> DEFINE c == [call[t] EXCEPT !.read = tx_count[call[t].sem]]
               label == IF pc[t] = "get_read" THEN "get_write" ELSE "put_write"
    <3>1. pc[t] # "idle" /\ call[t].sem \in open
      BY <2>7, <1>o DEF ReadCount
    <3>2. c \in Calls /\ c.sem = call[t].sem
      BY <2>1, <3>1, <1>t DEF Calls
    <3>3. call' = [call EXCEPT ![t] = c] /\ pc' = [pc EXCEPT ![t] = label]
      BY <2>7, <1>t DEF ReadCount, Goto
    <3>4. label \in Labels /\ label # "idle"
      BY DEF Labels
    <3> HIDE DEF c, label
    <3>5. /\ pc' \in [Threads -> Labels] /\ call' \in [Threads -> Calls]
          /\ \A u \in Threads : pc'[u] # "idle" => call'[u].sem \in open'
          /\ IdleCalls'
      BY <2>7, <3>1, <3>2, <3>3, <3>4, StepOf DEF ReadCount
    <3> QED
      BY <2>7, <3>5, <1>t DEF ReadCount, TypeOK, Calls
  <2>8. ASSUME WriteCount(t) PROVE Goal
    <3>1. call[t].read \in 0 .. UlongSize - 1
      BY <2>1 DEF Calls
    <3>2. ChangedCount(t) \in 0 .. UlongSize - 1
      BY <3>1, CountWraps DEF ChangedCount
    <3>3. tx_count' \in [Sems -> 0 .. UlongSize - 1]
      BY <2>8, <3>2, <1>t DEF WriteCount
    <3>4. pc' \in [Threads -> Labels] /\ \A u \in Threads : pc'[u] # "idle" => pc[u] # "idle"
      BY <2>8, <1>t DEF WriteCount, Goto, Labels
    <3>5. IdleCalls'
      BY <2>8, <1>t, <1>i DEF WriteCount, Goto, IdleCalls
    <3> QED
      BY <2>8, <3>3, <3>4, <3>5, <1>t, <1>o DEF WriteCount, TypeOK, Calls
  <2>9. ASSUME Return(t) PROVE Goal
    <3>1. Idle \in Calls /\ "idle" \in Labels
      BY SemaphoreAssumption DEF Idle, Fresh, Calls, Outcomes, Waits, Labels
    <3>2. /\ pc' \in [Threads -> Labels] /\ call' \in [Threads -> Calls]
          /\ \A u \in Threads : pc'[u] # "idle" => call'[u].sem \in open'
          /\ IdleCalls'
      BY <2>9, <3>1, StepOf DEF Return, Goto
    <3>3. \A o \in Outcomes : GetStatus(o) \in Statuses /\ PutStatus(o) \in Statuses
      BY DEF GetStatus, PutStatus, Statuses
    <3>4. status' \in [Threads -> Statuses]
      BY <2>1, <2>9, <3>3, <1>t DEF Return, Calls
    <3> QED
      BY <2>9, <3>2, <3>4, <1>t DEF Return, TypeOK, Calls
  <2> QED
    BY <1>4, <2>3, <2>4, <2>5, <2>6, <2>7, <2>8, <2>9 DEF Step
<1>5. CASE UNCHANGED vars
  BY <1>5, <1>t, <1>o, <1>i DEF vars, TypeOK, Calls, IdleCalls
<1>l. "get_wait" \in Labels \ {"idle"} /\ "put_release" \in Labels \ {"idle"} /\ "none" \in Waits
  BY DEF Labels, Waits
<1>6. ASSUME NEW t \in Threads, NEW s \in Sems, PutCall(t, s) PROVE Goal
  BY <1>6, <1>3, <1>l DEF PutCall
<1>7. ASSUME NEW t \in Threads, NEW s \in Sems, NEW w \in Waits, GetCall(t, s, w) PROVE Goal
  BY <1>7, <1>3, <1>l DEF GetCall
<1> QED
  BY <1>1, <1>2, <1>4, <1>5, <1>6, <1>7 DEF Next
(* What the kernel answered stays with the call until it returns.          *)
LEMMA DecidedOf ==
  ASSUME SemInv, NEW t \in Threads, NEW label \in Labels, NEW c \in Calls,
         pc' = [pc EXCEPT ![t] = label], call' = [call EXCEPT ![t] = c], Fits(label, c.outcome)
  PROVE  Decided'
<1>1. pc \in [Threads -> Labels] /\ call \in [Threads -> Calls]
  BY DEF SemInv, TypeOK, Calls
<1>2. pc'[t] = label /\ call'[t] = c
  BY <1>1
<1>3. \A u \in Threads \ {t} : pc'[u] = pc[u] /\ call'[u] = call[u]
  BY <1>1
<1> QED
  BY <1>2, <1>3 DEF SemInv, Decided

LEMMA DecidedStep == SemInv /\ [Next]_vars => Decided'
<1> SUFFICES ASSUME SemInv, [Next]_vars PROVE Decided'
  OBVIOUS
<1>t. pc \in [Threads -> Labels] /\ call \in [Threads -> Calls]
  BY DEF SemInv, TypeOK, Calls
<1>d. \A t \in Threads : Fits(pc[t], call[t].outcome)
  BY DEF SemInv, Decided
<1>1. ASSUME UNCHANGED <<pc, call>> PROVE Decided'
  BY <1>1, <1>d DEF Decided
<1>2. ASSUME NEW t \in Threads, NEW s \in Sems, NEW w \in Waits,
             NEW label \in {"get_wait", "put_release"}, Begin(t, label, s, w)
      PROVE  Decided'
  <2>1. Fresh(s, w) \in Calls /\ label \in Labels /\ Fits(label, Fresh(s, w).outcome)
    BY SemaphoreAssumption DEF Fresh, Calls, Outcomes, Labels, Fits
  <2> QED
    BY <1>2, <2>1, DecidedOf DEF Begin, Goto
<1>3. ASSUME NEW t \in Threads, NEW o \in Outcomes, NEW label \in Labels, Fits(label, o),
             call' = [call EXCEPT ![t].outcome = o], pc' = [pc EXCEPT ![t] = label]
      PROVE  Decided'
  <2> DEFINE c == [call[t] EXCEPT !.outcome = o]
  <2>1. c \in Calls /\ c.outcome = o /\ call' = [call EXCEPT ![t] = c]
    BY <1>3, <1>t DEF Calls
  <2> HIDE DEF c
  <2> QED
    BY <1>3, <2>1, DecidedOf
<1>4. ASSUME NEW t \in Threads, GetTaken(t) \/ GetTimesOut(t) \/ CallFails(t) \/ PutRelease(t)
      PROVE  Decided'
  <2>1. PICK o \in Outcomes, label \in Labels :
          /\ Fits(label, o)
          /\ call' = [call EXCEPT ![t].outcome = o] /\ pc' = [pc EXCEPT ![t] = label]
    BY <1>4 DEF GetTaken, GetTimesOut, CallFails, PutRelease, Goto, Fits, Outcomes, Labels
  <2> QED
    BY <2>1, <1>3
<1>5. ASSUME NEW t \in Threads, ReadCount(t) PROVE Decided'
  <2> DEFINE label == IF pc[t] = "get_read" THEN "get_write" ELSE "put_write"
  <2>1. /\ call' = [call EXCEPT ![t].read = tx_count[call[t].sem]]
        /\ pc' = [pc EXCEPT ![t] = label]
    BY <1>5 DEF ReadCount, Goto
  <2>2. Fits(label, call[t].outcome)
    BY <1>5, <1>d DEF ReadCount, Fits
  <2>3. \A u \in Threads : call'[u].outcome = call[u].outcome
    BY <1>t, <2>1 DEF Calls
  <2>4. \A u \in Threads : Fits(pc'[u], call'[u].outcome)
    BY <1>t, <1>d, <2>1, <2>2, <2>3
  <2> QED
    BY <2>4 DEF Decided
<1>6. ASSUME NEW t \in Threads, WriteCount(t) PROVE Decided'
  <2> DEFINE label == IF pc[t] = "get_write" THEN "get_return" ELSE "put_return"
  <2>1. call' = call /\ pc' = [pc EXCEPT ![t] = label]
    BY <1>6 DEF WriteCount, Goto
  <2>2. Fits(label, call[t].outcome)
    BY <1>6, <1>d DEF WriteCount, Fits
  <2>3. \A u \in Threads : Fits(pc'[u], call'[u].outcome)
    BY <1>t, <1>d, <2>1, <2>2
  <2> QED
    BY <2>3 DEF Decided
<1>7. ASSUME NEW t \in Threads, Return(t) PROVE Decided'
  <2>1. Idle \in Calls /\ "idle" \in Labels /\ Fits("idle", Idle.outcome)
    BY SemaphoreAssumption DEF Idle, Fresh, Calls, Outcomes, Waits, Labels, Fits
  <2> QED
    BY <1>7, <2>1, DecidedOf DEF Return, Goto
<1>8. "none" \in Waits
  BY DEF Waits
<1> QED
  BY <1>1, <1>2, <1>4, <1>5, <1>6, <1>7, <1>8 DEF Next, Create, Delete, PutCall, GetCall, Step, vars
-------------------------------------------------------------------------------
(***************************************************************************)
(* Handles                                                                 *)
(***************************************************************************)
LEMMA HoldersFinite ==
  ASSUME TypeOK, NEW x \in Names
  PROVE  IsFiniteSet(Holders(x)) /\ Cardinality(Holders(x)) \in Nat
<1>1. Holders(x) \in SUBSET Sems
  BY DEF TypeOK, Holders
<1>2. IsFiniteSet(Holders(x))
  BY <1>1, SemaphoreAssumption, FS_Subset
<1> QED
  BY <1>2, FS_CardinalityType

LEMMA HandlesStep == SemInv /\ [Next]_vars => HandlesCounted'
<1> SUFFICES ASSUME SemInv, [Next]_vars, NEW x \in Names
             PROVE  handles'[x] = Cardinality(Holders(x)')
  BY DEF HandlesCounted
<1>0. /\ IsFiniteSet(Holders(x)) /\ Cardinality(Holders(x)) \in Nat
      /\ handles[x] = Cardinality(Holders(x)) /\ handles \in [Names -> Nat]
  BY HoldersFinite DEF SemInv, HandlesCounted, TypeOK
<1>1. ASSUME NEW s \in Sems, NEW n \in Initials, Create(s, n)
      PROVE  handles'[x] = Cardinality(Holders(x)')
  <2>0. s \notin open /\ s \notin broken /\ open' = open \cup {s}
    BY <1>1 DEF Create, SemInv, TypeOK
  <2>1. CASE broken' = broken /\ handles' = [handles EXCEPT ![NameOf[s]] = @ + 1]
    <3>1. CASE x = NameOf[s]
      <4>1. Holders(x)' = Holders(x) \cup {s} /\ s \notin Holders(x)
        BY <2>0, <2>1, <3>1 DEF Holders
      <4>2. Cardinality(Holders(x)') = Cardinality(Holders(x)) + 1
        BY <1>0, <4>1, FS_AddElement
      <4> QED
        BY <1>0, <2>1, <3>1, <4>2
    <3>2. CASE x # NameOf[s]
      <4>1. Holders(x)' = Holders(x)
        BY <2>0, <2>1, <3>2 DEF Holders
      <4> QED
        BY <1>0, <2>1, <3>2, <4>1
    <3> QED
      BY <3>1, <3>2
  <2>2. CASE broken' = broken \cup {s} /\ handles' = handles
    <3>1. Holders(x)' = Holders(x)
      BY <2>0, <2>2 DEF Holders
    <3> QED
      BY <1>0, <2>2, <3>1
  <2> QED
    BY <1>1, <2>1, <2>2 DEF Create
<1>2. ASSUME NEW s \in Sems, Delete(s) PROVE handles'[x] = Cardinality(Holders(x)')
  <2>1. CASE s \notin broken /\ x = NameOf[s]
    <3>1. Holders(x)' = Holders(x) \ {s} /\ s \in Holders(x)
      BY <1>2, <2>1 DEF Delete, Holders
    <3>2. Cardinality(Holders(x)') = Cardinality(Holders(x)) - 1
      BY <1>0, <3>1, FS_RemoveElement
    <3> QED
      BY <1>0, <1>2, <2>1, <3>2 DEF Delete
  <2>2. CASE ~(s \notin broken /\ x = NameOf[s])
    <3>1. Holders(x)' = Holders(x)
      BY <1>2, <2>2 DEF Delete, Holders
    <3>2. handles'[x] = handles[x]
      BY <1>0, <1>2, <2>2 DEF Delete
    <3> QED
      BY <1>0, <3>1, <3>2
  <2> QED
    BY <2>1, <2>2
<1>3. ASSUME UNCHANGED <<open, broken, handles>> PROVE handles'[x] = Cardinality(Holders(x)')
  BY <1>0, <1>3 DEF Holders
<1>4. ASSUME NEW t \in Threads, Step(t) PROVE UNCHANGED <<open, broken, handles>>
  BY <1>4 DEF Step, GetTaken, GetTimesOut, CallFails, PutRelease, ReadCount, WriteCount, Return
<1> QED
  BY <1>1, <1>2, <1>3, <1>4 DEF Next, PutCall, GetCall, Begin, vars

(* The types, the handles, and that nobody is in a call on a block that    *)
(* does not exist, are inductive together.                                 *)
THEOREM SemaphoreInvariant == Spec => []SemInv
<1>1. SemInv /\ [Next]_vars => SemInv'
  BY TypeStep, HandlesStep, DecidedStep DEF SemInv
<1> QED
  BY <1>1, SemInit, PTL DEF Spec

(* Every variable keeps its type: the glue's count wraps within a ULONG, a *)
(* call in progress is on a block that exists.                             *)
THEOREM TypeTheorem == Spec => []TypeOK
<1>1. SemInv => TypeOK
  BY DEF SemInv
<1> QED
  BY <1>1, SemaphoreInvariant, PTL

(* No handle leaks over creates that fail, creates that share an object,   *)
(* and deletes, and none is closed that another block still uses.          *)
THEOREM HandlesTheorem == Spec => []HandlesCounted
<1>1. SemInv => HandlesCounted
  BY DEF SemInv
<1> QED
  BY <1>1, SemaphoreInvariant, PTL
-------------------------------------------------------------------------------
(***************************************************************************)
(* Independence                                                            *)
(***************************************************************************)
(* Each block has a name of its own.                                       *)
NamesDiffer == \A s, u \in Sems : NameOf[s] = NameOf[u] => s = u

(* What the abstract semaphores see.                                       *)
Tokens == [s \in Sems |-> IF s \in open \ broken THEN count[NameOf[s]] ELSE 0]
Phases == [t \in Threads |-> [phase |-> PhaseOf(t), sem |-> call[t].sem, wait |-> call[t].wait]]
Told   == [t \in Threads |-> Meaning(status[t])]

(* The phase that each outcome of the kernel leads to.                     *)
Answers == [taken |-> "granted", timeout |-> "empty", released |-> "added",
            refused |-> "full", failed |-> "failed"]

(* A step about one thread that moves it to label, with locals c, changes  *)
(* what is seen of that thread only.                                       *)
LEMMA PhaseOfOne ==
  ASSUME SemInv, NEW t \in Threads, NEW label, NEW c \in Calls,
         pc' = [pc EXCEPT ![t] = label], call' = [call EXCEPT ![t] = c]
  PROVE  /\ pc'[t] = label /\ call'[t] = c
         /\ Phases' = [Phases EXCEPT ![t] =
                         [phase |-> PhaseOf(t)', sem |-> c.sem, wait |-> c.wait]]
<1>1. pc \in [Threads -> Labels] /\ call \in [Threads -> Calls]
  BY DEF SemInv, TypeOK, Calls
<1>2. pc'[t] = label /\ call'[t] = c
  BY <1>1
<1>3. \A u \in Threads \ {t} : pc'[u] = pc[u] /\ call'[u] = call[u]
  BY <1>1
<1>4. \A u \in Threads \ {t} : PhaseOf(u)' = PhaseOf(u)
  BY <1>3 DEF PhaseOf
<1> QED
  BY <1>2, <1>3, <1>4 DEF Phases

(* A step of one semaphore's object changes the tokens of that block only. *)
LEMMA TokensOfOne ==
  ASSUME NamesDiffer, SemInv, NEW s \in open \ broken, NEW n \in 0 .. MaxCount,
         UNCHANGED <<open, broken>>, count' = [count EXCEPT ![NameOf[s]] = n]
  PROVE  Tokens' = [Tokens EXCEPT ![s] = n] /\ Tokens[s] = count[NameOf[s]]
<1>1. s \in Sems /\ NameOf \in [Sems -> Names] /\ count \in [Names -> 0 .. MaxCount]
  BY SemaphoreAssumption DEF SemInv, TypeOK
<1>2. count'[NameOf[s]] = n
  BY <1>1
<1>3. \A u \in Sems \ {s} : count'[NameOf[u]] = count[NameOf[u]]
  BY <1>1 DEF NamesDiffer
<1> QED
  BY <1>1, <1>2, <1>3 DEF Tokens

LEMMA AbstractInit == Init => Counting!Init
  BY DEF Init, Counting!Init, Counting!NoCall, PhaseOf, Idle, Fresh, Meaning

LEMMA CreateRefines ==
  ASSUME NamesDiffer, SemInv, NEW s \in Sems, NEW n \in Initials, Create(s, n)
  PROVE  Counting!Create(s, n)
<1>0. s \notin open /\ s \notin broken /\ open' = open \cup {s}
      /\ UNCHANGED <<pc, call, status>>
  BY DEF Create, SemInv, TypeOK
<1>1. /\ NameOf \in [Sems -> Names] /\ count \in [Names -> 0 .. MaxCount]
      /\ handles \in [Names -> Nat]
  BY SemaphoreAssumption DEF SemInv, TypeOK
<1>2. Phases' = Phases /\ Told' = Told
  BY <1>0 DEF Phases, PhaseOf, Told
<1>3. CASE /\ broken' = broken
           /\ count' = [count EXCEPT ![NameOf[s]] = CountAfterOpen(s, n)]
  <2>1. Holders(NameOf[s]) = {}
    BY <1>0 DEF Holders, NamesDiffer, SemInv, TypeOK
  <2>2. handles[NameOf[s]] = 0
    BY <1>1, <2>1, FS_EmptySet DEF SemInv, HandlesCounted
  <2>3. count'[NameOf[s]] = n
    BY <1>1, <1>3, <2>2 DEF CountAfterOpen
  <2>4. \A u \in Sems \ {s} : count'[NameOf[u]] = count[NameOf[u]]
    BY <1>1, <1>3 DEF NamesDiffer
  <2>5. Tokens' = [Tokens EXCEPT ![s] = n]
    BY <1>0, <1>3, <2>3, <2>4 DEF Tokens
  <2> QED
    BY <1>0, <1>2, <1>3, <2>5 DEF Counting!Create, Tokens, Phases, Told
<1>4. CASE broken' = broken \cup {s} /\ UNCHANGED <<handles, count>>
  <2>1. Tokens' = Tokens
    BY <1>0, <1>4 DEF Tokens
  <2> QED
    BY <1>0, <1>2, <1>4, <2>1 DEF Counting!Create, Tokens, Phases, Told
<1> QED
  BY <1>3, <1>4 DEF Create

LEMMA DeleteRefines ==
  ASSUME NamesDiffer, SemInv, NEW s \in Sems, Delete(s)
  PROVE  Counting!Delete(s)
<1>1. /\ s \in open /\ \A t \in Threads : call[t].sem # s
      /\ open' = open \ {s} /\ broken' = broken \ {s} /\ UNCHANGED <<count, pc, call, status>>
  BY DEF Delete, Unused
<1>2. Phases' = Phases /\ Told' = Told
  BY <1>1 DEF Phases, PhaseOf, Told
<1>3. Tokens' = [Tokens EXCEPT ![s] = 0]
  BY <1>1 DEF Tokens
<1>4. Counting!Unused(s)
  BY <1>1 DEF Counting!Unused
<1> QED
  BY <1>1, <1>2, <1>3, <1>4 DEF Counting!Delete, Tokens, Phases, Told

LEMMA BeginRefines ==
  ASSUME SemInv, NEW t \in Threads, NEW s \in Sems, NEW w \in Waits,
         NEW label \in {"get_wait", "put_release"}, Begin(t, label, s, w)
  PROVE  Counting!Begin(t, IF label = "get_wait" THEN "get" ELSE "put", s, w)
<1>1. Fresh(s, w) \in Calls
  BY SemaphoreAssumption DEF Fresh, Calls, Outcomes
<1>2. /\ pc'[t] = label
      /\ Phases' = [Phases EXCEPT ![t] = [phase |-> PhaseOf(t)', sem |-> s, wait |-> w]]
  BY <1>1, PhaseOfOne DEF Begin, Goto, Fresh
<1>3. PhaseOf(t)' = IF label = "get_wait" THEN "get" ELSE "put"
  BY <1>2 DEF PhaseOf
<1>4. PhaseOf(t) = "idle" /\ s \in open /\ UNCHANGED <<open, broken, count>>
  BY DEF Begin, PhaseOf
<1>5. Tokens' = Tokens
  BY <1>4 DEF Tokens
<1>6. Told' = [Told EXCEPT ![t] = "none"]
  <2>1. status' = [status EXCEPT ![t] = "none"] /\ status \in [Threads -> Statuses]
    BY DEF Begin, SemInv, TypeOK
  <2>2. Meaning("none") = "none"
    BY DEF Meaning
  <2> QED
    BY <2>1, <2>2 DEF Told
<1> QED
  BY <1>2, <1>3, <1>4, <1>5, <1>6 DEF Counting!Begin, Tokens, Phases, Told

LEMMA StepRefines ==
  ASSUME NamesDiffer, SemInv, NEW t \in Threads, Step(t)
  PROVE  \/ Counting!Take(t) \/ Counting!TimeOut(t) \/ Counting!Add(t) \/ Counting!Refuse(t)
         \/ Counting!Fail(t) \/ Counting!Return(t)
         \/ UNCHANGED <<open, broken, Tokens, Phases, Told>>
<1> DEFINE s == call[t].sem
<1>t. /\ pc \in [Threads -> Labels] /\ call \in [Threads -> Calls]
      /\ NameOf \in [Sems -> Names] /\ count \in [Names -> 0 .. MaxCount]
      /\ open \subseteq Sems /\ broken \subseteq open
  BY SemaphoreAssumption DEF SemInv, TypeOK, Calls
<1>o. pc[t] # "idle" => s \in open
  BY DEF SemInv, TypeOK
<1>p. Phases[t] = [phase |-> PhaseOf(t), sem |-> s, wait |-> call[t].wait]
  BY DEF Phases
<1>a. ASSUME NEW o \in {"taken", "timeout", "released", "refused", "failed"},
             NEW label \in {"get_read", "put_read"},
             call' = [call EXCEPT ![t].outcome = o], pc' = [pc EXCEPT ![t] = label]
      PROVE  Phases' = [Phases EXCEPT ![t].phase = Answers[o]]
  <2> DEFINE c == [call[t] EXCEPT !.outcome = o]
  <2>1. c \in Calls /\ c.sem = s /\ c.wait = call[t].wait /\ c.outcome = o
    BY <1>t DEF Calls, Outcomes
  <2>2. call' = [call EXCEPT ![t] = c]
    BY <1>a, <1>t
  <2>p. pc' = [pc EXCEPT ![t] = label]
    BY <1>a
  <2> HIDE DEF c
  <2>3. /\ pc'[t] = label /\ call'[t] = c
        /\ Phases' = [Phases EXCEPT ![t] =
                        [phase |-> PhaseOf(t)', sem |-> c.sem, wait |-> c.wait]]
    BY <2>p, <2>1, <2>2, PhaseOfOne
  <2>4. PhaseOf(t)' = Answers[o]
    BY <1>a, <2>1, <2>3 DEF PhaseOf, Answers
  <2> QED
    BY <2>1, <2>3, <2>4, <1>p DEF Phases
<1>b. /\ Answers["taken"] = "granted" /\ Answers["timeout"] = "empty"
      /\ Answers["released"] = "added" /\ Answers["refused"] = "full"
      /\ Answers["failed"] = "failed"
  BY DEF Answers
<1>s. status' = status => Told' = Told
  BY DEF Told
<1>1. ASSUME GetTaken(t) PROVE Counting!Take(t)
  <2>1. PhaseOf(t) = "get" /\ s \in open \ broken /\ count[NameOf[s]] > 0
    BY <1>1, <1>o DEF GetTaken, PhaseOf, Object
  <2>2. count[NameOf[s]] \in 0 .. MaxCount
    BY <1>t, <2>1
  <2>3. count[NameOf[s]] - 1 \in 0 .. MaxCount
    BY <2>1, <2>2, SemaphoreAssumption
  <2>4. Tokens' = [Tokens EXCEPT ![s] = count[NameOf[s]] - 1] /\ Tokens[s] = count[NameOf[s]]
        /\ UNCHANGED <<open, broken, status>>
    BY <1>1, <2>1, <2>3, TokensOfOne DEF GetTaken, Object
  <2>5. Phases' = [Phases EXCEPT ![t].phase = "granted"]
    <3>1. call' = [call EXCEPT ![t].outcome = "taken"] /\ pc' = [pc EXCEPT ![t] = "get_read"]
      BY <1>1 DEF GetTaken, Goto
    <3>2. Phases' = [Phases EXCEPT ![t].phase = Answers["taken"]]
      BY <3>1, <1>a
    <3> QED
      BY <3>2, <1>b
  <2> QED
    BY <1>p, <1>s, <2>1, <2>4, <2>5
       DEF Counting!Take, Counting!Decide, Counting!Tokens, Tokens, Phases, Told
<1>2. ASSUME GetTimesOut(t) PROVE Counting!TimeOut(t)
  <2>1. /\ PhaseOf(t) = "get" /\ s \in open \ broken /\ count[NameOf[s]] = 0
        /\ call[t].wait # "forever" /\ UNCHANGED <<open, broken, count, status>>
    BY <1>2, <1>o DEF GetTimesOut, PhaseOf, Object
  <2>2. Tokens' = Tokens /\ Tokens[s] = 0
    BY <1>t, <2>1 DEF Tokens
  <2>3. Tokens' = [Tokens EXCEPT ![s] = 0]
    BY <2>2 DEF Tokens
  <2>4. Phases' = [Phases EXCEPT ![t].phase = "empty"]
    <3>1. call' = [call EXCEPT ![t].outcome = "timeout"] /\ pc' = [pc EXCEPT ![t] = "get_read"]
      BY <1>2 DEF GetTimesOut, Goto
    <3>2. Phases' = [Phases EXCEPT ![t].phase = Answers["timeout"]]
      BY <3>1, <1>a
    <3> QED
      BY <3>2, <1>b
  <2> QED
    BY <1>p, <1>s, <2>1, <2>2, <2>3, <2>4
       DEF Counting!TimeOut, Counting!Decide, Counting!Tokens, Tokens, Phases, Told
<1>3. ASSUME PutRelease(t) PROVE Counting!Add(t) \/ Counting!Refuse(t)
  <2>1. PhaseOf(t) = "put" /\ s \in open \ broken /\ UNCHANGED <<open, broken, status>>
    BY <1>3, <1>o DEF PutRelease, PhaseOf
  <2>2. count[NameOf[s]] \in 0 .. MaxCount
    BY <1>t, <2>1
  <2>3. CASE count[NameOf[s]] < MaxCount
    <3>1. count[NameOf[s]] + 1 \in 0 .. MaxCount
      BY <2>2, <2>3, SemaphoreAssumption
    <3>2. Tokens' = [Tokens EXCEPT ![s] = count[NameOf[s]] + 1] /\ Tokens[s] = count[NameOf[s]]
      BY <1>3, <2>1, <2>3, <3>1, TokensOfOne DEF PutRelease, Object
    <3>3. Phases' = [Phases EXCEPT ![t].phase = "added"]
      <4>1. call' = [call EXCEPT ![t].outcome = "released"] /\ pc' = [pc EXCEPT ![t] = "put_read"]
        BY <1>3, <2>3 DEF PutRelease, Goto, Object
      <4>2. Phases' = [Phases EXCEPT ![t].phase = Answers["released"]]
        BY <4>1, <1>a
      <4> QED
        BY <4>2, <1>b
    <3>4. Counting!Add(t)
      BY <1>p, <1>s, <2>1, <2>3, <3>2, <3>3
         DEF Counting!Add, Counting!Decide, Counting!Tokens, Tokens, Phases, Told
    <3> QED
      BY <3>4
  <2>4. CASE ~(count[NameOf[s]] < MaxCount)
    <3>1. count[NameOf[s]] = MaxCount
      BY <2>2, <2>4, SemaphoreAssumption
    <3>2. count' = count
      BY <1>3, <2>4 DEF PutRelease, Object
    <3>3. Tokens' = Tokens /\ Tokens[s] = MaxCount
      BY <1>t, <2>1, <3>1, <3>2 DEF Tokens
    <3>4. Tokens' = [Tokens EXCEPT ![s] = MaxCount]
      BY <3>3 DEF Tokens
    <3>5. Phases' = [Phases EXCEPT ![t].phase = "full"]
      <4>1. call' = [call EXCEPT ![t].outcome = "refused"] /\ pc' = [pc EXCEPT ![t] = "put_read"]
        BY <1>3, <2>4 DEF PutRelease, Goto, Object
      <4>2. Phases' = [Phases EXCEPT ![t].phase = Answers["refused"]]
        BY <4>1, <1>a
      <4> QED
        BY <4>2, <1>b
    <3>6. Counting!Refuse(t)
      BY <1>p, <1>s, <2>1, <3>3, <3>4, <3>5
         DEF Counting!Refuse, Counting!Decide, Counting!Tokens, Tokens, Phases, Told
    <3> QED
      BY <3>6
  <2> QED
    BY <2>3, <2>4
<1>4. ASSUME CallFails(t) PROVE Counting!Fail(t)
  <2>1. PhaseOf(t) \in {"get", "put"} /\ s \in broken /\ UNCHANGED <<open, broken, count, status>>
    BY <1>4 DEF CallFails, PhaseOf
  <2>2. Tokens' = Tokens
    BY <2>1 DEF Tokens
  <2>3. Phases' = [Phases EXCEPT ![t].phase = "failed"]
    <3> DEFINE label == IF pc[t] = "get_wait" THEN "get_read" ELSE "put_read"
    <3>1. call' = [call EXCEPT ![t].outcome = "failed"] /\ pc' = [pc EXCEPT ![t] = label]
      BY <1>4 DEF CallFails, Goto
    <3>2. label \in {"get_read", "put_read"}
      OBVIOUS
    <3> HIDE DEF label
    <3>3. Phases' = [Phases EXCEPT ![t].phase = Answers["failed"]]
      BY <3>1, <3>2, <1>a
    <3> QED
      BY <3>3, <1>b
  <2> QED
    BY <1>p, <1>s, <2>1, <2>2, <2>3 DEF Counting!Fail, Tokens, Phases, Told
<1>5. ASSUME ReadCount(t) PROVE UNCHANGED <<open, broken, Tokens, Phases, Told>>
  <2> DEFINE c == [call[t] EXCEPT !.read = tx_count[call[t].sem]]
             label == IF pc[t] = "get_read" THEN "get_write" ELSE "put_write"
  <2>0. tx_count[call[t].sem] \in 0 .. UlongSize - 1
    BY <1>5, <1>o, <1>t DEF ReadCount, SemInv, TypeOK
  <2>1. c \in Calls /\ c.sem = s /\ c.wait = call[t].wait /\ c.outcome = call[t].outcome
    BY <1>t, <2>0 DEF Calls
  <2>2. call' = [call EXCEPT ![t] = c] /\ pc' = [pc EXCEPT ![t] = label]
    BY <1>5, <1>t DEF ReadCount, Goto
  <2>3. label \notin {"idle", "get_wait", "put_release"}
    OBVIOUS
  <2>4. pc[t] \notin {"idle", "get_wait", "put_release"}
    BY <1>5 DEF ReadCount
  <2> HIDE DEF c, label
  <2>5. /\ pc'[t] = label /\ call'[t] = c
        /\ Phases' = [Phases EXCEPT ![t] =
                        [phase |-> PhaseOf(t)', sem |-> c.sem, wait |-> c.wait]]
    BY <2>1, <2>2, PhaseOfOne
  <2>6. PhaseOf(t)' = PhaseOf(t)
    BY <2>1, <2>3, <2>4, <2>5 DEF PhaseOf
  <2>7. Phases' = Phases
    BY <1>p, <2>1, <2>5, <2>6 DEF Phases
  <2>8. UNCHANGED <<open, broken, count, status>>
    BY <1>5 DEF ReadCount
  <2> QED
    BY <1>s, <2>7, <2>8 DEF Tokens
<1>6. ASSUME WriteCount(t) PROVE UNCHANGED <<open, broken, Tokens, Phases, Told>>
  <2>1. /\ pc[t] \in {"get_write", "put_write"} /\ UNCHANGED <<open, broken, count, call, status>>
        /\ \E label \in {"get_return", "put_return"} : pc' = [pc EXCEPT ![t] = label]
    BY <1>6 DEF WriteCount, Goto
  <2>2. ASSUME NEW u \in Threads PROVE PhaseOf(u)' = PhaseOf(u)
    <3>1. CASE u = t
      <4>1. /\ pc'[u] \in {"get_return", "put_return"} /\ call'[u] = call[u]
            /\ pc[u] \in {"get_write", "put_write"}
        BY <1>t, <2>1, <3>1
      <4> QED
        BY <4>1 DEF PhaseOf
    <3>2. CASE u # t
      <4>1. pc'[u] = pc[u] /\ call'[u] = call[u]
        BY <1>t, <2>1, <3>2
      <4> QED
        BY <4>1 DEF PhaseOf
    <3> QED
      BY <3>1, <3>2
  <2> QED
    BY <1>s, <2>1, <2>2 DEF Tokens, Phases
<1>7. ASSUME Return(t) PROVE Counting!Return(t)
  <2> DEFINE told == IF pc[t] = "get_return" THEN GetStatus(call[t].outcome)
                                             ELSE PutStatus(call[t].outcome)
  <2>1. /\ pc[t] \in {"get_return", "put_return"} /\ pc' = [pc EXCEPT ![t] = "idle"]
        /\ call' = [call EXCEPT ![t] = Idle] /\ UNCHANGED <<open, broken, count>>
        /\ status' = [status EXCEPT ![t] = told]
    BY <1>7 DEF Return, Goto
  <2>2. Idle \in Calls /\ Idle.sem = NoSem /\ Idle.wait = "none"
    BY SemaphoreAssumption DEF Idle, Fresh, Calls, Outcomes, Waits
  <2>3. /\ pc'[t] = "idle"
        /\ Phases' = [Phases EXCEPT ![t] = [phase |-> PhaseOf(t)', sem |-> NoSem, wait |-> "none"]]
    BY <2>1, <2>2, PhaseOfOne
  <2>4. PhaseOf(t)' = "idle" /\ PhaseOf(t) \in {"granted", "empty", "added", "full", "failed"}
    BY <2>1, <2>3 DEF PhaseOf
  <2>5. Tokens' = Tokens
    BY <2>1 DEF Tokens
  <2>6. Meaning(told) = Counting!Answer[PhaseOf(t)]
    <3>1. Fits(pc[t], call[t].outcome)
      BY DEF SemInv, Decided
    <3>2. CASE pc[t] = "get_return"
      <4>1. call[t].outcome \in {"taken", "timeout", "failed"}
        BY <3>1, <3>2 DEF Fits
      <4>2. PhaseOf(t) = Answers[call[t].outcome]
        BY <3>2, <4>1 DEF PhaseOf, Answers
      <4>3. told = GetStatus(call[t].outcome)
        BY <3>2
      <4> HIDE DEF told
      <4> QED
        BY <4>1, <4>2, <4>3, <1>b DEF GetStatus, Meaning, Counting!Answer
    <3>3. CASE pc[t] = "put_return"
      <4>1. call[t].outcome \in {"released", "refused", "failed"}
        BY <3>1, <3>3 DEF Fits
      <4>2. PhaseOf(t) = Answers[call[t].outcome]
        BY <3>3, <4>1 DEF PhaseOf, Answers
      <4>3. told = PutStatus(call[t].outcome)
        BY <3>3
      <4> HIDE DEF told
      <4> QED
        BY <4>1, <4>2, <4>3, <1>b DEF PutStatus, Meaning, Counting!Answer
    <3> QED
      BY <2>1, <3>2, <3>3
  <2>7. Told' = [Told EXCEPT ![t] = Counting!Answer[PhaseOf(t)]]
    <3>1. status \in [Threads -> Statuses]
      BY DEF SemInv, TypeOK
    <3> HIDE DEF told
    <3> QED
      BY <2>1, <2>6, <3>1 DEF Told
  <2>8. PhaseOf(t) \in DOMAIN Counting!Answer
    BY <2>4 DEF Counting!Answer
  <2> QED
    BY <1>p, <2>3, <2>4, <2>5, <2>7, <2>8, <2>1
       DEF Counting!Return, Counting!NoCall, Tokens, Phases, Told
<1> QED
  BY <1>1, <1>2, <1>3, <1>4, <1>5, <1>6, <1>7 DEF Step

LEMMA NextRefines ==
  ASSUME NamesDiffer, SemInv, [Next]_vars PROVE [Counting!Next]_Counting!vars
<1> DEFINE Goal == Counting!Next \/ UNCHANGED <<open, broken, Tokens, Phases, Told>>
<1> SUFFICES Goal
  BY DEF Counting!vars, Tokens, Phases, Told
<1>1. ASSUME NEW s \in Sems, NEW n \in Initials, Create(s, n) PROVE Goal
  BY <1>1, CreateRefines DEF Counting!Next
<1>2. ASSUME NEW s \in Sems, Delete(s) PROVE Goal
  BY <1>2, DeleteRefines DEF Counting!Next
<1>3. ASSUME NEW t \in Threads, NEW s \in Sems, PutCall(t, s) PROVE Goal
  <2>1. "none" \in Waits
    BY DEF Waits
  <2>2. Counting!Begin(t, "put", s, "none")
    BY <1>3, <2>1, BeginRefines DEF PutCall
  <2> QED
    BY <2>2 DEF Counting!Next
<1>4. ASSUME NEW t \in Threads, NEW s \in Sems, NEW w \in Waits, GetCall(t, s, w) PROVE Goal
  <2>1. Counting!Begin(t, "get", s, w)
    BY <1>4, BeginRefines DEF GetCall
  <2> QED
    BY <2>1 DEF Counting!Next, Waits, Counting!Waits
<1>5. ASSUME NEW t \in Threads, Step(t) PROVE Goal
  BY <1>5, StepRefines DEF Counting!Next
<1>6. CASE UNCHANGED vars
  BY <1>6 DEF vars, Tokens, Phases, PhaseOf, Told
<1> QED
  BY <1>1, <1>2, <1>3, <1>4, <1>5, <1>6 DEF Next

(* Blocks with names of their own are independent counting semaphores: a   *)
(* get takes its token at the kernel's wait, a put adds it at the release, *)
(* what the glue's own count does in between is not seen, and the status   *)
(* says what became of the call.                                           *)
THEOREM SemaphoreRefinement == ASSUME NamesDiffer PROVE Spec => ImplementsSemaphores
<1>1. SemInv /\ [Next]_vars => [Counting!Next]_Counting!vars
  BY NextRefines
<1> QED
  BY <1>1, AbstractInit, SemaphoreInvariant, PTL DEF Spec, ImplementsSemaphores, Counting!Spec
===============================================================================
