-------------------------- MODULE TxEventFlags_proof --------------------------
(***************************************************************************)
(* Proofs about TxEventFlags, for every set of threads, flags and calls    *)
(* and every width of the tick counter: the invariant of the critical      *)
(* section, the meaning of the status a get returns, with a counter that   *)
(* wraps, and the refinement of the atomic group of EventFlags.            *)
(***************************************************************************)
EXTENDS TxEventFlags, TLAPS

USE DEF TX_OR, TX_OR_CLEAR, TX_AND, TX_AND_CLEAR, Options, TX_NO_WAIT,
        TX_WAIT_FOREVER, INFINITE, TX_SUCCESS, TX_NO_EVENTS, NoStatus

-------------------------------------------------------------------------------
(***************************************************************************)
(* The operators on flag words                                             *)
(***************************************************************************)

(* What satisfies a request is part of the word.                           *)
LEMMA SatisfyingIsSubset ==
  ASSUME NEW word, NEW flags, NEW option
  PROVE  Satisfying(word, flags, option) \subseteq word
  BY DEF Satisfying

(* A set keeps the word within the flags that the callers use.             *)
LEMMA UpdatedType ==
  ASSUME NEW word \in SUBSET Flags, NEW flags \in SUBSET Flags, NEW option
  PROVE  Updated(word, flags, option) \in SUBSET Flags
  BY DEF Updated

(* The fields of a request.                                                *)
LEMMA RequestType ==
  ASSUME NEW r \in Requests \cup {NoRequest}
  PROVE  /\ r.op \in {"get", "set", "none"}
         /\ r.flags \in SUBSET Flags
         /\ r.option \in Options
         /\ r.wait \in 0 .. ULONG_MAX
  BY RequestAssumption, UlongAssumption DEF NoRequest

(* A deadline is a DWORD.                                                  *)
LEMMA TimeoutsType ==
  ASSUME now \in 0 .. LastTick, NEW wait, NEW x \in Timeouts(wait)
  PROVE  x \in 0 .. ULONG_MAX
  BY UlongAssumption, ClockAssumption DEF Timeouts

-------------------------------------------------------------------------------
(***************************************************************************)
(* The critical section                                                    *)
(***************************************************************************)

(* The initial state: no group, every thread idle.                         *)
LEMMA SectionInit == Init => SectionInv
<1> SUFFICES ASSUME Init PROVE SectionInv
  OBVIOUS
<1>1. TypeOK
  <2>1. 0 \in 0 .. LastTick /\ 0 \in 0 .. ULONG_MAX
    BY UlongAssumption, ClockAssumption
  <2>2. current \in SUBSET Flags /\ seen \in [Threads -> SUBSET Flags]
                               /\ satisfied \in [Threads -> SUBSET Flags]
    BY DEF Init
  <2> QED
    BY <2>1, <2>2 DEF Init, TypeOK, Labels
<1>2. SectionOwned /\ CopyIsFresh /\ UnusedWhenDeleted
  BY ThreadAssumption
     DEF Init, SectionOwned, CopyIsFresh, UnusedWhenDeleted, Section, GetSection, SetSection
<1>3. CallShape
  BY DEF Init, CallShape, GetSection, SetSection
<1> QED
  BY <1>1, <1>2, <1>3 DEF SectionInv

(* Every variable keeps its type.                                          *)
LEMMA TypeStep == SectionInv /\ [Next]_vars => TypeOK'
<1> SUFFICES ASSUME SectionInv, [Next]_vars PROVE TypeOK'
  OBVIOUS
<1> USE DEF SectionInv, TypeOK, locals, Goto, Forget, Labels, Section, GetSection, SetSection
<1>1. CASE Create
  BY <1>1 DEF Create
<1>2. CASE Delete
  BY <1>2 DEF Delete
<1>3. CASE Tick
  BY <1>3, UlongAssumption, ClockAssumption DEF Tick
<1>4. ASSUME NEW t \in Threads, NEW r \in Requests, GetCall(t, r) PROVE TypeOK'
  BY <1>4, TimeoutsType DEF GetCall
<1>5. ASSUME NEW t \in Threads, NEW r \in Requests, SetCall(t, r) PROVE TypeOK'
  BY <1>5 DEF SetCall
<1>6. ASSUME NEW t \in Threads, Step(t) PROVE TypeOK'
  <2>1. CASE GetEnter(t)
    BY <2>1 DEF GetEnter
  <2>2. CASE GetRead(t)
    BY <2>2, SatisfyingIsSubset DEF GetRead
  <2>3. CASE GetClear(t)
    BY <2>3 DEF GetClear
  <2>4. CASE GetLeave(t)
    BY <2>4 DEF GetLeave
  <2>5. CASE GetTest(t)
    BY <2>5 DEF GetTest
  <2>6. CASE GetReturn(t)
    BY <2>6, UlongAssumption, ClockAssumption DEF GetReturn, Status
  <2>7. CASE SetEnter(t)
    BY <2>7 DEF SetEnter
  <2>8. CASE SetRead(t)
    BY <2>8 DEF SetRead
  <2>9. CASE SetWrite(t)
    BY <2>9, UpdatedType, RequestType DEF SetWrite
  <2>10. CASE SetLeave(t)
    BY <2>10, UlongAssumption, ClockAssumption DEF SetLeave
  <2> QED
    BY <1>6, <2>1, <2>2, <2>3, <2>4, <2>5, <2>6, <2>7, <2>8, <2>9, <2>10 DEF Step
<1>7. CASE UNCHANGED vars
  BY <1>7 DEF vars
<1> QED
  BY <1>1, <1>2, <1>3, <1>4, <1>5, <1>6, <1>7 DEF Next

(* The owner of the section is the thread inside it, its copy of the word  *)
(* stays fresh, and a deleted group stays unused.                          *)
LEMMA SectionStep ==
  SectionInv /\ [Next]_vars => SectionOwned' /\ CopyIsFresh' /\ UnusedWhenDeleted'
<1> DEFINE Goal == SectionOwned' /\ CopyIsFresh' /\ UnusedWhenDeleted'
<1> SUFFICES ASSUME SectionInv, [Next]_vars PROVE Goal
  OBVIOUS
<1> USE ThreadAssumption
    DEF SectionInv, TypeOK, SectionOwned, CopyIsFresh, UnusedWhenDeleted, locals, Goto, Forget,
        Labels, Section, GetSection, SetSection
<1>1. CASE Create
  BY <1>1 DEF Create
<1>2. CASE Delete
  BY <1>2 DEF Delete
<1>3. CASE Tick
  BY <1>3 DEF Tick
<1>4. ASSUME NEW t \in Threads, NEW r \in Requests, GetCall(t, r) PROVE Goal
  BY <1>4 DEF GetCall
<1>5. ASSUME NEW t \in Threads, NEW r \in Requests, SetCall(t, r) PROVE Goal
  BY <1>5 DEF SetCall
<1>6. ASSUME NEW t \in Threads, Step(t) PROVE Goal
  <2>1. CASE GetEnter(t)
    BY <2>1 DEF GetEnter
  <2>2. CASE GetRead(t)
    BY <2>2 DEF GetRead
  <2>3. CASE GetClear(t)
    BY <2>3 DEF GetClear
  <2>4. CASE GetLeave(t)
    BY <2>4 DEF GetLeave
  <2>5. CASE GetTest(t)
    BY <2>5 DEF GetTest
  <2>6. CASE GetReturn(t)
    BY <2>6 DEF GetReturn
  <2>7. CASE SetEnter(t)
    BY <2>7 DEF SetEnter
  <2>8. CASE SetRead(t)
    BY <2>8 DEF SetRead
  <2>9. CASE SetWrite(t)
    BY <2>9 DEF SetWrite
  <2>10. CASE SetLeave(t)
    BY <2>10 DEF SetLeave
  <2> QED
    BY <1>6, <2>1, <2>2, <2>3, <2>4, <2>5, <2>6, <2>7, <2>8, <2>9, <2>10 DEF Step
<1>7. CASE UNCHANGED vars
  BY <1>7 DEF vars
<1> HIDE DEF Goal
<1> QED
  BY <1>1, <1>2, <1>3, <1>4, <1>5, <1>6, <1>7 DEF Next

(* Every thread keeps to the shape of its call.                            *)
LEMMA ShapeStep == SectionInv /\ [Next]_vars => CallShape'
<1> SUFFICES ASSUME SectionInv, [Next]_vars PROVE CallShape'
  OBVIOUS
<1> USE DEF SectionInv, TypeOK, CallShape, locals, Goto, Forget,
        Labels, Section, GetSection, SetSection
<1>1. CASE Create
  BY <1>1 DEF Create
<1>2. CASE Delete
  BY <1>2 DEF Delete
<1>3. CASE Tick
  BY <1>3 DEF Tick
<1>4. ASSUME NEW t \in Threads, NEW r \in Requests, GetCall(t, r) PROVE CallShape'
  BY <1>4 DEF GetCall
<1>5. ASSUME NEW t \in Threads, NEW r \in Requests, SetCall(t, r) PROVE CallShape'
  BY <1>5 DEF SetCall
<1>6. ASSUME NEW t \in Threads, Step(t) PROVE CallShape'
  <2>1. CASE GetEnter(t)
    BY <2>1 DEF GetEnter
  <2>2. CASE GetRead(t)
    BY <2>2 DEF GetRead
  <2>3. CASE GetClear(t)
    BY <2>3 DEF GetClear
  <2>4. CASE GetLeave(t)
    BY <2>4 DEF GetLeave
  <2>5. CASE GetTest(t)
    BY <2>5 DEF GetTest, GoesOn
  <2>6. CASE GetReturn(t)
    BY <2>6 DEF GetReturn
  <2>7. CASE SetEnter(t)
    BY <2>7 DEF SetEnter
  <2>8. CASE SetRead(t)
    BY <2>8 DEF SetRead
  <2>9. CASE SetWrite(t)
    BY <2>9 DEF SetWrite
  <2>10. CASE SetLeave(t)
    BY <2>10 DEF SetLeave
  <2> QED
    BY <1>6, <2>1, <2>2, <2>3, <2>4, <2>5, <2>6, <2>7, <2>8, <2>9, <2>10 DEF Step
<1>7. CASE UNCHANGED vars
  BY <1>7 DEF vars
<1> QED
  BY <1>1, <1>2, <1>3, <1>4, <1>5, <1>6, <1>7 DEF Next

(***************************************************************************)
(* At most one thread is between EnterCriticalSection and Leave..., and    *)
(* the word it copied is the word until it writes it back.                 *)
(***************************************************************************)
THEOREM SectionTheorem == Spec => []SectionInv
<1>1. SectionInv /\ [Next]_vars => SectionInv'
  BY TypeStep, SectionStep, ShapeStep DEF SectionInv
<1> QED
  BY SectionInit, <1>1, PTL DEF Spec

(* No update is lost: a copy about to be written back is the current word. *)
THEOREM FreshTheorem == Spec => []CopyIsFresh
<1>1. SectionInv => CopyIsFresh
  BY DEF SectionInv
<1> QED
  BY SectionTheorem, <1>1, PTL

(* Every variable keeps its type.                                          *)
THEOREM TypeTheorem == Spec => []TypeOK
<1>1. SectionInv => TypeOK
  BY DEF SectionInv
<1> QED
  BY SectionTheorem, <1>1, PTL

-------------------------------------------------------------------------------
(***************************************************************************)
(* Refinement of the atomic group                                          *)
(***************************************************************************)

(* The two modules read options and flag words alike.                      *)
LEMMA SameOperators ==
  ASSUME NEW word, NEW flags, NEW option
  PROVE  /\ Atomic!Satisfying(word, flags, option) = Satisfying(word, flags, option)
         /\ Atomic!Updated(word, flags, option) = Updated(word, flags, option)
         /\ Atomic!Clears(option) = Clears(option)
  BY DEF Atomic!Satisfying, Satisfying, Atomic!WantsAll, WantsAll, Atomic!Updated, Updated,
         Atomic!Clears, Clears, Atomic!TX_OR, Atomic!TX_AND, Atomic!TX_OR_CLEAR,
         Atomic!TX_AND_CLEAR

(* A step of t that leaves the locals of the others alone moves, in the    *)
(* atomic group, t alone.                                                  *)
LEMMA OnlyOnePhase ==
  ASSUME NEW t \in Threads,
         \A u \in Threads \ {t} :
           pc'[u] = pc[u] /\ satisfied'[u] = satisfied[u] /\ seen'[u] = seen[u]
  PROVE  /\ [u \in Threads |-> Phase(u)]' = [[u \in Threads |-> Phase(u)] EXCEPT ![t] = Phase(t)']
         /\ [u \in Threads |-> Got(u)]' = [[u \in Threads |-> Got(u)] EXCEPT ![t] = Got(t)']
         /\ Phase(t)' = Phase(t) => [u \in Threads |-> Phase(u)]' = [u \in Threads |-> Phase(u)]
         /\ Got(t)' = Got(t) => [u \in Threads |-> Got(u)]' = [u \in Threads |-> Got(u)]
<1>1. \A u \in Threads \ {t} : Phase(u)' = Phase(u)
  BY DEF Phase
<1>2. \A u \in Threads \ {t} : Got(u)' = Got(u)
  BY <1>1 DEF Got
<1> QED
  BY <1>1, <1>2

(* A step of t that changes neither the word nor what t is in the atomic   *)
(* group is a stuttering step there.                                       *)
LEMMA StutterOfOne ==
  ASSUME NEW t \in Threads,
         \A u \in Threads \ {t} :
           pc'[u] = pc[u] /\ satisfied'[u] = satisfied[u] /\ seen'[u] = seen[u],
         current' = current, req' = req,
         Phase(t)' = Phase(t), Got(t)' = Got(t)
  PROVE  UNCHANGED Atomic!vars
<1>1. /\ [u \in Threads |-> Phase(u)]' = [u \in Threads |-> Phase(u)]
      /\ [u \in Threads |-> Got(u)]' = [u \in Threads |-> Got(u)]
  BY OnlyOnePhase
<1> QED
  BY <1>1 DEF Atomic!vars

(* The initial group is the initial atomic group.                          *)
LEMMA AtomicInit == Init => Atomic!Init
  BY DEF Init, Atomic!Init, Phase, Got

(* Every step is a step of the atomic group or leaves it alone.            *)
LEMMA AtomicStep == SectionInv /\ [Next]_vars => [Atomic!Next]_Atomic!vars
<1> DEFINE Goal == [Atomic!Next]_Atomic!vars
<1> SUFFICES ASSUME SectionInv, [Next]_vars PROVE Goal
  OBVIOUS
<1> USE DEF SectionInv, TypeOK, locals, Goto, Forget
<1>1. CASE Create
  <2>1. \A u \in Threads : Phase(u) = "idle"
    BY <1>1 DEF Create, UnusedWhenDeleted, Phase
  <2>2. /\ [u \in Threads |-> Phase(u)]' = [u \in Threads |-> Phase(u)]
        /\ [u \in Threads |-> Got(u)]' = [u \in Threads |-> Got(u)]
    BY <1>1 DEF Create, Phase, Got
  <2>3. Atomic!Reset
    BY <1>1, <2>1, <2>2 DEF Create, Atomic!Reset
  <2> QED
    BY <2>3 DEF Atomic!Next
<1>2. ASSUME Delete \/ Tick \/ UNCHANGED vars PROVE Goal
  <2>1. UNCHANGED <<current, pc, req, seen, satisfied>>
    BY <1>2 DEF Delete, Tick, vars
  <2> QED
    BY <2>1 DEF Atomic!vars, Phase, Got
<1>3. ASSUME NEW t \in Threads, NEW r \in Requests, GetCall(t, r) \/ SetCall(t, r)
      PROVE  Goal
  <2>1. /\ pc[t] = "idle" /\ pc' = [pc EXCEPT ![t] = pc'[t]] /\ pc'[t] \in {"get_enter", "set_enter"}
        /\ satisfied' = [satisfied EXCEPT ![t] = {}]
        /\ req' = [req EXCEPT ![t] = r]
        /\ UNCHANGED <<current, seen>>
    BY <1>3 DEF GetCall, SetCall
  <2>2. Phase(t) = "idle" /\ Phase(t)' = "pending" /\ Got(t) = {} /\ Got(t)' = {}
    BY <2>1 DEF Phase, Got
  <2>3. /\ [u \in Threads |-> Phase(u)]' = [[u \in Threads |-> Phase(u)] EXCEPT ![t] = "pending"]
        /\ [u \in Threads |-> Got(u)]' = [u \in Threads |-> Got(u)]
    BY <2>1, <2>2, OnlyOnePhase
  <2>4. Atomic!Call(t, r)
    BY <2>1, <2>2, <2>3 DEF Atomic!Call
  <2> QED
    BY <2>4 DEF Atomic!Next
<1>4. ASSUME NEW t \in Threads, Step(t) PROVE Goal
  <2>0. \A u \in Threads \ {t} :
          pc'[u] = pc[u] /\ satisfied'[u] = satisfied[u] /\ seen'[u] = seen[u]
    BY <1>4 DEF Step, GetEnter, GetRead, GetClear, GetLeave, GetTest, GetReturn,
                SetEnter, SetRead, SetWrite, SetLeave
  <2>1. CASE GetEnter(t) \/ SetEnter(t) \/ SetRead(t)
    <3>1. Phase(t)' = Phase(t) /\ Got(t)' = Got(t) /\ current' = current /\ req' = req
      BY <2>1 DEF GetEnter, SetEnter, SetRead, Phase, Got
    <3> QED
      BY <2>0, <3>1, StutterOfOne
  <2>2. CASE GetRead(t)
    <3>1. Phase(t) = "pending" /\ req[t].op = "get" /\ Got(t) = {}
      BY <2>2 DEF GetRead, Phase, Got, CallShape, GetSection
    <3>2. CASE pc'[t] = "get_leave" /\ satisfied'[t] # {}
      <4>1. /\ ~Clears(req[t].option)
            /\ Satisfying(current, req[t].flags, req[t].option) # {}
        BY <2>2, <3>2 DEF GetRead
      <4>2. Phase(t)' = "granted" /\ Got(t)' = current
        BY <2>2, <3>2 DEF GetRead, Phase, Got
      <4>3. /\ [u \in Threads |-> Phase(u)]' = [[u \in Threads |-> Phase(u)] EXCEPT ![t] = "granted"]
            /\ [u \in Threads |-> Got(u)]' = [[u \in Threads |-> Got(u)] EXCEPT ![t] = current]
        BY <2>0, <4>2, OnlyOnePhase
      <4>4. /\ ~Atomic!Clears(req[t].option)
            /\ Atomic!Satisfying(current, req[t].flags, req[t].option) # {}
        BY <4>1, SameOperators
      <4>5. Atomic!Grant(t)
        BY <2>2, <3>1, <4>3, <4>4 DEF GetRead, Atomic!Grant
      <4> QED
        BY <4>5 DEF Atomic!Next
    <3>3. CASE pc'[t] = "get_clear" \/ satisfied'[t] = {}
      <4>1. Phase(t)' = "pending" /\ Got(t)' = {}
        BY <2>2, <3>3 DEF GetRead, Phase, Got
      <4> QED
        BY <2>0, <2>2, <3>1, <4>1, StutterOfOne DEF GetRead
    <3> QED
      BY <2>2, <3>2, <3>3 DEF GetRead
  <2>3. CASE GetClear(t)
    <3>1. /\ req[t].op = "get" /\ Clears(req[t].option) /\ seen[t] = current
          /\ Satisfying(current, req[t].flags, req[t].option) # {} /\ satisfied[t] # {}
      BY <2>3 DEF GetClear, CallShape, CopyIsFresh, GetSection
    <3>2. Phase(t) = "pending" /\ Phase(t)' = "granted" /\ Got(t)' = current
      BY <2>3, <3>1 DEF GetClear, Phase, Got
    <3>3. /\ [u \in Threads |-> Phase(u)]' = [[u \in Threads |-> Phase(u)] EXCEPT ![t] = "granted"]
          /\ [u \in Threads |-> Got(u)]' = [[u \in Threads |-> Got(u)] EXCEPT ![t] = current]
      BY <2>0, <3>2, OnlyOnePhase
    <3>4. /\ Atomic!Clears(req[t].option)
          /\ Atomic!Satisfying(current, req[t].flags, req[t].option) # {}
      BY <3>1, SameOperators
    <3>5. Atomic!Grant(t)
      BY <2>3, <3>1, <3>2, <3>3, <3>4 DEF GetClear, Atomic!Grant
    <3> QED
      BY <3>5 DEF Atomic!Next
  <2>4. CASE GetLeave(t)
    <3>1. Phase(t)' = Phase(t) /\ Got(t)' = Got(t) /\ current' = current /\ req' = req
      BY <2>4 DEF GetLeave, Phase, Got
    <3> QED
      BY <2>0, <3>1, StutterOfOne
  <2>5. CASE GetTest(t)
    <3>1. CASE satisfied[t] = {} /\ ~GoesOn(t)
      <4>1. /\ Phase(t) = "pending" /\ Phase(t)' = "done" /\ req[t].op = "get"
            /\ Got(t)' = {} /\ Got(t) = {}
        BY <2>5, <3>1 DEF GetTest, Phase, Got, CallShape
      <4>2. Atomic!Decline(t)
        BY <2>0, <2>5, <4>1, OnlyOnePhase DEF GetTest, Atomic!Decline
      <4> QED
        BY <4>2 DEF Atomic!Next
    <3>2. CASE satisfied[t] # {} \/ GoesOn(t)
      <4>1. Phase(t)' = Phase(t) /\ Got(t)' = Got(t)
        BY <2>5, <3>2 DEF GetTest, GoesOn, Phase, Got
      <4> QED
        BY <2>0, <2>5, <4>1, StutterOfOne DEF GetTest
    <3> QED
      BY <3>1, <3>2
  <2>6. CASE GetReturn(t) \/ SetLeave(t)
    <3>1. Phase(t) \in {"granted", "done"} /\ Phase(t)' = "idle" /\ Got(t)' = {}
      BY <2>6 DEF GetReturn, SetLeave, Phase, Got
    <3>2. Atomic!Return(t)
      BY <2>0, <2>6, <3>1, OnlyOnePhase DEF GetReturn, SetLeave, Atomic!Return
    <3> QED
      BY <3>2 DEF Atomic!Next
  <2>7. CASE SetWrite(t)
    <3>1. /\ req[t].op = "set" /\ seen[t] = current /\ satisfied[t] = {}
          /\ current' = Updated(current, req[t].flags, req[t].option)
      BY <2>7 DEF SetWrite, CallShape, CopyIsFresh, SetSection
    <3>2. Phase(t) = "pending" /\ Phase(t)' = "done" /\ Got(t) = {} /\ Got(t)' = {}
      BY <2>7, <3>1 DEF SetWrite, Phase, Got
    <3>3. /\ [u \in Threads |-> Phase(u)]' = [[u \in Threads |-> Phase(u)] EXCEPT ![t] = "done"]
          /\ [u \in Threads |-> Got(u)]' = [u \in Threads |-> Got(u)]
      BY <2>0, <3>2, OnlyOnePhase
    <3>4. current' = Atomic!Updated(current, req[t].flags, req[t].option)
      BY <3>1, SameOperators
    <3>5. Atomic!Apply(t)
      BY <2>7, <3>1, <3>2, <3>3, <3>4 DEF SetWrite, Atomic!Apply
    <3> QED
      BY <3>5 DEF Atomic!Next
  <2> QED
    BY <1>4, <2>1, <2>2, <2>3, <2>4, <2>5, <2>6, <2>7 DEF Step
<1> HIDE DEF Goal
<1> QED
  BY <1>1, <1>2, <1>3, <1>4 DEF Next

(***************************************************************************)
(* The polled group with its critical section behaves like the atomic one, *)
(* whether or not the tick counter wraps.                                  *)
(***************************************************************************)
THEOREM RefinementTheorem == Spec => ImplementsAtomicFlags
<1> QED
  BY SectionTheorem, AtomicInit, AtomicStep, PTL DEF Spec, ImplementsAtomicFlags, Atomic!Spec

-------------------------------------------------------------------------------
(***************************************************************************)
(* The status of a get, with a counter that may wrap                       *)
(***************************************************************************)
StatusInv == DeadlineInv /\ SuccessMeansSatisfied /\ ForeverGetIsGranted

(* A tick: what a get knows of the clock survives it, the wrap included,   *)
(* because a get that is in progress at the greatest value has met it.     *)
LEMMA TickStatus ==
  ASSUME TypeOK, CallShape, StatusInv, Tick
  PROVE  StatusInv'
<1> USE DEF TypeOK, locals
<1>1. UNCHANGED <<pc, req, timeout, satisfied, result>>
  BY DEF Tick
<1>2. ASSUME NEW t \in Threads, edge[t] PROVE edge'[t]
  BY <1>2 DEF Tick
<1>3. ASSUME NEW t \in Threads, pc[t] # "idle", req[t].op = "get", now' = ULONG_MAX
      PROVE  edge'[t]
  BY <1>3 DEF Tick
<1>4. ASSUME NEW t \in Threads, pc[t] = "get_return", satisfied[t] = {}
      PROVE  now' >= timeout[t] \/ edge'[t]
  <2>1. req[t].op = "get" /\ pc[t] # "idle"
    BY <1>4 DEF CallShape
  <2>2. now >= timeout[t] \/ edge[t]
    BY <1>4 DEF StatusInv, DeadlineInv
  <2>3. CASE now = ULONG_MAX
    BY <2>1, <2>3, <1>2 DEF StatusInv, DeadlineInv
  <2>4. CASE now # ULONG_MAX
    <3>1. now' = now + 1 /\ now \in Nat /\ timeout[t] \in Nat
      BY <2>4, ClockAssumption, UlongAssumption DEF Tick
    <3> QED
      BY <2>2, <3>1, <1>2
  <2> QED
    BY <2>3, <2>4
<1>5. DeadlineInv'
  BY <1>1, <1>3, <1>4 DEF StatusInv, DeadlineInv
<1>6. SuccessMeansSatisfied' /\ ForeverGetIsGranted'
  BY <1>1, <1>2 DEF StatusInv, SuccessMeansSatisfied, ForeverGetIsGranted, Returned
<1> QED
  BY <1>5, <1>6 DEF StatusInv

(* The status invariant is inductive relative to the section's.            *)
LEMMA StatusStep == SectionInv /\ StatusInv /\ [Next]_vars => StatusInv'
<1> SUFFICES ASSUME SectionInv, StatusInv, [Next]_vars PROVE StatusInv'
  OBVIOUS
<1>1. TypeOK /\ CallShape /\ TypeOK'
  BY TypeStep DEF SectionInv
<1>2. now \in 0 .. ULONG_MAX /\ ULONG_MAX \in Nat \ {0}
  BY <1>1, UlongAssumption, ClockAssumption DEF TypeOK
<1>3. timeout \in [Threads -> Nat]
  BY <1>1, UlongAssumption DEF TypeOK
<1>4. ASSUME Tick PROVE StatusInv'
  BY <1>1, <1>4, TickStatus
<1> USE <1>2, <1>3 DEF StatusInv, DeadlineInv, SuccessMeansSatisfied, ForeverGetIsGranted,
        Returned, locals, Goto, Forget
<1>5. ASSUME Create \/ Delete \/ UNCHANGED vars PROVE StatusInv'
  <2>1. UNCHANGED <<now, pc, req, timeout, satisfied, result, edge>>
    BY <1>5 DEF Create, Delete, vars
  <2> QED
    BY <2>1
<1>6. ASSUME NEW t \in Threads, NEW r \in Requests, GetCall(t, r) PROVE StatusInv'
  BY <1>1, <1>6 DEF GetCall, Timeouts, TypeOK
<1>7. ASSUME NEW t \in Threads, NEW r \in Requests, SetCall(t, r) PROVE StatusInv'
  BY <1>1, <1>7 DEF SetCall, TypeOK
<1>8. ASSUME NEW t \in Threads, Step(t) PROVE StatusInv'
  <2>1. CASE \/ GetEnter(t) \/ GetRead(t) \/ GetClear(t) \/ GetLeave(t)
             \/ SetEnter(t) \/ SetRead(t) \/ SetWrite(t)
    BY <1>1, <2>1 DEF GetEnter, GetRead, GetClear, GetLeave, SetEnter, SetRead, SetWrite, TypeOK
  <2>2. CASE GetTest(t)
    BY <1>1, <2>2 DEF GetTest, GoesOn, TypeOK
  <2>3. CASE GetReturn(t)
    BY <1>1, <2>3 DEF GetReturn, Status, TypeOK, CallShape
  <2>4. CASE SetLeave(t)
    BY <1>1, <2>4 DEF SetLeave, TypeOK, CallShape, SetSection
  <2> QED
    BY <1>8, <2>1, <2>2, <2>3, <2>4 DEF Step
<1> QED
  BY <1>4, <1>5, <1>6, <1>7, <1>8 DEF Next

(* Every reachable state has the status invariant.                         *)
LEMMA StatusInvariance == Spec => []StatusInv
<1>1. Init => StatusInv
  BY DEF Init, StatusInv, DeadlineInv, SuccessMeansSatisfied, ForeverGetIsGranted, Returned,
         NoRequest
<1> QED
  BY SectionTheorem, <1>1, StatusStep, PTL DEF Spec

(* TX_SUCCESS is only returned to a get that found its flags, or that met  *)
(* the greatest value of the counter.                                      *)
THEOREM SuccessTheorem == Spec => []SuccessMeansSatisfied
<1>1. StatusInv => SuccessMeansSatisfied
  BY DEF StatusInv
<1> QED
  BY StatusInvariance, <1>1, PTL

(* A get that waits forever is granted and says so, unless it met the      *)
(* greatest value of the counter, which is its deadline.                   *)
THEOREM ForeverTheorem == Spec => []ForeverGetIsGranted
<1>1. StatusInv => ForeverGetIsGranted
  BY DEF StatusInv
<1> QED
  BY StatusInvariance, <1>1, PTL
===============================================================================
