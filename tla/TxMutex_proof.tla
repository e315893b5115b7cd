---------------------------- MODULE TxMutex_proof ----------------------------
(***************************************************************************)
(* Proofs about TxMutex, for every set of threads, mutexes and names and   *)
(* every depth.  TypeOK alone is not inductive: that the depth stays in    *)
(* its bound needs that a thread in a get has not reached it, and that the *)
(* statuses tell the owner needs that no object outlives its last handle.  *)
(***************************************************************************)
EXTENDS TxMutex, FiniteSetTheorems, TLAPS

(* A thread in a get is alive, its mutex exists, and one more get of it is *)
(* within the bound.                                                       *)
RequestsOpen ==
  \A t \in Threads : request[t] # NoRequest =>
    /\ t \in alive
    /\ request[t].mutex \in open
    /\ object[Name(t)].owner = t => object[Name(t)].depth < MaxDepth

(* What no handle leads to is as good as new.                              *)
NoStrayOwner == \A x \in Names : Holders(x) = {} => object[x] = Free

(* A mutex that does not exist is held by nobody.                          *)
HeldOpen == \A t \in Threads : \A m \in Mutexes : held[t][m] > 0 => m \in open

(* Only an owner that ends leaves a mutex abandoned.                       *)
OnlyBequeathed == \A x \in Names : object[x].abandoned => bequeathed

MutexInv ==
  /\ TypeOK /\ RequestsOpen /\ NoStrayOwner /\ HeldOpen /\ OnlyBequeathed
  /\ HeldMeansOwned /\ OwnedMeansHeld

Object == [owner : Threads \cup {NoThread}, depth : 0 .. MaxDepth, abandoned : BOOLEAN]
-------------------------------------------------------------------------------
(***************************************************************************)
(* Handles                                                                 *)
(***************************************************************************)
LEMMA FreeType == Free \in Object
  BY MutexAssumption DEF Free, Object

(* The blocks of a name are finitely many.                                 *)
LEMMA HoldersFinite ==
  ASSUME TypeOK, NEW x \in Names
  PROVE  IsFiniteSet(Holders(x)) /\ Cardinality(Holders(x)) \in Nat
<1>1. Holders(x) \in SUBSET Mutexes
  BY DEF TypeOK, Holders
<1>2. IsFiniteSet(Holders(x))
  BY <1>1, MutexAssumption, FS_Subset
<1> QED
  BY <1>2, FS_CardinalityType

(* A create that succeeds adds a block to the holders of its name.         *)
LEMMA CreateHolders ==
  ASSUME MutexInv, NEW m \in Mutexes, Create(m), NEW x \in Names
  PROVE  /\ Holders(x)' = IF broken' = broken /\ x = NameOf[m] THEN Holders(x) \cup {m}
                          ELSE Holders(x)
         /\ m \notin Holders(x)
<1>1. m \notin open /\ m \notin broken /\ open' = open \cup {m}
  BY DEF Create, MutexInv, TypeOK
<1>2. broken' = broken \/ broken' = broken \cup {m}
  BY DEF Create
<1> QED
  BY <1>1, <1>2 DEF Holders

(* A delete of a block with a handle takes it from the holders of its name.*)
LEMMA DeleteHolders ==
  ASSUME MutexInv, NEW m \in Mutexes, Delete(m), NEW x \in Names
  PROVE  /\ Holders(x)' = IF m \notin broken /\ x = NameOf[m] THEN Holders(x) \ {m}
                          ELSE Holders(x)
         /\ m \in Holders(x) <=> m \notin broken /\ x = NameOf[m]
  BY DEF Delete, Holders

(* The kernel's count of the handles is right.                             *)
LEMMA HandlesStep == MutexInv /\ [Next]_vars => HandlesCounted'
<1> SUFFICES ASSUME MutexInv, [Next]_vars PROVE HandlesCounted'
  OBVIOUS
<1>0. handles = [x \in Names |-> Cardinality(Holders(x))]
  BY DEF MutexInv, TypeOK, HandlesCounted
<1>1. ASSUME NEW m \in Mutexes, Create(m) PROVE HandlesCounted'
  <2>1. NameOf[m] \in Names
    BY MutexAssumption
  <2>2. ASSUME NEW x \in Names PROVE handles'[x] = Cardinality(Holders(x)')
    <3>1. IsFiniteSet(Holders(x)) /\ Cardinality(Holders(x)) \in Nat
      BY HoldersFinite DEF MutexInv
    <3>2. CASE broken' = broken /\ x = NameOf[m]
      <4>1. Holders(x)' = Holders(x) \cup {m} /\ m \notin Holders(x)
        BY <1>1, <3>2, CreateHolders
      <4>2. Cardinality(Holders(x)') = Cardinality(Holders(x)) + 1
        BY <3>1, <4>1, FS_AddElement
      <4>3. handles' = [handles EXCEPT ![NameOf[m]] = @ + 1]
        BY <1>1, <3>2 DEF Create, MutexInv, TypeOK
      <4> QED
        BY <1>0, <3>2, <4>2, <4>3
    <3>3. CASE ~(broken' = broken /\ x = NameOf[m])
      <4>1. Holders(x)' = Holders(x)
        BY <1>1, <3>3, CreateHolders
      <4>2. handles'[x] = handles[x]
        BY <1>0, <1>1, <2>1, <3>3 DEF Create
      <4> QED
        BY <1>0, <4>1, <4>2
    <3> QED
      BY <3>2, <3>3
  <2>3. handles' = [x \in Names |-> handles'[x]]
    BY <1>0, <1>1, <2>1 DEF Create
  <2> QED
    BY <2>2, <2>3 DEF HandlesCounted
<1>2. ASSUME NEW m \in Mutexes, Delete(m) PROVE HandlesCounted'
  <2>1. NameOf[m] \in Names
    BY MutexAssumption
  <2>2. ASSUME NEW x \in Names PROVE handles'[x] = Cardinality(Holders(x)')
    <3>1. IsFiniteSet(Holders(x)) /\ Cardinality(Holders(x)) \in Nat
      BY HoldersFinite DEF MutexInv
    <3>2. CASE m \notin broken /\ x = NameOf[m]
      <4>1. Holders(x)' = Holders(x) \ {m} /\ m \in Holders(x)
        BY <1>2, <3>2, DeleteHolders
      <4>2. Cardinality(Holders(x)') = Cardinality(Holders(x)) - 1
        BY <3>1, <4>1, FS_RemoveElement
      <4> QED
        BY <1>0, <1>2, <3>2, <4>2 DEF Delete
    <3>3. CASE ~(m \notin broken /\ x = NameOf[m])
      <4>1. Holders(x)' = Holders(x)
        BY <1>2, <3>3, DeleteHolders
      <4>2. handles'[x] = handles[x]
        BY <1>0, <1>2, <2>1, <3>3 DEF Delete
      <4> QED
        BY <1>0, <4>1, <4>2
    <3> QED
      BY <3>2, <3>3
  <2>3. handles' = [x \in Names |-> handles'[x]]
    BY <1>0, <1>2, <2>1 DEF Delete
  <2> QED
    BY <2>2, <2>3 DEF HandlesCounted
<1>3. ASSUME NEW t \in Threads, Step(t) \/ Exit(t) PROVE HandlesCounted'
  <2>1. UNCHANGED <<handles, open, broken>>
    BY <1>3 DEF Step, Exit, GetGranted, GetTimesOut, GetFails, Answer, Put, GetCall
  <2> QED
    BY <1>0, <2>1 DEF HandlesCounted, Holders
<1>4. CASE UNCHANGED vars
  BY <1>0, <1>4 DEF vars, mutex_vars, HandlesCounted, Holders
<1> QED
  BY <1>1, <1>2, <1>3, <1>4 DEF Next, Manage

-------------------------------------------------------------------------------
(***************************************************************************)
(* The owner of each object                                                *)
(***************************************************************************)
LEMMA MutexInit == Init => MutexInv
<1> SUFFICES ASSUME Init PROVE MutexInv
  OBVIOUS
<1>1. \A x \in Names : Holders(x) = {}
  BY DEF Init, Holders
<1>2. HandlesCounted
  BY <1>1, FS_EmptySet DEF Init, HandlesCounted
<1>3. object \in [Names -> Object] /\ held \in [Threads -> [Mutexes -> Nat]]
  BY FreeType DEF Init, NothingHeld
<1>4. TypeOK
  BY <1>2, <1>3 DEF Init, TypeOK, Object, OwnersLive, Free, NoRequest, Waits, Statuses
<1> QED
  BY <1>4 DEF Init, MutexInv, RequestsOpen, NoStrayOwner, HeldOpen, OnlyBequeathed,
              HeldMeansOwned, OwnedMeansHeld, Free, NothingHeld

(* What changes when a get is granted.                                     *)
LEMMA GrantedFacts ==
  ASSUME MutexInv, NEW t \in Threads, GetGranted(t)
  PROVE  /\ request[t].mutex \in open \ broken /\ request[t].mutex \in Mutexes
         /\ t \in alive
         /\ Name(t) \in Names
         /\ object[Name(t)].owner \in {NoThread, t}
         /\ object[Name(t)].depth \in Nat /\ object[Name(t)].depth < MaxDepth
         /\ object' = [object EXCEPT ![Name(t)] = [owner |-> t, depth |-> object[Name(t)].depth + 1,
                                                  abandoned |-> FALSE]]
<1>1. request[t] # NoRequest /\ request[t].mutex \in open \ broken /\ t \in alive
  BY DEF GetGranted, Answer, MutexInv, RequestsOpen
<1>2. request[t].mutex \in Mutexes /\ Name(t) \in Names
  BY <1>1, MutexAssumption DEF MutexInv, TypeOK, Name
<1>3. object[Name(t)] \in Object
  BY <1>2 DEF MutexInv, TypeOK, Object
<1>4. object[Name(t)].owner \in {NoThread, t}
  BY DEF GetGranted
<1>5. object[Name(t)].depth \in Nat /\ object[Name(t)].depth < MaxDepth
  <2>1. CASE object[Name(t)].owner = t
    BY <1>1, <1>3, <2>1, MutexAssumption DEF MutexInv, RequestsOpen, Object
  <2>2. CASE object[Name(t)].owner = NoThread
    BY <1>2, <2>2, MutexAssumption DEF MutexInv, TypeOK, OwnersLive
  <2> QED
    BY <1>4, <2>1, <2>2
<1> QED
  BY <1>1, <1>2, <1>4, <1>5 DEF GetGranted

(* The type invariant, one part at a time.                                 *)
LEMMA Types ==
  ASSUME MutexInv
  PROVE  /\ open \subseteq Mutexes /\ broken \subseteq open /\ alive \subseteq Threads
         /\ object \in [Names -> Object]
         /\ \A x \in Names :
              /\ object[x].depth \in Nat /\ object[x].depth <= MaxDepth
              /\ object[x].owner = NoThread => object[x].depth = 0
              /\ object[x].owner # NoThread =>
                   object[x].owner \in alive /\ object[x].depth > 0 /\ ~object[x].abandoned
         /\ request \in [Threads -> [mutex : Mutexes \cup {NoMutex}, wait : Waits]]
         /\ status \in [Threads -> Statuses]
         /\ held \in [Threads -> [Mutexes -> Nat]]
         /\ bequeathed \in BOOLEAN
<1>1. object \in [Names -> Object]
  BY DEF MutexInv, TypeOK, Object
<1>2. \A x \in Names : object[x].depth \in Nat /\ object[x].depth <= MaxDepth
  BY <1>1, MutexAssumption DEF Object
<1> QED
  BY <1>1, <1>2 DEF MutexInv, TypeOK, OwnersLive

LEMMA StatusType == \A result : Status(result) \in Statuses
  BY DEF Status, Statuses

(* The objects keep their types, and an owner is alive.                    *)
LEMMA ObjectStep ==
  MutexInv /\ [Next]_vars => object' \in [Names -> Object] /\ OwnersLive'
<1> DEFINE Goal == object' \in [Names -> Object] /\ OwnersLive'
<1> SUFFICES ASSUME MutexInv, [Next]_vars PROVE Goal
  OBVIOUS
<1> USE Types, MutexAssumption DEF OwnersLive
<1>1. CASE object' = object /\ alive' = alive
  BY <1>1
<1>2. ASSUME NEW m \in Mutexes, Delete(m) PROVE Goal
  <2>1. object' = object \/ object' = [object EXCEPT ![NameOf[m]] = Free]
    BY <1>2 DEF Delete
  <2>2. alive' = alive /\ NameOf[m] \in Names
    BY <1>2 DEF Delete
  <2>3. Free.owner = NoThread /\ Free.depth = 0
    BY DEF Free
  <2>4. CASE object' = object
    BY <2>2, <2>4
  <2>5. CASE object' = [object EXCEPT ![NameOf[m]] = Free]
    BY <2>2, <2>3, <2>5, FreeType
  <2> QED
    BY <2>1, <2>4, <2>5
<1>3. ASSUME NEW t \in Threads, GetGranted(t) PROVE Goal
  <2>1. /\ t \in alive /\ Name(t) \in Names
        /\ object[Name(t)].depth \in Nat /\ object[Name(t)].depth < MaxDepth
        /\ object' = [object EXCEPT ![Name(t)] =
                       [owner |-> t, depth |-> object[Name(t)].depth + 1, abandoned |-> FALSE]]
    BY <1>3, GrantedFacts
  <2>2. object[Name(t)].depth + 1 \in 0 .. MaxDepth /\ object[Name(t)].depth + 1 > 0
    BY <2>1
  <2>3. [owner |-> t, depth |-> object[Name(t)].depth + 1, abandoned |-> FALSE] \in Object
    BY <2>2 DEF Object
  <2>4. alive' = alive
    BY <1>3 DEF GetGranted, Answer
  <2> QED
    BY <2>1, <2>2, <2>3, <2>4
<1>4. ASSUME NEW t \in Threads, NEW m \in Mutexes, Put(t, m) PROVE Goal
  <2>1. NameOf[m] \in Names /\ alive' = alive
    BY <1>4 DEF Put
  <2>2. CASE object' = object
    BY <2>1, <2>2
  <2>3. CASE object' = [object EXCEPT ![NameOf[m]] = Free]
    <3>1. Free.owner = NoThread /\ Free.depth = 0
      BY DEF Free
    <3> QED
      BY <2>1, <2>3, <3>1, FreeType
  <2>4. CASE /\ object[NameOf[m]].owner = t /\ object[NameOf[m]].depth # 1
             /\ object' = [object EXCEPT ![NameOf[m]] =
                             [owner |-> t, depth |-> object[NameOf[m]].depth - 1,
                              abandoned |-> FALSE]]
    <3> DEFINE d == object[NameOf[m]].depth
               o == [owner |-> t, depth |-> d - 1, abandoned |-> FALSE]
    <3>1. d \in Nat /\ d <= MaxDepth /\ d > 0 /\ t \in alive
      BY <2>1, <2>4
    <3>2. d - 1 \in 0 .. MaxDepth /\ d - 1 > 0
      BY <2>4, <3>1
    <3>3. o \in Object /\ o.owner = t /\ o.depth = d - 1 /\ ~o.abandoned
      BY <2>4, <3>1, <3>2 DEF Object
    <3> HIDE DEF d, o
    <3>4. object' = [object EXCEPT ![NameOf[m]] = o]
      BY <2>4 DEF d, o
    <3> QED
      BY <2>1, <3>1, <3>2, <3>3, <3>4
  <2>5. CASE m \notin broken /\ object[NameOf[m]].owner = t
    <3>1. object' = [object EXCEPT ![NameOf[m]] =
                       IF object[NameOf[m]].depth = 1 THEN Free
                       ELSE [owner |-> t, depth |-> object[NameOf[m]].depth - 1,
                             abandoned |-> FALSE]]
      BY <1>4, <2>5 DEF Put
    <3> QED
      BY <2>3, <2>4, <2>5, <3>1
  <2>6. CASE ~(m \notin broken /\ object[NameOf[m]].owner = t)
    BY <1>4, <2>2, <2>6 DEF Put
  <2> QED
    BY <2>5, <2>6
<1>5. ASSUME NEW t \in Threads, Exit(t) PROVE Goal
  <2> DEFINE left == [Free EXCEPT !.abandoned = TRUE]
  <2>1. left \in Object /\ left.owner = NoThread /\ left.depth = 0
    BY FreeType DEF Free, Object
  <2> HIDE DEF left
  <2>2. object' = [x \in Names |-> IF object[x].owner = t THEN left ELSE object[x]]
    BY <1>5 DEF Exit, Owned, left
  <2>3. alive' = alive \ {t}
    BY <1>5 DEF Exit
  <2> QED
    BY <2>1, <2>2, <2>3
<1>6. ASSUME NEW t \in Threads, NEW m \in Mutexes, NEW w \in Waits, GetCall(t, m, w)
      PROVE  Goal
  BY <1>1, <1>6 DEF GetCall
<1> QED
  BY <1>1, <1>2, <1>3, <1>4, <1>5, <1>6
     DEF Next, Manage, Step, vars, mutex_vars, Create, GetTimesOut, GetFails, Answer

(* So do the histories and the calls.                                      *)
LEMMA TypeStep == MutexInv /\ [Next]_vars => TypeOK'
<1> SUFFICES ASSUME MutexInv, [Next]_vars PROVE TypeOK'
  OBVIOUS
<1>0. HandlesCounted' /\ OwnersLive' /\ object' \in [Names -> Object]
  BY HandlesStep, ObjectStep
<1> USE <1>0, Types DEF TypeOK, Object
<1>1. ASSUME NEW m \in Mutexes, Create(m) PROVE TypeOK'
  BY <1>1 DEF Create
<1>2. ASSUME NEW m \in Mutexes, Delete(m) PROVE TypeOK'
  <2>1. held' \in [Threads -> [Mutexes -> Nat]]
    BY <1>2 DEF Delete
  <2> QED
    BY <1>2, <2>1 DEF Delete
<1>3. ASSUME NEW t \in Threads, NEW result, Answer(t, result) PROVE TypeOK'
  <2>1. request[t].mutex \in Mutexes
    BY <1>3 DEF Answer, MutexInv, RequestsOpen
  <2>2. held' \in [Threads -> [Mutexes -> Nat]]
    <3>1. held[t][request[t].mutex] + 1 \in Nat
      BY <2>1
    <3>2. [held EXCEPT ![t][request[t].mutex] = held[t][request[t].mutex] + 1]
            \in [Threads -> [Mutexes -> Nat]]
      BY <2>1, <3>1
    <3> QED
      BY <1>3, <3>2 DEF Answer
  <2>3. status' \in [Threads -> Statuses]
    BY <1>3, StatusType DEF Answer
  <2>4. request' \in [Threads -> [mutex : Mutexes \cup {NoMutex}, wait : Waits]]
    BY <1>3 DEF Answer, NoRequest, Waits
  <2> QED
    BY <1>3, <2>2, <2>3, <2>4 DEF Answer
<1>4. ASSUME NEW t \in Threads, NEW m \in Mutexes, Put(t, m) PROVE TypeOK'
  <2>1. held' \in [Threads -> [Mutexes -> Nat]]
    <3> DEFINE h == IF held[t][m] = 0 THEN 0 ELSE held[t][m] - 1
    <3>1. h \in Nat
      OBVIOUS
    <3>2. [held EXCEPT ![t][m] = h] \in [Threads -> [Mutexes -> Nat]]
      BY <3>1
    <3> QED
      BY <1>4, <3>2 DEF Put
  <2>2. status' \in [Threads -> Statuses]
    BY <1>4 DEF Put, Statuses
  <2> QED
    BY <1>4, <2>1, <2>2 DEF Put
<1>5. ASSUME NEW t \in Threads, NEW m \in Mutexes, NEW w \in Waits, GetCall(t, m, w)
      PROVE  TypeOK'
  BY <1>5 DEF GetCall, Statuses
<1>6. ASSUME NEW t \in Threads, Exit(t) PROVE TypeOK'
  <2>1. held' \in [Threads -> [Mutexes -> Nat]]
    BY <1>6 DEF Exit, NothingHeld
  <2>2. bequeathed' \in BOOLEAN
    BY <1>6 DEF Exit
  <2> QED
    BY <1>6, <2>1, <2>2 DEF Exit
<1>7. CASE UNCHANGED vars
  BY <1>7 DEF vars, mutex_vars
<1> QED
  BY <1>1, <1>2, <1>3, <1>4, <1>5, <1>6, <1>7
     DEF Next, Manage, Step, GetGranted, GetTimesOut, GetFails

-------------------------------------------------------------------------------
(***************************************************************************)
(* Requests, histories and statuses                                        *)
(***************************************************************************)

(* A thread in a get stays within the bound: only it can get the mutex     *)
(* once more, and it is busy.                                              *)
LEMMA RequestsStep == MutexInv /\ [Next]_vars => RequestsOpen'
<1> SUFFICES ASSUME MutexInv, [Next]_vars PROVE RequestsOpen'
  OBVIOUS
<1>0. /\ \A u \in Threads : request[u] # NoRequest =>
            /\ u \in alive /\ request[u].mutex \in open /\ Name(u) \in Names
            /\ object[Name(u)].owner = u => object[Name(u)].depth < MaxDepth
      /\ request \in [Threads -> [mutex : Mutexes \cup {NoMutex}, wait : Waits]]
      /\ object \in [Names -> Object] /\ open \subseteq Mutexes
  BY Types, MutexAssumption DEF MutexInv, RequestsOpen, Name
<1> USE <1>0 DEF RequestsOpen, Name
<1>1. ASSUME NEW m \in Mutexes, Create(m) PROVE RequestsOpen'
  BY <1>1 DEF Create
<1>2. ASSUME NEW m \in Mutexes, Delete(m) PROVE RequestsOpen'
  <2>1. object' = object \/ object' = [object EXCEPT ![NameOf[m]] = Free]
    BY <1>2 DEF Delete
  <2>2. Free.owner = NoThread
    BY DEF Free
  <2>3. \A u \in Threads : request[u] # NoRequest => request[u].mutex \in open'
    BY <1>2 DEF Delete, Unused
  <2>4. ASSUME NEW u \in Threads, object'[Name(u)].owner = u, request[u] # NoRequest
        PROVE  object'[Name(u)] = object[Name(u)]
    BY <2>1, <2>2, <2>4, MutexAssumption
  <2> QED
    BY <1>2, <2>3, <2>4 DEF Delete
<1>3. ASSUME NEW t \in Threads, GetGranted(t) PROVE RequestsOpen'
  <2>1. Name(t) \in Names
    BY <1>3, GrantedFacts
  <2>2. \A x \in Names : object'[x].owner # t => object'[x] = object[x]
    BY <1>3, <2>1 DEF GetGranted
  <2>3. \A u \in Threads \ {t} : request'[u] = request[u]
    BY <1>3 DEF GetGranted, Answer
  <2>4. request'[t] = NoRequest
    BY <1>3 DEF GetGranted, Answer
  <2>5. open' = open /\ alive' = alive
    BY <1>3 DEF GetGranted, Answer
  <2>6. ASSUME NEW u \in Threads, request'[u] # NoRequest
        PROVE  /\ u \in alive' /\ request'[u].mutex \in open'
               /\ object'[NameOf[request'[u].mutex]].owner = u =>
                    object'[NameOf[request'[u].mutex]].depth < MaxDepth
    <3>1. u # t /\ request'[u] = request[u] /\ request[u] # NoRequest
      BY <2>3, <2>4, <2>6
    <3>2. NameOf[request[u].mutex] \in Names
      BY <3>1
    <3> QED
      BY <2>2, <2>5, <3>1, <3>2
  <2> QED
    BY <2>6
<1>4. ASSUME NEW t \in Threads, GetTimesOut(t) \/ GetFails(t) PROVE RequestsOpen'
  BY <1>4 DEF GetTimesOut, GetFails, Answer
<1>5. ASSUME NEW t \in Threads, NEW m \in Mutexes, Put(t, m) PROVE RequestsOpen'
  <2>1. request[t] = NoRequest /\ UNCHANGED <<request, open, alive>>
    BY <1>5 DEF Put, Idle
  <2>2. \A x \in Names : object[x].owner # t => object'[x] = object[x]
    BY <1>5, MutexAssumption DEF Put
  <2>3. \A x \in Names : object'[x].owner \in Threads \ {t} => object'[x] = object[x]
    <3> SUFFICES ASSUME NEW x \in Names, object[x].owner = t, object'[x].owner # NoThread
                 PROVE  object'[x].owner = t
      BY <2>2, MutexAssumption
    <3>1. CASE object' = object
      BY <3>1
    <3>2. CASE object' = [object EXCEPT ![NameOf[m]] =
                            IF object[NameOf[m]].depth = 1 THEN Free
                            ELSE [owner |-> t, depth |-> object[NameOf[m]].depth - 1,
                                  abandoned |-> FALSE]]
      BY <3>2 DEF Free
    <3> QED
      BY <1>5, <3>1, <3>2 DEF Put
  <2> QED
    BY <2>1, <2>3
<1>6. ASSUME NEW t \in Threads, NEW m \in Mutexes, NEW w \in Waits, GetCall(t, m, w)
      PROVE  RequestsOpen'
  BY <1>6 DEF GetCall, Idle
<1>7. ASSUME NEW t \in Threads, Exit(t) PROVE RequestsOpen'
  <2>1. request[t] = NoRequest /\ alive' = alive \ {t} /\ UNCHANGED <<request, open>>
    BY <1>7 DEF Exit, Idle
  <2>2. \A x \in Names : object'[x].owner # NoThread => object'[x] = object[x]
    BY <1>7 DEF Exit, Free
  <2> QED
    BY <2>1, <2>2, MutexAssumption
<1>8. CASE UNCHANGED vars
  BY <1>8 DEF vars, mutex_vars
<1> QED
  BY <1>1, <1>2, <1>3, <1>4, <1>5, <1>6, <1>7, <1>8 DEF Next, Manage, Step

(* An object without a handle has no owner: the last delete frees it.      *)
LEMMA StrayStep == MutexInv /\ [Next]_vars => NoStrayOwner'
<1> SUFFICES ASSUME MutexInv, [Next]_vars, NEW x \in Names, Holders(x)' = {}
             PROVE  object'[x] = Free
  BY DEF NoStrayOwner
<1>0. /\ Holders(x) = {} => object[x] = Free
      /\ object \in [Names -> Object]
      /\ handles[x] = Cardinality(Holders(x))
  BY Types DEF MutexInv, NoStrayOwner, TypeOK, HandlesCounted
<1>1. ASSUME NEW m \in Mutexes, Create(m) PROVE object'[x] = Free
  BY <1>0, <1>1, CreateHolders DEF Create
<1>2. ASSUME NEW m \in Mutexes, Delete(m) PROVE object'[x] = Free
  <2>1. CASE m \notin broken /\ x = NameOf[m]
    <3>1. Holders(x) = {m}
      BY <1>2, <2>1, DeleteHolders
    <3>2. handles[x] = 1
      BY <1>0, <3>1, FS_Singleton
    <3> QED
      BY <1>0, <1>2, <2>1, <3>2 DEF Delete, Free
  <2>2. CASE ~(m \notin broken /\ x = NameOf[m])
    <3>1. Holders(x) = {}
      BY <1>2, <2>2, DeleteHolders
    <3>2. object'[x] = object[x]
      BY <1>0, <1>2, <2>2, MutexAssumption DEF Delete
    <3> QED
      BY <1>0, <3>1, <3>2
  <2> QED
    BY <2>1, <2>2
<1>3. ASSUME NEW t \in Threads, GetGranted(t) PROVE object'[x] = Free
  <2>1. request[t].mutex \in Holders(Name(t)) /\ Name(t) \in Names
    BY <1>3, GrantedFacts DEF Holders, Name
  <2>2. Holders(x)' = Holders(x)
    BY <1>3 DEF GetGranted, Answer, Holders
  <2> QED
    BY <1>0, <1>3, <2>1, <2>2 DEF GetGranted
<1>4. ASSUME NEW t \in Threads, Step(t) \/ Exit(t), ~GetGranted(t)
      PROVE  object'[x] = Free
  <2>1. Holders(x)' = Holders(x)
    BY <1>4 DEF Holders, Step, Exit, GetTimesOut, GetFails, Answer, Put, GetCall
  <2>2. object'[x] = object[x] \/ object[x].owner = t
    <3>1. CASE Exit(t)
      BY <1>0, <3>1 DEF Exit, Owned
    <3>2. CASE \E m \in Mutexes : Put(t, m)
      <4>1. PICK m \in Mutexes : Put(t, m)
        BY <3>2
      <4>2. CASE object' = object
        BY <4>2
      <4>3. CASE object' # object
        <5>1. object[NameOf[m]].owner = t /\ \A y \in Names \ {NameOf[m]} : object'[y] = object[y]
          BY <1>0, <4>1, <4>3, MutexAssumption DEF Put
        <5> QED
          BY <5>1
      <4> QED
        BY <4>2, <4>3
    <3>3. CASE GetTimesOut(t) \/ GetFails(t) \/ \E m \in Mutexes : \E w \in Waits : GetCall(t, m, w)
      <4>1. object' = object
        BY <3>3 DEF GetTimesOut, GetFails, GetCall
      <4> QED
        BY <4>1
    <3>4. \/ Exit(t) \/ GetTimesOut(t) \/ GetFails(t) \/ \E m \in Mutexes : Put(t, m)
          \/ \E m \in Mutexes : \E w \in Waits : GetCall(t, m, w)
      BY <1>4 DEF Step
    <3> QED
      BY <3>1, <3>2, <3>3, <3>4
  <2>3. object[x] = Free
    BY <1>0, <2>1
  <2>4. object[x].owner # t
    BY <2>3, MutexAssumption DEF Free
  <2> QED
    BY <2>2, <2>3, <2>4
<1>5. CASE UNCHANGED vars
  BY <1>0, <1>5 DEF vars, mutex_vars, Holders
<1> QED
  BY <1>1, <1>2, <1>3, <1>4, <1>5 DEF Next, Manage

(* Only what exists is held, and only what an owner left is abandoned.     *)
LEMMA HistoryStep == MutexInv /\ [Next]_vars => HeldOpen' /\ OnlyBequeathed'
<1> DEFINE Goal == HeldOpen' /\ OnlyBequeathed'
<1> SUFFICES ASSUME MutexInv, [Next]_vars PROVE Goal
  OBVIOUS
<1>0. /\ \A u \in Threads : \A n \in Mutexes : held[u][n] > 0 => n \in open
      /\ \A x \in Names : object[x].abandoned => bequeathed
      /\ held \in [Threads -> [Mutexes -> Nat]] /\ object \in [Names -> Object]
  BY Types DEF MutexInv, HeldOpen, OnlyBequeathed
<1> USE <1>0 DEF HeldOpen, OnlyBequeathed
<1>1. ASSUME NEW m \in Mutexes, Create(m) PROVE Goal
  BY <1>1 DEF Create
<1>2. ASSUME NEW m \in Mutexes, Delete(m) PROVE Goal
  <2>1. HeldOpen'
    BY <1>2 DEF Delete
  <2>2. object' = object \/ object' = [object EXCEPT ![NameOf[m]] = Free]
    BY <1>2 DEF Delete
  <2>3. OnlyBequeathed'
    BY <1>2, <2>2 DEF Delete, Free
  <2> QED
    BY <2>1, <2>3
<1>3. ASSUME NEW t \in Threads, NEW result, Answer(t, result) PROVE HeldOpen'
  <2>1. request[t].mutex \in open /\ request[t].mutex \in Mutexes /\ open' = open
    BY <1>3, Types DEF Answer, MutexInv, RequestsOpen
  <2>2. \A u \in Threads : \A n \in Mutexes :
          u # t \/ n # request[t].mutex => held'[u][n] = held[u][n]
    BY <1>3, <2>1 DEF Answer
  <2> QED
    BY <2>1, <2>2
<1>4. ASSUME NEW t \in Threads, GetGranted(t) \/ GetTimesOut(t) \/ GetFails(t) PROVE Goal
  <2>1. HeldOpen'
    BY <1>3, <1>4 DEF GetGranted, GetTimesOut, GetFails
  <2>2. OnlyBequeathed'
    BY <1>4, GrantedFacts DEF GetGranted, GetTimesOut, GetFails, Answer
  <2> QED
    BY <2>1, <2>2
<1>5. ASSUME NEW t \in Threads, NEW m \in Mutexes, Put(t, m) PROVE Goal
  <2>1. \A u \in Threads : \A n \in Mutexes : held'[u][n] > 0 => held[u][n] > 0
    <3>1. CASE held' = held
      BY <3>1
    <3>2. CASE held' = [held EXCEPT ![t][m] = IF held[t][m] = 0 THEN 0 ELSE held[t][m] - 1]
      <4>1. ASSUME NEW u \in Threads, NEW n \in Mutexes
            PROVE  held'[u][n] = held[u][n] \/ (held[u][n] \in Nat /\ held'[u][n] =
                     IF held[u][n] = 0 THEN 0 ELSE held[u][n] - 1)
        BY <3>2
      <4>2. \A u \in Threads : \A n \in Mutexes : held[u][n] \in Nat
        OBVIOUS
      <4> QED
        BY <4>1, <4>2
    <3> QED
      BY <1>5, <3>1, <3>2 DEF Put
  <2>2. \A x \in Names : object'[x].abandoned => object[x].abandoned
    <3>1. CASE object' = object
      BY <3>1
    <3>2. CASE object' = [object EXCEPT ![NameOf[m]] =
                            IF object[NameOf[m]].depth = 1 THEN Free
                            ELSE [owner |-> t, depth |-> object[NameOf[m]].depth - 1,
                                  abandoned |-> FALSE]]
      BY <3>2 DEF Free
    <3> QED
      BY <1>5, <3>1, <3>2 DEF Put
  <2> QED
    BY <1>5, <2>1, <2>2 DEF Put
<1>6. ASSUME NEW t \in Threads, NEW m \in Mutexes, NEW w \in Waits, GetCall(t, m, w)
      PROVE  Goal
  BY <1>6 DEF GetCall
<1>7. ASSUME NEW t \in Threads, Exit(t) PROVE Goal
  <2>1. \A u \in Threads : \A n \in Mutexes : held'[u][n] = IF u = t THEN 0 ELSE held[u][n]
    BY <1>7 DEF Exit, NothingHeld
  <2>2. HeldOpen'
    BY <1>7, <2>1 DEF Exit
  <2>3. OnlyBequeathed'
    BY <1>7 DEF Exit, Owned
  <2> QED
    BY <2>2, <2>3
<1>8. CASE UNCHANGED vars
  BY <1>8 DEF vars, mutex_vars
<1> QED
  BY <1>1, <1>2, <1>4, <1>5, <1>6, <1>7, <1>8 DEF Next, Manage, Step

(* The statuses tell the owner.                                            *)
LEMMA StatusStep == MutexInv /\ [Next]_vars => HeldMeansOwned' /\ OwnedMeansHeld'
<1> DEFINE HeldGoal ==
             \A u \in Threads : \A n \in Mutexes : held'[u][n] > 0 =>
               /\ n \notin broken' /\ object'[NameOf[n]].owner = u
               /\ object'[NameOf[n]].depth >= held'[u][n]
           OwnedGoal ==
             ~bequeathed' => \A n \in open' \ broken' :
               object'[NameOf[n]].owner # NoThread =>
                 held'[object'[NameOf[n]].owner][n] = object'[NameOf[n]].depth
           Goal == HeldGoal /\ OwnedGoal
<1> SUFFICES ASSUME MutexInv, [Next]_vars, OwnNames PROVE Goal
  BY DEF HeldMeansOwned, OwnedMeansHeld, OwnNames
<1>a. \A u \in Threads : \A n \in Mutexes : held[u][n] > 0 =>
        /\ n \notin broken /\ object[NameOf[n]].owner = u
        /\ object[NameOf[n]].depth >= held[u][n]
  BY DEF MutexInv, HeldMeansOwned
<1>b. ~bequeathed => \A n \in open \ broken :
        object[NameOf[n]].owner # NoThread =>
          held[object[NameOf[n]].owner][n] = object[NameOf[n]].depth
  BY DEF MutexInv, OwnedMeansHeld
<1>c. /\ \A m, n \in Mutexes : NameOf[m] = NameOf[n] => m = n
      /\ \A n \in Mutexes : NameOf[n] \in Names
      /\ held \in [Threads -> [Mutexes -> Nat]] /\ object \in [Names -> Object]
      /\ open \subseteq Mutexes /\ broken \subseteq open
      /\ NoThread \notin Threads
  BY Types, MutexAssumption DEF OwnNames
<1>d. \A u \in Threads : \A n \in Mutexes : held[u][n] > 0 => n \in open
  BY DEF MutexInv, HeldOpen
<1> USE <1>a, <1>b, <1>c, <1>d
<1>1. ASSUME NEW m \in Mutexes, Create(m) PROVE Goal
  <2>1. m \notin Holders(NameOf[m])
    BY <1>1 DEF Create, Holders
  <2>2. Holders(NameOf[m]) = {}
    BY <2>1, <1>1 DEF Holders, Create
  <2>3. object[NameOf[m]].owner = NoThread
    BY <2>2 DEF MutexInv, NoStrayOwner, Free
  <2>4. HeldGoal
    BY <1>1 DEF Create
  <2>5. OwnedGoal
    BY <1>1, <2>3 DEF Create
  <2> QED
    BY <2>4, <2>5
<1>2. ASSUME NEW m \in Mutexes, Delete(m) PROVE Goal
  <2>1. /\ open' = open \ {m} /\ broken' = broken \ {m} /\ bequeathed' = bequeathed
        /\ object' = object \/ object' = [object EXCEPT ![NameOf[m]] = Free]
    BY <1>2 DEF Delete
  <2>2. \A n \in Mutexes \ {m} : object'[NameOf[n]] = object[NameOf[n]]
    BY <2>1
  <2>3. \A u \in Threads : \A n \in Mutexes : held'[u][n] = IF n = m THEN 0 ELSE held[u][n]
    BY <1>2 DEF Delete
  <2>4. HeldGoal
    BY <2>1, <2>2, <2>3
  <2>5. \A n \in open' \ broken' : n \in Mutexes \ {m} /\ n \in open \ broken
    BY <2>1
  <2>6. \A x \in Names : object[x].owner # NoThread => object[x].owner \in Threads
    BY DEF Object
  <2>7. OwnedGoal
    BY <2>1, <2>2, <2>3, <2>5, <2>6
  <2> QED
    BY <2>4, <2>7
<1>3. ASSUME NEW t \in Threads, GetGranted(t) PROVE Goal
  <2> DEFINE m == request[t].mutex
             o == object[NameOf[m]]
             s == IF o.abandoned THEN "WAIT_ABANDONED" ELSE "WAIT_OBJECT_0"
  <2>1. /\ m \in open \ broken /\ m \in Mutexes
        /\ o.owner \in {NoThread, t} /\ o.depth \in Nat
        /\ object' = [object EXCEPT ![NameOf[m]] =
                        [owner |-> t, depth |-> o.depth + 1, abandoned |-> FALSE]]
    BY <1>3, GrantedFacts DEF Name
  <2>2. o.owner = NoThread => o.depth = 0
    BY <2>1, Types
  <2>3. Status(s) = "TX_SUCCESS" <=> ~o.abandoned
    BY DEF Status
  <2>4. /\ open' = open /\ broken' = broken /\ bequeathed' = bequeathed
        /\ held' = IF o.abandoned THEN held ELSE [held EXCEPT ![t][m] = held[t][m] + 1]
    BY <1>3, <2>3 DEF GetGranted, Answer, Name
  <2>5. o.abandoned => bequeathed
    BY <2>1 DEF MutexInv, OnlyBequeathed
  <2>6. o.abandoned => o.owner = NoThread
    BY <2>1, Types
  <2> HIDE DEF m, s
  <2>7. object'[NameOf[m]].owner = t /\ object'[NameOf[m]].depth = o.depth + 1
    BY <2>1
  <2>8. \A n \in Mutexes \ {m} : object'[NameOf[n]] = object[NameOf[n]]
    BY <2>1
  <2>9. \A u \in Threads : \A n \in Mutexes :
          held'[u][n] = IF u = t /\ n = m /\ ~o.abandoned THEN held[u][n] + 1 ELSE held[u][n]
    BY <2>1, <2>4
  <2>10. \A u \in Threads \ {t} : held[u][m] = 0
    BY <2>1
  <2>11. held[t][m] <= o.depth /\ held[t][m] \in Nat
    BY <2>1, <2>2
  <2>12. HeldGoal
    <3> SUFFICES ASSUME NEW u \in Threads, NEW n \in Mutexes, held'[u][n] > 0
                 PROVE  /\ n \notin broken' /\ object'[NameOf[n]].owner = u
                        /\ object'[NameOf[n]].depth >= held'[u][n]
      OBVIOUS
    <3>1. CASE n = m
      BY <2>1, <2>4, <2>7, <2>9, <2>10, <2>11, <3>1
    <3>2. CASE n # m
      BY <2>4, <2>8, <2>9, <3>2
    <3> QED
      BY <3>1, <3>2
  <2>13. OwnedGoal
    <3> SUFFICES ASSUME ~bequeathed, NEW n \in open \ broken,
                        object'[NameOf[n]].owner # NoThread
                 PROVE  held'[object'[NameOf[n]].owner][n] = object'[NameOf[n]].depth
      BY <2>4
    <3>1. CASE n = m
      <4>1. o.owner = t => held[t][m] = o.depth
        BY <2>1
      <4>2. held[t][m] = o.depth
        BY <2>1, <2>2, <2>11, <4>1
      <4> QED
        BY <2>1, <2>5, <2>7, <2>9, <3>1, <4>2
    <3>2. CASE n # m
      BY <2>8, <2>9, <3>2 DEF Object
    <3> QED
      BY <3>1, <3>2
  <2> QED
    BY <2>12, <2>13
<1>4. ASSUME NEW t \in Threads, GetTimesOut(t) \/ GetFails(t) PROVE Goal
  BY <1>4 DEF GetTimesOut, GetFails, Answer, Status
<1>5. ASSUME NEW t \in Threads, NEW m \in Mutexes, Put(t, m) PROVE Goal
  <2> DEFINE o == object[NameOf[m]]
  <2>1. UNCHANGED <<open, broken, bequeathed>> /\ m \in open
    BY <1>5 DEF Put
  <2>2. CASE ~(m \notin broken /\ o.owner = t)
    BY <1>5, <2>1, <2>2 DEF Put
  <2>3. CASE m \notin broken /\ o.owner = t
    <3>1. object' = [object EXCEPT ![NameOf[m]] =
                       IF o.depth = 1 THEN Free
                       ELSE [owner |-> t, depth |-> o.depth - 1, abandoned |-> FALSE]]
      BY <1>5, <2>3 DEF Put
    <3>2. held' = [held EXCEPT ![t][m] = IF held[t][m] = 0 THEN 0 ELSE held[t][m] - 1]
      BY <1>5, <2>3 DEF Put
    <3>3. o.depth \in Nat /\ o.depth > 0 /\ held[t][m] \in Nat /\ held[t][m] <= o.depth
      BY <2>3, Types
    <3>4. \A n \in Mutexes \ {m} : object'[NameOf[n]] = object[NameOf[n]]
      BY <3>1
    <3>5. /\ object'[NameOf[m]].depth = o.depth - 1
          /\ object'[NameOf[m]].owner = IF o.depth = 1 THEN NoThread ELSE t
      BY <3>1, <3>3 DEF Free
    <3>6. \A u \in Threads : \A n \in Mutexes :
            held'[u][n] = IF u = t /\ n = m
                          THEN (IF held[t][m] = 0 THEN 0 ELSE held[t][m] - 1) ELSE held[u][n]
      BY <3>2
    <3>7. \A u \in Threads \ {t} : held[u][m] = 0
      BY <2>3
    <3> HIDE DEF o
    <3>8. HeldGoal
      <4> SUFFICES ASSUME NEW u \in Threads, NEW n \in Mutexes, held'[u][n] > 0
                   PROVE  /\ n \notin broken' /\ object'[NameOf[n]].owner = u
                          /\ object'[NameOf[n]].depth >= held'[u][n]
        OBVIOUS
      <4>1. CASE n = m
        BY <2>1, <2>3, <3>3, <3>5, <3>6, <3>7, <4>1
      <4>2. CASE n # m
        BY <2>1, <3>4, <3>6, <4>2
      <4> QED
        BY <4>1, <4>2
    <3>9. OwnedGoal
      <4> SUFFICES ASSUME ~bequeathed, NEW n \in open \ broken,
                          object'[NameOf[n]].owner # NoThread
                   PROVE  held'[object'[NameOf[n]].owner][n] = object'[NameOf[n]].depth
        BY <2>1
      <4>1. CASE n = m
        <5>1. held[t][m] = o.depth
          BY <2>1, <2>3 DEF o
        <5> QED
          BY <3>3, <3>5, <3>6, <4>1, <5>1
      <4>2. CASE n # m
        BY <3>4, <3>6, <4>2 DEF Object
      <4> QED
        BY <4>1, <4>2
    <3> QED
      BY <3>8, <3>9
  <2> QED
    BY <2>2, <2>3
<1>6. ASSUME NEW t \in Threads, NEW m \in Mutexes, NEW w \in Waits, GetCall(t, m, w)
      PROVE  Goal
  BY <1>6 DEF GetCall
<1>7. ASSUME NEW t \in Threads, Exit(t) PROVE Goal
  <2>1. UNCHANGED <<open, broken>>
    BY <1>7 DEF Exit
  <2>2. \A x \in Names : object'[x] = IF object[x].owner = t THEN [Free EXCEPT !.abandoned = TRUE]
                                     ELSE object[x]
    BY <1>7 DEF Exit, Owned
  <2>3. \A u \in Threads : \A n \in Mutexes : held'[u][n] = IF u = t THEN 0 ELSE held[u][n]
    BY <1>7 DEF Exit, NothingHeld
  <2>4. HeldGoal
    BY <2>1, <2>2, <2>3
  <2>5. ~bequeathed' => ~bequeathed /\ \A x \in Names : object[x].owner # t
    BY <1>7 DEF Exit, Owned
  <2>6. OwnedGoal
    BY <2>1, <2>2, <2>3, <2>5 DEF Object
  <2> QED
    BY <2>4, <2>6
<1>8. CASE UNCHANGED vars
  BY <1>8 DEF vars, mutex_vars
<1> QED
  BY <1>1, <1>2, <1>3, <1>4, <1>5, <1>6, <1>7, <1>8 DEF Next, Manage, Step

-------------------------------------------------------------------------------
(* The invariant holds throughout.                                         *)
THEOREM MutexInvariant == Spec => []MutexInv
<1>1. MutexInv /\ [Next]_vars => MutexInv'
  BY TypeStep, RequestsStep, StrayStep, HistoryStep, StatusStep DEF MutexInv
<1> QED
  BY MutexInit, <1>1, PTL DEF Spec

(* No handle leaks, and the kernel's owner of a mutex is a live thread     *)
(* within its depth.                                                       *)
THEOREM MutexType == Spec => []TypeOK
<1>1. MutexInv => TypeOK
  BY DEF MutexInv
<1> QED
  BY MutexInvariant, <1>1, PTL

(* A status never promises a mutex the caller does not own.                *)
THEOREM StatusNeverOverpromises == Spec => []HeldMeansOwned
<1>1. MutexInv => HeldMeansOwned
  BY DEF MutexInv
<1> QED
  BY MutexInvariant, <1>1, PTL

(* While no owner has ended, nobody owns a mutex unawares.                 *)
THEOREM StatusNeverHides == Spec => []OwnedMeansHeld
<1>1. MutexInv => OwnedMeansHeld
  BY DEF MutexInv
<1> QED
  BY MutexInvariant, <1>1, PTL
-------------------------------------------------------------------------------
(***************************************************************************)
(* Independence                                                            *)
(***************************************************************************)
(* What the abstract mutexes see.                                          *)
Lock == [m \in Mutexes |-> IF m \in open \ broken THEN object[NameOf[m]] ELSE Free]

(* A step of one mutex's object changes that lock only.                    *)
LEMMA LockOfOne ==
  ASSUME OwnNames, MutexInv, NEW m \in open \ broken, NEW o,
         UNCHANGED <<open, broken>>, object' = [object EXCEPT ![NameOf[m]] = o]
  PROVE  Lock' = [Lock EXCEPT ![m] = o]
<1>1. m \in Mutexes /\ NameOf \in [Mutexes -> Names] /\ object \in [Names -> Object]
  BY Types, MutexAssumption
<1>2. object'[NameOf[m]] = o
  BY <1>1
<1>3. \A n \in Mutexes \ {m} : object'[NameOf[n]] = object[NameOf[n]]
  BY <1>1 DEF OwnNames
<1> QED
  BY <1>1, <1>2, <1>3 DEF Lock

LEMMA LockInit == Init => Locks!Init
  BY DEF Init, Locks!Init, NoRequest, Locks!NoRequest, Free, Locks!Free

LEMMA ManageRefines ==
  ASSUME OwnNames, MutexInv, NEW m \in Mutexes, Create(m) \/ Delete(m)
  PROVE  Locks!Create(m) \/ Locks!Delete(m)
<1>t. broken \subseteq open /\ object \in [Names -> Object]
      /\ NameOf \in [Mutexes -> Names]
  BY Types, MutexAssumption
<1>1. CASE Create(m)
  <2>1. m \notin open /\ m \notin broken /\ open' = open \cup {m} /\ object' = object
        /\ UNCHANGED <<alive, request, status>>
    BY <1>1, <1>t DEF Create
  <2>2. CASE broken' = broken
    <3>1. Holders(NameOf[m]) = {}
      BY <2>1, <1>t DEF Holders, OwnNames, MutexInv, TypeOK
    <3>2. object[NameOf[m]] = Free
      BY <3>1, <1>t DEF MutexInv, NoStrayOwner
    <3>3. Lock' = Lock
      BY <2>1, <2>2, <3>2 DEF Lock
    <3> QED
      BY <2>1, <2>2, <3>3 DEF Locks!Create, Lock
  <2>3. CASE broken' = broken \cup {m}
    <3>1. Lock' = Lock
      BY <2>1, <2>3 DEF Lock
    <3> QED
      BY <2>1, <2>3, <3>1 DEF Locks!Create, Lock
  <2> QED
    BY <1>1, <2>2, <2>3 DEF Create
<1>2. CASE Delete(m)
  <2>1. /\ m \in open /\ \A t \in Threads : request[t].mutex # m
        /\ open' = open \ {m} /\ broken' = broken \ {m} /\ UNCHANGED <<alive, request, status>>
    BY <1>2 DEF Delete, Unused
  <2>2. \A n \in Mutexes \ {m} : object'[NameOf[n]] = object[NameOf[n]]
    <3>1. CASE object' = object
      BY <3>1
    <3>2. CASE object' = [object EXCEPT ![NameOf[m]] = Free]
      BY <3>2, <1>t DEF OwnNames
    <3> QED
      BY <1>2, <3>1, <3>2 DEF Delete
  <2>3. Lock' = [Lock EXCEPT ![m] = Free]
    BY <2>1, <2>2 DEF Lock
  <2> QED
    BY <2>1, <2>3 DEF Locks!Delete, Lock, Free, Locks!Free
<1> QED
  BY <1>1, <1>2

(* The end of a get is the same on both sides, but for the lock.           *)
LEMMA AnswerRefines ==
  ASSUME NEW t \in Threads, NEW result, Answer(t, result)
  PROVE  Locks!Answer(t, Status(result)) /\ UNCHANGED <<open, broken>>
  BY DEF Answer, Locks!Answer, NoRequest, Locks!NoRequest

LEMMA StepRefines ==
  ASSUME OwnNames, MutexInv, NEW t \in Threads, Step(t)
  PROVE  \/ Locks!Grant(t) \/ Locks!TimeOut(t) \/ Locks!Fail(t)
         \/ \E m \in Mutexes : Locks!Put(t, m) \/ \E w \in Waits : Locks!Get(t, m, w)
<1>t. /\ open \subseteq Mutexes /\ broken \subseteq open /\ object \in [Names -> Object]
      /\ NameOf \in [Mutexes -> Names]
  BY Types, MutexAssumption
<1>s. /\ Status("WAIT_OBJECT_0") = "TX_SUCCESS" /\ Status("WAIT_TIMEOUT") = "TX_NO_INSTANCE"
      /\ Status("WAIT_ABANDONED") = "TX_MUTEX_ERROR" /\ Status("WAIT_FAILED") = "TX_MUTEX_ERROR"
  BY DEF Status
<1>w. request[t] # NoRequest => request[t].mutex \in open
  BY DEF MutexInv, RequestsOpen
<1>l. \A m \in open \ broken : Lock[m] = object[NameOf[m]]
  BY <1>t DEF Lock
<1>1. CASE GetGranted(t)
  <2> DEFINE m == request[t].mutex
             o == [owner |-> t, depth |-> object[NameOf[m]].depth + 1, abandoned |-> FALSE]
             r == IF object[NameOf[m]].abandoned THEN "WAIT_ABANDONED" ELSE "WAIT_OBJECT_0"
  <2>1. /\ Answer(t, r) /\ m \in open \ broken /\ object[NameOf[m]].owner \in {NoThread, t}
        /\ object' = [object EXCEPT ![NameOf[m]] = o]
    BY <1>1, GrantedFacts DEF GetGranted, Name
  <2>2. Status(r) = IF object[NameOf[m]].abandoned THEN "TX_MUTEX_ERROR" ELSE "TX_SUCCESS"
    BY <1>s
  <2>3. Lock[m] = object[NameOf[m]]
    BY <1>l, <2>1
  <2> HIDE DEF o, r
  <2>4. Locks!Answer(t, Status(r)) /\ UNCHANGED <<open, broken>>
    BY <2>1, AnswerRefines
  <2>5. Lock' = [Lock EXCEPT ![m] = o]
    BY <2>1, <2>4, LockOfOne
  <2>6. o = [owner |-> t, depth |-> Lock[m].depth + 1, abandoned |-> FALSE]
    BY <2>3 DEF o
  <2>7. Locks!Answer(t, IF Lock[m].abandoned THEN "TX_MUTEX_ERROR" ELSE "TX_SUCCESS")
    BY <2>2, <2>3, <2>4
  <2>8. Locks!Grant(t)
    BY <2>1, <2>3, <2>5, <2>6, <2>7 DEF Locks!Grant, Locks!Wanted, Lock
  <2> QED
    BY <2>8
<1>2. CASE GetTimesOut(t)
  <2> DEFINE m == request[t].mutex
  <2>1. /\ Answer(t, "WAIT_TIMEOUT") /\ m \notin broken /\ request[t] # NoRequest
        /\ object[NameOf[m]].owner \in Threads \ {t} /\ request[t].wait # "forever"
        /\ object' = object
    BY <1>2 DEF GetTimesOut, Answer, Name
  <2>2. Locks!Answer(t, "TX_NO_INSTANCE") /\ UNCHANGED <<open, broken>>
    BY <1>s, <2>1, AnswerRefines
  <2>3. Lock[m] = object[NameOf[m]] /\ Lock' = Lock
    BY <1>l, <1>w, <2>1, <2>2 DEF Lock
  <2>4. Locks!TimeOut(t)
    BY <2>1, <2>2, <2>3 DEF Locks!TimeOut, Locks!Wanted, Lock
  <2> QED
    BY <2>4
<1>3. CASE GetFails(t)
  <2>1. Answer(t, "WAIT_FAILED") /\ request[t].mutex \in broken /\ object' = object
    BY <1>3 DEF GetFails
  <2>2. Locks!Answer(t, "TX_MUTEX_ERROR") /\ UNCHANGED <<open, broken>>
    BY <1>s, <2>1, AnswerRefines
  <2>3. Lock' = Lock
    BY <2>1, <2>2 DEF Lock
  <2>4. Locks!Fail(t)
    BY <2>1, <2>2, <2>3 DEF Locks!Fail, Locks!Wanted, Lock
  <2> QED
    BY <2>4
<1>4. ASSUME NEW m \in Mutexes, Put(t, m) PROVE Locks!Put(t, m)
  <2>1. Locks!Idle(t) /\ m \in open /\ UNCHANGED <<open, broken, alive, request>>
    BY <1>4 DEF Put, Idle, Locks!Idle, NoRequest, Locks!NoRequest
  <2>2. CASE m \notin broken /\ object[NameOf[m]].owner = t
    <3> DEFINE o == IF object[NameOf[m]].depth = 1 THEN Free
                    ELSE [owner |-> t, depth |-> object[NameOf[m]].depth - 1, abandoned |-> FALSE]
    <3>1. object' = [object EXCEPT ![NameOf[m]] = o]
          /\ status' = [status EXCEPT ![t] = "TX_SUCCESS"]
      BY <1>4, <2>2 DEF Put
    <3>2. Lock[m] = object[NameOf[m]]
      BY <1>l, <2>1, <2>2
    <3>3. o = IF Lock[m].depth = 1 THEN Free
              ELSE [owner |-> t, depth |-> Lock[m].depth - 1, abandoned |-> FALSE]
      BY <3>2
    <3> HIDE DEF o
    <3>4. Lock' = [Lock EXCEPT ![m] = o]
      BY <2>1, <2>2, <3>1, LockOfOne
    <3> QED
      BY <2>1, <2>2, <3>1, <3>2, <3>3, <3>4 DEF Locks!Put, Lock, Free, Locks!Free
  <2>3. CASE ~(m \notin broken /\ object[NameOf[m]].owner = t)
    <3>1. object' = object /\ status' = [status EXCEPT ![t] = "TX_MUTEX_ERROR"]
      BY <1>4, <2>3 DEF Put
    <3>2. Lock[m].owner # t
      BY <2>1, <2>3, MutexAssumption DEF Lock, Free
    <3>3. Lock' = Lock
      BY <2>1, <3>1 DEF Lock
    <3> QED
      BY <2>1, <3>1, <3>2, <3>3 DEF Locks!Put, Lock
  <2> QED
    BY <2>2, <2>3
<1>5. ASSUME NEW m \in Mutexes, NEW w \in Waits, GetCall(t, m, w) PROVE Locks!Get(t, m, w)
  <2>1. /\ Locks!Idle(t) /\ m \in open /\ UNCHANGED <<open, broken, alive, object>>
        /\ request' = [request EXCEPT ![t] = [mutex |-> m, wait |-> w]]
        /\ status' = [status EXCEPT ![t] = "none"]
    BY <1>5 DEF GetCall, Idle, Locks!Idle, NoRequest, Locks!NoRequest
  <2>2. Lock' = Lock
    BY <2>1 DEF Lock
  <2> QED
    BY <2>1, <2>2 DEF Locks!Get, Lock
<1> QED
  BY <1>1, <1>2, <1>3, <1>4, <1>5 DEF Step

LEMMA ExitRefines ==
  ASSUME MutexInv, NEW t \in Threads, Exit(t) PROVE Locks!Exit(t)
<1>1. /\ Locks!Idle(t) /\ alive' = alive \ {t} /\ UNCHANGED <<open, broken, request, status>>
      /\ object' = [x \in Names |-> IF object[x].owner = t THEN [Free EXCEPT !.abandoned = TRUE]
                                     ELSE object[x]]
  BY DEF Exit, Owned, Idle, Locks!Idle, NoRequest, Locks!NoRequest
<1>2. ASSUME NEW m \in Mutexes
      PROVE  Lock'[m] = IF Lock[m].owner = t THEN [Free EXCEPT !.abandoned = TRUE] ELSE Lock[m]
  <2>1. CASE m \in open \ broken
    BY <1>1, <2>1, MutexAssumption DEF Lock
  <2>2. CASE m \notin open \ broken
    BY <1>1, <2>2, MutexAssumption DEF Lock, Free
  <2> QED
    BY <2>1, <2>2
<1>3. Lock' = [m \in Mutexes |-> IF Lock[m].owner = t THEN [Free EXCEPT !.abandoned = TRUE]
                                 ELSE Lock[m]]
  BY <1>2 DEF Lock
<1> QED
  BY <1>1, <1>3 DEF Locks!Exit, Lock, Free, Locks!Free

LEMMA NextRefines ==
  ASSUME OwnNames, MutexInv, [Next]_vars PROVE [Locks!Next]_Locks!vars
<1> DEFINE Goal == Locks!Next \/ UNCHANGED <<open, broken, alive, Lock, request, status>>
<1> SUFFICES Goal
  BY DEF Locks!vars, Lock
<1>1. ASSUME NEW m \in Mutexes, Create(m) \/ Delete(m) PROVE Goal
  BY <1>1, ManageRefines DEF Locks!Next
<1>2. ASSUME NEW t \in Threads, Step(t) PROVE Goal
  BY <1>2, StepRefines DEF Locks!Next, Waits, Locks!Waits
<1>3. ASSUME NEW t \in Threads, Exit(t) PROVE Goal
  BY <1>3, ExitRefines DEF Locks!Next
<1>4. CASE UNCHANGED vars
  BY <1>4 DEF vars, mutex_vars, Lock
<1> QED
  BY <1>1, <1>2, <1>3, <1>4 DEF Next, Manage

(* Blocks with names of their own are independent recursive mutexes, of    *)
(* which an owner that ends leaves one behind that says so once.           *)
THEOREM MutexRefinement == ASSUME OwnNames PROVE Spec => ImplementsMutexes
<1>1. MutexInv /\ [Next]_vars => [Locks!Next]_Locks!vars
  BY NextRefines
<1> QED
  BY <1>1, LockInit, MutexInvariant, PTL DEF Spec, ImplementsMutexes, Locks!Spec
===============================================================================
