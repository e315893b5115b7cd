------------------------------ MODULE Semaphores ------------------------------
(***************************************************************************)
(* What counting semaphores promise: each one has tokens of its own, a get *)
(* takes one or, when it need not wait for ever, finds none at some        *)
(* instant, and a put adds one unless the semaphore is full.  One whose    *)
(* creation failed is dead: no call on it takes or adds anything.  Each    *)
(* caller is told which of these it was.                                   *)
(***************************************************************************)
EXTENDS Naturals

CONSTANTS
  Threads, Sems,
  MaxCount,   (* how many tokens a semaphore can hold                     *)
  Initials,   (* the numbers of tokens they are created with              *)
  NoSem       (* of a thread that is not calling                          *)

VARIABLES
  open,       (* the semaphores that exist                                *)
  dead,       (* those of them that never came to be                      *)
  tokens,     (* what each one holds                                      *)
  calls,      (* per thread: its phase, semaphore and wait                *)
  told        (* per thread: what its last call told it                   *)

vars == <<open, dead, tokens, calls, told>>

Waits == {"none", "some", "forever"}
NoCall == [phase |-> "idle", sem |-> NoSem, wait |-> "none"]

Init ==
  /\ open = {} /\ dead = {}
  /\ tokens = [s \in Sems |-> 0]
  /\ calls = [t \in Threads |-> NoCall]
  /\ told = [t \in Threads |-> "none"]

Unused(s) == \A t \in Threads : calls[t].sem # s

Create(s, n) ==
  /\ s \notin open
  /\ open' = open \cup {s}
  /\ \/ tokens' = [tokens EXCEPT ![s] = n] /\ UNCHANGED dead
     \/ dead' = dead \cup {s} /\ UNCHANGED tokens
  /\ UNCHANGED <<calls, told>>

Delete(s) ==
  /\ s \in open /\ Unused(s)
  /\ open' = open \ {s} /\ dead' = dead \ {s}
  /\ tokens' = [tokens EXCEPT ![s] = 0]
  /\ UNCHANGED <<calls, told>>

Begin(t, phase, s, wait) ==
  /\ calls[t].phase = "idle"
  /\ s \in open
  /\ calls' = [calls EXCEPT ![t] = [phase |-> phase, sem |-> s, wait |-> wait]]
  /\ told' = [told EXCEPT ![t] = "none"]
  /\ UNCHANGED <<open, dead, tokens>>

(* A call in this phase is decided, and the tokens become n.               *)
Decide(t, from, to, n) ==
  /\ calls[t].phase = from /\ calls[t].sem \notin dead
  /\ calls' = [calls EXCEPT ![t].phase = to]
  /\ tokens' = [tokens EXCEPT ![calls[t].sem] = n]
  /\ UNCHANGED <<open, dead, told>>

Tokens(t) == tokens[calls[t].sem]

Take(t)    == Decide(t, "get", "granted", Tokens(t) - 1) /\ Tokens(t) > 0
TimeOut(t) == Decide(t, "get", "empty", 0) /\ Tokens(t) = 0 /\ calls[t].wait # "forever"
Add(t)     == Decide(t, "put", "added", Tokens(t) + 1) /\ Tokens(t) < MaxCount
Refuse(t)  == Decide(t, "put", "full", MaxCount) /\ Tokens(t) = MaxCount

Fail(t) ==
  /\ calls[t].phase \in {"get", "put"} /\ calls[t].sem \in dead
  /\ calls' = [calls EXCEPT ![t].phase = "failed"]
  /\ UNCHANGED <<open, dead, tokens, told>>

(* What the caller is told: that a token was taken or added, that there was*)
(* none, or that nothing could be done.                                    *)
Answer == [granted |-> "done", added |-> "done", empty |-> "nothing",
           full |-> "error", failed |-> "error"]

Return(t) ==
  /\ calls[t].phase \in DOMAIN Answer
  /\ told' = [told EXCEPT ![t] = Answer[calls[t].phase]]
  /\ calls' = [calls EXCEPT ![t] = NoCall]
  /\ UNCHANGED <<open, dead, tokens>>

Next ==
  \/ \E s \in Sems : Delete(s) \/ \E n \in Initials : Create(s, n)
  \/ \E t \in Threads :
       \/ \E s \in Sems : Begin(t, "put", s, "none") \/ \E w \in Waits : Begin(t, "get", s, w)
       \/ Take(t) \/ TimeOut(t) \/ Add(t) \/ Refuse(t) \/ Fail(t) \/ Return(t)

Spec == Init /\ [][Next]_vars
===============================================================================
