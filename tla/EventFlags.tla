------------------------------ MODULE EventFlags ------------------------------
(***************************************************************************)
(* What an event flags group promises its callers: each get and each set   *)
(* takes effect at one instant, on the flag word of that instant.  A get   *)
(* that is granted observes the word and, when its option says so, takes   *)
(* exactly the flags it asked for in the same step; a get that is not      *)
(* granted changes nothing.                                                *)
(***************************************************************************)
EXTENDS TxApi

CONSTANTS
  Threads,    (* the callers                                              *)
  Requests,   (* the calls they make                                      *)
  NoRequest   (* the request of a thread that has not called yet          *)

VARIABLES
  current,    (* the flag word                                            *)
  phase,      (* per thread: "idle", "pending", "granted" or "done"       *)
  req,        (* per thread: its last request                             *)
  got         (* per thread: the word its granted get observed            *)

vars == <<current, phase, req, got>>

Init ==
  /\ current = {}
  /\ phase = [t \in Threads |-> "idle"]
  /\ req = [t \in Threads |-> NoRequest]
  /\ got = [t \in Threads |-> {}]

(* A group that nobody is using is deleted and created anew, empty.        *)
Reset ==
  /\ \A t \in Threads : phase[t] = "idle"
  /\ current' = {}
  /\ UNCHANGED <<phase, req, got>>

Call(t, r) ==
  /\ phase[t] = "idle"
  /\ phase' = [phase EXCEPT ![t] = "pending"]
  /\ req' = [req EXCEPT ![t] = r]
  /\ UNCHANGED <<current, got>>

(* The instant of a successful get: test and clear in one step.            *)
Grant(t) ==
  /\ phase[t] = "pending"
  /\ req[t].op = "get"
  /\ Satisfying(current, req[t].flags, req[t].option) # {}
  /\ got' = [got EXCEPT ![t] = current]
  /\ current' = IF Clears(req[t].option) THEN current \ req[t].flags ELSE current
  /\ phase' = [phase EXCEPT ![t] = "granted"]
  /\ UNCHANGED req

(* The instant of a set.                                                   *)
Apply(t) ==
  /\ phase[t] = "pending"
  /\ req[t].op = "set"
  /\ current' = Updated(current, req[t].flags, req[t].option)
  /\ phase' = [phase EXCEPT ![t] = "done"]
  /\ UNCHANGED <<req, got>>

(* A get gives up; the flag word is untouched.                             *)
Decline(t) ==
  /\ phase[t] = "pending"
  /\ req[t].op = "get"
  /\ phase' = [phase EXCEPT ![t] = "done"]
  /\ UNCHANGED <<current, req, got>>

Return(t) ==
  /\ phase[t] \in {"granted", "done"}
  /\ phase' = [phase EXCEPT ![t] = "idle"]
  /\ got' = [got EXCEPT ![t] = {}]
  /\ UNCHANGED <<current, req>>

Next ==
  \/ Reset
  \/ \E t \in Threads :
       \/ \E r \in Requests : Call(t, r)
       \/ Grant(t)
       \/ Apply(t)
       \/ Decline(t)
       \/ Return(t)

Spec == Init /\ [][Next]_vars
===============================================================================
