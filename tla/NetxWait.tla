------------------------------- MODULE NetxWait -------------------------------
(***************************************************************************)
(* How NetX Duo makes a thread wait, on top of glue.c.  Between TX_DISABLE *)
(* and TX_RESTORE a thread puts itself in a queue, marks itself, and counts*)
(* up _tx_thread_preempt_disable; then it calls _tx_thread_system_suspend  *)
(* with itself.  Who has what it waits for takes it out of the queue, again*)
(* between TX_DISABLE and TX_RESTORE, and calls _tx_thread_system_resume.  *)
(* While TX_DISABLE is in force no other thread runs, so each such part is *)
(* one step.  In ThreadX the counter keeps the others from running until   *)
(* the suspend is done; glue.c defines it and never reads it.              *)
(***************************************************************************)
EXTENDS TxSuspend

VARIABLES
  queue,      (* the threads that wait in NetX                            *)
  netx        (* what each thread does in NetX, and about which thread    *)

netx_vars == <<vars, queue, netx>>

NotInNetx == [at |-> "outside", thread |-> Nobody]

NetxInit ==
  /\ Init
  /\ \A t \in Threads : count[t] = 0
  /\ queue = {}
  /\ netx = [a \in Threads |-> NotInNetx]

Outside(a) == At(a, "idle") /\ netx[a] = NotInNetx
Enter(a, label, t) == netx' = [netx EXCEPT ![a] = [at |-> label, thread |-> t]]

(* The state of a thread that waits in NetX, TX_TCP_IP.                    *)
Announce(t) ==
  /\ Outside(t)
  /\ queue' = queue \cup {t}
  /\ state' = [state EXCEPT ![t] = "TX_TCP_IP"]
  /\ suspending' = [suspending EXCEPT ![t] = TRUE]
  /\ Enter(t, "announced", t)
  /\ UNCHANGED <<alive, count, control, overlapped, nested>>

SystemSuspend(t) ==
  /\ netx[t].at = "announced"
  /\ SuspendCall(t, t)
  /\ Enter(t, "waits", t)
  /\ UNCHANGED queue

Wake(a, t) ==
  /\ Outside(a)
  /\ t \in queue
  /\ queue' = queue \ {t}
  /\ Enter(a, "woke", t)
  /\ UNCHANGED vars

SystemResume(a) ==
  /\ netx[a].at = "woke"
  /\ ResumeCall(a, netx[a].thread)
  /\ Enter(a, "resumes", netx[a].thread)
  /\ UNCHANGED queue

(* The call of glue.c has returned.                                        *)
Leave(a) ==
  /\ At(a, "idle") /\ netx[a].at \in {"waits", "resumes"}
  /\ netx' = [netx EXCEPT ![a] = NotInNetx]
  /\ UNCHANGED <<vars, queue>>

GlueStep(a) ==
  /\ \/ SuspendKernel(a) \/ SuspendFails(a) \/ SuspendState(a) \/ SuspendFlag(a)
     \/ ResumeKernel(a) \/ ResumeEnded(a) \/ ResumeState(a) \/ ResumeFlag(a)
  /\ UNCHANGED <<queue, netx>>

NetxNext ==
  \E a \in Threads :
    \/ Announce(a) \/ SystemSuspend(a) \/ SystemResume(a) \/ Leave(a) \/ GlueStep(a)
    \/ \E t \in Threads : Wake(a, t)

NetxSpec == NetxInit /\ [][NetxNext]_netx_vars
-------------------------------------------------------------------------------
(***************************************************************************)
(* No thread gets in between a thread that waits and its suspend, as the   *)
(* counter is there to ensure: a thread that was taken out of the queue and*)
(* whose resume is over is not left suspended.                             *)
(***************************************************************************)
WokenThreadRuns ==
  \A t \in Threads :
    netx[t].at = "waits" /\ t \notin queue /\ ~(\E a \in Threads \ {t} : netx[a].thread = t)
      => count[t] = 0
===============================================================================
