------------------------------- MODULE TxThread -------------------------------
(***************************************************************************)
(* The registry of threads of threadx_glue/glue.c: a doubly linked list of *)
(* control blocks.  _tx_thread_create starts a Windows thread and then     *)
(* inserts its block at the tail, _tx_thread_delete waits for the thread   *)
(* to end and takes the block out, and _tx_thread_identify, behind every   *)
(* use of _tx_thread_current_ptr, walks the list for the caller's own      *)
(* block.  No lock protects the list; every read and write of a link is a  *)
(* step.  An operator whose name starts with Mut is a broken variant of    *)
(* the definition after it; no specification uses it.                      *)
(***************************************************************************)
EXTENDS Naturals, Sequences

CONSTANTS
  Threads,    (* the control blocks, and the threads that run with them   *)
  Main,       (* the thread that main() runs in: it has no control block  *)
  Anchor,     (* thread_list_head                                         *)
  Null,       (* a null pointer                                           *)
  Careful     (* whether the callers keep the contract below              *)

ASSUME ThreadAssumption ==
  /\ Main \notin Threads
  /\ Anchor \notin Threads
  /\ Null \notin Threads \cup {Anchor}
  /\ Careful \in BOOLEAN

Nodes  == Threads \cup {Anchor}
Actors == Threads \cup {Main}

VARIABLES
  flink, blink,   (* the links of the list                                *)
  id_known,       (* win32_thread_id of a block holds its thread's id     *)
  kernel,         (* per block: "none", "suspended", "running", "exited", *)
                  (* or "failed" when CreateThread gave no thread         *)
  order,          (* the blocks created and not deleted, oldest first     *)
  pc,             (* where each thread is                                 *)
  target,         (* the block its create or delete is about              *)
  cursor,         (* entry, in identify                                   *)
  saved,          (* the neighbours the list macros hold in locals        *)
  was_listed      (* history: its identify began when its create was over *)

links == <<flink, blink>>
vars == <<flink, blink, id_known, kernel, order, pc, target, cursor, saved, was_listed>>

NoneSaved == [prev |-> Null, next |-> Null]

Init ==
  /\ flink = [n \in Nodes |-> IF n = Anchor THEN Anchor ELSE Null]
  /\ blink = [n \in Nodes |-> IF n = Anchor THEN Anchor ELSE Null]
  /\ id_known = [t \in Threads |-> FALSE]
  /\ kernel = [t \in Threads |-> "none"]
  /\ order = << >>
  /\ pc = [a \in Actors |-> "idle"]
  /\ target = [a \in Actors |-> Null]
  /\ cursor = [a \in Actors |-> Null]
  /\ saved = [a \in Actors |-> NoneSaved]
  /\ was_listed = [a \in Actors |-> FALSE]

Runs(a) == a = Main \/ (a \in Threads /\ kernel[a] = "running")
At(a, label) == Runs(a) /\ pc[a] = label
Goto(a, label) == pc' = [pc EXCEPT ![a] = label]
Listed == {order[k] : k \in DOMAIN order}

CreateLabels == {"create_start", "create_id", "insert_tail", "insert_entry", "insert_link",
                 "insert_head"}
DeleteLabels == {"delete_wait", "remove_read", "remove_next", "remove_prev"}
Writing(a) == pc[a] \in CreateLabels \cup DeleteLabels

(***************************************************************************)
(* What careful callers do: they create and delete threads one at a time,  *)
(* and use the block of a deleted thread, whose link is still there, again *)
(* only while every walk stands on a listed block or at the end.  It is    *)
(* not enough that nobody stands on the block itself: a chain of deleted   *)
(* blocks may still lead a walk to it.                                     *)
(***************************************************************************)
OneAtATime == Careful => \A a \in Actors : ~Writing(a)

OnTheList(t) == pc[t] = "walk" => cursor[t] \in Listed \cup {Anchor, Null}
NotWalked(t) == Careful => flink[t] = Null \/ \A u \in Threads : OnTheList(u)

(***************************************************************************)
(* _tx_thread_create                                                       *)
(***************************************************************************)
CreateCall(a, t) ==
  /\ At(a, "idle")
  /\ kernel[t] = "none"
  /\ \A b \in Actors : ~(Writing(b) /\ target[b] = t)
  /\ OneAtATime /\ NotWalked(t)
  /\ flink' = [flink EXCEPT ![t] = Null]
  /\ blink' = [blink EXCEPT ![t] = Null]
  /\ id_known' = [id_known EXCEPT ![t] = FALSE]
  /\ target' = [target EXCEPT ![a] = t]
  /\ Goto(a, "create_start")
  /\ UNCHANGED <<kernel, order, cursor, saved, was_listed>>

(* CreateThread: with auto_start the thread runs from here on, and whether *)
(* its id is stored before or after its first steps is up to the kernel.   *)
(* Nobody looks whether there is a thread: without one the block is listed *)
(* all the same, with no id.                                               *)
CreateStart(a) ==
  /\ At(a, "create_start")
  /\ \E start \in {"running", "suspended", "failed"} :
       kernel' = [kernel EXCEPT ![target[a]] = start]
  /\ Goto(a, "create_id")
  /\ UNCHANGED <<links, id_known, order, target, cursor, saved, was_listed>>

CreateId(a) ==
  /\ At(a, "create_id")
  /\ id_known' = [id_known EXCEPT ![target[a]] = kernel[target[a]] # "failed"]
  /\ Goto(a, "insert_tail")
  /\ UNCHANGED <<links, kernel, order, target, cursor, saved, was_listed>>

InsertTail(a) ==
  /\ At(a, "insert_tail")
  /\ saved' = [saved EXCEPT ![a].prev = blink[Anchor]]
  /\ Goto(a, "insert_entry")
  /\ UNCHANGED <<links, id_known, kernel, order, target, cursor, was_listed>>

MutInsertEntrySwapped(a) ==
  /\ At(a, "insert_entry")
  /\ flink' = [flink EXCEPT ![target[a]] = saved[a].prev]
  /\ blink' = [blink EXCEPT ![target[a]] = Anchor]
  /\ Goto(a, "insert_link")
  /\ UNCHANGED <<id_known, kernel, order, target, cursor, saved, was_listed>>

InsertEntry(a) ==
  /\ At(a, "insert_entry")
  /\ flink' = [flink EXCEPT ![target[a]] = Anchor]
  /\ blink' = [blink EXCEPT ![target[a]] = saved[a].prev]
  /\ Goto(a, "insert_link")
  /\ UNCHANGED <<id_known, kernel, order, target, cursor, saved, was_listed>>

InsertLink(a) ==
  /\ At(a, "insert_link")
  /\ flink' = [flink EXCEPT ![saved[a].prev] = target[a]]
  /\ Goto(a, "insert_head")
  /\ UNCHANGED <<blink, id_known, kernel, order, target, cursor, saved, was_listed>>

MutInsertHeadForgotten(a) ==
  /\ At(a, "insert_head")
  /\ order' = Append(order, target[a])
  /\ Goto(a, "idle")
  /\ target' = [target EXCEPT ![a] = Null]
  /\ saved' = [saved EXCEPT ![a] = NoneSaved]
  /\ UNCHANGED <<links, id_known, kernel, cursor, was_listed>>

InsertHead(a) ==
  /\ At(a, "insert_head")
  /\ blink' = [blink EXCEPT ![Anchor] = target[a]]
  /\ order' = Append(order, target[a])
  /\ Goto(a, "idle")
  /\ target' = [target EXCEPT ![a] = Null]
  /\ saved' = [saved EXCEPT ![a] = NoneSaved]
  /\ UNCHANGED <<flink, id_known, kernel, cursor, was_listed>>

(* _tx_thread_resume of a thread that was created suspended; suspending a  *)
(* running thread is not modelled here.                                    *)
Resume(a, t) ==
  /\ At(a, "idle")
  /\ t \in Listed /\ kernel[t] = "suspended"
  /\ kernel' = [kernel EXCEPT ![t] = "running"]
  /\ UNCHANGED <<links, id_known, order, pc, target, cursor, saved, was_listed>>

(* tx_thread_entry returns.                                                *)
Exit(t) ==
  /\ At(t, "idle")
  /\ kernel' = [kernel EXCEPT ![t] = "exited"]
  /\ UNCHANGED <<links, id_known, order, pc, target, cursor, saved, was_listed>>

(***************************************************************************)
(* _tx_thread_identify                                                     *)
(***************************************************************************)
IdentifyCall(t) ==
  /\ At(t, "idle")
  /\ cursor' = [cursor EXCEPT ![t] = flink[Anchor]]
  /\ was_listed' = [was_listed EXCEPT ![t] = t \in Listed]
  /\ Goto(t, "walk")
  /\ UNCHANGED <<links, id_known, kernel, order, target, saved>>

IsSelf(t) == cursor[t] = t /\ id_known[t]

IdentifyFound(t) ==
  /\ At(t, "walk") /\ IsSelf(t)
  /\ cursor' = [cursor EXCEPT ![t] = Null]
  /\ was_listed' = [was_listed EXCEPT ![t] = FALSE]
  /\ Goto(t, "idle")
  /\ UNCHANGED <<links, id_known, kernel, order, target, saved>>

IdentifyNext(t) ==
  /\ At(t, "walk") /\ ~IsSelf(t) /\ cursor[t] \in Threads
  /\ cursor' = [cursor EXCEPT ![t] = flink[cursor[t]]]
  /\ UNCHANGED <<links, id_known, kernel, order, pc, target, saved, was_listed>>

(* The walk is over: UX_ASSERT(0).  Or it left the list through a link     *)
(* that a create has zeroed, and faults.  The thread stops either way.     *)
IdentifyFails(t) ==
  /\ At(t, "walk") /\ cursor[t] \in {Anchor, Null}
  /\ Goto(t, IF cursor[t] = Anchor THEN "assert_failed" ELSE "fault")
  /\ UNCHANGED <<links, id_known, kernel, order, target, cursor, saved, was_listed>>

(***************************************************************************)
(* _tx_thread_delete                                                       *)
(***************************************************************************)
DeleteCall(a, t) ==
  /\ At(a, "idle")
  /\ a # t /\ t \in Listed
  /\ \A b \in Actors : ~(Writing(b) /\ target[b] = t)
  /\ OneAtATime
  /\ target' = [target EXCEPT ![a] = t]
  /\ Goto(a, "delete_wait")
  /\ UNCHANGED <<links, id_known, kernel, order, cursor, saved, was_listed>>

(* The wait of 100 ms runs out, or there is no thread to wait for:         *)
(* TX_DELETE_ERROR.                                                        *)
DeleteTimesOut(a) ==
  /\ At(a, "delete_wait")
  /\ kernel[target[a]] # "exited"
  /\ target' = [target EXCEPT ![a] = Null]
  /\ Goto(a, "idle")
  /\ UNCHANGED <<links, id_known, kernel, order, cursor, saved, was_listed>>

DeleteGoesOn(a) ==
  /\ At(a, "delete_wait")
  /\ kernel[target[a]] = "exited"
  /\ Goto(a, "remove_read")
  /\ UNCHANGED <<links, id_known, kernel, order, target, cursor, saved, was_listed>>

RemoveRead(a) ==
  /\ At(a, "remove_read")
  /\ saved' = [saved EXCEPT ![a] = [prev |-> blink[target[a]], next |-> flink[target[a]]]]
  /\ Goto(a, "remove_next")
  /\ UNCHANGED <<links, id_known, kernel, order, target, cursor, was_listed>>

MutRemoveNextClears(a) ==
  /\ At(a, "remove_next")
  /\ flink' = [flink EXCEPT ![saved[a].prev] = saved[a].next, ![target[a]] = Null]
  /\ Goto(a, "remove_prev")
  /\ UNCHANGED <<blink, id_known, kernel, order, target, cursor, saved, was_listed>>

RemoveNext(a) ==
  /\ At(a, "remove_next")
  /\ flink' = [flink EXCEPT ![saved[a].prev] = saved[a].next]
  /\ Goto(a, "remove_prev")
  /\ UNCHANGED <<blink, id_known, kernel, order, target, cursor, saved, was_listed>>

Without(s, t) ==
  LET i == CHOOSE j \in DOMAIN s : s[j] = t
  IN [j \in 1 .. Len(s) - 1 |-> IF j < i THEN s[j] ELSE s[j + 1]]

MutRemovePrevZeroes(a) ==
  /\ At(a, "remove_prev")
  /\ blink' = [blink EXCEPT ![saved[a].next] = Null]
  /\ kernel' = [kernel EXCEPT ![target[a]] = "none"]
  /\ order' = Without(order, target[a])
  /\ Goto(a, "idle")
  /\ target' = [target EXCEPT ![a] = Null]
  /\ saved' = [saved EXCEPT ![a] = NoneSaved]
  /\ UNCHANGED <<flink, id_known, cursor, was_listed>>

RemovePrev(a) ==
  /\ At(a, "remove_prev")
  /\ blink' = [blink EXCEPT ![saved[a].next] = saved[a].prev]
  /\ kernel' = [kernel EXCEPT ![target[a]] = "none"]
  /\ order' = Without(order, target[a])
  /\ Goto(a, "idle")
  /\ target' = [target EXCEPT ![a] = Null]
  /\ saved' = [saved EXCEPT ![a] = NoneSaved]
  /\ UNCHANGED <<flink, id_known, cursor, was_listed>>

Step(a) ==
  \/ CreateStart(a) \/ CreateId(a) \/ InsertTail(a) \/ InsertEntry(a) \/ InsertLink(a)
  \/ InsertHead(a)
  \/ DeleteTimesOut(a) \/ DeleteGoesOn(a) \/ RemoveRead(a) \/ RemoveNext(a) \/ RemovePrev(a)

Walk(t) == IdentifyFound(t) \/ IdentifyNext(t) \/ IdentifyFails(t)

Next ==
  \/ \E a \in Actors : Step(a) \/ \E t \in Threads : CreateCall(a, t) \/ DeleteCall(a, t)
                                                     \/ Resume(a, t)
  \/ \E t \in Threads : IdentifyCall(t) \/ Walk(t) \/ Exit(t)

Spec == Init /\ [][Next]_vars

(* A running thread is scheduled, in the middle of a call, until it returns*)
Fairness ==
  /\ \A a \in Actors : WF_vars(Step(a))
  /\ \A t \in Threads : WF_vars(Walk(t))

FairSpec == Spec /\ Fairness
-------------------------------------------------------------------------------
(* The neighbours a create or delete is about to write are not null.       *)
TypeOK ==
  /\ flink \in [Nodes -> Nodes \cup {Null}]
  /\ blink \in [Nodes -> Nodes \cup {Null}]
  /\ id_known \in [Threads -> BOOLEAN]
  /\ kernel \in [Threads -> {"none", "suspended", "running", "exited", "failed"}]
  /\ order \in Seq(Threads)
  /\ pc \in [Actors -> {"idle", "walk", "assert_failed", "fault"} \cup CreateLabels
                         \cup DeleteLabels]
  /\ target \in [Actors -> Threads \cup {Null}]
  /\ cursor \in [Actors -> Nodes \cup {Null}]
  /\ saved \in [Actors -> [prev : Nodes \cup {Null}, next : Nodes \cup {Null}]]
  /\ was_listed \in [Actors -> BOOLEAN]
  /\ \A a \in Actors :
       /\ pc[a] \in {"insert_entry", "insert_link"} => saved[a].prev \in Nodes
       /\ pc[a] \in {"remove_next", "remove_prev"} =>
            saved[a].prev \in Nodes /\ saved[a].next \in Nodes

(***************************************************************************)
(* Whenever nobody is creating or deleting, the list holds the blocks that *)
(* were created and not deleted, oldest first, the same in both directions.*)
(***************************************************************************)
Circle == <<Anchor>> \o order \o <<Anchor>>

ListIsOrder ==
  (\A a \in Actors : ~Writing(a)) =>
    \A k \in 1 .. Len(order) + 1 :
      flink[Circle[k]] = Circle[k + 1] /\ blink[Circle[k + 1]] = Circle[k]

(***************************************************************************)
(* A thread whose block is in the list when it asks who it is finds its    *)
(* block, although blocks are inserted and removed, even the one its walk  *)
(* is standing on, before it is done: it runs neither into UX_ASSERT(0)    *)
(* nor off the list.                                                       *)
(***************************************************************************)
ListedThreadIsFound ==
  \A t \in Threads : was_listed[t] => pc[t] \notin {"assert_failed", "fault"}

(***************************************************************************)
(* UX_ASSERT(0) at the end of identify says that no caller gets there.     *)
(***************************************************************************)
IdentifyNeverFails == \A t \in Threads : pc[t] # "assert_failed"

(***************************************************************************)
(* The walk of a listed thread ends, however often the other threads' blocks*)
(* are taken out, in front of it or under it, and put back at the tail:    *)
(* its own block comes before them.                                        *)
(***************************************************************************)
IdentifyReturns ==
  \A t \in Threads : was_listed[t] ~> pc[t] = "idle"
===============================================================================
