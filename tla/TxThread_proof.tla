---------------------------- MODULE TxThread_proof ----------------------------
(***************************************************************************)
(* Proofs about TxThread, for every set of threads, whose callers create   *)
(* and delete one at a time and use the block of a deleted thread again    *)
(* only while every walk stands on the list: the list is sound whenever    *)
(* nobody writes it, and a thread whose block is listed finds it.          *)
(***************************************************************************)
EXTENDS TxThread, SequenceTheorems, TLAPS

(* The list as it is to be: the anchor, the blocks in order, the anchor.   *)
Size == Len(order)
Node(k) == IF k \in 1 .. Size THEN order[k] ELSE Anchor

OneWriter == \A a, b \in Actors : Writing(a) /\ Writing(b) => a = b
Once == \A i, j \in 1 .. Size : order[i] = order[j] => i = j

(* The one link that leads past the list while an insert or remove is half *)
(* done: to the block that the tail's blink does not name yet, or over the *)
(* block that is on its way out.                                           *)
Diverted(k) ==
  \E a \in Actors : \/ pc[a] = "insert_head" /\ k = Size
                    \/ pc[a] = "remove_prev" /\ Node(k + 1) = target[a]

Forward  == \A k \in 0 .. Size : ~Diverted(k) => flink[Node(k)] = Node(k + 1)
Backward == \A k \in 0 .. Size : blink[Node(k + 1)] = Node(k)

(* What a create knows of its block and of the end of the list.            *)
Inserts(a) ==
  /\ pc[a] \in CreateLabels =>
       target[a] \in Threads /\ \A k \in 1 .. Size : order[k] # target[a]
  /\ pc[a] \in {"create_start", "create_id", "insert_tail", "insert_entry"} =>
       flink[target[a]] = Null
  /\ pc[a] \in CreateLabels \ {"create_start"} => kernel[target[a]] # "none"
  /\ pc[a] \in CreateLabels \ {"create_start", "create_id"} =>
       kernel[target[a]] = "failed" \/ id_known[target[a]]
  /\ pc[a] \in {"insert_entry", "insert_link", "insert_head"} => saved[a].prev = Node(Size)
  /\ pc[a] \in {"insert_link", "insert_head"} =>
       flink[target[a]] = Anchor /\ blink[target[a]] = Node(Size)
  /\ pc[a] = "insert_head" => flink[Node(Size)] = target[a]

(* What a delete knows of its block and the two next to it.                *)
Removes(a) ==
  /\ pc[a] \in DeleteLabels => target[a] \in Threads /\ \E k \in 1 .. Size : order[k] = target[a]
  /\ pc[a] \in DeleteLabels \ {"delete_wait"} => kernel[target[a]] = "exited"
  /\ \A k \in 1 .. Size : order[k] = target[a] =>
       /\ pc[a] \in {"remove_next", "remove_prev"} =>
            saved[a].prev = Node(k - 1) /\ saved[a].next = Node(k + 1)
       /\ pc[a] = "remove_prev" => flink[Node(k - 1)] = Node(k + 1)

(* Every listed block has a thread, or never had, and names it.            *)
Named ==
  \A k \in 1 .. Size : /\ kernel[order[k]] # "none"
                       /\ kernel[order[k]] = "failed" \/ id_known[order[k]]

Types ==
  /\ flink \in [Nodes -> Nodes \cup {Null}]
  /\ blink \in [Nodes -> Nodes \cup {Null}]
  /\ id_known \in [Threads -> BOOLEAN]
  /\ kernel \in [Threads -> {"none", "suspended", "running", "exited", "failed"}]
  /\ order \in Seq(Threads)
  /\ pc \in [Actors -> {"idle", "walk", "assert_failed", "fault"} \cup CreateLabels
                         \cup DeleteLabels]
  /\ target \in [Actors -> Threads \cup {Null}]
  /\ cursor \in [Actors -> Nodes \cup {Null}]
  /\ saved \in [Actors -> [prev : Nodes \cup {Null}, next : Nodes \cup {Null}]]
  /\ was_listed \in [Actors -> BOOLEAN]

ListInv ==
  /\ Types
  /\ OneWriter
  /\ Once
  /\ Forward
  /\ Backward
  /\ Named
  /\ \A a \in Actors : Inserts(a) /\ Removes(a)

(***************************************************************************)
(* A walk keeps within a set of blocks that holds the walker's own, that   *)
(* no link leads out of but that of the walker's own block, and that has   *)
(* no block listed behind it.                                              *)
(***************************************************************************)
NotBehind(S, t) == \A i, j \in 1 .. Size : order[i] = t /\ order[j] \in S => j <= i

Leads(S, t) ==
  /\ cursor[t] \in S
  /\ t \in S
  /\ \A x \in S \ {t} : flink[x] \in S
  /\ NotBehind(S, t)

Finds(t) ==
  was_listed[t] =>
    /\ pc[t] = "walk"
    /\ kernel[t] = "running"
    /\ \E k \in 1 .. Size : order[k] = t
    /\ \E S \in SUBSET Threads : Leads(S, t)

FoundInv == \A t \in Threads : Finds(t)
-------------------------------------------------------------------------------
(***************************************************************************)
(* The list as it is to be.                                                *)
(***************************************************************************)
LEMMA NodesOfList ==
  ASSUME order \in Seq(Threads), Once
  PROVE  /\ Size \in Nat
         /\ order \in [1 .. Size -> Threads]
         /\ \A k \in 1 .. Size : Node(k) = order[k] /\ Node(k) \in Threads
         /\ Node(0) = Anchor /\ Node(Size + 1) = Anchor
         /\ \A k \in 0 .. Size + 1 : Node(k) \in Nodes
         /\ \A j, k \in 0 .. Size : Node(j) = Node(k) => j = k
         /\ \A j, k \in 1 .. Size + 1 : Node(j) = Node(k) => j = k
<1>1. Size \in Nat /\ order \in [1 .. Size -> Threads]
  BY LenProperties DEF Size
<1>2. \A k \in 1 .. Size : Node(k) = order[k] /\ Node(k) \in Threads
  BY <1>1 DEF Node
<1>3. Node(0) = Anchor /\ Node(Size + 1) = Anchor
  BY <1>1 DEF Node
<1>4. Anchor \notin Threads
  BY ThreadAssumption
<1>5. \A k \in 0 .. Size + 1 : Node(k) \in Nodes
  BY <1>1, <1>2 DEF Node, Nodes
<1>6. ASSUME NEW j \in 0 .. Size, NEW k \in 0 .. Size, Node(j) = Node(k) PROVE j = k
  BY <1>1, <1>2, <1>3, <1>4, <1>6 DEF Once
<1>7. ASSUME NEW j \in 1 .. Size + 1, NEW k \in 1 .. Size + 1, Node(j) = Node(k) PROVE j = k
  BY <1>1, <1>2, <1>3, <1>4, <1>7 DEF Once
<1> QED
  BY <1>1, <1>2, <1>3, <1>5, <1>6, <1>7

LEMMA SameNodes ==
  ASSUME order' = order
  PROVE  Size' = Size /\ \A k : Node(k)' = Node(k)
  BY DEF Size, Node

(* Who is not writing knows nothing about a block.                         *)
LEMMA NotWriting ==
  ASSUME NEW b, ~Writing(b) PROVE Inserts(b) /\ Removes(b)
  BY DEF Writing, Inserts, Removes, CreateLabels, DeleteLabels

LEMMA AlsoNotWriting ==
  ASSUME NEW b, ~Writing(b)' PROVE Inserts(b)' /\ Removes(b)'
  BY DEF Writing, Inserts, Removes, CreateLabels, DeleteLabels

(* With one writer its own label decides which link is diverted.           *)
LEMMA DivertedByWriter ==
  ASSUME NEW a \in Actors, \A b \in Actors \ {a} : ~Writing(b), NEW k
  PROVE  Diverted(k) <=> \/ pc[a] = "insert_head" /\ k = Size
                         \/ pc[a] = "remove_prev" /\ Node(k + 1) = target[a]
  BY DEF Diverted, Writing, CreateLabels, DeleteLabels

LEMMA DivertedByWriterAfter ==
  ASSUME NEW a \in Actors, \A b \in Actors \ {a} : ~Writing(b)', NEW k
  PROVE  Diverted(k)' <=> \/ pc'[a] = "insert_head" /\ k = Size'
                          \/ pc'[a] = "remove_prev" /\ Node(k + 1)' = target'[a]
  BY DEF Diverted, Writing, CreateLabels, DeleteLabels

(* A step of the only writer.                                              *)
LEMMA WriterStep ==
  ASSUME NEW a \in Actors, \A b \in Actors \ {a} : ~Writing(b) /\ pc'[b] = pc[b],
         Types', Once', Forward', Backward', Named', Inserts(a)', Removes(a)'
  PROVE  ListInv'
<1>1. \A b \in Actors \ {a} : ~Writing(b)'
  BY DEF Writing
<1>2. OneWriter'
  BY <1>1 DEF OneWriter
<1>3. \A b \in Actors : Inserts(b)' /\ Removes(b)'
  BY <1>1, AlsoNotWriting
<1> QED
  BY <1>2, <1>3 DEF ListInv

(* A step of the writer that writes no link.                               *)
LEMMA LinksKept ==
  ASSUME ListInv, NEW a \in Actors, \A b \in Actors \ {a} : ~Writing(b) /\ pc'[b] = pc[b],
         UNCHANGED <<links, order>>,
         pc[a] \notin {"insert_head", "remove_prev"}, pc'[a] \notin {"insert_head", "remove_prev"}
  PROVE  Once' /\ Forward' /\ Backward'
<1>1. Size' = Size /\ \A k : Node(k)' = Node(k)
  BY SameNodes
<1>2. \A k : ~Diverted(k) /\ ~Diverted(k)'
  <2>1. \A b \in Actors \ {a} : ~Writing(b)'
    BY DEF Writing
  <2> QED
    BY <2>1, DivertedByWriter, DivertedByWriterAfter
<1>3. Once' /\ Backward'
  BY <1>1 DEF ListInv, Once, Backward, links
<1>4. Forward'
  BY <1>1, <1>2 DEF ListInv, Forward, links
<1> QED
  BY <1>3, <1>4

(* A step of somebody who is not writing, while somebody else may be.      *)
LEMMA ReaderStep ==
  ASSUME ListInv, Types', NEW a \in Actors, ~Writing(a), ~Writing(a)',
         \A b \in Actors \ {a} : pc'[b] = pc[b],
         UNCHANGED <<links, id_known, order, target, saved>>,
         \A t \in Threads : \/ kernel'[t] = kernel[t]
                            \/ /\ kernel[t] \in {"suspended", "running"}
                               /\ kernel'[t] \in {"running", "exited"}
  PROVE  ListInv'
<1>1. Size' = Size /\ \A k : Node(k)' = Node(k)
  BY SameNodes
<1>2. \A k : Diverted(k)' = Diverted(k)
  BY <1>1 DEF Diverted, Writing, CreateLabels, DeleteLabels
<1>3. OneWriter'
  BY DEF ListInv, OneWriter, Writing
<1>4. Once' /\ Backward'
  BY <1>1 DEF ListInv, Once, Backward, links
<1>5. Forward'
  BY <1>1, <1>2 DEF ListInv, Forward, links
<1>6. Named'
  BY <1>1, LenProperties DEF ListInv, Types, Named, Size
<1>7. ASSUME NEW b \in Actors, Writing(b) PROVE Inserts(b)' /\ Removes(b)'
  <2>1. pc'[b] = pc[b] /\ target'[b] = target[b] /\ saved'[b] = saved[b] /\ b # a
    BY <1>7 DEF Writing
  <2>2. Inserts(b) /\ Removes(b)
    BY DEF ListInv
  <2>3. Inserts(b)'
    BY <1>1, <2>1, <2>2 DEF Inserts, links, CreateLabels
  <2>4. Removes(b)'
    BY <1>1, <2>1, <2>2 DEF Removes, links, DeleteLabels
  <2> QED
    BY <2>3, <2>4
<1>8. ASSUME NEW b \in Actors, ~Writing(b) PROVE Inserts(b)' /\ Removes(b)'
  <2>1. ~Writing(b)'
    BY <1>8 DEF Writing
  <2> QED
    BY <2>1, AlsoNotWriting
<1> QED
  BY <1>3, <1>4, <1>5, <1>6, <1>7, <1>8 DEF ListInv
-------------------------------------------------------------------------------
(***************************************************************************)
(* The steps of a create.                                                  *)
(***************************************************************************)
LEMMA OthersOfWriter ==
  ASSUME ListInv, NEW a \in Actors, Writing(a) PROVE \A b \in Actors \ {a} : ~Writing(b)
  BY DEF ListInv, OneWriter

LEMMA CreateCallStep ==
  ASSUME ListInv, Careful, NEW a \in Actors, NEW t \in Threads, CreateCall(a, t)
  PROVE  ListInv'
<1> USE DEF Goto
<1>1. pc[a] = "idle" /\ (\A b \in Actors : ~Writing(b)) /\ kernel[t] = "none"
  BY DEF CreateCall, At, OneAtATime
<1>2. Types'
  BY DEF CreateCall, ListInv, Types, Nodes, CreateLabels
<1>3. /\ pc'[a] = "create_start" /\ target'[a] = t /\ order' = order
      /\ kernel' = kernel /\ flink'[t] = Null
      /\ \A b \in Actors \ {a} : pc'[b] = pc[b]
      /\ \A u \in Threads \ {t} : id_known'[u] = id_known[u]
      /\ \A n \in Nodes \ {t} : flink'[n] = flink[n] /\ blink'[n] = blink[n]
  BY DEF CreateCall, ListInv, Types, Nodes
<1>4. Size' = Size /\ \A k : Node(k)' = Node(k)
  BY <1>3, SameNodes
<1>n. /\ Size \in Nat
      /\ order \in [1 .. Size -> Threads]
      /\ \A k \in 0 .. Size + 1 : Node(k) \in Nodes
      /\ \A k \in 1 .. Size : Node(k) = order[k]
      /\ Node(0) = Anchor /\ Node(Size + 1) = Anchor
  BY NodesOfList DEF ListInv, Types
<1>5. \A k \in 1 .. Size : order[k] # t
  BY <1>1 DEF ListInv, Named
<1>6. \A k \in 0 .. Size + 1 : Node(k) # t
  BY <1>5, <1>n, ThreadAssumption
<1>7. \A k : ~Diverted(k) /\ ~Diverted(k)'
  <2>1. \A b \in Actors : ~Writing(b)' \/ b = a
    BY <1>1, <1>3 DEF Writing
  <2> QED
    BY <1>1, <1>3, <2>1, DivertedByWriter, DivertedByWriterAfter
<1>8. Once' /\ Named'
  BY <1>3, <1>4, <1>5, <1>n DEF ListInv, Once, Named
<1>9. Forward' /\ Backward'
  BY <1>3, <1>4, <1>6, <1>7, <1>n DEF ListInv, Forward, Backward
<1>10. Inserts(a)' /\ Removes(a)'
  BY <1>3, <1>4, <1>5 DEF Inserts, Removes, CreateLabels, DeleteLabels
<1> QED
  BY <1>1, <1>2, <1>3, <1>8, <1>9, <1>10, WriterStep

LEMMA CreateStartStep ==
  ASSUME ListInv, NEW a \in Actors, CreateStart(a)
  PROVE  ListInv'
<1> USE DEF Goto
<1>1. pc[a] = "create_start" /\ Writing(a) /\ (\A b \in Actors \ {a} : ~Writing(b))
  BY OthersOfWriter DEF CreateStart, At, Writing, CreateLabels
<1>2. Inserts(a) /\ target[a] \in Threads /\ \A k \in 1 .. Size : order[k] # target[a]
  BY <1>1 DEF ListInv, Inserts, CreateLabels
<1>3. Types'
  <2>1. kernel' \in [Threads -> {"none", "suspended", "running", "exited", "failed"}]
    BY <1>2 DEF CreateStart, ListInv, Types
  <2> QED
    BY <2>1 DEF CreateStart, ListInv, Types, CreateLabels, links
<1>4. /\ pc'[a] = "create_id" /\ target' = target /\ order' = order /\ id_known' = id_known
      /\ UNCHANGED links
      /\ kernel'[target[a]] # "none"
      /\ \A b \in Actors \ {a} : pc'[b] = pc[b]
      /\ \A u \in Threads \ {target[a]} : kernel'[u] = kernel[u]
  BY <1>2 DEF CreateStart, ListInv, Types
<1>5. Size' = Size
  BY <1>4, SameNodes
<1>6. Once' /\ Forward' /\ Backward'
  BY <1>1, <1>4, LinksKept
<1>7. Named'
  BY <1>2, <1>4, <1>5, LenProperties DEF ListInv, Types, Named, Size
<1>8. Inserts(a)' /\ Removes(a)'
  BY <1>1, <1>2, <1>4, <1>5 DEF Inserts, Removes, CreateLabels, DeleteLabels, links
<1> QED
  BY <1>1, <1>3, <1>4, <1>6, <1>7, <1>8, WriterStep

LEMMA CreateIdStep ==
  ASSUME ListInv, NEW a \in Actors, CreateId(a)
  PROVE  ListInv'
<1> USE DEF Goto
<1>1. pc[a] = "create_id" /\ Writing(a) /\ (\A b \in Actors \ {a} : ~Writing(b))
  BY OthersOfWriter DEF CreateId, At, Writing, CreateLabels
<1>2. Inserts(a) /\ target[a] \in Threads /\ \A k \in 1 .. Size : order[k] # target[a]
  BY <1>1 DEF ListInv, Inserts, CreateLabels
<1>3. Types'
  <2>1. id_known' \in [Threads -> BOOLEAN]
    BY <1>2 DEF CreateId, ListInv, Types
  <2> QED
    BY <2>1 DEF CreateId, ListInv, Types, CreateLabels, links
<1>4. /\ pc'[a] = "insert_tail" /\ target' = target /\ order' = order /\ kernel' = kernel
      /\ UNCHANGED links
      /\ kernel[target[a]] = "failed" \/ id_known'[target[a]]
      /\ \A b \in Actors \ {a} : pc'[b] = pc[b]
      /\ \A u \in Threads \ {target[a]} : id_known'[u] = id_known[u]
  BY <1>2 DEF CreateId, ListInv, Types
<1>5. Size' = Size
  BY <1>4, SameNodes
<1>6. Once' /\ Forward' /\ Backward'
  BY <1>1, <1>4, LinksKept
<1>7. Named'
  BY <1>2, <1>4, <1>5, LenProperties DEF ListInv, Types, Named, Size
<1>8. Inserts(a)' /\ Removes(a)'
  BY <1>1, <1>2, <1>4, <1>5 DEF Inserts, Removes, CreateLabels, DeleteLabels, links
<1> QED
  BY <1>1, <1>3, <1>4, <1>6, <1>7, <1>8, WriterStep

LEMMA InsertTailStep ==
  ASSUME ListInv, NEW a \in Actors, InsertTail(a)
  PROVE  ListInv'
<1> USE DEF Goto
<1>1. pc[a] = "insert_tail" /\ Writing(a) /\ (\A b \in Actors \ {a} : ~Writing(b))
  BY OthersOfWriter DEF InsertTail, At, Writing, CreateLabels
<1>2. Inserts(a) /\ target[a] \in Threads /\ \A k \in 1 .. Size : order[k] # target[a]
  BY <1>1 DEF ListInv, Inserts, CreateLabels
<1>n. Size \in Nat /\ Node(Size + 1) = Anchor
  BY NodesOfList DEF ListInv, Types
<1>3. Types'
  <2>1. saved' \in [Actors -> [prev : Nodes \cup {Null}, next : Nodes \cup {Null}]]
    BY DEF InsertTail, ListInv, Types, Nodes
  <2> QED
    BY <2>1 DEF InsertTail, ListInv, Types, CreateLabels, links
<1>4. /\ pc'[a] = "insert_entry" /\ UNCHANGED <<target, order, kernel, id_known, links>>
      /\ saved'[a].prev = blink[Anchor]
      /\ \A b \in Actors \ {a} : pc'[b] = pc[b]
  BY DEF InsertTail, ListInv, Types
<1>5. Size' = Size /\ \A k : Node(k)' = Node(k)
  BY <1>4, SameNodes
<1>6. Once' /\ Forward' /\ Backward'
  BY <1>1, <1>4, LinksKept
<1>7. Named'
  BY <1>4, <1>5 DEF ListInv, Named
<1>8. blink[Anchor] = Node(Size)
  BY <1>n DEF ListInv, Backward
<1>9. Inserts(a)' /\ Removes(a)'
  BY <1>1, <1>2, <1>4, <1>5, <1>8 DEF Inserts, Removes, CreateLabels, DeleteLabels, links
<1> QED
  BY <1>1, <1>3, <1>4, <1>6, <1>7, <1>9, WriterStep

LEMMA InsertEntryStep ==
  ASSUME ListInv, NEW a \in Actors, InsertEntry(a)
  PROVE  ListInv'
<1> USE DEF Goto
<1>1. pc[a] = "insert_entry" /\ Writing(a) /\ (\A b \in Actors \ {a} : ~Writing(b))
  BY OthersOfWriter DEF InsertEntry, At, Writing, CreateLabels
<1>2. /\ Inserts(a) /\ target[a] \in Threads /\ saved[a].prev = Node(Size)
      /\ \A k \in 1 .. Size : order[k] # target[a]
  BY <1>1 DEF ListInv, Inserts, CreateLabels
<1>n. /\ Size \in Nat
      /\ \A k \in 0 .. Size + 1 : Node(k) \in Nodes
      /\ \A k \in 1 .. Size : Node(k) = order[k]
      /\ Node(0) = Anchor /\ Node(Size + 1) = Anchor
  BY NodesOfList DEF ListInv, Types
<1>3. Types'
  BY <1>2, <1>n DEF InsertEntry, ListInv, Types, Nodes, CreateLabels
<1>4. /\ pc'[a] = "insert_link" /\ UNCHANGED <<target, order, kernel, id_known, saved>>
      /\ flink'[target[a]] = Anchor /\ blink'[target[a]] = Node(Size)
      /\ \A b \in Actors \ {a} : pc'[b] = pc[b]
      /\ \A n \in Nodes \ {target[a]} : flink'[n] = flink[n] /\ blink'[n] = blink[n]
  BY <1>2 DEF InsertEntry, ListInv, Types, Nodes
<1>5. Size' = Size /\ \A k : Node(k)' = Node(k)
  BY <1>4, SameNodes
<1>6. \A k \in 0 .. Size + 1 : Node(k) # target[a]
  BY <1>2, <1>n, ThreadAssumption
<1>7. \A k : ~Diverted(k) /\ ~Diverted(k)'
  <2>1. \A b \in Actors \ {a} : ~Writing(b)'
    BY <1>1, <1>4 DEF Writing
  <2> QED
    BY <1>1, <1>4, <2>1, DivertedByWriter, DivertedByWriterAfter
<1>8. Once' /\ Named'
  BY <1>4, <1>5 DEF ListInv, Once, Named
<1>9. Forward' /\ Backward'
  BY <1>4, <1>5, <1>6, <1>7, <1>n DEF ListInv, Forward, Backward
<1>10. Inserts(a)' /\ Removes(a)'
  BY <1>1, <1>2, <1>4, <1>5 DEF Inserts, Removes, CreateLabels, DeleteLabels
<1> QED
  BY <1>1, <1>3, <1>4, <1>8, <1>9, <1>10, WriterStep

LEMMA InsertLinkStep ==
  ASSUME ListInv, NEW a \in Actors, InsertLink(a)
  PROVE  ListInv'
<1> USE DEF Goto
<1>1. pc[a] = "insert_link" /\ Writing(a) /\ (\A b \in Actors \ {a} : ~Writing(b))
  BY OthersOfWriter DEF InsertLink, At, Writing, CreateLabels
<1>2. /\ Inserts(a) /\ target[a] \in Threads /\ saved[a].prev = Node(Size)
      /\ \A k \in 1 .. Size : order[k] # target[a]
  BY <1>1 DEF ListInv, Inserts, CreateLabels
<1>n. /\ Size \in Nat
      /\ \A k \in 0 .. Size + 1 : Node(k) \in Nodes
      /\ \A k \in 1 .. Size : Node(k) = order[k]
      /\ Node(0) = Anchor /\ Node(Size + 1) = Anchor
      /\ \A j, k \in 0 .. Size : Node(j) = Node(k) => j = k
  BY NodesOfList DEF ListInv, Types
<1>3. Types'
  BY <1>2, <1>n DEF InsertLink, ListInv, Types, Nodes, CreateLabels
<1>4. /\ pc'[a] = "insert_head" /\ UNCHANGED <<target, order, kernel, id_known, saved, blink>>
      /\ flink'[Node(Size)] = target[a]
      /\ \A b \in Actors \ {a} : pc'[b] = pc[b]
      /\ \A n \in Nodes \ {Node(Size)} : flink'[n] = flink[n]
  BY <1>2, <1>n DEF InsertLink, ListInv, Types
<1>5. Size' = Size /\ \A k : Node(k)' = Node(k)
  BY <1>4, SameNodes
<1>6. \A k \in 0 .. Size + 1 : Node(k) # target[a]
  BY <1>2, <1>n, ThreadAssumption
<1>7. \A k : ~Diverted(k) /\ (Diverted(k)' <=> k = Size)
  <2>1. \A b \in Actors \ {a} : ~Writing(b)'
    BY <1>1, <1>4 DEF Writing
  <2> QED
    BY <1>1, <1>4, <1>5, <2>1, DivertedByWriter, DivertedByWriterAfter
<1>8. Once' /\ Named' /\ Backward'
  BY <1>4, <1>5 DEF ListInv, Once, Named, Backward
<1>9. Forward'
  BY <1>4, <1>5, <1>7, <1>n DEF ListInv, Forward
<1>10. Inserts(a)' /\ Removes(a)'
  BY <1>1, <1>2, <1>4, <1>5, <1>6, <1>n DEF Inserts, Removes, CreateLabels, DeleteLabels, Nodes
<1> QED
  BY <1>1, <1>3, <1>4, <1>8, <1>9, <1>10, WriterStep

LEMMA InsertHeadStep ==
  ASSUME ListInv, NEW a \in Actors, InsertHead(a)
  PROVE  ListInv'
<1> USE DEF Goto
<1>1. pc[a] = "insert_head" /\ Writing(a) /\ (\A b \in Actors \ {a} : ~Writing(b))
  BY OthersOfWriter DEF InsertHead, At, Writing, CreateLabels
<1> DEFINE t == target[a]
<1>2. /\ t \in Threads
      /\ \A k \in 1 .. Size : order[k] # t
      /\ kernel[t] # "none"
      /\ kernel[t] = "failed" \/ id_known[t]
      /\ flink[t] = Anchor /\ blink[t] = Node(Size)
      /\ flink[Node(Size)] = t
  BY <1>1 DEF ListInv, Inserts, CreateLabels
<1>n. /\ Size \in Nat
      /\ order \in [1 .. Size -> Threads]
      /\ \A k \in 0 .. Size + 1 : Node(k) \in Nodes
      /\ \A k \in 1 .. Size : Node(k) = order[k]
      /\ Node(0) = Anchor /\ Node(Size + 1) = Anchor
      /\ \A j, k \in 1 .. Size + 1 : Node(j) = Node(k) => j = k
  BY NodesOfList DEF ListInv, Types
<1>3. Types'
  BY <1>2 DEF InsertHead, ListInv, Types, Nodes, NoneSaved
<1>4. /\ pc'[a] = "idle" /\ UNCHANGED <<kernel, id_known, flink>>
      /\ order' = Append(order, t)
      /\ blink'[Anchor] = t
      /\ \A b \in Actors \ {a} : pc'[b] = pc[b]
      /\ \A n \in Nodes \ {Anchor} : blink'[n] = blink[n]
  BY DEF InsertHead, ListInv, Types, Nodes
<1>m. PICK m \in Nat : m = Size
  BY <1>n
<1>5. /\ Size' = m + 1
      /\ order'[m + 1] = t
      /\ \A k \in 1 .. m : order'[k] = order[k]
  BY <1>2, <1>4, <1>m DEF Size, ListInv, Types
<1>6. /\ \A k \in 0 .. m : Node(k)' = Node(k)
      /\ Node(m + 1)' = t
      /\ Node(m + 2)' = Anchor
  <2>1. \A k \in 0 .. m : Node(k)' = Node(k)
    BY <1>5, <1>m DEF Node
  <2>2. Node(m + 1)' = t
    BY <1>5 DEF Node
  <2>3. Node(m + 2)' = Anchor
    BY <1>5 DEF Node
  <2> QED
    BY <2>1, <2>2, <2>3
<1>7. \A k : (Diverted(k) <=> k = Size) /\ ~Diverted(k)'
  <2>1. \A b \in Actors \ {a} : ~Writing(b)'
    BY <1>1, <1>4 DEF Writing
  <2> QED
    BY <1>1, <1>4, <2>1, DivertedByWriter, DivertedByWriterAfter
<1>8. Once' /\ Named'
  <2>1. \A k \in 1 .. m + 1 : k = m + 1 \/ k \in 1 .. m
    OBVIOUS
  <2>2. Once'
    BY <1>2, <1>5, <1>m, <2>1 DEF ListInv, Once
  <2>3. Named'
    BY <1>2, <1>4, <1>5, <1>m, <2>1 DEF ListInv, Named
  <2> QED
    BY <2>2, <2>3
<1>9. Forward'
  <2> SUFFICES ASSUME NEW k \in 0 .. m + 1 PROVE flink[Node(k)'] = Node(k + 1)'
    BY <1>4, <1>5 DEF Forward
  <2>1. CASE k \in 0 .. m - 1
    BY <2>1, <1>6, <1>7, <1>m, <1>n DEF ListInv, Forward
  <2>2. CASE k = m
    BY <2>2, <1>2, <1>6, <1>m, <1>n
  <2>3. CASE k = m + 1
    BY <2>3, <1>2, <1>6, <1>m, <1>n
  <2> QED
    BY <2>1, <2>2, <2>3, <1>m
<1>10. Backward'
  <2> SUFFICES ASSUME NEW k \in 0 .. m + 1 PROVE blink'[Node(k + 1)'] = Node(k)'
    BY <1>5 DEF Backward
  <2>1. CASE k \in 0 .. m - 1
    <3>1. Node(k + 1)' = Node(k + 1) /\ Node(k)' = Node(k) /\ Node(k + 1) # Anchor /\ Node(k + 1) \in Nodes
      BY <2>1, <1>6, <1>m, <1>n, ThreadAssumption
    <3> QED
      BY <2>1, <3>1, <1>4, <1>m, <1>n DEF ListInv, Backward
  <2>2. CASE k = m
    BY <2>2, <1>2, <1>4, <1>6, <1>m, <1>n, ThreadAssumption DEF Nodes
  <2>3. CASE k = m + 1
    BY <2>3, <1>2, <1>4, <1>6, <1>m, <1>n
  <2> QED
    BY <2>1, <2>2, <2>3, <1>m
<1>11. Inserts(a)' /\ Removes(a)'
  BY <1>4 DEF Inserts, Removes, CreateLabels, DeleteLabels
<1> QED
  BY <1>1, <1>3, <1>4, <1>8, <1>9, <1>10, <1>11, WriterStep
-------------------------------------------------------------------------------
(***************************************************************************)
(* The steps of a delete.                                                  *)
(***************************************************************************)
LEMMA DeleteCallStep ==
  ASSUME ListInv, Careful, NEW a \in Actors, NEW t \in Threads, DeleteCall(a, t)
  PROVE  ListInv'
<1> USE DEF Goto
<1>1. pc[a] = "idle" /\ (\A b \in Actors : ~Writing(b))
  BY DEF DeleteCall, At, OneAtATime
<1>2. \E k \in 1 .. Size : order[k] = t
  BY LenProperties DEF DeleteCall, Listed, ListInv, Types, Size
<1>3. Types'
  BY DEF DeleteCall, ListInv, Types, DeleteLabels, links
<1>4. /\ pc'[a] = "delete_wait" /\ target'[a] = t /\ UNCHANGED <<order, kernel, id_known, links>>
      /\ \A b \in Actors \ {a} : pc'[b] = pc[b]
  BY DEF DeleteCall, ListInv, Types
<1>5. Size' = Size
  BY <1>4, SameNodes
<1>6. Once' /\ Forward' /\ Backward'
  BY <1>1, <1>4, LinksKept
<1>7. Named'
  BY <1>4, <1>5 DEF ListInv, Named
<1>8. Inserts(a)' /\ Removes(a)'
  BY <1>2, <1>4, <1>5 DEF Inserts, Removes, CreateLabels, DeleteLabels
<1> QED
  BY <1>1, <1>3, <1>4, <1>6, <1>7, <1>8, WriterStep

LEMMA DeleteTimesOutStep ==
  ASSUME ListInv, NEW a \in Actors, DeleteTimesOut(a)
  PROVE  ListInv'
<1> USE DEF Goto
<1>1. pc[a] = "delete_wait" /\ Writing(a) /\ (\A b \in Actors \ {a} : ~Writing(b))
  BY OthersOfWriter DEF DeleteTimesOut, At, Writing, DeleteLabels
<1>3. Types'
  BY DEF DeleteTimesOut, ListInv, Types, DeleteLabels, links
<1>4. /\ pc'[a] = "idle" /\ UNCHANGED <<order, kernel, id_known, links>>
      /\ \A b \in Actors \ {a} : pc'[b] = pc[b]
  BY DEF DeleteTimesOut, ListInv, Types
<1>5. Size' = Size
  BY <1>4, SameNodes
<1>6. Once' /\ Forward' /\ Backward'
  BY <1>1, <1>4, LinksKept
<1>7. Named'
  BY <1>4, <1>5 DEF ListInv, Named
<1>8. Inserts(a)' /\ Removes(a)'
  BY <1>4 DEF Inserts, Removes, CreateLabels, DeleteLabels
<1> QED
  BY <1>1, <1>3, <1>4, <1>6, <1>7, <1>8, WriterStep

LEMMA DeleteGoesOnStep ==
  ASSUME ListInv, NEW a \in Actors, DeleteGoesOn(a)
  PROVE  ListInv'
<1> USE DEF Goto
<1>1. /\ pc[a] = "delete_wait" /\ Writing(a) /\ (\A b \in Actors \ {a} : ~Writing(b))
      /\ kernel[target[a]] = "exited"
  BY OthersOfWriter DEF DeleteGoesOn, At, Writing, DeleteLabels
<1>2. target[a] \in Threads /\ \E k \in 1 .. Size : order[k] = target[a]
  BY <1>1 DEF ListInv, Removes, DeleteLabels
<1>3. Types'
  BY DEF DeleteGoesOn, ListInv, Types, DeleteLabels, links
<1>4. /\ pc'[a] = "remove_read" /\ UNCHANGED <<order, kernel, id_known, links, target>>
      /\ \A b \in Actors \ {a} : pc'[b] = pc[b]
  BY DEF DeleteGoesOn, ListInv, Types
<1>5. Size' = Size
  BY <1>4, SameNodes
<1>6. Once' /\ Forward' /\ Backward'
  BY <1>1, <1>4, LinksKept
<1>7. Named'
  BY <1>4, <1>5 DEF ListInv, Named
<1>8. Inserts(a)' /\ Removes(a)'
  BY <1>1, <1>2, <1>4, <1>5 DEF Inserts, Removes, CreateLabels, DeleteLabels
<1> QED
  BY <1>1, <1>3, <1>4, <1>6, <1>7, <1>8, WriterStep

LEMMA RemoveReadStep ==
  ASSUME ListInv, NEW a \in Actors, RemoveRead(a)
  PROVE  ListInv'
<1> USE DEF Goto
<1>1. pc[a] = "remove_read" /\ Writing(a) /\ (\A b \in Actors \ {a} : ~Writing(b))
  BY OthersOfWriter DEF RemoveRead, At, Writing, DeleteLabels
<1>2. /\ target[a] \in Threads /\ \E k \in 1 .. Size : order[k] = target[a]
      /\ kernel[target[a]] = "exited"
  BY <1>1 DEF ListInv, Removes, DeleteLabels
<1>n. /\ Size \in Nat
      /\ \A k \in 1 .. Size : Node(k) = order[k]
  BY NodesOfList DEF ListInv, Types
<1>3. Types'
  <2>1. saved' \in [Actors -> [prev : Nodes \cup {Null}, next : Nodes \cup {Null}]]
    BY <1>2 DEF RemoveRead, ListInv, Types, Nodes
  <2> QED
    BY <2>1 DEF RemoveRead, ListInv, Types, DeleteLabels, links
<1>4. /\ pc'[a] = "remove_next" /\ UNCHANGED <<order, kernel, id_known, links, target>>
      /\ saved'[a].prev = blink[target[a]] /\ saved'[a].next = flink[target[a]]
      /\ \A b \in Actors \ {a} : pc'[b] = pc[b]
  BY DEF RemoveRead, ListInv, Types
<1>5. Size' = Size /\ \A k : Node(k)' = Node(k)
  BY <1>4, SameNodes
<1>6. Once' /\ Forward' /\ Backward'
  BY <1>1, <1>4, LinksKept
<1>7. Named'
  BY <1>4, <1>5 DEF ListInv, Named
<1>8. ASSUME NEW k \in 1 .. Size, order[k] = target[a]
      PROVE  blink[target[a]] = Node(k - 1) /\ flink[target[a]] = Node(k + 1)
  <2>1. ~Diverted(k)
    BY <1>1, DivertedByWriter
  <2>2. flink[Node(k)] = Node(k + 1)
    BY <1>n, <2>1 DEF ListInv, Forward
  <2>3. blink[Node((k - 1) + 1)] = Node(k - 1)
    BY <1>n DEF ListInv, Backward
  <2> QED
    BY <1>8, <1>n, <2>2, <2>3
<1>9. Inserts(a)' /\ Removes(a)'
  BY <1>2, <1>4, <1>5, <1>8 DEF Inserts, Removes, CreateLabels, DeleteLabels
<1> QED
  BY <1>1, <1>3, <1>4, <1>6, <1>7, <1>9, WriterStep

LEMMA RemoveNextStep ==
  ASSUME ListInv, NEW a \in Actors, RemoveNext(a)
  PROVE  ListInv'
<1> USE DEF Goto
<1>1. pc[a] = "remove_next" /\ Writing(a) /\ (\A b \in Actors \ {a} : ~Writing(b))
  BY OthersOfWriter DEF RemoveNext, At, Writing, DeleteLabels
<1>2. target[a] \in Threads /\ kernel[target[a]] = "exited"
  BY <1>1 DEF ListInv, Removes, DeleteLabels
<1>i. PICK i \in 1 .. Size : order[i] = target[a]
  BY <1>1 DEF ListInv, Removes, DeleteLabels
<1>s. saved[a].prev = Node(i - 1) /\ saved[a].next = Node(i + 1)
  BY <1>1, <1>i DEF ListInv, Removes
<1>n. /\ Size \in Nat
      /\ \A k \in 0 .. Size + 1 : Node(k) \in Nodes
      /\ \A k \in 1 .. Size : Node(k) = order[k]
      /\ \A j, k \in 0 .. Size : Node(j) = Node(k) => j = k
  BY NodesOfList DEF ListInv, Types
<1>p. Node(i - 1) \in Nodes /\ Node(i + 1) \in Nodes
  BY <1>n
<1>3. Types'
  BY <1>s, <1>p DEF RemoveNext, ListInv, Types, DeleteLabels
<1>4. /\ pc'[a] = "remove_prev" /\ UNCHANGED <<order, kernel, id_known, blink, target, saved>>
      /\ flink'[Node(i - 1)] = Node(i + 1)
      /\ \A b \in Actors \ {a} : pc'[b] = pc[b]
      /\ \A x \in Nodes \ {Node(i - 1)} : flink'[x] = flink[x]
  BY <1>s, <1>p DEF RemoveNext, ListInv, Types
<1>5. Size' = Size /\ \A k : Node(k)' = Node(k)
  BY <1>4, SameNodes
<1>6. \A k \in 0 .. Size : ~Diverted(k) /\ (~Diverted(k)' => k # i - 1)
  <2>1. \A b \in Actors \ {a} : ~Writing(b)'
    BY <1>1, <1>4 DEF Writing
  <2>2. Node((i - 1) + 1) = target[a]
    BY <1>i, <1>n
  <2> QED
    BY <1>1, <1>4, <1>5, <2>1, <2>2, DivertedByWriter, DivertedByWriterAfter
<1>7. Once' /\ Named' /\ Backward'
  BY <1>4, <1>5 DEF ListInv, Once, Named, Backward
<1>8. Forward'
  <2> SUFFICES ASSUME NEW k \in 0 .. Size, ~Diverted(k)' PROVE flink'[Node(k)] = Node(k + 1)
    BY <1>5 DEF Forward
  <2>1. Node(k) # Node(i - 1) /\ Node(k) \in Nodes
    BY <1>6, <1>n
  <2> QED
    BY <1>4, <1>6, <2>1 DEF ListInv, Forward
<1>9. \A k \in 1 .. Size : order[k] = target[a] => k = i
  BY <1>i DEF ListInv, Once
<1>10. Inserts(a)' /\ Removes(a)'
  BY <1>2, <1>i, <1>s, <1>4, <1>5, <1>9 DEF Inserts, Removes, CreateLabels, DeleteLabels
<1> QED
  BY <1>1, <1>3, <1>4, <1>7, <1>8, <1>10, WriterStep

LEMMA WithoutOne ==
  ASSUME NEW s \in Seq(Threads), NEW i \in 1 .. Len(s), \A j \in 1 .. Len(s) : s[j] = s[i] => j = i
  PROVE  /\ Without(s, s[i]) \in Seq(Threads)
         /\ Len(Without(s, s[i])) = Len(s) - 1
         /\ \A j \in 1 .. Len(s) - 1 : Without(s, s[i])[j] = IF j < i THEN s[j] ELSE s[j + 1]
<1>1. Len(s) \in Nat /\ DOMAIN s = 1 .. Len(s) /\ s \in [1 .. Len(s) -> Threads]
  BY LenProperties
<1>2. (CHOOSE j \in DOMAIN s : s[j] = s[i]) = i
  BY <1>1
<1> DEFINE w == [j \in 1 .. Len(s) - 1 |-> IF j < i THEN s[j] ELSE s[j + 1]]
<1>3. Without(s, s[i]) = w
  BY <1>2 DEF Without
<1>4. w \in [1 .. Len(s) - 1 -> Threads] /\ Len(s) - 1 \in Nat
  BY <1>1
<1>5. w \in Seq(Threads)
  BY <1>4, SeqDef
<1>6. Len(w) = Len(s) - 1
  <2>1. Len(w) \in Nat /\ DOMAIN w = 1 .. Len(w)
    BY <1>5, LenProperties
  <2>2. 1 .. Len(w) = 1 .. Len(s) - 1
    BY <2>1
  <2> QED
    BY <1>1, <2>1, <2>2
<1> QED
  BY <1>3, <1>5, <1>6

LEMMA RemovePrevStep ==
  ASSUME ListInv, NEW a \in Actors, RemovePrev(a)
  PROVE  ListInv'
<1> USE DEF Goto
<1>1. pc[a] = "remove_prev" /\ Writing(a) /\ (\A b \in Actors \ {a} : ~Writing(b))
  BY OthersOfWriter DEF RemovePrev, At, Writing, DeleteLabels
<1> DEFINE t == target[a]
<1>2. t \in Threads
  BY <1>1 DEF ListInv, Removes, DeleteLabels
<1>i. PICK i \in 1 .. Size : order[i] = t
  BY <1>1 DEF ListInv, Removes, DeleteLabels
<1>s. saved[a].prev = Node(i - 1) /\ saved[a].next = Node(i + 1) /\ flink[Node(i - 1)] = Node(i + 1)
  BY <1>1, <1>i DEF ListInv, Removes
<1>n. /\ Size \in Nat
      /\ order \in [1 .. Size -> Threads]
      /\ \A k \in 0 .. Size + 1 : Node(k) \in Nodes
      /\ \A k \in 1 .. Size : Node(k) = order[k]
      /\ Node(0) = Anchor /\ Node(Size + 1) = Anchor
      /\ \A j, k \in 0 .. Size : Node(j) = Node(k) => j = k
      /\ \A j, k \in 1 .. Size + 1 : Node(j) = Node(k) => j = k
  BY NodesOfList DEF ListInv, Types
<1>m. PICK m \in Nat : m = Size
  BY <1>n
<1>p. Node(i - 1) \in Nodes /\ Node(i + 1) \in Nodes
  BY <1>n
<1>o. \A j \in 1 .. Size : order[j] = t => j = i
  BY <1>i DEF ListInv, Once
<1>5. /\ order' \in Seq(Threads) /\ Size' = m - 1
      /\ \A k \in 1 .. m - 1 : order'[k] = IF k < i THEN order[k] ELSE order[k + 1]
  BY <1>i, <1>m, <1>o, WithoutOne DEF RemovePrev, Size, ListInv, Types
<1>3. Types'
  BY <1>s, <1>p, <1>5 DEF RemovePrev, ListInv, Types, NoneSaved
<1>4. /\ pc'[a] = "idle" /\ UNCHANGED <<id_known, flink>>
      /\ blink'[Node(i + 1)] = Node(i - 1)
      /\ \A b \in Actors \ {a} : pc'[b] = pc[b]
      /\ \A u \in Threads \ {t} : kernel'[u] = kernel[u]
      /\ \A x \in Nodes \ {Node(i + 1)} : blink'[x] = blink[x]
  BY <1>s, <1>p DEF RemovePrev, ListInv, Types
<1>6. /\ \A k \in 0 .. i - 1 : Node(k)' = Node(k)
      /\ \A k \in i .. m : Node(k)' = Node(k + 1)
  <2>1. ASSUME NEW k \in 0 .. i - 1 PROVE Node(k)' = Node(k)
    BY <1>5, <1>m DEF Node
  <2>2. ASSUME NEW k \in i .. m PROVE Node(k)' = Node(k + 1)
    BY <1>5, <1>m DEF Node
  <2> QED
    BY <2>1, <2>2
<1>7. \A k \in 0 .. m : (Diverted(k) <=> k = i - 1) /\ ~Diverted(k)'
  <2>1. \A b \in Actors \ {a} : ~Writing(b)'
    BY <1>1, <1>4 DEF Writing
  <2>2. \A k \in 0 .. m : Node(k + 1) = t <=> k = i - 1
    <3>1. Node(i) = t
      BY <1>i, <1>n
    <3> QED
      BY <1>m, <1>n, <3>1
  <2> QED
    BY <1>1, <1>4, <2>1, <2>2, DivertedByWriter, DivertedByWriterAfter
<1>8. Once' /\ Named'
  <2>1. \A k \in 1 .. m - 1 : order'[k] # t
    BY <1>5, <1>m, <1>o
  <2>2. Once'
    BY <1>5, <1>m, <1>n DEF ListInv, Once
  <2>3. \A k \in 1 .. m - 1 : order'[k] \in Threads /\ \E j \in 1 .. m : order'[k] = order[j]
    BY <1>5, <1>m, <1>n
  <2>4. Named'
    BY <1>4, <1>5, <1>m, <2>1, <2>3 DEF ListInv, Named
  <2> QED
    BY <2>2, <2>4
<1>9. Forward'
  <2> SUFFICES ASSUME NEW k \in 0 .. m - 1 PROVE flink[Node(k)'] = Node(k + 1)'
    BY <1>4, <1>5 DEF Forward
  <2>1. CASE k < i - 1
    <3>1. Node(k)' = Node(k) /\ Node(k + 1)' = Node(k + 1) /\ ~Diverted(k)
      BY <2>1, <1>6, <1>7, <1>m
    <3> QED
      BY <3>1, <1>m DEF ListInv, Forward
  <2>2. CASE k = i - 1
    <3>1. Node(k)' = Node(i - 1) /\ Node(k + 1)' = Node(i + 1)
      BY <2>2, <1>6, <1>m
    <3> QED
      BY <3>1, <1>s
  <2>3. CASE k >= i
    <3>1. Node(k)' = Node(k + 1) /\ Node(k + 1)' = Node(k + 2) /\ ~Diverted(k + 1) /\ k + 1 \in 0 .. Size
      BY <2>3, <1>6, <1>7, <1>m
    <3>2. flink[Node(k + 1)] = Node((k + 1) + 1)
      BY <3>1 DEF ListInv, Forward
    <3> QED
      BY <3>1, <3>2
  <2> QED
    BY <2>1, <2>2, <2>3
<1>10. Backward'
  <2> SUFFICES ASSUME NEW k \in 0 .. m - 1 PROVE blink'[Node(k + 1)'] = Node(k)'
    BY <1>5 DEF Backward
  <2>1. CASE k < i - 1
    <3>1. Node(k)' = Node(k) /\ Node(k + 1)' = Node(k + 1)
      BY <2>1, <1>6, <1>m
    <3>2. Node(k + 1) # Node(i + 1) /\ Node(k + 1) \in Nodes
      BY <2>1, <1>m, <1>n
    <3> QED
      BY <3>1, <3>2, <1>4, <1>m DEF ListInv, Backward
  <2>2. CASE k = i - 1
    <3>1. Node(k)' = Node(i - 1) /\ Node(k + 1)' = Node(i + 1)
      BY <2>2, <1>6, <1>m
    <3> QED
      BY <3>1, <1>4
  <2>3. CASE k >= i
    <3>1. Node(k)' = Node(k + 1) /\ Node(k + 1)' = Node(k + 2)
      BY <2>3, <1>6, <1>m
    <3>2. Node(k + 2) # Node(i + 1) /\ Node(k + 2) \in Nodes
      BY <2>3, <1>m, <1>n
    <3>3. blink[Node((k + 1) + 1)] = Node(k + 1)
      BY <2>3, <1>m DEF ListInv, Backward
    <3> QED
      BY <3>1, <3>2, <3>3, <1>4
  <2> QED
    BY <2>1, <2>2, <2>3
<1>11. Inserts(a)' /\ Removes(a)'
  BY <1>4 DEF Inserts, Removes, CreateLabels, DeleteLabels
<1> QED
  BY <1>1, <1>3, <1>4, <1>8, <1>9, <1>10, <1>11, WriterStep
-------------------------------------------------------------------------------
(***************************************************************************)
(* The list is sound.                                                      *)
(***************************************************************************)
LEMMA ReadersStep ==
  ASSUME ListInv, NEW a \in Actors, NEW t \in Threads,
         \/ Resume(a, t) \/ Exit(t) \/ IdentifyCall(t) \/ Walk(t)
  PROVE  ListInv'
<1> USE DEF Goto, At
<1>t. t \in Actors
  BY DEF Actors
<1>1. CASE Resume(a, t)
  <2>1. Types'
    BY <1>1 DEF Resume, ListInv, Types, links
  <2>2. ~Writing(a) /\ ~Writing(a)'
    BY <1>1 DEF Resume, Writing, CreateLabels, DeleteLabels
  <2>3. \A u \in Threads : \/ kernel'[u] = kernel[u]
                           \/ /\ kernel[u] \in {"suspended", "running"}
                              /\ kernel'[u] \in {"running", "exited"}
    BY <1>1 DEF Resume, ListInv, Types
  <2> QED
    BY <1>1, <2>1, <2>2, <2>3, ReaderStep DEF Resume
<1>2. CASE Exit(t)
  <2>1. Types'
    BY <1>2 DEF Exit, ListInv, Types, links
  <2>2. ~Writing(t) /\ ~Writing(t)'
    BY <1>2 DEF Exit, Writing, CreateLabels, DeleteLabels
  <2>3. \A u \in Threads : \/ kernel'[u] = kernel[u]
                           \/ /\ kernel[u] \in {"suspended", "running"}
                              /\ kernel'[u] \in {"running", "exited"}
    BY <1>2, ThreadAssumption DEF Exit, Runs, ListInv, Types
  <2> QED
    BY <1>2, <1>t, <2>1, <2>2, <2>3, ReaderStep DEF Exit
<1>3. CASE IdentifyCall(t)
  <2>1. Types'
    <3>1. flink[Anchor] \in Nodes \cup {Null} /\ (t \in Listed) \in BOOLEAN
      BY DEF ListInv, Types, Nodes
    <3>2. was_listed' \in [Actors -> BOOLEAN]
      BY <1>3, <3>1, Zenon DEF IdentifyCall, ListInv, Types
    <3> QED
      BY <1>3, <3>1, <3>2 DEF IdentifyCall, ListInv, Types, links
  <2>2. ~Writing(t) /\ ~Writing(t)' /\ \A b \in Actors \ {t} : pc'[b] = pc[b]
    BY <1>3, <1>t DEF IdentifyCall, Writing, CreateLabels, DeleteLabels, ListInv, Types
  <2> QED
    BY <1>3, <1>t, <2>1, <2>2, ReaderStep DEF IdentifyCall
<1>4. CASE Walk(t)
  <2>1. Types'
    <3>1. CASE IdentifyNext(t)
      <4>1. flink[cursor[t]] \in Nodes \cup {Null}
        BY <3>1 DEF IdentifyNext, ListInv, Types, Nodes
      <4> QED
        BY <3>1, <4>1 DEF IdentifyNext, ListInv, Types, links
    <3>2. CASE IdentifyFound(t) \/ IdentifyFails(t)
      BY <3>2 DEF IdentifyFound, IdentifyFails, ListInv, Types, links
    <3> QED
      BY <1>4, <3>1, <3>2 DEF Walk
  <2>2. ~Writing(t) /\ ~Writing(t)' /\ \A b \in Actors \ {t} : pc'[b] = pc[b]
    BY <1>4, <1>t DEF Walk, IdentifyFound, IdentifyNext, IdentifyFails, Writing, CreateLabels,
      DeleteLabels, ListInv, Types
  <2>3. UNCHANGED <<links, id_known, order, target, saved, kernel>>
    BY <1>4 DEF Walk, IdentifyFound, IdentifyNext, IdentifyFails
  <2> QED
    BY <1>t, <2>1, <2>2, <2>3, ReaderStep
<1> QED
  BY <1>1, <1>2, <1>3, <1>4

LEMMA ListInit == Init => ListInv
<1> SUFFICES ASSUME Init PROVE ListInv
  OBVIOUS
<1>1. Size = 0 /\ order \in Seq(Threads)
  BY DEF Init, Size
<1>2. Types
  BY <1>1 DEF Init, Types, Nodes, NoneSaved
<1>3. \A a \in Actors : ~Writing(a)
  BY DEF Init, Writing, CreateLabels, DeleteLabels
<1>4. OneWriter /\ \A a \in Actors : Inserts(a) /\ Removes(a)
  BY <1>3, NotWriting DEF OneWriter
<1>5. \A k : Node(k) = Anchor
  BY <1>1 DEF Node
<1>6. flink[Anchor] = Anchor /\ blink[Anchor] = Anchor
  BY DEF Init, Nodes
<1>7. Once /\ Named /\ Forward /\ Backward
  BY <1>1, <1>5, <1>6 DEF Once, Named, Forward, Backward
<1> QED
  BY <1>2, <1>4, <1>7 DEF ListInv

LEMMA ListStep == ASSUME Careful, ListInv, [Next]_vars PROVE ListInv'
<1>1. ASSUME NEW a \in Actors, Step(a) PROVE ListInv'
  BY <1>1, CreateStartStep, CreateIdStep, InsertTailStep, InsertEntryStep, InsertLinkStep,
    InsertHeadStep, DeleteTimesOutStep, DeleteGoesOnStep, RemoveReadStep, RemoveNextStep,
    RemovePrevStep DEF Step
<1>2. ASSUME NEW a \in Actors, NEW t \in Threads, CreateCall(a, t) \/ DeleteCall(a, t) \/ Resume(a, t)
      PROVE  ListInv'
  BY <1>2, CreateCallStep, DeleteCallStep, ReadersStep
<1>3. ASSUME NEW t \in Threads, IdentifyCall(t) \/ Walk(t) \/ Exit(t) PROVE ListInv'
  <2>1. t \in Actors
    BY DEF Actors
  <2> QED
    BY <1>3, <2>1, ReadersStep
<1>4. CASE UNCHANGED vars
  <2>1. Size' = Size /\ \A k : Node(k)' = Node(k)
    BY <1>4, SameNodes DEF vars
  <2>2. \A k : Diverted(k)' = Diverted(k)
    BY <1>4, <2>1 DEF vars, Diverted
  <2>3. Types' /\ OneWriter' /\ Once' /\ Backward' /\ Named'
    BY <1>4, <2>1 DEF vars, links, ListInv, Types, OneWriter, Writing, Once, Backward, Named
  <2>4. Forward'
    BY <1>4, <2>1, <2>2 DEF vars, links, ListInv, Forward
  <2>5. ASSUME NEW a \in Actors PROVE Inserts(a)' /\ Removes(a)'
    <3>1. Inserts(a)'
      BY <1>4, <2>1 DEF vars, links, ListInv, Inserts
    <3>2. Removes(a)'
      BY <1>4, <2>1 DEF vars, links, ListInv, Removes
    <3> QED
      BY <3>1, <3>2
  <2> QED
    BY <2>3, <2>4, <2>5 DEF ListInv
<1> QED
  BY <1>1, <1>2, <1>3, <1>4 DEF Next

LEMMA ListInvariant == ASSUME Careful PROVE Spec => []ListInv
<1>1. ListInv /\ [Next]_vars => ListInv'
  BY ListStep
<1> QED
  BY ListInit, <1>1, PTL DEF Spec

(* No create or delete of careful callers writes through a null pointer.   *)
THEOREM TypeTheorem == ASSUME Careful PROVE Spec => []TypeOK
<1>1. ListInv => TypeOK
  <2> SUFFICES ASSUME ListInv, NEW a \in Actors
               PROVE  /\ pc[a] \in {"insert_entry", "insert_link"} => saved[a].prev \in Nodes
                      /\ pc[a] \in {"remove_next", "remove_prev"} =>
                           saved[a].prev \in Nodes /\ saved[a].next \in Nodes
    BY DEF ListInv, Types, TypeOK
  <2>n. Size \in Nat /\ \A k \in 0 .. Size + 1 : Node(k) \in Nodes
    BY NodesOfList DEF ListInv, Types
  <2>1. pc[a] \in {"insert_entry", "insert_link"} => saved[a].prev \in Nodes
    BY <2>n DEF ListInv, Inserts
  <2>2. ASSUME pc[a] \in {"remove_next", "remove_prev"}
        PROVE  saved[a].prev \in Nodes /\ saved[a].next \in Nodes
    <3>1. PICK k \in 1 .. Size : order[k] = target[a]
      BY <2>2 DEF ListInv, Removes, DeleteLabels
    <3>2. saved[a].prev = Node(k - 1) /\ saved[a].next = Node(k + 1)
      BY <2>2, <3>1 DEF ListInv, Removes
    <3>3. k - 1 \in 0 .. Size + 1 /\ k + 1 \in 0 .. Size + 1
      BY <2>n
    <3> QED
      BY <2>n, <3>2, <3>3
  <2> QED
    BY <2>1, <2>2
<1> QED
  BY <1>1, ListInvariant, PTL

(* Whenever no careful caller is creating or deleting, the list leads      *)
(* through the blocks created and not deleted, in order, and back.         *)
THEOREM ListTheorem == ASSUME Careful PROVE Spec => []ListIsOrder
<1>1. ListInv => ListIsOrder
  <2> SUFFICES ASSUME ListInv, \A a \in Actors : ~Writing(a), NEW k \in 1 .. Len(order) + 1
               PROVE  flink[Circle[k]] = Circle[k + 1] /\ blink[Circle[k + 1]] = Circle[k]
    BY DEF ListIsOrder
  <2>n. Size \in Nat /\ order \in Seq(Threads) /\ order \in [1 .. Size -> Threads] /\ Size = Len(order)
    BY NodesOfList DEF ListInv, Types, Size
  <2>1. \A j \in 1 .. Size + 2 : Circle[j] = Node(j - 1)
    BY <2>n DEF Circle, Node
  <2>2. ~Diverted(k - 1)
    BY DEF Diverted, Writing, CreateLabels, DeleteLabels
  <2>3. flink[Node(k - 1)] = Node((k - 1) + 1) /\ blink[Node((k - 1) + 1)] = Node(k - 1)
    BY <2>n, <2>2 DEF ListInv, Forward, Backward
  <2> QED
    BY <2>n, <2>1, <2>3
<1> QED
  BY <1>1, ListInvariant, PTL
-------------------------------------------------------------------------------
(***************************************************************************)
(* A listed thread finds its block.                                        *)
(***************************************************************************)

(* What a step of somebody else must leave alone.                          *)
LEMMA FindsKept ==
  ASSUME NEW t \in Threads, Finds(t), was_listed'[t] = was_listed[t],
         was_listed[t] =>
           /\ pc'[t] = pc[t] /\ cursor'[t] = cursor[t] /\ kernel'[t] = kernel[t]
           /\ \E k \in 1 .. Size' : order'[k] = t
           /\ \A S \in SUBSET Threads :
                Leads(S, t) => (\A x \in S \ {t} : flink'[x] \in S) /\ NotBehind(S, t)'
  PROVE  Finds(t)'
  BY DEF Finds, Leads

(* Where the order stays, nothing gets behind.                             *)
LEMMA FindsKeptInOrder ==
  ASSUME NEW t \in Threads, Finds(t), was_listed'[t] = was_listed[t], order' = order,
         was_listed[t] =>
           /\ pc'[t] = pc[t] /\ cursor'[t] = cursor[t] /\ kernel'[t] = kernel[t]
           /\ \A S \in SUBSET Threads : Leads(S, t) => \A x \in S \ {t} : flink'[x] \in S
  PROVE  Finds(t)'
<1>1. Size' = Size
  BY SameNodes
<1>2. ASSUME NEW S PROVE NotBehind(S, t)' <=> NotBehind(S, t)
  BY <1>1 DEF NotBehind
<1> QED
  BY <1>1, <1>2, FindsKept DEF Finds, Leads

(* Steps that write neither a link nor the order.                          *)
LEMMA FindsKeptEasily ==
  ASSUME NEW t \in Threads, Finds(t), UNCHANGED <<flink, order>>, was_listed'[t] = was_listed[t],
         was_listed[t] => pc'[t] = pc[t] /\ cursor'[t] = cursor[t] /\ kernel'[t] = kernel[t]
  PROVE  Finds(t)'
  BY FindsKeptInOrder DEF Leads

(* The blocks up to the walker's own lead to it, from the anchor on.       *)
UpTo(i) == {order[k] : k \in 1 .. i}

LEMMA PrefixLeads ==
  ASSUME ListInv, NEW i \in 1 .. Size, NEW t \in Threads, order[i] = t, kernel[t] = "running"
  PROVE  /\ UpTo(i) \in SUBSET Threads /\ t \in UpTo(i)
         /\ flink[Anchor] \in UpTo(i)
         /\ \A x \in UpTo(i) \ {t} : flink[x] \in UpTo(i)
         /\ NotBehind(UpTo(i), t)
<1>n. /\ Size \in Nat
      /\ \A k \in 1 .. Size : Node(k) = order[k] /\ Node(k) \in Threads
      /\ Node(0) = Anchor
  BY NodesOfList DEF ListInv, Types
<1> DEFINE S == {order[k] : k \in 1 .. i}
<1>3. S \in SUBSET Threads /\ t \in S
  BY <1>n
<1>4. ASSUME NEW k \in 0 .. i - 1 PROVE flink[Node(k)] \in S
  <2>0. k \in 0 .. Size /\ k < Size /\ k + 1 \in 1 .. i
    BY <1>n
  <2>1. CASE ~Diverted(k)
    <3>1. flink[Node(k)] = order[k + 1]
      BY <1>n, <2>0, <2>1 DEF ListInv, Forward
    <3> QED
      BY <2>0, <3>1
  <2>2. CASE Diverted(k)
    <3>1. PICK a \in Actors : pc[a] = "remove_prev" /\ Node(k + 1) = target[a]
      BY <2>0, <2>2, <1>n DEF Diverted
    <3>2. order[k + 1] = target[a] /\ k + 1 \in 1 .. Size
      BY <1>n, <2>0, <3>1
    <3>3. kernel[target[a]] = "exited"
      BY <3>1 DEF ListInv, Removes, DeleteLabels
    <3>4. flink[Node((k + 1) - 1)] = Node((k + 1) + 1)
      BY <3>1, <3>2 DEF ListInv, Removes
    <3>5. k + 1 # i /\ k + 2 \in 1 .. i
      BY <2>0, <3>2, <3>3
    <3>6. flink[Node(k)] = order[k + 2]
      BY <1>n, <3>4, <3>5
    <3> QED
      BY <3>5, <3>6
  <2> QED
    BY <2>1, <2>2
<1>5. flink[Anchor] \in S
  BY <1>n, <1>4
<1>6. \A x \in S \ {t} : flink[x] \in S
  <2> SUFFICES ASSUME NEW x \in S \ {t} PROVE flink[x] \in S
    OBVIOUS
  <2>1. PICK k \in 1 .. i : x = order[k]
    OBVIOUS
  <2>2. k \in 0 .. i - 1 /\ x = Node(k)
    BY <1>n, <2>1
  <2> QED
    BY <1>4, <2>2
<1>7. ASSUME NEW j \in 1 .. Size, order[j] \in S PROVE j <= i
  <2>1. PICK k \in 1 .. i : order[j] = order[k]
    BY <1>7
  <2>2. j = k
    BY <2>1, <1>n DEF ListInv, Once
  <2> QED
    BY <2>2, <1>n
<1>8. NotBehind(S, t)
  <2> SUFFICES ASSUME NEW m \in 1 .. Size, NEW j \in 1 .. Size, order[m] = t, order[j] \in S
               PROVE  j <= m
    BY DEF NotBehind
  <2>1. m = i
    BY DEF ListInv, Once
  <2> QED
    BY <1>7, <2>1
<1> QED
  BY <1>3, <1>5, <1>6, <1>8 DEF UpTo

LEMMA GoesAlone ==
  ASSUME Types, NEW a \in Actors, NEW t \in Threads, pc[a] # pc[t],
         \E label : pc' = [pc EXCEPT ![a] = label]
  PROVE  pc'[t] = pc[t]
<1>1. a # t
  OBVIOUS
<1>2. t \in DOMAIN pc
  BY DEF Types, Actors
<1> QED
  BY <1>1, <1>2

LEMMA FindsWhileCreating ==
  ASSUME Careful, ListInv, NEW t \in Threads, Finds(t), NEW a \in Actors,
         \/ \E u \in Threads : CreateCall(a, u)
         \/ CreateStart(a) \/ CreateId(a) \/ InsertTail(a) \/ InsertEntry(a) \/ InsertLink(a)
         \/ InsertHead(a)
  PROVE  Finds(t)'
<1> USE DEF Goto, At
<1>1. was_listed' = was_listed /\ cursor' = cursor
  BY DEF CreateCall, CreateStart, CreateId, InsertTail, InsertEntry, InsertLink, InsertHead
<1> SUFFICES ASSUME was_listed[t] PROVE Finds(t)'
  BY <1>1 DEF Finds
<1>2. pc[t] = "walk" /\ kernel[t] = "running" /\ \E k \in 1 .. Size : order[k] = t
  BY DEF Finds
<1>3. pc'[t] = pc[t]
  <2>1. pc[a] # "walk"
    BY DEF CreateCall, CreateStart, CreateId, InsertTail, InsertEntry, InsertLink, InsertHead
  <2>2. \E label : pc' = [pc EXCEPT ![a] = label]
    BY DEF CreateCall, CreateStart, CreateId, InsertTail, InsertEntry, InsertLink, InsertHead
  <2> QED
    BY <1>2, <2>1, <2>2, GoesAlone DEF ListInv
<1>n. /\ Size \in Nat
      /\ \A k \in 0 .. Size + 1 : Node(k) \in Nodes
      /\ \A k \in 1 .. Size : Node(k) = order[k]
      /\ Node(0) = Anchor /\ Node(Size + 1) = Anchor
  BY NodesOfList DEF ListInv, Types
<1>4. CASE \E u \in Threads : CreateCall(a, u)
  <2>1. PICK u \in Threads : CreateCall(a, u)
    BY <1>4
  <2>2. order' = order /\ kernel' = kernel /\ Size' = Size
    BY <2>1, SameNodes DEF CreateCall
  <2>3. CASE flink[u] = Null
    <3>1. flink' = flink
      BY <2>1, <2>3 DEF CreateCall, ListInv, Types
    <3> QED
      BY <1>1, <1>3, <2>2, <3>1, FindsKeptEasily
  <2>4. CASE flink[u] # Null
    <3>1. PICK i \in 1 .. Size : order[i] = t
      BY <1>2
    <3>2. cursor[t] \in UpTo(i)
      <4>1. PICK S \in SUBSET Threads : Leads(S, t)
        BY DEF Finds
      <4>2. cursor[t] \in Listed
        BY <1>2, <2>1, <2>4, <4>1, ThreadAssumption DEF CreateCall, NotWalked, OnTheList, Leads
      <4>3. PICK j \in 1 .. Size : order[j] = cursor[t]
        BY <4>2, LenProperties DEF Listed, ListInv, Types, Size
      <4>4. j <= i
        BY <3>1, <4>1, <4>3 DEF Leads, NotBehind
      <4> QED
        BY <1>n, <4>3, <4>4 DEF UpTo
    <3>3. PICK S \in SUBSET Threads :
            /\ S = UpTo(i) /\ t \in S
            /\ \A x \in S \ {t} : flink[x] \in S
            /\ NotBehind(S, t)
      BY <1>2, <3>1, PrefixLeads
    <3>4. ASSUME NEW x \in S PROVE x # u
      <4>1. \A k \in 1 .. Size : order[k] # u
        BY <2>1 DEF CreateCall, ListInv, Named
      <4> QED
        BY <1>n, <3>3, <4>1 DEF UpTo
    <3>5. \A x \in S \ {t} : flink'[x] \in S
      BY <2>1, <3>3, <3>4 DEF CreateCall, ListInv, Types, Nodes
    <3>6. NotBehind(S, t)'
      BY <2>2, <3>3 DEF NotBehind
    <3>7. Leads(S, t)'
      BY <1>1, <3>2, <3>3, <3>5, <3>6 DEF Leads
    <3> QED
      BY <1>2, <1>3, <2>2, <3>7 DEF Finds
  <2> QED
    BY <2>3, <2>4
<1>5. CASE CreateStart(a)
  <2>1. target[a] # t /\ target[a] \in Threads
    BY <1>2, <1>5 DEF CreateStart, ListInv, Inserts, CreateLabels
  <2>2. kernel'[t] = kernel[t]
    BY <1>5, <2>1 DEF CreateStart, ListInv, Types
  <2> QED
    BY <1>1, <1>3, <1>5, <2>2, FindsKeptEasily DEF CreateStart, links
<1>6. CASE CreateId(a) \/ InsertTail(a)
  BY <1>1, <1>3, <1>6, FindsKeptEasily DEF CreateId, InsertTail, links
<1>7. CASE InsertEntry(a)
  <2>1. target[a] \in Threads /\ target[a] # t /\ flink[target[a]] = Null
    BY <1>2, <1>7 DEF InsertEntry, ListInv, Inserts, CreateLabels
  <2>2. order' = order /\ kernel' = kernel /\ Size' = Size
    BY <1>7, SameNodes DEF InsertEntry
  <2>3. ASSUME NEW S \in SUBSET Threads, Leads(S, t), NEW x \in S \ {t} PROVE flink'[x] \in S
    <3>1. flink[x] \in S /\ x # target[a]
      BY <2>1, <2>3, ThreadAssumption DEF Leads
    <3> QED
      BY <1>7, <3>1 DEF InsertEntry, ListInv, Types, Nodes
  <2> QED
    BY <1>1, <1>2, <1>3, <2>2, <2>3, FindsKeptInOrder
<1>8. CASE InsertLink(a)
  <2>1. saved[a].prev = Node(Size) /\ Writing(a)
    BY <1>8 DEF InsertLink, ListInv, Inserts, Writing, CreateLabels
  <2>2. flink[Node(Size)] = Anchor
    <3>1. ~Diverted(Size)
      BY <1>8, <2>1, OthersOfWriter, DivertedByWriter DEF InsertLink
    <3> QED
      BY <1>n, <3>1 DEF ListInv, Forward
  <2>3. order' = order /\ kernel' = kernel /\ Size' = Size
    BY <1>8, SameNodes DEF InsertLink
  <2>4. ASSUME NEW S \in SUBSET Threads, Leads(S, t), NEW x \in S \ {t} PROVE flink'[x] \in S
    <3>1. flink[x] \in S /\ x # Node(Size)
      BY <2>2, <2>4, ThreadAssumption DEF Leads
    <3> QED
      BY <1>8, <2>1, <3>1 DEF InsertLink, ListInv, Types, Nodes
  <2> QED
    BY <1>1, <1>2, <1>3, <2>3, <2>4, FindsKeptInOrder
<1>9. CASE InsertHead(a)
  <2>1. kernel' = kernel /\ flink' = flink /\ order' = Append(order, target[a]) /\ target[a] \in Threads
    BY <1>9 DEF InsertHead, ListInv, Inserts, CreateLabels
  <2>2. /\ Size' = Size + 1 /\ order'[Size + 1] = target[a]
        /\ \A k \in 1 .. Size : order'[k] = order[k]
    BY <1>n, <2>1 DEF Size, ListInv, Types
  <2>3. \E k \in 1 .. Size' : order'[k] = t
    BY <1>2, <1>n, <2>2
  <2>4. flink[target[a]] = Anchor /\ target[a] # t
    BY <1>2, <1>9 DEF InsertHead, ListInv, Inserts, CreateLabels
  <2>5. ASSUME NEW S \in SUBSET Threads, Leads(S, t) PROVE NotBehind(S, t)'
    <3>1. target[a] \notin S
      BY <2>4, <2>5, ThreadAssumption DEF Leads
    <3> SUFFICES ASSUME NEW i \in 1 .. Size', NEW j \in 1 .. Size', order'[i] = t, order'[j] \in S
                 PROVE  j <= i
      BY DEF NotBehind
    <3>2. j # Size + 1 /\ j \in 1 .. Size /\ order[j] \in S
      BY <1>n, <2>2, <3>1
    <3>3. CASE i = Size + 1
      BY <1>n, <3>2, <3>3
    <3>4. CASE i \in 1 .. Size
      BY <2>2, <2>5, <3>2, <3>4 DEF Leads, NotBehind
    <3> QED
      BY <1>n, <2>2, <3>3, <3>4
  <2>6. ASSUME NEW S \in SUBSET Threads, Leads(S, t) PROVE \A x \in S \ {t} : flink'[x] \in S
    BY <2>1, <2>6 DEF Leads
  <2> QED
    BY <1>1, <1>2, <1>3, <2>1, <2>3, <2>5, <2>6, FindsKept
<1> QED
  BY <1>4, <1>5, <1>6, <1>7, <1>8, <1>9

LEMMA FindsWhileDeleting ==
  ASSUME ListInv, NEW t \in Threads, Finds(t), NEW a \in Actors,
         \/ \E u \in Threads : DeleteCall(a, u)
         \/ DeleteTimesOut(a) \/ DeleteGoesOn(a) \/ RemoveRead(a) \/ RemoveNext(a) \/ RemovePrev(a)
  PROVE  Finds(t)'
<1> USE DEF Goto, At
<1>1. was_listed' = was_listed /\ cursor' = cursor
  BY DEF DeleteCall, DeleteTimesOut, DeleteGoesOn, RemoveRead, RemoveNext, RemovePrev
<1> SUFFICES ASSUME was_listed[t] PROVE Finds(t)'
  BY <1>1 DEF Finds
<1>2. pc[t] = "walk" /\ kernel[t] = "running" /\ \E k \in 1 .. Size : order[k] = t
  BY DEF Finds
<1>3. pc'[t] = pc[t]
  <2>1. pc[a] # "walk"
    BY DEF DeleteCall, DeleteTimesOut, DeleteGoesOn, RemoveRead, RemoveNext, RemovePrev
  <2>2. \E label : pc' = [pc EXCEPT ![a] = label]
    BY DEF DeleteCall, DeleteTimesOut, DeleteGoesOn, RemoveRead, RemoveNext, RemovePrev
  <2> QED
    BY <1>2, <2>1, <2>2, GoesAlone DEF ListInv
<1>4. CASE (\E u \in Threads : DeleteCall(a, u)) \/ DeleteTimesOut(a) \/ DeleteGoesOn(a) \/ RemoveRead(a)
  BY <1>1, <1>3, <1>4, FindsKeptEasily DEF DeleteCall, DeleteTimesOut, DeleteGoesOn, RemoveRead, links
<1>5. ASSUME RemoveNext(a) \/ RemovePrev(a)
      PROVE  /\ target[a] \in Threads /\ target[a] # t /\ Writing(a)
             /\ \E k \in 1 .. Size : order[k] = target[a]
  BY <1>2, <1>5 DEF RemoveNext, RemovePrev, ListInv, Removes, Writing, DeleteLabels
<1>n. /\ Size \in Nat
      /\ order \in [1 .. Size -> Threads]
      /\ \A k \in 0 .. Size + 1 : Node(k) \in Nodes
      /\ \A k \in 1 .. Size : Node(k) = order[k]
  BY NodesOfList DEF ListInv, Types
<1>6. CASE RemoveNext(a)
  <2>1. PICK i \in 1 .. Size : order[i] = target[a]
    BY <1>5, <1>6
  <2>2. saved[a].prev = Node(i - 1) /\ saved[a].next = Node(i + 1)
    BY <1>6, <2>1 DEF RemoveNext, ListInv, Removes
  <2>3. \A k : ~Diverted(k)
    BY <1>5, <1>6, OthersOfWriter, DivertedByWriter DEF RemoveNext
  <2>4. flink[Node(i - 1)] = target[a] /\ flink[target[a]] = Node(i + 1)
    <3>1. flink[Node(i - 1)] = Node((i - 1) + 1) /\ flink[Node(i)] = Node(i + 1)
      BY <1>n, <2>3 DEF ListInv, Forward
    <3> QED
      BY <1>n, <2>1, <3>1
  <2>5. order' = order /\ kernel' = kernel /\ Size' = Size
    BY <1>6, SameNodes DEF RemoveNext
  <2>6. ASSUME NEW S \in SUBSET Threads, Leads(S, t), NEW x \in S \ {t} PROVE flink'[x] \in S
    <3>1. CASE x # Node(i - 1)
      BY <1>6, <2>2, <2>6, <3>1 DEF RemoveNext, ListInv, Types, Nodes, Leads
    <3>2. CASE x = Node(i - 1)
      <4>1. target[a] \in S \ {t}
        BY <1>5, <1>6, <2>4, <2>6, <3>2 DEF Leads
      <4>2. Node(i + 1) \in S
        BY <2>4, <2>6, <4>1 DEF Leads
      <4> QED
        BY <1>6, <2>2, <3>2, <4>2 DEF RemoveNext, ListInv, Types, Nodes
    <3> QED
      BY <3>1, <3>2
  <2> QED
    BY <1>1, <1>2, <1>3, <2>5, <2>6, FindsKeptInOrder
<1>7. CASE RemovePrev(a)
  <2>1. PICK i \in 1 .. Size : order[i] = target[a]
    BY <1>5, <1>7
  <2>2. PICK k \in 1 .. Size : order[k] = t
    BY <1>2
  <2>3. k # i
    BY <1>5, <1>7, <2>1, <2>2
  <2>4. /\ Size' = Size - 1
        /\ \A j \in 1 .. Size - 1 : order'[j] = IF j < i THEN order[j] ELSE order[j + 1]
    <3>1. \A j \in 1 .. Size : order[j] = order[i] => j = i
      BY DEF ListInv, Once
    <3> QED
      BY <1>7, <2>1, <3>1, WithoutOne DEF RemovePrev, Size, ListInv, Types
  <2>5. \E j \in 1 .. Size' : order'[j] = t
    <3>1. CASE k < i
      <4>1. k \in 1 .. Size - 1
        BY <1>n, <3>1
      <4> QED
        BY <2>2, <2>4, <3>1, <4>1
    <3>2. CASE k > i
      <4>1. k - 1 \in 1 .. Size - 1 /\ ~(k - 1 < i) /\ (k - 1) + 1 = k
        BY <1>n, <3>2
      <4>2. order'[k - 1] = t
        BY <2>2, <2>4, <4>1
      <4> QED
        BY <2>4, <4>1, <4>2
    <3> QED
      BY <1>n, <2>3, <3>1, <3>2
  <2>6. kernel'[t] = kernel[t] /\ flink' = flink
    BY <1>5, <1>7 DEF RemovePrev, ListInv, Types
  <2>7. ASSUME NEW S \in SUBSET Threads, Leads(S, t) PROVE NotBehind(S, t)'
    <3> DEFINE Old(j) == IF j < i THEN j ELSE j + 1
    <3>1. \A j \in 1 .. Size' : Old(j) \in 1 .. Size /\ order'[j] = order[Old(j)]
      BY <1>n, <2>4
    <3> SUFFICES ASSUME NEW m \in 1 .. Size', NEW j \in 1 .. Size', order'[m] = t, order'[j] \in S
                 PROVE  j <= m
      BY DEF NotBehind
    <3>2. Old(j) <= Old(m)
      <4>1. order[Old(m)] = t /\ order[Old(j)] \in S
        BY <3>1
      <4> HIDE DEF Old
      <4> QED
        BY <2>7, <3>1, <4>1 DEF Leads, NotBehind
    <3> QED
      BY <1>n, <2>4, <3>2
  <2>8. ASSUME NEW S \in SUBSET Threads, Leads(S, t) PROVE \A x \in S \ {t} : flink'[x] \in S
    BY <2>6, <2>8 DEF Leads
  <2> QED
    BY <1>1, <1>2, <1>3, <2>5, <2>6, <2>7, <2>8, FindsKept
<1> QED
  BY <1>4, <1>6, <1>7

(* The walk itself.  It starts at the first block, and the blocks up to    *)
(* the walker's own lead to it.                                            *)
LEMMA FindsByIdentify ==
  ASSUME ListInv, NEW t \in Threads, IdentifyCall(t) PROVE Finds(t)'
<1> USE DEF Goto, At
<1>t. t \in Actors
  BY DEF Actors
<1> SUFFICES ASSUME t \in Listed PROVE Finds(t)'
  BY <1>t DEF IdentifyCall, Finds, ListInv, Types
<1>1. PICK i \in 1 .. Size : order[i] = t
  BY LenProperties DEF Listed, ListInv, Types, Size
<1>2. kernel[t] = "running"
  BY ThreadAssumption DEF IdentifyCall, Runs
<1>3. PICK S \in SUBSET Threads :
        /\ t \in S /\ flink[Anchor] \in S
        /\ \A x \in S \ {t} : flink[x] \in S
        /\ NotBehind(S, t)
  BY <1>1, <1>2, PrefixLeads
<1>4. /\ cursor'[t] = flink[Anchor] /\ pc'[t] = "walk"
      /\ UNCHANGED <<flink, kernel, order>>
  BY <1>t DEF IdentifyCall, ListInv, Types, links
<1>5. Size' = Size
  BY <1>4, SameNodes
<1>6. NotBehind(S, t)'
  BY <1>3, <1>4, <1>5 DEF NotBehind
<1>7. Leads(S, t)'
  BY <1>3, <1>4, <1>6 DEF Leads
<1> QED
  BY <1>1, <1>2, <1>4, <1>5, <1>7 DEF Finds

LEMMA FindsByWalk ==
  ASSUME ListInv, NEW t \in Threads, Finds(t), Walk(t) PROVE Finds(t)'
<1> USE DEF Goto, At
<1>t. t \in Actors
  BY DEF Actors
<1>1. CASE IdentifyFound(t)
  BY <1>1, <1>t DEF IdentifyFound, Finds, ListInv, Types
<1> SUFFICES ASSUME was_listed[t], IdentifyNext(t) \/ IdentifyFails(t) PROVE Finds(t)'
  BY <1>1 DEF Walk, IdentifyNext, IdentifyFails, Finds
<1>2. PICK S \in SUBSET Threads : Leads(S, t)
  BY DEF Finds
<1>3. ~IdentifyFails(t)
  BY <1>2, ThreadAssumption DEF Leads, IdentifyFails
<1>4. cursor[t] # t
  <2>1. kernel[t] = "running" /\ \E k \in 1 .. Size : order[k] = t
    BY DEF Finds
  <2>2. id_known[t]
    BY <2>1 DEF ListInv, Named
  <2> QED
    BY <1>3, <2>2 DEF IdentifyNext, IsSelf
<1>5. cursor'[t] = flink[cursor[t]] /\ UNCHANGED <<flink, kernel, order, pc, was_listed>>
  BY <1>3, <1>t DEF IdentifyNext, ListInv, Types, links
<1>6. Size' = Size
  BY <1>5, SameNodes
<1>7. NotBehind(S, t)'
  BY <1>2, <1>5, <1>6 DEF Leads, NotBehind
<1>8. Leads(S, t)'
  BY <1>2, <1>4, <1>5, <1>7 DEF Leads
<1> QED
  BY <1>5, <1>6, <1>8 DEF Finds

LEMMA FoundStep ==
  ASSUME Careful, ListInv, FoundInv, [Next]_vars PROVE FoundInv'
<1> SUFFICES ASSUME NEW t \in Threads PROVE Finds(t)'
  BY DEF FoundInv
<1>0. Finds(t)
  BY DEF FoundInv
<1>1. ASSUME NEW a \in Actors, Step(a) PROVE Finds(t)'
  BY <1>0, <1>1, FindsWhileCreating, FindsWhileDeleting DEF Step
<1>2. ASSUME NEW a \in Actors, NEW u \in Threads, CreateCall(a, u) \/ DeleteCall(a, u) PROVE Finds(t)'
  BY <1>0, <1>2, FindsWhileCreating, FindsWhileDeleting
<1>3. ASSUME NEW a \in Actors, NEW u \in Threads, Resume(a, u) PROVE Finds(t)'
  <2>1. UNCHANGED <<flink, order, was_listed, pc, cursor>>
    BY <1>3 DEF Resume, links
  <2>2. was_listed[t] => kernel'[t] = kernel[t]
    BY <1>0, <1>3 DEF Resume, Finds, ListInv, Types
  <2> QED
    BY <1>0, <2>1, <2>2, FindsKeptEasily
<1>4. ASSUME NEW u \in Threads, Exit(u) PROVE Finds(t)'
  <2>1. UNCHANGED <<flink, order, was_listed, pc, cursor>>
    BY <1>4 DEF Exit, links
  <2>2. was_listed[t] => kernel'[t] = kernel[t]
    BY <1>0, <1>4 DEF Exit, At, Finds, ListInv, Types
  <2> QED
    BY <1>0, <2>1, <2>2, FindsKeptEasily
<1>5. ASSUME NEW u \in Threads \ {t}, IdentifyCall(u) \/ Walk(u) PROVE Finds(t)'
  <2>1. UNCHANGED <<flink, order, kernel>>
    BY <1>5 DEF IdentifyCall, Walk, IdentifyFound, IdentifyNext, IdentifyFails, links
  <2>2. pc'[t] = pc[t] /\ cursor'[t] = cursor[t] /\ was_listed'[t] = was_listed[t]
    BY <1>5 DEF IdentifyCall, Walk, IdentifyFound, IdentifyNext, IdentifyFails, Goto, ListInv, Types, Actors
  <2> QED
    BY <1>0, <2>1, <2>2, FindsKeptEasily
<1>6. CASE UNCHANGED vars
  BY <1>0, <1>6, FindsKeptEasily DEF vars, links
<1>7. ASSUME IdentifyCall(t) \/ Walk(t) PROVE Finds(t)'
  BY <1>0, <1>7, FindsByIdentify, FindsByWalk
<1> QED
  BY <1>1, <1>2, <1>3, <1>4, <1>5, <1>6, <1>7 DEF Next

LEMMA FoundInvariant == ASSUME Careful PROVE Spec => []FoundInv
<1>1. Init => FoundInv
  BY DEF Init, FoundInv, Finds, Actors
<1>2. ListInv /\ FoundInv /\ [Next]_vars => FoundInv'
  BY FoundStep
<1> QED
  BY <1>1, <1>2, ListInvariant, PTL DEF Spec

(* A thread that is listed when it asks who it is runs neither into        *)
(* UX_ASSERT(0) nor off the list, whatever is inserted, removed and used   *)
(* again before its walk is over.                                          *)
THEOREM FoundTheorem == ASSUME Careful PROVE Spec => []ListedThreadIsFound
<1>1. FoundInv => ListedThreadIsFound
  BY DEF FoundInv, Finds, ListedThreadIsFound
<1> QED
  BY <1>1, FoundInvariant, PTL
====
