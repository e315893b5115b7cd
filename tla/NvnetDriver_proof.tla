-------------------------- MODULE NvnetDriver_proof --------------------------
(***************************************************************************)
(* Proofs about NvnetDriver, for every set of IP instances and interfaces, *)
(* every size of the slot and multicast tables and every request.  What    *)
(* one call does to its packet holds whatever the calls of other instances *)
(* do; what a call finds in the table, and where its frame goes, needs     *)
(* attaches and detaches to overlap no other call.                         *)
(***************************************************************************)
EXTENDS NvnetDriver, FiniteSetTheorems, TLAPS

(***************************************************************************)
(* The invariant of a single call: its label, its locals and its request   *)
(* go together.                                                            *)
(***************************************************************************)
AttachLabels  == {"attach_find", "attach_in_use", "attach_iface", "attach_ip", "attach_mac"}
ResetLabels   == {"INTERFACE_DETACH", "reset_rest"}
SetLabels     == {"SET_PHYSICAL_ADDRESS", "set_find"}
PacketLabels  == OutLabels \cup {"release_early", "fault"}
QueryLabels   == {"INITIALIZE", "ENABLE", "DISABLE", "MULTICAST_JOIN", "MULTICAST_LEAVE",
                  "GET_STATUS", "GET_COUNT", "GET_INTERFACE_TYPE", "DEFERRED_PROCESSING",
                  "UNKNOWN_COMMAND"}
CaseLabels    == QueryLabels \cup {"INTERFACE_DETACH", "SET_PHYSICAL_ADDRESS", "PACKET_SEND"}
SearchLabels  == {"lookup", "attach_find", "set_find", "out_in_use"}
McastLabels   == {"mcast_match", "mcast_copy", "mcast_receive"}

Restructuring == ResetCommands \cup {"INTERFACE_ATTACH"}

(* The request of a call that is at label l with locals c.                 *)
RequestFits(p, l, c) ==
  l # "idle" =>
    /\ c.req \in Requests \cap scenario.asks
    /\ IpOf[c.req.iface] = p
    /\ l \in AttachLabels => c.req.cmd = "INTERFACE_ATTACH"
    /\ l = "lookup" => c.req.cmd # "INTERFACE_ATTACH"
    /\ l \in ResetLabels => c.req.cmd \in ResetCommands
    /\ l \in SetLabels => c.req.cmd = "SET_PHYSICAL_ADDRESS"
    /\ l \in PacketLabels \cup {"PACKET_SEND"} => c.req.cmd \in SendCommands
    /\ l \in QueryLabels => c.req.cmd \notin SendCommands \cup Restructuring

(* A slot is only used where a test has found one, and so is an entry.     *)
PlaceFits(l, c) ==
  /\ l \notin SearchLabels \cup {"idle", "return", "release", "release_early"} => c.i \in Slots
  /\ l \in {"mcast_copy", "mcast_receive"} => c.m \in Entries
  /\ l \in {"out_receive", "mcast_receive"} => c.next \in Ips
  /\ l = "release" => c.i = NumSlots

(* The packet has its header while output has it, and nobody sets a status *)
(* or releases anything before the call returns.                           *)
PacketFits(l, c) ==
  /\ c.header = IF l \in PacketLabels THEN 1 ELSE 0
  /\ l # "return" => c.released = 0 /\ c.status = NX_SUCCESS
  /\ l = "return" =>
       (c.released = 1 <=> c.req.cmd \in SendCommands /\ c.status = NX_SUCCESS)

Fits(p, l, c) == RequestFits(p, l, c) /\ PlaceFits(l, c) /\ PacketFits(l, c)

UsedLabels == CaseLabels \cup AttachLabels \cup ResetLabels \cup SetLabels \cup PacketLabels
              \cup {"idle", "lookup", "return"}

CallInv ==
  /\ TypeOK
  /\ scenario \in Scenarios
  /\ pc \in [Ips -> UsedLabels]
  /\ \A p \in Ips : Fits(p, pc[p], call[p])

(***************************************************************************)
(* The invariant of the table, for callers that keep attach and detach     *)
(* apart from other calls, or of which there is only one.                  *)
(***************************************************************************)

(* Commands that are to run alone do.                                      *)
Exclusive ==
  \A p, q \in Ips :
    p # q /\ pc[p] # "idle" /\ pc[q] # "idle" => call[p].req.cmd \notin scenario.alone

OneInstance == \A p, q \in Ips : p = q

Apart == AttachesAlone \/ OneInstance

Restructures(p) == pc[p] # "idle" /\ call[p].req.cmd \in Restructuring

(* The call has written some members of its slot and not all.              *)
Building(p) == pc[p] \in {"attach_iface", "attach_ip", "attach_mac", "reset_rest"}

Whole(s) ==
  IF slot[s].in_use
  THEN slot[s].iface \in Ifaces /\ slot[s].ip = IpOf[slot[s].iface]
  ELSE slot[s] = FreeSlot

WholeSlots == \A s \in Slots : (\A p \in Ips : Building(p) => call[p].i # s) => Whole(s)

OneSlotEach ==
  \A s, t \in Slots : slot[s].iface = slot[t].iface /\ slot[s].iface # NoIface => s = t

Held(n) == \E s \in Slots : Holds(s, n)
Listed(n) == \E s \in Slots : slot[s].iface = n

ValidHeld ==
  \A n \in Ifaces :
    ~(Restructures(IpOf[n]) /\ call[IpOf[n]].req.iface = n) => (n \in valid <=> Held(n))

(* How far an attach has come.                                             *)
AttachProgress(p) ==
  LET n == call[p].req.iface
  IN /\ pc[p] \in {"attach_find", "attach_in_use", "attach_iface"} => ~Listed(n)
     /\ pc[p] = "attach_in_use" => ~Mine(p).in_use
     /\ pc[p] = "attach_iface" => Mine(p) = [FreeSlot EXCEPT !.in_use = TRUE]
     /\ pc[p] = "attach_ip" => Mine(p) = [FreeSlot EXCEPT !.in_use = TRUE, !.iface = n]
     /\ pc[p] = "attach_mac" =>
          Mine(p) = [FreeSlot EXCEPT !.in_use = TRUE, !.iface = n, !.ip = p]
     /\ pc[p] # "idle" /\ call[p].req.cmd = "INTERFACE_ATTACH" => n \notin valid
     /\ pc[p] = "return" /\ call[p].req.cmd = "INTERFACE_ATTACH" =>
          (call[p].status = NX_SUCCESS <=> Held(n))

(* How far the search for the caller's slot has come, and a detach.        *)
LookupProgress(p) ==
  LET n == call[p].req.iface
  IN /\ pc[p] = "lookup" => \A s \in Slots : s < call[p].i => ~Holds(s, n)
     /\ pc[p] \in CaseLabels => Holds(call[p].i, n)
     /\ pc[p] = "reset_rest" => Mine(p).iface = n /\ ~Mine(p).in_use
     /\ pc[p] = "return" /\ call[p].req.cmd \in ResetCommands => ~Held(n)

(* What output knows of the sender's slot and of the slot it is at.        *)
OutputProgress(p) ==
  /\ pc[p] \in OutLabels => Holds(call[p].inst, call[p].req.iface)
  /\ pc[p] \in OutLabels \ {"out_in_use", "release"} => ~Skips(p)
  /\ pc[p] \in OutLabels \ {"out_in_use", "release", "out_next_ip"} => call[p].next = Mine(p).ip

Table ==
  /\ WholeSlots
  /\ OneSlotEach
  /\ ValidHeld
  /\ \A p \in Ips : AttachProgress(p) /\ LookupProgress(p) /\ OutputProgress(p)

TableInv == Apart => Table

(* Copies of the frame go to the owners of other interfaces.               *)
OwnersOnly(p) ==
  \A k \in DOMAIN call[p].delivered :
    LET d == call[p].delivered[k]
    IN /\ d.iface \in Ifaces \ {call[p].req.iface}
       /\ d.ip = IpOf[d.iface]
       /\ d.queue = Queue(EtherType(call[p].req))

OwnersInv == Apart => \A p \in Ips : OwnersOnly(p)

(***************************************************************************)
(* The invariant of a walk: the slots behind it have got their copy, those *)
(* ahead have got nothing, and the one whose groups are compared is not    *)
(* meant by its address.                                                   *)
(***************************************************************************)
Meant(p, s) == Dst(p) \in Everyone \cup {slot[s].mac}
Comparing(p, s) == s = call[p].i /\ pc[p] \in McastLabels

Copies(delivered, n) == Cardinality({k \in DOMAIN delivered : delivered[k].iface = n})

Reached(p, s) ==
  LET copies == Copies(call[p].delivered, slot[s].iface)
  IN /\ s < call[p].i /\ Meant(p, s) => copies = 1
     /\ s >= call[p].i /\ ~Comparing(p, s) => copies = 0
     /\ ~(Comparing(p, s) /\ Meant(p, s))

WalkedSoFar(p) ==
  \A s \in Slots :
    pc[p] \in OutLabels /\ slot[s].in_use /\ slot[s].iface # call[p].req.iface => Reached(p, s)

(* Nothing is handed to NetX before output starts.                         *)
NothingYet(p) ==
  pc[p] \notin PacketLabels \cup {"return"} => call[p].delivered = << >>

WalkInv ==
  Apart => \A p \in Ips : NothingYet(p) /\ (AddressSettled(p) => WalkedSoFar(p))

-------------------------------------------------------------------------------
(***************************************************************************)
(* One call.                                                               *)
(***************************************************************************)

(* The label of the switch case that a command goes to.                    *)
LEMMA CaseIs ==
  ASSUME NEW cmd \in Commands
  PROVE  /\ cmd \in SendCommands => Case(cmd) = "PACKET_SEND"
         /\ cmd \in ResetCommands => Case(cmd) = "INTERFACE_DETACH"
         /\ cmd \in CountCommands => Case(cmd) = "GET_COUNT"
         /\ cmd \in OtherCommands => Case(cmd) = cmd
<1>1. cmd \in OtherCommands => cmd \notin SendCommands \cup ResetCommands \cup CountCommands
  BY DEF OtherCommands, SendCommands, ResetCommands, CountCommands
<1>2. cmd \in CountCommands => cmd \notin SendCommands \cup ResetCommands
  BY DEF SendCommands, ResetCommands, CountCommands
<1>3. cmd \in ResetCommands => cmd \notin SendCommands
  BY DEF SendCommands, ResetCommands
<1> QED
  BY <1>1, <1>2, <1>3, Zenon DEF Case

LEMMA LookupGoesTo ==
  ASSUME NEW cmd \in Commands, cmd # "INTERFACE_ATTACH"
  PROVE  /\ Case(cmd) \in CaseLabels
         /\ Case(cmd) = "PACKET_SEND" => cmd \in SendCommands
         /\ Case(cmd) = "INTERFACE_DETACH" => cmd \in ResetCommands
         /\ Case(cmd) = "SET_PHYSICAL_ADDRESS" => cmd = "SET_PHYSICAL_ADDRESS"
         /\ Case(cmd) \in QueryLabels => cmd \notin SendCommands \cup Restructuring
<1>1. cmd \in SendCommands \cup ResetCommands \cup CountCommands \cup OtherCommands
  BY DEF Commands
<1>2. CASE cmd \in SendCommands
  BY <1>2, CaseIs DEF CaseLabels, QueryLabels
<1>3. CASE cmd \in ResetCommands
  BY <1>3, CaseIs DEF CaseLabels, QueryLabels
<1>4. CASE cmd \in CountCommands
  <2>1. cmd \notin SendCommands \cup Restructuring
    BY <1>4 DEF CountCommands, SendCommands, Restructuring, ResetCommands
  <2> QED
    BY <1>4, <2>1, CaseIs DEF CaseLabels, QueryLabels
<1>5. CASE cmd \in OtherCommands
  <2>1. cmd \notin SendCommands \cup Restructuring
    BY <1>5 DEF OtherCommands, SendCommands, Restructuring, ResetCommands
  <2>2. cmd \in QueryLabels \cup {"SET_PHYSICAL_ADDRESS"}
    BY <1>5 DEF OtherCommands, QueryLabels
  <2>3. Case(cmd) = cmd
    BY <1>5, CaseIs
  <2> QED
    BY <2>1, <2>2, <2>3 DEF CaseLabels, QueryLabels
<1> QED
  BY <1>1, <1>2, <1>3, <1>4, <1>5

LEMMA UsedLabelsAreLabels == UsedLabels \subseteq Labels
<1>1. QueryLabels \cup {"SET_PHYSICAL_ADDRESS"} \subseteq {Case(cmd) : cmd \in Commands}
  <2>1. ASSUME NEW cmd \in (QueryLabels \ {"GET_COUNT"}) \cup {"SET_PHYSICAL_ADDRESS"}
        PROVE  cmd \in Commands /\ Case(cmd) = cmd
    <3>1. cmd \in OtherCommands
      BY DEF QueryLabels, OtherCommands
    <3> QED
      BY <3>1, CaseIs DEF Commands
  <2>2. "GET_SPEED" \in Commands /\ Case("GET_SPEED") = "GET_COUNT"
    BY CaseIs DEF Commands, CountCommands
  <2> QED
    BY <2>1, <2>2
<1>2. "PACKET_SEND" \in {Case(cmd) : cmd \in Commands}
  <2>1. "PACKET_SEND" \in Commands /\ Case("PACKET_SEND") = "PACKET_SEND"
    BY CaseIs DEF Commands, SendCommands
  <2> QED
    BY <2>1
<1>3. "INTERFACE_DETACH" \in {Case(cmd) : cmd \in Commands}
  <2>1. "INTERFACE_DETACH" \in Commands /\ Case("INTERFACE_DETACH") = "INTERFACE_DETACH"
    BY CaseIs DEF Commands, ResetCommands
  <2> QED
    BY <2>1
<1> HIDE DEF Case
<1> QED
  BY <1>1, <1>2, <1>3 DEF UsedLabels, Labels, CaseLabels, AttachLabels, ResetLabels, SetLabels,
    PacketLabels, OutLabels

(* What a step of one call has to establish, the rest being as before.     *)
LEMMA OneCallMoves ==
  ASSUME CallInv, UNCHANGED scenario, NEW p \in Ips,
         NEW label \in UsedLabels, NEW c \in Locals, Fits(p, label, c),
         pc' = [pc EXCEPT ![p] = label], call' = [call EXCEPT ![p] = c],
         slot' \in [Slots -> Slot], link' \in [Ifaces -> BOOLEAN], valid' \in SUBSET Ifaces
  PROVE  CallInv'
<1>1. pc' \in [Ips -> UsedLabels] /\ call' \in [Ips -> Locals]
  BY DEF CallInv, TypeOK
<1>2. pc' \in [Ips -> Labels]
  BY <1>1, UsedLabelsAreLabels
<1>3. pc'[p] = label /\ call'[p] = c
  BY DEF CallInv, TypeOK
<1>4. \A q \in Ips \ {p} : pc'[q] = pc[q] /\ call'[q] = call[q]
  BY DEF CallInv, TypeOK
<1>5. ASSUME NEW q \in Ips PROVE Fits(q, pc[q], call[q])'
  <2>1. Fits(q, pc'[q], call'[q])
    BY <1>3, <1>4 DEF CallInv
  <2> QED
    BY <2>1 DEF Fits, RequestFits, PlaceFits, PacketFits
<1> QED
  BY <1>1, <1>2, <1>5 DEF CallInv, TypeOK

LEMMA QueueIs == ASSUME NEW type PROVE Queue(type) \in Queues
  BY Zenon DEF Queue, Queues

LEMMA CallStep ==
  ASSUME CallInv, NEW p \in Ips, Step(p) \/ (\E r \in Requests : Call(p, r)), UNCHANGED scenario
  PROVE  CallInv'
<1> USE DEF InTable, HasEntry, Goto, Finish
<1> DEFINE Moves(label, c) ==
      /\ label \in UsedLabels
      /\ c \in Locals
      /\ Fits(p, label, c)
      /\ pc' = [pc EXCEPT ![p] = label]
      /\ call' = [call EXCEPT ![p] = c]
<1>t. TypeOK /\ Fits(p, pc[p], call[p]) /\ pc[p] \in UsedLabels
  BY DEF CallInv
<1>c. call[p] \in Locals /\ call = [call EXCEPT ![p] = call[p]] /\ pc = [pc EXCEPT ![p] = pc[p]]
  BY <1>t DEF TypeOK
<1>n. call[p].i \in Slots => call[p].i + 1 \in 0 .. NumSlots
  BY SizeAssumption DEF Slots
<1>m. call[p].m \in Entries => call[p].m + 1 \in 0 .. NumEntries
  BY SizeAssumption DEF Entries
<1>q. ASSUME NEW label, NEW c, Moves(label, c), UNCHANGED <<slot, link>>, valid' \in SUBSET Ifaces
      PROVE  CallInv'
  BY <1>q, <1>t, OneCallMoves DEF TypeOK
<1>u. ASSUME NEW label, NEW c, Moves(label, c), UNCHANGED <<slot, link, valid>>
      PROVE  CallInv'
  BY <1>u, <1>q, <1>t DEF TypeOK
<1>s. ASSUME NEW label, NEW c, Moves(label, c), UNCHANGED <<link, valid>>,
             slot' \in [Slots -> Slot]
      PROVE  CallInv'
  BY <1>s, <1>t, OneCallMoves DEF TypeOK
<1>l. ASSUME NEW label, NEW c, Moves(label, c), UNCHANGED <<slot, valid>>,
             link' \in [Ifaces -> BOOLEAN]
      PROVE  CallInv'
  BY <1>l, <1>t, OneCallMoves DEF Moves, TypeOK
<1>z. 0 \in 0 .. NumSlots /\ 0 \in 0 .. NumEntries
  BY SizeAssumption
<1>h. call[p].i \in Slots => Mine(p) \in Slot
  BY <1>t DEF TypeOK, Mine
<1>w. ASSUME NEW v \in Slot, slot' = [slot EXCEPT ![call[p].i] = v]
      PROVE  slot' \in [Slots -> Slot]
  BY <1>w, <1>t DEF TypeOK
<1>e. ASSUME NEW a \in Addresses, call[p].i \in Slots,
             slot' = [slot EXCEPT ![call[p].i].mcast[call[p].m] = a]
      PROVE  slot' \in [Slots -> Slot]
  <2> DEFINE v == [Mine(p) EXCEPT !.mcast = [Mine(p).mcast EXCEPT ![call[p].m] = a]]
  <2>1. [Mine(p).mcast EXCEPT ![call[p].m] = a] \in [Entries -> Addresses]
    BY <1>e, <1>h DEF Slot
  <2>2. v \in Slot
    BY <1>e, <1>h, <2>1 DEF Slot
  <2>3. slot' = [slot EXCEPT ![call[p].i] = v]
    BY <1>e DEF Mine
  <2> QED
    BY <2>2, <2>3, <1>w
<1>d. ASSUME call[p].i \in Slots, call[p].next \in Ips PROVE Delivery(p) \in Deliveries
  <2>1. Queue(EtherType(call[p].req)) \in Queues
    BY QueueIs
  <2>2. Mine(p).iface \in Ifaces \cup {NoIface}
    BY <1>d, <1>t DEF TypeOK, Slot, Mine
  <2> QED
    BY <1>d, <2>1, <2>2 DEF Delivery, Deliveries
<1> HIDE DEF Moves
<1> USE DEF Fits, RequestFits, PlaceFits, PacketFits, UsedLabels, CaseLabels, QueryLabels,
  AttachLabels, ResetLabels, SetLabels, PacketLabels, OutLabels, SearchLabels
<1>1. ASSUME NEW r \in Requests, Call(p, r) PROVE CallInv'
  <2>1. r.cmd \in Commands
    BY RequestAssumption DEF Request
  <2>2. Fresh(r) \in Locals
    BY SizeAssumption DEF Fresh, Locals, Slots, Statuses, Replies
  <2>3. CASE r.cmd = "INTERFACE_ATTACH"
    <3>1. Moves("attach_find", Fresh(r))
      BY <1>1, <2>2, <2>3 DEF Moves, Call, Fresh
    <3> QED
      BY <1>1, <3>1, <1>u DEF Call
  <2>4. CASE r.cmd # "INTERFACE_ATTACH"
    <3>1. Moves("lookup", Fresh(r))
      BY <1>1, <2>2, <2>4 DEF Moves, Call, Fresh
    <3> QED
      BY <1>1, <3>1, <1>u DEF Call
  <2> QED
    BY <2>3, <2>4
<1>2. CASE LookupHit(p)
  <2> DEFINE label == Case(call[p].req.cmd)
  <2>1. call[p].req.cmd \in Commands /\ call[p].req.cmd # "INTERFACE_ATTACH"
    BY <1>2, <1>t, RequestAssumption DEF LookupHit, Request
  <2>2. pc' = [pc EXCEPT ![p] = label] /\ call' = [call EXCEPT ![p] = call[p]]
    BY <1>2, <1>c DEF LookupHit
  <2>3. /\ label \in CaseLabels
        /\ label = "PACKET_SEND" => call[p].req.cmd \in SendCommands
        /\ label = "INTERFACE_DETACH" => call[p].req.cmd \in ResetCommands
        /\ label = "SET_PHYSICAL_ADDRESS" => call[p].req.cmd = "SET_PHYSICAL_ADDRESS"
        /\ label \in QueryLabels => call[p].req.cmd \notin SendCommands \cup Restructuring
    BY <2>1, LookupGoesTo
  <2> HIDE DEF label
  <2>4. Fits(p, label, call[p])
    BY <1>2, <1>t, <2>3 DEF LookupHit
  <2> QED
    BY <1>2, <1>t, <1>c, <1>u, <2>2, <2>3, <2>4 DEF Moves, LookupHit
<1>3. CASE LookupNext(p)
  <2>1. Moves("lookup", [call[p] EXCEPT !.i = call[p].i + 1])
    BY <1>3, <1>t, <1>c, <1>n DEF Moves, LookupNext, Locals
  <2> QED
    BY <1>3, <2>1, <1>u DEF LookupNext
<1>4. CASE LookupMiss(p)
  <2>1. Moves("return", [call[p] EXCEPT !.status = NX_INVALID_INTERFACE])
    BY <1>4, <1>t, <1>c DEF Moves, LookupMiss, Locals, Statuses, NX_SUCCESS, NX_INVALID_INTERFACE
  <2> QED
    BY <1>4, <2>1, <1>u DEF LookupMiss
<1>5. CASE Return(p)
  <2>1. Moves("idle", Idle)
    BY <1>5, SizeAssumption DEF Moves, Return, Idle, Fresh, Locals, Slots, Statuses, Replies
  <2>2. valid' \in SUBSET Ifaces
    BY <1>5, <1>t, RequestAssumption DEF Return, TypeOK, Request
  <2> QED
    BY <1>5, <2>1, <2>2, <1>q DEF Return
<1>6. CASE AttachFind(p)
  <2>1. CASE Mine(p).in_use
    <3>1. Moves("attach_find", [call[p] EXCEPT !.i = call[p].i + 1])
      BY <1>6, <2>1, <1>t, <1>c, <1>n DEF Moves, AttachFind, Locals
    <3> QED
      BY <1>6, <3>1, <1>u DEF AttachFind
  <2>2. CASE ~Mine(p).in_use
    <3>1. Moves("attach_in_use", call[p])
      BY <1>6, <2>2, <1>t, <1>c DEF Moves, AttachFind, Locals
    <3> QED
      BY <1>6, <3>1, <1>u DEF AttachFind
  <2> QED
    BY <2>1, <2>2
<1>7. CASE AttachFull(p)
  <2>1. Moves("return", [call[p] EXCEPT !.status = NX_INVALID_INTERFACE])
    BY <1>7, <1>t, <1>c DEF Moves, AttachFull, Locals, Statuses, NX_SUCCESS, NX_INVALID_INTERFACE
  <2> QED
    BY <1>7, <2>1, <1>u DEF AttachFull
<1>8. CASE AttachInUse(p)
  <2>1. Moves("attach_iface", call[p])
    BY <1>8, <1>t, <1>c DEF Moves, AttachInUse, Locals
  <2>2. [Mine(p) EXCEPT !.in_use = TRUE] \in Slot
    BY <1>8, <1>t, <1>h DEF AttachInUse, Slot
  <2>3. slot' = [slot EXCEPT ![call[p].i] = [Mine(p) EXCEPT !.in_use = TRUE]]
    BY <1>8, <1>t, <1>h DEF AttachInUse, TypeOK, Mine, Slot
  <2> QED
    BY <1>8, <1>t, <2>1, <2>2, <2>3, <1>w, <1>s DEF AttachInUse
<1>9. CASE AttachIface(p)
  <2>1. Moves("attach_ip", call[p])
    BY <1>9, <1>t, <1>c DEF Moves, AttachIface, Locals
  <2>2. [Mine(p) EXCEPT !.iface = call[p].req.iface] \in Slot
    BY <1>9, <1>t, <1>h, RequestAssumption DEF AttachIface, Slot, Request
  <2>3. slot' = [slot EXCEPT ![call[p].i] = [Mine(p) EXCEPT !.iface = call[p].req.iface]]
    BY <1>9, <1>t, <1>h DEF AttachIface, TypeOK, Mine, Slot
  <2> QED
    BY <1>9, <1>t, <2>1, <2>2, <2>3, <1>w, <1>s DEF AttachIface
<1>10. CASE AttachIp(p)
  <2>1. Moves("attach_mac", call[p])
    BY <1>10, <1>t, <1>c DEF Moves, AttachIp, Locals
  <2>2. [Mine(p) EXCEPT !.ip = p] \in Slot
    BY <1>10, <1>t, <1>h DEF AttachIp, Slot
  <2>3. slot' = [slot EXCEPT ![call[p].i] = [Mine(p) EXCEPT !.ip = p]]
    BY <1>10, <1>t, <1>h DEF AttachIp, TypeOK, Mine, Slot
  <2> QED
    BY <1>10, <1>t, <2>1, <2>2, <2>3, <1>w, <1>s DEF AttachIp
<1>11. CASE AttachMac(p)
  <2>1. Moves("return", [call[p] EXCEPT !.status = NX_SUCCESS])
    BY <1>11, <1>t, <1>c DEF Moves, AttachMac, Locals, Statuses, NX_SUCCESS, NX_INVALID_INTERFACE,
      SendCommands
  <2>2. [Mine(p) EXCEPT !.mac = BaseMac[call[p].i]] \in Slot
    BY <1>11, <1>t, <1>h, AddressAssumption DEF AttachMac, Slot
  <2>3. slot' = [slot EXCEPT ![call[p].i] = [Mine(p) EXCEPT !.mac = BaseMac[call[p].i]]]
    BY <1>11, <1>t, <1>h DEF AttachMac, TypeOK, Mine, Slot
  <2> QED
    BY <1>11, <1>t, <2>1, <2>2, <2>3, <1>w, <1>s DEF AttachMac
<1>12. CASE ResetInUse(p)
  <2>1. Moves("reset_rest", call[p])
    BY <1>12, <1>t, <1>c DEF Moves, ResetInUse, Locals
  <2>2. [Mine(p) EXCEPT !.in_use = FALSE] \in Slot
    BY <1>12, <1>t, <1>h DEF ResetInUse, Slot
  <2>3. slot' = [slot EXCEPT ![call[p].i] = [Mine(p) EXCEPT !.in_use = FALSE]]
    BY <1>12, <1>t, <1>h DEF ResetInUse, TypeOK, Mine, Slot
  <2> QED
    BY <1>12, <1>t, <2>1, <2>2, <2>3, <1>w, <1>s DEF ResetInUse
<1>13. CASE ResetRest(p)
  <2>1. Moves("return", [call[p] EXCEPT !.status = NX_SUCCESS])
    BY <1>13, <1>t, <1>c DEF Moves, ResetRest, Locals, Statuses, NX_SUCCESS, NX_INVALID_INTERFACE,
      SendCommands, ResetCommands
  <2>2. [FreeSlot EXCEPT !.in_use = Mine(p).in_use] \in Slot
    BY <1>13, <1>t, <1>h, AddressAssumption DEF ResetRest, Slot, FreeSlot, Mine
  <2>3. slot' = [slot EXCEPT ![call[p].i] = [FreeSlot EXCEPT !.in_use = Mine(p).in_use]]
    BY <1>13, <1>t, <1>h DEF ResetRest, TypeOK, Mine, Slot
  <2> QED
    BY <1>13, <1>t, <2>1, <2>2, <2>3, <1>w, <1>s DEF ResetRest
<1>14. CASE Initialize(p)
  <2>1. Mine(p).mac \in Addresses
    BY <1>14, <1>t DEF Initialize, TypeOK, Slot, Mine
  <2>2. Moves("return", [call[p] EXCEPT !.ret = Mine(p).mac])
    BY <1>14, <2>1, <1>t, <1>c DEF Moves, Initialize, Locals, Replies
  <2> QED
    BY <1>14, <2>2, <1>u DEF Initialize
<1>15. CASE Enable(p)
  <2>1. Moves("return", [call[p] EXCEPT !.status = NX_SUCCESS])
    BY <1>15, <1>t, <1>c DEF Moves, Enable, Locals, Statuses, NX_SUCCESS
  <2>2. link' \in [Ifaces -> BOOLEAN]
    BY <1>15, <1>t DEF Enable, TypeOK
  <2> QED
    BY <1>15, <2>1, <2>2, <1>l DEF Enable
<1>16. CASE Disable(p)
  <2>1. Moves("return", [call[p] EXCEPT !.status = NX_SUCCESS])
    BY <1>16, <1>t, <1>c DEF Moves, Disable, Locals, Statuses, NX_SUCCESS
  <2>2. link' \in [Ifaces -> BOOLEAN]
    BY <1>16, <1>t DEF Disable, TypeOK
  <2> QED
    BY <1>16, <2>1, <2>2, <1>l DEF Disable
<1>17. CASE GetStatus(p)
  <2> DEFINE up == IF link[FirstIface[p]] THEN "up" ELSE "down"
  <2>1. up \in Replies
    BY DEF Replies
  <2> HIDE DEF up
  <2>2. Moves("return", [call[p] EXCEPT !.ret = up])
    BY <1>17, <2>1, <1>t, <1>c DEF Moves, GetStatus, Locals, up
  <2> QED
    BY <1>17, <2>2, <1>u DEF GetStatus
<1>18. CASE GetCount(p)
  <2>1. Moves("return", [call[p] EXCEPT !.ret = "zero"])
    BY <1>18, <1>t, <1>c DEF Moves, GetCount, Locals, Replies
  <2> QED
    BY <1>18, <2>1, <1>u DEF GetCount
<1>19. CASE GetInterfaceType(p)
  <2>1. Moves("return", [call[p] EXCEPT !.ret = "unknown_type"])
    BY <1>19, <1>t, <1>c DEF Moves, GetInterfaceType, Locals, Replies
  <2> QED
    BY <1>19, <2>1, <1>u DEF GetInterfaceType
<1>20. CASE DeferredProcessing(p)
  <2>1. Moves("return", [call[p] EXCEPT !.status = NX_SUCCESS])
    BY <1>20, <1>t, <1>c DEF Moves, DeferredProcessing, Locals, Statuses, NX_SUCCESS
  <2> QED
    BY <1>20, <2>1, <1>u DEF DeferredProcessing
<1>21. CASE Unhandled(p)
  <2>1. Moves("return", [call[p] EXCEPT !.status = NX_UNHANDLED_COMMAND])
    BY <1>21, <1>t, <1>c DEF Moves, Unhandled, Locals, Statuses, NX_SUCCESS, NX_UNHANDLED_COMMAND
  <2> QED
    BY <1>21, <2>1, <1>u DEF Unhandled
<1>22. CASE SetAddress(p)
  <2>1. Moves("set_find", [call[p] EXCEPT !.i = 0])
    BY <1>22, <1>t, <1>c, <1>z DEF Moves, SetAddress, Locals
  <2> QED
    BY <1>22, <2>1, <1>u DEF SetAddress
<1>23. CASE SetAddressNext(p)
  <2>1. Moves("set_find", [call[p] EXCEPT !.i = call[p].i + 1])
    BY <1>23, <1>t, <1>c, <1>n DEF Moves, SetAddressNext, Locals
  <2> QED
    BY <1>23, <2>1, <1>u DEF SetAddressNext
<1>24. CASE SetAddressHit(p)
  <2>1. Moves("return", [call[p] EXCEPT !.status = NX_SUCCESS])
    BY <1>24, <1>t, <1>c DEF Moves, SetAddressHit, Locals, Statuses, NX_SUCCESS,
      NX_INVALID_INTERFACE, SendCommands
  <2>2. [Mine(p) EXCEPT !.mac = Dst(p)] \in Slot
    BY <1>24, <1>t, <1>h, RequestAssumption DEF SetAddressHit, Slot, Request, Dst
  <2>3. slot' = [slot EXCEPT ![call[p].i] = [Mine(p) EXCEPT !.mac = Dst(p)]]
    BY <1>24, <1>t, <1>h DEF SetAddressHit, TypeOK, Mine, Slot
  <2> QED
    BY <1>24, <1>t, <2>1, <2>2, <2>3, <1>w, <1>s DEF SetAddressHit
<1>25. CASE SetAddressMiss(p)
  <2>1. Moves("return", [call[p] EXCEPT !.status = NX_INVALID_INTERFACE])
    BY <1>25, <1>t, <1>c DEF Moves, SetAddressMiss, Locals, Statuses, NX_SUCCESS,
      NX_INVALID_INTERFACE
  <2> QED
    BY <1>25, <2>1, <1>u DEF SetAddressMiss
<1>26. CASE Join(p)
  <2>1. CASE Entry(p) = ZeroMac
    <3>1. Moves("return", [call[p] EXCEPT !.status = NX_SUCCESS])
      BY <1>26, <2>1, <1>t, <1>c DEF Moves, Join, WriteEntry, Locals, Statuses, NX_SUCCESS
    <3>2. Dst(p) \in Addresses
      BY <1>26, <1>t, RequestAssumption, AddressAssumption DEF Join, Request, Dst
    <3>3. slot' \in [Slots -> Slot]
      BY <1>26, <2>1, <3>2, <1>t, <1>e DEF Join, WriteEntry
    <3> QED
      BY <1>26, <2>1, <3>1, <3>3, <1>s DEF Join, WriteEntry
  <2>2. CASE Entry(p) # ZeroMac
    <3>1. Moves("MULTICAST_JOIN", [call[p] EXCEPT !.m = call[p].m + 1])
      BY <1>26, <2>2, <1>t, <1>c, <1>m DEF Moves, Join, SkipEntry, Locals
    <3> QED
      BY <1>26, <2>2, <3>1, <1>u DEF Join, SkipEntry
  <2> QED
    BY <2>1, <2>2
<1>27. CASE JoinFull(p)
  <2>1. Moves("return", [call[p] EXCEPT !.status = NX_NO_MORE_ENTRIES])
    BY <1>27, <1>t, <1>c DEF Moves, JoinFull, Locals, Statuses, NX_SUCCESS, NX_NO_MORE_ENTRIES
  <2> QED
    BY <1>27, <2>1, <1>u DEF JoinFull
<1>28. CASE Leave(p)
  <2>1. CASE Entry(p) = Dst(p)
    <3>1. Moves("return", [call[p] EXCEPT !.status = NX_SUCCESS])
      BY <1>28, <2>1, <1>t, <1>c DEF Moves, Leave, WriteEntry, Locals, Statuses, NX_SUCCESS
    <3>2. ZeroMac \in Addresses
      BY <1>28, <1>t, RequestAssumption, AddressAssumption DEF Leave, Request, Dst
    <3>3. slot' \in [Slots -> Slot]
      BY <1>28, <2>1, <3>2, <1>t, <1>e DEF Leave, WriteEntry
    <3> QED
      BY <1>28, <2>1, <3>1, <3>3, <1>s DEF Leave, WriteEntry
  <2>2. CASE Entry(p) # Dst(p)
    <3>1. Moves("MULTICAST_LEAVE", [call[p] EXCEPT !.m = call[p].m + 1])
      BY <1>28, <2>2, <1>t, <1>c, <1>m DEF Moves, Leave, SkipEntry, Locals
    <3> QED
      BY <1>28, <2>2, <3>1, <1>u DEF Leave, SkipEntry
  <2> QED
    BY <2>1, <2>2
<1>29. CASE LeaveMiss(p)
  <2>1. Moves("return", [call[p] EXCEPT !.status = NX_ENTRY_NOT_FOUND])
    BY <1>29, <1>t, <1>c DEF Moves, LeaveMiss, Locals, Statuses, NX_SUCCESS, NX_ENTRY_NOT_FOUND
  <2> QED
    BY <1>29, <2>1, <1>u DEF LeaveMiss
<1>30. CASE Send(p)
  <2> DEFINE c == [call[p] EXCEPT !.header = 1, !.inst = call[p].i, !.i = 0]
  <2>1. call[p].header + 1 = 1 /\ call[p].i \in Slots
    BY <1>30, <1>t DEF Send
  <2>2. call' = [call EXCEPT ![p] = c]
    BY <1>30, <2>1, <1>c DEF Send
  <2>3. c \in Locals
    BY <2>1, <1>c, <1>z DEF Locals
  <2>4. Moves("out_in_use", c)
    BY <1>30, <1>t, <1>c, <2>2, <2>3 DEF Moves, Send, Locals
  <2> QED
    BY <1>30, <2>4, <1>u DEF Send
<1>31. CASE OutSkip(p)
  <2>1. Moves("out_in_use", [call[p] EXCEPT !.i = call[p].i + 1])
    BY <1>31, <1>t, <1>c, <1>n DEF Moves, OutSkip, Locals
  <2> QED
    BY <1>31, <2>1, <1>u DEF OutSkip
<1>32. CASE OutPick(p)
  <2>1. Moves("out_next_ip", call[p])
    BY <1>32, <1>t, <1>c DEF Moves, OutPick, Locals
  <2> QED
    BY <1>32, <2>1, <1>u DEF OutPick
<1>33. CASE OutNextIp(p)
  <2>1. Mine(p).ip \in Ips \cup {NoIp}
    BY <1>33, <1>t DEF OutNextIp, TypeOK, Slot, Mine
  <2>2. Moves("out_match", [call[p] EXCEPT !.next = Mine(p).ip])
    BY <1>33, <2>1, <1>t, <1>c DEF Moves, OutNextIp, Locals
  <2> QED
    BY <1>33, <2>2, <1>u DEF OutNextIp
<1>34. CASE OutMatch(p)
  <2> DEFINE c == [call[p] EXCEPT !.m = 0]
  <2>1. Moves("out_copy", c) \/ Moves("mcast_match", c)
    BY <1>34, <1>t, <1>c, <1>z DEF Moves, OutMatch, Locals
  <2> QED
    BY <1>34, <2>1, <1>u DEF OutMatch
<1>35. CASE MulticastMatch(p)
  <2>1. CASE Entry(p) = Dst(p)
    <3>1. Moves("mcast_copy", call[p])
      BY <1>35, <2>1, <1>t, <1>c DEF Moves, MulticastMatch
    <3> QED
      BY <1>35, <2>1, <3>1, <1>u DEF MulticastMatch
  <2>2. CASE Entry(p) # Dst(p)
    <3>1. Moves("mcast_match", [call[p] EXCEPT !.m = call[p].m + 1])
      BY <1>35, <2>2, <1>t, <1>c, <1>m DEF Moves, MulticastMatch, SkipEntry, Locals
    <3> QED
      BY <1>35, <2>2, <3>1, <1>u DEF MulticastMatch, SkipEntry
  <2> QED
    BY <2>1, <2>2
<1>36. CASE MulticastEnd(p)
  <2>1. Moves("out_in_use", [call[p] EXCEPT !.i = call[p].i + 1])
    BY <1>36, <1>t, <1>c, <1>n DEF Moves, MulticastEnd, Locals
  <2> QED
    BY <1>36, <2>1, <1>u DEF MulticastEnd
<1>37. CASE CopyMade(p)
  <2>1. Moves("out_receive", call[p]) \/ Moves("mcast_receive", call[p])
    BY <1>37, <1>t, <1>c DEF Moves, CopyMade, Copying, Locals
  <2> QED
    BY <1>37, <2>1, <1>u DEF CopyMade
<1>38. CASE CopyFails(p)
  <2>1. Moves("release_early", call[p])
    BY <1>38, <1>t, <1>c DEF Moves, CopyFails, Locals, Copying
  <2> QED
    BY <1>38, <2>1, <1>u DEF CopyFails
<1>39. CASE CopyFaults(p)
  <2>1. Moves("fault", call[p])
    BY <1>39, <1>t, <1>c DEF Moves, CopyFaults, Locals, Copying
  <2> QED
    BY <1>39, <2>1, <1>u DEF CopyFaults
<1>40. CASE Receive(p)
  <2>1. Delivery(p) \in Deliveries
    BY <1>40, <1>t, <1>d DEF Receive
  <2>2. Append(call[p].delivered, Delivery(p)) \in Seq(Deliveries)
    BY <1>c, <2>1 DEF Locals
  <2>3. Moves("out_in_use", [call[p] EXCEPT !.delivered = Append(call[p].delivered, Delivery(p)),
                                    !.i = call[p].i + 1])
    BY <1>40, <2>2, <1>t, <1>c, <1>n DEF Moves, Receive, Locals
  <2> QED
    BY <1>40, <2>3, <1>u DEF Receive
<1>41. CASE ReceiveMulticast(p)
  <2>1. Delivery(p) \in Deliveries
    BY <1>41, <1>t, <1>d DEF ReceiveMulticast
  <2>2. Append(call[p].delivered, Delivery(p)) \in Seq(Deliveries)
    BY <1>c, <2>1 DEF Locals
  <2>3. Moves("mcast_match", [call[p] EXCEPT !.delivered = Append(call[p].delivered, Delivery(p)),
                                    !.m = call[p].m + 1])
    BY <1>41, <2>2, <1>t, <1>c, <1>m DEF Moves, ReceiveMulticast, Locals
  <2> QED
    BY <1>41, <2>3, <1>u DEF ReceiveMulticast
<1>42. CASE OutEnd(p)
  <2>1. Moves("release", call[p])
    BY <1>42, <1>t, <1>c, SizeAssumption DEF Moves, OutEnd, Locals, Slots
  <2> QED
    BY <1>42, <2>1, <1>u DEF OutEnd
<1>43. CASE Release(p)
  <2> DEFINE c == [call[p] EXCEPT !.header = 0, !.released = 1]
  <2>1. call[p].header - 1 = 0 /\ call[p].released + 1 = 1
    BY <1>43, <1>t DEF Release
  <2>2. call' = [call EXCEPT ![p] = c]
    BY <1>43, <2>1, <1>c DEF Release
  <2>3. c \in Locals
    BY <1>c DEF Locals
  <2>4. Moves("return", c)
    BY <1>43, <1>t, <1>c, <2>2, <2>3 DEF Moves, Release, Locals
  <2> QED
    BY <1>43, <2>4, <1>u DEF Release
<1> QED
  BY <1>1, <1>2, <1>3, <1>4, <1>5, <1>6, <1>7, <1>8, <1>9, <1>10, <1>11, <1>12, <1>13, <1>14,
    <1>15, <1>16, <1>17, <1>18, <1>19, <1>20, <1>21, <1>22, <1>23, <1>24, <1>25, <1>26, <1>27,
    <1>28, <1>29, <1>30, <1>31, <1>32, <1>33, <1>34, <1>35, <1>36, <1>37, <1>38, <1>39, <1>40,
    <1>41, <1>42, <1>43 DEF Step

LEMMA CallInit == Init => CallInv
<1> SUFFICES ASSUME Init PROVE CallInv
  OBVIOUS
<1>1. FreeSlot \in Slot
  BY AddressAssumption DEF FreeSlot, Slot
<1>2. Idle \in Locals
  BY SizeAssumption DEF Idle, Fresh, Locals, Slots, Statuses, Replies
<1>3. "idle" \in UsedLabels /\ "idle" \in Labels
  BY DEF UsedLabels, Labels
<1>4. ASSUME NEW p \in Ips PROVE Fits(p, "idle", Idle)
  BY DEF Fits, RequestFits, PlaceFits, PacketFits, Idle, Fresh, PacketLabels, OutLabels
<1>5. pc \in [Ips -> UsedLabels] /\ pc \in [Ips -> Labels]
  BY <1>3 DEF Init
<1>6. TypeOK
  BY <1>1, <1>2, <1>5 DEF Init, TypeOK
<1> QED
  BY <1>4, <1>5, <1>6 DEF Init, CallInv

LEMMA CallInvariant == Spec => []CallInv
<1>1. CallInv /\ [Next]_vars => CallInv'
  <2> SUFFICES ASSUME CallInv, [Next]_vars PROVE CallInv'
    OBVIOUS
  <2>1. CASE Next
    BY <2>1, CallStep DEF Next
  <2>2. CASE UNCHANGED vars
    BY <2>2 DEF vars, CallInv, TypeOK, Fits, RequestFits
  <2> QED
    BY <2>1, <2>2
<1> QED
  BY CallInit, <1>1, PTL DEF Spec

(* The driver keeps within its tables: whatever calls overlap, no slot or  *)
(* multicast entry outside of them is read or written.                     *)
THEOREM TypeTheorem == Spec => []TypeOK
<1>1. CallInv => TypeOK
  BY DEF CallInv
<1> QED
  BY <1>1, CallInvariant, PTL

(* A sent packet is stripped and released exactly once, whatever other     *)
(* calls do to the table meanwhile; a refused one is left to the caller.   *)
THEOREM PacketTheorem == Spec => []PacketAccounted
<1>1. CallInv => PacketAccounted
  BY DEF CallInv, Fits, PacketFits, PacketAccounted, PacketLabels
<1> QED
  BY <1>1, CallInvariant, PTL
-------------------------------------------------------------------------------
(***************************************************************************)
(* Calls that run alone.                                                   *)
(***************************************************************************)

(* A step changes the label and the locals of one call.                    *)
LEMMA OneCallOnly ==
  ASSUME CallInv, NEW p \in Ips, Step(p) \/ (\E r \in Requests : Call(p, r)),
         NEW q \in Ips \ {p}
  PROVE  pc'[q] = pc[q] /\ call'[q] = call[q]
<1> USE DEF CallInv, TypeOK, Goto, Finish
<1>1. CASE \E r \in Requests : Call(p, r)
  BY <1>1 DEF Call
<1>2. CASE LookupHit(p) \/ LookupNext(p) \/ LookupMiss(p) \/ Return(p) \/ AttachFind(p) \/ AttachFull(p)
  BY <1>2 DEF LookupHit, LookupNext, LookupMiss, Return, AttachFind, AttachFull
<1>3. CASE AttachInUse(p) \/ AttachIface(p) \/ AttachIp(p) \/ AttachMac(p) \/ ResetInUse(p) \/ ResetRest(p)
  BY <1>3 DEF AttachInUse, AttachIface, AttachIp, AttachMac, ResetInUse, ResetRest
<1>4. CASE Initialize(p) \/ Enable(p) \/ Disable(p) \/ GetStatus(p) \/ GetCount(p)
           \/ GetInterfaceType(p) \/ DeferredProcessing(p) \/ Unhandled(p)
  BY <1>4 DEF Initialize, Enable, Disable, GetStatus, GetCount, GetInterfaceType,
    DeferredProcessing, Unhandled
<1>5. CASE SetAddress(p) \/ SetAddressNext(p) \/ SetAddressHit(p) \/ SetAddressMiss(p)
  BY <1>5 DEF SetAddress, SetAddressNext, SetAddressHit, SetAddressMiss
<1>6. CASE Join(p) \/ JoinFull(p) \/ Leave(p) \/ LeaveMiss(p)
  BY <1>6 DEF Join, JoinFull, Leave, LeaveMiss, SkipEntry, WriteEntry
<1>7. CASE Send(p) \/ OutSkip(p) \/ OutPick(p) \/ OutNextIp(p) \/ OutMatch(p)
           \/ MulticastMatch(p) \/ MulticastEnd(p)
  BY <1>7 DEF Send, OutSkip, OutPick, OutNextIp, OutMatch, MulticastMatch, MulticastEnd, SkipEntry
<1>8. CASE CopyMade(p) \/ CopyFails(p) \/ CopyFaults(p) \/ Receive(p) \/ ReceiveMulticast(p)
           \/ OutEnd(p) \/ Release(p)
  BY <1>8 DEF CopyMade, CopyFails, CopyFaults, Receive, ReceiveMulticast, OutEnd, Release
<1> QED
  BY <1>1, <1>2, <1>3, <1>4, <1>5, <1>6, <1>7, <1>8 DEF Step

(* A call keeps its request until it returns.                              *)
LEMMA RequestStays ==
  ASSUME CallInv, NEW p \in Ips, Step(p), ~Return(p)
  PROVE  pc[p] # "idle" /\ pc'[p] # "idle" /\ call'[p].req = call[p].req
<1>0. CASE LookupHit(p)
  <2>1. Fits(p, pc[p], call[p])
    BY DEF CallInv
  <2>2. Case(call[p].req.cmd) # "idle"
    BY <1>0, <2>1, LookupGoesTo, RequestAssumption DEF LookupHit, Fits, RequestFits, Request,
      CaseLabels, QueryLabels
  <2> QED
    BY <1>0, <2>2 DEF LookupHit, CallInv, TypeOK, Goto
<1> USE DEF CallInv, TypeOK, Goto, Finish, Locals
<1>1. CASE LookupNext(p) \/ LookupMiss(p) \/ AttachFind(p) \/ AttachFull(p)
  BY <1>1 DEF LookupNext, LookupMiss, AttachFind, AttachFull
<1>2. CASE AttachInUse(p) \/ AttachIface(p) \/ AttachIp(p) \/ AttachMac(p) \/ ResetInUse(p) \/ ResetRest(p)
  BY <1>2 DEF AttachInUse, AttachIface, AttachIp, AttachMac, ResetInUse, ResetRest
<1>3. CASE Initialize(p) \/ Enable(p) \/ Disable(p) \/ GetStatus(p) \/ GetCount(p)
           \/ GetInterfaceType(p) \/ DeferredProcessing(p) \/ Unhandled(p)
  BY <1>3 DEF Initialize, Enable, Disable, GetStatus, GetCount, GetInterfaceType,
    DeferredProcessing, Unhandled
<1>4. CASE SetAddress(p) \/ SetAddressNext(p) \/ SetAddressHit(p) \/ SetAddressMiss(p)
  BY <1>4 DEF SetAddress, SetAddressNext, SetAddressHit, SetAddressMiss
<1>5. CASE Join(p) \/ JoinFull(p) \/ Leave(p) \/ LeaveMiss(p)
  BY <1>5 DEF Join, JoinFull, Leave, LeaveMiss, SkipEntry, WriteEntry
<1>6. CASE Send(p) \/ OutSkip(p) \/ OutPick(p) \/ OutNextIp(p) \/ OutMatch(p)
           \/ MulticastMatch(p) \/ MulticastEnd(p)
  BY <1>6 DEF Send, OutSkip, OutPick, OutNextIp, OutMatch, MulticastMatch, MulticastEnd, SkipEntry
<1>7. CASE CopyMade(p) \/ CopyFails(p) \/ CopyFaults(p) \/ Receive(p) \/ ReceiveMulticast(p)
           \/ OutEnd(p) \/ Release(p)
  BY <1>7 DEF CopyMade, CopyFails, CopyFaults, Copying, Receive, ReceiveMulticast, OutEnd, Release
<1> QED
  BY <1>0, <1>1, <1>2, <1>3, <1>4, <1>5, <1>6, <1>7 DEF Step

LEMMA ExclusiveStep ==
  ASSUME CallInv, Exclusive, [Next]_vars PROVE Exclusive'
<1>1. ASSUME NEW p \in Ips, NEW r \in Requests, Call(p, r), UNCHANGED scenario PROVE Exclusive'
  <2>1. pc'[p] # "idle" /\ call'[p].req = r
    BY <1>1 DEF Call, CallInv, TypeOK, Goto, Fresh
  <2>2. \A q \in Ips \ {p} : pc'[q] = pc[q] /\ call'[q] = call[q]
    BY <1>1, OneCallOnly
  <2>3. \A q \in Ips : pc[q] # "idle" =>
          r.cmd \notin scenario.alone /\ call[q].req.cmd \notin scenario.alone
    BY <1>1 DEF Call
  <2> QED
    BY <1>1, <2>1, <2>2, <2>3 DEF Exclusive
<1>2. ASSUME NEW p \in Ips, Return(p), UNCHANGED scenario PROVE Exclusive'
  <2>1. pc'[p] = "idle"
    BY <1>2 DEF Return, CallInv, TypeOK, Goto
  <2>2. \A q \in Ips \ {p} : pc'[q] = pc[q] /\ call'[q] = call[q]
    BY <1>2, OneCallOnly DEF Step
  <2> QED
    BY <1>2, <2>1, <2>2 DEF Exclusive
<1>3. ASSUME NEW p \in Ips, Step(p), ~Return(p), UNCHANGED scenario PROVE Exclusive'
  <2>1. pc[p] # "idle" /\ pc'[p] # "idle" /\ call'[p].req = call[p].req
    BY <1>3, RequestStays
  <2>2. \A q \in Ips \ {p} : pc'[q] = pc[q] /\ call'[q] = call[q]
    BY <1>3, OneCallOnly
  <2> QED
    BY <1>3, <2>1, <2>2 DEF Exclusive
<1>4. CASE UNCHANGED vars
  BY <1>4 DEF vars, Exclusive
<1> QED
  BY <1>1, <1>2, <1>3, <1>4 DEF Next

LEMMA ExclusiveInvariant == Spec => []Exclusive
<1>1. Init => Exclusive
  BY DEF Init, Exclusive
<1> QED
  BY <1>1, CallInvariant, ExclusiveStep, PTL DEF Spec

(* While a call attaches or detaches no other call is in progress.         *)
LEMMA RestructuresAlone ==
  ASSUME CallInv, Exclusive, Apart, NEW p \in Ips, NEW q \in Ips \ {p}, Restructures(p)
  PROVE  pc[q] = "idle"
<1>1. CASE AttachesAlone
  BY <1>1 DEF Exclusive, Restructures, Restructuring, AttachesAlone
<1>2. CASE OneInstance
  BY <1>2 DEF OneInstance
<1> QED
  BY <1>1, <1>2 DEF Apart

LEMMA BuildersRestructure ==
  ASSUME CallInv, NEW p \in Ips
  PROVE  pc[p] \in AttachLabels \cup ResetLabels => Restructures(p)
<1>1. Fits(p, pc[p], call[p])
  BY DEF CallInv
<1> QED
  BY <1>1 DEF Fits, RequestFits, Restructures, Restructuring, AttachLabels, ResetLabels

(* Output, and every other call that is in progress, has the table to      *)
(* itself as far as attaches and detaches go.                              *)
LEMMA NobodyBuilds ==
  ASSUME CallInv, Exclusive, Apart, NEW p \in Ips, pc[p] # "idle",
         NEW q \in Ips \ {p}
  PROVE  ~Restructures(q) /\ pc[q] \notin AttachLabels \cup ResetLabels
<1>1. ~Restructures(q)
  BY RestructuresAlone
<1> QED
  BY <1>1, BuildersRestructure
-------------------------------------------------------------------------------
(***************************************************************************)
(* The table.                                                              *)
(***************************************************************************)
(* Slots may get another address or other groups, but no other owner.      *)
SameOwners ==
  \A s \in Slots : /\ slot'[s].in_use = slot[s].in_use
                   /\ slot'[s].iface = slot[s].iface
                   /\ slot'[s].ip = slot[s].ip
                   /\ ~slot[s].in_use => slot'[s] = slot[s]

LEMMA OwnersKept ==
  ASSUME CallInv, CallInv', Exclusive, Apart, Table,
         NEW p \in Ips, \A q \in Ips \ {p} : pc'[q] = pc[q] /\ call'[q] = call[q],
         SameOwners, slot' = slot \/ pc[p] # "idle",
         ~Building(p), ~Building(p)'
  PROVE  /\ WholeSlots'
         /\ OneSlotEach'
         /\ \A n : Held(n)' = Held(n) /\ Listed(n)' = Listed(n)
         /\ \A s \in Slots : \A n : Holds(s, n)' = Holds(s, n)
<1>1. \A q \in Ips : Building(q)' = Building(q)
  BY DEF Building
<1>2. \A q \in Ips \ {p} : Building(q) => call'[q].i = call[q].i
  OBVIOUS
<1>3. WholeSlots'
  <2> SUFFICES ASSUME NEW s \in Slots, \A q \in Ips : Building(q)' => call'[q].i # s
               PROVE  Whole(s)'
    BY DEF WholeSlots
  <2>1. \A q \in Ips : Building(q) => call[q].i # s
    BY <1>1, <1>2
  <2>2. Whole(s)
    BY <2>1 DEF Table, WholeSlots
  <2> QED
    BY <2>2 DEF Whole, SameOwners
<1>4. OneSlotEach'
  BY DEF Table, OneSlotEach, SameOwners
<1>5. \A s \in Slots : \A n : Holds(s, n)' = Holds(s, n)
  BY DEF SameOwners, Holds
<1>6. \A n : Held(n)' = Held(n)
  BY DEF SameOwners, Holds, Held
<1>7. \A n : Listed(n)' = Listed(n)
  BY DEF SameOwners, Listed
<1> QED
  BY <1>3, <1>4, <1>5, <1>6, <1>7

(* What the other calls know stays true when one call moves.               *)
LEMMA OthersKept ==
  ASSUME CallInv, Exclusive, Apart, Table,
         NEW p \in Ips, NEW q \in Ips \ {p}, pc'[q] = pc[q], call'[q] = call[q],
         SameOwners, valid' = valid, slot' = slot \/ pc[p] # "idle"
  PROVE  (AttachProgress(q) /\ LookupProgress(q) /\ OutputProgress(q))'
<1>0. AttachProgress(q) /\ LookupProgress(q) /\ OutputProgress(q)
  BY DEF Table
<1>1. CASE slot' = slot
  BY <1>0, <1>1 DEF AttachProgress, LookupProgress, OutputProgress, Held, Listed, Holds, Mine, Skips
<1>2. CASE pc[p] # "idle"
  <2>1. ~Restructures(q) /\ pc[q] \notin AttachLabels \cup ResetLabels
    BY <1>2, NobodyBuilds
  <2>2. AttachProgress(q)'
    BY <2>1 DEF AttachProgress, AttachLabels, Restructures, Restructuring
  <2>3. \A s \in Slots : \A n : Holds(s, n)' = Holds(s, n)
    BY DEF SameOwners, Holds
  <2>4. Fits(q, pc[q], call[q]) /\ call[q] \in Locals
    BY DEF CallInv, TypeOK
  <2>5. LookupProgress(q)'
    <3>1. pc[q] # "reset_rest" /\ ~(pc[q] = "return" /\ call[q].req.cmd \in ResetCommands)
      BY <2>1 DEF ResetLabels, Restructures, Restructuring
    <3>2. pc[q] \in CaseLabels => call[q].i \in Slots
      BY <2>4 DEF Fits, PlaceFits, CaseLabels, QueryLabels, SearchLabels
    <3> QED
      BY <1>0, <2>3, <3>1, <3>2 DEF LookupProgress
  <2>6. OutputProgress(q)'
    <3>1. call[q].inst \in Slots
      BY <2>4 DEF Locals
    <3>2. pc[q] \in OutLabels \ {"out_in_use", "release"} => call[q].i \in Slots
      BY <2>4 DEF Fits, PlaceFits, OutLabels, SearchLabels
    <3>3. pc[q] \in OutLabels \ {"out_in_use", "release"} =>
            Skips(q)' = Skips(q) /\ Mine(q).ip' = Mine(q).ip
      BY <3>2 DEF Skips, Mine, SameOwners
    <3> QED
      BY <1>0, <2>3, <3>1, <3>3 DEF OutputProgress
  <2> QED
    BY <2>2, <2>5, <2>6
<1> QED
  BY <1>1, <1>2

Progress(p) == AttachProgress(p) /\ LookupProgress(p) /\ OutputProgress(p)

LEMMA TableKept ==
  ASSUME CallInv, CallInv', Exclusive, Apart, Table,
         NEW p \in Ips, Step(p), ~Return(p), SameOwners, valid' = valid,
         ~Building(p), ~Building(p)', Progress(p)'
  PROVE  Table'
<1>1. pc[p] # "idle" /\ pc'[p] # "idle" /\ call'[p].req = call[p].req
  BY RequestStays
<1>2. \A q \in Ips \ {p} : pc'[q] = pc[q] /\ call'[q] = call[q]
  BY OneCallOnly
<1>3. WholeSlots' /\ OneSlotEach' /\ \A n : Held(n)' = Held(n)
  BY <1>1, <1>2, OwnersKept
<1>4. \A q \in Ips : /\ Restructures(q)' = Restructures(q)
                     /\ call'[q].req = call[q].req
  BY <1>1, <1>2 DEF Restructures
<1>5. ValidHeld'
  BY <1>3, <1>4, InterfaceAssumption DEF ValidHeld, Table
<1>6. ASSUME NEW q \in Ips \ {p} PROVE Progress(q)'
  BY <1>1, <1>2, OthersKept DEF Progress
<1> QED
  BY <1>3, <1>5, <1>6 DEF Table, Progress

(* A call that attaches or detaches nothing learns nothing by returning.   *)
LEMMA PlainReturn ==
  ASSUME NEW p \in Ips, pc'[p] = "return", call'[p].req.cmd \notin Restructuring
  PROVE  Progress(p)' /\ ~Building(p)'
  BY DEF Progress, AttachProgress, LookupProgress, OutputProgress, Restructuring, CaseLabels,
    QueryLabels, OutLabels, Building

LEMMA NotRestructuring ==
  ASSUME CallInv, NEW p \in Ips,
         pc[p] \in QueryLabels \cup SetLabels \cup PacketLabels \cup {"PACKET_SEND"}
  PROVE  call[p].req.cmd \notin Restructuring /\ ~Building(p)
<1>1. Fits(p, pc[p], call[p])
  BY DEF CallInv
<1>2. call[p].req.cmd \notin Restructuring
  BY <1>1 DEF Fits, RequestFits, Restructuring, ResetCommands, SendCommands, QueryLabels, SetLabels,
    PacketLabels, OutLabels
<1> QED
  BY <1>2 DEF Building, QueryLabels, SetLabels, PacketLabels, OutLabels

(* The search for the caller's slot misses none that holds its interface.  *)
LEMMA LookupTable ==
  ASSUME CallInv, CallInv', Exclusive, Apart, Table, NEW p \in Ips,
         LookupHit(p) \/ LookupNext(p) \/ LookupMiss(p)
  PROVE  Table'
<1> USE DEF Goto, Finish
<1> DEFINE n == call[p].req.iface
<1>0. Step(p) /\ ~Return(p) /\ SameOwners /\ valid' = valid /\ ~Building(p)
  BY DEF Step, Return, SameOwners, LookupHit, LookupNext, LookupMiss, Building
<1>f. Fits(p, pc[p], call[p]) /\ call[p] \in Locals /\ pc[p] = "lookup"
  BY DEF CallInv, TypeOK, LookupHit, LookupNext, LookupMiss
<1>1. call[p].req.cmd \in Commands /\ call[p].req.cmd # "INTERFACE_ATTACH" /\ IpOf[n] = p /\ n \in Ifaces
  BY <1>f, RequestAssumption DEF Fits, RequestFits, Request
<1>2. \A s \in Slots : s < call[p].i => ~Holds(s, n)
  BY <1>f DEF Table, LookupProgress
<1>3. call[p].i \in 0 .. NumSlots
  BY <1>f DEF Locals
<1>4. slot' = slot
  BY DEF LookupHit, LookupNext, LookupMiss
<1>5. CASE LookupHit(p)
  <2>1. pc'[p] \in CaseLabels /\ call'[p] = call[p]
    BY <1>1, <1>5, LookupGoesTo DEF LookupHit, CallInv, TypeOK
  <2>2. Holds(call[p].i, n)'
    BY <1>4, <1>5 DEF LookupHit, IsMine, Mine, Holds
  <2>3. Progress(p)' /\ ~Building(p)'
    BY <1>1, <2>1, <2>2 DEF Progress, AttachProgress, LookupProgress, OutputProgress,
      CaseLabels, QueryLabels, OutLabels, Building
  <2> QED
    BY <1>0, <2>3, TableKept
<1>6. CASE LookupNext(p)
  <2>1. pc'[p] = "lookup" /\ call'[p].i = call[p].i + 1 /\ call'[p].req = call[p].req
    BY <1>6, <1>f DEF LookupNext, CallInv, TypeOK, Locals
  <2>2. \A q \in Ips : ~Building(q)
    BY <1>f, NobodyBuilds DEF Building, AttachLabels, ResetLabels
  <2>3. call[p].i \in Slots /\ Whole(call[p].i)
    BY <1>6, <2>2 DEF LookupNext, InTable, Table, WholeSlots
  <2>4. ~Holds(call[p].i, n)
    BY <1>1, <1>6, <2>3 DEF LookupNext, IsMine, Mine, Holds, Whole
  <2>5. \A s \in Slots : s < call[p].i + 1 => ~Holds(s, n)
    BY <1>2, <1>3, <2>4 DEF Slots
  <2>6. Progress(p)' /\ ~Building(p)'
    <3>1. \A s \in Slots : s < call'[p].i => ~Holds(s, n)'
      BY <2>1, <2>5, <1>4 DEF Holds
    <3> QED
      BY <1>1, <2>1, <3>1 DEF Progress, AttachProgress, LookupProgress, OutputProgress,
        CaseLabels, QueryLabels, OutLabels, Building
  <2> QED
    BY <1>0, <2>6, TableKept
<1>7. CASE LookupMiss(p)
  <2>1. pc'[p] = "return" /\ call'[p].req = call[p].req
    BY <1>7, <1>f DEF LookupMiss, CallInv, TypeOK, Locals
  <2>2. \A s \in Slots : s < call[p].i
    BY <1>3, <1>7, SizeAssumption DEF LookupMiss, InTable, Slots
  <2>3. ~Held(n)'
    BY <1>2, <2>1, <2>2, <1>4 DEF Held, Holds
  <2>4. Progress(p)' /\ ~Building(p)'
    BY <1>1, <2>1, <2>3 DEF Progress, AttachProgress, LookupProgress, OutputProgress,
      CaseLabels, QueryLabels, OutLabels, Building
  <2> QED
    BY <1>0, <2>4, TableKept
<1> QED
  BY <1>5, <1>6, <1>7

(* Commands that change no owner: a status, a link, an address, a group.   *)
LEMMA QueryTable ==
  ASSUME CallInv, CallInv', Exclusive, Apart, Table, NEW p \in Ips,
         \/ Initialize(p) \/ Enable(p) \/ Disable(p) \/ GetStatus(p) \/ GetCount(p)
         \/ GetInterfaceType(p) \/ DeferredProcessing(p) \/ Unhandled(p)
         \/ JoinFull(p) \/ LeaveMiss(p) \/ SetAddressMiss(p) \/ Release(p)
  PROVE  Table'
<1> USE DEF Goto, Finish
<1>1. Step(p) /\ ~Return(p) /\ SameOwners /\ valid' = valid
  BY DEF Step, Return, SameOwners, Initialize, Enable, Disable, GetStatus, GetCount,
    GetInterfaceType, DeferredProcessing, Unhandled, JoinFull, LeaveMiss, SetAddressMiss, Release
<1>2. pc'[p] = "return"
  BY DEF CallInv, TypeOK, Initialize, Enable, Disable, GetStatus, GetCount,
    GetInterfaceType, DeferredProcessing, Unhandled, JoinFull, LeaveMiss, SetAddressMiss, Release
<1>3. call'[p].req = call[p].req
  BY <1>1, RequestStays
<1>4. pc[p] \in QueryLabels \cup SetLabels \cup PacketLabels
  BY DEF Initialize, Enable, Disable, GetStatus, GetCount, GetInterfaceType, DeferredProcessing,
    Unhandled, JoinFull, LeaveMiss, SetAddressMiss, Release, QueryLabels, SetLabels, PacketLabels, OutLabels
<1>5. call[p].req.cmd \notin Restructuring /\ ~Building(p)
  BY <1>4, NotRestructuring
<1> QED
  BY <1>1, <1>2, <1>3, <1>5, PlainReturn, TableKept

LEMMA SetLookup ==
  ASSUME CallInv, CallInv', Exclusive, Apart, Table, NEW p \in Ips,
         SetAddress(p) \/ SetAddressNext(p)
  PROVE  Table'
<1> USE DEF Goto
<1>1. Step(p) /\ ~Return(p) /\ SameOwners /\ valid' = valid
  BY DEF Step, Return, SameOwners, SetAddress, SetAddressNext
<1>2. pc'[p] = "set_find" /\ pc[p] \in SetLabels
  BY DEF CallInv, TypeOK, SetAddress, SetAddressNext, SetLabels
<1>3. call'[p].req = call[p].req
  BY <1>1, RequestStays
<1>4. call[p].req.cmd \notin Restructuring /\ ~Building(p)
  BY <1>2, NotRestructuring
<1>5. Progress(p)' /\ ~Building(p)'
  BY <1>2, <1>3, <1>4 DEF Progress, AttachProgress, LookupProgress, OutputProgress, CaseLabels,
    QueryLabels, OutLabels, Building, Restructuring
<1> QED
  BY <1>1, <1>4, <1>5, TableKept

(* An address is only set in the slot of an attached interface.            *)
LEMMA SetOwners ==
  ASSUME CallInv, Exclusive, Apart, Table, NEW p \in Ips, SetAddressHit(p)
  PROVE  SameOwners
<1>f. Fits(p, pc[p], call[p]) /\ pc[p] = "set_find"
  BY DEF CallInv, SetAddressHit
<1>1. \A q \in Ips : ~Building(q)
  BY <1>f, NobodyBuilds DEF Building, AttachLabels, ResetLabels
<1>2. Mine(p).in_use
  <2>1. Whole(call[p].i) /\ slot[call[p].i].iface # NoIface
    BY <1>1, <1>f, RequestAssumption, InterfaceAssumption
      DEF Table, WholeSlots, SetAddressHit, InTable, Mine, Fits, RequestFits, Request
  <2> QED
    BY <2>1 DEF Whole, FreeSlot, Mine
<1> QED
  BY <1>2 DEF SetAddressHit, SameOwners, Mine, CallInv, TypeOK, Slot

LEMMA SetTable ==
  ASSUME CallInv, CallInv', Exclusive, Apart, Table, NEW p \in Ips, SetAddressHit(p)
  PROVE  Table'
<1> USE DEF Goto, Finish
<1>1. Step(p) /\ ~Return(p) /\ valid' = valid
  BY DEF Step, Return, SetAddressHit
<1>2. pc'[p] = "return" /\ pc[p] \in SetLabels
  BY DEF CallInv, TypeOK, SetAddressHit, SetLabels
<1>3. call'[p].req = call[p].req
  BY <1>1, RequestStays
<1>4. call[p].req.cmd \notin Restructuring /\ ~Building(p)
  BY <1>2, NotRestructuring
<1> QED
  BY <1>1, <1>2, <1>3, <1>4, SetOwners, PlainReturn, TableKept

(* A multicast entry is only written in the slot of an attached interface. *)
LEMMA GroupOwners ==
  ASSUME CallInv, Table, NEW p \in Ips, NEW a, WriteEntry(p, a),
         pc[p] \in {"MULTICAST_JOIN", "MULTICAST_LEAVE"}
  PROVE  SameOwners /\ \A s \in Slots : slot'[s].mac = slot[s].mac
<1>1. Fits(p, pc[p], call[p])
  BY DEF CallInv
<1>2. Mine(p).in_use /\ call[p].i \in Slots
  BY <1>1 DEF Table, LookupProgress, CaseLabels, Holds, Mine, Fits, PlaceFits, SearchLabels, QueryLabels
<1> QED
  BY <1>2 DEF WriteEntry, SameOwners, Mine, CallInv, TypeOK, Slot

LEMMA GroupTable ==
  ASSUME CallInv, CallInv', Exclusive, Apart, Table, NEW p \in Ips, Join(p) \/ Leave(p)
  PROVE  Table'
<1> USE DEF Goto, Finish
<1>f. Fits(p, pc[p], call[p]) /\ pc[p] \in QueryLabels
  BY DEF CallInv, Join, Leave, QueryLabels
<1>1. Step(p) /\ ~Return(p) /\ valid' = valid
  BY DEF Step, Return, Join, Leave, WriteEntry, SkipEntry
<1>3. call'[p].req = call[p].req
  BY <1>1, RequestStays
<1>4. call[p].req.cmd \notin Restructuring /\ ~Building(p)
  BY <1>f, NotRestructuring
<1>5. Mine(p).in_use /\ Holds(call[p].i, call[p].req.iface) /\ call[p].i \in Slots
  BY <1>f DEF Table, LookupProgress, CaseLabels, Holds, Mine, Fits, PlaceFits, SearchLabels, QueryLabels
<1>6. CASE \E a : WriteEntry(p, a)
  <2>1. SameOwners
    BY <1>6, GroupOwners DEF Join, Leave
  <2>2. pc'[p] = "return"
    BY <1>6 DEF WriteEntry, CallInv, TypeOK
  <2> QED
    BY <1>1, <1>3, <1>4, <2>1, <2>2, PlainReturn, TableKept
<1>7. CASE SkipEntry(p)
  <2>1. SameOwners /\ slot' = slot /\ pc'[p] = pc[p] /\ call'[p].i = call[p].i
    BY <1>7 DEF SkipEntry, SameOwners, CallInv, TypeOK, Locals
  <2>2. Holds(call[p].i, call[p].req.iface)'
    BY <1>3, <1>5, <2>1 DEF Holds
  <2>3. Progress(p)' /\ ~Building(p)'
    BY <1>f, <1>3, <1>4, <2>1, <2>2 DEF Progress, AttachProgress, LookupProgress, OutputProgress,
      CaseLabels, QueryLabels, OutLabels, Building, Restructuring
  <2> QED
    BY <1>1, <1>4, <2>1, <2>3, TableKept
<1> QED
  BY <1>6, <1>7 DEF Join, Leave

(* Output changes nothing in the table, and finds in it what it left there.*)
LEMMA OutputTable ==
  ASSUME CallInv, CallInv', Exclusive, Apart, Table, NEW p \in Ips,
         \/ Send(p) \/ OutSkip(p) \/ OutPick(p) \/ OutNextIp(p) \/ OutMatch(p)
         \/ MulticastMatch(p) \/ MulticastEnd(p) \/ CopyMade(p) \/ CopyFails(p) \/ CopyFaults(p)
         \/ Receive(p) \/ ReceiveMulticast(p) \/ OutEnd(p)
  PROVE  Table'
<1> USE DEF Goto
<1>f. Fits(p, pc[p], call[p]) /\ pc[p] \in PacketLabels \cup {"PACKET_SEND"} /\ call[p] \in Locals
      /\ LookupProgress(p) /\ OutputProgress(p)
  BY DEF CallInv, TypeOK, Table, Send, OutSkip, OutPick, OutNextIp, OutMatch, MulticastMatch,
    MulticastEnd, CopyMade, CopyFails, CopyFaults, Copying, Receive, ReceiveMulticast, OutEnd,
    PacketLabels, OutLabels
<1>1. Step(p) /\ ~Return(p) /\ valid' = valid /\ slot' = slot
  BY DEF Step, Return, Send, OutSkip, OutPick, OutNextIp, OutMatch, MulticastMatch, SkipEntry,
    MulticastEnd, CopyMade, CopyFails, CopyFaults, Copying, Receive, ReceiveMulticast, OutEnd
<1>2. SameOwners
  BY <1>1 DEF SameOwners
<1>3. call'[p].req = call[p].req
  BY <1>1, RequestStays
<1>4. call[p].req.cmd \notin Restructuring /\ ~Building(p)
  BY <1>f, NotRestructuring
<1>5. pc'[p] \in PacketLabels
  BY DEF CallInv, TypeOK, Send, OutSkip, OutPick, OutNextIp, OutMatch, MulticastMatch, SkipEntry,
    MulticastEnd, CopyMade, CopyFails, CopyFaults, Copying, Receive, ReceiveMulticast, OutEnd,
    PacketLabels, OutLabels
<1>6. ~Building(p)' /\ AttachProgress(p)' /\ LookupProgress(p)'
  BY <1>3, <1>4, <1>5 DEF AttachProgress, LookupProgress, CaseLabels, QueryLabels, PacketLabels,
    OutLabels, Building, Restructuring
<1>7. OutputProgress(p)'
  <2>1. CASE Send(p)
    <3>1. pc'[p] = "out_in_use" /\ call'[p].inst = call[p].i /\ Holds(call[p].i, call[p].req.iface)
      BY <2>1, <1>f DEF Send, CallInv, TypeOK, Locals, LookupProgress, CaseLabels
    <3> QED
      BY <3>1, <1>1, <1>3 DEF OutputProgress, Holds
  <2>2. CASE CopyFails(p) \/ CopyFaults(p)
    <3>1. pc'[p] \in {"release_early", "fault"}
      BY <2>2 DEF CopyFails, CopyFaults, CallInv, TypeOK
    <3> QED
      BY <3>1 DEF OutputProgress, OutLabels
  <2>3. CASE ~Send(p) /\ ~CopyFails(p) /\ ~CopyFaults(p)
    <3>a. call'[p].inst = call[p].inst
      <4> USE <1>f DEF CallInv, TypeOK, Locals
      <4>0. CASE OutSkip(p)
        BY <4>0 DEF OutSkip
      <4>1. CASE OutPick(p) \/ OutNextIp(p)
        BY <4>1 DEF OutPick, OutNextIp
      <4>2. CASE OutMatch(p) \/ MulticastMatch(p) \/ MulticastEnd(p)
        BY <4>2 DEF OutMatch, MulticastMatch, MulticastEnd, SkipEntry
      <4>3. CASE CopyMade(p) \/ Receive(p) \/ ReceiveMulticast(p) \/ OutEnd(p)
        BY <4>3 DEF CopyMade, Receive, ReceiveMulticast, OutEnd
      <4> QED
        BY <2>3, <4>0, <4>1, <4>2, <4>3
    <3>b. pc[p] \in OutLabels
      BY <2>3 DEF OutSkip, OutPick, OutNextIp, OutMatch, MulticastMatch, MulticastEnd, CopyMade,
        Copying, Receive, ReceiveMulticast, OutEnd, OutLabels
    <3>1. call'[p].inst = call[p].inst /\ pc[p] \in OutLabels
      BY <3>a, <3>b
    <3>2. Holds(call[p].inst, call[p].req.iface)'
      BY <3>1, <1>1, <1>3, <1>f DEF OutputProgress, Holds
    <3>3. CASE OutSkip(p) \/ MulticastEnd(p) \/ Receive(p) \/ OutEnd(p)
      <4>1. pc'[p] \in {"out_in_use", "release"}
        BY <3>3 DEF OutSkip, MulticastEnd, Receive, OutEnd, CallInv, TypeOK
      <4> QED
        BY <3>2, <4>1 DEF OutputProgress
    <3>4. CASE OutPick(p)
      <4>1. pc'[p] = "out_next_ip" /\ call'[p] = call[p] /\ ~Skips(p)
        BY <3>4 DEF OutPick, CallInv, TypeOK
      <4> QED
        BY <3>2, <4>1, <1>1 DEF OutputProgress, Skips, Mine
    <3>5. CASE OutNextIp(p)
      <4>1. pc'[p] = "out_match" /\ call'[p].i = call[p].i /\ call'[p].next = Mine(p).ip /\ ~Skips(p)
        BY <3>5, <1>f DEF OutNextIp, CallInv, TypeOK, Locals, OutputProgress, OutLabels
      <4> QED
        BY <3>1, <3>2, <4>1, <1>1 DEF OutputProgress, Skips, Mine
    <3>6. CASE OutMatch(p) \/ MulticastMatch(p) \/ CopyMade(p) \/ ReceiveMulticast(p)
      <4>1. call'[p].i = call[p].i /\ call'[p].next = call[p].next
        BY <3>6, <1>f DEF OutMatch, MulticastMatch, SkipEntry, CopyMade, ReceiveMulticast, CallInv, TypeOK, Locals
      <4>2. pc[p] \in OutLabels \ {"out_in_use", "release", "out_next_ip"}
        BY <3>6 DEF OutMatch, MulticastMatch, SkipEntry, CopyMade, Copying, ReceiveMulticast, OutLabels
      <4> QED
        BY <3>1, <3>2, <4>1, <4>2, <1>f, <1>1 DEF OutputProgress, Skips, Mine
    <3> QED
      BY <2>3, <3>3, <3>4, <3>5, <3>6
  <2> QED
    BY <2>1, <2>2, <2>3
<1> QED
  BY <1>1, <1>2, <1>4, <1>6, <1>7, TableKept DEF Progress

(* A call begins or returns: the table is as it was, and so is what NetX   *)
(* believes of it.                                                         *)
LEMMA BeginTable ==
  ASSUME CallInv, CallInv', Exclusive, Apart, Table, NEW p \in Ips, NEW r \in Requests, Call(p, r)
  PROVE  Table'
<1>1. pc[p] = "idle" /\ call'[p] = Fresh(r) /\ IpOf[r.iface] = p /\ r.iface \in Ifaces
      /\ slot' = slot /\ valid' = valid
  BY RequestAssumption DEF Call, Request, CallInv, TypeOK
<1>2. pc'[p] = IF r.cmd = "INTERFACE_ATTACH" THEN "attach_find" ELSE "lookup"
  BY DEF Call, Goto, CallInv, TypeOK
<1>3. \A q \in Ips \ {p} : pc'[q] = pc[q] /\ call'[q] = call[q]
  BY OneCallOnly
<1>4. SameOwners /\ ~Building(p) /\ ~Building(p)'
  BY <1>1, <1>2 DEF SameOwners, Building
<1>5. WholeSlots' /\ OneSlotEach' /\ \A n : Held(n)' = Held(n) /\ Listed(n)' = Listed(n)
  BY <1>1, <1>3, <1>4, OwnersKept
<1>6. ASSUME NEW q \in Ips \ {p} PROVE Progress(q)'
  BY <1>1, <1>3, <1>4, OthersKept DEF Progress
<1>7. ValidHeld'
  <2>1. ASSUME NEW n \in Ifaces, ~(Restructures(IpOf[n])' /\ call'[IpOf[n]].req.iface = n)
        PROVE  n \in valid <=> Held(n)
    <3>1. CASE IpOf[n] = p
      BY <1>1, <3>1 DEF Table, ValidHeld, Restructures
    <3>2. CASE IpOf[n] # p
      BY <1>3, <2>1, <3>2, InterfaceAssumption DEF Table, ValidHeld, Restructures
    <3> QED
      BY <3>1, <3>2
  <2> QED
    BY <1>1, <1>5, <2>1 DEF ValidHeld
<1>8. CASE r.cmd = "INTERFACE_ATTACH"
  <2>1. r.iface \notin valid /\ ~Held(r.iface)
    BY <1>1, <1>8 DEF Call, Table, ValidHeld, Restructures
  <2>2. \A q \in Ips : ~Building(q)
    <3>1. Restructures(p)' /\ ~Building(p)
      BY <1>1, <1>2, <1>8 DEF Restructures, Fresh, Restructuring, Building
    <3>2. ASSUME NEW q \in Ips \ {p}, Building(q) PROVE FALSE
      <4>1. Restructures(q)
        BY <3>2, BuildersRestructure DEF Building, AttachLabels, ResetLabels
      <4>2. CASE AttachesAlone
        BY <4>1, <4>2 DEF Call, Restructures, Restructuring, AttachesAlone
      <4> QED
        BY <4>2 DEF Apart, OneInstance
    <3> QED
      BY <3>1, <3>2
  <2>3. ~Listed(r.iface)
    <3> SUFFICES ASSUME NEW s \in Slots, slot[s].iface = r.iface PROVE FALSE
      BY DEF Listed
    <3>1. Whole(s)
      BY <2>2 DEF Table, WholeSlots
    <3> QED
      BY <1>1, <2>1, <3>1, InterfaceAssumption DEF Whole, FreeSlot, Held, Holds
  <2>4. ~Listed(r.iface)'
    BY <1>5, <2>3
  <2>5. Progress(p)'
    BY <1>1, <1>2, <1>8, <2>1, <2>4 DEF Progress, AttachProgress, LookupProgress, OutputProgress,
      CaseLabels, QueryLabels, OutLabels, Fresh
  <2> QED
    BY <1>5, <1>6, <1>7, <2>5 DEF Table, Progress
<1>9. CASE r.cmd # "INTERFACE_ATTACH"
  <2>1. Progress(p)'
    BY <1>1, <1>2, <1>9 DEF Progress, AttachProgress, LookupProgress, OutputProgress,
      CaseLabels, QueryLabels, OutLabels, Fresh, Slots
  <2> QED
    BY <1>5, <1>6, <1>7, <2>1 DEF Table, Progress
<1> QED
  BY <1>8, <1>9

LEMMA ReturnTable ==
  ASSUME CallInv, CallInv', Exclusive, Apart, Table, NEW p \in Ips, Return(p)
  PROVE  Table'
<1> DEFINE r == call[p].req
<1>f. Fits(p, pc[p], call[p]) /\ Progress(p)
  BY DEF CallInv, Table, Progress
<1>1. pc[p] = "return" /\ pc'[p] = "idle" /\ slot' = slot /\ IpOf[r.iface] = p /\ r.iface \in Ifaces
  BY <1>f, RequestAssumption DEF Return, Goto, Request, CallInv, TypeOK, Fits, RequestFits
<1>2. /\ r.cmd = "INTERFACE_ATTACH" /\ call[p].status = NX_SUCCESS => valid' = valid \cup {r.iface}
      /\ r.cmd \in ResetCommands => valid' = valid \ {r.iface}
      /\ ~(r.cmd = "INTERFACE_ATTACH" /\ call[p].status = NX_SUCCESS) /\ r.cmd \notin ResetCommands
           => valid' = valid
  <2>1. "INTERFACE_ATTACH" \notin ResetCommands
    BY DEF ResetCommands
  <2> QED
    BY <2>1, Zenon DEF Return
<1>3. \A q \in Ips \ {p} : pc'[q] = pc[q] /\ call'[q] = call[q]
  BY OneCallOnly DEF Step
<1>4. SameOwners /\ ~Building(p) /\ ~Building(p)'
  BY <1>1 DEF SameOwners, Building
<1>5. WholeSlots' /\ OneSlotEach' /\ \A n : Held(n)' = Held(n) /\ Listed(n)' = Listed(n)
  BY <1>1, <1>3, <1>4, OwnersKept
<1>6. ASSUME NEW q \in Ips \ {p} PROVE Progress(q)'
  <2>1. Progress(q)
    BY DEF Table, Progress
  <2>2. pc[q] # "idle" => call[q].req.iface # r.iface
    <3>1. Fits(q, pc[q], call[q])
      BY DEF CallInv
    <3> QED
      BY <1>1, <3>1 DEF Fits, RequestFits
  <2>3. pc[q] # "idle" => (call[q].req.iface \in valid' <=> call[q].req.iface \in valid)
    BY <1>2, <2>2
  <2>4. pc'[q] = pc[q] /\ call'[q] = call[q] /\ slot' = slot
    BY <1>1, <1>3
  <2>5. Mine(q)' = Mine(q) /\ (\A n : Held(n)' = Held(n) /\ Listed(n)' = Listed(n))
    BY <2>4, <1>5 DEF Mine
  <2>6. AttachProgress(q)'
    BY <2>1, <2>3, <2>4, <2>5 DEF Progress, AttachProgress
  <2>7. LookupProgress(q)'
    BY <2>1, <2>4, <2>5 DEF Progress, LookupProgress, Holds
  <2>8. OutputProgress(q)'
    BY <2>1, <2>4, <2>5 DEF Progress, OutputProgress, Holds, Skips
  <2> QED
    BY <2>6, <2>7, <2>8 DEF Progress
<1>7. Progress(p)'
  BY <1>1 DEF Progress, AttachProgress, LookupProgress, OutputProgress, CaseLabels, QueryLabels, OutLabels
<1>8. ValidHeld'
  <2>1. ASSUME NEW n \in Ifaces, ~(Restructures(IpOf[n])' /\ call'[IpOf[n]].req.iface = n)
        PROVE  n \in valid' <=> Held(n)
    <3>1. CASE n # r.iface
      <4>1. n \in valid' <=> n \in valid
        BY <1>2, <3>1
      <4>2. ~(Restructures(IpOf[n]) /\ call[IpOf[n]].req.iface = n)
        BY <1>1, <1>3, <2>1, <3>1, InterfaceAssumption DEF Restructures
      <4> QED
        BY <4>1, <4>2 DEF Table, ValidHeld
    <3>2. CASE n = r.iface /\ r.cmd = "INTERFACE_ATTACH"
      <4>1. n \notin valid /\ (call[p].status = NX_SUCCESS <=> Held(n))
        BY <1>1, <1>f, <3>2 DEF Progress, AttachProgress
      <4>2. r.cmd \notin ResetCommands
        BY <3>2 DEF ResetCommands
      <4> QED
        BY <1>2, <3>2, <4>1, <4>2
    <3>3. CASE n = r.iface /\ r.cmd \in ResetCommands
      <4>1. ~Held(n)
        BY <1>1, <1>f, <3>3 DEF Progress, LookupProgress
      <4> QED
        BY <1>2, <3>3, <4>1
    <3>4. CASE n = r.iface /\ r.cmd \notin Restructuring
      <4>1. n \in valid' <=> n \in valid
        BY <1>2, <3>4 DEF Restructuring
      <4>2. ~Restructures(p)
        BY <3>4 DEF Restructures
      <4> QED
        BY <1>1, <3>4, <4>1, <4>2 DEF Table, ValidHeld
    <3> QED
      BY <3>1, <3>2, <3>3, <3>4 DEF Restructuring
  <2> QED
    BY <1>5, <2>1 DEF ValidHeld
<1> QED
  BY <1>5, <1>6, <1>7, <1>8 DEF Table, Progress
-------------------------------------------------------------------------------
(***************************************************************************)
(* Attach and detach: the other calls are idle, and one slot changes.      *)
(***************************************************************************)
LEMMA OneSlotWritten ==
  ASSUME CallInv, CallInv', Exclusive, Apart, Table, NEW p \in Ips, Step(p), ~Return(p),
         pc[p] \in AttachLabels \cup ResetLabels, valid' = valid,
         call[p].i \in Slots, call'[p].i = call[p].i,
         NEW v, slot' = [slot EXCEPT ![call[p].i] = v],
         Mine(p).iface \in {NoIface, call[p].req.iface},
         v.iface \in {NoIface, call[p].req.iface},
         v.iface = Mine(p).iface \/ v.iface = NoIface \/ ~Listed(call[p].req.iface),
         Building(p)' \/ Whole(call[p].i)',
         Progress(p)'
  PROVE  Table'
<1> DEFINE n == call[p].req.iface
           i == call[p].i
<1>1. pc[p] # "idle" /\ pc'[p] # "idle" /\ call'[p].req = call[p].req /\ Restructures(p)
  BY RequestStays, BuildersRestructure
<1>2. \A q \in Ips \ {p} : pc[q] = "idle" /\ pc'[q] = "idle" /\ call'[q] = call[q]
  BY <1>1, OneCallOnly, RestructuresAlone
<1>3. n \in Ifaces /\ IpOf[n] = p
  <2>1. Fits(p, pc[p], call[p])
    BY DEF CallInv
  <2> QED
    BY <1>1, <2>1, RequestAssumption DEF Fits, RequestFits, Request
<1>4. slot'[i] = v /\ \A s \in Slots \ {i} : slot'[s] = slot[s]
  BY DEF CallInv, TypeOK
<1>5. WholeSlots'
  <2> SUFFICES ASSUME NEW s \in Slots, \A q \in Ips : Building(q)' => call'[q].i # s
               PROVE  Whole(s)'
    BY DEF WholeSlots
  <2>1. CASE s = i
    BY <2>1
  <2>2. CASE s # i
    <3>1. \A q \in Ips : Building(q) => call[q].i # s
      BY <1>2, <2>2 DEF Building
    <3>2. Whole(s)
      BY <3>1 DEF Table, WholeSlots
    <3> QED
      BY <3>2, <2>2, <1>4 DEF Whole
  <2> QED
    BY <2>1, <2>2
<1>6. OneSlotEach'
  BY <1>4 DEF Table, OneSlotEach, Listed, Mine
<1>7. \A m \in Ifaces \ {n} : Held(m)' = Held(m)
  <2> SUFFICES ASSUME NEW m \in Ifaces \ {n} PROVE Held(m)' = Held(m)
    OBVIOUS
  <2>1. v.iface # m /\ slot[i].iface # m
    BY InterfaceAssumption DEF Mine
  <2> QED
    BY <1>4, <2>1 DEF Held, Holds
<1>8. ValidHeld'
  <2> SUFFICES ASSUME NEW m \in Ifaces, ~(Restructures(IpOf[m])' /\ call'[IpOf[m]].req.iface = m)
               PROVE  m \in valid <=> Held(m)'
    BY DEF ValidHeld
  <2>1. Restructures(p)'
    BY <1>1 DEF Restructures
  <2>2. m # n
    BY <1>1, <1>3, <2>1
  <2>3. ~(Restructures(IpOf[m]) /\ call[IpOf[m]].req.iface = m)
    BY <1>2, <2>2, InterfaceAssumption DEF Restructures
  <2> QED
    BY <1>7, <2>2, <2>3 DEF Table, ValidHeld
<1>9. ASSUME NEW q \in Ips \ {p} PROVE Progress(q)'
  BY <1>2 DEF Progress, AttachProgress, LookupProgress, OutputProgress, CaseLabels, QueryLabels,
    OutLabels
<1> QED
  BY <1>5, <1>6, <1>8, <1>9 DEF Table, Progress

(* What an attach or a detach starts each of its steps from.               *)
LEMMA RestructuringStarts ==
  ASSUME CallInv, Exclusive, Apart, Table, NEW p \in Ips, pc[p] \in AttachLabels \cup ResetLabels
  PROVE  /\ pc[p] \in AttachLabels => call[p].req.cmd = "INTERFACE_ATTACH"
         /\ pc[p] \in ResetLabels => call[p].req.cmd \in ResetCommands
         /\ pc[p] # "attach_find" => call[p].i \in Slots /\ Mine(p) \in Slot
         /\ call[p].i \in 0 .. NumSlots
         /\ pc[p] = "attach_find" /\ call[p].i \in Slots => Whole(call[p].i)
         /\ pc[p] = "attach_in_use" => Mine(p) = FreeSlot
         /\ call[p].req.iface \in Ifaces /\ IpOf[call[p].req.iface] = p
<1>1. Fits(p, pc[p], call[p]) /\ call[p] \in Locals /\ Restructures(p)
  BY BuildersRestructure DEF CallInv, TypeOK
<1>2. call[p].i \in 0 .. NumSlots
  BY <1>1 DEF Locals
<1>3. pc[p] # "attach_find" => call[p].i \in Slots
  BY <1>1 DEF Fits, PlaceFits, AttachLabels, ResetLabels, SearchLabels
<1>4. \A q \in Ips \ {p} : ~Building(q)
  BY <1>1, RestructuresAlone DEF Building
<1>5. pc[p] \in {"attach_find", "attach_in_use"} /\ call[p].i \in Slots => Whole(call[p].i)
  BY <1>4 DEF Building, Table, WholeSlots
<1>6. pc[p] = "attach_in_use" => Mine(p) = FreeSlot
  BY <1>3, <1>5 DEF Table, AttachProgress, Whole, Mine
<1>7. call[p].req.iface \in Ifaces /\ IpOf[call[p].req.iface] = p
  BY <1>1, RequestAssumption DEF Fits, RequestFits, Request, Restructures
<1>8. pc[p] # "attach_find" => Mine(p) \in Slot
  BY <1>3 DEF CallInv, TypeOK, Mine
<1> QED
  BY <1>1, <1>2, <1>3, <1>5, <1>6, <1>7, <1>8 DEF Fits, RequestFits, AttachLabels, ResetLabels

(* The search for a free slot.                                             *)
LEMMA AttachFindTable ==
  ASSUME CallInv, CallInv', Exclusive, Apart, Table, NEW p \in Ips, AttachFind(p) \/ AttachFull(p)
  PROVE  Table'
<1> USE DEF Goto, Finish
<1> DEFINE n == call[p].req.iface
<1>1. Step(p) /\ ~Return(p) /\ slot' = slot /\ valid' = valid /\ pc[p] = "attach_find"
  BY DEF Step, Return, AttachFind, AttachFull
<1>2. call'[p].req = call[p].req /\ call[p].req.cmd = "INTERFACE_ATTACH"
  BY <1>1, RequestStays, RestructuringStarts DEF AttachLabels
<1>3. ~Listed(n) /\ n \notin valid /\ ~Listed(n)' /\ ~Held(n)'
  BY <1>1, <1>2 DEF Table, AttachProgress, Listed, Held, Holds
<1>4. SameOwners /\ ~Building(p)
  BY <1>1 DEF SameOwners, Building
<1>5. /\ pc'[p] \in {"attach_find", "attach_in_use", "return"}
      /\ pc'[p] = "attach_in_use" => ~Mine(p)'.in_use
      /\ pc'[p] = "return" => call'[p].status = NX_INVALID_INTERFACE
  <2>1. CASE AttachFull(p)
    BY <2>1 DEF AttachFull, CallInv, TypeOK, Locals
  <2>2. CASE AttachFind(p) /\ Mine(p).in_use
    BY <2>2, <1>1 DEF AttachFind
  <2>3. CASE AttachFind(p) /\ ~Mine(p).in_use
    BY <2>3, <1>1 DEF AttachFind, CallInv, TypeOK, Mine
  <2> QED
    BY <2>1, <2>2, <2>3
<1>6. Progress(p)' /\ ~Building(p)'
  BY <1>1, <1>2, <1>3, <1>5 DEF Progress, AttachProgress, LookupProgress, OutputProgress,
    CaseLabels, QueryLabels, OutLabels, Building, ResetCommands, NX_SUCCESS, NX_INVALID_INTERFACE
<1> QED
  BY <1>1, <1>4, <1>6, TableKept

(* The writes of an attach.                                                *)
LEMMA AttachTable ==
  ASSUME CallInv, CallInv', Exclusive, Apart, Table, NEW p \in Ips,
         AttachInUse(p) \/ AttachIface(p) \/ AttachIp(p) \/ AttachMac(p)
  PROVE  Table'
<1> USE DEF Goto, Finish
<1> DEFINE n == call[p].req.iface
           i == call[p].i
<1>1. Step(p) /\ ~Return(p) /\ valid' = valid /\ pc[p] \in AttachLabels /\ pc[p] # "attach_find"
  BY DEF Step, Return, AttachInUse, AttachIface, AttachIp, AttachMac, AttachLabels
<1>2. call'[p].req = call[p].req /\ call[p].req.cmd = "INTERFACE_ATTACH" /\ pc[p] # "idle"
  BY <1>1, RequestStays, RestructuringStarts
<1>3. i \in Slots /\ Mine(p) \in Slot /\ n \in Ifaces /\ IpOf[n] = p
  BY <1>1, RestructuringStarts
<1>4. AttachProgress(p)
  BY DEF Table
<1>5. n \notin valid /\ n \notin valid'
  BY <1>1, <1>2, <1>4 DEF AttachProgress
<1>6. slot \in [Slots -> Slot] /\ call \in [Ips -> Locals] /\ pc \in [Ips -> UsedLabels]
  BY DEF CallInv, TypeOK
<1>i. call'[p].i = i
  BY <1>6 DEF AttachInUse, AttachIface, AttachIp, AttachMac, Locals
<1>7. CASE AttachInUse(p)
  <2> DEFINE v == [Mine(p) EXCEPT !.in_use = TRUE]
  <2>1. slot' = [slot EXCEPT ![i] = v]
    BY <1>3, <1>6, <1>7 DEF AttachInUse, Mine
  <2>2. Mine(p) = FreeSlot /\ pc[p] = "attach_in_use"
    BY <1>1, <1>7, RestructuringStarts DEF AttachInUse
  <2>3. pc'[p] = "attach_iface" /\ Mine(p)' = v
    BY <1>3, <1>6, <1>7, <2>1 DEF AttachInUse, Mine
  <2>4. v.iface = Mine(p).iface /\ Mine(p).iface = NoIface
    BY <2>2 DEF FreeSlot
  <2>5. ~Listed(n)'
    <3>1. \A s \in Slots : slot'[s].iface = slot[s].iface
      BY <1>3, <1>6, <2>1, <2>4 DEF Mine
    <3> QED
      BY <1>2, <1>4, <2>2, <3>1 DEF AttachProgress, Listed
  <2>6. Progress(p)' /\ Building(p)'
    BY <1>2, <1>5, <2>2, <2>3, <2>5 DEF Progress, AttachProgress, LookupProgress, OutputProgress,
      CaseLabels, QueryLabels, OutLabels, Building
  <2> QED
    BY <1>1, <1>3, <1>i, <2>1, <2>4, <2>6, OneSlotWritten
<1>8. CASE AttachIface(p)
  <2> DEFINE v == [Mine(p) EXCEPT !.iface = n]
  <2>1. slot' = [slot EXCEPT ![i] = v]
    BY <1>3, <1>6, <1>8 DEF AttachIface, Mine
  <2>2. Mine(p) = [FreeSlot EXCEPT !.in_use = TRUE] /\ ~Listed(n)
    BY <1>4, <1>8 DEF AttachIface, AttachProgress
  <2>3. pc'[p] = "attach_ip" /\ Mine(p)' = v
    BY <1>3, <1>6, <1>8, <2>1 DEF AttachIface, Mine
  <2>4. v.iface = n /\ Mine(p).iface = NoIface
    BY <2>2 DEF FreeSlot
  <2>5. v = [FreeSlot EXCEPT !.in_use = TRUE, !.iface = n]
    BY <2>2 DEF FreeSlot
  <2>6. Progress(p)' /\ Building(p)'
    BY <1>2, <1>5, <2>3, <2>5 DEF Progress, AttachProgress, LookupProgress, OutputProgress,
      CaseLabels, QueryLabels, OutLabels, Building
  <2> QED
    BY <1>1, <1>3, <1>i, <2>1, <2>2, <2>4, <2>6, OneSlotWritten
<1>9. CASE AttachIp(p)
  <2> DEFINE v == [Mine(p) EXCEPT !.ip = p]
  <2>1. slot' = [slot EXCEPT ![i] = v]
    BY <1>3, <1>6, <1>9 DEF AttachIp, Mine
  <2>2. Mine(p) = [FreeSlot EXCEPT !.in_use = TRUE, !.iface = n]
    BY <1>4, <1>9 DEF AttachIp, AttachProgress
  <2>3. pc'[p] = "attach_mac" /\ Mine(p)' = v
    BY <1>3, <1>6, <1>9, <2>1 DEF AttachIp, Mine
  <2>4. v.iface = Mine(p).iface /\ Mine(p).iface = n
    BY <2>2 DEF FreeSlot
  <2>5. v = [FreeSlot EXCEPT !.in_use = TRUE, !.iface = n, !.ip = p]
    BY <2>2 DEF FreeSlot
  <2>6. Progress(p)' /\ Building(p)'
    BY <1>2, <1>5, <2>3, <2>5 DEF Progress, AttachProgress, LookupProgress, OutputProgress,
      CaseLabels, QueryLabels, OutLabels, Building
  <2> QED
    BY <1>1, <1>3, <1>i, <2>1, <2>4, <2>6, OneSlotWritten
<1>10. CASE AttachMac(p)
  <2> DEFINE v == [Mine(p) EXCEPT !.mac = BaseMac[i]]
  <2>1. slot' = [slot EXCEPT ![i] = v]
    BY <1>3, <1>6, <1>10 DEF AttachMac, Mine
  <2>2. Mine(p) = [FreeSlot EXCEPT !.in_use = TRUE, !.iface = n, !.ip = p]
    BY <1>4, <1>10 DEF AttachMac, AttachProgress
  <2>3. pc'[p] = "return" /\ slot'[i] = v /\ call'[p].status = NX_SUCCESS
    BY <1>3, <1>6, <1>10, <2>1 DEF AttachMac, Locals
  <2>4. v.iface = Mine(p).iface /\ Mine(p).iface = n /\ v.in_use /\ v.ip = p
    BY <2>2 DEF FreeSlot
  <2>5. Whole(i)' /\ Held(n)'
    <3>1. slot'[i].in_use /\ slot'[i].iface = n /\ slot'[i].ip = IpOf[n]
      BY <1>3, <2>3, <2>4
    <3>2. call'[p].i = call[p].i /\ call'[p].req.iface = call[p].req.iface
      BY <1>2, <1>i
    <3>3. Whole(i)'
      BY <1>3, <3>1, <3>2 DEF Whole
    <3>4. Held(n)'
      BY <1>3, <3>1, <3>2 DEF Held, Holds
    <3> QED
      BY <3>3, <3>4
  <2>6. Progress(p)'
    BY <1>2, <1>5, <2>3, <2>5 DEF Progress, AttachProgress, LookupProgress, OutputProgress,
      CaseLabels, QueryLabels, OutLabels, ResetCommands
  <2> QED
    BY <1>1, <1>3, <1>i, <2>1, <2>4, <2>5, <2>6, OneSlotWritten
<1> QED
  BY <1>7, <1>8, <1>9, <1>10

LEMMA ClearedIsFree == [FreeSlot EXCEPT !.in_use = FALSE] = FreeSlot
<1>1. FreeSlot \in Slot
  BY AddressAssumption DEF FreeSlot, Slot
<1>2. [FreeSlot EXCEPT !.in_use = FALSE] \in Slot
  BY <1>1 DEF Slot
<1>3. FreeSlot.in_use = FALSE
  BY DEF FreeSlot
<1> QED
  BY <1>1, <1>2, <1>3 DEF Slot

(* The memset of a detach.                                                 *)
LEMMA ResetTable ==
  ASSUME CallInv, CallInv', Exclusive, Apart, Table, NEW p \in Ips, ResetInUse(p) \/ ResetRest(p)
  PROVE  Table'
<1> USE DEF Goto, Finish
<1> DEFINE n == call[p].req.iface
           i == call[p].i
<1>1. Step(p) /\ ~Return(p) /\ valid' = valid /\ pc[p] \in ResetLabels
  BY DEF Step, Return, ResetInUse, ResetRest, ResetLabels
<1>2. call'[p].req = call[p].req /\ call[p].req.cmd \in ResetCommands
  BY <1>1, RequestStays, RestructuringStarts
<1>3. i \in Slots /\ Mine(p) \in Slot /\ n \in Ifaces
  BY <1>1, RestructuringStarts DEF ResetLabels
<1>4. LookupProgress(p)
  BY DEF Table
<1>5. slot \in [Slots -> Slot] /\ call \in [Ips -> Locals] /\ pc \in [Ips -> UsedLabels]
  BY DEF CallInv, TypeOK
<1>6. Mine(p).iface = n
  BY <1>4 DEF ResetInUse, ResetRest, LookupProgress, CaseLabels, Holds, Mine
<1>i. call'[p].i = i
  BY <1>5 DEF ResetInUse, ResetRest, Locals
<1>7. CASE ResetInUse(p)
  <2> DEFINE v == [Mine(p) EXCEPT !.in_use = FALSE]
  <2>1. slot' = [slot EXCEPT ![i] = v]
    BY <1>3, <1>5, <1>7 DEF ResetInUse, Mine
  <2>2. v.iface = n /\ ~v.in_use
    BY <1>3, <1>6 DEF Slot
  <2>3. pc'[p] = "reset_rest" /\ Mine(p)' = v
    BY <1>3, <1>5, <1>7, <2>1 DEF ResetInUse, Mine
  <2>4. Progress(p)' /\ Building(p)'
    BY <1>2, <2>2, <2>3 DEF Progress, AttachProgress, LookupProgress, OutputProgress, CaseLabels,
      QueryLabels, OutLabels, Building, ResetCommands
  <2> QED
    BY <1>1, <1>3, <1>6, <1>i, <2>1, <2>2, <2>4, OneSlotWritten
<1>8. CASE ResetRest(p)
  <2>1. Mine(p).in_use = FALSE
    BY <1>3, <1>4, <1>8 DEF ResetRest, LookupProgress, Slot
  <2>2. slot' = [slot EXCEPT ![i] = FreeSlot]
    BY <1>8, <2>1, ClearedIsFree, Zenon DEF ResetRest
  <2>3. pc'[p] = "return" /\ slot'[i] = FreeSlot /\ \A s \in Slots \ {i} : slot'[s] = slot[s]
    BY <1>3, <1>5, <1>8, <2>2 DEF ResetRest
  <2>4. FreeSlot.iface = NoIface /\ ~FreeSlot.in_use
    BY DEF FreeSlot
  <2>5. Whole(i)'
    BY <1>i, <2>3, <2>4 DEF Whole
  <2>6. ~Held(n)'
    BY <1>2, <1>3, <1>6, <2>3, <2>4, InterfaceAssumption DEF Held, Holds, Table, OneSlotEach, Mine
  <2>7. Progress(p)'
    BY <1>2, <2>3, <2>6 DEF Progress, AttachProgress, LookupProgress, OutputProgress, CaseLabels,
      QueryLabels, OutLabels, ResetCommands
  <2> QED
    BY <1>1, <1>3, <1>6, <1>i, <2>2, <2>4, <2>5, <2>7, OneSlotWritten
<1> QED
  BY <1>7, <1>8
-------------------------------------------------------------------------------
(***************************************************************************)
(* The invariant of the table, and what follows from it.                   *)
(***************************************************************************)
LEMMA TableInit == Init => Table
<1> SUFFICES ASSUME Init PROVE Table
  OBVIOUS
<1>1. FreeSlot.iface = NoIface /\ ~FreeSlot.in_use
  BY DEF FreeSlot
<1>2. WholeSlots /\ OneSlotEach /\ ValidHeld
  BY <1>1 DEF Init, WholeSlots, Whole, OneSlotEach, ValidHeld, Held, Holds
<1>3. \A p \in Ips : AttachProgress(p) /\ LookupProgress(p) /\ OutputProgress(p)
  BY DEF Init, AttachProgress, LookupProgress, OutputProgress, CaseLabels, QueryLabels, OutLabels
<1> QED
  BY <1>2, <1>3 DEF Table

LEMMA TableStep ==
  ASSUME CallInv, CallInv', Exclusive, Apart, Table, [Next]_vars
  PROVE  Table'
<1>1. ASSUME NEW p \in Ips, Step(p) PROVE Table'
  BY <1>1, LookupTable, ReturnTable, AttachFindTable, AttachTable, ResetTable, QueryTable,
    SetLookup, SetTable, GroupTable, OutputTable DEF Step
<1>2. CASE UNCHANGED vars
  <2>1. WholeSlots' /\ OneSlotEach'
    BY <1>2 DEF vars, Table, WholeSlots, Whole, Building, OneSlotEach
  <2>2. (\A n : Held(n)' = Held(n) /\ Listed(n)' = Listed(n)) /\ \A p : Mine(p)' = Mine(p)
    BY <1>2 DEF vars, Held, Listed, Holds, Mine
  <2>3. ValidHeld'
    BY <1>2, <2>2 DEF vars, Table, ValidHeld, Restructures
  <2>4. ASSUME NEW p \in Ips PROVE AttachProgress(p)'
    BY <1>2, <2>2 DEF vars, Table, AttachProgress
  <2>5. ASSUME NEW p \in Ips PROVE LookupProgress(p)'
    BY <1>2, <2>2 DEF vars, Table, LookupProgress, Holds
  <2>6. ASSUME NEW p \in Ips PROVE OutputProgress(p)'
    BY <1>2, <2>2 DEF vars, Table, OutputProgress, Holds, Skips
  <2> QED
    BY <2>1, <2>3, <2>4, <2>5, <2>6 DEF Table
<1> QED
  BY <1>1, <1>2, BeginTable DEF Next

LEMMA ApartStays == ASSUME [Next]_vars PROVE Apart' = Apart
  BY DEF Next, vars, Apart, AttachesAlone, OneInstance

LEMMA TableInvariant == Spec => []TableInv
<1>1. Init => TableInv
  BY TableInit DEF TableInv
<1>2. CallInv /\ CallInv' /\ Exclusive /\ TableInv /\ [Next]_vars => TableInv'
  BY TableStep, ApartStays DEF TableInv
<1> QED
  BY <1>1, <1>2, CallInvariant, ExclusiveInvariant, PTL DEF Spec

(* Between attaches and detaches the table is what NetX believes it to be: *)
(* one slot for each attached interface, and nothing left in a free slot   *)
(* for its next owner.                                                     *)
THEOREM TableTheorem == Spec => []TableAgrees
<1>1. CallInv /\ TableInv => TableAgrees
  <2> SUFFICES ASSUME CallInv, TableInv, Quiet PROVE TableAgrees
    BY DEF TableAgrees
  <2>1. Table
    BY DEF TableInv, Apart, Quiet
  <2>2. \A p \in Ips : ~Restructures(p) /\ ~Building(p)
    <3>1. \A p \in Ips : ~Restructures(p)
      BY DEF Quiet, AttachesAlone, Restructures, Restructuring
    <3> QED
      BY <3>1, BuildersRestructure DEF Building, AttachLabels, ResetLabels
  <2>3. \A n \in Ifaces : n \in valid <=> \E s \in Slots : Holds(s, n)
    BY <2>1, <2>2, InterfaceAssumption DEF Table, ValidHeld, Held
  <2>4. \A s \in Slots : Whole(s)
    BY <2>1, <2>2 DEF Table, WholeSlots
  <2> QED
    BY <2>1, <2>3, <2>4, InterfaceAssumption DEF TableAgrees, Table, OneSlotEach, Whole
<1> QED
  BY <1>1, CallInvariant, TableInvariant, PTL

(* The slot that output has picked is attached, and not the sender's.      *)
LEMMA PickedSlot ==
  ASSUME CallInv, Exclusive, Apart, Table, NEW p \in Ips, pc[p] \in OutLabels \ {"out_in_use", "release"}
  PROVE  /\ call[p].i \in Slots
         /\ Mine(p).in_use
         /\ Mine(p).iface \in Ifaces \ {call[p].req.iface}
         /\ Mine(p).ip = IpOf[Mine(p).iface]
         /\ pc[p] # "out_next_ip" => call[p].next = Mine(p).ip
<1>1. Fits(p, pc[p], call[p]) /\ OutputProgress(p) /\ call[p] \in Locals
  BY DEF CallInv, TypeOK, Table
<1>2. call[p].i \in Slots /\ pc[p] # "idle"
  BY <1>1 DEF Fits, PlaceFits, OutLabels, SearchLabels
<1>3. \A q \in Ips : ~Building(q)
  BY <1>2, NobodyBuilds DEF Building, AttachLabels, ResetLabels, OutLabels
<1>4. Whole(call[p].i) /\ ~Skips(p) /\ Holds(call[p].inst, call[p].req.iface) /\ call[p].inst \in Slots
  BY <1>1, <1>2, <1>3 DEF Table, WholeSlots, OutputProgress, Locals
<1>5. Mine(p).in_use /\ Mine(p).iface \in Ifaces /\ Mine(p).ip = IpOf[Mine(p).iface]
  BY <1>4 DEF Whole, Skips, Mine
<1>6. Mine(p).iface # call[p].req.iface
  BY <1>2, <1>4, <1>5, InterfaceAssumption DEF Table, OneSlotEach, Holds, Skips, Mine
<1> QED
  BY <1>1, <1>2, <1>5, <1>6 DEF OutputProgress

LEMMA PickedIsSettled ==
  ASSUME CallInv, Exclusive, Apart, Table PROVE NextIpIsSettled
<1> SUFFICES ASSUME NEW p \in Ips, Copying(p)
             PROVE  Mine(p).in_use /\ Mine(p).ip = call[p].next /\ call[p].next # NoIp
  BY DEF NextIpIsSettled
<1>1. pc[p] \in OutLabels \ {"out_in_use", "release", "out_next_ip"}
  BY DEF Copying, OutLabels
<1> QED
  BY <1>1, PickedSlot, InterfaceAssumption

(* Output copies from the pool of the IP instance in the slot, whatever    *)
(* other calls do between its reads, when attach and detach run alone.     *)
THEOREM SettledTheorem == Spec => []SettledWhenAlone
<1>1. CallInv /\ Exclusive /\ TableInv => SettledWhenAlone
  BY PickedIsSettled DEF SettledWhenAlone, TableInv, Apart
<1> QED
  BY <1>1, CallInvariant, ExclusiveInvariant, TableInvariant, PTL

(* With a single IP instance the same holds whatever its callers do: NetX  *)
(* lets one call at a time into the driver.                                *)
THEOREM OneInstanceSettled ==
  ASSUME \A p, q \in Ips : p = q PROVE Spec => []NextIpIsSettled
<1>1. CallInv /\ Exclusive /\ TableInv => NextIpIsSettled
  BY PickedIsSettled DEF TableInv, Apart, OneInstance
<1> QED
  BY <1>1, CallInvariant, ExclusiveInvariant, TableInvariant, PTL
-------------------------------------------------------------------------------
(***************************************************************************)
(* What a send has handed to NetX.                                         *)
(***************************************************************************)
Delivers(p) == Receive(p) \/ ReceiveMulticast(p)

LEMMA DeliveredKept ==
  ASSUME CallInv, NEW p \in Ips, Step(p), ~Return(p), ~Delivers(p)
  PROVE  call'[p].delivered = call[p].delivered
<1> USE DEF CallInv, TypeOK, Goto, Finish, Locals
<1>1. CASE LookupHit(p) \/ LookupNext(p) \/ LookupMiss(p) \/ AttachFind(p) \/ AttachFull(p)
  BY <1>1 DEF LookupHit, LookupNext, LookupMiss, AttachFind, AttachFull
<1>2. CASE AttachInUse(p) \/ AttachIface(p) \/ AttachIp(p) \/ AttachMac(p) \/ ResetInUse(p) \/ ResetRest(p)
  BY <1>2 DEF AttachInUse, AttachIface, AttachIp, AttachMac, ResetInUse, ResetRest
<1>3. CASE Initialize(p) \/ Enable(p) \/ Disable(p) \/ GetStatus(p) \/ GetCount(p)
           \/ GetInterfaceType(p) \/ DeferredProcessing(p) \/ Unhandled(p)
  BY <1>3 DEF Initialize, Enable, Disable, GetStatus, GetCount, GetInterfaceType,
    DeferredProcessing, Unhandled
<1>4. CASE SetAddress(p) \/ SetAddressNext(p) \/ SetAddressHit(p) \/ SetAddressMiss(p)
  BY <1>4 DEF SetAddress, SetAddressNext, SetAddressHit, SetAddressMiss
<1>5. CASE Join(p) \/ JoinFull(p) \/ Leave(p) \/ LeaveMiss(p)
  BY <1>5 DEF Join, JoinFull, Leave, LeaveMiss, SkipEntry, WriteEntry
<1>6. CASE Send(p) \/ OutSkip(p) \/ OutPick(p) \/ OutNextIp(p)
  BY <1>6 DEF Send, OutSkip, OutPick, OutNextIp
<1>7. CASE OutMatch(p) \/ MulticastMatch(p) \/ MulticastEnd(p) \/ OutEnd(p) \/ Release(p)
  BY <1>7 DEF OutMatch, MulticastMatch, MulticastEnd, SkipEntry, OutEnd, Release
<1>8. CASE CopyMade(p) \/ CopyFails(p) \/ CopyFaults(p)
  BY <1>8 DEF CopyMade, CopyFails, CopyFaults, Copying
<1> QED
  BY <1>1, <1>2, <1>3, <1>4, <1>5, <1>6, <1>7, <1>8 DEF Step, Delivers

LEMMA Delivered ==
  ASSUME CallInv, NEW p \in Ips, Delivers(p)
  PROVE  /\ call'[p].delivered = Append(call[p].delivered, Delivery(p))
         /\ call'[p].req = call[p].req
         /\ call[p].delivered \in Seq(Deliveries)
         /\ slot' = slot
<1> USE DEF CallInv, TypeOK, Locals
<1>1. CASE Receive(p)
  BY <1>1 DEF Receive
<1>2. CASE ReceiveMulticast(p)
  BY <1>2 DEF ReceiveMulticast
<1> QED
  BY <1>1, <1>2 DEF Delivers

LEMMA OwnersStep ==
  ASSUME CallInv, CallInv', Exclusive, Apart, Table, \A p \in Ips : OwnersOnly(p), [Next]_vars
  PROVE  \A p \in Ips : OwnersOnly(p)'
<1>1. ASSUME NEW p, call'[p].delivered = call[p].delivered, call'[p].req = call[p].req, OwnersOnly(p)
      PROVE  OwnersOnly(p)'
  BY <1>1 DEF OwnersOnly
<1>2. ASSUME NEW p, call'[p].delivered = << >> PROVE OwnersOnly(p)'
  BY <1>2 DEF OwnersOnly
<1>3. ASSUME NEW p \in Ips, Step(p) \/ \E r \in Requests : Call(p, r)
      PROVE  \A q \in Ips \ {p} : OwnersOnly(q)'
  BY <1>1, <1>3, OneCallOnly
<1>4. ASSUME NEW p \in Ips, NEW r \in Requests, Call(p, r) PROVE OwnersOnly(p)'
  <2>1. call'[p].delivered = << >>
    BY <1>4 DEF Call, Fresh, CallInv, TypeOK
  <2> QED
    BY <1>2, <2>1
<1>5. ASSUME NEW p \in Ips, Return(p) PROVE OwnersOnly(p)'
  <2>1. call'[p].delivered = << >>
    BY <1>5 DEF Return, Idle, Fresh, CallInv, TypeOK
  <2> QED
    BY <1>2, <2>1
<1>6. ASSUME NEW p \in Ips, Step(p), ~Return(p), ~Delivers(p) PROVE OwnersOnly(p)'
  BY <1>1, <1>6, DeliveredKept, RequestStays
<1>7. ASSUME NEW p \in Ips, Delivers(p) PROVE OwnersOnly(p)'
  <2>1. pc[p] \in {"out_receive", "mcast_receive"}
    BY <1>7 DEF Delivers, Receive, ReceiveMulticast
  <2>2. /\ Delivery(p).iface \in Ifaces \ {call[p].req.iface}
        /\ Delivery(p).ip = IpOf[Delivery(p).iface]
        /\ Delivery(p).queue = Queue(EtherType(call[p].req))
    BY <2>1, PickedSlot DEF Delivery, OutLabels
  <2> DEFINE old == call[p].delivered
             new == Append(old, Delivery(p))
  <2>3. call'[p].delivered = new /\ call'[p].req = call[p].req /\ old \in Seq(Deliveries)
    BY <1>7, Delivered
  <2>4. ASSUME NEW k \in DOMAIN new
        PROVE  new[k] = Delivery(p) \/ (k \in DOMAIN old /\ new[k] = old[k])
    BY <2>3
  <2> QED
    BY <2>2, <2>3, <2>4 DEF OwnersOnly
<1>8. CASE UNCHANGED vars
  BY <1>1, <1>8 DEF vars
<1> QED
  BY <1>3, <1>4, <1>5, <1>6, <1>7, <1>8 DEF Next

LEMMA OwnersInvariant == Spec => []OwnersInv
<1>1. Init => OwnersInv
  BY DEF Init, OwnersInv, OwnersOnly, Idle, Fresh
<1>2. CallInv /\ CallInv' /\ Exclusive /\ TableInv /\ OwnersInv /\ [Next]_vars => OwnersInv'
  BY OwnersStep, ApartStays DEF TableInv, OwnersInv
<1> QED
  BY <1>1, <1>2, CallInvariant, ExclusiveInvariant, TableInvariant, PTL DEF Spec

(* No copy of a frame goes astray: each is for the owner of the interface  *)
(* it is marked with, on the right queue, and none goes back to the sender.*)
THEOREM DeliveredTheorem == Spec => []DeliveredToOwners
<1>1. OwnersInv => DeliveredToOwners
  BY DEF OwnersInv, OwnersOnly, DeliveredToOwners, Apart
<1> QED
  BY <1>1, OwnersInvariant, PTL
-------------------------------------------------------------------------------
(***************************************************************************)
(* The walk of a send over the table.                                      *)
(***************************************************************************)
LEMMA NoCopies == \A n : Copies(<< >>, n) = 0
<1> SUFFICES ASSUME NEW n PROVE Copies(<< >>, n) = 0
  OBVIOUS
<1>1. {k \in DOMAIN << >> : << >>[k].iface = n} = {}
  OBVIOUS
<1> QED
  BY <1>1, FS_EmptySet DEF Copies

LEMMA CopiesAppended ==
  ASSUME NEW d \in Seq(Deliveries), NEW x \in Deliveries, NEW n
  PROVE  /\ x.iface = n => Copies(Append(d, x), n) = Copies(d, n) + 1
         /\ x.iface # n => Copies(Append(d, x), n) = Copies(d, n)
<1> DEFINE old == {k \in DOMAIN d : d[k].iface = n}
           new == {k \in DOMAIN Append(d, x) : Append(d, x)[k].iface = n}
<1>1. Len(d) \in Nat /\ DOMAIN d = 1 .. Len(d) /\ DOMAIN Append(d, x) = 1 .. Len(d) + 1
  OBVIOUS
<1>2. IsFiniteSet(old)
  <2>1. IsFiniteSet(1 .. Len(d))
    BY <1>1, FS_Interval
  <2> QED
    BY <1>1, <2>1, FS_Subset
<1>3. Append(d, x)[Len(d) + 1] = x /\ \A k \in 1 .. Len(d) : Append(d, x)[k] = d[k]
  BY <1>1
<1>4. Len(d) + 1 \notin old
  BY <1>1
<1>5. ASSUME x.iface = n PROVE Copies(Append(d, x), n) = Copies(d, n) + 1
  <2>1. new = old \cup {Len(d) + 1}
    BY <1>1, <1>3, <1>5
  <2> QED
    BY <1>2, <1>4, <2>1, FS_AddElement DEF Copies
<1>6. ASSUME x.iface # n PROVE Copies(Append(d, x), n) = Copies(d, n)
  <2>1. new = old
    BY <1>1, <1>3, <1>6
  <2> QED
    BY <2>1 DEF Copies
<1> QED
  BY <1>5, <1>6

(* A call that neither attaches nor detaches leaves every slot its owner,  *)
(* and gives a slot another address only by SET_PHYSICAL_ADDRESS.          *)
LEMMA PlainWrites ==
  ASSUME CallInv, Exclusive, Apart, Table, NEW q \in Ips, Step(q),
         pc[q] \notin AttachLabels \cup ResetLabels
  PROVE  /\ SameOwners
         /\ \A s \in Slots :
              slot'[s].mac = slot[s].mac \/ (SetAddressHit(q) /\ slot'[s].mac = Dst(q))
<1> USE DEF Finish
<1>1. CASE SetAddressHit(q)
  <2>1. \A s \in Slots : slot'[s].mac = slot[s].mac \/ slot'[s].mac = Dst(q)
    BY <1>1 DEF SetAddressHit, CallInv, TypeOK, Slot
  <2> QED
    BY <1>1, <2>1, SetOwners
<1>2. CASE \E a : WriteEntry(q, a) /\ (Join(q) \/ Leave(q))
  BY <1>2, GroupOwners DEF Join, Leave
<1>3. CASE slot' = slot
  BY <1>3 DEF SameOwners
<1>4. ASSUME AttachInUse(q) \/ AttachIface(q) \/ AttachIp(q) \/ AttachMac(q)
             \/ ResetInUse(q) \/ ResetRest(q)
      PROVE  FALSE
  BY <1>4 DEF AttachInUse, AttachIface, AttachIp, AttachMac, ResetInUse, ResetRest,
    AttachLabels, ResetLabels
<1>5. CASE Join(q) \/ Leave(q)
  BY <1>2, <1>3, <1>5 DEF Join, Leave, SkipEntry
<1>6. CASE LookupHit(q) \/ LookupNext(q) \/ LookupMiss(q) \/ Return(q) \/ AttachFind(q) \/ AttachFull(q)
           \/ Initialize(q) \/ Enable(q) \/ Disable(q) \/ GetStatus(q) \/ GetCount(q)
           \/ GetInterfaceType(q) \/ DeferredProcessing(q) \/ Unhandled(q)
           \/ SetAddress(q) \/ SetAddressNext(q) \/ SetAddressMiss(q) \/ JoinFull(q) \/ LeaveMiss(q)
  BY <1>3, <1>6 DEF LookupHit, LookupNext, LookupMiss, Return, AttachFind, AttachFull, Initialize,
    Enable, Disable, GetStatus, GetCount, GetInterfaceType, DeferredProcessing, Unhandled,
    SetAddress, SetAddressNext, SetAddressMiss, JoinFull, LeaveMiss
<1>7. CASE Send(q) \/ OutSkip(q) \/ OutPick(q) \/ OutNextIp(q) \/ OutMatch(q)
           \/ MulticastMatch(q) \/ MulticastEnd(q) \/ CopyMade(q) \/ CopyFails(q) \/ CopyFaults(q)
           \/ Receive(q) \/ ReceiveMulticast(q) \/ OutEnd(q) \/ Release(q)
  BY <1>3, <1>7 DEF Send, OutSkip, OutPick, OutNextIp, OutMatch, MulticastMatch, MulticastEnd,
    SkipEntry, CopyMade, CopyFails, CopyFaults, Receive, ReceiveMulticast, OutEnd, Release
<1> QED
  BY <1>1, <1>4, <1>5, <1>6, <1>7 DEF Step

(* Other calls do not disturb a walk.                                      *)
LEMMA WalkOther ==
  ASSUME CallInv, Exclusive, Apart, Table, NEW p \in Ips, NEW q \in Ips \ {p},
         Step(q) \/ \E r \in Requests : Call(q, r), UNCHANGED scenario,
         AddressSettled(p), WalkedSoFar(p)
  PROVE  WalkedSoFar(p)'
<1> SUFFICES ASSUME pc'[p] \in OutLabels, NEW s \in Slots, slot'[s].in_use,
                    slot'[s].iface # call'[p].req.iface
             PROVE  Reached(p, s)'
  BY DEF WalkedSoFar
<1>1. pc'[p] = pc[p] /\ call'[p] = call[p]
  BY OneCallOnly
<1>2. pc[p] \in OutLabels /\ pc[p] # "idle"
  BY <1>1 DEF OutLabels
<1>3. CASE \E r \in Requests : Call(q, r)
  <2>1. slot' = slot
    BY <1>3 DEF Call
  <2> QED
    BY <1>1, <1>2, <2>1 DEF WalkedSoFar, Reached, Meant, Comparing, Dst
<1>4. CASE Step(q)
  <2>1. pc[q] \notin AttachLabels \cup ResetLabels
    BY <1>2, NobodyBuilds
  <2>2. /\ SameOwners
        /\ slot'[s].mac = slot[s].mac \/ (SetAddressHit(q) /\ slot'[s].mac = Dst(q))
    BY <1>4, <2>1, PlainWrites
  <2>3. SetAddressHit(q) => Dst(q) # Dst(p)
    <3> SUFFICES ASSUME SetAddressHit(q) PROVE Dst(q) # Dst(p)
      OBVIOUS
    <3>1. pc[q] = "set_find" /\ Fits(q, pc[q], call[q])
      BY DEF SetAddressHit, CallInv
    <3>2. call[q].req \in scenario.asks /\ call[q].req.cmd = "SET_PHYSICAL_ADDRESS"
      BY <3>1 DEF Fits, RequestFits, SetLabels
    <3>3. "SET_PHYSICAL_ADDRESS" \notin scenario.alone
      BY <1>2, <3>1, <3>2 DEF Exclusive
    <3> QED
      BY <3>2, <3>3 DEF AddressSettled, Dst
  <2>4. Meant(p, s)' => Meant(p, s)
    BY <1>1, <2>2, <2>3 DEF Meant, Dst
  <2>5. slot'[s].in_use = slot[s].in_use /\ slot'[s].iface = slot[s].iface
    BY <2>2 DEF SameOwners
  <2>6. Reached(p, s)
    BY <1>1, <1>2, <2>5 DEF WalkedSoFar
  <2> QED
    BY <1>1, <2>4, <2>5, <2>6 DEF Reached, Comparing
<1> QED
  BY <1>3, <1>4

Walks(p) ==
  \/ OutSkip(p) \/ OutPick(p) \/ OutNextIp(p) \/ OutMatch(p) \/ MulticastMatch(p)
  \/ MulticastEnd(p) \/ CopyMade(p) \/ Receive(p) \/ ReceiveMulticast(p) \/ OutEnd(p)

(* A step of output itself.                                                *)
LEMMA WalkOwn ==
  ASSUME CallInv, Exclusive, Apart, Table, NEW p \in Ips, Walks(p), WalkedSoFar(p)
  PROVE  WalkedSoFar(p)'
<1> USE DEF Goto
<1>1. Step(p) /\ ~Return(p) /\ slot' = slot /\ pc[p] \in OutLabels
  BY DEF Walks, Step, Return, OutSkip, OutPick, OutNextIp, OutMatch, MulticastMatch, MulticastEnd,
    SkipEntry, CopyMade, Copying, Receive, ReceiveMulticast, OutEnd, OutLabels
<1>2. call'[p].req = call[p].req
  BY <1>1, RequestStays
<1>3. call[p] \in Locals /\ call \in [Ips -> Locals] /\ pc \in [Ips -> UsedLabels]
  BY DEF CallInv, TypeOK
<1>i. call[p].i \in Nat
  BY <1>3 DEF Locals
<1> SUFFICES ASSUME NEW s \in Slots, slot[s].in_use, slot[s].iface # call[p].req.iface
             PROVE  Reached(p, s)'
  BY <1>1, <1>2 DEF WalkedSoFar
<1>4. Reached(p, s)
  BY <1>1 DEF WalkedSoFar
<1>5. Meant(p, s)' = Meant(p, s) /\ slot'[s].iface = slot[s].iface /\ s \in Nat
  BY <1>1, <1>2 DEF Meant, Dst, Slots
<1>6. ~Delivers(p) => call'[p].delivered = call[p].delivered
  BY <1>1, DeliveredKept
<1>7. CASE OutSkip(p)
  <2>1. call'[p].i = call[p].i + 1 /\ pc[p] = "out_in_use" /\ pc'[p] = "out_in_use" /\ Skips(p)
    BY <1>7, <1>3 DEF OutSkip, Locals
  <2>2. s # call[p].i
    BY <1>1, <2>1 DEF Table, OutputProgress, Skips, Holds, Mine
  <2>3. ~Delivers(p)
    BY <2>1 DEF Delivers, Receive, ReceiveMulticast
  <2> QED
    BY <1>4, <1>5, <1>6, <1>i, <2>1, <2>2, <2>3 DEF Reached, Comparing, McastLabels
<1>8. CASE OutPick(p) \/ OutNextIp(p) \/ CopyMade(p) \/ OutEnd(p)
  <2>1. call'[p].i = call[p].i
    BY <1>8, <1>3 DEF OutPick, OutNextIp, CopyMade, OutEnd, Locals
  <2>2. pc'[p] \in McastLabels <=> pc[p] \in McastLabels
    BY <1>8, <1>3 DEF OutPick, OutNextIp, CopyMade, Copying, OutEnd, McastLabels
  <2>3. ~Delivers(p)
    BY <1>8 DEF OutPick, OutNextIp, CopyMade, Copying, OutEnd, Delivers, Receive, ReceiveMulticast
  <2> QED
    BY <1>4, <1>5, <1>6, <2>1, <2>2, <2>3 DEF Reached, Comparing
<1>9. CASE OutMatch(p)
  <2>1. call'[p].i = call[p].i /\ pc[p] = "out_match"
    BY <1>9, <1>3 DEF OutMatch, Locals
  <2>2. pc'[p] \in McastLabels => ~Accepts(p)
    BY <1>9, <1>3 DEF OutMatch, McastLabels
  <2>3. s = call[p].i => (Meant(p, s) <=> Accepts(p))
    BY DEF Meant, Accepts, Mine
  <2>4. ~Delivers(p)
    BY <2>1 DEF Delivers, Receive, ReceiveMulticast
  <2> QED
    BY <1>4, <1>5, <1>6, <2>1, <2>2, <2>3, <2>4 DEF Reached, Comparing, McastLabels
<1>10. CASE MulticastMatch(p)
  <2>1. call'[p].i = call[p].i /\ pc[p] = "mcast_match" /\ pc'[p] \in McastLabels
    BY <1>10, <1>3 DEF MulticastMatch, SkipEntry, Locals, McastLabels
  <2>2. ~Delivers(p)
    BY <2>1 DEF Delivers, Receive, ReceiveMulticast
  <2> QED
    BY <1>4, <1>5, <1>6, <2>1, <2>2 DEF Reached, Comparing, McastLabels
<1>11. CASE MulticastEnd(p)
  <2>1. call'[p].i = call[p].i + 1 /\ pc[p] = "mcast_match" /\ pc'[p] = "out_in_use"
    BY <1>11, <1>3 DEF MulticastEnd, Locals
  <2>2. ~Delivers(p)
    BY <2>1 DEF Delivers, Receive, ReceiveMulticast
  <2> QED
    BY <1>4, <1>5, <1>6, <1>i, <2>1, <2>2 DEF Reached, Comparing, McastLabels
<1>12. CASE Delivers(p)
  <2>1. pc[p] \in {"out_receive", "mcast_receive"}
    BY <1>12 DEF Delivers, Receive, ReceiveMulticast
  <2>2. /\ call[p].i \in Slots /\ Mine(p).in_use /\ Mine(p).iface \in Ifaces
    BY <2>1, PickedSlot DEF OutLabels
  <2>3. call'[p].delivered = Append(call[p].delivered, Delivery(p)) /\ call[p].delivered \in Seq(Deliveries)
    BY <1>12, Delivered
  <2>4. Delivery(p) \in Deliveries /\ Delivery(p).iface = slot[call[p].i].iface
    <3>1. Fits(p, pc[p], call[p])
      BY DEF CallInv
    <3>2. call[p].next \in Ips
      BY <2>1, <3>1 DEF Fits, PlaceFits
    <3> QED
      BY <2>2, <3>2, QueueIs DEF Delivery, Deliveries, Mine
  <2>5. s # call[p].i => slot[s].iface # slot[call[p].i].iface
    BY <2>2, InterfaceAssumption DEF Table, OneSlotEach, Mine
  <2> DEFINE was == Copies(call[p].delivered, slot[s].iface)
             is  == Copies(call'[p].delivered, slot'[s].iface)
  <2>6. IF s = call[p].i THEN is = was + 1 ELSE is = was
    BY <1>5, <2>3, <2>4, <2>5, CopiesAppended
  <2>7. CASE Receive(p)
    <3>1. call'[p].i = call[p].i + 1 /\ pc[p] = "out_receive" /\ pc'[p] = "out_in_use"
      BY <2>7, <1>3 DEF Receive, Locals
    <3> QED
      BY <1>4, <1>5, <1>i, <2>6, <3>1 DEF Reached, Comparing, McastLabels
  <2>8. CASE ReceiveMulticast(p)
    <3>1. call'[p].i = call[p].i /\ pc[p] = "mcast_receive" /\ pc'[p] = "mcast_match"
      BY <2>8, <1>3 DEF ReceiveMulticast, Locals
    <3> QED
      BY <1>4, <1>5, <1>i, <2>6, <3>1 DEF Reached, Comparing, McastLabels
  <2> QED
    BY <1>12, <2>7, <2>8 DEF Delivers
<1> QED
  BY <1>7, <1>8, <1>9, <1>10, <1>11, <1>12 DEF Walks, Delivers

(* Nothing else leads into output or back to it.                           *)
LEMMA OutputOnly ==
  ASSUME CallInv, NEW p \in Ips, Step(p), ~Send(p), ~Walks(p) PROVE pc'[p] \notin OutLabels
<1> USE DEF Goto, Finish
<1>c. pc \in [Ips -> UsedLabels] /\ call \in [Ips -> Locals]
  BY DEF CallInv, TypeOK
<1>1. CASE LookupHit(p)
  <2>1. Fits(p, pc[p], call[p])
    BY DEF CallInv
  <2>2. pc'[p] \in CaseLabels
    BY <1>1, <1>c, <2>1, LookupGoesTo, RequestAssumption DEF LookupHit, Fits, RequestFits, Request
  <2> QED
    BY <2>2 DEF CaseLabels, QueryLabels, OutLabels
<1>2. CASE LookupNext(p) \/ LookupMiss(p) \/ Return(p) \/ AttachFind(p) \/ AttachFull(p)
           \/ AttachInUse(p) \/ AttachIface(p) \/ AttachIp(p) \/ AttachMac(p)
           \/ ResetInUse(p) \/ ResetRest(p)
  BY <1>2, <1>c DEF LookupNext, LookupMiss, Return, AttachFind, AttachFull, AttachInUse,
    AttachIface, AttachIp, AttachMac, ResetInUse, ResetRest, OutLabels
<1>3. CASE Initialize(p) \/ Enable(p) \/ Disable(p) \/ GetStatus(p) \/ GetCount(p)
           \/ GetInterfaceType(p) \/ DeferredProcessing(p) \/ Unhandled(p)
  BY <1>3, <1>c DEF Initialize, Enable, Disable, GetStatus, GetCount, GetInterfaceType,
    DeferredProcessing, Unhandled, OutLabels
<1>4. CASE SetAddress(p) \/ SetAddressNext(p) \/ SetAddressHit(p) \/ SetAddressMiss(p)
           \/ Join(p) \/ JoinFull(p) \/ Leave(p) \/ LeaveMiss(p)
  BY <1>4, <1>c DEF SetAddress, SetAddressNext, SetAddressHit, SetAddressMiss, Join, JoinFull,
    Leave, LeaveMiss, WriteEntry, SkipEntry, OutLabels
<1>5. CASE CopyFails(p) \/ CopyFaults(p) \/ Release(p)
  BY <1>5, <1>c DEF CopyFails, CopyFaults, Release, OutLabels
<1> QED
  BY <1>1, <1>2, <1>3, <1>4, <1>5 DEF Step, Walks

(* A walk starts with nothing delivered.                                   *)
LEMMA SendStarts ==
  ASSUME CallInv, NEW p \in Ips, Send(p), NothingYet(p)
  PROVE  pc'[p] = "out_in_use" /\ call'[p].i = 0 /\ call'[p].delivered = << >>
  BY DEF Send, Goto, Locals, NothingYet, PacketLabels, OutLabels, CallInv, TypeOK

LEMMA WalkOwnStep ==
  ASSUME CallInv, Exclusive, Apart, Table, NEW p \in Ips, Step(p), NothingYet(p), WalkedSoFar(p)
  PROVE  WalkedSoFar(p)'
<1>1. CASE Walks(p)
  BY <1>1, WalkOwn
<1>2. CASE Send(p)
  BY <1>2, SendStarts, NoCopies DEF WalkedSoFar, Reached, Comparing, McastLabels, Slots
<1>3. CASE ~Walks(p) /\ ~Send(p)
  BY <1>3, OutputOnly DEF WalkedSoFar
<1> QED
  BY <1>1, <1>2, <1>3

LEMMA NothingYetOwn ==
  ASSUME CallInv, NEW p \in Ips, Step(p) \/ (\E r \in Requests : Call(p, r)), NothingYet(p)
  PROVE  NothingYet(p)'
<1>c. pc \in [Ips -> UsedLabels] /\ call \in [Ips -> Locals]
  BY DEF CallInv, TypeOK
<1>1. CASE \E r \in Requests : Call(p, r)
  BY <1>1, <1>c DEF Call, NothingYet, Fresh
<1>2. CASE Return(p)
  BY <1>2, <1>c DEF Return, NothingYet, Idle, Fresh
<1>3. CASE Delivers(p)
  BY <1>3, <1>c DEF Delivers, Receive, ReceiveMulticast, NothingYet, PacketLabels, OutLabels, Goto
<1>4. CASE Step(p) /\ ~Return(p) /\ ~Delivers(p)
  <2>1. call'[p].delivered = call[p].delivered
    BY <1>4, DeliveredKept
  <2>2. pc[p] \notin PacketLabels \cup {"return"} \/ pc'[p] \in PacketLabels \cup {"return"}
    <3> USE DEF Goto, Finish
    <3>1. CASE CopyFails(p) \/ CopyFaults(p) \/ Release(p)
      BY <3>1, <1>c DEF CopyFails, CopyFaults, Release, PacketLabels
    <3>2. CASE Walks(p)
      BY <3>2, <1>c DEF Walks, OutSkip, OutPick, OutNextIp, OutMatch, MulticastMatch, MulticastEnd,
        SkipEntry, CopyMade, Copying, Receive, ReceiveMulticast, OutEnd, PacketLabels, OutLabels
    <3>3. CASE LookupHit(p) \/ LookupNext(p) \/ LookupMiss(p) \/ AttachFind(p) \/ AttachFull(p)
               \/ AttachInUse(p) \/ AttachIface(p) \/ AttachIp(p) \/ AttachMac(p)
               \/ ResetInUse(p) \/ ResetRest(p)
      BY <3>3 DEF LookupHit, LookupNext, LookupMiss, AttachFind, AttachFull, AttachInUse,
        AttachIface, AttachIp, AttachMac, ResetInUse, ResetRest, PacketLabels, OutLabels
    <3>4. CASE Initialize(p) \/ Enable(p) \/ Disable(p) \/ GetStatus(p) \/ GetCount(p)
               \/ GetInterfaceType(p) \/ DeferredProcessing(p) \/ Unhandled(p)
      BY <3>4 DEF Initialize, Enable, Disable, GetStatus, GetCount, GetInterfaceType,
        DeferredProcessing, Unhandled, PacketLabels, OutLabels
    <3>5. CASE SetAddress(p) \/ SetAddressNext(p) \/ SetAddressHit(p) \/ SetAddressMiss(p)
               \/ Join(p) \/ JoinFull(p) \/ Leave(p) \/ LeaveMiss(p) \/ Send(p)
      BY <3>5 DEF SetAddress, SetAddressNext, SetAddressHit, SetAddressMiss, Join, JoinFull,
        Leave, LeaveMiss, Send, PacketLabels, OutLabels
    <3> QED
      BY <1>4, <3>1, <3>2, <3>3, <3>4, <3>5 DEF Step, Walks
  <2> QED
    BY <2>1, <2>2 DEF NothingYet
<1> QED
  BY <1>1, <1>2, <1>3, <1>4

LEMMA WalkStep ==
  ASSUME CallInv, CallInv', Exclusive, Apart, Table, WalkInv, [Next]_vars
  PROVE  WalkInv'
<1>1. ASSUME NEW p \in Ips PROVE NothingYet(p) /\ (AddressSettled(p) => WalkedSoFar(p))
  BY DEF WalkInv
<1>2. ASSUME NEW p \in Ips, UNCHANGED <<slot, pc, call, scenario>>
      PROVE  NothingYet(p)' /\ (AddressSettled(p)' => WalkedSoFar(p)')
  BY <1>1, <1>2 DEF NothingYet, AddressSettled, WalkedSoFar, Reached, Meant, Comparing, Dst
<1>3. ASSUME NEW p \in Ips, NEW q \in Ips \ {p}, Step(q) \/ (\E r \in Requests : Call(q, r)),
             UNCHANGED scenario
      PROVE  NothingYet(p)' /\ (AddressSettled(p)' => WalkedSoFar(p)')
  <2>1. pc'[p] = pc[p] /\ call'[p] = call[p]
    BY <1>3, OneCallOnly
  <2>2. NothingYet(p)' /\ (AddressSettled(p)' => AddressSettled(p))
    BY <1>1, <1>3, <2>1 DEF NothingYet, AddressSettled, Dst
  <2> QED
    BY <1>1, <1>3, <2>2, WalkOther
<1>4. ASSUME NEW p \in Ips, Step(p) \/ (\E r \in Requests : Call(p, r)), UNCHANGED scenario
      PROVE  NothingYet(p)' /\ (AddressSettled(p)' => WalkedSoFar(p)')
  <2>1. NothingYet(p)'
    BY <1>1, <1>4, NothingYetOwn
  <2>2. CASE (\E r \in Requests : Call(p, r)) \/ Return(p)
    <3>1. pc'[p] \notin OutLabels
      BY <2>2 DEF Call, Return, Goto, CallInv, TypeOK, OutLabels
    <3> QED
      BY <2>1, <3>1 DEF WalkedSoFar
  <2>3. CASE Step(p) /\ ~Return(p)
    <3>1. call'[p].req = call[p].req
      BY <2>3, RequestStays
    <3>2. AddressSettled(p)' => AddressSettled(p)
      BY <1>4, <3>1 DEF AddressSettled, Dst
    <3> QED
      BY <1>1, <2>1, <2>3, <3>2, WalkOwnStep
  <2> QED
    BY <1>4, <2>2, <2>3
<1>5. \A p \in Ips : NothingYet(p)' /\ (AddressSettled(p)' => WalkedSoFar(p)')
  BY <1>2, <1>3, <1>4 DEF Next, vars
<1> QED
  BY <1>5 DEF WalkInv

LEMMA WalkInvariant == Spec => []WalkInv
<1>1. Init => WalkInv
  <2> SUFFICES ASSUME Init, NEW p \in Ips PROVE NothingYet(p) /\ WalkedSoFar(p)
    BY DEF WalkInv
  <2>1. pc[p] = "idle" /\ call[p].delivered = << >>
    BY DEF Init, Idle, Fresh
  <2> QED
    BY <2>1 DEF NothingYet, WalkedSoFar, OutLabels
<1>2. CallInv /\ CallInv' /\ Exclusive /\ TableInv /\ WalkInv /\ [Next]_vars => WalkInv'
  <2> SUFFICES ASSUME CallInv, CallInv', Exclusive, TableInv, WalkInv, [Next]_vars PROVE WalkInv'
    OBVIOUS
  <2>1. CASE Apart
    BY <2>1, WalkStep DEF TableInv
  <2>2. CASE ~Apart
    BY <2>2, ApartStays DEF WalkInv
  <2> QED
    BY <2>1, <2>2
<1> QED
  BY <1>1, <1>2, CallInvariant, ExclusiveInvariant, TableInvariant, PTL DEF Spec

(* A walk that ends by itself has reached every other attached interface   *)
(* the frame was addressed to, once, whatever groups and addresses other   *)
(* calls changed meanwhile.                                                *)
THEOREM ReachesTheorem == Spec => []ReachesAddressees
<1>1. CallInv /\ WalkInv => ReachesAddressees
  <2> SUFFICES ASSUME CallInv, WalkInv, AttachesAlone, NEW p \in Ips, NEW s \in Slots,
                      pc[p] = "release", AddressSettled(p), slot[s].in_use,
                      slot[s].iface # call[p].req.iface, Dst(p) \in Everyone \cup {slot[s].mac}
               PROVE  CopiesFor(p, slot[s].iface) = 1
    BY DEF ReachesAddressees
  <2>1. Reached(p, s)
    BY DEF WalkInv, Apart, WalkedSoFar, OutLabels
  <2>2. Fits(p, pc[p], call[p])
    BY DEF CallInv
  <2>3. s < call[p].i
    BY <2>2, SizeAssumption DEF Fits, PlaceFits, Slots
  <2> QED
    BY <2>1, <2>3 DEF Reached, Meant, CopiesFor, Copies
<1> QED
  BY <1>1, CallInvariant, WalkInvariant, PTL

-------------------------------------------------------------------------------
(***************************************************************************)
(* The driver of one IP instance implements the virtual Ethernet.          *)
(***************************************************************************)

(* No request is about the group with the zero address, the mark of a free *)
(* entry: NetX makes the address of a group, which starts with 01-00-5E.   *)
GroupsNamed ==
  \A r \in Requests : r.cmd \in {"MULTICAST_JOIN", "MULTICAST_LEAVE"} => r.addr # ZeroMac

(* How far the loops of a command have come, and that only a call that is  *)
(* over has an answer.                                                     *)
Searched(p) ==
  LET n == call[p].req.iface
  IN /\ pc[p] = "attach_find" => \A s \in Slots : s < call[p].i => slot[s].in_use
     /\ pc[p] = "set_find" =>
          Held(n) /\ \A s \in Slots : s < call[p].i => slot[s].iface # n
     /\ pc[p] = "lookup" => call[p].m = 0
     /\ pc[p] \in CaseLabels => Case(call[p].req.cmd) = pc[p]
     /\ pc[p] = "MULTICAST_JOIN" => \A e \in Entries : e < call[p].m => Mine(p).mcast[e] # ZeroMac
     /\ pc[p] = "MULTICAST_LEAVE" => \A e \in Entries : e < call[p].m => Mine(p).mcast[e] # Dst(p)
     /\ pc[p] # "return" => call[p].ret = "none"

(* The copies the owner of slot s is to get, and those it has got.         *)
Wanted(p, s) == IF Meant(p, s) THEN 1 ELSE EntriesWith(s, Dst(p))

Passed(p, s) == {e \in Entries : e < call[p].m /\ slot[s].mcast[e] = Dst(p)}

Given(p, s) ==
  IF s < call[p].i THEN Wanted(p, s)
  ELSE IF Comparing(p, s) THEN Cardinality(Passed(p, s)) ELSE 0

Counted(p) ==
  pc[p] \in OutLabels =>
    /\ \A n \in Ifaces :
         ~Listed(n) \/ n = call[p].req.iface => Copies(call[p].delivered, n) = 0
    /\ \A s \in Slots : slot[s].in_use /\ slot[s].iface # call[p].req.iface =>
         Copies(call[p].delivered, slot[s].iface) = Given(p, s)
    /\ pc[p] \in {"out_copy", "out_receive"} => Accepts(p)
    /\ pc[p] \in McastLabels => ~Accepts(p)
    /\ pc[p] \in {"mcast_copy", "mcast_receive"} => Entry(p) = Dst(p)

SegmentInv == OneInstance => \A p \in Ips : Searched(p) /\ Counted(p)

(* All that is known of a state of the driver of one IP instance.          *)
Known ==
  /\ OneInstance /\ CallInv /\ Exclusive /\ Table
  /\ \A p \in Ips : Searched(p) /\ Counted(p) /\ NothingYet(p)

(* Where the mapping puts an interface.                                    *)
PlaceFact ==
  Table => \A n \in Ifaces :
    /\ Attaching(n) \/ ~Listed(n) => Place(n) = NoPlace
    /\ \A s \in Slots : slot[s].iface = n /\ ~Attaching(n) => Place(n) = s

(* The phase of a call without CASE.                                       *)
PhaseFact ==
  \A p \in Ips :
    PhaseOf(p) = IF pc[p] \in PacketLabels THEN "sending"
                 ELSE IF pc[p] = "idle" THEN "idle"
                 ELSE IF pc[p] = "return" THEN "done" ELSE "called"

(* The copies still owed are those wanted and not given.                   *)
OwedFact ==
  Known => \A p \in Ips : \A n \in Ifaces : pc[p] \in OutLabels =>
    /\ Place(n) = NoPlace \/ n = call[p].req.iface => Due(p, n) = 0 /\ Owed(p, n) = 0
    /\ Place(n) # NoPlace /\ n # call[p].req.iface =>
         /\ Place(n) \in Slots
         /\ Due(p, n) = Wanted(p, Place(n))
         /\ Owed(p, n) = Wanted(p, Place(n)) - Given(p, Place(n))
         /\ Owed(p, n) = Due(p, n) - Copies(call[p].delivered, n)

PlaceRange ==
  Table => \A n \in Ifaces :
    Place(n) # NoPlace => Place(n) \in Slots /\ slot[Place(n)].iface = n

(* The step is not seen in the table of the virtual Ethernet.              *)
SameTable == UNCHANGED <<Places, IfaceMacs, Memberships, Rooms>>

(* The commands that a switch case is for.                                 *)
LEMMA CaseOf ==
  ASSUME NEW cmd \in Commands
  PROVE  /\ Case(cmd) = "GET_COUNT" => cmd \in CountCommands
         /\ Case(cmd) \notin {"GET_COUNT", "PACKET_SEND", "INTERFACE_DETACH"} => cmd = Case(cmd)
<1>1. cmd \in SendCommands \/ cmd \in ResetCommands \/ cmd \in CountCommands \/ cmd \in OtherCommands
  BY DEF Commands
<1>2. "GET_COUNT" \notin OtherCommands
  BY DEF OtherCommands
<1> QED
  BY <1>1, <1>2, CaseIs

LEMMA SearchedStep ==
  ASSUME CallInv, Table, NEW p \in Ips, Searched(p), Step(p) \/ \E r \in Requests : Call(p, r)
  PROVE  Searched(p)'
<1> USE DEF Goto, Finish
<1>c. pc \in [Ips -> UsedLabels] /\ call \in [Ips -> Locals] /\ call[p] \in Locals
  BY DEF CallInv, TypeOK
<1>n. call[p].i \in Nat /\ call[p].m \in Nat
  BY <1>c DEF Locals
<1>s. \A s \in Slots : s \in Nat
  BY DEF Slots
<1>e. \A e \in Entries : e \in Nat
  BY DEF Entries
<1>q. ASSUME pc'[p] \notin {"attach_find", "set_find", "lookup"} \cup CaseLabels,
             pc'[p] # "return" => call'[p].ret = call[p].ret, pc[p] # "return"
      PROVE  Searched(p)'
  BY <1>q DEF Searched, CaseLabels, QueryLabels
<1>0. CASE \E r \in Requests : Call(p, r)
  <2>1. call'[p].i = 0 /\ call'[p].m = 0 /\ call'[p].ret = "none" /\ pc'[p] \in {"attach_find", "lookup"}
    BY <1>0, <1>c DEF Call, Fresh
  <2> QED
    BY <1>s, <2>1 DEF Searched, CaseLabels, QueryLabels
<1>1. CASE LookupHit(p)
  <2>1. call'[p] = call[p] /\ slot' = slot /\ pc[p] = "lookup"
    BY <1>1 DEF LookupHit
  <2>2. pc'[p] = Case(call[p].req.cmd)
    BY <1>1, <1>c DEF LookupHit
  <2>3. Fits(p, pc[p], call[p])
    BY DEF CallInv
  <2>4. pc'[p] \in CaseLabels
    BY <2>1, <2>2, <2>3, LookupGoesTo, RequestAssumption DEF Fits, RequestFits, Request
  <2>5. call[p].m = 0 /\ call[p].ret = "none"
    BY <2>1 DEF Searched
  <2> QED
    BY <1>e, <2>1, <2>2, <2>4, <2>5 DEF Searched, CaseLabels, QueryLabels
<1>2. CASE LookupNext(p)
  <2>1. call'[p].m = call[p].m /\ call'[p].ret = call[p].ret /\ pc[p] = "lookup" /\ pc'[p] = "lookup"
    BY <1>2, <1>c DEF LookupNext, Locals
  <2> QED
    BY <2>1 DEF Searched, CaseLabels, QueryLabels
<1>3. CASE Return(p)
  <2>1. call'[p].ret = "none" /\ pc'[p] = "idle"
    BY <1>3, <1>c DEF Return, Idle, Fresh
  <2> QED
    BY <2>1 DEF Searched, CaseLabels, QueryLabels
<1>4. CASE AttachFind(p)
  <2>1. pc[p] = "attach_find" /\ slot' = slot /\ call'[p].ret = call[p].ret
    BY <1>4, <1>c DEF AttachFind, Locals
  <2>2. CASE Mine(p).in_use
    <3>1. pc'[p] = "attach_find" /\ call'[p].i = call[p].i + 1
      BY <1>4, <2>2, <1>c DEF AttachFind, Locals
    <3> QED
      BY <1>n, <1>s, <2>1, <2>2, <3>1 DEF Searched, Mine, CaseLabels, QueryLabels
  <2>3. CASE ~Mine(p).in_use
    <3>1. pc'[p] = "attach_in_use"
      BY <1>4, <2>3, <1>c DEF AttachFind
    <3> QED
      BY <1>q, <2>1, <3>1 DEF CaseLabels, QueryLabels
  <2> QED
    BY <2>2, <2>3
<1>5. CASE SetAddress(p)
  <2>1. /\ pc[p] = "SET_PHYSICAL_ADDRESS" /\ pc'[p] = "set_find" /\ slot' = slot
        /\ call'[p].i = 0 /\ call'[p].ret = call[p].ret /\ call'[p].req = call[p].req
    BY <1>5, <1>c DEF SetAddress, Locals
  <2>2. \E s \in Slots : Holds(s, call[p].req.iface)
    <3>1. Fits(p, pc[p], call[p]) /\ LookupProgress(p)
      BY DEF CallInv, Table
    <3>2. call[p].i \in Slots /\ Holds(call[p].i, call[p].req.iface)
      BY <2>1, <3>1 DEF Fits, PlaceFits, LookupProgress, CaseLabels, SearchLabels
    <3> QED
      BY <3>2
  <2>3. \E s \in Slots : slot'[s].in_use /\ slot'[s].iface = call'[p].req.iface
    BY <2>1, <2>2 DEF Holds
  <2> QED
    BY <1>s, <2>1, <2>3 DEF Searched, Held, Holds, CaseLabels, QueryLabels
<1>6. CASE SetAddressNext(p)
  <2>1. /\ pc[p] = "set_find" /\ pc'[p] = "set_find" /\ slot' = slot
        /\ call'[p].i = call[p].i + 1 /\ call'[p].ret = call[p].ret /\ call'[p].req = call[p].req
        /\ Mine(p).iface # call[p].req.iface
    BY <1>6, <1>c DEF SetAddressNext, Locals
  <2> QED
    BY <1>n, <1>s, <2>1 DEF Searched, Held, Holds, Mine, CaseLabels, QueryLabels
<1>7. CASE SetAddressHit(p) \/ SetAddressMiss(p)
  BY <1>7, <1>c, <1>q DEF SetAddressHit, SetAddressMiss, CaseLabels, QueryLabels
<1>8. CASE Join(p) \/ Leave(p)
  <2>1. CASE SkipEntry(p)
    <3>1. /\ pc'[p] = pc[p] /\ slot' = slot /\ call'[p].m = call[p].m + 1 /\ call'[p].i = call[p].i
          /\ call'[p].ret = call[p].ret /\ call'[p].req = call[p].req
      BY <2>1, <1>c DEF SkipEntry, Locals
    <3>2. CASE Join(p) /\ Entry(p) # ZeroMac
      <4>1. pc[p] = "MULTICAST_JOIN"
        BY <3>2 DEF Join
      <4> QED
        BY <1>n, <1>e, <3>1, <3>2, <4>1 DEF Searched, Entry, Mine
    <3>3. CASE Leave(p) /\ Entry(p) # Dst(p)
      <4>1. pc[p] = "MULTICAST_LEAVE"
        BY <3>3 DEF Leave
      <4> QED
        BY <1>n, <1>e, <3>1, <3>3, <4>1 DEF Searched, Entry, Mine, Dst
    <3>4. ASSUME NEW a, WriteEntry(p, a) PROVE FALSE
      <4>1. pc'[p] = "return"
        BY <3>4, <1>c DEF WriteEntry
      <4> QED
        BY <1>8, <3>1, <4>1 DEF Join, Leave
    <3> QED
      BY <1>8, <3>2, <3>3, <3>4 DEF Join, Leave
  <2>2. ASSUME NEW a, WriteEntry(p, a) PROVE Searched(p)'
    <3>1. pc'[p] = "return"
      BY <2>2, <1>c DEF WriteEntry
    <3> QED
      BY <3>1 DEF Searched, CaseLabels, QueryLabels
  <2> QED
    BY <1>8, <2>1, <2>2 DEF Join, Leave
<1>9. CASE LookupMiss(p) \/ AttachFull(p) \/ AttachInUse(p) \/ AttachIface(p) \/ AttachIp(p)
           \/ AttachMac(p) \/ ResetInUse(p) \/ ResetRest(p)
  BY <1>9, <1>c, <1>q DEF LookupMiss, AttachFull, AttachInUse, AttachIface, AttachIp, AttachMac,
    ResetInUse, ResetRest, CaseLabels, QueryLabels
<1>10. CASE Initialize(p) \/ Enable(p) \/ Disable(p) \/ GetStatus(p) \/ GetCount(p)
           \/ GetInterfaceType(p) \/ DeferredProcessing(p) \/ Unhandled(p) \/ JoinFull(p) \/ LeaveMiss(p)
  <2>1. pc'[p] = "return"
    BY <1>10, <1>c DEF Initialize, Enable, Disable, GetStatus, GetCount, GetInterfaceType,
      DeferredProcessing, Unhandled, JoinFull, LeaveMiss
  <2> QED
    BY <2>1 DEF Searched, CaseLabels, QueryLabels
<1>11. CASE Send(p) \/ OutSkip(p) \/ OutPick(p) \/ OutNextIp(p) \/ OutMatch(p)
           \/ MulticastMatch(p) \/ MulticastEnd(p)
  <2>1. /\ pc[p] # "return" /\ call'[p].ret = call[p].ret
        /\ pc'[p] \notin {"attach_find", "set_find", "lookup"} \cup CaseLabels
    BY <1>11, <1>c DEF Send, OutSkip, OutPick, OutNextIp, OutMatch, MulticastMatch, MulticastEnd,
      SkipEntry, Locals, CaseLabels, QueryLabels
  <2> QED
    BY <1>q, <2>1
<1>12. CASE CopyMade(p) \/ CopyFails(p) \/ CopyFaults(p) \/ Receive(p) \/ ReceiveMulticast(p)
           \/ OutEnd(p) \/ Release(p)
  <2>1. /\ pc[p] # "return" /\ pc'[p] # "return" => call'[p].ret = call[p].ret
        /\ pc'[p] \notin {"attach_find", "set_find", "lookup"} \cup CaseLabels
    BY <1>12, <1>c DEF CopyMade, Copying, CopyFails, CopyFaults, Receive, ReceiveMulticast, OutEnd,
      Release, Locals, CaseLabels, QueryLabels
  <2>2. pc[p] # "return"
    BY <1>12 DEF CopyMade, Copying, CopyFails, CopyFaults, Receive, ReceiveMulticast, OutEnd, Release
  <2> QED
    BY <1>q, <2>1, <2>2
<1> QED
  BY <1>0, <1>1, <1>2, <1>3, <1>4, <1>5, <1>6, <1>7, <1>8, <1>9, <1>10, <1>11, <1>12 DEF Step

(* What a delivery is marked with.                                         *)
LEMMA DeliveryFits ==
  ASSUME CallInv, Exclusive, Apart, Table, NEW p \in Ips, pc[p] \in {"out_receive", "mcast_receive"}
  PROVE  Delivery(p) \in Deliveries /\ Delivery(p).iface = slot[call[p].i].iface
<1>1. call[p].i \in Slots /\ Mine(p).iface \in Ifaces
  BY PickedSlot DEF OutLabels
<1>2. Fits(p, pc[p], call[p])
  BY DEF CallInv
<1>3. call[p].next \in Ips
  BY <1>2 DEF Fits, PlaceFits
<1> QED
  BY <1>1, <1>3, QueueIs DEF Delivery, Deliveries, Mine

LEMMA EntriesFinite ==
  /\ IsFiniteSet(Entries)
  /\ \A S \in SUBSET Entries : IsFiniteSet(S) /\ Cardinality(S) \in Nat
<1>1. IsFiniteSet(Entries)
  BY SizeAssumption, FS_Interval DEF Entries
<1> QED
  BY <1>1, FS_Subset, FS_CardinalityType

(* What an entry adds to the copies that its slot's owner gets.            *)
LEMMA PassedGrows ==
  ASSUME NEW p \in Ips, NEW s \in Slots, slot' = slot, Dst(p)' = Dst(p), HasEntry(p),
         call'[p].m = call[p].m + 1
  PROVE  /\ slot[s].mcast[call[p].m] = Dst(p) =>
              Cardinality(Passed(p, s)') = Cardinality(Passed(p, s)) + 1
         /\ slot[s].mcast[call[p].m] # Dst(p) => Passed(p, s)' = Passed(p, s)
<1>1. call[p].m \in Entries /\ call[p].m \notin Passed(p, s) /\ call[p].m \in Nat
  BY DEF HasEntry, Passed, Entries
<1>2. \A e \in Entries : e < call[p].m + 1 <=> e < call[p].m \/ e = call[p].m
  BY <1>1 DEF Entries
<1>3. Passed(p, s)' = {e \in Entries : e < call[p].m + 1 /\ slot[s].mcast[e] = Dst(p)}
  BY DEF Passed
<1>4. IsFiniteSet(Passed(p, s))
  BY EntriesFinite DEF Passed
<1>5. ASSUME slot[s].mcast[call[p].m] = Dst(p)
      PROVE  Cardinality(Passed(p, s)') = Cardinality(Passed(p, s)) + 1
  <2>1. Passed(p, s)' = Passed(p, s) \cup {call[p].m}
    BY <1>1, <1>2, <1>3, <1>5 DEF Passed
  <2> QED
    BY <1>1, <1>4, <2>1, FS_AddElement
<1>6. ASSUME slot[s].mcast[call[p].m] # Dst(p) PROVE Passed(p, s)' = Passed(p, s)
  BY <1>1, <1>2, <1>3, <1>6 DEF Passed
<1> QED
  BY <1>5, <1>6

LEMMA PassedBounds ==
  ASSUME NEW p \in Ips, NEW s \in Slots, call[p].m \in 0 .. NumEntries
  PROVE  /\ call[p].m = 0 => Cardinality(Passed(p, s)) = 0
         /\ ~HasEntry(p) => Cardinality(Passed(p, s)) = EntriesWith(s, Dst(p))
         /\ HasEntry(p) /\ slot[s].mcast[call[p].m] = Dst(p) =>
              Cardinality(Passed(p, s)) < EntriesWith(s, Dst(p))
<1> DEFINE all == {e \in Entries : slot[s].mcast[e] = Dst(p)}
<1>1. IsFiniteSet(all) /\ Passed(p, s) \subseteq all /\ Cardinality(all) = EntriesWith(s, Dst(p))
  BY EntriesFinite DEF Passed, EntriesWith
<1>2. call[p].m = 0 => Passed(p, s) = {}
  BY DEF Passed, Entries
<1>3. ~HasEntry(p) => Passed(p, s) = all
  BY SizeAssumption DEF Passed, Entries, HasEntry
<1>4. HasEntry(p) /\ slot[s].mcast[call[p].m] = Dst(p) =>
        call[p].m \in all /\ call[p].m \notin Passed(p, s)
  BY DEF HasEntry, Passed, Entries
<1>5. HasEntry(p) /\ slot[s].mcast[call[p].m] = Dst(p) => Cardinality(Passed(p, s)) < Cardinality(all)
  <2>1. ASSUME NEW x \in all, x \notin Passed(p, s) PROVE Cardinality(Passed(p, s)) < Cardinality(all)
    <3>1. Passed(p, s) # all
      BY <2>1
    <3> HIDE DEF all
    <3> QED
      BY <1>1, <3>1, FS_Subset, FS_CardinalityType
  <2> QED
    BY <1>4, <2>1
<1> QED
  BY <1>1, <1>2, <1>3, <1>5, FS_EmptySet

LEMMA CountedWalk ==
  ASSUME CallInv, Exclusive, Apart, Table, NEW p \in Ips, Walks(p), Counted(p)
  PROVE  Counted(p)'
<1> USE DEF Goto
<1>1. Step(p) /\ ~Return(p) /\ slot' = slot /\ pc[p] \in OutLabels
  BY DEF Walks, Step, Return, OutSkip, OutPick, OutNextIp, OutMatch, MulticastMatch, MulticastEnd,
    SkipEntry, CopyMade, Copying, Receive, ReceiveMulticast, OutEnd, OutLabels
<1>2. call'[p].req = call[p].req /\ Dst(p)' = Dst(p)
  BY <1>1, RequestStays DEF Dst
<1>c. call[p] \in Locals /\ call \in [Ips -> Locals] /\ pc \in [Ips -> UsedLabels]
  BY DEF CallInv, TypeOK
<1>i. call[p].i \in Nat /\ call[p].m \in 0 .. NumEntries
  BY <1>c DEF Locals
<1>s. \A s \in Slots : s \in Nat
  BY DEF Slots
<1>3. /\ \A s \in Slots : slot'[s].iface = slot[s].iface /\ Wanted(p, s)' = Wanted(p, s)
      /\ \A n : Listed(n)' = Listed(n)
  BY <1>1, <1>2 DEF Wanted, Meant, EntriesWith, Listed
<1>4. ~Delivers(p) => call'[p].delivered = call[p].delivered
  BY <1>1, DeliveredKept
<1> DEFINE Others(s) == slot[s].in_use /\ slot[s].iface # call[p].req.iface
           Labelled == /\ pc'[p] \in {"out_copy", "out_receive"} => Accepts(p)'
                       /\ pc'[p] \in McastLabels => ~Accepts(p)'
                       /\ pc'[p] \in {"mcast_copy", "mcast_receive"} => Entry(p)' = Dst(p)
<1>a. call'[p].i = call[p].i => Accepts(p)' = Accepts(p) /\ (call'[p].m = call[p].m => Entry(p)' = Entry(p))
  BY <1>1, <1>2 DEF Accepts, Entry, Mine
<1>5. ASSUME ~Delivers(p), Labelled, \A s \in Slots : Others(s) => Given(p, s)' = Given(p, s)
      PROVE  Counted(p)'
  BY <1>1, <1>2, <1>3, <1>4, <1>5 DEF Counted
<1>7. CASE OutSkip(p)
  <2>1. call'[p].i = call[p].i + 1 /\ pc[p] = "out_in_use" /\ pc'[p] = "out_in_use" /\ Skips(p)
    BY <1>7, <1>c DEF OutSkip, Locals
  <2>2. \A s \in Slots : Others(s) => s # call[p].i
    BY <1>1, <2>1 DEF Table, OutputProgress, Skips, Holds, Mine
  <2>3. \A s \in Slots : Others(s) => Given(p, s)' = Given(p, s)
    BY <1>3, <1>i, <1>s, <2>1, <2>2 DEF Given, Comparing, McastLabels
  <2> QED
    BY <1>5, <2>1, <2>3 DEF Delivers, Receive, ReceiveMulticast, McastLabels
<1>8. CASE OutPick(p) \/ OutNextIp(p) \/ CopyMade(p) \/ OutEnd(p)
  <2>1. call'[p].i = call[p].i /\ call'[p].m = call[p].m
    BY <1>8, <1>c DEF OutPick, OutNextIp, CopyMade, OutEnd, Locals
  <2>2. /\ pc'[p] \in McastLabels <=> pc[p] \in McastLabels
        /\ pc'[p] \in {"mcast_copy", "mcast_receive"} => pc[p] = "mcast_copy"
        /\ pc'[p] \in {"out_copy", "out_receive"} => pc[p] = "out_copy"
    BY <1>8, <1>c DEF OutPick, OutNextIp, CopyMade, Copying, OutEnd, McastLabels
  <2>3. \A s \in Slots : Given(p, s)' = Given(p, s)
    BY <1>1, <1>2, <1>3, <2>1, <2>2 DEF Given, Comparing, Passed
  <2>4. Labelled
    BY <1>1, <1>a, <2>1, <2>2 DEF Counted
  <2>5. ~Delivers(p)
    BY <1>8 DEF OutPick, OutNextIp, CopyMade, Copying, OutEnd, Delivers, Receive, ReceiveMulticast
  <2> QED
    BY <1>5, <2>3, <2>4, <2>5
<1>9. CASE OutMatch(p)
  <2>1. call'[p].i = call[p].i /\ call'[p].m = 0 /\ pc[p] = "out_match"
    BY <1>9, <1>c DEF OutMatch, Locals
  <2>2. pc'[p] = IF Accepts(p) THEN "out_copy" ELSE "mcast_match"
    BY <1>9, <1>c DEF OutMatch
  <2>3. ASSUME NEW s \in Slots PROVE Given(p, s)' = Given(p, s)
    <3>1. Passed(p, s)' = {}
      BY <2>1 DEF Passed, Entries
    <3>2. Cardinality(Passed(p, s)') = 0
      BY <3>1, FS_EmptySet
    <3> QED
      BY <1>3, <2>1, <3>2 DEF Given, Comparing, McastLabels
  <2>4. Labelled
    BY <1>a, <2>1, <2>2 DEF McastLabels
  <2> QED
    BY <1>5, <2>1, <2>3, <2>4 DEF Delivers, Receive, ReceiveMulticast
<1>10. CASE MulticastMatch(p)
  <2>1. /\ call'[p].i = call[p].i /\ pc[p] = "mcast_match" /\ HasEntry(p)
        /\ IF Entry(p) = Dst(p) THEN pc'[p] = "mcast_copy" /\ call'[p].m = call[p].m
                                ELSE pc'[p] = "mcast_match" /\ call'[p].m = call[p].m + 1
    BY <1>10, <1>c DEF MulticastMatch, SkipEntry, Locals
  <2>2. ASSUME NEW s \in Slots PROVE Given(p, s)' = Given(p, s)
    <3>1. s = call[p].i => Passed(p, s)' = Passed(p, s)
      <4>1. CASE Entry(p) = Dst(p)
        BY <1>1, <1>2, <2>1, <4>1 DEF Passed
      <4>2. CASE Entry(p) # Dst(p)
        BY <1>1, <1>2, <2>1, <4>2, PassedGrows DEF Entry, Mine
      <4> QED
        BY <4>1, <4>2
    <3> QED
      BY <1>3, <2>1, <3>1 DEF Given, Comparing, McastLabels
  <2>3. Labelled
    BY <1>1, <1>a, <2>1 DEF Counted, McastLabels
  <2> QED
    BY <1>5, <2>1, <2>2, <2>3 DEF Delivers, Receive, ReceiveMulticast
<1>11. CASE MulticastEnd(p)
  <2>1. call'[p].i = call[p].i + 1 /\ pc[p] = "mcast_match" /\ pc'[p] = "out_in_use" /\ ~HasEntry(p)
    BY <1>11, <1>c DEF MulticastEnd, Locals
  <2>2. ASSUME NEW s \in Slots PROVE Given(p, s)' = Given(p, s)
    <3>1. s = call[p].i => ~Meant(p, s)
      BY <1>1, <2>1 DEF Counted, McastLabels, Meant, Accepts, Mine
    <3>2. s = call[p].i => Cardinality(Passed(p, s)) = Wanted(p, s)
      BY <1>i, <2>1, <3>1, PassedBounds DEF Wanted
    <3> QED
      BY <1>3, <1>i, <1>s, <2>1, <3>2 DEF Given, Comparing, McastLabels
  <2>3. ~Delivers(p)
    BY <2>1 DEF Delivers, Receive, ReceiveMulticast
  <2> QED
    BY <1>5, <2>1, <2>2, <2>3 DEF McastLabels
<1>12. CASE Delivers(p)
  <2>1. pc[p] \in {"out_receive", "mcast_receive"}
    BY <1>12 DEF Delivers, Receive, ReceiveMulticast
  <2>2. call[p].i \in Slots /\ Mine(p).in_use /\ Mine(p).iface \in Ifaces \ {call[p].req.iface}
    BY <2>1, PickedSlot DEF OutLabels
  <2>3. call'[p].delivered = Append(call[p].delivered, Delivery(p)) /\ call[p].delivered \in Seq(Deliveries)
    BY <1>12, Delivered
  <2>4. Delivery(p) \in Deliveries /\ Delivery(p).iface = slot[call[p].i].iface
    BY <2>1, <2>2, DeliveryFits
  <2>5. \A s \in Slots : s # call[p].i => slot[s].iface # slot[call[p].i].iface
    BY <2>2, InterfaceAssumption DEF Table, OneSlotEach, Mine
  <2>6. \A n \in Ifaces : ~Listed(n) \/ n = call[p].req.iface => Copies(call'[p].delivered, n) = 0
    <3> SUFFICES ASSUME NEW n \in Ifaces, ~Listed(n) \/ n = call[p].req.iface
                 PROVE  Copies(call'[p].delivered, n) = 0
      OBVIOUS
    <3>1. n # Delivery(p).iface
      BY <2>2, <2>4 DEF Listed, Mine
    <3>2. Copies(call[p].delivered, n) = 0
      BY <1>1 DEF Counted
    <3> QED
      BY <2>3, <2>4, <3>1, <3>2, CopiesAppended
  <2>7. ASSUME NEW s \in Slots, Others(s)
        PROVE  Copies(call'[p].delivered, slot[s].iface) =
                 IF s = call[p].i THEN Given(p, s) + 1 ELSE Given(p, s)
    <3>1. Copies(call[p].delivered, slot[s].iface) = Given(p, s)
      BY <1>1, <2>7 DEF Counted
    <3> QED
      BY <2>3, <2>4, <2>5, <3>1, CopiesAppended
  <2>8. CASE Receive(p)
    <3>1. call'[p].i = call[p].i + 1 /\ pc[p] = "out_receive" /\ pc'[p] = "out_in_use"
      BY <2>8, <1>c DEF Receive, Locals
    <3>2. Wanted(p, call[p].i) = 1
      BY <1>1, <3>1 DEF Counted, Wanted, Meant, Accepts, Mine
    <3>3. ASSUME NEW s \in Slots
          PROVE  Given(p, s)' = IF s = call[p].i THEN Given(p, s) + 1 ELSE Given(p, s)
      BY <1>3, <1>i, <1>s, <3>1, <3>2 DEF Given, Comparing, McastLabels
    <3> QED
      BY <1>1, <1>2, <1>3, <2>6, <2>7, <3>1, <3>3 DEF Counted, McastLabels
  <2>9. CASE ReceiveMulticast(p)
    <3>1. /\ call'[p].i = call[p].i /\ call'[p].m = call[p].m + 1
          /\ pc[p] = "mcast_receive" /\ pc'[p] = "mcast_match"
      BY <2>9, <1>c DEF ReceiveMulticast, Locals
    <3>2. Entry(p) = Dst(p) /\ ~Accepts(p) /\ ~Accepts(p)'
      BY <1>1, <1>a, <3>1 DEF Counted, McastLabels
    <3>3. HasEntry(p)
      <4>1. Fits(p, pc[p], call[p])
        BY DEF CallInv
      <4> QED
        BY <3>1, <4>1 DEF Fits, PlaceFits, HasEntry
    <3>4. Cardinality(Passed(p, call[p].i)') = Cardinality(Passed(p, call[p].i)) + 1
      BY <1>1, <1>2, <2>2, <3>1, <3>2, <3>3, PassedGrows DEF Entry, Mine
    <3>5. ASSUME NEW s \in Slots
          PROVE  Given(p, s)' = IF s = call[p].i THEN Given(p, s) + 1 ELSE Given(p, s)
      BY <1>3, <1>i, <1>s, <3>1, <3>4 DEF Given, Comparing, McastLabels
    <3> QED
      BY <1>1, <1>2, <1>3, <2>6, <2>7, <3>1, <3>2, <3>5 DEF Counted, McastLabels
  <2> QED
    BY <1>12, <2>8, <2>9 DEF Delivers
<1> QED
  BY <1>7, <1>8, <1>9, <1>10, <1>11, <1>12 DEF Walks, Delivers

LEMMA CountedStep ==
  ASSUME CallInv, Exclusive, Apart, Table, NEW p \in Ips, NothingYet(p), Counted(p),
         Step(p) \/ \E r \in Requests : Call(p, r)
  PROVE  Counted(p)'
<1>c. pc \in [Ips -> UsedLabels] /\ call \in [Ips -> Locals]
  BY DEF CallInv, TypeOK
<1>1. CASE Walks(p)
  BY <1>1, CountedWalk
<1>2. CASE Send(p)
  <2>1. /\ pc'[p] = "out_in_use" /\ call'[p].i = 0 /\ call'[p].delivered = << >>
    BY <1>2, SendStarts
  <2>2. \A s \in Slots : Given(p, s)' = 0
    BY <2>1 DEF Given, Comparing, McastLabels, Slots
  <2> QED
    BY <2>1, <2>2, NoCopies DEF Counted, McastLabels
<1>3. CASE Step(p) /\ ~Send(p) /\ ~Walks(p)
  BY <1>3, OutputOnly DEF Counted
<1>4. CASE \E r \in Requests : Call(p, r)
  BY <1>4, <1>c DEF Call, Goto, Counted, OutLabels
<1> QED
  BY <1>1, <1>2, <1>3, <1>4

LEMMA SegmentInvariant == Spec => []SegmentInv
<1>1. Init => SegmentInv
  <2> SUFFICES ASSUME Init, NEW p \in Ips PROVE Searched(p) /\ Counted(p)
    BY DEF SegmentInv
  <2>1. pc[p] = "idle" /\ call[p].ret = "none"
    BY DEF Init, Idle, Fresh
  <2> QED
    BY <2>1 DEF Searched, Counted, OutLabels, CaseLabels, QueryLabels
<1>2. CallInv /\ Exclusive /\ TableInv /\ WalkInv /\ SegmentInv /\ [Next]_vars => SegmentInv'
  <2> SUFFICES ASSUME CallInv, Exclusive, TableInv, WalkInv, SegmentInv, [Next]_vars, OneInstance,
                      NEW p \in Ips
               PROVE  (Searched(p) /\ Counted(p))'
    BY DEF SegmentInv, OneInstance
  <2>1. Apart /\ Table /\ NothingYet(p) /\ Searched(p) /\ Counted(p)
    BY DEF Apart, TableInv, WalkInv, SegmentInv
  <2>2. CASE Step(p) \/ \E r \in Requests : Call(p, r)
    BY <2>1, <2>2, SearchedStep, CountedStep
  <2>3. CASE UNCHANGED vars
    <3>1. Searched(p)'
      BY <2>1, <2>3 DEF vars, Searched, Held, Holds, Mine, Dst
    <3>2. \A s \in Slots : Given(p, s)' = Given(p, s)
      BY <2>3 DEF vars, Given, Wanted, Meant, EntriesWith, Comparing, Passed, Dst
    <3> QED
      BY <2>1, <2>3, <3>1, <3>2 DEF vars, Counted, Listed, Accepts, Entry, Mine, Dst
  <2> QED
    BY <2>2, <2>3 DEF Next, OneInstance
<1> QED
  BY <1>1, <1>2, CallInvariant, ExclusiveInvariant, TableInvariant, WalkInvariant, PTL DEF Spec

(***************************************************************************)
(* The mapping to the virtual Ethernet.                                    *)
(***************************************************************************)
LEMMA KnownInvariant == ASSUME OneInstance PROVE Spec => []Known
<1>1. CallInv /\ Exclusive /\ TableInv /\ WalkInv /\ SegmentInv => Known
  BY DEF Known, TableInv, WalkInv, SegmentInv, Apart
<1> QED
  BY <1>1, CallInvariant, ExclusiveInvariant, TableInvariant, WalkInvariant, SegmentInvariant, PTL

LEMMA PlaceIs == PlaceFact
<1> SUFFICES ASSUME Table, NEW n \in Ifaces
             PROVE  /\ Attaching(n) \/ ~Listed(n) => Place(n) = NoPlace
                    /\ \A s \in Slots : slot[s].iface = n /\ ~Attaching(n) => Place(n) = s
  BY DEF PlaceFact
<1>1. Attaching(n) \/ ~Listed(n) => Place(n) = NoPlace
  BY DEF Place, Listed
<1>2. ASSUME NEW s \in Slots, slot[s].iface = n, ~Attaching(n) PROVE Place(n) = s
  <2>1. \A t \in Slots : slot[t].iface = n => t = s
    BY <1>2, InterfaceAssumption DEF Table, OneSlotEach
  <2>2. Place(n) = CHOOSE t \in Slots : slot[t].iface = n
    BY <1>2 DEF Place
  <2> QED
    BY <1>2, <2>1, <2>2
<1> QED
  BY <1>1, <1>2

LEMMA PlaceIsNext == PlaceFact'
  BY PlaceIs, PTL

LEMMA PhaseIs == PhaseFact
<1> SUFFICES ASSUME NEW p \in Ips
             PROVE  PhaseOf(p) = IF pc[p] \in PacketLabels THEN "sending"
                                 ELSE IF pc[p] = "idle" THEN "idle"
                                 ELSE IF pc[p] = "return" THEN "done" ELSE "called"
  BY DEF PhaseFact
<1>1. "idle" \notin PacketLabels /\ "return" \notin PacketLabels /\ "idle" # "return"
  BY DEF PacketLabels, OutLabels
<1> QED
  BY <1>1, Zenon DEF PhaseOf, PacketLabels

LEMMA PhaseIsNext == PhaseFact'
  BY PhaseIs, PTL

(* Where the interface of a call is that is past the search.               *)
LEMMA CallerPlace ==
  ASSUME Known, NEW p \in Ips, pc[p] # "idle"
  PROVE  /\ call[p].req.iface \in Ifaces /\ call[p].req \in Request
         /\ \A n \in Ifaces :
              Attaching(n) <=> pc[p] \in {"attach_ip", "attach_mac"} /\ call[p].req.iface = n
         /\ pc[p] \in CaseLabels \cup {"reset_rest"} =>
              call[p].i \in Slots /\ Place(call[p].req.iface) = call[p].i
<1>1. Fits(p, pc[p], call[p]) /\ LookupProgress(p)
  BY DEF Known, CallInv, Table
<1>2. call[p].req.iface \in Ifaces /\ call[p].req \in Request
  BY <1>1, RequestAssumption DEF Fits, RequestFits, Request
<1>3. \A n \in Ifaces : IpOf[n] = p
  BY InterfaceAssumption DEF Known, OneInstance
<1>4. \A n \in Ifaces : Attaching(n) <=> pc[p] \in {"attach_ip", "attach_mac"} /\ call[p].req.iface = n
  BY <1>3 DEF Attaching
<1>5. ASSUME pc[p] \in CaseLabels \cup {"reset_rest"}
      PROVE  call[p].i \in Slots /\ Place(call[p].req.iface) = call[p].i
  <2>1. call[p].i \in Slots
    BY <1>1, <1>5 DEF Fits, PlaceFits, CaseLabels, QueryLabels, SearchLabels
  <2>2. slot[call[p].i].iface = call[p].req.iface
    BY <1>1, <1>5 DEF LookupProgress, Holds, Mine
  <2>3. ~Attaching(call[p].req.iface)
    BY <1>2, <1>4, <1>5 DEF CaseLabels, QueryLabels
  <2> QED
    BY <1>2, <2>1, <2>2, <2>3, PlaceIs DEF PlaceFact, Known
<1> QED
  BY <1>2, <1>4, <1>5

(* A listed interface is in use unless it is being attached or detached.   *)
LEMMA ListedIsHeld ==
  ASSUME Known, NEW p \in Ips, ~Building(p), NEW s \in Slots, slot[s].iface \in Ifaces
  PROVE  slot[s].in_use
<1>1. \A q \in Ips : ~Building(q)
  BY DEF Known, OneInstance
<1> QED
  BY <1>1, InterfaceAssumption DEF Known, Table, WholeSlots, Whole, FreeSlot

(* The row of an interface that a step does not touch.                     *)
LEMMA PlaceKept ==
  ASSUME Known, Known', NEW n \in Ifaces,
         \A s \in Slots : slot'[s].iface = n <=> slot[s].iface = n,
         Attaching(n)' <=> Attaching(n)
  PROVE  Place(n)' = Place(n)
<1>1. Table /\ Table'
  BY DEF Known
<1>2. CASE Attaching(n) \/ ~Listed(n)
  BY <1>1, <1>2, PlaceIs, PlaceIsNext DEF PlaceFact, Listed
<1>3. ASSUME NEW s \in Slots, slot[s].iface = n, ~Attaching(n) PROVE Place(n)' = Place(n)
  BY <1>1, <1>3, PlaceIs, PlaceIsNext DEF PlaceFact
<1> QED
  BY <1>2, <1>3 DEF Listed

LEMMA RowKept ==
  ASSUME NEW n \in Ifaces, Place(n)' = Place(n),
         Place(n) # NoPlace => /\ slot'[Place(n)].mac = slot[Place(n)].mac
                               /\ slot'[Place(n)].mcast = slot[Place(n)].mcast
  PROVE  MacOf(n)' = MacOf(n) /\ Joined(n)' = Joined(n) /\ Room(n)' = Room(n)
  BY DEF MacOf, Joined, Room, EntriesWith

LEMMA PlaceInRange == PlaceRange
  BY PlaceIs DEF PlaceRange, PlaceFact, Listed

LEMMA TableAsBefore ==
  ASSUME Known, Known', \A n \in Ifaces : Attaching(n)' <=> Attaching(n),
         \A s \in Slots : /\ slot'[s].iface = slot[s].iface
                          /\ slot'[s].mac = slot[s].mac
                          /\ slot'[s].mcast = slot[s].mcast
  PROVE  SameTable
<1>1. ASSUME NEW n \in Ifaces
      PROVE  Place(n)' = Place(n) /\ MacOf(n)' = MacOf(n) /\ Joined(n)' = Joined(n) /\ Room(n)' = Room(n)
  <2>1. Place(n)' = Place(n)
    BY PlaceKept
  <2>2. Place(n) # NoPlace => Place(n) \in Slots
    BY PlaceInRange DEF PlaceRange, Known
  <2> QED
    BY <2>1, <2>2, RowKept
<1> QED
  BY <1>1 DEF SameTable, Places, IfaceMacs, Memberships, Rooms

(* The state of the calls is that of the one call.                         *)
LEMMA OnlyCaller ==
  ASSUME OneInstance, NEW p \in Ips
  PROVE  /\ Phases' = [Phases EXCEPT ![p] = PhaseOf(p)']
         /\ Asked' = [Asked EXCEPT ![p] = call'[p].req]
         /\ Answers' = [Answers EXCEPT ![p] = [status |-> call'[p].status, ret |-> call'[p].ret]]
         /\ Owes' = [Owes EXCEPT ![p] = [n \in Ifaces |-> Owed(p, n)']]
  BY DEF OneInstance, Phases, Asked, Answers, Owes

LEMMA AtCaller ==
  ASSUME NEW p \in Ips
  PROVE  /\ Phases[p] = PhaseOf(p) /\ Asked[p] = call[p].req
         /\ Answers[p] = [status |-> call[p].status, ret |-> call[p].ret]
         /\ \A n \in Ifaces : Owes[p][n] = Owed(p, n) /\ Places[n] = Place(n)
  BY DEF Phases, Asked, Answers, Owes, Places

LEMMA NothingOwed ==
  ASSUME NEW p \in Ips
  PROVE  /\ pc[p] \notin OutLabels => \A n \in Ifaces : Owed(p, n) = 0
         /\ pc'[p] \notin OutLabels => \A n \in Ifaces : Owed(p, n)' = 0
  BY DEF Owed

(* A call is carried out in one step.                                      *)
LEMMA Answered ==
  ASSUME OneInstance, NEW p \in Ips, NEW cmds, NEW status, NEW ret,
         pc[p] \notin PacketLabels \cup {"idle", "return"}, pc'[p] = "return",
         call'[p].req = call[p].req, call[p].req.cmd \in cmds,
         call'[p].status = status, call'[p].ret = ret
  PROVE  Ethernet!Answer(p, cmds, status, ret)
<1>1. PhaseOf(p) = "called" /\ PhaseOf(p)' = "done"
  BY PhaseIs, PhaseIsNext DEF PhaseFact, PacketLabels, OutLabels
<1>2. \A n \in Ifaces : Owed(p, n)' = 0 /\ Owed(p, n) = 0
  BY NothingOwed DEF PacketLabels, OutLabels
<1>3. Owes' = Owes /\ Asked' = Asked
  BY <1>2, OnlyCaller DEF Owes, Asked, OneInstance
<1> QED
  BY <1>1, <1>3, OnlyCaller, AtCaller DEF Ethernet!Answer

(* A step within a call that the virtual Ethernet does not see.            *)
LEMMA Unseen ==
  ASSUME OneInstance, NEW p \in Ips, SameTable, link' = link, PhaseOf(p)' = PhaseOf(p),
         call'[p].req = call[p].req, call'[p].status = call[p].status, call'[p].ret = call[p].ret,
         \A n \in Ifaces : Owed(p, n)' = Owed(p, n)
  PROVE  UNCHANGED Ethernet!vars
<1>1. Phases' = Phases /\ Asked' = Asked /\ Answers' = Answers /\ Owes' = Owes
  BY OnlyCaller DEF Phases, Asked, Answers, Owes, OneInstance
<1> QED
  BY <1>1 DEF SameTable, Ethernet!vars

(* The two modules have the same API.                                      *)
LEMMA SameNames ==
  /\ Ethernet!NX_SUCCESS = NX_SUCCESS /\ Ethernet!NX_INVALID_INTERFACE = NX_INVALID_INTERFACE
  /\ Ethernet!NX_NO_MORE_ENTRIES = NX_NO_MORE_ENTRIES
  /\ Ethernet!NX_ENTRY_NOT_FOUND = NX_ENTRY_NOT_FOUND
  /\ Ethernet!NX_UNHANDLED_COMMAND = NX_UNHANDLED_COMMAND
  /\ Ethernet!SendCommands = SendCommands /\ Ethernet!ResetCommands = ResetCommands
  /\ Ethernet!CountCommands = CountCommands /\ Ethernet!OtherCommands = OtherCommands
  /\ Ethernet!Commands = Commands
  /\ Ethernet!NoRequest = NoRequest /\ Ethernet!Slots = Slots
  BY DEF Ethernet!NX_SUCCESS, NX_SUCCESS, Ethernet!NX_INVALID_INTERFACE, NX_INVALID_INTERFACE,
    Ethernet!NX_NO_MORE_ENTRIES, NX_NO_MORE_ENTRIES, Ethernet!NX_ENTRY_NOT_FOUND, NX_ENTRY_NOT_FOUND,
    Ethernet!NX_UNHANDLED_COMMAND, NX_UNHANDLED_COMMAND, Ethernet!SendCommands, SendCommands,
    Ethernet!ResetCommands, ResetCommands, Ethernet!CountCommands, CountCommands,
    Ethernet!OtherCommands, OtherCommands, Ethernet!Commands, Commands, Ethernet!NoRequest, NoRequest,
    Ethernet!Slots, Slots

LEMMA IsHere ==
  ASSUME Known, NEW p \in Ips, pc[p] \in CaseLabels \cup {"reset_rest"}
  PROVE  Ethernet!Here(p)
<1>1. pc[p] # "idle"
  BY DEF CaseLabels, QueryLabels
<1>2. /\ call[p].req.iface \in Ifaces /\ Place(call[p].req.iface) = call[p].i
      /\ call[p].i \in Slots
  BY <1>1, CallerPlace
<1>3. Places[Asked[p].iface] # NoPlace
  BY <1>2, AtCaller, PlaceAssumption
<1> QED
  BY <1>3 DEF Ethernet!Here, Ethernet!Attached

(* The command that a call at a switch case carries out.                   *)
LEMMA CommandAt ==
  ASSUME Known, NEW p \in Ips
  PROVE  /\ pc[p] \in QueryLabels =>
              IF pc[p] = "GET_COUNT" THEN call[p].req.cmd \in CountCommands
                                     ELSE call[p].req.cmd = pc[p]
         /\ pc[p] # "return" => call[p].status = NX_SUCCESS /\ call[p].ret = "none"
         /\ pc[p] # "idle" => Fits(p, pc[p], call[p]) /\ call[p].req.cmd \in Commands
<1>1. Fits(p, pc[p], call[p])
  BY DEF Known, CallInv
<1>2. pc[p] # "return" => call[p].status = NX_SUCCESS /\ call[p].ret = "none"
  BY <1>1 DEF Known, Searched, Fits, PacketFits
<1>3. pc[p] # "idle" => call[p].req.cmd \in Commands
  BY <1>1, RequestAssumption DEF Fits, RequestFits, Request
<1>4. ASSUME pc[p] \in QueryLabels
      PROVE  IF pc[p] = "GET_COUNT" THEN call[p].req.cmd \in CountCommands
                                    ELSE call[p].req.cmd = pc[p]
  <2>1. Case(call[p].req.cmd) = pc[p] /\ pc[p] # "idle"
    BY <1>4 DEF Known, Searched, CaseLabels, QueryLabels
  <2>2. pc[p] \notin {"PACKET_SEND", "INTERFACE_DETACH"}
    BY <1>4 DEF QueryLabels
  <2> QED
    BY <1>3, <2>1, <2>2, CaseOf
<1> QED
  BY <1>1, <1>2, <1>3, <1>4

(* The steps of the searches, and the writes of an attach or a detach that *)
(* are not its last.                                                       *)
LEMMA SearchUnseen ==
  ASSUME Known, Known', NEW p \in Ips,
         \/ LookupHit(p) \/ LookupNext(p) \/ AttachFind(p) \/ AttachInUse(p) \/ AttachIface(p)
         \/ AttachIp(p) \/ ResetInUse(p) \/ SetAddress(p) \/ SetAddressNext(p)
         \/ (Join(p) \/ Leave(p)) /\ SkipEntry(p)
  PROVE  UNCHANGED Ethernet!vars
<1> USE DEF Goto
<1>c. pc \in [Ips -> UsedLabels] /\ call \in [Ips -> Locals] /\ slot \in [Slots -> Slot]
  BY DEF Known, CallInv, TypeOK
<1>o. OneInstance
  BY DEF Known
<1>1. /\ pc[p] \notin PacketLabels \cup {"idle", "return"}
      /\ pc'[p] \notin PacketLabels \cup {"idle", "return"}
  <2>1. CASE LookupHit(p)
    <3>1. pc[p] = "lookup" /\ pc'[p] = Case(call[p].req.cmd)
      BY <2>1, <1>c DEF LookupHit
    <3>2. Fits(p, pc[p], call[p])
      BY DEF Known, CallInv
    <3>3. pc'[p] \in CaseLabels
      BY <3>1, <3>2, LookupGoesTo, RequestAssumption DEF Fits, RequestFits, Request
    <3> QED
      BY <3>1, <3>3 DEF CaseLabels, QueryLabels, PacketLabels, OutLabels
  <2>2. CASE LookupNext(p) \/ AttachFind(p) \/ AttachInUse(p) \/ AttachIface(p)
             \/ AttachIp(p) \/ ResetInUse(p) \/ SetAddress(p) \/ SetAddressNext(p)
    BY <2>2, <1>c DEF LookupNext, AttachFind, AttachInUse, AttachIface, AttachIp, ResetInUse,
      SetAddress, SetAddressNext, PacketLabels, OutLabels
  <2>3. CASE (Join(p) \/ Leave(p)) /\ SkipEntry(p)
    BY <2>3, <1>c DEF Join, Leave, SkipEntry, PacketLabels, OutLabels
  <2> QED
    BY <2>1, <2>2, <2>3
<1>2. /\ call'[p].req = call[p].req /\ call'[p].status = call[p].status
      /\ call'[p].ret = call[p].ret /\ link' = link
  BY <1>c DEF LookupHit, LookupNext, AttachFind, AttachInUse, AttachIface, AttachIp, ResetInUse,
    SetAddress, SetAddressNext, SkipEntry, Locals
<1>3. PhaseOf(p) = "called" /\ PhaseOf(p)' = "called"
  BY <1>1, PhaseIs, PhaseIsNext DEF PhaseFact
<1>4. \A n \in Ifaces : Owed(p, n)' = 0 /\ Owed(p, n) = 0
  BY <1>1, NothingOwed DEF PacketLabels
<1>5. SameTable
  <2>0. \A n \in Ifaces :
          /\ Attaching(n) <=> pc[p] \in {"attach_ip", "attach_mac"} /\ call[p].req.iface = n
          /\ Attaching(n)' <=> pc'[p] \in {"attach_ip", "attach_mac"} /\ call[p].req.iface = n
    <3>1. \A n \in Ifaces : IpOf[n] = p
      BY InterfaceAssumption DEF Known, OneInstance
    <3> QED
      BY <1>2, <3>1 DEF Attaching
  <2>1. CASE ~AttachIface(p)
    <3>1. \A n \in Ifaces : Attaching(n)' <=> Attaching(n)
      <4>1. CASE LookupHit(p)
        <5>1. pc[p] = "lookup" /\ pc'[p] = Case(call[p].req.cmd)
          BY <4>1, <1>c DEF LookupHit
        <5>2. Fits(p, pc[p], call[p])
          BY DEF Known, CallInv
        <5>3. pc'[p] \in CaseLabels
          BY <5>1, <5>2, LookupGoesTo, RequestAssumption DEF Fits, RequestFits, Request
        <5> QED
          BY <2>0, <5>1, <5>3 DEF CaseLabels, QueryLabels
      <4>2. CASE LookupNext(p) \/ AttachFind(p) \/ AttachInUse(p) \/ AttachIp(p) \/ ResetInUse(p)
                 \/ SetAddress(p) \/ SetAddressNext(p) \/ SkipEntry(p)
        BY <2>0, <4>2, <1>c DEF LookupNext, AttachFind, AttachInUse, AttachIp, ResetInUse,
          SetAddress, SetAddressNext, SkipEntry
      <4> QED
        BY <2>1, <4>1, <4>2
    <3>2. \A s \in Slots : /\ slot'[s].iface = slot[s].iface
                           /\ slot'[s].mac = slot[s].mac
                           /\ slot'[s].mcast = slot[s].mcast
      <4>1. CASE AttachInUse(p) \/ AttachIp(p) \/ ResetInUse(p)
        <5>1. PICK i : i = call[p].i
          OBVIOUS
        <5>2. \/ slot' = [slot EXCEPT ![i].in_use = TRUE]
              \/ slot' = [slot EXCEPT ![i].in_use = FALSE]
              \/ slot' = [slot EXCEPT ![i].ip = p]
          BY <4>1, <5>1 DEF AttachInUse, AttachIp, ResetInUse
        <5> SUFFICES ASSUME NEW s \in Slots
                     PROVE  /\ slot'[s].iface = slot[s].iface
                            /\ slot'[s].mac = slot[s].mac
                            /\ slot'[s].mcast = slot[s].mcast
          OBVIOUS
        <5>3. slot[s] \in Slot
          BY <1>c
        <5>4. \/ slot'[s] = slot[s]
              \/ slot'[s] = [slot[s] EXCEPT !.in_use = TRUE]
              \/ slot'[s] = [slot[s] EXCEPT !.in_use = FALSE]
              \/ slot'[s] = [slot[s] EXCEPT !.ip = p]
          BY <1>c, <5>2
        <5> QED
          BY <5>3, <5>4 DEF Slot
      <4>2. CASE ~(AttachInUse(p) \/ AttachIp(p) \/ ResetInUse(p))
        <5>1. slot' = slot
          BY <2>1, <4>2 DEF LookupHit, LookupNext, AttachFind, SetAddress, SetAddressNext, SkipEntry
        <5> QED
          BY <5>1
      <4> QED
        BY <4>1, <4>2
    <3> QED
      BY <3>1, <3>2, TableAsBefore
  <2>2. CASE AttachIface(p)
    <3>0. PICK i, own : i = call[p].i /\ own = call[p].req.iface
      OBVIOUS
    <3>1. pc[p] = "attach_iface" /\ pc'[p] = "attach_ip" /\ slot' = [slot EXCEPT ![i].iface = own]
      BY <2>2, <3>0, <1>c DEF AttachIface
    <3>2. ~Listed(own) /\ slot[i].iface = NoIface
      BY <3>0, <3>1 DEF Known, Table, AttachProgress, Mine, FreeSlot
    <3>3. own \in Ifaces
      BY <3>0, <3>1, CallerPlace
    <3>4. Place(own)' = NoPlace /\ Place(own) = NoPlace
      BY <2>0, <3>0, <3>1, <3>2, <3>3, PlaceIs, PlaceIsNext DEF PlaceFact, Known
    <3>5. i \in Slots
      <4>1. Fits(p, pc[p], call[p])
        BY DEF Known, CallInv
      <4> QED
        BY <3>0, <3>1, <4>1 DEF Fits, PlaceFits, SearchLabels
    <3>6. ASSUME NEW n \in Ifaces, n # own PROVE Place(n)' = Place(n)
      <4>1. \A s \in Slots : slot'[s].iface = n <=> slot[s].iface = n
        BY <1>c, <3>1, <3>2, <3>5, <3>6, InterfaceAssumption DEF Slot
      <4>2. Attaching(n)' <=> Attaching(n)
        BY <2>0, <3>0, <3>6
      <4> QED
        BY <4>1, <4>2, PlaceKept
    <3>7. \A s \in Slots : slot'[s].mac = slot[s].mac /\ slot'[s].mcast = slot[s].mcast
      BY <1>c, <3>1 DEF Slot
    <3>8. ASSUME NEW n \in Ifaces
          PROVE  Place(n)' = Place(n) /\ MacOf(n)' = MacOf(n) /\ Joined(n)' = Joined(n) /\ Room(n)' = Room(n)
      <4>1. Place(n)' = Place(n)
        BY <3>4, <3>6
      <4>2. Place(n) # NoPlace => Place(n) \in Slots
        BY PlaceInRange DEF PlaceRange, Known
      <4> QED
        BY <3>7, <4>1, <4>2, RowKept
    <3> QED
      BY <3>8 DEF SameTable, Places, IfaceMacs, Memberships, Rooms
  <2> QED
    BY <2>1, <2>2
<1> QED
  BY <1>2, <1>3, <1>4, <1>5, <1>o, Unseen

LEMMA TableStill ==
  ASSUME Known, Known', NEW p \in Ips, slot' = slot,
         pc[p] \notin {"attach_ip", "attach_mac"}, pc'[p] \notin {"attach_ip", "attach_mac"}
  PROVE  SameTable
<1>1. \A n \in Ifaces : IpOf[n] = p
  BY InterfaceAssumption DEF Known, OneInstance
<1>2. \A n \in Ifaces : ~Attaching(n) /\ ~Attaching(n)'
  BY <1>1 DEF Attaching
<1> QED
  BY <1>2, TableAsBefore

(* Nobody has the place the search has missed, and everybody has one when  *)
(* an attach finds none free.                                              *)
LEMMA LookupMissed ==
  ASSUME Known, NEW p \in Ips, LookupMiss(p)
  PROVE  ~Ethernet!Here(p)
<1> DEFINE own == call[p].req.iface
<1>1. pc[p] = "lookup" /\ ~InTable(p)
  BY DEF LookupMiss
<1>2. own \in Ifaces /\ ~Building(p)
  BY <1>1, CallerPlace DEF Building
<1>3. call[p].i = NumSlots
  BY <1>1, SizeAssumption DEF Known, CallInv, TypeOK, Locals, InTable, Slots
<1>4. \A s \in Slots : ~Holds(s, own)
  BY <1>1, <1>3, SizeAssumption DEF Known, Table, LookupProgress, Slots
<1>5. ~Listed(own)
  BY <1>2, <1>4, ListedIsHeld DEF Listed, Holds
<1>6. Place(own) = NoPlace
  BY <1>2, <1>5, PlaceIs DEF PlaceFact, Known
<1> QED
  BY <1>2, <1>6, AtCaller DEF Ethernet!Here, Ethernet!Attached

LEMMA AllTaken ==
  ASSUME Known, NEW p \in Ips, AttachFull(p)
  PROVE  Slots \subseteq Ethernet!Taken
<1>1. pc[p] = "attach_find" /\ ~InTable(p)
  BY DEF AttachFull
<1>2. call[p].i = NumSlots
  BY <1>1, SizeAssumption DEF Known, CallInv, TypeOK, Locals, InTable, Slots
<1> SUFFICES ASSUME NEW s \in Slots PROVE \E n \in Ifaces : Places[n] = s
  BY DEF Ethernet!Taken
<1>3. slot[s].in_use
  BY <1>1, <1>2, SizeAssumption DEF Known, Searched, Slots
<1>4. slot[s].iface \in Ifaces
  BY <1>1, <1>3 DEF Known, Table, WholeSlots, Whole, Building, OneInstance
<1>5. ~Attaching(slot[s].iface)
  BY <1>1, <1>4, CallerPlace
<1>6. Place(slot[s].iface) = s
  BY <1>4, <1>5, PlaceIs DEF PlaceFact, Known
<1> QED
  BY <1>4, <1>6 DEF Places

(* No entry is free, or none is the group's, when the search ends.         *)
LEMMA EntriesSearched ==
  ASSUME Known, NEW p \in Ips, ~HasEntry(p)
  PROVE  /\ pc[p] = "MULTICAST_JOIN" => EntriesWith(call[p].i, ZeroMac) = 0
         /\ pc[p] = "MULTICAST_LEAVE" => EntriesWith(call[p].i, Dst(p)) = 0
<1>1. \A e \in Entries : e < call[p].m
  BY SizeAssumption DEF Known, CallInv, TypeOK, Locals, HasEntry, Entries
<1>2. pc[p] = "MULTICAST_JOIN" => {e \in Entries : slot[call[p].i].mcast[e] = ZeroMac} = {}
  BY <1>1 DEF Known, Searched, Mine
<1>3. pc[p] = "MULTICAST_LEAVE" => {e \in Entries : slot[call[p].i].mcast[e] = Dst(p)} = {}
  BY <1>1 DEF Known, Searched, Mine
<1> QED
  BY <1>2, <1>3, FS_EmptySet DEF EntriesWith

(* What the virtual Ethernet has in the row of the caller's interface.     *)
LEMMA CallerRow ==
  ASSUME Known, NEW p \in Ips, pc[p] \in CaseLabels
  PROVE  /\ IfaceMacs[Asked[p].iface] = Mine(p).mac
         /\ Rooms[Asked[p].iface] = EntriesWith(call[p].i, ZeroMac)
         /\ Asked[p].addr # ZeroMac =>
              Memberships[Asked[p].iface][Asked[p].addr] = EntriesWith(call[p].i, Asked[p].addr)
<1>1. pc[p] # "idle"
  BY DEF CaseLabels, QueryLabels
<1>2. /\ call[p].req.iface \in Ifaces /\ Place(call[p].req.iface) = call[p].i
      /\ call[p].i \in Slots /\ call[p].req.addr \in Addresses
  BY <1>1, CallerPlace DEF Request
<1>3. call[p].i # NoPlace /\ Asked[p] = call[p].req
  BY <1>2, PlaceAssumption DEF Asked
<1> QED
  BY <1>2, <1>3 DEF IfaceMacs, Rooms, Memberships, MacOf, Room, Joined, Mine

LEMMA QueryAnswers ==
  ASSUME Known, Known', NEW p \in Ips,
         \/ Initialize(p) \/ GetStatus(p) \/ GetCount(p) \/ GetInterfaceType(p)
         \/ DeferredProcessing(p) \/ Unhandled(p)
  PROVE  Ethernet!Query(p)
<1> USE DEF Goto, Finish
<1>c. pc \in [Ips -> UsedLabels] /\ call \in [Ips -> Locals] /\ OneInstance
  BY DEF Known, CallInv, TypeOK
<1>1. /\ pc[p] \in QueryLabels /\ pc'[p] = "return" /\ UNCHANGED <<slot, link>>
      /\ call'[p].req = call[p].req
  BY <1>c DEF Initialize, GetStatus, GetCount, GetInterfaceType, DeferredProcessing, Unhandled,
    QueryLabels, Locals
<1>2. SameTable
  BY <1>1, TableStill DEF QueryLabels
<1>3. Ethernet!Here(p)
  BY <1>1, IsHere DEF CaseLabels
<1>4. call[p].status = NX_SUCCESS /\ call[p].ret = "none"
  BY <1>1, CommandAt DEF QueryLabels
<1>5. pc[p] \notin PacketLabels \cup {"idle", "return"}
  BY <1>1 DEF QueryLabels, PacketLabels, OutLabels
<1>6. ASSUME NEW cmds, NEW status, NEW ret, call[p].req.cmd \in cmds,
             call'[p].status = status, call'[p].ret = ret
      PROVE  Ethernet!Answer(p, cmds, status, ret)
  BY <1>1, <1>5, <1>6, <1>c, Answered
<1>7. CASE Initialize(p)
  <2>1. pc[p] = "INITIALIZE" /\ call'[p].ret = Mine(p).mac /\ call'[p].status = NX_SUCCESS
    BY <1>7, <1>4, <1>c DEF Initialize, Locals
  <2>2. call[p].req.cmd = "INITIALIZE"
    BY <1>1, <2>1, CommandAt
  <2>3. Mine(p).mac = IfaceMacs[Asked[p].iface]
    BY <1>1, CallerRow DEF CaseLabels
  <2>4. Ethernet!Answer(p, {"INITIALIZE"}, NX_SUCCESS, IfaceMacs[Asked[p].iface])
    BY <1>6, <2>1, <2>2, <2>3
  <2> QED
    BY <1>1, <1>2, <1>3, <2>4, SameNames DEF Ethernet!Query, SameTable
<1>8. CASE GetStatus(p)
  <2>1. /\ pc[p] = "GET_STATUS" /\ call'[p].ret = IF link[FirstIface[p]] THEN "up" ELSE "down"
        /\ call'[p].status = NX_SUCCESS
    BY <1>8, <1>4, <1>c DEF GetStatus, Locals
  <2>2. call[p].req.cmd = "GET_STATUS"
    BY <1>1, <2>1, CommandAt
  <2>4. Ethernet!Answer(p, {"GET_STATUS"}, NX_SUCCESS, IF link[FirstIface[p]] THEN "up" ELSE "down")
    BY <1>6, <2>1, <2>2
  <2> QED
    BY <1>1, <1>2, <1>3, <2>4, SameNames DEF Ethernet!Query, SameTable
<1>9. CASE GetCount(p)
  <2>1. pc[p] = "GET_COUNT" /\ call'[p].ret = "zero" /\ call'[p].status = NX_SUCCESS
    BY <1>9, <1>4, <1>c DEF GetCount, Locals
  <2>2. call[p].req.cmd \in CountCommands
    BY <1>1, <2>1, CommandAt
  <2>4. Ethernet!Answer(p, CountCommands, NX_SUCCESS, "zero")
    BY <1>6, <2>1, <2>2
  <2> QED
    BY <1>1, <1>2, <1>3, <2>4, SameNames DEF Ethernet!Query, SameTable
<1>10. CASE GetInterfaceType(p)
  <2>1. /\ pc[p] = "GET_INTERFACE_TYPE" /\ call'[p].ret = "unknown_type"
        /\ call'[p].status = NX_SUCCESS
    BY <1>10, <1>4, <1>c DEF GetInterfaceType, Locals
  <2>2. call[p].req.cmd = "GET_INTERFACE_TYPE"
    BY <1>1, <2>1, CommandAt
  <2>4. Ethernet!Answer(p, {"GET_INTERFACE_TYPE"}, NX_SUCCESS, "unknown_type")
    BY <1>6, <2>1, <2>2
  <2> QED
    BY <1>1, <1>2, <1>3, <2>4, SameNames DEF Ethernet!Query, SameTable
<1>11. CASE DeferredProcessing(p)
  <2>1. pc[p] = "DEFERRED_PROCESSING" /\ call'[p].ret = "none" /\ call'[p].status = NX_SUCCESS
    BY <1>11, <1>4, <1>c DEF DeferredProcessing, Locals
  <2>2. call[p].req.cmd = "DEFERRED_PROCESSING"
    BY <1>1, <2>1, CommandAt
  <2>4. Ethernet!Answer(p, {"DEFERRED_PROCESSING"}, NX_SUCCESS, "none")
    BY <1>6, <2>1, <2>2
  <2> QED
    BY <1>1, <1>2, <1>3, <2>4, SameNames DEF Ethernet!Query, SameTable
<1>12. CASE Unhandled(p)
  <2>1. /\ pc[p] = "UNKNOWN_COMMAND" /\ call'[p].ret = "none"
        /\ call'[p].status = NX_UNHANDLED_COMMAND
    BY <1>12, <1>4, <1>c DEF Unhandled, Locals
  <2>2. call[p].req.cmd = "UNKNOWN_COMMAND"
    BY <1>1, <2>1, CommandAt
  <2>4. Ethernet!Answer(p, {"UNKNOWN_COMMAND"}, NX_UNHANDLED_COMMAND, "none")
    BY <1>6, <2>1, <2>2
  <2> QED
    BY <1>1, <1>2, <1>3, <2>4, SameNames DEF Ethernet!Query, SameTable
<1> QED
  BY <1>7, <1>8, <1>9, <1>10, <1>11, <1>12

LEMMA LinkAnswers ==
  ASSUME Known, Known', NEW p \in Ips, Enable(p) \/ Disable(p)
  PROVE  Ethernet!SetLink(p)
<1> USE DEF Goto, Finish
<1>c. pc \in [Ips -> UsedLabels] /\ call \in [Ips -> Locals] /\ OneInstance
  BY DEF Known, CallInv, TypeOK
<1>1. /\ pc[p] \in {"ENABLE", "DISABLE"} /\ pc'[p] = "return" /\ slot' = slot
      /\ call'[p].req = call[p].req /\ call'[p].status = NX_SUCCESS /\ call'[p].ret = call[p].ret
  BY <1>c DEF Enable, Disable, Locals
<1>2. SameTable
  BY <1>1, TableStill
<1>3. Ethernet!Here(p) /\ call[p].req.cmd = pc[p] /\ call[p].ret = "none"
  BY <1>1, IsHere, CommandAt DEF CaseLabels, QueryLabels
<1>4. Ethernet!Answer(p, {"ENABLE", "DISABLE"}, NX_SUCCESS, "none")
  BY <1>1, <1>3, <1>c, Answered DEF PacketLabels, OutLabels
<1>5. Asked[p] = call[p].req
  BY DEF Asked
<1>6. link' = [link EXCEPT ![Asked[p].iface] = (Asked[p].cmd = "ENABLE")]
  <2>1. CASE Enable(p)
    <3>1. (Asked[p].cmd = "ENABLE") = TRUE
      BY <1>3, <1>5, <2>1 DEF Enable
    <3>2. link' = [link EXCEPT ![Asked[p].iface] = TRUE]
      BY <1>5, <2>1 DEF Enable
    <3> QED
      BY <3>1, <3>2, Zenon
  <2>2. CASE Disable(p)
    <3>1. (Asked[p].cmd = "ENABLE") = FALSE
      BY <1>3, <1>5, <2>2 DEF Disable
    <3>2. link' = [link EXCEPT ![Asked[p].iface] = FALSE]
      BY <1>5, <2>2 DEF Disable
    <3> QED
      BY <3>1, <3>2, Zenon
  <2> QED
    BY <2>1, <2>2
<1> QED
  BY <1>2, <1>3, <1>4, <1>6, SameNames DEF Ethernet!SetLink, SameTable

LEMMA RefusalAnswers ==
  ASSUME Known, Known', NEW p \in Ips
  PROVE  /\ LookupMiss(p) => Ethernet!Refuse(p)
         /\ AttachFull(p) => Ethernet!AttachFull(p)
         /\ GroupsNamed => (JoinFull(p) => Ethernet!JoinFull(p)) /\ (LeaveMiss(p) => Ethernet!LeaveMiss(p))
         /\ ~SetAddressMiss(p)
<1> USE DEF Goto, Finish
<1>c. pc \in [Ips -> UsedLabels] /\ call \in [Ips -> Locals] /\ OneInstance
  BY DEF Known, CallInv, TypeOK
<1>1. ASSUME NEW cmds, NEW status, call[p].req.cmd \in cmds, UNCHANGED <<slot, link>>,
             pc[p] \in {"lookup", "attach_find"} \cup QueryLabels,
             Goto(p, "return"), call' = [call EXCEPT ![p].status = status]
      PROVE  /\ Ethernet!Answer(p, cmds, status, "none")
             /\ UNCHANGED <<Places, IfaceMacs, Memberships, Rooms, link>>
  <2>1. /\ pc'[p] = "return" /\ call'[p].req = call[p].req /\ call'[p].status = status
        /\ call'[p].ret = call[p].ret
    BY <1>1, <1>c DEF Locals
  <2>2. SameTable
    BY <1>1, <2>1, TableStill DEF QueryLabels
  <2>3. call[p].ret = "none"
    BY <1>1, CommandAt DEF QueryLabels
  <2>4. pc[p] \notin PacketLabels \cup {"idle", "return"}
    BY <1>1 DEF QueryLabels, PacketLabels, OutLabels
  <2>5. Ethernet!Answer(p, cmds, status, "none")
    BY <1>1, <1>c, <2>1, <2>3, <2>4, Answered
  <2> QED
    BY <1>1, <2>2, <2>5 DEF SameTable
<1>2. ASSUME LookupMiss(p) PROVE Ethernet!Refuse(p)
  <2>1. pc[p] = "lookup"
    BY <1>2 DEF LookupMiss
  <2>2. call[p].req.cmd \in Commands \ {"INTERFACE_ATTACH"}
    BY <2>1, CommandAt DEF Fits, RequestFits
  <2>3. ~Ethernet!Here(p)
    BY <1>2, LookupMissed
  <2>4. Ethernet!Answer(p, Commands \ {"INTERFACE_ATTACH"}, NX_INVALID_INTERFACE, "none")
        /\ UNCHANGED <<Places, IfaceMacs, Memberships, Rooms, link>>
    BY <1>1, <1>2, <2>1, <2>2 DEF LookupMiss
  <2> QED
    BY <2>3, <2>4, SameNames DEF Ethernet!Refuse
<1>3. ASSUME AttachFull(p) PROVE Ethernet!AttachFull(p)
  <2>1. pc[p] = "attach_find"
    BY <1>3 DEF AttachFull
  <2>2. call[p].req.cmd \in {"INTERFACE_ATTACH"}
    BY <2>1, CommandAt DEF Fits, RequestFits, AttachLabels
  <2>3. Slots \subseteq Ethernet!Taken
    BY <1>3, AllTaken
  <2>4. Ethernet!Answer(p, {"INTERFACE_ATTACH"}, NX_INVALID_INTERFACE, "none")
        /\ UNCHANGED <<Places, IfaceMacs, Memberships, Rooms, link>>
    <3>1. PICK cmds : cmds = {"INTERFACE_ATTACH"}
      OBVIOUS
    <3>2. call[p].req.cmd \in cmds
      BY <2>2, <3>1
    <3>3. Ethernet!Answer(p, cmds, NX_INVALID_INTERFACE, "none")
          /\ UNCHANGED <<Places, IfaceMacs, Memberships, Rooms, link>>
      BY <1>1, <1>3, <2>1, <3>2 DEF AttachFull
    <3> QED
      BY <3>1, <3>3
  <2> QED
    BY <2>3, <2>4, SameNames DEF Ethernet!AttachFull
<1>4. ASSUME JoinFull(p) PROVE Ethernet!JoinFull(p)
  <2>1. pc[p] = "MULTICAST_JOIN" /\ ~HasEntry(p)
    BY <1>4 DEF JoinFull
  <2>2. call[p].req.cmd \in {"MULTICAST_JOIN"}
    BY <2>1, CommandAt DEF QueryLabels
  <2>3. Ethernet!Here(p) /\ Rooms[Asked[p].iface] = 0
    BY <2>1, IsHere, CallerRow, EntriesSearched DEF CaseLabels, QueryLabels
  <2>4. Ethernet!Answer(p, {"MULTICAST_JOIN"}, NX_NO_MORE_ENTRIES, "none")
        /\ UNCHANGED <<Places, IfaceMacs, Memberships, Rooms, link>>
    <3>1. PICK cmds : cmds = {"MULTICAST_JOIN"}
      OBVIOUS
    <3>2. call[p].req.cmd \in cmds
      BY <2>2, <3>1
    <3>3. Ethernet!Answer(p, cmds, NX_NO_MORE_ENTRIES, "none")
          /\ UNCHANGED <<Places, IfaceMacs, Memberships, Rooms, link>>
      BY <1>1, <1>4, <2>1, <3>2 DEF JoinFull, QueryLabels
    <3> QED
      BY <3>1, <3>3
  <2> QED
    BY <2>3, <2>4, SameNames DEF Ethernet!JoinFull
<1>5. ASSUME GroupsNamed, LeaveMiss(p) PROVE Ethernet!LeaveMiss(p)
  <2>1. pc[p] = "MULTICAST_LEAVE" /\ ~HasEntry(p)
    BY <1>5 DEF LeaveMiss
  <2>2. call[p].req.cmd \in {"MULTICAST_LEAVE"} /\ call[p].req \in Requests
    BY <2>1, CommandAt DEF QueryLabels, Fits, RequestFits
  <2>3. Asked[p] = call[p].req /\ Asked[p].addr # ZeroMac
    BY <1>5, <2>2 DEF GroupsNamed, Asked
  <2>4. Ethernet!Here(p) /\ Memberships[Asked[p].iface][Asked[p].addr] = 0
    BY <2>1, <2>3, IsHere, CallerRow, EntriesSearched DEF CaseLabels, QueryLabels, Dst
  <2>5. Ethernet!Answer(p, {"MULTICAST_LEAVE"}, NX_ENTRY_NOT_FOUND, "none")
        /\ UNCHANGED <<Places, IfaceMacs, Memberships, Rooms, link>>
    <3>1. PICK cmds : cmds = {"MULTICAST_LEAVE"}
      OBVIOUS
    <3>2. call[p].req.cmd \in cmds
      BY <2>2, <3>1
    <3>3. Ethernet!Answer(p, cmds, NX_ENTRY_NOT_FOUND, "none")
          /\ UNCHANGED <<Places, IfaceMacs, Memberships, Rooms, link>>
      BY <1>1, <1>5, <2>1, <3>2 DEF LeaveMiss, QueryLabels
    <3> QED
      BY <3>1, <3>3
  <2> QED
    BY <2>4, <2>5, SameNames DEF Ethernet!LeaveMiss
<1>6. ASSUME SetAddressMiss(p) PROVE FALSE
  <2>1. pc[p] = "set_find" /\ ~InTable(p)
    BY <1>6 DEF SetAddressMiss
  <2>2. call[p].i = NumSlots
    BY <2>1, SizeAssumption DEF Known, CallInv, TypeOK, Locals, InTable, Slots
  <2> QED
    BY <2>1, <2>2, SizeAssumption DEF Known, Searched, Held, Holds, Slots
<1> QED
  BY <1>2, <1>3, <1>4, <1>5, <1>6

(* A step that writes the caller's slot changes its row and no other.      *)
LEMMA OneRow ==
  ASSUME Known, Known', NEW p \in Ips, NEW i \in Slots, NEW own \in Ifaces,
         own = call[p].req.iface, call'[p].req = call[p].req, pc[p] # "idle", pc'[p] # "idle",
         slot[i].iface \in {own, NoIface}, slot'[i].iface \in {own, NoIface},
         \A s \in Slots \ {i} : slot'[s] = slot[s]
  PROVE  /\ Places' = [Places EXCEPT ![own] = Place(own)']
         /\ IfaceMacs' = [IfaceMacs EXCEPT ![own] = MacOf(own)']
         /\ Memberships' = [Memberships EXCEPT ![own] = Joined(own)']
         /\ Rooms' = [Rooms EXCEPT ![own] = Room(own)']
<1>1. ASSUME NEW n \in Ifaces \ {own}
      PROVE  Place(n)' = Place(n) /\ MacOf(n)' = MacOf(n) /\ Joined(n)' = Joined(n) /\ Room(n)' = Room(n)
  <2>1. n # NoIface /\ IpOf[n] = p
    BY InterfaceAssumption DEF Known, OneInstance
  <2>2. ~Attaching(n) /\ ~Attaching(n)'
    BY <2>1 DEF Attaching
  <2>3. \A s \in Slots : slot'[s].iface = n <=> slot[s].iface = n
    BY <2>1
  <2>4. Place(n)' = Place(n)
    BY <2>2, <2>3, PlaceKept
  <2>5. Place(n) # NoPlace => Place(n) \in Slots \ {i}
    BY <2>1, PlaceInRange DEF PlaceRange, Known
  <2> QED
    BY <2>4, <2>5, RowKept
<1> QED
  BY <1>1 DEF Places, IfaceMacs, Memberships, Rooms

LEMMA EntryWritten ==
  ASSUME slot \in [Slots -> Slot], NEW i \in Slots, NEW m \in Entries, NEW a \in Addresses,
         slot' = [slot EXCEPT ![i].mcast[m] = a], NEW b, b = slot[i].mcast[m], b # a
  PROVE  /\ EntriesWith(i, a)' = EntriesWith(i, a) + 1
         /\ EntriesWith(i, b)' = EntriesWith(i, b) - 1 /\ EntriesWith(i, b) > 0
         /\ \A c : c # a /\ c # b => EntriesWith(i, c)' = EntriesWith(i, c)
<1> DEFINE old(c) == {e \in Entries : slot[i].mcast[e] = c}
           new(c) == {e \in Entries : slot'[i].mcast[e] = c}
<1>1. \A e \in Entries : slot'[i].mcast[e] = IF e = m THEN a ELSE slot[i].mcast[e]
  BY DEF Slot
<1>2. new(a) = old(a) \cup {m} /\ m \notin old(a)
  BY <1>1
<1>3. old(b) = new(b) \cup {m} /\ m \notin new(b)
  BY <1>1
<1>4. \A c : c # a /\ c # b => new(c) = old(c)
  BY <1>1
<1>5. \A c : /\ IsFiniteSet(old(c)) /\ Cardinality(old(c)) \in Nat
            /\ IsFiniteSet(new(c)) /\ Cardinality(new(c)) \in Nat
  BY EntriesFinite
<1>6. \A c : EntriesWith(i, c) = Cardinality(old(c)) /\ EntriesWith(i, c)' = Cardinality(new(c))
  BY DEF EntriesWith
<1> HIDE DEF old, new
<1>7. Cardinality(new(a)) = Cardinality(old(a)) + 1
  BY <1>2, <1>5, FS_AddElement
<1>8. Cardinality(old(b)) = Cardinality(new(b)) + 1
  BY <1>3, <1>5, FS_AddElement
<1> QED
  BY <1>4, <1>5, <1>6, <1>7, <1>8

(* The row of an interface whose slot has no groups.                       *)
LEMMA NoGroupsNext ==
  ASSUME NEW n \in Ifaces,
         \/ Place(n)' = NoPlace
         \/ Place(n)' \in Slots /\ \A e \in Entries : slot'[Place(n)'].mcast[e] = ZeroMac
  PROVE  Joined(n)' = [a \in Addresses |-> 0] /\ Room(n)' = NumEntries
<1>1. CASE Place(n)' = NoPlace
  BY <1>1 DEF Joined, Room
<1>2. CASE Place(n)' # NoPlace
  <2>1. PICK s \in Slots : s = Place(n)'
    BY <1>2
  <2>2. {e \in Entries : slot'[s].mcast[e] = ZeroMac} = Entries
    BY <1>2, <2>1
  <2>3. Cardinality(Entries) = NumEntries
    BY SizeAssumption, FS_Interval DEF Entries
  <2>4. \A a : a # ZeroMac => {e \in Entries : slot'[s].mcast[e] = a} = {}
    BY <1>2, <2>1
  <2>5. EntriesWith(s, ZeroMac)' = NumEntries /\ \A a : a # ZeroMac => EntriesWith(s, a)' = 0
    BY <2>2, <2>3, <2>4, FS_EmptySet DEF EntriesWith
  <2>6. Room(n)' = EntriesWith(s, ZeroMac)'
    BY <1>2, <2>1 DEF Room, EntriesWith
  <2>7. Joined(n)' = [a \in Addresses |-> IF a = ZeroMac THEN 0 ELSE EntriesWith(s, a)']
    BY <1>2, <2>1 DEF Joined, EntriesWith
  <2> QED
    BY <2>5, <2>6, <2>7
<1> QED
  BY <1>1, <1>2

LEMMA AttachAnswers ==
  ASSUME Known, Known', NEW p \in Ips, AttachMac(p)
  PROVE  Ethernet!Attach(p)
<1> USE DEF Goto, Finish
<1>c. pc \in [Ips -> UsedLabels] /\ call \in [Ips -> Locals] /\ OneInstance /\ slot \in [Slots -> Slot]
  BY DEF Known, CallInv, TypeOK
<1>0. PICK i, own : i = call[p].i /\ own = call[p].req.iface
  OBVIOUS
<1>1. /\ pc[p] = "attach_mac" /\ pc'[p] = "return" /\ slot' = [slot EXCEPT ![i].mac = BaseMac[i]]
      /\ call'[p].req = call[p].req /\ call'[p].status = NX_SUCCESS /\ call'[p].ret = call[p].ret
      /\ link' = link
  BY <1>0, <1>c DEF AttachMac, Locals
<1>2. /\ Fits(p, pc[p], call[p]) /\ call[p].ret = "none" /\ own \in Ifaces
  BY <1>0, <1>1, CommandAt, CallerPlace
<1>3. i \in Slots /\ call[p].req.cmd = "INTERFACE_ATTACH"
  BY <1>0, <1>1, <1>2 DEF Fits, PlaceFits, SearchLabels, RequestFits, AttachLabels
<1>4. slot[i] = [FreeSlot EXCEPT !.in_use = TRUE, !.iface = own, !.ip = p]
  BY <1>0, <1>1 DEF Known, Table, AttachProgress, Mine
<1>5. slot[i].iface = own /\ \A e \in Entries : slot[i].mcast[e] = ZeroMac
  BY <1>4 DEF FreeSlot
<1>6. slot'[i].iface = own /\ slot'[i].mac = BaseMac[i] /\ slot'[i].mcast = slot[i].mcast
  BY <1>1, <1>3, <1>5, <1>c DEF Slot
<1>7. \A n \in Ifaces : IpOf[n] = p
  BY InterfaceAssumption DEF Known, OneInstance
<1>8. Attaching(own) /\ ~Attaching(own)'
  BY <1>0, <1>1, <1>2, <1>7 DEF Attaching
<1>9. Place(own) = NoPlace /\ Place(own)' = i
  BY <1>2, <1>3, <1>6, <1>8, PlaceIs, PlaceIsNext DEF PlaceFact, Known
<1>10. MacOf(own)' = BaseMac[i]
  BY <1>3, <1>6, <1>9, PlaceAssumption DEF MacOf
<1>11. Joined(own)' = Joined(own) /\ Room(own)' = Room(own)
  <2>1. Joined(own)' = [a \in Addresses |-> 0] /\ Room(own)' = NumEntries
    BY <1>2, <1>3, <1>5, <1>6, <1>9, NoGroupsNext
  <2>2. Joined(own) = [a \in Addresses |-> 0] /\ Room(own) = NumEntries
    BY <1>9 DEF Joined, Room
  <2> QED
    BY <2>1, <2>2
<1>12. \A s \in Slots \ {i} : slot'[s] = slot[s]
  BY <1>1, <1>c
<1>13. /\ Places' = [Places EXCEPT ![own] = i]
       /\ IfaceMacs' = [IfaceMacs EXCEPT ![own] = BaseMac[i]]
       /\ Memberships' = [Memberships EXCEPT ![own] = Joined(own)]
       /\ Rooms' = [Rooms EXCEPT ![own] = Room(own)]
  BY <1>0, <1>1, <1>2, <1>3, <1>5, <1>6, <1>9, <1>10, <1>11, <1>12, OneRow
<1>14. Memberships' = Memberships /\ Rooms' = Rooms
  BY <1>2, <1>13 DEF Memberships, Rooms
<1>15. i \in Slots \ Ethernet!Taken
  <2> SUFFICES ASSUME NEW n \in Ifaces, Places[n] = i PROVE FALSE
    BY <1>3 DEF Ethernet!Taken
  <2>1. Place(n) = i
    BY DEF Places
  <2>2. n = own
    BY <1>3, <1>5, <2>1, PlaceInRange, PlaceAssumption DEF PlaceRange, Known
  <2> QED
    BY <1>3, <1>9, <2>1, <2>2, PlaceAssumption
<1>16. Asked[p].iface = own
  BY <1>0 DEF Asked
<1>17. Ethernet!Answer(p, {"INTERFACE_ATTACH"}, NX_SUCCESS, "none")
  BY <1>1, <1>2, <1>3, <1>c, Answered DEF PacketLabels, OutLabels
<1> QED
  BY <1>1, <1>13, <1>14, <1>15, <1>16, <1>17, SameNames DEF Ethernet!Attach

LEMMA DetachAnswers ==
  ASSUME Known, Known', NEW p \in Ips, ResetRest(p)
  PROVE  Ethernet!Detach(p)
<1> USE DEF Goto, Finish
<1>c. pc \in [Ips -> UsedLabels] /\ call \in [Ips -> Locals] /\ OneInstance /\ slot \in [Slots -> Slot]
  BY DEF Known, CallInv, TypeOK
<1>0. PICK i, own : i = call[p].i /\ own = call[p].req.iface
  OBVIOUS
<1>1. /\ pc[p] = "reset_rest" /\ pc'[p] = "return"
      /\ slot' = [slot EXCEPT ![i] = [FreeSlot EXCEPT !.in_use = slot[i].in_use]]
      /\ call'[p].req = call[p].req /\ call'[p].status = NX_SUCCESS /\ call'[p].ret = call[p].ret
      /\ link' = link
  BY <1>0, <1>c DEF ResetRest, Mine, Locals
<1>2. /\ Fits(p, pc[p], call[p]) /\ call[p].ret = "none" /\ own \in Ifaces
      /\ i \in Slots /\ Ethernet!Here(p)
  BY <1>0, <1>1, CommandAt, CallerPlace, IsHere
<1>3. call[p].req.cmd \in ResetCommands
  BY <1>1, <1>2 DEF Fits, RequestFits, ResetLabels
<1>4. slot[i].iface = own
  BY <1>0, <1>1 DEF Known, Table, LookupProgress, Mine
<1>5. slot'[i].iface = NoIface
  BY <1>1, <1>2, <1>c DEF FreeSlot
<1>6. \A s \in Slots \ {i} : slot'[s] = slot[s] /\ slot[s].iface # own
  BY <1>1, <1>2, <1>4, <1>c, InterfaceAssumption DEF Known, Table, OneSlotEach
<1>7. Place(own)' = NoPlace
  <2>1. \A s \in Slots : slot'[s].iface # own
    BY <1>2, <1>5, <1>6, InterfaceAssumption
  <2> QED
    BY <1>2, <2>1, PlaceIsNext DEF PlaceFact, Known, Listed
<1>8. MacOf(own)' = ZeroMac /\ Joined(own)' = [a \in Addresses |-> 0] /\ Room(own)' = NumEntries
  BY <1>2, <1>7, NoGroupsNext DEF MacOf
<1>9. /\ Places' = [Places EXCEPT ![own] = NoPlace]
      /\ IfaceMacs' = [IfaceMacs EXCEPT ![own] = ZeroMac]
      /\ Memberships' = [Memberships EXCEPT ![own] = [a \in Addresses |-> 0]]
      /\ Rooms' = [Rooms EXCEPT ![own] = NumEntries]
  BY <1>0, <1>1, <1>2, <1>4, <1>5, <1>6, <1>7, <1>8, OneRow
<1>10. Asked[p].iface = own
  BY <1>0 DEF Asked
<1>11. Ethernet!Answer(p, ResetCommands, NX_SUCCESS, "none")
  BY <1>1, <1>2, <1>3, <1>c, Answered DEF PacketLabels, OutLabels
<1> QED
  BY <1>1, <1>2, <1>9, <1>10, <1>11, SameNames DEF Ethernet!Detach, Ethernet!None

LEMMA SetAnswers ==
  ASSUME Known, Known', NEW p \in Ips, SetAddressHit(p)
  PROVE  Ethernet!SetAddress(p)
<1> USE DEF Goto, Finish
<1>c. pc \in [Ips -> UsedLabels] /\ call \in [Ips -> Locals] /\ OneInstance /\ slot \in [Slots -> Slot]
  BY DEF Known, CallInv, TypeOK
<1>0. PICK i, own, a : i = call[p].i /\ own = call[p].req.iface /\ a = call[p].req.addr
  OBVIOUS
<1>1. /\ pc[p] = "set_find" /\ pc'[p] = "return" /\ i \in Slots /\ slot[i].iface = own
      /\ slot' = [slot EXCEPT ![i].mac = a]
      /\ call'[p].req = call[p].req /\ call'[p].status = NX_SUCCESS /\ call'[p].ret = call[p].ret
      /\ link' = link
  BY <1>0, <1>c DEF SetAddressHit, InTable, Mine, Dst, Locals
<1>2. /\ Fits(p, pc[p], call[p]) /\ call[p].ret = "none" /\ own \in Ifaces
  BY <1>0, <1>1, CommandAt, CallerPlace
<1>3. call[p].req.cmd = "SET_PHYSICAL_ADDRESS"
  BY <1>1, <1>2 DEF Fits, RequestFits, SetLabels
<1>4. \A n \in Ifaces : IpOf[n] = p
  BY InterfaceAssumption DEF Known, OneInstance
<1>5. ~Attaching(own) /\ ~Attaching(own)'
  BY <1>1, <1>2, <1>4 DEF Attaching
<1>6. slot'[i].iface = own /\ slot'[i].mac = a /\ slot'[i].mcast = slot[i].mcast
  BY <1>1, <1>c DEF Slot
<1>7. \A s \in Slots \ {i} : slot'[s] = slot[s]
  BY <1>1, <1>c
<1>8. Place(own) = i /\ Place(own)' = i
  BY <1>1, <1>2, <1>5, <1>6, PlaceIs, PlaceIsNext DEF PlaceFact, Known
<1>9. /\ MacOf(own)' = a /\ Joined(own)' = Joined(own) /\ Room(own)' = Room(own)
  BY <1>1, <1>6, <1>8, PlaceAssumption DEF MacOf, Joined, Room, EntriesWith
<1>10. /\ Places' = [Places EXCEPT ![own] = Place(own)]
       /\ IfaceMacs' = [IfaceMacs EXCEPT ![own] = a]
       /\ Memberships' = [Memberships EXCEPT ![own] = Joined(own)]
       /\ Rooms' = [Rooms EXCEPT ![own] = Room(own)]
  BY <1>0, <1>1, <1>2, <1>6, <1>7, <1>8, <1>9, OneRow
<1>11. Places' = Places /\ Memberships' = Memberships /\ Rooms' = Rooms
  BY <1>2, <1>10 DEF Places, Memberships, Rooms
<1>12. Asked[p].iface = own /\ Asked[p].addr = a
  BY <1>0 DEF Asked
<1>13. Ethernet!Here(p)
  BY <1>1, <1>2, <1>8, <1>12, PlaceAssumption DEF Ethernet!Here, Ethernet!Attached, Places
<1>14. Ethernet!Answer(p, {"SET_PHYSICAL_ADDRESS"}, NX_SUCCESS, "none")
  BY <1>1, <1>2, <1>3, <1>c, Answered DEF PacketLabels, OutLabels
<1> QED
  BY <1>1, <1>10, <1>11, <1>12, <1>13, <1>14, SameNames DEF Ethernet!SetAddress

(* A join or leave that writes an entry.                                   *)
LEMMA GroupWritten ==
  ASSUME Known, Known', NEW p \in Ips, pc[p] \in {"MULTICAST_JOIN", "MULTICAST_LEAVE"}, HasEntry(p),
         NEW a \in Addresses, WriteEntry(p, a), Entry(p) # a
  PROVE  \E i \in Slots, own \in Ifaces, b \in {Entry(p)} :
         /\ i = call[p].i /\ own = call[p].req.iface
         /\ Place(own) = i
         /\ UNCHANGED <<Places, IfaceMacs, link>>
         /\ Memberships' = [Memberships EXCEPT ![own] = Joined(own)']
         /\ Rooms' = [Rooms EXCEPT ![own] = Room(own)']
         /\ Joined(own)' = [x \in Addresses |-> IF x = ZeroMac THEN 0 ELSE EntriesWith(i, x)']
         /\ Room(own)' = EntriesWith(i, ZeroMac)'
         /\ EntriesWith(i, a)' = EntriesWith(i, a) + 1
         /\ EntriesWith(i, b)' = EntriesWith(i, b) - 1 /\ EntriesWith(i, b) > 0
         /\ \A c : c # a /\ c # b => EntriesWith(i, c)' = EntriesWith(i, c)
         /\ Ethernet!Answer(p, {pc[p]}, NX_SUCCESS, "none")
<1> USE DEF Goto, Finish
<1>c. pc \in [Ips -> UsedLabels] /\ call \in [Ips -> Locals] /\ OneInstance /\ slot \in [Slots -> Slot]
  BY DEF Known, CallInv, TypeOK
<1>0. PICK i, own, b : i = call[p].i /\ own = call[p].req.iface /\ b = Entry(p)
  OBVIOUS
<1>m. PICK m \in Entries : m = call[p].m
  BY DEF HasEntry
<1>1. /\ pc'[p] = "return" /\ slot' = [slot EXCEPT ![i].mcast[m] = a] /\ link' = link
      /\ call'[p].req = call[p].req /\ call'[p].status = NX_SUCCESS /\ call'[p].ret = call[p].ret
  BY <1>0, <1>c, <1>m DEF WriteEntry, Locals
<1>2. /\ i \in Slots /\ own \in Ifaces /\ Place(own) = i /\ ~Attaching(own)
      /\ call[p].ret = "none" /\ call[p].req.cmd = pc[p]
  BY <1>0, CallerPlace, CommandAt DEF CaseLabels, QueryLabels
<1>3. b = slot[i].mcast[m]
  BY <1>0, <1>m DEF Entry, Mine
<1>4. /\ EntriesWith(i, a)' = EntriesWith(i, a) + 1
      /\ EntriesWith(i, b)' = EntriesWith(i, b) - 1 /\ EntriesWith(i, b) > 0
      /\ \A c : c # a /\ c # b => EntriesWith(i, c)' = EntriesWith(i, c)
  BY <1>0, <1>1, <1>2, <1>3, <1>c, EntryWritten
<1>5. slot'[i].iface = slot[i].iface /\ slot'[i].mac = slot[i].mac
  BY <1>1, <1>2, <1>c DEF Slot
<1>6. slot[i].iface = own
  BY <1>2, PlaceInRange, PlaceAssumption DEF PlaceRange, Known
<1>7. \A s \in Slots \ {i} : slot'[s] = slot[s]
  BY <1>1, <1>c
<1>8. ~Attaching(own)'
  <2>1. IpOf[own] = p
    BY <1>2, InterfaceAssumption DEF Known, OneInstance
  <2> QED
    BY <1>0, <1>1, <2>1 DEF Attaching
<1>9. Place(own)' = i
  BY <1>2, <1>5, <1>6, <1>8, PlaceIsNext DEF PlaceFact, Known
<1>10. MacOf(own)' = MacOf(own)
  BY <1>2, <1>5, <1>9 DEF MacOf
<1>11. /\ Joined(own)' = [x \in Addresses |-> IF x = ZeroMac THEN 0 ELSE EntriesWith(i, x)']
       /\ Room(own)' = EntriesWith(i, ZeroMac)'
  BY <1>2, <1>9, PlaceAssumption DEF Joined, Room, EntriesWith
<1>12. /\ Places' = [Places EXCEPT ![own] = Place(own)]
       /\ IfaceMacs' = [IfaceMacs EXCEPT ![own] = MacOf(own)]
       /\ Memberships' = [Memberships EXCEPT ![own] = Joined(own)']
       /\ Rooms' = [Rooms EXCEPT ![own] = Room(own)']
  BY <1>1, <1>2, <1>5, <1>6, <1>7, <1>9, <1>10, <1>0, OneRow
<1>13. Places' = Places /\ IfaceMacs' = IfaceMacs
  BY <1>2, <1>12 DEF Places, IfaceMacs
<1>14. Ethernet!Answer(p, {pc[p]}, NX_SUCCESS, "none")
  BY <1>1, <1>2, <1>c, Answered DEF PacketLabels, OutLabels
<1> QED
  BY <1>0, <1>1, <1>2, <1>4, <1>11, <1>12, <1>13, <1>14

LEMMA JoinAnswers ==
  ASSUME Known, Known', GroupsNamed, NEW p \in Ips, Join(p), ~SkipEntry(p)
  PROVE  Ethernet!Join(p)
<1>0. PICK a : a = Dst(p)
  OBVIOUS
<1>1. pc[p] = "MULTICAST_JOIN" /\ HasEntry(p) /\ Entry(p) = ZeroMac /\ WriteEntry(p, a)
  BY <1>0 DEF Join
<1>2. call[p].req.cmd = "MULTICAST_JOIN" /\ call[p].req \in Requests /\ a \in Addresses
  BY <1>0, <1>1, CommandAt, CallerPlace DEF QueryLabels, Fits, RequestFits, Dst, Request
<1>3. a # ZeroMac
  BY <1>0, <1>2 DEF GroupsNamed, Dst
<1>4. PICK i \in Slots, own \in Ifaces, b \in {Entry(p)} :
        /\ i = call[p].i /\ own = call[p].req.iface
        /\ Place(own) = i
        /\ UNCHANGED <<Places, IfaceMacs, link>>
        /\ Memberships' = [Memberships EXCEPT ![own] = Joined(own)']
        /\ Rooms' = [Rooms EXCEPT ![own] = Room(own)']
        /\ Joined(own)' = [x \in Addresses |-> IF x = ZeroMac THEN 0 ELSE EntriesWith(i, x)']
        /\ Room(own)' = EntriesWith(i, ZeroMac)'
        /\ EntriesWith(i, a)' = EntriesWith(i, a) + 1
        /\ EntriesWith(i, b)' = EntriesWith(i, b) - 1 /\ EntriesWith(i, b) > 0
        /\ \A c : c # a /\ c # b => EntriesWith(i, c)' = EntriesWith(i, c)
        /\ Ethernet!Answer(p, {pc[p]}, NX_SUCCESS, "none")
  BY <1>1, <1>2, <1>3, GroupWritten
<1>5. Asked[p].iface = own /\ Asked[p].addr = a /\ b = ZeroMac
  BY <1>0, <1>1, <1>4 DEF Asked, Dst
<1>6. Ethernet!Here(p) /\ Rooms[own] = EntriesWith(i, ZeroMac)
  BY <1>1, <1>4, <1>5, IsHere, CallerRow DEF CaseLabels, QueryLabels
<1>7. Joined(own) = [x \in Addresses |-> IF x = ZeroMac THEN 0 ELSE EntriesWith(i, x)]
  BY <1>4, PlaceAssumption DEF Joined
<1>8. Joined(own)' = [Joined(own) EXCEPT ![a] = @ + 1] /\ Memberships[own] = Joined(own)
  BY <1>2, <1>3, <1>4, <1>5, <1>7 DEF Memberships
<1>9. Memberships' = [Memberships EXCEPT ![own][a] = @ + 1] /\ Rooms' = [Rooms EXCEPT ![own] = @ - 1]
  BY <1>4, <1>5, <1>6, <1>8
<1> QED
  BY <1>1, <1>4, <1>5, <1>6, <1>9, SameNames DEF Ethernet!Join

LEMMA LeaveAnswers ==
  ASSUME Known, Known', GroupsNamed, NEW p \in Ips, Leave(p), ~SkipEntry(p)
  PROVE  Ethernet!Leave(p)
<1>1. pc[p] = "MULTICAST_LEAVE" /\ HasEntry(p) /\ Entry(p) = Dst(p) /\ WriteEntry(p, ZeroMac)
  BY DEF Leave
<1>2. call[p].req.cmd = "MULTICAST_LEAVE" /\ call[p].req \in Requests /\ Dst(p) \in Addresses
  BY <1>1, CommandAt, CallerPlace DEF QueryLabels, Fits, RequestFits, Dst, Request
<1>3. Dst(p) # ZeroMac /\ ZeroMac \in Addresses
  BY <1>2, AddressAssumption DEF GroupsNamed, Dst
<1>4. PICK i \in Slots, own \in Ifaces, b \in {Entry(p)} :
        /\ i = call[p].i /\ own = call[p].req.iface
        /\ Place(own) = i
        /\ UNCHANGED <<Places, IfaceMacs, link>>
        /\ Memberships' = [Memberships EXCEPT ![own] = Joined(own)']
        /\ Rooms' = [Rooms EXCEPT ![own] = Room(own)']
        /\ Joined(own)' = [x \in Addresses |-> IF x = ZeroMac THEN 0 ELSE EntriesWith(i, x)']
        /\ Room(own)' = EntriesWith(i, ZeroMac)'
        /\ EntriesWith(i, ZeroMac)' = EntriesWith(i, ZeroMac) + 1
        /\ EntriesWith(i, b)' = EntriesWith(i, b) - 1 /\ EntriesWith(i, b) > 0
        /\ \A c : c # ZeroMac /\ c # b => EntriesWith(i, c)' = EntriesWith(i, c)
        /\ Ethernet!Answer(p, {pc[p]}, NX_SUCCESS, "none")
  BY <1>1, <1>3, GroupWritten
<1>5. Asked[p].iface = own /\ Asked[p].addr = b /\ b = Dst(p)
  BY <1>1, <1>4 DEF Asked, Dst
<1>6. Ethernet!Here(p) /\ Rooms[own] = EntriesWith(i, ZeroMac) /\ Memberships[own][b] = EntriesWith(i, b)
  BY <1>1, <1>3, <1>4, <1>5, IsHere, CallerRow DEF CaseLabels, QueryLabels
<1>7. Joined(own) = [x \in Addresses |-> IF x = ZeroMac THEN 0 ELSE EntriesWith(i, x)]
  BY <1>4, PlaceAssumption DEF Joined
<1>8. Joined(own)' = [Joined(own) EXCEPT ![b] = @ - 1] /\ Memberships[own] = Joined(own)
  BY <1>2, <1>3, <1>4, <1>5, <1>7 DEF Memberships
<1>9. Memberships' = [Memberships EXCEPT ![own][b] = @ - 1] /\ Rooms' = [Rooms EXCEPT ![own] = @ + 1]
  BY <1>4, <1>5, <1>6, <1>8
<1> QED
  BY <1>1, <1>4, <1>5, <1>6, <1>9, SameNames DEF Ethernet!Leave

(* The copies still owed to an interface are those its slot's owner wants  *)
(* and has not been given.                                                 *)
LEMMA OwedIs == OwedFact
<1> SUFFICES ASSUME Known, NEW p \in Ips, NEW n \in Ifaces, pc[p] \in OutLabels
             PROVE  /\ Place(n) = NoPlace \/ n = call[p].req.iface => Due(p, n) = 0 /\ Owed(p, n) = 0
                    /\ Place(n) # NoPlace /\ n # call[p].req.iface =>
                         /\ Place(n) \in Slots
                         /\ Due(p, n) = Wanted(p, Place(n))
                         /\ Owed(p, n) = Wanted(p, Place(n)) - Given(p, Place(n))
                         /\ Owed(p, n) = Due(p, n) - Copies(call[p].delivered, n)
  BY DEF OwedFact
<1>1. pc[p] # "idle" /\ pc[p] \notin {"attach_ip", "attach_mac"} /\ ~Building(p)
  BY DEF OutLabels, Building
<1>2. ~Attaching(n) /\ Dst(p) \in Addresses
  BY <1>1, CallerPlace DEF Dst, Request
<1>3. Counted(p)
  BY DEF Known
<1>4. CopiesFor(p, n) = Copies(call[p].delivered, n) /\ Owed(p, n) = Due(p, n) - CopiesFor(p, n)
  BY DEF CopiesFor, Copies, Owed
<1>5. ASSUME Place(n) = NoPlace \/ n = call[p].req.iface PROVE Due(p, n) = 0 /\ Owed(p, n) = 0
  <2>1. Place(n) = NoPlace => ~Listed(n)
    BY <1>2, PlaceIs, PlaceAssumption DEF PlaceFact, Known, Listed
  <2>2. Copies(call[p].delivered, n) = 0
    BY <1>3, <1>5, <2>1 DEF Counted
  <2>3. Due(p, n) = 0
    BY <1>5 DEF Due
  <2> QED
    BY <1>4, <2>2, <2>3
<1>6. ASSUME Place(n) # NoPlace, n # call[p].req.iface
      PROVE  /\ Place(n) \in Slots /\ Due(p, n) = Wanted(p, Place(n))
             /\ Owed(p, n) = Wanted(p, Place(n)) - Given(p, Place(n))
  <2>1. PICK s \in Slots : s = Place(n) /\ slot[s].iface = n
    BY <1>6, PlaceInRange DEF PlaceRange, Known
  <2>2. slot[s].in_use
    BY <1>1, <2>1, ListedIsHeld
  <2>3. Copies(call[p].delivered, n) = Given(p, s)
    BY <1>3, <1>6, <2>1, <2>2 DEF Counted
  <2>4. Due(p, n) = Wanted(p, s)
    <3>1. MacOf(n) = slot[s].mac
      BY <1>6, <2>1 DEF MacOf
    <3>2. CASE Meant(p, s)
      BY <1>6, <3>1, <3>2 DEF Due, Wanted, Meant
    <3>3. CASE ~Meant(p, s)
      <4>1. Dst(p) # ZeroMac
        BY <3>3, AddressAssumption DEF Meant
      <4>2. Joined(n)[Dst(p)] = EntriesWith(s, Dst(p))
        BY <1>2, <1>6, <2>1, <4>1 DEF Joined
      <4> QED
        BY <1>6, <3>1, <3>3, <4>2 DEF Due, Wanted, Meant
    <3> QED
      BY <3>2, <3>3
  <2> QED
    BY <1>4, <2>1, <2>3, <2>4
<1> QED
  BY <1>4, <1>5, <1>6

LEMMA OwedIsNext == OwedFact'
  BY OwedIs, PTL

LEMMA DueKept ==
  ASSUME NEW p \in Ips, SameTable, call'[p].req = call[p].req, NEW n \in Ifaces
  PROVE  Due(p, n)' = Due(p, n)
<1>1. Place(n)' = Place(n) /\ MacOf(n)' = MacOf(n) /\ Joined(n)' = Joined(n)
  BY DEF SameTable, Places, IfaceMacs, Memberships
<1> QED
  BY <1>1 DEF Due, Dst

(* What all steps of output have in common.                                *)
LEMMA OutputFrame ==
  ASSUME Known, Known', NEW p \in Ips,
         Send(p) \/ Walks(p) \/ CopyFails(p) \/ CopyFaults(p) \/ Release(p)
  PROVE  /\ SameTable /\ link' = link
         /\ call'[p].req = call[p].req /\ call'[p].status = call[p].status
         /\ call'[p].ret = call[p].ret
         /\ Asked' = Asked /\ Answers' = Answers
<1> USE DEF Goto
<1>c. pc \in [Ips -> UsedLabels] /\ call \in [Ips -> Locals] /\ OneInstance
  BY DEF Known, CallInv, TypeOK
<1>1. CASE Walks(p)
  <2>1. /\ UNCHANGED <<slot, link>>
        /\ call'[p].req = call[p].req /\ call'[p].status = call[p].status
        /\ call'[p].ret = call[p].ret
        /\ pc[p] \notin {"attach_ip", "attach_mac"} /\ pc'[p] \notin {"attach_ip", "attach_mac"}
    <3>1. CASE OutSkip(p) \/ OutPick(p) \/ OutNextIp(p) \/ OutMatch(p) \/ OutEnd(p) \/ MulticastEnd(p)
      BY <3>1, <1>c DEF OutSkip, OutPick, OutNextIp, OutMatch, OutEnd, MulticastEnd, Locals
    <3>2. CASE MulticastMatch(p) \/ CopyMade(p) \/ Receive(p) \/ ReceiveMulticast(p)
      BY <3>2, <1>c DEF MulticastMatch, SkipEntry, CopyMade, Copying, Receive, ReceiveMulticast, Locals
    <3> QED
      BY <1>1, <3>1, <3>2 DEF Walks
  <2> QED
    BY <1>c, <2>1, TableStill DEF Asked, Answers, OneInstance
<1>2. CASE Send(p) \/ CopyFails(p) \/ CopyFaults(p) \/ Release(p)
  <2>1. /\ UNCHANGED <<slot, link>>
        /\ call'[p].req = call[p].req /\ call'[p].status = call[p].status
        /\ call'[p].ret = call[p].ret
        /\ pc[p] \notin {"attach_ip", "attach_mac"} /\ pc'[p] \notin {"attach_ip", "attach_mac"}
    BY <1>2, <1>c DEF Send, CopyFails, CopyFaults, Copying, Release, Locals
  <2> QED
    BY <1>c, <2>1, TableStill DEF Asked, Answers, OneInstance
<1> QED
  BY <1>1, <1>2

LEMMA WalkLabels ==
  ASSUME Known, NEW p \in Ips, Walks(p)
  PROVE  pc[p] \in OutLabels /\ pc'[p] \in OutLabels /\ Phases' = Phases
<1> USE DEF Goto
<1>c. pc \in [Ips -> UsedLabels] /\ OneInstance
  BY DEF Known, CallInv, TypeOK
<1>1. pc[p] \in OutLabels /\ pc'[p] \in OutLabels
  BY <1>c DEF Walks, OutSkip, OutPick, OutNextIp, OutMatch, MulticastMatch, MulticastEnd, SkipEntry,
    CopyMade, Copying, Receive, ReceiveMulticast, OutEnd, OutLabels
<1>2. PhaseOf(p) = "sending" /\ PhaseOf(p)' = "sending"
  BY <1>1, PhaseIs, PhaseIsNext DEF PhaseFact, PacketLabels
<1> QED
  BY <1>1, <1>2, <1>c DEF Phases, OneInstance

LEMMA WalkUnseen ==
  ASSUME Known, Known', NEW p \in Ips, Walks(p), ~Delivers(p)
  PROVE  UNCHANGED Ethernet!vars
<1>1. pc[p] \in OutLabels /\ pc'[p] \in OutLabels /\ Phases' = Phases
  BY WalkLabels
<1>2. SameTable /\ link' = link /\ call'[p].req = call[p].req /\ Asked' = Asked /\ Answers' = Answers
  BY OutputFrame
<1>3. call'[p].delivered = call[p].delivered
  BY DeliveredKept DEF Known, Walks, Step, Return, OutSkip, OutPick, OutNextIp, OutMatch,
    MulticastMatch, MulticastEnd, CopyMade, Copying, Receive, ReceiveMulticast, OutEnd
<1>4. \A n \in Ifaces : Owed(p, n)' = Owed(p, n)
  BY <1>1, <1>2, <1>3, DueKept DEF Owed, CopiesFor
<1>5. Owes' = Owes
  BY <1>4 DEF Owes, Known, OneInstance
<1> QED
  BY <1>1, <1>2, <1>5 DEF SameTable, Ethernet!vars

LEMMA DeliverStep ==
  ASSUME Known, Known', NEW p \in Ips, Delivers(p)
  PROVE  Ethernet!Deliver(p)
<1>1. Walks(p) /\ pc[p] \in {"out_receive", "mcast_receive"}
  BY DEF Walks, Delivers, Receive, ReceiveMulticast
<1>2. pc[p] \in OutLabels /\ pc'[p] \in OutLabels /\ Phases' = Phases
  BY <1>1, WalkLabels
<1>3. SameTable /\ link' = link /\ call'[p].req = call[p].req /\ Asked' = Asked /\ Answers' = Answers
  BY <1>1, OutputFrame
<1>4. PICK i \in Slots, n \in Ifaces :
        i = call[p].i /\ n = slot[i].iface /\ n # call[p].req.iface
  <2>1. call[p].i \in Slots /\ Mine(p).iface \in Ifaces \ {call[p].req.iface}
    BY <1>1, PickedSlot DEF Known, Apart, OutLabels
  <2> QED
    BY <2>1 DEF Mine
<1>5. /\ call'[p].delivered = Append(call[p].delivered, Delivery(p))
      /\ call[p].delivered \in Seq(Deliveries)
      /\ Delivery(p) \in Deliveries /\ Delivery(p).iface = n
  BY <1>1, <1>4, Delivered, DeliveryFits DEF Known, Apart
<1>6. \A m \in Ifaces : Copies(call'[p].delivered, m) =
        IF m = n THEN Copies(call[p].delivered, m) + 1 ELSE Copies(call[p].delivered, m)
  BY <1>5, CopiesAppended
<1>7. \A m \in Ifaces : /\ Owed(p, m) = Due(p, m) - Copies(call[p].delivered, m)
                        /\ Owed(p, m)' = Due(p, m) - Copies(call'[p].delivered, m)
  BY <1>2, <1>3, DueKept DEF Owed, CopiesFor, Copies
<1>8. Place(n) = i
  <2>1. ~Attaching(n)
    BY <1>1, CallerPlace
  <2> QED
    BY <1>4, <2>1, PlaceIs DEF PlaceFact, Known
<1>9. Owed(p, n) = Wanted(p, i) - Given(p, i)
  BY <1>2, <1>4, <1>8, OwedIs, PlaceAssumption DEF OwedFact
<1>10. Owed(p, n) > 0 /\ Given(p, i) \in Nat /\ Wanted(p, i) \in Nat
  <2>c. call[p].m \in 0 .. NumEntries /\ call[p].i \in Nat /\ Fits(p, pc[p], call[p])
    BY DEF Known, CallInv, TypeOK, Locals
  <2>1. Counted(p)
    BY DEF Known
  <2>2. CASE pc[p] = "out_receive"
    <3>1. Wanted(p, i) = 1
      BY <1>2, <1>4, <2>1, <2>2 DEF Counted, Wanted, Meant, Accepts, Mine
    <3>2. Given(p, i) = 0
      BY <1>4, <2>2, <2>c DEF Given, Comparing, McastLabels
    <3> QED
      BY <1>9, <3>1, <3>2
  <2>3. CASE pc[p] = "mcast_receive"
    <3>1. Wanted(p, i) = EntriesWith(i, Dst(p)) /\ slot[i].mcast[call[p].m] = Dst(p)
      BY <1>2, <1>4, <2>1, <2>3 DEF Counted, McastLabels, Wanted, Meant, Accepts, Entry, Mine
    <3>2. Given(p, i) = Cardinality(Passed(p, i))
      BY <1>4, <2>3, <2>c DEF Given, Comparing, McastLabels
    <3>3. HasEntry(p)
      BY <2>3, <2>c DEF Fits, PlaceFits, HasEntry
    <3>4. Cardinality(Passed(p, i)) < EntriesWith(i, Dst(p))
      BY <2>c, <3>1, <3>3, PassedBounds
    <3>5. Cardinality(Passed(p, i)) \in Nat /\ EntriesWith(i, Dst(p)) \in Nat
      BY EntriesFinite DEF Passed, EntriesWith
    <3> QED
      BY <1>9, <3>1, <3>2, <3>4, <3>5
  <2> QED
    BY <1>1, <2>2, <2>3
<1>11. \A m \in Ifaces : m # n => Owed(p, m)' = Owed(p, m)
  BY <1>6, <1>7
<1>12. Owed(p, n)' = Owed(p, n) - 1
  <2>1. Due(p, n) = Wanted(p, i)
    BY <1>2, <1>4, <1>8, OwedIs, PlaceAssumption DEF OwedFact
  <2>2. Copies(call[p].delivered, n) \in Nat
    <3>1. IsFiniteSet({k \in DOMAIN call[p].delivered : call[p].delivered[k].iface = n})
      <4>1. IsFiniteSet(1 .. Len(call[p].delivered)) /\ DOMAIN call[p].delivered = 1 .. Len(call[p].delivered)
        <5>1. Len(call[p].delivered) \in Nat /\ DOMAIN call[p].delivered = 1 .. Len(call[p].delivered)
          BY <1>5
        <5> QED
          BY <5>1, FS_Interval
      <4> QED
        BY <4>1, FS_Subset
    <3> QED
      BY <3>1, FS_CardinalityType DEF Copies
  <2> QED
    BY <1>6, <1>7, <1>10, <2>1, <2>2
<1>13. Owes' = [Owes EXCEPT ![p][n] = @ - 1] /\ Owes[p][n] > 0
  BY <1>10, <1>11, <1>12 DEF Owes, Known, OneInstance
<1>14. Phases[p] = "sending"
  BY <1>2, PhaseIs DEF PhaseFact, PacketLabels, Phases
<1> QED
  BY <1>2, <1>3, <1>13, <1>14 DEF SameTable, Ethernet!Deliver

LEMMA GiveUpStep ==
  ASSUME Known, Known', NEW p \in Ips, CopyFails(p) \/ CopyFaults(p)
  PROVE  Ethernet!GiveUp(p)
<1>c. pc \in [Ips -> UsedLabels] /\ OneInstance
  BY DEF Known, CallInv, TypeOK
<1>1. pc[p] \in OutLabels /\ pc'[p] \in {"release_early", "fault"}
  BY <1>c DEF CopyFails, CopyFaults, Copying, Goto, OutLabels
<1>2. SameTable /\ link' = link /\ Asked' = Asked /\ Answers' = Answers
  BY OutputFrame
<1>3. PhaseOf(p) = "sending" /\ PhaseOf(p)' = "sending"
  BY <1>1, PhaseIs, PhaseIsNext DEF PhaseFact, PacketLabels
<1>4. Phases' = Phases /\ Phases[p] = "sending"
  BY <1>3, <1>c DEF Phases, OneInstance
<1>5. \A n \in Ifaces : Owed(p, n)' = 0
  BY <1>1, NothingOwed DEF OutLabels
<1>6. Owes' = [Owes EXCEPT ![p] = [n \in Ifaces |-> 0]]
  BY <1>5, <1>c DEF Owes, OneInstance
<1> QED
  BY <1>2, <1>4, <1>6 DEF SameTable, Ethernet!GiveUp, Ethernet!Nothing

LEMMA SentStep ==
  ASSUME Known, Known', NEW p \in Ips, Release(p)
  PROVE  Ethernet!Sent(p)
<1>c. pc \in [Ips -> UsedLabels] /\ OneInstance
  BY DEF Known, CallInv, TypeOK
<1>1. pc[p] \in {"release", "release_early"} /\ pc'[p] = "return"
  BY <1>c DEF Release, Goto
<1>2. SameTable /\ link' = link /\ Asked' = Asked /\ Answers' = Answers
  BY OutputFrame
<1>3. PhaseOf(p) = "sending" /\ PhaseOf(p)' = "done"
  BY <1>1, PhaseIs, PhaseIsNext DEF PhaseFact, PacketLabels, OutLabels
<1>4. Phases' = [Phases EXCEPT ![p] = "done"] /\ Phases[p] = "sending"
  BY <1>3, <1>c DEF Phases, OneInstance
<1>5. \A n \in Ifaces : Owed(p, n) = 0
  <2>1. CASE pc[p] = "release_early"
    BY <2>1, NothingOwed DEF OutLabels
  <2>2. CASE pc[p] = "release"
    <3> SUFFICES ASSUME NEW n \in Ifaces PROVE Owed(p, n) = 0
      OBVIOUS
    <3>1. pc[p] \in OutLabels
      BY <2>2 DEF OutLabels
    <3>2. CASE Place(n) = NoPlace \/ n = call[p].req.iface
      BY <3>1, <3>2, OwedIs DEF OwedFact
    <3>3. CASE Place(n) # NoPlace /\ n # call[p].req.iface
      <4>1. PICK s \in Slots : s = Place(n)
        BY <3>1, <3>3, OwedIs DEF OwedFact
      <4>2. Owed(p, n) = Wanted(p, s) - Given(p, s)
        BY <3>1, <3>3, <4>1, OwedIs DEF OwedFact
      <4>3. Fits(p, pc[p], call[p])
        BY DEF Known, CallInv
      <4>4. Given(p, s) = Wanted(p, s)
        BY <2>2, <4>3, SizeAssumption DEF Fits, PlaceFits, Given, Slots
      <4>5. Wanted(p, s) \in Nat
        BY EntriesFinite DEF Wanted, EntriesWith
      <4> QED
        BY <4>2, <4>4, <4>5
    <3> QED
      BY <3>2, <3>3
  <2> QED
    BY <1>1, <2>1, <2>2
<1>6. \A n \in Ifaces : Owed(p, n)' = 0
  BY <1>1, NothingOwed DEF OutLabels
<1>7. Owes' = Owes /\ Owes[p] = [n \in Ifaces |-> 0]
  BY <1>5, <1>6, <1>c DEF Owes, OneInstance
<1> QED
  BY <1>2, <1>4, <1>7 DEF SameTable, Ethernet!Sent, Ethernet!Nothing

LEMMA SendStep ==
  ASSUME Known, Known', NEW p \in Ips, Send(p)
  PROVE  Ethernet!Send(p)
<1>c. OneInstance /\ CallInv /\ NothingYet(p)
  BY DEF Known
<1>1. /\ pc[p] = "PACKET_SEND" /\ pc'[p] = "out_in_use" /\ call'[p].delivered = << >>
  BY <1>c, SendStarts DEF Send
<1>2. SameTable /\ link' = link /\ call'[p].req = call[p].req /\ Asked' = Asked /\ Answers' = Answers
  BY OutputFrame
<1>3. PhaseOf(p) = "called" /\ PhaseOf(p)' = "sending"
  BY <1>1, PhaseIs, PhaseIsNext DEF PhaseFact, PacketLabels, OutLabels
<1>4. Phases' = [Phases EXCEPT ![p] = "sending"] /\ Phases[p] = "called"
  BY <1>3, <1>c DEF Phases, OneInstance
<1>5. Fits(p, pc[p], call[p]) /\ Ethernet!Here(p)
  BY <1>1, CommandAt, IsHere DEF CaseLabels
<1>6. Asked[p] = call[p].req /\ Asked[p].cmd \in SendCommands
  BY <1>1, <1>5 DEF Fits, RequestFits, Asked
<1>7. ASSUME NEW n \in Ifaces PROVE Owed(p, n)' = Ethernet!Copies(n, Asked[p])
  <2>1. Due(p, n)' = Due(p, n)
    BY <1>2, DueKept
  <2>2. CopiesFor(p, n)' = 0
    BY <1>1, NoCopies DEF CopiesFor, Copies
  <2>3. Owed(p, n)' = Due(p, n)' - CopiesFor(p, n)'
    BY <1>1 DEF Owed, OutLabels
  <2>4. Due(p, n) = Ethernet!Copies(n, Asked[p])
    BY <1>6 DEF Due, Dst, Ethernet!Copies, Ethernet!Attached, Places, IfaceMacs, Memberships
  <2>5. Due(p, n) \in Nat
    <3>1. \A s, a : EntriesWith(s, a) \in Nat
      BY EntriesFinite DEF EntriesWith
    <3>2. Dst(p) \in Addresses
      BY <1>1, CallerPlace DEF Request, Dst
    <3> QED
      BY <3>1, <3>2 DEF Due, Joined
  <2> QED
    BY <2>1, <2>2, <2>3, <2>4, <2>5
<1>8. Owes' = [Owes EXCEPT ![p] = [n \in Ifaces |-> Ethernet!Copies(n, Asked[p])]]
  BY <1>7, <1>c DEF Owes, OneInstance
<1> QED
  BY <1>2, <1>4, <1>5, <1>6, <1>8, SameNames DEF SameTable, Ethernet!Send

LEMMA CallBegins ==
  ASSUME Known, Known', NEW p \in Ips, NEW r \in Requests, Call(p, r)
  PROVE  Ethernet!Call(p, r)
<1>c. pc \in [Ips -> UsedLabels] /\ call \in [Ips -> Locals] /\ OneInstance /\ r \in Request
  BY RequestAssumption DEF Known, CallInv, TypeOK
<1>1. /\ pc[p] = "idle" /\ pc'[p] \in {"attach_find", "lookup"} /\ UNCHANGED <<slot, link>>
      /\ call'[p] = Fresh(r) /\ IpOf[r.iface] = p
      /\ r.cmd = "INTERFACE_ATTACH" => r.iface \notin valid
  BY <1>c DEF Call, Goto
<1>2. SameTable
  BY <1>1, TableStill
<1>3. call[p].status = NX_SUCCESS /\ call[p].ret = "none"
  BY <1>1, CommandAt
<1>4. PhaseOf(p) = "idle" /\ PhaseOf(p)' = "called"
  BY <1>1, PhaseIs, PhaseIsNext DEF PhaseFact, PacketLabels, OutLabels
<1>5. Phases' = [Phases EXCEPT ![p] = "called"] /\ Phases[p] = "idle"
  BY <1>4, <1>c DEF Phases, OneInstance
<1>6. Asked' = [Asked EXCEPT ![p] = r] /\ Answers' = Answers
  BY <1>1, <1>3, <1>c DEF Asked, Answers, Fresh, OneInstance
<1>7. \A n \in Ifaces : Owed(p, n) = 0 /\ Owed(p, n)' = 0
  BY <1>1, NothingOwed DEF OutLabels
<1>8. Owes' = Owes
  BY <1>7, <1>c DEF Owes, OneInstance
<1>9. ASSUME r.cmd = "INTERFACE_ATTACH" PROVE ~Ethernet!Attached(r.iface)
  <2>1. r.iface \in Ifaces /\ r.iface \notin valid
    BY <1>1, <1>9, <1>c DEF Request
  <2>2. ~Held(r.iface)
    BY <1>1, <2>1 DEF Known, Table, ValidHeld, Restructures
  <2>3. ~Building(p)
    BY <1>1 DEF Building
  <2>4. ~Listed(r.iface)
    BY <2>1, <2>2, <2>3, ListedIsHeld DEF Listed, Held, Holds
  <2>5. Place(r.iface) = NoPlace
    BY <2>1, <2>4, PlaceIs DEF PlaceFact, Known
  <2> QED
    BY <2>1, <2>5 DEF Ethernet!Attached, Places
<1> QED
  BY <1>1, <1>2, <1>5, <1>6, <1>8, <1>9 DEF SameTable, Ethernet!Call

LEMMA CallReturns ==
  ASSUME Known, Known', NEW p \in Ips, Return(p)
  PROVE  Ethernet!Return(p)
<1>c. pc \in [Ips -> UsedLabels] /\ call \in [Ips -> Locals] /\ OneInstance
  BY DEF Known, CallInv, TypeOK
<1>1. pc[p] = "return" /\ pc'[p] = "idle" /\ UNCHANGED <<slot, link>> /\ call'[p] = Idle
  BY <1>c DEF Return, Goto
<1>2. SameTable
  BY <1>1, TableStill
<1>4. PhaseOf(p) = "done" /\ PhaseOf(p)' = "idle"
  BY <1>1, PhaseIs, PhaseIsNext DEF PhaseFact, PacketLabels, OutLabels
<1>5. Phases' = [Phases EXCEPT ![p] = "idle"] /\ Phases[p] = "done"
  BY <1>4, <1>c DEF Phases, OneInstance
<1>6. /\ Asked' = [Asked EXCEPT ![p] = NoRequest]
      /\ Answers' = [Answers EXCEPT ![p] = [status |-> NX_SUCCESS, ret |-> "none"]]
  <2>1. call'[p].req = NoRequest /\ call'[p].status = NX_SUCCESS /\ call'[p].ret = "none"
    BY <1>1 DEF Idle, Fresh
  <2> QED
    BY <1>c, <2>1, OnlyCaller
<1>7. \A n \in Ifaces : Owed(p, n) = 0 /\ Owed(p, n)' = 0
  BY <1>1, NothingOwed DEF OutLabels
<1>8. Owes' = Owes
  BY <1>7, <1>c DEF Owes, OneInstance
<1> QED
  BY <1>1, <1>2, <1>5, <1>6, <1>8, SameNames DEF SameTable, Ethernet!Return, Ethernet!NoAnswer

LEMMA SegmentInit == Init => Ethernet!Init
<1> SUFFICES ASSUME Init PROVE Ethernet!Init
  OBVIOUS
<1>1. \A n \in Ifaces : IpOf[n] \in Ips /\ ~Attaching(n) /\ Place(n) = NoPlace
  BY InterfaceAssumption DEF Init, FreeSlot, Attaching, Place
<1>2. \A n \in Ifaces : /\ MacOf(n) = ZeroMac /\ Room(n) = NumEntries
                        /\ Joined(n) = [a \in Addresses |-> 0]
  BY <1>1 DEF MacOf, Room, Joined
<1>3. /\ Places = [n \in Ifaces |-> NoPlace] /\ IfaceMacs = [n \in Ifaces |-> ZeroMac]
      /\ Rooms = [n \in Ifaces |-> NumEntries]
      /\ Memberships = [n \in Ifaces |-> [a \in Addresses |-> 0]]
  BY <1>1, <1>2 DEF Places, IfaceMacs, Rooms, Memberships
<1>4. \A p \in Ips : pc[p] = "idle" /\ call[p] = Idle
  BY DEF Init
<1>5. \A p \in Ips : PhaseOf(p) = "idle"
  BY <1>4, PhaseIs DEF PhaseFact, PacketLabels, OutLabels
<1>6. \A p \in Ips : \A n \in Ifaces : Owed(p, n) = 0
  BY <1>4 DEF Owed, OutLabels
<1>7. /\ Phases = [p \in Ips |-> "idle"] /\ Asked = [p \in Ips |-> NoRequest]
      /\ Answers = [p \in Ips |-> [status |-> NX_SUCCESS, ret |-> "none"]]
      /\ Owes = [p \in Ips |-> [n \in Ifaces |-> 0]]
  BY <1>4, <1>5, <1>6 DEF Phases, Asked, Answers, Owes, Idle, Fresh
<1>8. link = [n \in Ifaces |-> FALSE]
  BY DEF Init
<1> QED
  BY <1>3, <1>7, <1>8, SameNames DEF Ethernet!Init, Ethernet!None, Ethernet!Nothing, Ethernet!NoAnswer

LEMMA SegmentStep ==
  ASSUME Known, Known', GroupsNamed, [Next]_vars
  PROVE  [Ethernet!Next]_(Ethernet!vars)
<1>1. CASE UNCHANGED vars
  <2>1. /\ \A n \in Ifaces : Attaching(n)' = Attaching(n)
        /\ \A s \in Slots : slot'[s] = slot[s]
    BY <1>1 DEF vars, Attaching
  <2>2. SameTable
    BY <2>1, TableAsBefore
  <2>3. \A p \in Ips : \A n \in Ifaces : Owed(p, n)' = Owed(p, n)
    BY <1>1, <2>2, DueKept DEF vars, Owed, CopiesFor
  <2>4. Phases' = Phases /\ Asked' = Asked /\ Answers' = Answers /\ Owes' = Owes /\ link' = link
    BY <1>1, <2>3 DEF vars, Phases, PhaseOf, Asked, Answers, Owes
  <2> QED
    BY <2>2, <2>4 DEF SameTable, Ethernet!vars
<1>2. ASSUME NEW p \in Ips, NEW r \in Requests, Call(p, r) PROVE Ethernet!Next
  BY <1>2, CallBegins DEF Ethernet!Next
<1>3. ASSUME NEW p \in Ips, Step(p) PROVE [Ethernet!Next]_(Ethernet!vars)
  <2>1. CASE \/ LookupHit(p) \/ LookupNext(p) \/ AttachFind(p) \/ AttachInUse(p) \/ AttachIface(p)
             \/ AttachIp(p) \/ ResetInUse(p) \/ SetAddress(p) \/ SetAddressNext(p)
             \/ (Join(p) \/ Leave(p)) /\ SkipEntry(p)
    BY <2>1, SearchUnseen
  <2>2. CASE LookupMiss(p) \/ AttachFull(p) \/ JoinFull(p) \/ LeaveMiss(p) \/ SetAddressMiss(p)
    BY <2>2, RefusalAnswers DEF Ethernet!Next
  <2>3. CASE \/ Initialize(p) \/ GetStatus(p) \/ GetCount(p) \/ GetInterfaceType(p)
             \/ DeferredProcessing(p) \/ Unhandled(p)
    BY <2>3, QueryAnswers DEF Ethernet!Next
  <2>4. CASE Enable(p) \/ Disable(p)
    BY <2>4, LinkAnswers DEF Ethernet!Next
  <2>5. CASE AttachMac(p) \/ ResetRest(p) \/ SetAddressHit(p)
    BY <2>5, AttachAnswers, DetachAnswers, SetAnswers DEF Ethernet!Next
  <2>6. CASE (Join(p) \/ Leave(p)) /\ ~SkipEntry(p)
    BY <2>6, JoinAnswers, LeaveAnswers DEF Ethernet!Next
  <2>7. CASE Send(p) \/ CopyFails(p) \/ CopyFaults(p) \/ Release(p)
    BY <2>7, SendStep, GiveUpStep, SentStep DEF Ethernet!Next
  <2>8. CASE Delivers(p)
    BY <2>8, DeliverStep DEF Ethernet!Next
  <2>9. CASE Walks(p) /\ ~Delivers(p)
    BY <2>9, WalkUnseen
  <2>10. CASE Return(p)
    BY <2>10, CallReturns DEF Ethernet!Next
  <2> QED
    BY <1>3, <2>1, <2>2, <2>3, <2>4, <2>5, <2>6, <2>7, <2>8, <2>9, <2>10 DEF Step, Walks
<1> QED
  BY <1>1, <1>2, <1>3 DEF Next

(* The driver of one IP instance, for every number of interfaces, slots and*)
(* entries: each frame reaches exactly the interfaces it is for, as often  *)
(* as they have joined its group, groups of one interface do not mix with  *)
(* those of another or of the slot's last owner, and a full table refuses  *)
(* without disturbing anyone.                                              *)
THEOREM EthernetRefinement ==
  ASSUME OneInstance, GroupsNamed PROVE Spec => ImplementsVirtualEthernet
<1>1. Known /\ Known' /\ [Next]_vars => [Ethernet!Next]_(Ethernet!vars)
  BY SegmentStep
<1>2. Spec => []Known
  BY KnownInvariant
<1> QED
  BY <1>1, <1>2, SegmentInit, PTL DEF Spec, ImplementsVirtualEthernet, Ethernet!Spec
===============================================================================
