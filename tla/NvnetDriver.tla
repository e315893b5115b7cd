----------------------------- MODULE NvnetDriver -----------------------------
(***************************************************************************)
(* nx_nvnet_network_driver.c: a table of driver instances (slots), one per *)
(* attached interface, and the command entry point NetX calls.  A send     *)
(* prepends the Ethernet header, walks the table, gives every other slot   *)
(* that accepts the destination a copy of the frame, strips the header and *)
(* releases the packet.                                                    *)
(*                                                                         *)
(* NetX lets one call at a time into the driver per IP instance; calls of  *)
(* different instances interleave, for the driver takes no lock of its own *)
(* and tx_thread_preemption_change, which output calls "to disable         *)
(* preemption", does nothing in glue.c.  Each access to the table is a     *)
(* step.  An operator whose name starts with Mut is a broken variant of    *)
(* the definition after it; no specification uses it.                      *)
(***************************************************************************)
EXTENDS NetxApi, FiniteSets, Sequences

CONSTANTS
  Requests,   (* the requests NetX makes                                  *)
  NoPlace,    (* the place of an interface that is not attached           *)
  Scenarios   (* what the callers may do: the requests they make, and the *)
              (* commands they never let overlap with another call        *)

ASSUME PlaceAssumption == NoPlace \notin Slots
ASSUME RequestAssumption == Requests \subseteq Request
ASSUME ScenarioAssumption ==
  Scenarios \subseteq [asks : SUBSET Requests, alone : SUBSET Commands]

VARIABLES
  slot,       (* nx_nvnet_driver[]; its member _driver_id is never read   *)
  link,       (* nx_interface_link_up of each interface                   *)
  valid,      (* the interfaces NetX has attached                         *)
  pc,         (* where the call of each IP instance is                    *)
  call,       (* its request and locals                                   *)
  scenario    (* what the callers do; chosen once                         *)

vars == <<slot, link, valid, pc, call, scenario>>

Slot == [in_use : BOOLEAN,
         iface  : Ifaces \cup {NoIface},
         ip     : Ips \cup {NoIp},
         mac    : Addresses,
         mcast  : [Entries -> Addresses]]

FreeSlot == [in_use |-> FALSE, iface |-> NoIface, ip |-> NoIp, mac |-> ZeroMac,
             mcast |-> [e \in Entries |-> ZeroMac]]

(* The locals of the driver, of output and of receive, the state of the    *)
(* caller's packet (headers prepended, times released), and the copies     *)
(* handed to NetX during the call.                                         *)
Fresh(r) == [req |-> r, i |-> 0, m |-> 0, inst |-> 0, next |-> NoIp,
             status |-> NX_SUCCESS, ret |-> "none", header |-> 0, released |-> 0,
             delivered |-> << >>]

(* No call in progress: the locals are gone.                               *)
Idle == Fresh(NoRequest)

Init ==
  /\ slot = [s \in Slots |-> FreeSlot]
  /\ link = [n \in Ifaces |-> FALSE]
  /\ valid = {}
  /\ pc = [p \in Ips |-> "idle"]
  /\ call = [p \in Ips |-> Idle]
  /\ scenario \in Scenarios

Goto(p, label) == pc' = [pc EXCEPT ![p] = label]

Finish(p, status) ==
  /\ Goto(p, "return")
  /\ call' = [call EXCEPT ![p].status = status]

Mine(p) == slot[call[p].i]
InTable(p) == call[p].i \in Slots
Dst(p) == call[p].req.addr

(***************************************************************************)
(* Entry, the search for the caller's slot, and the return                 *)
(***************************************************************************)
Call(p, r) ==
  /\ pc[p] = "idle"
  /\ IpOf[r.iface] = p
  /\ r.cmd = "INTERFACE_ATTACH" => r.iface \notin valid
  /\ r \in scenario.asks
  /\ \A q \in Ips : pc[q] # "idle" => {r.cmd, call[q].req.cmd} \cap scenario.alone = {}
  /\ Goto(p, IF r.cmd = "INTERFACE_ATTACH" THEN "attach_find" ELSE "lookup")
  /\ call' = [call EXCEPT ![p] = Fresh(r)]
  /\ UNCHANGED <<slot, link, valid>>

(* The label of the switch case of a command.                              *)
Case(cmd) ==
  CASE cmd \in SendCommands  -> "PACKET_SEND"
    [] cmd \in ResetCommands -> "INTERFACE_DETACH"
    [] cmd \in CountCommands -> "GET_COUNT"
    [] OTHER                 -> cmd

IsMine(p) ==
  /\ Mine(p).in_use
  /\ Mine(p).ip = p
  /\ Mine(p).iface = call[p].req.iface

LookupHit(p) ==
  /\ pc[p] = "lookup" /\ InTable(p) /\ IsMine(p)
  /\ Goto(p, Case(call[p].req.cmd))
  /\ UNCHANGED <<slot, link, valid, call>>

LookupNext(p) ==
  /\ pc[p] = "lookup" /\ InTable(p) /\ ~IsMine(p)
  /\ call' = [call EXCEPT ![p].i = @ + 1]
  /\ UNCHANGED <<slot, link, valid, pc>>

LookupMiss(p) ==
  /\ pc[p] = "lookup" /\ ~InTable(p)
  /\ Finish(p, NX_INVALID_INTERFACE)
  /\ UNCHANGED <<slot, link, valid>>

(* The driver returns; NetX notes which interfaces are attached.           *)
Return(p) ==
  LET r == call[p].req
  IN /\ pc[p] = "return"
     /\ Goto(p, "idle")
     /\ call' = [call EXCEPT ![p] = Idle]
     /\ valid' = CASE r.cmd = "INTERFACE_ATTACH" /\ call[p].status = NX_SUCCESS
                                              -> valid \cup {r.iface}
                   [] r.cmd \in ResetCommands -> valid \ {r.iface}
                   [] OTHER                   -> valid
     /\ UNCHANGED <<slot, link>>

(***************************************************************************)
(* Attach and detach.  The members of a slot are written one by one.       *)
(***************************************************************************)
AttachFind(p) ==
  /\ pc[p] = "attach_find" /\ InTable(p)
  /\ IF Mine(p).in_use
     THEN call' = [call EXCEPT ![p].i = @ + 1] /\ UNCHANGED pc
     ELSE Goto(p, "attach_in_use") /\ UNCHANGED call
  /\ UNCHANGED <<slot, link, valid>>

AttachFull(p) ==
  /\ pc[p] = "attach_find" /\ ~InTable(p)
  /\ Finish(p, NX_INVALID_INTERFACE)
  /\ UNCHANGED <<slot, link, valid>>

AttachInUse(p) ==
  /\ pc[p] = "attach_in_use"
  /\ slot' = [slot EXCEPT ![call[p].i].in_use = TRUE]
  /\ Goto(p, "attach_iface")
  /\ UNCHANGED <<link, valid, call>>

AttachIface(p) ==
  /\ pc[p] = "attach_iface"
  /\ slot' = [slot EXCEPT ![call[p].i].iface = call[p].req.iface]
  /\ Goto(p, "attach_ip")
  /\ UNCHANGED <<link, valid, call>>

AttachIp(p) ==
  /\ pc[p] = "attach_ip"
  /\ slot' = [slot EXCEPT ![call[p].i].ip = p]
  /\ Goto(p, "attach_mac")
  /\ UNCHANGED <<link, valid, call>>

AttachMac(p) ==
  /\ pc[p] = "attach_mac"
  /\ slot' = [slot EXCEPT ![call[p].i].mac = BaseMac[call[p].i]]
  /\ Finish(p, NX_SUCCESS)
  /\ UNCHANGED <<link, valid>>

(* DETACH and UNINITIALIZE: memset of the slot, lowest address first.      *)
ResetInUse(p) ==
  /\ pc[p] = "INTERFACE_DETACH"
  /\ slot' = [slot EXCEPT ![call[p].i].in_use = FALSE]
  /\ Goto(p, "reset_rest")
  /\ UNCHANGED <<link, valid, call>>

MutResetRestKeepsGroups(p) ==
  /\ pc[p] = "reset_rest"
  /\ slot' = [slot EXCEPT ![call[p].i].iface = NoIface, ![call[p].i].ip = NoIp,
                          ![call[p].i].mac = ZeroMac]
  /\ Finish(p, NX_SUCCESS)
  /\ UNCHANGED <<link, valid>>

ResetRest(p) ==
  /\ pc[p] = "reset_rest"
  /\ slot' = [slot EXCEPT ![call[p].i] = [FreeSlot EXCEPT !.in_use = Mine(p).in_use]]
  /\ Finish(p, NX_SUCCESS)
  /\ UNCHANGED <<link, valid>>

(***************************************************************************)
(* The commands that are one step                                          *)
(***************************************************************************)

(* nx_ip_interface_physical_address_set is told the slot's address.        *)
Initialize(p) ==
  /\ pc[p] = "INITIALIZE"
  /\ Goto(p, "return")
  /\ call' = [call EXCEPT ![p].ret = Mine(p).mac]
  /\ UNCHANGED <<slot, link, valid>>

Enable(p) ==
  /\ pc[p] = "ENABLE"
  /\ link' = [link EXCEPT ![call[p].req.iface] = TRUE]
  /\ Finish(p, NX_SUCCESS)
  /\ UNCHANGED <<slot, valid>>

Disable(p) ==
  /\ pc[p] = "DISABLE"
  /\ link' = [link EXCEPT ![call[p].req.iface] = FALSE]
  /\ Finish(p, NX_SUCCESS)
  /\ UNCHANGED <<slot, valid>>

GetStatus(p) ==
  /\ pc[p] = "GET_STATUS"
  /\ Goto(p, "return")
  /\ call' = [call EXCEPT ![p].ret = IF link[FirstIface[p]] THEN "up" ELSE "down"]
  /\ UNCHANGED <<slot, link, valid>>

(* The unsupported queries answer a constant.                              *)
GetCount(p) ==
  /\ pc[p] = "GET_COUNT"
  /\ Goto(p, "return")
  /\ call' = [call EXCEPT ![p].ret = "zero"]
  /\ UNCHANGED <<slot, link, valid>>

GetInterfaceType(p) ==
  /\ pc[p] = "GET_INTERFACE_TYPE"
  /\ Goto(p, "return")
  /\ call' = [call EXCEPT ![p].ret = "unknown_type"]
  /\ UNCHANGED <<slot, link, valid>>

DeferredProcessing(p) ==
  /\ pc[p] = "DEFERRED_PROCESSING"
  /\ Finish(p, NX_SUCCESS)
  /\ UNCHANGED <<slot, link, valid>>

Unhandled(p) ==
  /\ pc[p] = "UNKNOWN_COMMAND"
  /\ Finish(p, NX_UNHANDLED_COMMAND)
  /\ UNCHANGED <<slot, link, valid>>

(* A second search, for the interface alone, in use or not.                *)
SetAddress(p) ==
  /\ pc[p] = "SET_PHYSICAL_ADDRESS"
  /\ call' = [call EXCEPT ![p].i = 0]
  /\ Goto(p, "set_find")
  /\ UNCHANGED <<slot, link, valid>>

SetAddressNext(p) ==
  /\ pc[p] = "set_find" /\ InTable(p) /\ Mine(p).iface # call[p].req.iface
  /\ call' = [call EXCEPT ![p].i = @ + 1]
  /\ UNCHANGED <<slot, link, valid, pc>>

SetAddressHit(p) ==
  /\ pc[p] = "set_find" /\ InTable(p) /\ Mine(p).iface = call[p].req.iface
  /\ slot' = [slot EXCEPT ![call[p].i].mac = Dst(p)]
  /\ Finish(p, NX_SUCCESS)
  /\ UNCHANGED <<link, valid>>

SetAddressMiss(p) ==
  /\ pc[p] = "set_find" /\ ~InTable(p)
  /\ Finish(p, NX_INVALID_INTERFACE)
  /\ UNCHANGED <<slot, link, valid>>

(***************************************************************************)
(* Multicast membership: a table of entries, zero when free                *)
(***************************************************************************)
HasEntry(p) == call[p].m \in Entries
Entry(p) == Mine(p).mcast[call[p].m]

SkipEntry(p) ==
  /\ call' = [call EXCEPT ![p].m = @ + 1]
  /\ UNCHANGED <<slot, link, valid, pc>>

WriteEntry(p, mac) ==
  /\ slot' = [slot EXCEPT ![call[p].i].mcast[call[p].m] = mac]
  /\ Finish(p, NX_SUCCESS)
  /\ UNCHANGED <<link, valid>>

Join(p) ==
  /\ pc[p] = "MULTICAST_JOIN" /\ HasEntry(p)
  /\ IF Entry(p) = ZeroMac THEN WriteEntry(p, Dst(p)) ELSE SkipEntry(p)

JoinFull(p) ==
  /\ pc[p] = "MULTICAST_JOIN" /\ ~HasEntry(p)
  /\ Finish(p, NX_NO_MORE_ENTRIES)
  /\ UNCHANGED <<slot, link, valid>>

Leave(p) ==
  /\ pc[p] = "MULTICAST_LEAVE" /\ HasEntry(p)
  /\ IF Entry(p) = Dst(p) THEN WriteEntry(p, ZeroMac) ELSE SkipEntry(p)

LeaveMiss(p) ==
  /\ pc[p] = "MULTICAST_LEAVE" /\ ~HasEntry(p)
  /\ Finish(p, NX_ENTRY_NOT_FOUND)
  /\ UNCHANGED <<slot, link, valid>>

(***************************************************************************)
(* Send, _nx_nvnet_network_driver_output and _nx_nvnet_network_driver_     *)
(* receive                                                                 *)
(***************************************************************************)
Send(p) ==
  /\ pc[p] = "PACKET_SEND"
  /\ call' = [call EXCEPT ![p].header = @ + 1, ![p].inst = call[p].i, ![p].i = 0]
  /\ Goto(p, "out_in_use")
  /\ UNCHANGED <<slot, link, valid>>

MutSkipsFreeOnly(p) == ~Mine(p).in_use
MutSkipsSenderOnly(p) == call[p].i = call[p].inst

Skips(p) == call[p].i = call[p].inst \/ ~Mine(p).in_use

OutSkip(p) ==
  /\ pc[p] = "out_in_use" /\ InTable(p) /\ Skips(p)
  /\ call' = [call EXCEPT ![p].i = @ + 1]
  /\ UNCHANGED <<slot, link, valid, pc>>

OutPick(p) ==
  /\ pc[p] = "out_in_use" /\ InTable(p) /\ ~Skips(p)
  /\ Goto(p, "out_next_ip")
  /\ UNCHANGED <<slot, link, valid, call>>

OutNextIp(p) ==
  /\ pc[p] = "out_next_ip"
  /\ call' = [call EXCEPT ![p].next = Mine(p).ip]
  /\ Goto(p, "out_match")
  /\ UNCHANGED <<slot, link, valid>>

MutAcceptsEveryoneOnly(p) == Dst(p) \in Everyone

Accepts(p) == Dst(p) \in Everyone \cup {Mine(p).mac}

MutOutMatchKeepsIndex(p) ==
  /\ pc[p] = "out_match"
  /\ Goto(p, IF Accepts(p) THEN "out_copy" ELSE "mcast_match")
  /\ UNCHANGED <<slot, link, valid, call>>

OutMatch(p) ==
  /\ pc[p] = "out_match"
  /\ Goto(p, IF Accepts(p) THEN "out_copy" ELSE "mcast_match")
  /\ call' = [call EXCEPT ![p].m = 0]
  /\ UNCHANGED <<slot, link, valid>>

MulticastMatch(p) ==
  /\ pc[p] = "mcast_match" /\ HasEntry(p)
  /\ IF Entry(p) = Dst(p)
     THEN Goto(p, "mcast_copy") /\ UNCHANGED <<slot, link, valid, call>>
     ELSE SkipEntry(p)

MulticastEnd(p) ==
  /\ pc[p] = "mcast_match" /\ ~HasEntry(p)
  /\ call' = [call EXCEPT ![p].i = @ + 1]
  /\ Goto(p, "out_in_use")
  /\ UNCHANGED <<slot, link, valid>>

Copying(p) == pc[p] \in {"out_copy", "mcast_copy"}

(* nx_packet_copy takes a packet from the pool of next_ip, without waiting.*)
CopyMade(p) ==
  /\ Copying(p) /\ call[p].next # NoIp
  /\ Goto(p, IF pc[p] = "out_copy" THEN "out_receive" ELSE "mcast_receive")
  /\ UNCHANGED <<slot, link, valid, call>>

MutCopyFailsGoesOn(p) ==
  /\ Copying(p) /\ call[p].next # NoIp
  /\ call' = [call EXCEPT ![p].header = 0, ![p].released = @ + 1, ![p].i = @ + 1]
  /\ Goto(p, "out_in_use")
  /\ UNCHANGED <<slot, link, valid>>

MutCopyFailsLeaks(p) ==
  /\ Copying(p) /\ call[p].next # NoIp
  /\ Goto(p, "return")
  /\ UNCHANGED <<slot, link, valid, call>>

(* No packet is left: output gives up the slots it has not come to.        *)
CopyFails(p) ==
  /\ Copying(p) /\ call[p].next # NoIp
  /\ Goto(p, "release_early")
  /\ UNCHANGED <<slot, link, valid, call>>

(* next_ip is null and is dereferenced: the thread faults and stops here.  *)
CopyFaults(p) ==
  /\ Copying(p) /\ call[p].next = NoIp
  /\ Goto(p, "fault")
  /\ UNCHANGED <<slot, link, valid, call>>

(* The copy, its header stripped, goes to the receive queue of its type.   *)
Delivery(p) == [ip    |-> call[p].next,
                iface |-> Mine(p).iface,
                queue |-> Queue(EtherType(call[p].req))]

Receive(p) ==
  /\ pc[p] = "out_receive"
  /\ call' = [call EXCEPT ![p].delivered = Append(@, Delivery(p)), ![p].i = @ + 1]
  /\ Goto(p, "out_in_use")
  /\ UNCHANGED <<slot, link, valid>>

ReceiveMulticast(p) ==
  /\ pc[p] = "mcast_receive"
  /\ call' = [call EXCEPT ![p].delivered = Append(@, Delivery(p)), ![p].m = @ + 1]
  /\ Goto(p, "mcast_match")
  /\ UNCHANGED <<slot, link, valid>>

OutEnd(p) ==
  /\ pc[p] = "out_in_use" /\ ~InTable(p)
  /\ Goto(p, "release")
  /\ UNCHANGED <<slot, link, valid, call>>

Release(p) ==
  /\ pc[p] \in {"release", "release_early"}
  /\ call' = [call EXCEPT ![p].header = @ - 1, ![p].released = @ + 1]
  /\ Goto(p, "return")
  /\ UNCHANGED <<slot, link, valid>>

Step(p) ==
  \/ LookupHit(p) \/ LookupNext(p) \/ LookupMiss(p) \/ Return(p)
  \/ AttachFind(p) \/ AttachFull(p) \/ AttachInUse(p)
  \/ AttachIface(p) \/ AttachIp(p) \/ AttachMac(p)
  \/ ResetInUse(p) \/ ResetRest(p)
  \/ Initialize(p) \/ Enable(p) \/ Disable(p)
  \/ GetStatus(p) \/ GetCount(p) \/ GetInterfaceType(p)
  \/ DeferredProcessing(p) \/ Unhandled(p)
  \/ SetAddress(p) \/ SetAddressNext(p) \/ SetAddressHit(p) \/ SetAddressMiss(p)
  \/ Join(p) \/ JoinFull(p) \/ Leave(p) \/ LeaveMiss(p)
  \/ Send(p) \/ OutSkip(p) \/ OutPick(p) \/ OutNextIp(p) \/ OutMatch(p)
  \/ MulticastMatch(p) \/ MulticastEnd(p)
  \/ CopyMade(p) \/ CopyFails(p) \/ CopyFaults(p)
  \/ Receive(p) \/ ReceiveMulticast(p) \/ OutEnd(p) \/ Release(p)

Next ==
  /\ \E p \in Ips : Step(p) \/ \E r \in Requests : Call(p, r)
  /\ UNCHANGED scenario

Spec == Init /\ [][Next]_vars
-------------------------------------------------------------------------------
(***************************************************************************)
(* Safety                                                                  *)
(***************************************************************************)
OutLabels == {"out_in_use", "out_next_ip", "out_match", "out_copy", "out_receive",
              "mcast_match", "mcast_copy", "mcast_receive", "release"}
Labels == {"idle", "lookup", "return", "fault", "release_early", "set_find", "reset_rest",
           "attach_find", "attach_in_use", "attach_iface", "attach_ip", "attach_mac"}
          \cup OutLabels \cup {Case(cmd) : cmd \in Commands}

Replies == {"none", "up", "down", "zero", "unknown_type"} \cup Addresses
Deliveries == [ip : Ips, iface : Ifaces \cup {NoIface}, queue : Queues]
Locals == [req : Requests \cup {NoRequest}, i : 0 .. NumSlots, m : 0 .. NumEntries,
           inst : Slots, next : Ips \cup {NoIp}, status : Statuses, ret : Replies,
           header : {0, 1}, released : {0, 1}, delivered : Seq(Deliveries)]

TypeOK ==
  /\ slot \in [Slots -> Slot]
  /\ link \in [Ifaces -> BOOLEAN]
  /\ valid \in SUBSET Ifaces
  /\ pc \in [Ips -> Labels]
  /\ call \in [Ips -> Locals]

(***************************************************************************)
(* The packet of a send belongs to the driver from the moment it has its   *)
(* header until the one moment it is released, its header gone again,      *)
(* whether the walk ended or a copy failed; a packet the driver refused is *)
(* still as the caller handed it down.                                     *)
(***************************************************************************)
PacketAccounted ==
  \A p \in Ips :
    /\ call[p].header = IF pc[p] \in OutLabels \cup {"release_early", "fault"} THEN 1 ELSE 0
    /\ pc[p] = "return" =>
         (call[p].released = 1 <=>
            call[p].req.cmd \in SendCommands /\ call[p].status = NX_SUCCESS)

(* The callers keep attach and detach apart from every other call.         *)
AttachesAlone == ResetCommands \cup {"INTERFACE_ATTACH"} \subseteq scenario.alone

(* And none of these is in progress.                                       *)
Quiet == AttachesAlone /\ \A p \in Ips : pc[p] # "idle" => call[p].req.cmd \notin scenario.alone

Holds(s, n) == slot[s].in_use /\ slot[s].iface = n

(***************************************************************************)
(* Between attaches and detaches the table and NetX agree: every interface *)
(* NetX has attached sits in exactly one slot, with its own IP instance,   *)
(* no other interface does, and a free slot has nothing left of its last   *)
(* owner, above all no multicast address the next owner would inherit.     *)
(***************************************************************************)
TableAgrees ==
  Quiet =>
    /\ \A n \in Ifaces : n \in valid <=> \E s \in Slots : Holds(s, n)
    /\ \A s \in Slots :
         IF slot[s].in_use
         THEN /\ slot[s].ip = IpOf[slot[s].iface]
              /\ \A t \in Slots : slot[t].iface = slot[s].iface => t = s
         ELSE slot[s] = FreeSlot

(***************************************************************************)
(* Every copy goes to the IP instance that owns the interface it is marked *)
(* with, on the queue of the frame's type, and never back to the sender,   *)
(* as long as no attach or detach overlaps the send.                       *)
(***************************************************************************)
DeliveredToOwners ==
  AttachesAlone => \A p \in Ips : \A k \in DOMAIN call[p].delivered :
    LET d == call[p].delivered[k]
    IN /\ d.iface \in Ifaces \ {call[p].req.iface}
       /\ d.ip = IpOf[d.iface]
       /\ d.queue = Queue(EtherType(call[p].req))

CopiesFor(p, n) == Cardinality({k \in DOMAIN call[p].delivered : call[p].delivered[k].iface = n})

(* Nobody is asked to take the address of p's frame, or not while it is    *)
(* sent.                                                                   *)
AddressSettled(p) ==
  \/ "SET_PHYSICAL_ADDRESS" \in scenario.alone
  \/ \A r \in scenario.asks : r.cmd = "SET_PHYSICAL_ADDRESS" => r.addr # Dst(p)

(***************************************************************************)
(* A walk that was not cut short by a failed copy gave every other attached*)
(* interface whose address, or whose every address, was meant exactly one  *)
(* copy, whatever memberships and other addresses other IP instances       *)
(* changed meanwhile, as long as none attached or detached.                *)
(***************************************************************************)
ReachesAddressees ==
  AttachesAlone => \A p \in Ips : \A s \in Slots :
    pc[p] = "release" /\ AddressSettled(p)
      /\ slot[s].in_use /\ slot[s].iface # call[p].req.iface
      /\ Dst(p) \in Everyone \cup {slot[s].mac}
      => CopiesFor(p, slot[s].iface) = 1

(***************************************************************************)
(* The IP instance whose pool output is about to take a packet from is the *)
(* one in the slot: the in_use test, the pointer read after it and the use *)
(* of the pointer belong together, as "Disable preemption" wants them to.  *)
(***************************************************************************)
NextIpIsSettled ==
  \A p \in Ips :
    Copying(p) => Mine(p).in_use /\ Mine(p).ip = call[p].next /\ call[p].next # NoIp

(* The same for callers that keep attach and detach apart from all calls:  *)
(* what other IP instances may do in between does not disturb output.      *)
SettledWhenAlone == AttachesAlone => NextIpIsSettled

(***************************************************************************)
(* An interface gets frames between LINK_ENABLE and LINK_DISABLE only.     *)
(***************************************************************************)
NoDeliveryWhenDown ==
  \A p \in Ips : \A k \in DOMAIN call[p].delivered : link[call[p].delivered[k].iface]

(***************************************************************************)
(* The driver of one IP instance implements the virtual Ethernet.  Attach  *)
(* takes effect with its last write, detach with the memset, a join or     *)
(* leave with the entry it writes, a send copy by copy.                    *)
(***************************************************************************)
Attaching(n) ==
  pc[IpOf[n]] \in {"attach_ip", "attach_mac"} /\ call[IpOf[n]].req.iface = n

Place(n) ==
  IF Attaching(n) \/ \A s \in Slots : slot[s].iface # n
  THEN NoPlace
  ELSE CHOOSE s \in Slots : slot[s].iface = n

MacOf(n) == IF Place(n) = NoPlace THEN ZeroMac ELSE slot[Place(n)].mac

EntriesWith(s, a) == Cardinality({e \in Entries : slot[s].mcast[e] = a})

Joined(n) ==
  [a \in Addresses |->
     IF Place(n) = NoPlace \/ a = ZeroMac THEN 0 ELSE EntriesWith(Place(n), a)]

Room(n) == IF Place(n) = NoPlace THEN NumEntries ELSE EntriesWith(Place(n), ZeroMac)

PhaseOf(p) ==
  CASE pc[p] \in OutLabels \cup {"release_early", "fault"} -> "sending"
    [] pc[p] = "idle"                                     -> "idle"
    [] pc[p] = "return"                                   -> "done"
    [] OTHER                                              -> "called"

Due(p, n) ==
  IF Place(n) = NoPlace \/ n = call[p].req.iface THEN 0
  ELSE IF Dst(p) \in Everyone \cup {MacOf(n)} THEN 1 ELSE Joined(n)[Dst(p)]

Owed(p, n) == IF pc[p] \in OutLabels THEN Due(p, n) - CopiesFor(p, n) ELSE 0

Places      == [n \in Ifaces |-> Place(n)]
IfaceMacs   == [n \in Ifaces |-> MacOf(n)]
Memberships == [n \in Ifaces |-> Joined(n)]
Rooms       == [n \in Ifaces |-> Room(n)]
Phases      == [p \in Ips |-> PhaseOf(p)]
Asked       == [p \in Ips |-> call[p].req]
Answers     == [p \in Ips |-> [status |-> call[p].status, ret |-> call[p].ret]]
Owes        == [p \in Ips |-> [n \in Ifaces |-> Owed(p, n)]]

Ethernet == INSTANCE VirtualEthernet WITH
  place <- Places, mac <- IfaceMacs, joined <- Memberships, room <- Rooms,
  phase <- Phases, req <- Asked, answer <- Answers, owed <- Owes

(* Every frame reaches exactly the interfaces it is for, membership of each*)
(* interface is kept apart from the others' and ends with its detach, and a*)
(* full table refuses without disturbing anyone.                           *)
ImplementsVirtualEthernet == Ethernet!Spec
===============================================================================
