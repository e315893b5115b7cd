---------------------------- MODULE VirtualEthernet ----------------------------
(***************************************************************************)
(* What the nvnet driver promises the interfaces of one IP instance: an    *)
(* Ethernet segment in memory.  An interface on the segment has a place, an*)
(* address and a bag of multicast groups.  A frame is owed to the          *)
(* interfaces it is for as they are when the send begins, and the send     *)
(* ends when nothing is owed: all of it delivered, or given up for want of *)
(* packets.                                                                *)
(***************************************************************************)
EXTENDS NetxApi

CONSTANTS Requests, NoPlace

VARIABLES
  place,      (* where an interface is attached, or NoPlace               *)
  mac,        (* its address                                              *)
  joined,     (* how often it has joined each group and not left again    *)
  room,       (* how often it may still join one                          *)
  link,       (* whether its link is up                                   *)
  phase,      (* per IP instance: "idle", "called", "sending", "done"     *)
  req,        (* its request                                              *)
  answer,     (* the status and value its call returned                   *)
  owed        (* the copies its frame is still to be delivered in         *)

vars == <<place, mac, joined, room, link, phase, req, answer, owed>>

Attached(n) == place[n] # NoPlace
None == [a \in Addresses |-> 0]
Nothing == [n \in Ifaces |-> 0]
NoAnswer == [status |-> NX_SUCCESS, ret |-> "none"]

Init ==
  /\ place = [n \in Ifaces |-> NoPlace]
  /\ mac = [n \in Ifaces |-> ZeroMac]
  /\ joined = [n \in Ifaces |-> None]
  /\ room = [n \in Ifaces |-> NumEntries]
  /\ link = [n \in Ifaces |-> FALSE]
  /\ phase = [p \in Ips |-> "idle"]
  /\ req = [p \in Ips |-> NoRequest]
  /\ answer = [p \in Ips |-> NoAnswer]
  /\ owed = [p \in Ips |-> Nothing]

Call(p, r) ==
  /\ phase[p] = "idle"
  /\ IpOf[r.iface] = p
  /\ r.cmd = "INTERFACE_ATTACH" => ~Attached(r.iface)
  /\ phase' = [phase EXCEPT ![p] = "called"]
  /\ req' = [req EXCEPT ![p] = r]
  /\ UNCHANGED <<place, mac, joined, room, link, answer, owed>>

(* The request of p is carried out in one step, with this answer.          *)
Answer(p, cmds, status, ret) ==
  /\ phase[p] = "called"
  /\ req[p].cmd \in cmds
  /\ phase' = [phase EXCEPT ![p] = "done"]
  /\ answer' = [answer EXCEPT ![p] = [status |-> status, ret |-> ret]]
  /\ UNCHANGED <<req, owed>>

Here(p) == Attached(req[p].iface)

Refuse(p) ==
  /\ ~Here(p)
  /\ Answer(p, Commands \ {"INTERFACE_ATTACH"}, NX_INVALID_INTERFACE, "none")
  /\ UNCHANGED <<place, mac, joined, room, link>>

Taken == {place[n] : n \in Ifaces}

Attach(p) ==
  /\ Answer(p, {"INTERFACE_ATTACH"}, NX_SUCCESS, "none")
  /\ \E s \in Slots \ Taken :
       /\ place' = [place EXCEPT ![req[p].iface] = s]
       /\ mac' = [mac EXCEPT ![req[p].iface] = BaseMac[s]]
  /\ UNCHANGED <<joined, room, link>>

AttachFull(p) ==
  /\ Slots \subseteq Taken
  /\ Answer(p, {"INTERFACE_ATTACH"}, NX_INVALID_INTERFACE, "none")
  /\ UNCHANGED <<place, mac, joined, room, link>>

Detach(p) ==
  /\ Here(p)
  /\ Answer(p, ResetCommands, NX_SUCCESS, "none")
  /\ place' = [place EXCEPT ![req[p].iface] = NoPlace]
  /\ mac' = [mac EXCEPT ![req[p].iface] = ZeroMac]
  /\ joined' = [joined EXCEPT ![req[p].iface] = None]
  /\ room' = [room EXCEPT ![req[p].iface] = NumEntries]
  /\ UNCHANGED link

SetLink(p) ==
  /\ Here(p)
  /\ Answer(p, {"ENABLE", "DISABLE"}, NX_SUCCESS, "none")
  /\ link' = [link EXCEPT ![req[p].iface] = (req[p].cmd = "ENABLE")]
  /\ UNCHANGED <<place, mac, joined, room>>

SetAddress(p) ==
  /\ Here(p)
  /\ Answer(p, {"SET_PHYSICAL_ADDRESS"}, NX_SUCCESS, "none")
  /\ mac' = [mac EXCEPT ![req[p].iface] = req[p].addr]
  /\ UNCHANGED <<place, joined, room, link>>

Query(p) ==
  /\ Here(p)
  /\ \/ Answer(p, {"INITIALIZE"}, NX_SUCCESS, mac[req[p].iface])
     \/ Answer(p, {"GET_STATUS"}, NX_SUCCESS, IF link[FirstIface[p]] THEN "up" ELSE "down")
     \/ Answer(p, CountCommands, NX_SUCCESS, "zero")
     \/ Answer(p, {"GET_INTERFACE_TYPE"}, NX_SUCCESS, "unknown_type")
     \/ Answer(p, {"DEFERRED_PROCESSING"}, NX_SUCCESS, "none")
     \/ Answer(p, {"UNKNOWN_COMMAND"}, NX_UNHANDLED_COMMAND, "none")
  /\ UNCHANGED <<place, mac, joined, room, link>>

(* An interface may join as often as it has entries; joining a group twice *)
(* takes two.                                                              *)
Join(p) ==
  /\ Here(p)
  /\ room[req[p].iface] > 0
  /\ Answer(p, {"MULTICAST_JOIN"}, NX_SUCCESS, "none")
  /\ joined' = [joined EXCEPT ![req[p].iface][req[p].addr] = @ + 1]
  /\ room' = [room EXCEPT ![req[p].iface] = @ - 1]
  /\ UNCHANGED <<place, mac, link>>

JoinFull(p) ==
  /\ Here(p)
  /\ room[req[p].iface] = 0
  /\ Answer(p, {"MULTICAST_JOIN"}, NX_NO_MORE_ENTRIES, "none")
  /\ UNCHANGED <<place, mac, joined, room, link>>

Leave(p) ==
  /\ Here(p)
  /\ joined[req[p].iface][req[p].addr] > 0
  /\ Answer(p, {"MULTICAST_LEAVE"}, NX_SUCCESS, "none")
  /\ joined' = [joined EXCEPT ![req[p].iface][req[p].addr] = @ - 1]
  /\ room' = [room EXCEPT ![req[p].iface] = @ + 1]
  /\ UNCHANGED <<place, mac, link>>

LeaveMiss(p) ==
  /\ Here(p)
  /\ joined[req[p].iface][req[p].addr] = 0
  /\ Answer(p, {"MULTICAST_LEAVE"}, NX_ENTRY_NOT_FOUND, "none")
  /\ UNCHANGED <<place, mac, joined, room, link>>

(* How many copies of a frame an interface is to get: one if it is meant   *)
(* by address, otherwise one for each time it has joined the group.        *)
Copies(n, r) ==
  IF ~Attached(n) \/ n = r.iface THEN 0
  ELSE IF r.addr \in Everyone \cup {mac[n]} THEN 1 ELSE joined[n][r.addr]

Send(p) ==
  /\ phase[p] = "called"
  /\ Here(p)
  /\ req[p].cmd \in SendCommands
  /\ phase' = [phase EXCEPT ![p] = "sending"]
  /\ owed' = [owed EXCEPT ![p] = [n \in Ifaces |-> Copies(n, req[p])]]
  /\ UNCHANGED <<place, mac, joined, room, link, req, answer>>

Deliver(p) ==
  /\ phase[p] = "sending"
  /\ \E n \in Ifaces :
       /\ owed[p][n] > 0
       /\ owed' = [owed EXCEPT ![p][n] = @ - 1]
  /\ UNCHANGED <<place, mac, joined, room, link, phase, req, answer>>

GiveUp(p) ==
  /\ phase[p] = "sending"
  /\ owed' = [owed EXCEPT ![p] = Nothing]
  /\ UNCHANGED <<place, mac, joined, room, link, phase, req, answer>>

Sent(p) ==
  /\ phase[p] = "sending"
  /\ owed[p] = Nothing
  /\ phase' = [phase EXCEPT ![p] = "done"]
  /\ UNCHANGED <<place, mac, joined, room, link, req, answer, owed>>

Return(p) ==
  /\ phase[p] = "done"
  /\ phase' = [phase EXCEPT ![p] = "idle"]
  /\ req' = [req EXCEPT ![p] = NoRequest]
  /\ answer' = [answer EXCEPT ![p] = NoAnswer]
  /\ UNCHANGED <<place, mac, joined, room, link, owed>>

Next ==
  \E p \in Ips :
    \/ \E r \in Requests : Call(p, r)
    \/ Refuse(p)
    \/ Attach(p) \/ AttachFull(p) \/ Detach(p)
    \/ SetLink(p) \/ SetAddress(p) \/ Query(p)
    \/ Join(p) \/ JoinFull(p) \/ Leave(p) \/ LeaveMiss(p)
    \/ Send(p) \/ Deliver(p) \/ GiveUp(p) \/ Sent(p)
    \/ Return(p)

Spec == Init /\ [][Next]_vars
================================================================================
