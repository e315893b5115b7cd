---------------------------- MODULE MCNvnetDriver ----------------------------
(* Small instances of NvnetDriver: the interfaces of one or two IP         *)
(* instances, and the requests they make.                                  *)
EXTENDS NvnetDriver

CONSTANTS
  ip1, ip2, n1, n2, n3, n4,
  mac0, mac1, mac2, new,    (* the slots' addresses, and one that is set   *)
  group, broadcast, zero

Macs == {mac0, mac1, mac2, new, group, broadcast, zero}
ForAll == {broadcast, zero}
Base == [s \in Slots |-> CASE s = 0 -> mac0 [] s = 1 -> mac1 [] OTHER -> mac2]

(* One IP instance with two or three interfaces.                           *)
OneIpOf == [n \in Ifaces |-> ip1]
OneFirst == [p \in Ips |-> n1]

(* Two IP instances: n1 belongs to the first, the others to the second.    *)
TwoIpOf == [n \in Ifaces |-> IF n = n1 THEN ip1 ELSE ip2]
TwoFirst == [p \in Ips |-> IF p = ip1 THEN n1 ELSE n2]

Requested(cmds, addrs) ==
  [cmd : cmds, iface : Ifaces, addr : addrs, version : {4}]

Attachment == Requested({"INTERFACE_ATTACH", "INTERFACE_DETACH"}, {zero})
MembershipCommands == {"MULTICAST_JOIN", "MULTICAST_LEAVE"}
Membership == Requested(MembershipCommands, {group})

(* Everything an interface can be asked, a frame of every type included.   *)
(* To keep the instance small not every interface is asked everything.     *)
Of(n, requests) == {r \in requests : r.iface = n}
AllCommands ==
  Attachment \cup Of(n1, Membership) \cup Of(n2, Membership)
  \cup Of(n1, Requested({"INITIALIZE", "GET_SPEED", "GET_INTERFACE_TYPE",
                         "DEFERRED_PROCESSING", "UNKNOWN_COMMAND"}, {zero}))
  \cup Of(n2, Requested({"ENABLE", "DISABLE", "GET_STATUS", "UNINITIALIZE"}, {zero}))
  \cup Of(n2, Requested({"SET_PHYSICAL_ADDRESS"}, {new}))
  \cup Of(n1, Requested({"PACKET_SEND"}, {new, group}))
  \cup Of(n2, Requested({"PACKET_SEND"}, {group}))
  \cup Of(n3, Requested({"PACKET_SEND"}, {mac1}))
  \cup Of(n2, Requested({"ARP_SEND", "RARP_SEND"}, {broadcast}))
  \cup Of(n1, [cmd : {"PACKET_BROADCAST"}, iface : {n1}, addr : {broadcast}, version : {6}])

(* What one IP instance may do while another one is sending.               *)
Traffic ==
  Attachment \cup Membership
  \cup Requested({"SET_PHYSICAL_ADDRESS"}, {new})
  \cup Requested({"PACKET_SEND"}, {mac1, new, group, broadcast})

(* Frames to an address that interfaces take.                              *)
Moves == {r \in Traffic : r.cmd \notin MembershipCommands
                          /\ (r.cmd = "PACKET_SEND" => r.addr = new)}

(* Attaches and detaches of two interfaces in the middle of everything.    *)
Churn == {r \in Traffic : r.iface \in {n1, n2} /\ r.cmd \notin MembershipCommands
                          /\ r.addr # group /\ (r.cmd = "PACKET_SEND" => r.addr # new)}

Links == Attachment \cup Requested({"ENABLE", "DISABLE"}, {zero})
         \cup Requested({"PACKET_SEND"}, {broadcast})

(* The commands that some callers never let overlap with another call.     *)
Attaches == {"INTERFACE_ATTACH", "INTERFACE_DETACH", "UNINITIALIZE"}

AllAlone  == {[asks |-> AllCommands, alone |-> Attaches]}
LinksAlone == {[asks |-> Links, alone |-> Attaches]}
Overlapping == {[asks |-> Traffic, alone |-> {}]}
AloneOrOverlapping ==
  {[asks |-> Traffic, alone |-> Attaches],
   [asks |-> Moves, alone |-> Attaches \cup {"SET_PHYSICAL_ADDRESS"}],
   [asks |-> Churn, alone |-> {}]}
==============================================================================
