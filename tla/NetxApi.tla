------------------------------- MODULE NetxApi -------------------------------
(***************************************************************************)
(* What NetX hands to its link driver: interfaces that belong to IP        *)
(* instances, MAC addresses, and the driver commands with their statuses.  *)
(* A MAC address is one value; the two words of one are not told apart.    *)
(***************************************************************************)
EXTENDS Integers

CONSTANTS
  Ips,            (* the IP instances                                     *)
  Ifaces,         (* their interface control blocks                       *)
  IpOf,           (* the IP instance of an interface                      *)
  FirstIface,     (* nx_ip_interface[0] of an IP instance                 *)
  Addresses,      (* the MAC addresses                                    *)
  ZeroMac,        (* the address 0:0, also the mark of a free entry       *)
  Everyone,       (* the destinations everybody accepts: broadcast,       *)
                  (* 33-33-..., and the zero address                      *)
  NumSlots,       (* NX_MAX_RAM_INTERFACES                                *)
  NumEntries,     (* NX_RAM_DRIVER_MAX_MCAST_ADDRESSES                    *)
  BaseMac,        (* simulated_address_msw:lsw + i, of slot i             *)
  NoIp, NoIface   (* null pointers                                        *)

ASSUME SizeAssumption == NumSlots \in Nat \ {0} /\ NumEntries \in Nat \ {0}

Slots   == 0 .. NumSlots - 1
Entries == 0 .. NumEntries - 1

ASSUME InterfaceAssumption ==
  /\ NoIp \notin Ips
  /\ NoIface \notin Ifaces
  /\ IpOf \in [Ifaces -> Ips]
  /\ FirstIface \in [Ips -> Ifaces]
ASSUME AddressAssumption ==
  /\ Everyone \subseteq Addresses
  /\ ZeroMac \in Everyone
  /\ BaseMac \in [Slots -> Addresses]

SendCommands  == {"PACKET_SEND", "PACKET_BROADCAST", "ARP_SEND", "ARP_RESPONSE_SEND", "RARP_SEND"}
ResetCommands == {"INTERFACE_DETACH", "UNINITIALIZE"}
CountCommands == {"GET_SPEED", "GET_DUPLEX_TYPE", "GET_ERROR_COUNT", "GET_RX_COUNT",
                  "GET_TX_COUNT", "GET_ALLOC_ERRORS"}
OtherCommands == {"INTERFACE_ATTACH", "INITIALIZE", "ENABLE", "DISABLE", "MULTICAST_JOIN",
                  "MULTICAST_LEAVE", "GET_STATUS", "GET_INTERFACE_TYPE",
                  "DEFERRED_PROCESSING", "SET_PHYSICAL_ADDRESS", "UNKNOWN_COMMAND"}
Commands == SendCommands \cup ResetCommands \cup CountCommands \cup OtherCommands

(* nx_ip_driver_command, _interface and _physical_address of a request,    *)
(* and the IP version of its packet.                                       *)
Request == [cmd : Commands, iface : Ifaces, addr : Addresses, version : {4, 6}]

(* The request of an IP instance that is not calling.                      *)
NoRequest == [cmd |-> "UNKNOWN_COMMAND", iface |-> NoIface, addr |-> ZeroMac, version |-> 4]

NX_SUCCESS           == "NX_SUCCESS"
NX_INVALID_INTERFACE == "NX_INVALID_INTERFACE"
NX_NO_MORE_ENTRIES   == "NX_NO_MORE_ENTRIES"
NX_ENTRY_NOT_FOUND   == "NX_ENTRY_NOT_FOUND"
NX_UNHANDLED_COMMAND == "NX_UNHANDLED_COMMAND"
Statuses == {NX_SUCCESS, NX_INVALID_INTERFACE, NX_NO_MORE_ENTRIES, NX_ENTRY_NOT_FOUND,
             NX_UNHANDLED_COMMAND}

EtherTypes == {"ARP", "RARP", "IP", "IPV6"}

EtherType(r) ==
  CASE r.cmd \in {"ARP_SEND", "ARP_RESPONSE_SEND"} -> "ARP"
    [] r.cmd = "RARP_SEND"                         -> "RARP"
    [] OTHER -> IF r.version = 4 THEN "IP" ELSE "IPV6"

(* The deferred receive queue of the IP instance a frame type goes to.     *)
Queues == {"ip", "arp", "rarp"}
Queue(type) ==
  CASE type = "ARP"  -> "arp"
    [] type = "RARP" -> "rarp"
    [] OTHER         -> "ip"
=============================================================================
