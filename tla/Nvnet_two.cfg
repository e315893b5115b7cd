\* Two IP instances that keep attach and detach apart from all calls, or whose
\* calls overlap in every way.  In the second case a thread that faults stops for
\* good, and when both have the system has stopped.
SPECIFICATION Spec
CONSTANTS
  ip1 = ip1
  ip2 = ip2
  n1 = n1
  n2 = n2
  n3 = n3
  n4 = n4
  mac0 = mac0
  mac1 = mac1
  mac2 = mac2
  new = new
  group = group
  broadcast = broadcast
  zero = zero
  Ips = {ip1, ip2}
  Ifaces = {n1, n2, n3}
  IpOf <- TwoIpOf
  FirstIface <- TwoFirst
  Addresses <- Macs
  ZeroMac = zero
  Everyone <- ForAll
  NumSlots = 2
  NumEntries = 1
  BaseMac <- Base
  NoIp = NoIp
  NoIface = NoIface
  NoPlace = NoPlace
  Requests <- Traffic
  Scenarios <- AloneOrOverlapping
INVARIANTS
  PacketAccounted
  TableAgrees
  DeliveredToOwners
  ReachesAddressees
  SettledWhenAlone
CHECK_DEADLOCK FALSE
