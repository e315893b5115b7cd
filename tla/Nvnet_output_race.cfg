\* An attach of one IP instance while the other is sending.
SPECIFICATION Spec
CONSTANTS
  ip1 = ip1
  ip2 = ip2
  n1 = n1
  n2 = n2
  n3 = n3
  n4 = n4
  mac0 = mac0
  mac1 = mac1
  mac2 = mac2
  new = new
  group = group
  broadcast = broadcast
  zero = zero
  Ips = {ip1, ip2}
  Ifaces = {n1, n2}
  IpOf <- TwoIpOf
  FirstIface <- TwoFirst
  Addresses <- Macs
  ZeroMac = zero
  Everyone <- ForAll
  NumSlots = 2
  NumEntries = 1
  BaseMac <- Base
  NoIp = NoIp
  NoIface = NoIface
  NoPlace = NoPlace
  Requests <- Traffic
  Scenarios <- Overlapping
INVARIANTS
  NextIpIsSettled
