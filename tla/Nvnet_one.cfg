\* One IP instance, more interfaces than slots, every command.
SPECIFICATION Spec
CONSTANTS
  ip1 = ip1
  ip2 = ip2
  n1 = n1
  n2 = n2
  n3 = n3
  n4 = n4
  mac0 = mac0
  mac1 = mac1
  mac2 = mac2
  new = new
  group = group
  broadcast = broadcast
  zero = zero
  Ips = {ip1}
  Ifaces = {n1, n2, n3, n4}
  IpOf <- OneIpOf
  FirstIface <- OneFirst
  Addresses <- Macs
  ZeroMac = zero
  Everyone <- ForAll
  NumSlots = 3
  NumEntries = 2
  BaseMac <- Base
  NoIp = NoIp
  NoIface = NoIface
  NoPlace = NoPlace
  Requests <- AllCommands
  Scenarios <- AllAlone
INVARIANTS
  TypeOK
  PacketAccounted
  TableAgrees
PROPERTIES
  ImplementsVirtualEthernet
