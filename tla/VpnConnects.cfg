CONSTANTS
  None = None
  p1 = p1  p2 = p2  n1 = n1  r1 = r1  k1 = k1  k2 = k2  k3 = k3
  host = host  port = port  ip1 = ip1  ip2 = ip2  net1 = net1
  PeerNames = {p1, p2}
  NetworkNames = {n1}
  RouteNames = {r1}
  Labels = {}
  PublicKeys = {k1, k2, k3}
  Hosts = {host}
  Ports = {port}
  IPs = {ip1, ip2}
  Masks = {"24"}
  Subnets = {net1}
  Prefixes <- AllPossiblePrefixes
  NameOrder <- ByName
  PeerSpecs <- ServerAndLaptop
  NetworkSpecs <- OneNetwork
  RouteSpecs <- LocalNetwork
  MaxEdits = 4
  MaxFaults = 0
  MaxRestarts = 0
SPECIFICATION VpnSpec
INVARIANTS DeviceKeepsToAllocations ConnectedWhenSettled
SYMMETRY LaptopKeys
