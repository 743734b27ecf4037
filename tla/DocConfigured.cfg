CONSTANTS
  None = None
  p1 = p1  p2 = p2  n1 = n1  n2 = n2  r1 = r1
  label = label  k1 = k1  k2 = k2  host = host  port = port
  ip1 = ip1  ip2 = ip2  net1 = net1
  PeerNames = {p1, p2}
  NetworkNames = {n1}
  RouteNames = {}
  Labels = {label}
  PublicKeys = {k1, k2}
  Hosts = {host}
  Ports = {port}
  IPs = {ip1, ip2}
  Masks = {"24"}
  Subnets = {net1}
  PeerSpecs <- ServerAndLaptop
  NetworkSpecs <- OneStaticNetwork
  RouteSpecs <- NoRoutes
  MaxEdits = 3
  MaxFaults = 0
  MaxRestarts = 0
SPECIFICATION Spec
INVARIANTS QuiescentConfigured
