CONSTANTS
  None = None
  p1 = p1  p2 = p2  ns1 = ns1  ns2 = ns2  k1 = k1  k2 = k2  host = host
  port1 = port1  port2 = port2  ip1 = ip1  ip2 = ip2  host1 = host1  host2 = host2  net1 = net1
  PeerNames = {p1}
  NetworkNames = {}
  RouteNames = {}
  Labels = {}
  PublicKeys = {k1, k2}
  Hosts = {host}
  Ports = {port1, port2}
  IPs = {ip1, ip2}
  Masks = {"24"}
  Subnets = {}
  Namespaces = {ns1, ns2}
  PeerName = p1
  Prefixes = {host1, host2, net1}
  Versions <- StagesAndRefused
  MaxChanges = 3
  MaxFaults = 2
  MaxRestarts = 2
SPECIFICATION Spec
INVARIANTS GuardletTypeOK ReconciledIsApplied UpIsConfigured MkconfAgrees
PROPERTIES IsNotInterrupted
