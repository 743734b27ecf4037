------------------------------- MODULE WgApi -------------------------------
(***************************************************************************)
(* The wg.mnrz.xyz/v1alpha1 resources and the helpers that several         *)
(* components apply to them (pkg/apis/wg/v1alpha1, pkg/api/selectors.go).  *)
(*                                                                         *)
(* All objects live in one namespace: every List and Get of the control    *)
(* plane is confined to the namespace of the object it reconciles.         *)
(* None stands for Go's empty string or nil pointer.                       *)
(***************************************************************************)
EXTENDS Naturals, Sequences, FiniteSets

CONSTANTS
  PeerNames,      \* names a Peer may have
  NetworkNames,   \* names a Network may have
  RouteNames,     \* names a RouteBinding may have
  Labels,         \* <<key, value>> pairs a Peer may be labelled with
  PublicKeys,     \* WireGuard public keys
  Hosts, Ports,   \* the two halves of an endpoint
  IPs, Masks,     \* the two halves of an address such as 10.20.40.10/24
  Subnets,        \* routes a RouteBinding may name
  None

ASSUME NoneAssumption ==
  /\ None \notin PeerNames /\ None \notin NetworkNames
  /\ None \notin Hosts /\ None \notin Ports
  /\ None \notin PublicKeys /\ None \notin IPs

(* An endpoint "host:port"; either half may be missing, and an omitted     *)
(* spec.endpoint has neither.                                              *)
Endpoint == [host: Hosts \cup {None}, port: Ports \cup {None}]

(* An address with the netmask after the slash: None when there is no      *)
(* slash, "" when nothing follows it.                                      *)
Address == [ip: IPs, mask: Masks \cup {"", None}]

PeerSelector == [names: SUBSET PeerNames, matchLabels: SUBSET Labels]

(* Address None makes the rule's address pointer nil; selector None makes  *)
(* it the network's default rule.                                          *)
AllocationRule == [address: Address \cup {None}, selector: PeerSelector \cup {None}]

(* An address that "/32" may be appended to.                               *)
HostAddress == [ip: IPs, mask: {"", None}]

(* One entry of status.peers: AllowedIPs is allowedIP/32 followed by the   *)
(* routes. Lists are sorted by name, so the list of entries is a function  *)
(* of the name, None where the list has no entry.                          *)
PeerConfiguration ==
  [publicKey: PublicKeys \cup {None}, endpoint: Endpoint \cup {None},
   allowedIP: HostAddress, routes: SUBSET Subnets]

PeerConfigurations == [PeerNames -> PeerConfiguration \cup {None}]

PeerSpec ==
  [labels: SUBSET Labels, publicKey: PublicKeys \cup {None}, endpoint: Endpoint]

NoPeerSpec ==
  [labels |-> {}, publicKey |-> None, endpoint |-> [host |-> None, port |-> None]]

PeerStatus ==
  [network: NetworkNames \cup {None}, address: Address \cup {None},
   peers: PeerConfigurations]

NoConfigurations == [q \in PeerNames |-> None]

NoStatus == [network |-> None, address |-> None, peers |-> NoConfigurations]

NetworkSpec == Seq(AllocationRule)

IPAssignment == [name: PeerNames, address: Address \cup {None}]

RouteBindingSpec ==
  [network: NetworkNames \cup {None}, selector: PeerSelector, routes: SUBSET Subnets]

NoRouteSpec ==
  [network |-> None, selector |-> [names |-> {}, matchLabels |-> {}], routes |-> {}]

-----------------------------------------------------------------------------
(* A peer matches by name, or else by carrying every label of a selector   *)
(* that has labels.                                                        *)
PeerMatchesSelector(name, labels, sel) ==
  \/ name \in sel.names
  \/ sel.matchLabels # {} /\ sel.matchLabels \subseteq labels

(* The matchesRule closure of allocateIP and of allocateNetwork.           *)
MatchesRule(name, labels, rule) ==
  \/ rule.selector = None
  \/ PeerMatchesSelector(name, labels, rule.selector)

(* net.SplitHostPort fails when the port is missing, hence on "".          *)
SplitHostPortFails(endpoint) == endpoint.port = None

(* Mutant: the whole address is returned as its first part.                *)
splitNetMaskWhole(a) ==
  <<a, IF a.mask \in {None, ""} THEN "32" ELSE a.mask>>

(* The part before the slash, and the netmask, 32 when there is none.      *)
splitNetMask(a) ==
  IF a.mask \in {None, ""}
    THEN <<a, "32">>
    ELSE <<[ip |-> a.ip, mask |-> None], a.mask>>
=============================================================================
