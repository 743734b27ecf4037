------------------------ MODULE DocumentedBehaviour ------------------------
(***************************************************************************)
(* What the repository's documentation, comments and tests say of the      *)
(* control plane and the code does not do. Each formula here is the only   *)
(* property of a run in which TLC finds it violated.                       *)
(***************************************************************************)
EXTENDS ControlPlaneProperties

(* "remove old IPs for peers that have been deleted"                       *)
(* (network_controller.go:179): once nothing is under way, only peers of   *)
(* the network hold one of its addresses.                                  *)
QuiescentPruned ==
  Quiescent =>
    \A n \in NetworkNames : \A alloc \in networks[n].allocations :
      peers[alloc.name].live /\ peers[alloc.name].status.network = n

(* "a mesh will be automatically formed" (README.md:32): once nothing is   *)
(* under way, a peer with an address is configured for the members its     *)
(* network has, without waiting for a resync (computePeerConfigurations,   *)
(* the mappers).                                                           *)
QuiescentConfigured ==
  Quiescent =>
    \A p \in PeerNames : peers[p].status.address # None => PeerSettled(p)

(* "Address is the allocated IP address of this peer within the VPN        *)
(* network" (peer_types.go:41): once nothing is under way, a peer's        *)
(* address is the one its network has allocated to it.                     *)
QuiescentAddressesAgree ==
  Quiescent =>
    \A p \in PeerNames :
      LET n == peers[p].status.network
      IN  peers[p].status.address # None /\ n # None =>
            \A alloc \in networks[n].allocations :
              alloc.name = p => alloc.address = peers[p].status.address

(* "If not specified, other peers in the network will accept connections   *)
(* from this peer" (peer_types.go:33): eventually every listening member   *)
(* has an entry for a member that omits its endpoint                       *)
(* (computePeerConfigurations).                                            *)
OmittedEndpointsAccepted ==
  <>[](\A p, q \in PeerNames :
         /\ q \in Neighbours(p, peers[p], peers)
         /\ peers[p].live /\ peers[p].status.address # None
         /\ peers[p].status.network # None
         /\ peers[p].spec.endpoint.host # None
         /\ peers[q].spec.endpoint = [host |-> None, port |-> None]
         => peers[p].status.peers[q] # None)

(* "Network is the name of the network this route applies within"          *)
(* (routebinding_types.go:36): a peer is only given routes that users      *)
(* wrote, at one time or another, for its own network (routeRulesForPeer). *)
RoutesStayWithinNetwork ==
  \A p, q \in PeerNames :
    peers[p].status.peers[q] # None =>
      peers[p].status.peers[q].routes \subseteq
        UNION {spec.routes : spec \in {s \in UNION {RouteSpecs[r] : r \in RouteNames} :
                                        s.network = peers[p].status.network}}
=============================================================================
