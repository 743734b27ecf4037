----------------------- MODULE ControlPlaneProperties -----------------------
(***************************************************************************)
(* What the control plane promises: the invariants, step properties and    *)
(* liveness properties of ControlPlane that the runs check and the proofs  *)
(* establish.                                                              *)
(***************************************************************************)
EXTENDS ControlPlane

(* Every variable holds a value of its type, a Reconcile under way names   *)
(* the object it is about, and an entry's allowed IP has no netmask left   *)
(* that the "/32" appended to it would follow (peer_controller.go:204).    *)
TypeOK ==
  /\ ClusterTypeOK
  /\ NetworkControllerTypeOK
  /\ PeerControllerTypeOK
  /\ edits \in 0..MaxEdits /\ faults \in 0..MaxFaults /\ restarts \in 0..MaxRestarts
  /\ deletedNetworks \subseteq NetworkNames

-----------------------------------------------------------------------------
(* A peer's status is written from a copy that may be stale by the time it *)
(* is written. Still, as long as the Peer is not deleted, the network and  *)
(* the address it was once given never change (Reconcile,                  *)
(* peer_controller.go:311-377).                                            *)
StatusKept(was, is) ==
  /\ was.network # None => is.network = was.network
  /\ was.address # None => is.address = was.address

MembershipKept ==
  \A p \in PeerNames :
    peers[p].live /\ peers'[p].live => StatusKept(peers[p].status, peers'[p].status)

MembershipIsStable == [][MembershipKept]_vars

(* The network controller writes the whole list of allocations from a      *)
(* cached Network and a cached list of Peers, which may be of different    *)
(* ages, and rules and labels may have been edited since an address was    *)
(* allocated. Still, as long as a member of a network lives, what it was   *)
(* allocated is neither dropped nor changed, and nothing is added to it    *)
(* (network_controller.go:148-192). What peers that are gone were          *)
(* allocated need not stay.                                                *)
AllocationsOf(p, n) == {alloc \in networks[n].allocations : alloc.name = p}

AllocationsKept ==
  \A p \in PeerNames, n \in NetworkNames :
    /\ peers[p].live /\ peers'[p].live /\ peers[p].status.network = n
    /\ networks[n].live /\ networks'[n].live
    /\ AllocationsOf(p, n) # {}
    => AllocationsOf(p, n)' = AllocationsOf(p, n)

AllocationsAreStable == [][AllocationsKept]_vars

(* A peer's address is the one its network has on record for it, and the   *)
(* network has one on record: peer and network status, written by two      *)
(* controllers, agree, unless the network was deleted at some point.       *)
AddressIsAllocated ==
  \A p \in PeerNames :
    LET n == peers[p].status.network
    IN  peers[p].status.address # None /\ n \notin deletedNetworks =>
          /\ n # None
          /\ [name |-> p, address |-> peers[p].status.address] \in networks[n].allocations
          /\ \A alloc \in networks[n].allocations :
                alloc.name = p => alloc.address = peers[p].status.address

(* Every entry of a peer's configuration routes a neighbour's traffic to   *)
(* an address that was allocated to that neighbour in the peer's network,  *)
(* although entry, neighbour and network are three objects read at three   *)
(* times, and the neighbour may be deleted and created again meanwhile.    *)
ConfigurationIsAllocated ==
  \A p, q \in PeerNames :
    LET n == peers[p].status.network
        cfg == peers[p].status.peers[q]
    IN  cfg # None /\ n \notin deletedNetworks =>
          /\ n # None
          /\ \E alloc \in networks[n].allocations :
               alloc.name = q /\ alloc.address # None /\ alloc.address.ip = cfg.allowedIP.ip

(* The two controllers together implement addressing: seen through the     *)
(* server's objects, every step of theirs, of a user, of a failing call or *)
(* of a restart is one step of Addressing, or changes no one's address     *)
(* (Reconcile of both controllers).                                        *)
Holder ==
  [p \in PeerNames |-> [live |-> peers[p].live, network |-> peers[p].status.network,
                        address |-> peers[p].status.address]]

Record == [n \in NetworkNames |-> networks[n].allocations]

Promised ==
  INSTANCE Addressing WITH holder <- Holder, record <- Record, dissolved <- deletedNetworks

ImplementsAddressing == Promised!AddressingSpec

-----------------------------------------------------------------------------
(* Nothing is under way: whatever has not happened by now waits for a user *)
(* or for a resync.                                                        *)
Quiescent ==
  /\ peerEvents = <<>> /\ networkEvents = <<>> /\ routeEvents = <<>>
  /\ peerQueue = {} /\ networkQueue = {}
  /\ pr.pc = "idle" /\ nr.pc = "idle"

(* There is no address in network n that peer p could have.                *)
Unaddressable(p, n) ==
  LET mine == AllocationsOf(p, n)
      labels == peers[p].spec.labels
  IN  /\ \A alloc \in mine : alloc.address = None
      /\ mine = {} => \A i \in DOMAIN networks[n].rules :
                         ~ MatchesRule(p, labels, networks[n].rules[i])

(* No wake-up is lost on the way to an address: once nothing is under way, *)
(* every peer of a live network that matches one of its rules has an       *)
(* allocation, and every peer with an allocated address carries it. No     *)
(* resync is needed for it (peerMapper, networkMapper, the requeues).      *)
QuiescentAddressed ==
  Quiescent =>
    \A p \in PeerNames :
      LET status == peers[p].status
      IN  /\ peers[p].live /\ status.network # None /\ networks[status.network].live
          /\ status.address = None
          => Unaddressable(p, status.network)

-----------------------------------------------------------------------------
(* Fairness: goroutines and informers run on; a request in the FIFO queue  *)
(* is eventually taken, however often the worker is busy with others; the  *)
(* resync timers keep firing. Users, faults and restarts owe nothing.      *)
Fairness ==
  /\ WF_vars(DeliverPeerEvent) /\ WF_vars(DeliverNetworkEvent) /\ WF_vars(DeliverRouteEvent)
  /\ WF_vars(ResyncPeers) /\ WF_vars(ResyncNetworks) /\ WF_vars(ResyncRoutes)
  /\ WF_vars(PeerStep) /\ WF_vars(NetworkStep)
  /\ \A p \in PeerNames : SF_vars(PeerStep /\ PeerGet(p))
  /\ \A n \in NetworkNames : SF_vars(NetworkStep /\ NetworkGet(n))

FairSpec == Spec /\ Fairness

(* The status a peer should end up with, from the server's objects alone.  *)
PeerSettled(p) ==
  LET peer == peers[p]
      n == peer.status.network
  IN  CASE ~peer.live -> TRUE
        [] peer.live /\ n = None ->
             ~ \E m \in NetworkNames : allocateNetwork(p, peer.spec.labels, networks, m)
        [] peer.live /\ n # None /\ peer.status.address = None ->
             ~ networks[n].live \/ Unaddressable(p, n)
        [] OTHER ->
             \/ ~ networks[n].live
             \/ ConfigurationFails(p, peer, peers)
             \/ peer.status.peers =
                  [q \in PeerNames |->
                     IF q \in Reachable(p, peer, peers)
                       THEN Configuration(q, peers[q], routes)
                       ELSE None]

(* Once the users stop editing, every peer's status becomes and stays the  *)
(* one the resources call for, whatever order the events, faults and       *)
(* restarts came in (Reconcile of both controllers, with resync).          *)
EventuallySettled == <>[](\A p \in PeerNames : PeerSettled(p))

(* Once the users stop editing, configurations are mutual: if every        *)
(* endpoint can be split, a peer of a live network has an entry for        *)
(* another member exactly when the other has one for it                    *)
(* (computePeerConfigurations, peer_controller.go:166-215).                *)
MeshIsMutual ==
  (\A p \in PeerNames : peers[p].live => ~ SplitHostPortFails(peers[p].spec.endpoint)) =>
    \A p, q \in PeerNames :
      LET n == peers[p].status.network
      IN  /\ peers[p].live /\ peers[q].live
          /\ n # None /\ n = peers[q].status.network
          /\ networks[n].live
          => (peers[p].status.peers[q] # None <=> peers[q].status.peers[p] # None)

EventuallyMutual == <>[]MeshIsMutual
=============================================================================
