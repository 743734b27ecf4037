------------------------- MODULE NetworkController -------------------------
(***************************************************************************)
(* The network controller (pkg/controller/network): it hands out the       *)
(* addresses of a Network's allocation rules to the Peers that belong to   *)
(* it, in Network.status.allocations.                                      *)
(*                                                                         *)
(* One worker takes requests off a work queue. A Reconcile reads the       *)
(* Network, then lists the Peers, then writes the status: three steps, and *)
(* the caches and the server may move between any two of them.             *)
(***************************************************************************)
EXTENDS Cluster

VARIABLES
  networkQueue,   \* requests waiting, a set because the queue drops duplicates
  nr              \* the Reconcile under way

networkControllerVars == <<networkQueue, nr>>

NetworkReconcile ==
  [pc: {"idle", "list", "update"}, name: NetworkNames \cup {None},
   instance: Network, allocations: SUBSET IPAssignment]

NetworkIdle ==
  [pc |-> "idle", name |-> None, instance |-> NoNetwork(0), allocations |-> {}]

NetworkControllerTypeOK ==
  /\ networkQueue \in SUBSET NetworkNames
  /\ nr \in NetworkReconcile
  /\ nr.pc # "idle" => nr.name \in NetworkNames

NetworkControllerInit == networkQueue = {} /\ nr = NetworkIdle

-----------------------------------------------------------------------------
(* Mutant: only peers that already have an address are mapped.             *)
peerMapperAddressed(peer) ==
  {n \in NetworkNames :
     cachedNetworks[n].live /\ peer.status.network = n /\ peer.status.address # None}

(* peerMapper.Map: the requests an event about one version of a Peer adds. *)
peerMapper(peer) ==
  {n \in NetworkNames : cachedNetworks[n].live /\ peer.status.network = n}

(* allocateIP returns the address of the first rule that matches; that no  *)
(* rule matches is an error, and no address satisfies allocateIP.          *)
allocateIP(name, labels, rules, address) ==
  \E i \in DOMAIN rules :
    /\ MatchesRule(name, labels, rules[i])
    /\ \A j \in 1..(i - 1) : ~ MatchesRule(name, labels, rules[j])
    /\ address = rules[i].address

(* Mutant: an allocation that exists is not looked up.                     *)
NewAllocationsAgain(n, network, listed) ==
  {new \in IPAssignment :
     LET peer == listed[new.name]
     IN  /\ peer.live
         /\ peer.status.network = n
         /\ allocateIP(new.name, peer.spec.labels, network.rules, new.address)}

(* What the loop over the listed peers appends: an address for each member *)
(* of the network that has no allocation, nothing when allocateIP fails.   *)
NewAllocations(n, network, listed) ==
  {new \in IPAssignment :
     LET peer == listed[new.name]
     IN  /\ peer.live
         /\ peer.status.network = n
         /\ ~ \E alloc \in network.allocations : alloc.name = new.name
         /\ allocateIP(new.name, peer.spec.labels, network.rules, new.address)}

(* Mutant: the list without the peers that have gone is written back.      *)
AllocateAllPruned(n, network, listed) ==
  {alloc \in network.allocations \cup NewAllocations(n, network, listed) :
     listed[alloc.name].live /\ listed[alloc.name].status.network = n}

(* network.Status.Allocations after the loop. The list without the peers   *)
(* that have gone, which the code computes next, is never written back.    *)
AllocateAll(n, network, listed) ==
  network.allocations \cup NewAllocations(n, network, listed)

-----------------------------------------------------------------------------
(* Reconcile takes a request and gets the Network; not found ends it.      *)
NetworkGet(n) ==
  /\ nr.pc = "idle"
  /\ n \in networkQueue
  /\ networkQueue' = networkQueue \ {n}
  /\ nr' = IF cachedNetworks[n].live
             THEN [NetworkIdle EXCEPT !.pc = "list", !.name = n,
                                      !.instance = cachedNetworks[n]]
             ELSE NetworkIdle
  /\ UNCHANGED <<serverVars, cacheVars, eventVars>>

(* It lists the peers, allocates, and stops when the status is unchanged.  *)
NetworkList ==
  /\ nr.pc = "list"
  /\ LET allocations == AllocateAll(nr.name, nr.instance, cachedPeers)
     IN  nr' = IF allocations = nr.instance.allocations
                 THEN NetworkIdle
                 ELSE [nr EXCEPT !.pc = "update", !.allocations = allocations]
  /\ UNCHANGED <<networkQueue, serverVars, cacheVars, eventVars>>

(* The status update succeeds ...                                          *)
NetworkUpdate ==
  /\ nr.pc = "update"
  /\ NetworkUpdateAccepted(nr.name, nr.instance)
  /\ WriteNetworkStatus(nr.name, nr.allocations)
  /\ nr' = NetworkIdle
  /\ UNCHANGED <<networkQueue, peers, routes, peerEvents, routeEvents, cacheVars>>

(* ... or is refused, and the error puts the request back.                 *)
NetworkUpdateConflict ==
  /\ nr.pc = "update"
  /\ ~ NetworkUpdateAccepted(nr.name, nr.instance)
  /\ nr' = NetworkIdle
  /\ networkQueue' = networkQueue \cup {nr.name}
  /\ UNCHANGED <<serverVars, cacheVars, eventVars>>

(* A call fails and Reconcile returns the error: nothing is written and    *)
(* the request goes back on the queue.                                     *)
NetworkError ==
  /\ nr.pc # "idle"
  /\ nr' = NetworkIdle
  /\ networkQueue' = networkQueue \cup {nr.name}
  /\ UNCHANGED <<serverVars, cacheVars, eventVars>>

(* The server stores the status but the reply is lost: the same error.     *)
NetworkUpdateReplyLost ==
  /\ nr.pc = "update"
  /\ NetworkUpdateAccepted(nr.name, nr.instance)
  /\ WriteNetworkStatus(nr.name, nr.allocations)
  /\ nr' = NetworkIdle
  /\ networkQueue' = networkQueue \cup {nr.name}
  /\ UNCHANGED <<peers, routes, peerEvents, routeEvents, cacheVars>>

NetworkControllerStep ==
  \/ \E n \in NetworkNames : NetworkGet(n)
  \/ NetworkList
  \/ NetworkUpdate
  \/ NetworkUpdateConflict

NetworkControllerFault == NetworkError \/ NetworkUpdateReplyLost
=============================================================================
