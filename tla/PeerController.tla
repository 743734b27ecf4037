--------------------------- MODULE PeerController ---------------------------
(***************************************************************************)
(* The peer controller (pkg/controller/peer): it assigns a Peer to the     *)
(* network whose rules match it, copies its address from the network's     *)
(* allocations, and computes the configurations of the other peers it      *)
(* should talk to, each in a Reconcile of its own.                         *)
(*                                                                         *)
(* As in the network controller, one worker runs one Reconcile at a time,  *)
(* and each read of a cache is a step of its own.                          *)
(***************************************************************************)
EXTENDS Cluster

VARIABLES
  peerQueue,   \* requests waiting
  pr           \* the Reconcile under way

peerControllerVars == <<peerQueue, pr>>

(* instance is the copy read first, listed the peers as listed, todo the   *)
(* listed peers whose route bindings are still to be read, status the      *)
(* status to be written.                                                   *)
PeerReconcile ==
  [pc: {"idle", "network", "address", "config", "list", "routes", "update"},
   name: PeerNames \cup {None}, instance: Peer, listed: [PeerNames -> Peer],
   todo: SUBSET PeerNames, status: PeerStatus]

PeerIdle ==
  [pc |-> "idle", name |-> None, instance |-> NoPeer(0),
   listed |-> [q \in PeerNames |-> NoPeer(0)], todo |-> {}, status |-> NoStatus]

PeerControllerTypeOK ==
  /\ peerQueue \in SUBSET PeerNames
  /\ pr \in PeerReconcile
  /\ pr.pc # "idle" => pr.name \in PeerNames

PeerControllerInit == peerQueue = {} /\ pr = PeerIdle

-----------------------------------------------------------------------------
(* networkMapper.Map and routeBindingMapper.Map.                           *)
networkMapper(n) ==
  {p \in PeerNames : cachedPeers[p].live /\ cachedPeers[p].status.network = n}

routeBindingMapper(route) ==
  {p \in PeerNames :
     cachedPeers[p].live /\ cachedPeers[p].status.network = route.spec.network}

(* allocateNetwork returns the one network with a rule that matches; with  *)
(* none it returns nil and with several an error, which no n satisfies.    *)
MatchingNetworks(name, labels, nets) ==
  {n \in NetworkNames :
     /\ nets[n].live
     /\ \E i \in DOMAIN nets[n].rules : MatchesRule(name, labels, nets[n].rules[i])}

allocateNetwork(name, labels, nets, n) ==
  MatchingNetworks(name, labels, nets) = {n}

(* Mutant: the networks of the two peers are not compared.                 *)
NeighboursAnywhere(name, instance, listed) ==
  {q \in PeerNames \ {name} :
     listed[q].live /\ listed[q].status.address # None}

(* The other peers of the same network that have an address.               *)
Neighbours(name, instance, listed) ==
  {q \in PeerNames \ {name} :
     /\ listed[q].live
     /\ listed[q].status.network = instance.status.network
     /\ listed[q].status.address # None}

(* computePeerConfigurations gives up when its own endpoint, or that of    *)
(* any neighbour, cannot be split.                                         *)
ConfigurationFails(name, instance, listed) ==
  \/ SplitHostPortFails(instance.spec.endpoint)
  \/ \E q \in Neighbours(name, instance, listed) :
        SplitHostPortFails(listed[q].spec.endpoint)

(* Mutant: only peers that listen themselves get an entry.                 *)
ReachableListening(name, instance, listed) ==
  {q \in Neighbours(name, instance, listed) : listed[q].spec.endpoint.host # None}

(* A pair in which neither side has a host gets no entry.                  *)
Reachable(name, instance, listed) ==
  {q \in Neighbours(name, instance, listed) :
     instance.spec.endpoint.host # None \/ listed[q].spec.endpoint.host # None}

(* routeRulesForPeer: every binding that selects the peer, whatever its    *)
(* network.                                                                *)
routeRulesForPeer(name, labels, bindings) ==
  {r \in RouteNames :
     bindings[r].live /\ PeerMatchesSelector(name, labels, bindings[r].spec.selector)}

(* The entry for one listed peer.                                          *)
Configuration(name, object, bindings) ==
  [publicKey |-> object.spec.publicKey,
   endpoint |-> IF object.spec.endpoint.host # None THEN object.spec.endpoint ELSE None,
   allowedIP |-> splitNetMask(object.status.address)[1],
   routes |-> UNION {bindings[r].spec.routes :
                r \in routeRulesForPeer(name, object.spec.labels, bindings)}]

-----------------------------------------------------------------------------
(* Mutant: a peer that has a network is matched against the rules again.   *)
PeerGetReassigns(p) ==
  /\ pr.pc = "idle"
  /\ p \in peerQueue
  /\ peerQueue' = peerQueue \ {p}
  /\ pr' = IF cachedPeers[p].live
             THEN [PeerIdle EXCEPT !.pc = "network", !.name = p,
                                   !.instance = cachedPeers[p],
                                   !.status = cachedPeers[p].status]
             ELSE PeerIdle
  /\ UNCHANGED <<serverVars, cacheVars, eventVars>>

(* Reconcile takes a request, gets the Peer and picks its case.            *)
PeerGet(p) ==
  /\ pr.pc = "idle"
  /\ p \in peerQueue
  /\ peerQueue' = peerQueue \ {p}
  /\ LET instance == cachedPeers[p]
         case == IF instance.status.network = None THEN "network"
                 ELSE IF instance.status.address = None THEN "address"
                 ELSE "config"
     IN  pr' = IF instance.live
                 THEN [PeerIdle EXCEPT !.pc = case, !.name = p, !.instance = instance,
                                       !.status = instance.status]
                 ELSE PeerIdle
  /\ UNCHANGED <<serverVars, cacheVars, eventVars>>

(* What is common to the reads below: they touch only the Reconcile.       *)
PeerRead(pc) ==
  /\ pr.pc = pc
  /\ UNCHANGED <<peerQueue, serverVars, cacheVars, eventVars>>

(* Status.Network == "": list the networks, assign the one that matches.   *)
PeerAssignNetwork ==
  /\ PeerRead("network")
  /\ \/ \E n \in NetworkNames :
          /\ allocateNetwork(pr.name, pr.instance.spec.labels, cachedNetworks, n)
          /\ pr' = [pr EXCEPT !.pc = "update",
                              !.status = [pr.status EXCEPT !.network = n]]
     \/ /\ ~ \E n \in NetworkNames :
              allocateNetwork(pr.name, pr.instance.spec.labels, cachedNetworks, n)
        /\ pr' = PeerIdle

(* Status.Address == "": copy the address the network allocated, if any.   *)
(* An empty address leaves the status as it was: nothing to update.        *)
PeerAssignAddress ==
  /\ PeerRead("address")
  /\ LET network == cachedNetworks[pr.instance.status.network]
         mine == {alloc \in network.allocations : alloc.name = pr.name}
     IN  \/ /\ network.live
            /\ \E alloc \in mine :
                 pr' = IF alloc.address = None
                         THEN PeerIdle
                         ELSE [pr EXCEPT !.pc = "update",
                                         !.status = [pr.status EXCEPT !.address = alloc.address]]
         \/ /\ ~network.live \/ mine = {}
            /\ pr' = PeerIdle

(* Otherwise the network must exist ...                                    *)
PeerGetNetwork ==
  /\ PeerRead("config")
  /\ pr' = IF cachedNetworks[pr.instance.status.network].live
             THEN [pr EXCEPT !.pc = "list"]
             ELSE PeerIdle

(* ... and the peers are listed and filtered.                              *)
PeerList ==
  /\ PeerRead("list")
  /\ ~ ConfigurationFails(pr.name, pr.instance, cachedPeers)
  /\ pr' = [pr EXCEPT !.pc = "routes", !.listed = cachedPeers,
                      !.todo = Reachable(pr.name, pr.instance, cachedPeers),
                      !.status = [pr.status EXCEPT !.peers = NoConfigurations]]

(* An endpoint that cannot be split is an error: the request goes back.    *)
PeerListFails ==
  /\ pr.pc = "list"
  /\ ConfigurationFails(pr.name, pr.instance, cachedPeers)
  /\ pr' = PeerIdle
  /\ peerQueue' = peerQueue \cup {pr.name}
  /\ UNCHANGED <<serverVars, cacheVars, eventVars>>

(* Each listed peer's route bindings are listed in turn.                   *)
PeerConfigure(q) ==
  /\ PeerRead("routes")
  /\ q \in pr.todo
  /\ pr' = [pr EXCEPT !.todo = pr.todo \ {q},
                      !.status = [pr.status EXCEPT
                         !.peers = [pr.status.peers EXCEPT
                            ![q] = Configuration(q, pr.listed[q], cachedRoutes)]]]

(* The loop ends; an unchanged status is not written.                      *)
PeerConfigured ==
  /\ PeerRead("routes")
  /\ pr.todo = {}
  /\ pr' = IF pr.status = pr.instance.status
             THEN PeerIdle
             ELSE [PeerIdle EXCEPT !.pc = "update", !.name = pr.name,
                                   !.instance = pr.instance, !.status = pr.status]

(* The status update succeeds, or is refused and the request goes back.    *)
PeerUpdate ==
  /\ pr.pc = "update"
  /\ PeerUpdateAccepted(pr.name, pr.instance)
  /\ WritePeerStatus(pr.name, pr.status)
  /\ pr' = PeerIdle
  /\ UNCHANGED <<peerQueue, networks, routes, networkEvents, routeEvents, cacheVars>>

(* Mutant: the refused copy is written again and again.                    *)
PeerUpdateRetries ==
  /\ pr.pc = "update"
  /\ ~ PeerUpdateAccepted(pr.name, pr.instance)
  /\ UNCHANGED <<peerControllerVars, serverVars, cacheVars, eventVars>>

PeerUpdateConflict ==
  /\ pr.pc = "update"
  /\ ~ PeerUpdateAccepted(pr.name, pr.instance)
  /\ pr' = PeerIdle
  /\ peerQueue' = peerQueue \cup {pr.name}
  /\ UNCHANGED <<serverVars, cacheVars, eventVars>>

(* Mutant: the error is logged and not returned.                           *)
PeerErrorSwallowed ==
  /\ pr.pc # "idle"
  /\ pr' = PeerIdle
  /\ UNCHANGED <<peerQueue, serverVars, cacheVars, eventVars>>

(* A call fails, before or after the server has stored the status.         *)
PeerError ==
  /\ pr.pc # "idle"
  /\ pr' = PeerIdle
  /\ peerQueue' = peerQueue \cup {pr.name}
  /\ UNCHANGED <<serverVars, cacheVars, eventVars>>

PeerUpdateReplyLost ==
  /\ pr.pc = "update"
  /\ PeerUpdateAccepted(pr.name, pr.instance)
  /\ WritePeerStatus(pr.name, pr.status)
  /\ pr' = PeerIdle
  /\ peerQueue' = peerQueue \cup {pr.name}
  /\ UNCHANGED <<networks, routes, networkEvents, routeEvents, cacheVars>>

PeerControllerStep ==
  \/ \E p \in PeerNames : PeerGet(p)
  \/ PeerAssignNetwork
  \/ PeerAssignAddress
  \/ PeerGetNetwork
  \/ PeerList
  \/ PeerListFails
  \/ \E q \in PeerNames : PeerConfigure(q)
  \/ PeerConfigured
  \/ PeerUpdate
  \/ PeerUpdateConflict

PeerControllerFault == PeerError \/ PeerUpdateReplyLost
=============================================================================
