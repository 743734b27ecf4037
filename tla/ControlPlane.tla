---------------------------- MODULE ControlPlane ----------------------------
(***************************************************************************)
(* The kubewg manager (cmd/manager): the peer controller and the network   *)
(* controller side by side over one API server and one set of informer     *)
(* caches, driven by users who create, edit and delete the resources, and  *)
(* disturbed by failing API calls and by restarts of the manager.          *)
(***************************************************************************)
EXTENDS PeerController, NetworkController

CONSTANTS
  PeerSpecs,      \* PeerSpecs[p]: the specs users give Peer p
  NetworkSpecs,   \* NetworkSpecs[n]: the allocation rules users give Network n
  RouteSpecs,     \* RouteSpecs[r]: the specs users give RouteBinding r
  MaxEdits,       \* bound on user edits
  MaxFaults,      \* bound on failing API calls
  MaxRestarts     \* bound on restarts of the manager

ASSUME SpecsAssumption ==
  /\ PeerSpecs \in [PeerNames -> SUBSET PeerSpec]
  /\ NetworkSpecs \in [NetworkNames -> SUBSET NetworkSpec]
  /\ RouteSpecs \in [RouteNames -> SUBSET RouteBindingSpec]

ASSUME BoundsAssumption ==
  MaxEdits \in Nat /\ MaxFaults \in Nat /\ MaxRestarts \in Nat

VARIABLES
  edits, faults, restarts,   \* how much of each bound is used up
  deletedNetworks            \* history: names of Networks ever deleted

controllerVars == <<networkControllerVars, peerControllerVars>>
boundVars == <<edits, faults, restarts>>
vars == <<serverVars, cacheVars, eventVars, controllerVars, boundVars, deletedNetworks>>

Init ==
  /\ ClusterInit
  /\ NetworkControllerInit
  /\ PeerControllerInit
  /\ edits = 0 /\ faults = 0 /\ restarts = 0
  /\ deletedNetworks = {}

-----------------------------------------------------------------------------
(* Users. Creating an object drops any status; a spec edit keeps it.       *)

UserEdits ==
  /\ edits < MaxEdits
  /\ edits' = edits + 1
  /\ UNCHANGED <<faults, restarts, cacheVars, controllerVars>>

CreatePeer(p) ==
  /\ UserEdits
  /\ ~ peers[p].live
  /\ \E spec \in PeerSpecs[p] :
       WritePeer(p, [live |-> TRUE, rv |-> peers[p].rv + 1,
                     spec |-> spec, status |-> NoStatus])
  /\ UNCHANGED <<networks, routes, networkEvents, routeEvents, deletedNetworks>>

EditPeer(p) ==
  /\ UserEdits
  /\ peers[p].live
  /\ \E spec \in PeerSpecs[p] \ {peers[p].spec} :
       WritePeer(p, [peers[p] EXCEPT !.rv = peers[p].rv + 1, !.spec = spec])
  /\ UNCHANGED <<networks, routes, networkEvents, routeEvents, deletedNetworks>>

DeletePeer(p) ==
  /\ UserEdits
  /\ peers[p].live
  /\ WritePeer(p, NoPeer(peers[p].rv + 1))
  /\ UNCHANGED <<networks, routes, networkEvents, routeEvents, deletedNetworks>>

CreateNetwork(n) ==
  /\ UserEdits
  /\ ~ networks[n].live
  /\ \E rules \in NetworkSpecs[n] :
       WriteNetwork(n, [live |-> TRUE, rv |-> networks[n].rv + 1,
                        rules |-> rules, allocations |-> {}])
  /\ UNCHANGED <<peers, routes, peerEvents, routeEvents, deletedNetworks>>

EditNetwork(n) ==
  /\ UserEdits
  /\ networks[n].live
  /\ \E rules \in NetworkSpecs[n] \ {networks[n].rules} :
       WriteNetwork(n, [networks[n] EXCEPT !.rv = networks[n].rv + 1, !.rules = rules])
  /\ UNCHANGED <<peers, routes, peerEvents, routeEvents, deletedNetworks>>

DeleteNetwork(n) ==
  /\ UserEdits
  /\ networks[n].live
  /\ WriteNetwork(n, NoNetwork(networks[n].rv + 1))
  /\ deletedNetworks' = deletedNetworks \cup {n}
  /\ UNCHANGED <<peers, routes, peerEvents, routeEvents>>

(* RouteBindings are only read by the controllers: create and edit alike.  *)
ApplyRoute(r) ==
  /\ UserEdits
  /\ \E spec \in RouteSpecs[r] :
       /\ routes[r] # [live |-> TRUE, spec |-> spec]
       /\ WriteRoute(r, [live |-> TRUE, spec |-> spec])
  /\ UNCHANGED <<peers, networks, peerEvents, networkEvents, deletedNetworks>>

DeleteRoute(r) ==
  /\ UserEdits
  /\ routes[r].live
  /\ WriteRoute(r, NoRoute)
  /\ UNCHANGED <<peers, networks, peerEvents, networkEvents, deletedNetworks>>

-----------------------------------------------------------------------------
(* Informers. A delivered event updates the cache and runs the handlers    *)
(* that both controllers registered for the resource. An update maps the   *)
(* old and the new version, a creation or deletion the one there is.       *)

LiveOf(old, new) == {o \in {old, new} : o.live}

informerUnchanged ==
  UNCHANGED <<serverVars, pr, nr, boundVars, deletedNetworks>>

DeliverPeerEvent ==
  /\ peerEvents # <<>>
  /\ LET e == Head(peerEvents)
     IN  /\ cachedPeers' = [cachedPeers EXCEPT ![e.name] = e.object]
         /\ peerQueue' = peerQueue \cup {e.name}
         /\ networkQueue' = networkQueue \cup
              UNION {peerMapper(o) : o \in LiveOf(cachedPeers[e.name], e.object)}
  /\ peerEvents' = Tail(peerEvents)
  /\ UNCHANGED <<networkEvents, routeEvents, cachedNetworks, cachedRoutes>>
  /\ informerUnchanged

DeliverNetworkEvent ==
  /\ networkEvents # <<>>
  /\ LET e == Head(networkEvents)
     IN  /\ cachedNetworks' = [cachedNetworks EXCEPT ![e.name] = e.object]
         /\ networkQueue' = networkQueue \cup {e.name}
         /\ peerQueue' = peerQueue \cup networkMapper(e.name)
  /\ networkEvents' = Tail(networkEvents)
  /\ UNCHANGED <<peerEvents, routeEvents, cachedPeers, cachedRoutes>>
  /\ informerUnchanged

DeliverRouteEvent ==
  /\ routeEvents # <<>>
  /\ LET e == Head(routeEvents)
     IN  /\ cachedRoutes' = [cachedRoutes EXCEPT ![e.name] = e.object]
         /\ peerQueue' = peerQueue \cup
              UNION {routeBindingMapper(o) : o \in LiveOf(cachedRoutes[e.name], e.object)}
  /\ routeEvents' = Tail(routeEvents)
  /\ UNCHANGED <<networkQueue, peerEvents, networkEvents, cachedPeers, cachedNetworks>>
  /\ informerUnchanged

LiveNames(objects) == {x \in DOMAIN objects : objects[x].live}

(* An informer's resync hands every cached object to the handlers again.   *)
ResyncPeers ==
  /\ peerQueue' = peerQueue \cup LiveNames(cachedPeers)
  /\ networkQueue' = networkQueue \cup
       UNION {peerMapper(cachedPeers[p]) : p \in LiveNames(cachedPeers)}
  /\ UNCHANGED <<cacheVars, eventVars>>
  /\ informerUnchanged

ResyncNetworks ==
  /\ networkQueue' = networkQueue \cup LiveNames(cachedNetworks)
  /\ peerQueue' = peerQueue \cup
       UNION {networkMapper(n) : n \in LiveNames(cachedNetworks)}
  /\ UNCHANGED <<cacheVars, eventVars>>
  /\ informerUnchanged

ResyncRoutes ==
  /\ peerQueue' = peerQueue \cup
       UNION {routeBindingMapper(cachedRoutes[r]) : r \in LiveNames(cachedRoutes)}
  /\ UNCHANGED <<networkQueue, cacheVars, eventVars>>
  /\ informerUnchanged

-----------------------------------------------------------------------------
(* The manager restarts: queues, caches and the Reconciles under way are   *)
(* lost. The workers start once the caches are filled, and by then every   *)
(* object has been announced as created.                                   *)
Restart ==
  /\ restarts < MaxRestarts
  /\ restarts' = restarts + 1
  /\ cachedPeers' = peers /\ cachedNetworks' = networks /\ cachedRoutes' = routes
  /\ peerEvents' = <<>> /\ networkEvents' = <<>> /\ routeEvents' = <<>>
  /\ peerQueue' = LiveNames(peers) /\ networkQueue' = LiveNames(networks)
  /\ pr' = PeerIdle /\ nr' = NetworkIdle
  /\ UNCHANGED <<serverVars, edits, faults, deletedNetworks>>

PeerStep ==
  PeerControllerStep /\ UNCHANGED <<networkControllerVars, boundVars, deletedNetworks>>

NetworkStep ==
  NetworkControllerStep /\ UNCHANGED <<peerControllerVars, boundVars, deletedNetworks>>

(* An API call of either controller fails.                                 *)
Fault ==
  /\ faults < MaxFaults
  /\ faults' = faults + 1
  /\ \/ PeerControllerFault /\ UNCHANGED networkControllerVars
     \/ NetworkControllerFault /\ UNCHANGED peerControllerVars
  /\ UNCHANGED <<edits, restarts, deletedNetworks>>

UserStep ==
  \/ \E p \in PeerNames : CreatePeer(p) \/ EditPeer(p) \/ DeletePeer(p)
  \/ \E n \in NetworkNames : CreateNetwork(n) \/ EditNetwork(n) \/ DeleteNetwork(n)
  \/ \E r \in RouteNames : ApplyRoute(r) \/ DeleteRoute(r)

Next ==
  \/ UserStep
  \/ DeliverPeerEvent \/ DeliverNetworkEvent \/ DeliverRouteEvent
  \/ ResyncPeers \/ ResyncNetworks \/ ResyncRoutes
  \/ PeerStep
  \/ NetworkStep
  \/ Fault
  \/ Restart

Spec == Init /\ [][Next]_vars
=============================================================================
