------------------------------ MODULE Cluster ------------------------------
(***************************************************************************)
(* The Kubernetes API server and the manager's informers, modelled from    *)
(* how the controllers use them: objects with a resourceVersion, status    *)
(* updates that are refused when the version has moved on, one ordered     *)
(* watch stream per resource and one cache per resource that trails the    *)
(* server by the events still in the stream.                               *)
(*                                                                         *)
(* A resourceVersion is only ever compared with that of the same object,   *)
(* so each object has its own counter; it survives deletion, and a deleted *)
(* object is a zero record with live = FALSE.                              *)
(***************************************************************************)
EXTENDS WgApi

VARIABLES
  peers, networks, routes,            \* the objects the API server stores
  cachedPeers, cachedNetworks, cachedRoutes,   \* the informers' caches
  peerEvents, networkEvents, routeEvents       \* watch events under way

serverVars == <<peers, networks, routes>>
cacheVars == <<cachedPeers, cachedNetworks, cachedRoutes>>
eventVars == <<peerEvents, networkEvents, routeEvents>>

Peer == [live: BOOLEAN, rv: Nat, spec: PeerSpec, status: PeerStatus]

Network ==
  [live: BOOLEAN, rv: Nat, rules: NetworkSpec, allocations: SUBSET IPAssignment]

RouteBinding == [live: BOOLEAN, spec: RouteBindingSpec]

NoPeer(v) == [live |-> FALSE, rv |-> v, spec |-> NoPeerSpec, status |-> NoStatus]
NoNetwork(v) == [live |-> FALSE, rv |-> v, rules |-> <<>>, allocations |-> {}]
NoRoute == [live |-> FALSE, spec |-> NoRouteSpec]

PeerEvent == [name: PeerNames, object: Peer]
NetworkEvent == [name: NetworkNames, object: Network]
RouteEvent == [name: RouteNames, object: RouteBinding]

ClusterTypeOK ==
  /\ peers \in [PeerNames -> Peer]
  /\ networks \in [NetworkNames -> Network]
  /\ routes \in [RouteNames -> RouteBinding]
  /\ cachedPeers \in [PeerNames -> Peer]
  /\ cachedNetworks \in [NetworkNames -> Network]
  /\ cachedRoutes \in [RouteNames -> RouteBinding]
  /\ peerEvents \in Seq(PeerEvent)
  /\ networkEvents \in Seq(NetworkEvent)
  /\ routeEvents \in Seq(RouteEvent)

ClusterInit ==
  /\ peers = [p \in PeerNames |-> NoPeer(0)]
  /\ networks = [n \in NetworkNames |-> NoNetwork(0)]
  /\ routes = [r \in RouteNames |-> NoRoute]
  /\ cachedPeers = peers /\ cachedNetworks = networks /\ cachedRoutes = routes
  /\ peerEvents = <<>> /\ networkEvents = <<>> /\ routeEvents = <<>>

-----------------------------------------------------------------------------
(* A write stores the object and puts it on the resource's watch stream.   *)
WritePeer(p, object) ==
  /\ peers' = [peers EXCEPT ![p] = object]
  /\ peerEvents' = Append(peerEvents, [name |-> p, object |-> object])

WriteNetwork(n, object) ==
  /\ networks' = [networks EXCEPT ![n] = object]
  /\ networkEvents' = Append(networkEvents, [name |-> n, object |-> object])

WriteRoute(r, object) ==
  /\ routes' = [routes EXCEPT ![r] = object]
  /\ routeEvents' = Append(routeEvents, [name |-> r, object |-> object])

(* Mutants: the version is not compared, as with a Patch.                  *)
PeerUpdateUnversioned(p, copy) == peers[p].live
NetworkUpdateUnversioned(n, copy) == networks[n].live

(* Status().Update succeeds only while the stored object still has the     *)
(* resourceVersion of the copy being written back.                         *)
PeerUpdateAccepted(p, copy) == peers[p].live /\ peers[p].rv = copy.rv

NetworkUpdateAccepted(n, copy) == networks[n].live /\ networks[n].rv = copy.rv

(* The status subresource replaces the status and nothing else.            *)
WritePeerStatus(p, status) ==
  WritePeer(p, [peers[p] EXCEPT !.rv = peers[p].rv + 1, !.status = status])

WriteNetworkStatus(n, allocations) ==
  WriteNetwork(n, [networks[n] EXCEPT !.rv = networks[n].rv + 1,
                                      !.allocations = allocations])
=============================================================================
