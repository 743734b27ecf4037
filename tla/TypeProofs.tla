----------------------------- MODULE TypeProofs -----------------------------
(***************************************************************************)
(* The proof, for every value of the constants, that the control plane is  *)
(* type correct, and the facts about typed objects it rests on.            *)
(***************************************************************************)
EXTENDS ControlPlaneProperties, SequenceTheorems, TLAPS

-----------------------------------------------------------------------------
(* Type correctness. TypeOK alone is not inductive: the addresses that a   *)
(* Reconcile copies into a status exist only because of the case it is in. *)

PeerReconcileTyped ==
  /\ pr.pc = "address" => pr.instance.status.network \in NetworkNames
  /\ \A q \in pr.todo : pr.listed[q].status.address # None

TypeInv == TypeOK /\ PeerReconcileTyped

(* The zero objects and idle Reconciles have their types.                  *)
LEMMA ZeroTyped ==
  /\ NoPeerSpec \in PeerSpec
  /\ NoConfigurations \in PeerConfigurations
  /\ NoStatus \in PeerStatus
  /\ \A v \in Nat : NoPeer(v) \in Peer
  /\ \A v \in Nat : NoNetwork(v) \in Network
  /\ NoRoute \in RouteBinding
  /\ PeerIdle \in PeerReconcile
  /\ NetworkIdle \in NetworkReconcile
<1>1. NoPeerSpec \in PeerSpec
  BY DEF NoPeerSpec, PeerSpec, Endpoint
<1>2. NoConfigurations \in PeerConfigurations
  BY DEF NoConfigurations, PeerConfigurations
<1>3. NoStatus \in PeerStatus
  BY <1>2 DEF NoStatus, PeerStatus
<1>4. \A v \in Nat : NoPeer(v) \in Peer
  BY <1>1, <1>3 DEF NoPeer, Peer
<1>5. \A v \in Nat : NoNetwork(v) \in Network
  BY DEF NoNetwork, Network, NetworkSpec
<1>6. NoRoute \in RouteBinding
  BY DEF NoRoute, RouteBinding, NoRouteSpec, RouteBindingSpec, PeerSelector
<1>7. PeerIdle \in PeerReconcile
  BY <1>3, <1>4 DEF PeerIdle, PeerReconcile
<1>8. NetworkIdle \in NetworkReconcile
  BY <1>5 DEF NetworkIdle, NetworkReconcile
<1> QED
  BY <1>1, <1>2, <1>3, <1>4, <1>5, <1>6, <1>7, <1>8

(* The fields of typed objects, and objects made of typed fields.          *)
LEMMA PeerFields ==
  ASSUME NEW o \in Peer
  PROVE  /\ o.live \in BOOLEAN /\ o.rv \in Nat
         /\ o.spec \in PeerSpec /\ o.status \in PeerStatus
BY DEF Peer

LEMMA PeerStatusFields ==
  ASSUME NEW s \in PeerStatus
  PROVE  /\ s.network \in NetworkNames \cup {None}
         /\ s.address \in Address \cup {None}
         /\ s.peers \in PeerConfigurations
BY DEF PeerStatus

LEMMA NetworkFields ==
  ASSUME NEW o \in Network
  PROVE  /\ o.live \in BOOLEAN /\ o.rv \in Nat
         /\ o.rules \in NetworkSpec /\ o.allocations \in SUBSET IPAssignment
BY DEF Network

LEMMA PeerReconcileFields ==
  ASSUME NEW r \in PeerReconcile
  PROVE  /\ r.name \in PeerNames \cup {None}
         /\ r.instance \in Peer
         /\ r.listed \in [PeerNames -> Peer]
         /\ r.todo \in SUBSET PeerNames
         /\ r.status \in PeerStatus
BY DEF PeerReconcile

(* The two ways an existing object is written: a new spec or a new status. *)
LEMMA PeerExcept ==
  ASSUME NEW o \in Peer, NEW v \in Nat
  PROVE  /\ \A s \in PeerStatus : [o EXCEPT !.rv = v, !.status = s] \in Peer
         /\ \A s \in PeerSpec : [o EXCEPT !.rv = v, !.spec = s] \in Peer
BY DEF Peer

LEMMA NetworkExcept ==
  ASSUME NEW o \in Network, NEW v \in Nat
  PROVE  /\ \A a \in SUBSET IPAssignment : [o EXCEPT !.rv = v, !.allocations = a] \in Network
         /\ \A r \in NetworkSpec : [o EXCEPT !.rv = v, !.rules = r] \in Network
BY DEF Network

(* Writes keep the server and the watch streams typed.                     *)
LEMMA WritePeerTyped ==
  ASSUME peers \in [PeerNames -> Peer], peerEvents \in Seq(PeerEvent),
         NEW p \in PeerNames, NEW o \in Peer, WritePeer(p, o)
  PROVE  peers' \in [PeerNames -> Peer] /\ peerEvents' \in Seq(PeerEvent)
<1>1. [name |-> p, object |-> o] \in PeerEvent
  BY DEF PeerEvent
<1>2. peers' \in [PeerNames -> Peer]
  BY DEF WritePeer
<1>3. peerEvents' \in Seq(PeerEvent)
  BY <1>1 DEF WritePeer
<1> QED
  BY <1>2, <1>3

LEMMA WriteNetworkTyped ==
  ASSUME networks \in [NetworkNames -> Network], networkEvents \in Seq(NetworkEvent),
         NEW n \in NetworkNames, NEW o \in Network, WriteNetwork(n, o)
  PROVE  networks' \in [NetworkNames -> Network] /\ networkEvents' \in Seq(NetworkEvent)
<1>1. [name |-> n, object |-> o] \in NetworkEvent
  BY DEF NetworkEvent
<1>2. networks' \in [NetworkNames -> Network]
  BY DEF WriteNetwork
<1>3. networkEvents' \in Seq(NetworkEvent)
  BY <1>1 DEF WriteNetwork
<1> QED
  BY <1>2, <1>3

LEMMA WriteRouteTyped ==
  ASSUME routes \in [RouteNames -> RouteBinding], routeEvents \in Seq(RouteEvent),
         NEW r \in RouteNames, NEW o \in RouteBinding, WriteRoute(r, o)
  PROVE  routes' \in [RouteNames -> RouteBinding] /\ routeEvents' \in Seq(RouteEvent)
<1>1. [name |-> r, object |-> o] \in RouteEvent
  BY DEF RouteEvent
<1>2. routes' \in [RouteNames -> RouteBinding]
  BY DEF WriteRoute
<1>3. routeEvents' \in Seq(RouteEvent)
  BY <1>1 DEF WriteRoute
<1> QED
  BY <1>2, <1>3

(* Status updates write typed objects.                                     *)
LEMMA WritePeerStatusTyped ==
  ASSUME peers \in [PeerNames -> Peer], peerEvents \in Seq(PeerEvent),
         NEW p \in PeerNames, NEW s \in PeerStatus, WritePeerStatus(p, s)
  PROVE  peers' \in [PeerNames -> Peer] /\ peerEvents' \in Seq(PeerEvent)
<1>1. peers[p] \in Peer /\ peers[p].rv + 1 \in Nat
  BY PeerFields
<1>2. [peers[p] EXCEPT !.rv = peers[p].rv + 1, !.status = s] \in Peer
  BY <1>1, PeerExcept
<1> QED
  BY <1>2, WritePeerTyped DEF WritePeerStatus

LEMMA WriteNetworkStatusTyped ==
  ASSUME networks \in [NetworkNames -> Network], networkEvents \in Seq(NetworkEvent),
         NEW n \in NetworkNames, NEW a \in SUBSET IPAssignment, WriteNetworkStatus(n, a)
  PROVE  networks' \in [NetworkNames -> Network] /\ networkEvents' \in Seq(NetworkEvent)
<1>1. networks[n] \in Network /\ networks[n].rv + 1 \in Nat
  BY NetworkFields
<1>2. [networks[n] EXCEPT !.rv = networks[n].rv + 1, !.allocations = a] \in Network
  BY <1>1, NetworkExcept
<1> QED
  BY <1>2, WriteNetworkTyped DEF WriteNetworkStatus

(* What the network controller allocates are assignments.                  *)
LEMMA AllocateAllTyped ==
  ASSUME NEW n, NEW network \in Network, NEW listed
  PROVE  AllocateAll(n, network, listed) \in SUBSET IPAssignment
BY DEF AllocateAll, NewAllocations, Network

(* An entry computed for a peer that has an address is a configuration.    *)
LEMMA ConfigurationTyped ==
  ASSUME NEW q, NEW object \in Peer, object.status.address # None,
         NEW bindings \in [RouteNames -> RouteBinding]
  PROVE  Configuration(q, object, bindings) \in PeerConfiguration
<1>1. object.status.address \in Address
  BY PeerFields, PeerStatusFields
<1>2. splitNetMask(object.status.address)[1] \in HostAddress
  BY <1>1 DEF splitNetMask, Address, HostAddress
<1>3. /\ object.spec.publicKey \in PublicKeys \cup {None}
      /\ object.spec.endpoint \in Endpoint
  BY DEF Peer, PeerSpec
<1>4. \A r \in RouteNames : bindings[r].spec.routes \in SUBSET Subnets
  BY DEF RouteBinding, RouteBindingSpec
<1>5. UNION {bindings[r].spec.routes :
         r \in routeRulesForPeer(q, object.spec.labels, bindings)} \in SUBSET Subnets
  BY <1>4 DEF routeRulesForPeer
<1> QED
  BY <1>2, <1>3, <1>5 DEF Configuration, PeerConfiguration

-----------------------------------------------------------------------------
(* What users write: the next version of an object, with the status it had *)
(* if it goes on living, and with none if it is new.                       *)

LEMMA UserPeerWrite ==
  ASSUME peers \in [PeerNames -> Peer], NEW p \in PeerNames,
         CreatePeer(p) \/ EditPeer(p) \/ DeletePeer(p)
  PROVE  \E o \in Peer :
           /\ WritePeer(p, o)
           /\ o.rv = peers[p].rv + 1
           /\ o.status = NoStatus \/ o.status = peers[p].status
           /\ peers[p].live /\ o.live => o.status = peers[p].status
           /\ o.live => o.spec \in PeerSpecs[p]
<1>1. peers[p] \in Peer /\ peers[p].rv + 1 \in Nat
  BY PeerFields
<1>2. CASE CreatePeer(p)
  <2>1. PICK spec \in PeerSpecs[p] :
          WritePeer(p, [live |-> TRUE, rv |-> peers[p].rv + 1,
                        spec |-> spec, status |-> NoStatus])
    BY <1>2 DEF CreatePeer
  <2>2. spec \in PeerSpec /\ ~ peers[p].live
    BY <1>2, SpecsAssumption DEF CreatePeer
  <2>3. [live |-> TRUE, rv |-> peers[p].rv + 1, spec |-> spec, status |-> NoStatus] \in Peer
    BY <1>1, <2>2, ZeroTyped DEF Peer
  <2> QED
    BY <2>1, <2>2, <2>3
<1>3. CASE EditPeer(p)
  <2>1. PICK spec \in PeerSpecs[p] \ {peers[p].spec} :
          WritePeer(p, [peers[p] EXCEPT !.rv = peers[p].rv + 1, !.spec = spec])
    BY <1>3 DEF EditPeer
  <2>2. spec \in PeerSpec
    BY SpecsAssumption
  <2>3. [peers[p] EXCEPT !.rv = peers[p].rv + 1, !.spec = spec] \in Peer
    BY <1>1, <2>2, PeerExcept
  <2>4. /\ [peers[p] EXCEPT !.rv = peers[p].rv + 1, !.spec = spec].rv = peers[p].rv + 1
        /\ [peers[p] EXCEPT !.rv = peers[p].rv + 1, !.spec = spec].status = peers[p].status
        /\ [peers[p] EXCEPT !.rv = peers[p].rv + 1, !.spec = spec].spec = spec
    BY <1>1 DEF Peer
  <2> QED
    BY <2>1, <2>3, <2>4
<1>4. CASE DeletePeer(p)
  <2>1. NoPeer(peers[p].rv + 1) \in Peer
    BY <1>1, ZeroTyped
  <2> QED
    BY <1>4, <2>1 DEF DeletePeer, NoPeer
<1> QED
  BY <1>2, <1>3, <1>4

LEMMA UserNetworkWrite ==
  ASSUME networks \in [NetworkNames -> Network], NEW n \in NetworkNames,
         CreateNetwork(n) \/ EditNetwork(n) \/ DeleteNetwork(n)
  PROVE  \E o \in Network :
           /\ WriteNetwork(n, o)
           /\ o.rv = networks[n].rv + 1
           /\ ~ networks[n].live \/ ~ o.live => o.allocations = {}
           /\ networks[n].live /\ o.live => o.allocations = networks[n].allocations
           /\ deletedNetworks' = IF o.live THEN deletedNetworks
                                           ELSE deletedNetworks \cup {n}
<1>1. networks[n] \in Network /\ networks[n].rv + 1 \in Nat
  BY NetworkFields
<1>2. CASE CreateNetwork(n)
  <2>1. PICK rules \in NetworkSpecs[n] :
          WriteNetwork(n, [live |-> TRUE, rv |-> networks[n].rv + 1,
                           rules |-> rules, allocations |-> {}])
    BY <1>2 DEF CreateNetwork
  <2>2. rules \in NetworkSpec /\ ~ networks[n].live /\ deletedNetworks' = deletedNetworks
    BY <1>2, SpecsAssumption DEF CreateNetwork
  <2>3. [live |-> TRUE, rv |-> networks[n].rv + 1, rules |-> rules, allocations |-> {}]
          \in Network
    BY <1>1, <2>2 DEF Network
  <2> QED
    BY <2>1, <2>2, <2>3
<1>3. CASE EditNetwork(n)
  <2>1. PICK rules \in NetworkSpecs[n] \ {networks[n].rules} :
          WriteNetwork(n, [networks[n] EXCEPT !.rv = networks[n].rv + 1, !.rules = rules])
    BY <1>3 DEF EditNetwork
  <2> DEFINE o == [networks[n] EXCEPT !.rv = networks[n].rv + 1, !.rules = rules]
  <2>2. rules \in NetworkSpec /\ networks[n].live /\ deletedNetworks' = deletedNetworks
    BY <1>3, SpecsAssumption DEF EditNetwork
  <2>3. o \in Network
    BY <1>1, <2>2, NetworkExcept
  <2>4. /\ o.rv = networks[n].rv + 1 /\ o.live = networks[n].live
        /\ o.allocations = networks[n].allocations
    BY <1>1 DEF Network
  <2> HIDE DEF o
  <2>5. WriteNetwork(n, o)
    BY <2>1 DEF o
  <2> QED
    BY <2>2, <2>3, <2>4, <2>5
<1>4. CASE DeleteNetwork(n)
  <2>1. NoNetwork(networks[n].rv + 1) \in Network
    BY <1>1, ZeroTyped
  <2> QED
    BY <1>4, <2>1 DEF DeleteNetwork, NoNetwork
<1> QED
  BY <1>2, <1>3, <1>4

-----------------------------------------------------------------------------
(* Each group of actions preserves the type invariant.                     *)

LEMMA UserStepTyped ==
  ASSUME TypeInv, UserStep
  PROVE  TypeInv'
<1> USE DEF TypeInv, TypeOK, ClusterTypeOK
<1>1. UNCHANGED <<cachedPeers, cachedNetworks, cachedRoutes, peerQueue, pr,
                  networkQueue, nr, faults, restarts>>
      /\ edits' \in 0..MaxEdits
  <2>1. UserEdits
    BY DEF UserStep, CreatePeer, EditPeer, DeletePeer, CreateNetwork, EditNetwork,
           DeleteNetwork, ApplyRoute, DeleteRoute
  <2> QED
    BY <2>1, BoundsAssumption
    DEF UserEdits, cacheVars, controllerVars, networkControllerVars, peerControllerVars
<1>2. NetworkControllerTypeOK' /\ PeerControllerTypeOK' /\ PeerReconcileTyped'
  BY <1>1 DEF NetworkControllerTypeOK, PeerControllerTypeOK, PeerReconcileTyped
<1>3. ASSUME NEW p \in PeerNames, CreatePeer(p) \/ EditPeer(p) \/ DeletePeer(p)
      PROVE  /\ peers' \in [PeerNames -> Peer] /\ peerEvents' \in Seq(PeerEvent)
             /\ UNCHANGED <<networks, routes, networkEvents, routeEvents, deletedNetworks>>
  BY <1>3, UserPeerWrite, WritePeerTyped DEF CreatePeer, EditPeer, DeletePeer
<1>4. ASSUME NEW n \in NetworkNames, CreateNetwork(n) \/ EditNetwork(n) \/ DeleteNetwork(n)
      PROVE  /\ networks' \in [NetworkNames -> Network] /\ networkEvents' \in Seq(NetworkEvent)
             /\ UNCHANGED <<peers, routes, peerEvents, routeEvents>>
             /\ deletedNetworks' \subseteq NetworkNames
  BY <1>4, UserNetworkWrite, WriteNetworkTyped DEF CreateNetwork, EditNetwork, DeleteNetwork
<1>5. ASSUME NEW r \in RouteNames, ApplyRoute(r) \/ DeleteRoute(r)
      PROVE  /\ routes' \in [RouteNames -> RouteBinding] /\ routeEvents' \in Seq(RouteEvent)
             /\ UNCHANGED <<peers, networks, peerEvents, networkEvents, deletedNetworks>>
  <2>1. CASE ApplyRoute(r)
    <3>1. PICK spec \in RouteSpecs[r] : WriteRoute(r, [live |-> TRUE, spec |-> spec])
      BY <2>1 DEF ApplyRoute
    <3>2. [live |-> TRUE, spec |-> spec] \in RouteBinding
      BY SpecsAssumption DEF RouteBinding
    <3> QED
      BY <2>1, <3>1, <3>2, WriteRouteTyped DEF ApplyRoute
  <2>2. CASE DeleteRoute(r)
    BY <2>2, ZeroTyped, WriteRouteTyped DEF DeleteRoute
  <2> QED
    BY <1>5, <2>1, <2>2
<1> QED
  BY <1>1, <1>2, <1>3, <1>4, <1>5 DEF UserStep

LEMMA InformerStepTyped ==
  ASSUME TypeInv,
         \/ DeliverPeerEvent \/ DeliverNetworkEvent \/ DeliverRouteEvent
         \/ ResyncPeers \/ ResyncNetworks \/ ResyncRoutes
  PROVE  TypeInv'
<1> USE DEF TypeInv, TypeOK, ClusterTypeOK
<1>1. UNCHANGED <<peers, networks, routes, pr, nr, edits, faults, restarts, deletedNetworks>>
  BY DEF DeliverPeerEvent, DeliverNetworkEvent, DeliverRouteEvent, ResyncPeers,
         ResyncNetworks, ResyncRoutes, informerUnchanged, serverVars, boundVars
<1>2. PeerReconcileTyped'
  BY <1>1 DEF PeerReconcileTyped
<1>3. \A o : peerMapper(o) \subseteq NetworkNames
  BY DEF peerMapper
<1>4. \A o : networkMapper(o) \subseteq PeerNames /\ routeBindingMapper(o) \subseteq PeerNames
  BY DEF networkMapper, routeBindingMapper
<1>5. LiveNames(cachedPeers) \subseteq PeerNames /\ LiveNames(cachedNetworks) \subseteq NetworkNames
  BY DEF LiveNames
<1>6. networkQueue \subseteq NetworkNames /\ peerQueue \subseteq PeerNames
  BY DEF NetworkControllerTypeOK, PeerControllerTypeOK
<1>7. (networkQueue' \subseteq NetworkNames /\ peerQueue' \subseteq PeerNames)
        => NetworkControllerTypeOK' /\ PeerControllerTypeOK'
  BY <1>1 DEF NetworkControllerTypeOK, PeerControllerTypeOK
<1>8. CASE DeliverPeerEvent
  <2>1. Head(peerEvents) \in PeerEvent /\ Tail(peerEvents) \in Seq(PeerEvent)
    BY <1>8, HeadTailProperties DEF DeliverPeerEvent
  <2>2. Head(peerEvents).name \in PeerNames /\ Head(peerEvents).object \in Peer
    BY <2>1 DEF PeerEvent
  <2>3. cachedPeers' \in [PeerNames -> Peer] /\ peerEvents' \in Seq(PeerEvent)
        /\ UNCHANGED <<networkEvents, routeEvents, cachedNetworks, cachedRoutes>>
    BY <1>8, <2>1, <2>2 DEF DeliverPeerEvent
  <2>4. networkQueue' \subseteq NetworkNames /\ peerQueue' \subseteq PeerNames
    BY <1>8, <1>3, <1>6, <2>2 DEF DeliverPeerEvent
  <2> QED
    BY <1>1, <1>2, <1>7, <2>3, <2>4
<1>9. CASE DeliverNetworkEvent
  <2>1. Head(networkEvents) \in NetworkEvent /\ Tail(networkEvents) \in Seq(NetworkEvent)
    BY <1>9, HeadTailProperties DEF DeliverNetworkEvent
  <2>2. Head(networkEvents).name \in NetworkNames /\ Head(networkEvents).object \in Network
    BY <2>1 DEF NetworkEvent
  <2>3. cachedNetworks' \in [NetworkNames -> Network] /\ networkEvents' \in Seq(NetworkEvent)
        /\ UNCHANGED <<peerEvents, routeEvents, cachedPeers, cachedRoutes>>
    BY <1>9, <2>1, <2>2 DEF DeliverNetworkEvent
  <2>4. networkQueue' \subseteq NetworkNames /\ peerQueue' \subseteq PeerNames
    BY <1>9, <1>4, <1>6, <2>2 DEF DeliverNetworkEvent
  <2> QED
    BY <1>1, <1>2, <1>7, <2>3, <2>4
<1>10. CASE DeliverRouteEvent
  <2>1. Head(routeEvents) \in RouteEvent /\ Tail(routeEvents) \in Seq(RouteEvent)
    BY <1>10, HeadTailProperties DEF DeliverRouteEvent
  <2>2. Head(routeEvents).name \in RouteNames /\ Head(routeEvents).object \in RouteBinding
    BY <2>1 DEF RouteEvent
  <2>3. cachedRoutes' \in [RouteNames -> RouteBinding] /\ routeEvents' \in Seq(RouteEvent)
        /\ UNCHANGED <<peerEvents, networkEvents, cachedPeers, cachedNetworks>>
    BY <1>10, <2>1, <2>2 DEF DeliverRouteEvent
  <2>4. networkQueue' \subseteq NetworkNames /\ peerQueue' \subseteq PeerNames
    BY <1>10, <1>4, <1>6 DEF DeliverRouteEvent
  <2> QED
    BY <1>1, <1>2, <1>7, <2>3, <2>4
<1>11. CASE ResyncPeers \/ ResyncNetworks \/ ResyncRoutes
  <2>1. UNCHANGED <<cachedPeers, cachedNetworks, cachedRoutes,
                    peerEvents, networkEvents, routeEvents>>
    BY <1>11 DEF ResyncPeers, ResyncNetworks, ResyncRoutes, cacheVars, eventVars
  <2>2. networkQueue' \subseteq NetworkNames /\ peerQueue' \subseteq PeerNames
    BY <1>11, <1>3, <1>4, <1>5, <1>6 DEF ResyncPeers, ResyncNetworks, ResyncRoutes
  <2> QED
    BY <1>1, <1>2, <1>7, <2>1, <2>2
<1> QED
  BY <1>8, <1>9, <1>10, <1>11

(* The controllers. What their steps have in common: everything that is    *)
(* not a Reconcile, a queue or a status is left alone.                     *)
LEMMA NetworkStepTyped ==
  ASSUME TypeInv, NetworkControllerStep \/ NetworkControllerFault,
         UNCHANGED <<peerQueue, pr>>
  PROVE  ClusterTypeOK' /\ NetworkControllerTypeOK' /\ PeerControllerTypeOK'
           /\ PeerReconcileTyped'
<1> USE DEF TypeInv, TypeOK, serverVars, cacheVars, eventVars
<1>1. PeerControllerTypeOK' /\ PeerReconcileTyped'
  BY DEF PeerControllerTypeOK, PeerReconcileTyped
<1>2. /\ nr \in NetworkReconcile /\ nr.instance \in Network
      /\ nr.allocations \in SUBSET IPAssignment
      /\ nr.pc # "idle" => nr.name \in NetworkNames
      /\ networkQueue \subseteq NetworkNames
      /\ NetworkIdle.pc = "idle"
  BY DEF NetworkControllerTypeOK, NetworkReconcile, NetworkIdle
<1>3. ASSUME networkQueue' \subseteq NetworkNames, nr' = NetworkIdle
      PROVE  NetworkControllerTypeOK'
  BY <1>2, <1>3, ZeroTyped DEF NetworkControllerTypeOK
<1>4. ASSUME NEW n \in NetworkNames, NetworkGet(n)
      PROVE  ClusterTypeOK' /\ NetworkControllerTypeOK'
  <2>1. ClusterTypeOK'
    BY <1>4 DEF ClusterTypeOK, NetworkGet
  <2>2. cachedNetworks[n] \in Network
    BY DEF ClusterTypeOK
  <2>3. [NetworkIdle EXCEPT !.pc = "list", !.name = n, !.instance = cachedNetworks[n]]
          \in NetworkReconcile
    BY <2>2, ZeroTyped DEF NetworkReconcile
  <2>4. [NetworkIdle EXCEPT !.pc = "list", !.name = n,
                            !.instance = cachedNetworks[n]].name = n
    BY DEF NetworkIdle
  <2> QED
    BY <1>2, <1>4, <2>1, <2>3, <2>4, ZeroTyped DEF NetworkGet, NetworkControllerTypeOK
<1>5. ASSUME NetworkList
      PROVE  ClusterTypeOK' /\ NetworkControllerTypeOK'
  <2>1. ClusterTypeOK'
    BY <1>5 DEF ClusterTypeOK, NetworkList
  <2>2. AllocateAll(nr.name, nr.instance, cachedPeers) \in SUBSET IPAssignment
    BY <1>2, AllocateAllTyped
  <2>3. \A a \in SUBSET IPAssignment :
          /\ [nr EXCEPT !.pc = "update", !.allocations = a] \in NetworkReconcile
          /\ [nr EXCEPT !.pc = "update", !.allocations = a].name = nr.name
    BY <1>2 DEF NetworkReconcile
  <2> QED
    BY <1>2, <1>5, <2>1, <2>2, <2>3, ZeroTyped DEF NetworkList, NetworkControllerTypeOK
<1>6. ASSUME NetworkUpdate \/ NetworkUpdateReplyLost
      PROVE  ClusterTypeOK' /\ NetworkControllerTypeOK'
  <2>1. nr.name \in NetworkNames /\ WriteNetworkStatus(nr.name, nr.allocations)
    BY <1>2, <1>6 DEF NetworkUpdate, NetworkUpdateReplyLost
  <2>2. networks' \in [NetworkNames -> Network] /\ networkEvents' \in Seq(NetworkEvent)
    BY <1>2, <2>1, WriteNetworkStatusTyped DEF ClusterTypeOK
  <2>3. ClusterTypeOK'
    BY <1>6, <2>2 DEF NetworkUpdate, NetworkUpdateReplyLost, ClusterTypeOK
  <2>4. networkQueue' \subseteq NetworkNames /\ nr' = NetworkIdle
    BY <1>2, <1>6, <2>1 DEF NetworkUpdate, NetworkUpdateReplyLost
  <2> QED
    BY <1>3, <2>3, <2>4
<1>7. ASSUME NetworkUpdateConflict \/ NetworkError
      PROVE  ClusterTypeOK' /\ NetworkControllerTypeOK'
  <2>1. networkQueue' \subseteq NetworkNames /\ nr' = NetworkIdle
    BY <1>2, <1>7 DEF NetworkUpdateConflict, NetworkError
  <2>2. ClusterTypeOK'
    BY <1>7 DEF NetworkUpdateConflict, NetworkError, ClusterTypeOK
  <2> QED
    BY <1>3, <2>1, <2>2
<1> QED
  BY <1>1, <1>4, <1>5, <1>6, <1>7 DEF NetworkControllerStep, NetworkControllerFault

LEMMA PeerStepTyped ==
  ASSUME TypeInv, PeerControllerStep \/ PeerControllerFault,
         UNCHANGED <<networkQueue, nr>>
  PROVE  ClusterTypeOK' /\ NetworkControllerTypeOK' /\ PeerControllerTypeOK'
           /\ PeerReconcileTyped'
<1> USE DEF TypeInv, TypeOK, serverVars, cacheVars, eventVars
<1>1. NetworkControllerTypeOK'
  BY DEF NetworkControllerTypeOK
<1>2. /\ pr \in PeerReconcile /\ pr.instance \in Peer /\ pr.status \in PeerStatus
      /\ pr.pc # "idle" => pr.name \in PeerNames
      /\ peerQueue \subseteq PeerNames
      /\ PeerIdle.pc = "idle" /\ PeerIdle.todo = {}
  BY DEF PeerControllerTypeOK, PeerReconcile, PeerIdle
<1>3. ASSUME peerQueue' \subseteq PeerNames, pr' = PeerIdle
      PROVE  PeerControllerTypeOK' /\ PeerReconcileTyped'
  BY <1>2, <1>3, ZeroTyped DEF PeerControllerTypeOK, PeerReconcileTyped
<1>4. ASSUME NEW p \in PeerNames, PeerGet(p)
      PROVE  ClusterTypeOK' /\ PeerControllerTypeOK' /\ PeerReconcileTyped'
  <2>1. ClusterTypeOK' /\ peerQueue' \subseteq PeerNames
    BY <1>2, <1>4 DEF ClusterTypeOK, PeerGet
  <2> DEFINE instance == cachedPeers[p]
             case == IF instance.status.network = None THEN "network"
                     ELSE IF instance.status.address = None THEN "address"
                     ELSE "config"
             new == [PeerIdle EXCEPT !.pc = case, !.name = p, !.instance = instance,
                                     !.status = instance.status]
  <2>2. instance \in Peer /\ instance.status \in PeerStatus
        /\ instance.status.network \in NetworkNames \cup {None}
    BY PeerFields, PeerStatusFields DEF ClusterTypeOK
  <2>3. case \in {"network", "address", "config"}
        /\ (case = "address" => instance.status.network \in NetworkNames)
    BY <2>2
  <2>4. new \in PeerReconcile /\ new.name = p /\ new.todo = {}
        /\ new.pc = case /\ new.instance = instance
    <3> HIDE DEF instance, case
    <3> QED
      BY <2>2, <2>3, ZeroTyped DEF PeerReconcile, PeerIdle
  <2>5. pr' = new \/ pr' = PeerIdle
    BY <1>4 DEF PeerGet
  <2>6. CASE pr' = new
    <3> HIDE DEF new, case, instance
    <3> QED
      BY <2>1, <2>3, <2>4, <2>6 DEF PeerControllerTypeOK, PeerReconcileTyped
  <2> QED
    BY <1>3, <2>1, <2>5, <2>6
<1>5. ASSUME PeerAssignNetwork \/ PeerAssignAddress \/ PeerGetNetwork \/ PeerList
               \/ (\E q \in PeerNames : PeerConfigure(q)) \/ PeerConfigured
      PROVE  ClusterTypeOK' /\ PeerControllerTypeOK' /\ PeerReconcileTyped'
  <2>1. ClusterTypeOK' /\ peerQueue' \subseteq PeerNames /\ pr.name \in PeerNames
    BY <1>2, <1>5 DEF ClusterTypeOK, PeerAssignNetwork, PeerAssignAddress, PeerGetNetwork,
                      PeerList, PeerConfigure, PeerConfigured, PeerRead
  <2>2. ASSUME NEW r \in PeerReconcile, r.name \in PeerNames, pr' = r, r.pc # "address",
               \A q \in r.todo : r.listed[q].status.address # None
        PROVE  PeerControllerTypeOK' /\ PeerReconcileTyped'
    BY <2>1, <2>2 DEF PeerControllerTypeOK, PeerReconcileTyped
  <2>3. ASSUME NEW s \in PeerStatus, pr' = [pr EXCEPT !.pc = "update", !.status = s]
        PROVE  PeerControllerTypeOK' /\ PeerReconcileTyped'
    <3>1. /\ [pr EXCEPT !.pc = "update", !.status = s] \in PeerReconcile
          /\ [pr EXCEPT !.pc = "update", !.status = s].name = pr.name
          /\ [pr EXCEPT !.pc = "update", !.status = s].pc = "update"
          /\ [pr EXCEPT !.pc = "update", !.status = s].todo = pr.todo
          /\ [pr EXCEPT !.pc = "update", !.status = s].listed = pr.listed
      BY <1>2 DEF PeerReconcile
    <3>2. \A q \in pr.todo : pr.listed[q].status.address # None
      BY DEF PeerReconcileTyped
    <3> QED
      BY <2>1, <2>2, <2>3, <3>1, <3>2
  <2>4. CASE PeerAssignNetwork
    <3>1. \A n \in NetworkNames : [pr.status EXCEPT !.network = n] \in PeerStatus
      BY <1>2 DEF PeerStatus
    <3> QED
      BY <1>3, <2>1, <2>3, <2>4, <3>1 DEF PeerAssignNetwork
  <2>5. CASE PeerAssignAddress
    <3>1. \A a \in Address : [pr.status EXCEPT !.address = a] \in PeerStatus
      BY <1>2 DEF PeerStatus
    <3>2. cachedNetworks[pr.instance.status.network] \in Network
      BY <2>5 DEF PeerAssignAddress, PeerRead, PeerReconcileTyped, ClusterTypeOK
    <3>3. \A alloc \in cachedNetworks[pr.instance.status.network].allocations :
            alloc.address # None => alloc.address \in Address
      BY <3>2, NetworkFields DEF IPAssignment
    <3> QED
      BY <1>3, <2>1, <2>3, <2>5, <3>1, <3>3 DEF PeerAssignAddress
  <2>6. CASE PeerGetNetwork
    <3>1. /\ [pr EXCEPT !.pc = "list"] \in PeerReconcile
          /\ [pr EXCEPT !.pc = "list"].name = pr.name
          /\ [pr EXCEPT !.pc = "list"].pc = "list"
          /\ [pr EXCEPT !.pc = "list"].todo = pr.todo
          /\ [pr EXCEPT !.pc = "list"].listed = pr.listed
      BY <1>2 DEF PeerReconcile
    <3>2. \A q \in pr.todo : pr.listed[q].status.address # None
      BY DEF PeerReconcileTyped
    <3> QED
      BY <1>3, <2>1, <2>2, <2>6, <3>1, <3>2 DEF PeerGetNetwork
  <2>7. CASE PeerList
    <3> DEFINE todo == Reachable(pr.name, pr.instance, cachedPeers)
               status == [pr.status EXCEPT !.peers = NoConfigurations]
               new == [pr EXCEPT !.pc = "routes", !.listed = cachedPeers,
                                 !.todo = todo, !.status = status]
    <3>1. todo \in SUBSET PeerNames /\ \A q \in todo : cachedPeers[q].status.address # None
      BY DEF Reachable, Neighbours
    <3>2. status \in PeerStatus
      BY <1>2, ZeroTyped DEF PeerStatus
    <3>3. cachedPeers \in [PeerNames -> Peer]
      BY DEF ClusterTypeOK
    <3>4. new \in PeerReconcile /\ new.name = pr.name /\ new.pc = "routes"
          /\ new.todo = todo /\ new.listed = cachedPeers
      <4> HIDE DEF todo, status
      <4> QED
        BY <1>2, <3>1, <3>2, <3>3 DEF PeerReconcile
    <3>5. pr' = new
      BY <2>7 DEF PeerList
    <3> HIDE DEF todo, status, new
    <3> QED
      BY <2>1, <2>2, <3>1, <3>4, <3>5
  <2>8. ASSUME NEW q \in PeerNames, PeerConfigure(q)
        PROVE  PeerControllerTypeOK' /\ PeerReconcileTyped'
    <3> DEFINE cfg == Configuration(q, pr.listed[q], cachedRoutes)
               cfgs == [pr.status.peers EXCEPT ![q] = cfg]
               status == [pr.status EXCEPT !.peers = cfgs]
               new == [pr EXCEPT !.todo = pr.todo \ {q}, !.status = status]
    <3>1. pr.listed[q] \in Peer /\ pr.listed[q].status.address # None
      BY <1>2, <2>8 DEF PeerConfigure, PeerReconcileTyped, PeerReconcile
    <3>2. cfg \in PeerConfiguration
      BY <3>1, ConfigurationTyped DEF ClusterTypeOK
    <3>3. pr.status.peers \in PeerConfigurations
      BY <1>2, PeerStatusFields
    <3>4. cfgs \in PeerConfigurations
      <4> HIDE DEF cfg
      <4> QED
        BY <3>2, <3>3 DEF PeerConfigurations
    <3>5. status \in PeerStatus
      <4> HIDE DEF cfgs
      <4> QED
        BY <1>2, <3>4 DEF PeerStatus
    <3>6. /\ new \in PeerReconcile /\ new.name = pr.name /\ new.pc = pr.pc
          /\ new.todo = pr.todo \ {q} /\ new.listed = pr.listed
      <4> HIDE DEF status
      <4> QED
        BY <1>2, <3>5 DEF PeerReconcile
    <3>7. pr' = new /\ pr.pc = "routes"
      BY <2>8 DEF PeerConfigure, PeerRead
    <3>8. \A x \in pr.todo : pr.listed[x].status.address # None
      BY DEF PeerReconcileTyped
    <3> HIDE DEF new
    <3> QED
      BY <2>1, <2>2, <3>6, <3>7, <3>8
  <2>9. CASE PeerConfigured
    <3> DEFINE new == [PeerIdle EXCEPT !.pc = "update", !.name = pr.name,
                                       !.instance = pr.instance, !.status = pr.status]
    <3>1. new \in PeerReconcile /\ new.name = pr.name /\ new.pc = "update" /\ new.todo = {}
      BY <1>2, <2>1, ZeroTyped DEF PeerReconcile, PeerIdle
    <3>2. pr' = new \/ pr' = PeerIdle
      BY <2>9 DEF PeerConfigured
    <3> HIDE DEF new
    <3> QED
      BY <1>3, <2>1, <2>2, <3>1, <3>2
  <2> QED
    BY <1>5, <2>1, <2>4, <2>5, <2>6, <2>7, <2>8, <2>9
<1>6. ASSUME PeerUpdate \/ PeerUpdateReplyLost
      PROVE  ClusterTypeOK' /\ PeerControllerTypeOK' /\ PeerReconcileTyped'
  <2>1. pr.name \in PeerNames /\ WritePeerStatus(pr.name, pr.status)
    BY <1>2, <1>6 DEF PeerUpdate, PeerUpdateReplyLost
  <2>2. peers' \in [PeerNames -> Peer] /\ peerEvents' \in Seq(PeerEvent)
    BY <1>2, <2>1, WritePeerStatusTyped DEF ClusterTypeOK
  <2>3. ClusterTypeOK'
    BY <1>6, <2>2 DEF PeerUpdate, PeerUpdateReplyLost, ClusterTypeOK
  <2>4. peerQueue' \subseteq PeerNames /\ pr' = PeerIdle
    BY <1>2, <1>6, <2>1 DEF PeerUpdate, PeerUpdateReplyLost
  <2> QED
    BY <1>3, <2>3, <2>4
<1>7. ASSUME PeerListFails \/ PeerUpdateConflict \/ PeerError
      PROVE  ClusterTypeOK' /\ PeerControllerTypeOK' /\ PeerReconcileTyped'
  <2>1. peerQueue' \subseteq PeerNames /\ pr' = PeerIdle
    BY <1>2, <1>7 DEF PeerListFails, PeerUpdateConflict, PeerError
  <2>2. ClusterTypeOK'
    BY <1>7 DEF PeerListFails, PeerUpdateConflict, PeerError, ClusterTypeOK
  <2> QED
    BY <1>3, <2>1, <2>2
<1> QED
  BY <1>1, <1>4, <1>5, <1>6, <1>7 DEF PeerControllerStep, PeerControllerFault

(* The strengthened type invariant is inductive.                           *)
THEOREM TypeInvariant == Spec => []TypeInv
<1>1. Init => TypeInv
  <2> SUFFICES ASSUME Init PROVE TypeInv
    OBVIOUS
  <2>1. ClusterTypeOK
    BY ZeroTyped DEF Init, ClusterInit, ClusterTypeOK
  <2>2. NetworkControllerTypeOK
    BY ZeroTyped DEF Init, NetworkControllerInit, NetworkControllerTypeOK, NetworkIdle
  <2>3. PeerControllerTypeOK /\ PeerReconcileTyped
    BY ZeroTyped DEF Init, PeerControllerInit, PeerControllerTypeOK, PeerReconcileTyped, PeerIdle
  <2> QED
    BY <2>1, <2>2, <2>3, BoundsAssumption DEF Init, TypeInv, TypeOK
<1>2. TypeInv /\ [Next]_vars => TypeInv'
  <2> SUFFICES ASSUME TypeInv, [Next]_vars PROVE TypeInv'
    OBVIOUS
  <2>1. CASE UserStep
    BY <2>1, UserStepTyped
  <2>2. CASE \/ DeliverPeerEvent \/ DeliverNetworkEvent \/ DeliverRouteEvent
             \/ ResyncPeers \/ ResyncNetworks \/ ResyncRoutes
    BY <2>2, InformerStepTyped
  <2>3. CASE PeerStep
    BY <2>3, PeerStepTyped
    DEF PeerStep, networkControllerVars, boundVars, TypeInv, TypeOK
  <2>4. CASE NetworkStep
    BY <2>4, NetworkStepTyped
    DEF NetworkStep, peerControllerVars, boundVars, TypeInv, TypeOK
  <2>5. CASE Fault
    <3>1. ClusterTypeOK' /\ NetworkControllerTypeOK' /\ PeerControllerTypeOK'
            /\ PeerReconcileTyped'
      BY <2>5, PeerStepTyped, NetworkStepTyped
      DEF Fault, networkControllerVars, peerControllerVars
    <3>2. faults' \in 0..MaxFaults /\ UNCHANGED <<edits, restarts, deletedNetworks>>
      BY <2>5, BoundsAssumption DEF Fault, TypeInv, TypeOK
    <3> QED
      BY <3>1, <3>2 DEF TypeInv, TypeOK
  <2>6. CASE Restart
    <3> USE DEF TypeInv, TypeOK
    <3>1. ClusterTypeOK'
      BY <2>6 DEF Restart, ClusterTypeOK, serverVars
    <3>2. LiveNames(peers) \subseteq PeerNames /\ LiveNames(networks) \subseteq NetworkNames
      BY DEF LiveNames, ClusterTypeOK
    <3>3. NetworkControllerTypeOK'
      BY <2>6, <3>2, ZeroTyped DEF Restart, NetworkControllerTypeOK, NetworkIdle
    <3>4. PeerControllerTypeOK' /\ PeerReconcileTyped'
      BY <2>6, <3>2, ZeroTyped DEF Restart, PeerControllerTypeOK, PeerReconcileTyped, PeerIdle
    <3>5. restarts' \in 0..MaxRestarts /\ UNCHANGED <<edits, faults, deletedNetworks>>
      BY <2>6, BoundsAssumption DEF Restart
    <3> QED
      BY <3>1, <3>3, <3>4, <3>5
  <2>7. CASE UNCHANGED vars
    BY <2>7 DEF vars, serverVars, cacheVars, eventVars, controllerVars, networkControllerVars,
                peerControllerVars, boundVars, TypeInv, TypeOK, ClusterTypeOK,
                NetworkControllerTypeOK, PeerControllerTypeOK, PeerReconcileTyped
  <2> QED
    BY <2>1, <2>2, <2>3, <2>4, <2>5, <2>6, <2>7 DEF Next
<1> QED
  BY <1>1, <1>2, PTL DEF Spec

(* Every value any variable ever has is of its type, whatever the          *)
(* resources, the edits, the faults and the restarts: in particular every  *)
(* allowed IP that is written is an address without a netmask.             *)
THEOREM TypeCorrect == Spec => []TypeOK
<1>1. TypeInv => TypeOK
  BY DEF TypeInv
<1> QED
  BY <1>1, TypeInvariant, PTL
=============================================================================
