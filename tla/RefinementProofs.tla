-------------------------- MODULE RefinementProofs --------------------------
(***************************************************************************)
(* The proof that the control plane implements Addressing: whatever the    *)
(* caches show and whoever writes in between, each write of a controller   *)
(* to the server is one grant of a network, or one peer entering a network *)
(* or taking its address.                                                  *)
(***************************************************************************)
EXTENDS AddressProofs

(* A Reconcile of a peer changes one of network and address; one of a      *)
(* network adds at most one address for a name that had none.              *)
OneField ==
  /\ pr.pc = "routes" =>
       /\ pr.status.network = pr.instance.status.network
       /\ pr.status.address = pr.instance.status.address
  /\ pr.pc = "update" =>
       \/ pr.status.network = pr.instance.status.network
       \/ pr.status.address = pr.instance.status.address

AddedOnce(old, all) ==
  \A new \in all \ old, other \in all : new.name = other.name => new = other

GrantsOnce == nr.pc = "update" => AddedOnce(nr.instance.allocations, nr.allocations)

-----------------------------------------------------------------------------
LEMMA OneFieldStep ==
  ASSUME TypeInv, ReconcileCases, OneField, [Next]_vars
  PROVE  OneField'
<1> USE DEF TypeInv, TypeOK, ClusterTypeOK, PeerControllerTypeOK
<1>1. ASSUME pr' = pr PROVE OneField'
  BY <1>1 DEF OneField
<1>2. ASSUME pr' = PeerIdle PROVE OneField'
  BY <1>2 DEF OneField, PeerIdle
<1>3. pr \in PeerReconcile /\ pr.instance \in Peer /\ pr.status \in PeerStatus
  BY PeerReconcileFields
<1>4. ASSUME NEW p \in PeerNames, PeerGet(p) PROVE OneField'
  <2> DEFINE instance == cachedPeers[p]
             case == IF instance.status.network = None THEN "network"
                     ELSE IF instance.status.address = None THEN "address"
                     ELSE "config"
             new == [PeerIdle EXCEPT !.pc = case, !.name = p, !.instance = instance,
                                     !.status = instance.status]
  <2>1. pr' = new \/ pr' = PeerIdle
    BY <1>4 DEF PeerGet
  <2>2. new.pc = case
    <3> HIDE DEF case, instance
    <3> QED
      BY DEF PeerIdle
  <2>3. case # "routes" /\ case # "update"
    OBVIOUS
  <2> HIDE DEF new, case, instance
  <2> QED
    BY <1>2, <2>1, <2>2, <2>3 DEF OneField
<1>5. CASE PeerAssignNetwork
  <2>1. pr.pc = "network"
    BY <1>5 DEF PeerAssignNetwork, PeerRead
  <2>2. ASSUME NEW n \in NetworkNames,
               pr' = [pr EXCEPT !.pc = "update", !.status = [pr.status EXCEPT !.network = n]]
        PROVE  OneField'
    <3>1. /\ pr'.pc = "update" /\ pr'.instance = pr.instance
          /\ pr'.status = [pr.status EXCEPT !.network = n]
      BY <1>3, <2>2 DEF PeerReconcile
    <3>2. pr'.status.address = pr.status.address
      BY <1>3, <3>1 DEF PeerStatus
    <3>3. pr.status = pr.instance.status
      BY <2>1 DEF ReconcileCases
    <3> QED
      BY <3>1, <3>2, <3>3 DEF OneField
  <2> QED
    BY <1>2, <1>5, <2>2 DEF PeerAssignNetwork
<1>6. CASE PeerAssignAddress
  <2>1. pr.pc = "address"
    BY <1>6 DEF PeerAssignAddress, PeerRead
  <2>2. ASSUME NEW a,
               pr' = [pr EXCEPT !.pc = "update", !.status = [pr.status EXCEPT !.address = a]]
        PROVE  OneField'
    <3>1. /\ pr'.pc = "update" /\ pr'.instance = pr.instance
          /\ pr'.status = [pr.status EXCEPT !.address = a]
      BY <1>3, <2>2 DEF PeerReconcile
    <3>2. pr'.status.network = pr.status.network
      BY <1>3, <3>1 DEF PeerStatus
    <3>3. pr.status = pr.instance.status
      BY <2>1 DEF ReconcileCases
    <3> QED
      BY <3>1, <3>2, <3>3 DEF OneField
  <2> QED
    BY <1>2, <1>6, <2>2 DEF PeerAssignAddress
<1>7. CASE PeerGetNetwork
  <2>1. CASE pr' = [pr EXCEPT !.pc = "list"]
    <3>1. pr'.pc = "list"
      BY <1>3, <2>1 DEF PeerReconcile
    <3> QED
      BY <3>1 DEF OneField
  <2> QED
    BY <1>2, <1>7, <2>1 DEF PeerGetNetwork
<1>8. CASE PeerList
  <2>1. /\ pr'.pc = "routes" /\ pr'.instance = pr.instance
        /\ pr'.status = [pr.status EXCEPT !.peers = NoConfigurations]
    BY <1>3, <1>8 DEF PeerList, PeerReconcile
  <2>2. pr'.status.network = pr.status.network /\ pr'.status.address = pr.status.address
    BY <1>3, <2>1 DEF PeerStatus
  <2>3. pr.status = pr.instance.status
    BY <1>8 DEF PeerList, PeerRead, ReconcileCases
  <2> QED
    BY <2>1, <2>2, <2>3 DEF OneField
<1>9. ASSUME NEW q \in PeerNames, PeerConfigure(q) PROVE OneField'
  <2>1. PICK c : pr' = [pr EXCEPT !.todo = pr.todo \ {q},
                                  !.status = [pr.status EXCEPT !.peers = c]]
    BY <1>9 DEF PeerConfigure
  <2>2. /\ pr'.pc = pr.pc /\ pr'.instance = pr.instance
        /\ pr'.status = [pr.status EXCEPT !.peers = c]
    BY <1>3, <2>1 DEF PeerReconcile
  <2>3. pr'.status.network = pr.status.network /\ pr'.status.address = pr.status.address
    BY <1>3, <2>2 DEF PeerStatus
  <2>4. pr.pc = "routes"
    BY <1>9 DEF PeerConfigure, PeerRead
  <2> QED
    BY <2>2, <2>3, <2>4 DEF OneField
<1>10. CASE PeerConfigured
  <2>1. CASE pr' = [PeerIdle EXCEPT !.pc = "update", !.name = pr.name,
                                    !.instance = pr.instance, !.status = pr.status]
    <3>1. pr'.pc = "update" /\ pr'.instance = pr.instance /\ pr'.status = pr.status
      BY <2>1 DEF PeerIdle
    <3>2. pr.pc = "routes"
      BY <1>10 DEF PeerConfigured, PeerRead
    <3> QED
      BY <3>1, <3>2 DEF OneField
  <2> QED
    BY <1>2, <1>10, <2>1 DEF PeerConfigured
<1>11. CASE PeerListFails \/ PeerUpdate \/ PeerUpdateConflict \/ PeerControllerFault \/ Restart
  BY <1>2, <1>11 DEF PeerListFails, PeerUpdate, PeerUpdateConflict, PeerControllerFault,
                     PeerError, PeerUpdateReplyLost, Restart
<1>12. CASE UserStep
  BY <1>1, <1>12 DEF UserStep, CreatePeer, EditPeer, DeletePeer, CreateNetwork, EditNetwork,
       DeleteNetwork, ApplyRoute, DeleteRoute, UserEdits, controllerVars, peerControllerVars
<1>13. CASE \/ DeliverPeerEvent \/ DeliverNetworkEvent \/ DeliverRouteEvent
            \/ ResyncPeers \/ ResyncNetworks \/ ResyncRoutes
  BY <1>1, <1>13 DEF DeliverPeerEvent, DeliverNetworkEvent, DeliverRouteEvent, ResyncPeers,
       ResyncNetworks, ResyncRoutes, informerUnchanged
<1>14. CASE UNCHANGED peerControllerVars
  BY <1>1, <1>14 DEF peerControllerVars
<1>15. CASE UNCHANGED vars
  BY <1>1, <1>15 DEF vars, controllerVars, peerControllerVars
<1> QED
  BY <1>4, <1>5, <1>6, <1>7, <1>8, <1>9, <1>10, <1>11, <1>12, <1>13, <1>14, <1>15
  DEF Next, PeerStep, NetworkStep, Fault, PeerControllerStep

(* The loop over the listed peers adds at most one address for a name.     *)
LEMMA AllocateAllAddedOnce ==
  ASSUME NEW n, NEW network \in Network, NEW listed
  PROVE  AddedOnce(network.allocations, AllocateAll(n, network, listed))
<1> DEFINE old == network.allocations
           new == NewAllocations(n, network, listed)
<1>1. network.rules \in NetworkSpec
  BY NetworkFields
<1>2. \A a \in new : a \in IPAssignment /\ ~ \E b \in old : b.name = a.name
  BY DEF NewAllocations
<1>3. ASSUME NEW a \in new, NEW b \in new, a.name = b.name
      PROVE  a = b
  <2>1. allocateIP(a.name, listed[a.name].spec.labels, network.rules, a.address)
        /\ allocateIP(a.name, listed[a.name].spec.labels, network.rules, b.address)
    BY <1>3 DEF NewAllocations
  <2>2. a.address = b.address
    BY <1>1, <2>1, allocateIPUnique
  <2> QED
    BY <1>2, <1>3, <2>2 DEF IPAssignment
<1>4. AllocateAll(n, network, listed) = old \cup new
  BY DEF AllocateAll
<1> HIDE DEF old, new
<1>5. AddedOnce(old, old \cup new)
  BY <1>2, <1>3 DEF AddedOnce
<1> QED
  BY <1>4, <1>5 DEF old

LEMMA GrantsOnceStep ==
  ASSUME TypeInv, GrantsOnce, [Next]_vars
  PROVE  GrantsOnce'
<1> USE DEF TypeInv, TypeOK, ClusterTypeOK, NetworkControllerTypeOK
<1>1. ASSUME nr' = nr PROVE GrantsOnce'
  BY <1>1 DEF GrantsOnce
<1>2. ASSUME nr' = NetworkIdle PROVE GrantsOnce'
  BY <1>2 DEF GrantsOnce, NetworkIdle
<1>3. ASSUME NEW n \in NetworkNames, NetworkGet(n) PROVE GrantsOnce'
  <2>1. \/ nr'.pc = "list"
        \/ nr' = NetworkIdle
    BY <1>3 DEF NetworkGet, NetworkIdle
  <2> QED
    BY <1>2, <2>1 DEF GrantsOnce
<1>4. CASE NetworkList
  <2> DEFINE all == AllocateAll(nr.name, nr.instance, cachedPeers)
  <2>1. CASE nr' = [nr EXCEPT !.pc = "update", !.allocations = all]
    <3>1. nr \in NetworkReconcile /\ nr.instance \in Network
      BY DEF NetworkReconcile
    <3>2. nr'.instance = nr.instance /\ nr'.allocations = all
      BY <2>1, <3>1 DEF NetworkReconcile
    <3>3. AddedOnce(nr.instance.allocations, all)
      BY <3>1, AllocateAllAddedOnce
    <3> HIDE DEF all
    <3> QED
      BY <3>2, <3>3 DEF GrantsOnce
  <2> QED
    BY <1>2, <1>4, <2>1 DEF NetworkList
<1>5. CASE NetworkUpdate \/ NetworkUpdateConflict \/ NetworkControllerFault \/ Restart
  BY <1>2, <1>5 DEF NetworkUpdate, NetworkUpdateConflict, NetworkControllerFault,
                    NetworkError, NetworkUpdateReplyLost, Restart
<1>6. CASE UserStep
  BY <1>1, <1>6 DEF UserStep, CreatePeer, EditPeer, DeletePeer, CreateNetwork, EditNetwork,
       DeleteNetwork, ApplyRoute, DeleteRoute, UserEdits, controllerVars, networkControllerVars
<1>7. CASE \/ DeliverPeerEvent \/ DeliverNetworkEvent \/ DeliverRouteEvent
           \/ ResyncPeers \/ ResyncNetworks \/ ResyncRoutes
  BY <1>1, <1>7 DEF DeliverPeerEvent, DeliverNetworkEvent, DeliverRouteEvent, ResyncPeers,
       ResyncNetworks, ResyncRoutes, informerUnchanged
<1>8. CASE UNCHANGED networkControllerVars
  BY <1>1, <1>8 DEF networkControllerVars
<1>9. CASE UNCHANGED vars
  BY <1>1, <1>9 DEF vars, controllerVars, networkControllerVars
<1> QED
  BY <1>3, <1>4, <1>5, <1>6, <1>7, <1>8, <1>9
  DEF Next, PeerStep, NetworkStep, Fault, NetworkControllerStep

-----------------------------------------------------------------------------
(* What the writes of the server look like as addressing.                  *)
LEMMA HolderWrite ==
  ASSUME TypeInv, NEW p \in PeerNames, NEW o \in Peer, WritePeer(p, o)
  PROVE  Holder' = [Holder EXCEPT ![p] = [live |-> o.live, network |-> o.status.network,
                                          address |-> o.status.address]]
<1>1. peers \in [PeerNames -> Peer] /\ peers' = [peers EXCEPT ![p] = o]
  BY DEF TypeInv, TypeOK, ClusterTypeOK, WritePeer
<1> QED
  BY <1>1 DEF Holder

LEMMA RecordWritten ==
  ASSUME TypeInv, NEW n \in NetworkNames, NEW o \in Network, WriteNetwork(n, o)
  PROVE  /\ Record' = [Record EXCEPT ![n] = o.allocations]
         /\ Record[n] = networks[n].allocations /\ Record'[n] = o.allocations
<1>1. networks \in [NetworkNames -> Network] /\ networks' = [networks EXCEPT ![n] = o]
  BY DEF TypeInv, TypeOK, ClusterTypeOK, WriteNetwork
<1> QED
  BY <1>1 DEF Record

(* Users: a peer joins or leaves, a network is dissolved.                  *)
LEMMA UserPeerAddresses ==
  ASSUME TypeInv, NEW p \in PeerNames, CreatePeer(p) \/ EditPeer(p) \/ DeletePeer(p)
  PROVE  [Promised!AddressingNext]_<<Holder, Record, deletedNetworks>>
<1>1. Record' = Record /\ deletedNetworks' = deletedNetworks
  BY DEF CreatePeer, EditPeer, DeletePeer, Record
<1>2. /\ peers[p] \in Peer /\ peers[p].rv + 1 \in Nat
      /\ Holder[p] = [live |-> peers[p].live, network |-> peers[p].status.network,
                      address |-> peers[p].status.address]
      /\ Holder = [Holder EXCEPT ![p] = Holder[p]]
  <2>1. peers[p] \in Peer
    BY DEF TypeInv, TypeOK, ClusterTypeOK
  <2>2. peers[p].rv + 1 \in Nat
    BY <2>1, PeerFields
  <2> QED
    BY <2>1, <2>2 DEF Holder
<1>3. CASE CreatePeer(p)
  <2>1. PICK spec \in PeerSpecs[p] :
          WritePeer(p, [live |-> TRUE, rv |-> peers[p].rv + 1,
                        spec |-> spec, status |-> NoStatus])
    BY <1>3 DEF CreatePeer
  <2> DEFINE o == [live |-> TRUE, rv |-> peers[p].rv + 1, spec |-> spec, status |-> NoStatus]
  <2>2. o \in Peer
    BY <1>2, ZeroTyped, SpecsAssumption DEF Peer
  <2>3. o.live = TRUE /\ o.status.network = None /\ o.status.address = None
    BY DEF NoStatus
  <2>4. Holder' = [Holder EXCEPT ![p] = [live |-> TRUE, network |-> None, address |-> None]]
    BY <2>1, <2>2, <2>3, HolderWrite
  <2>5. ~ Holder[p].live
    BY <1>2, <1>3 DEF CreatePeer
  <2>6. Promised!Join(p)
    BY <1>1, <2>4, <2>5 DEF Promised!Join
  <2> QED
    BY <2>6 DEF Promised!AddressingNext
<1>4. CASE EditPeer(p)
  <2>1. PICK spec \in PeerSpecs[p] :
          WritePeer(p, [peers[p] EXCEPT !.rv = peers[p].rv + 1, !.spec = spec])
    BY <1>4 DEF EditPeer
  <2> DEFINE o == [peers[p] EXCEPT !.rv = peers[p].rv + 1, !.spec = spec]
  <2>2. spec \in PeerSpec
    BY SpecsAssumption
  <2>3. o \in Peer
    BY <1>2, <2>2, PeerExcept
  <2>4. o.live = peers[p].live /\ o.status = peers[p].status
    BY <1>2 DEF Peer
  <2> HIDE DEF o
  <2>5. WritePeer(p, o)
    BY <2>1 DEF o
  <2>6. Holder' = Holder
    BY <1>2, <2>3, <2>4, <2>5, HolderWrite
  <2> QED
    BY <1>1, <2>6
<1>5. CASE DeletePeer(p)
  <2> DEFINE o == NoPeer(peers[p].rv + 1)
  <2>1. WritePeer(p, o) /\ peers[p].live
    BY <1>5 DEF DeletePeer
  <2>2. o \in Peer
    BY <1>2, ZeroTyped
  <2>3. o.live = FALSE /\ o.status.network = None /\ o.status.address = None
    BY DEF NoPeer, NoStatus
  <2> HIDE DEF o
  <2>4. Holder' = [Holder EXCEPT ![p] = Promised!Nobody]
    BY <2>1, <2>2, <2>3, HolderWrite DEF Promised!Nobody
  <2>5. Promised!Leave(p)
    BY <1>1, <1>2, <2>1, <2>4 DEF Promised!Leave
  <2> QED
    BY <2>5 DEF Promised!AddressingNext
<1> QED
  BY <1>3, <1>4, <1>5

LEMMA UserNetworkAddresses ==
  ASSUME TypeInv, RecordInv, NEW n \in NetworkNames,
         CreateNetwork(n) \/ EditNetwork(n) \/ DeleteNetwork(n)
  PROVE  [Promised!AddressingNext]_<<Holder, Record, deletedNetworks>>
<1>1. Holder' = Holder
  BY DEF CreateNetwork, EditNetwork, DeleteNetwork, Holder
<1>2. PICK o \in Network :
        /\ WriteNetwork(n, o)
        /\ ~ networks[n].live \/ ~ o.live => o.allocations = {}
        /\ networks[n].live /\ o.live => o.allocations = networks[n].allocations
        /\ deletedNetworks' = IF o.live THEN deletedNetworks ELSE deletedNetworks \cup {n}
  BY UserNetworkWrite DEF TypeInv, TypeOK, ClusterTypeOK
<1>3. /\ Record' = [Record EXCEPT ![n] = o.allocations]
      /\ Record[n] = networks[n].allocations
      /\ Record = [Record EXCEPT ![n] = Record[n]]
  BY <1>2, RecordWritten DEF Record
<1>4. CASE o.live
  <2>1. o.allocations = networks[n].allocations
    BY <1>2, <1>4 DEF RecordInv
  <2> QED
    BY <1>1, <1>2, <1>3, <1>4, <2>1
<1>5. CASE ~ o.live
  <2>1. Promised!Dissolve(n)
    BY <1>1, <1>2, <1>3, <1>5 DEF Promised!Dissolve
  <2> QED
    BY <2>1 DEF Promised!AddressingNext
<1> QED
  BY <1>4, <1>5

(* The network controller grants.                                          *)
LEMMA NetworkUpdateAddresses ==
  ASSUME TypeInv, NetworkInv, GrantsOnce, NetworkUpdate \/ NetworkUpdateReplyLost,
         UNCHANGED deletedNetworks
  PROVE  [Promised!AddressingNext]_<<Holder, Record, deletedNetworks>>
<1>1. Holder' = Holder
  BY DEF NetworkUpdate, NetworkUpdateReplyLost, Holder
<1> DEFINE n == nr.name
<1>2. /\ n \in NetworkNames
      /\ nr.instance = networks[n] /\ networks[n].allocations \subseteq nr.allocations
      /\ \E o \in Network : WriteNetwork(n, o) /\ o.allocations = nr.allocations
  BY NetworkStatusWrite
<1>3. /\ Record' = [Record EXCEPT ![n] = nr.allocations]
      /\ Record[n] = networks[n].allocations /\ Record'[n] = nr.allocations
  BY <1>2, RecordWritten
<1>4. AddedOnce(networks[n].allocations, nr.allocations)
  <2>1. nr.pc = "update"
    BY DEF NetworkUpdate, NetworkUpdateReplyLost
  <2> QED
    BY <1>2, <2>1 DEF GrantsOnce
<1> HIDE DEF n
<1>5. Promised!Grant(n)
  BY <1>1, <1>2, <1>3, <1>4 DEF Promised!Grant, AddedOnce
<1> QED
  BY <1>2, <1>5 DEF Promised!AddressingNext

(* The peer controller lets a peer enter a network, or take its address,   *)
(* or computes a configuration.                                            *)
LEMMA PeerUpdateAddresses ==
  ASSUME TypeInv, PeerInv, GrantInv, OneField, PeerUpdate \/ PeerUpdateReplyLost,
         UNCHANGED deletedNetworks
  PROVE  [Promised!AddressingNext]_<<Holder, Record, deletedNetworks>>
<1> DEFINE p == pr.name
           was == peers[p].status
           is == pr.status
<1>1. Record' = Record
  BY DEF PeerUpdate, PeerUpdateReplyLost, Record
<1>2. /\ p \in PeerNames /\ pr.instance = peers[p] /\ StatusKept(was, is)
      /\ pr.pc = "update" /\ peers[p].live
  BY PeerStatusWrite DEF PeerUpdate, PeerUpdateReplyLost, PeerUpdateAccepted
<1>3. /\ peers[p] \in Peer /\ is \in PeerStatus /\ was \in PeerStatus
      /\ deletedNetworks \subseteq NetworkNames
  BY <1>2, PeerReconcileFields, PeerFields
  DEF TypeInv, TypeOK, ClusterTypeOK, PeerControllerTypeOK
<1>4. /\ is.network \in NetworkNames \cup {None} /\ is.address \in Address \cup {None}
      /\ was.network \in NetworkNames \cup {None}
  BY <1>3, PeerStatusFields
<1>5. /\ Holder[p] = [live |-> TRUE, network |-> was.network, address |-> was.address]
      /\ Holder = [Holder EXCEPT ![p] = Holder[p]]
  BY <1>2, <1>3, PeerFields DEF Holder
<1>6. Holder' = [Holder EXCEPT ![p] = [live |-> TRUE, network |-> is.network,
                                       address |-> is.address]]
  <2>1. WritePeerStatus(p, is)
    BY DEF PeerUpdate, PeerUpdateReplyLost
  <2> DEFINE o == [peers[p] EXCEPT !.rv = peers[p].rv + 1, !.status = is]
  <2>2. o \in Peer
    <3>1. peers[p].rv + 1 \in Nat
      BY <1>3, PeerFields
    <3> HIDE DEF p, is
    <3> QED
      BY <1>3, <3>1, PeerExcept
  <2>3. o.live = peers[p].live /\ o.status = is
    BY <1>3 DEF Peer
  <2>4. WritePeer(p, o)
    BY <2>1 DEF WritePeerStatus
  <2> HIDE DEF o, p, is
  <2>5. o.live = TRUE
    BY <1>2, <1>3, <2>3, PeerFields
  <2> QED
    BY <1>2, <2>2, <2>3, <2>4, <2>5, HolderWrite
<1>7. /\ GrantedIn(networks, deletedNetworks, p, was)
      /\ GrantedIn(networks, deletedNetworks, p, is)
      /\ was.network = is.network \/ was.address = is.address
  BY <1>2 DEF GrantInv, CopiesGranted, Granted, OneField
<1> HIDE DEF p, was, is
<1>8. CASE was.network = is.network /\ was.address = is.address
  BY <1>1, <1>5, <1>6, <1>8
<1>9. CASE was.network # is.network
  <2>1. was.network = None /\ is.network \in NetworkNames /\ was.address = is.address
    BY <1>2, <1>4, <1>7, <1>9 DEF StatusKept
  <2>2. was.address = None
    BY <1>3, <1>7, <2>1, NoneAssumption DEF GrantedIn
  <2>3. Promised!Enter(p, is.network)
    BY <1>1, <1>5, <1>6, <2>1, <2>2 DEF Promised!Enter
  <2> QED
    BY <1>2, <2>1, <2>3 DEF Promised!AddressingNext
<1>10. CASE was.network = is.network /\ was.address # is.address
  <2>1. was.address = None /\ is.address # None /\ is.address \in Address
    BY <1>2, <1>4, <1>10 DEF StatusKept
  <2>2. was.network # None
    BY <1>3, <1>7, <1>10, <2>1, NoneAssumption DEF GrantedIn
  <2>3. \/ was.network \in deletedNetworks
        \/ [name |-> p, address |-> is.address] \in Record[was.network]
    BY <1>4, <1>7, <1>10, <2>1, <2>2 DEF GrantedIn, Record
  <2>4. Promised!Take(p, is.address)
    BY <1>1, <1>5, <1>6, <1>10, <2>1, <2>2, <2>3 DEF Promised!Take
  <2> QED
    BY <1>2, <2>1, <2>4 DEF Promised!AddressingNext, Promised!Address, Address
<1> QED
  BY <1>8, <1>9, <1>10

-----------------------------------------------------------------------------
(* The control plane implements Addressing: through any staleness, fault,  *)
(* restart and user edit, for any peers, networks and rules, the server's  *)
(* objects change only as that specification allows.                       *)
THEOREM Implements == Spec => ImplementsAddressing
<1>1. Init => Promised!AddressingInit
  <2> SUFFICES ASSUME Init PROVE Promised!AddressingInit
    OBVIOUS
  <2>1. /\ peers = [p \in PeerNames |-> NoPeer(0)]
        /\ networks = [n \in NetworkNames |-> NoNetwork(0)] /\ deletedNetworks = {}
    BY DEF Init, ClusterInit
  <2>2. Holder = [p \in PeerNames |-> Promised!Nobody]
    BY <2>1 DEF Holder, NoPeer, NoStatus, Promised!Nobody
  <2>3. Record = [n \in NetworkNames |-> {}]
    BY <2>1 DEF Record, NoNetwork
  <2> QED
    BY <2>1, <2>2, <2>3 DEF Promised!AddressingInit
<1>2. Init => OneField /\ GrantsOnce
  BY DEF Init, PeerControllerInit, NetworkControllerInit, PeerIdle, NetworkIdle, OneField,
         GrantsOnce
<1>3. TypeInv /\ RecordInv /\ GrantInv /\ OneField /\ GrantsOnce /\ [Next]_vars
        => OneField' /\ GrantsOnce'
  BY OneFieldStep, GrantsOnceStep DEF GrantInv
<1>4. /\ TypeInv /\ PeerInv /\ NetworkInv /\ RecordInv /\ GrantInv /\ OneField /\ GrantsOnce
      /\ [Next]_vars
      => [Promised!AddressingNext]_<<Holder, Record, deletedNetworks>>
  <2> SUFFICES ASSUME TypeInv, PeerInv, NetworkInv, RecordInv, GrantInv, OneField,
                      GrantsOnce, [Next]_vars
               PROVE  [Promised!AddressingNext]_<<Holder, Record, deletedNetworks>>
    OBVIOUS
  <2>1. ASSUME peers' = peers, networks' = networks, deletedNetworks' = deletedNetworks
        PROVE  [Promised!AddressingNext]_<<Holder, Record, deletedNetworks>>
    BY <2>1 DEF Holder, Record
  <2>2. CASE UserStep
    <3>1. ASSUME NEW r \in RouteNames, ApplyRoute(r) \/ DeleteRoute(r)
          PROVE  peers' = peers /\ networks' = networks /\ deletedNetworks' = deletedNetworks
      BY <3>1 DEF ApplyRoute, DeleteRoute
    <3> QED
      BY <2>1, <2>2, <3>1, UserPeerAddresses, UserNetworkAddresses DEF UserStep
  <2>3. CASE (PeerControllerStep \/ PeerControllerFault) /\ UNCHANGED deletedNetworks
    <3>1. \/ PeerUpdate \/ PeerUpdateReplyLost
          \/ peers' = peers /\ networks' = networks
      BY <2>3 DEF PeerControllerStep, PeerControllerFault, PeerGet, PeerAssignNetwork,
           PeerAssignAddress, PeerGetNetwork, PeerList, PeerListFails, PeerConfigure,
           PeerConfigured, PeerUpdateConflict, PeerError, PeerRead, serverVars
    <3> QED
      BY <2>1, <2>3, <3>1, PeerUpdateAddresses
  <2>4. CASE (NetworkControllerStep \/ NetworkControllerFault) /\ UNCHANGED deletedNetworks
    <3>1. \/ NetworkUpdate \/ NetworkUpdateReplyLost
          \/ peers' = peers /\ networks' = networks
      BY <2>4 DEF NetworkControllerStep, NetworkControllerFault, NetworkGet, NetworkList,
           NetworkUpdateConflict, NetworkError, serverVars
    <3> QED
      BY <2>1, <2>4, <3>1, NetworkUpdateAddresses
  <2>5. CASE \/ DeliverPeerEvent \/ DeliverNetworkEvent \/ DeliverRouteEvent
             \/ ResyncPeers \/ ResyncNetworks \/ ResyncRoutes \/ Restart
             \/ UNCHANGED vars
    BY <2>1, <2>5 DEF DeliverPeerEvent, DeliverNetworkEvent, DeliverRouteEvent, ResyncPeers,
         ResyncNetworks, ResyncRoutes, Restart, informerUnchanged, serverVars, vars
  <2> QED
    BY <2>2, <2>3, <2>4, <2>5 DEF Next, PeerStep, NetworkStep, Fault
<1>5. Spec => [](OneField /\ GrantsOnce)
  BY <1>2, <1>3, TypeInvariant, StatusesAreGranted, PTL DEF Spec
<1> QED
  BY <1>1, <1>4, <1>5, TypeInvariant, CopiesAreCoherent, StatusesAreGranted, PTL
  DEF Spec, ImplementsAddressing, Promised!AddressingSpec, Promised!addressingVars
=============================================================================
