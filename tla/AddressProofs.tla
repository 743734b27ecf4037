--------------------------- MODULE AddressProofs ---------------------------
(***************************************************************************)
(* The proofs that the two controllers agree: every address a peer carries *)
(* and every address its configuration routes to is one that the peer's    *)
(* network has on record for its holder, provided the network was never    *)
(* deleted.                                                                *)
(*                                                                         *)
(* The allocations of such a network only grow (StabilityProofs), so what  *)
(* any copy of the network shows is still on record, and a status that     *)
(* was granted once stays granted wherever it is copied to.                *)
(***************************************************************************)
EXTENDS StabilityProofs

(* Status s of peer p only names addresses that networks nets have on      *)
(* record, except in the networks that were deleted.                       *)
GrantedIn(nets, deleted, p, s) ==
  s.network \notin deleted =>
    /\ s.address # None =>
         /\ s.network # None
         /\ [name |-> p, address |-> s.address] \in nets[s.network].allocations
    /\ \A q \in PeerNames : s.peers[q] # None =>
         /\ s.network # None
         /\ \E alloc \in nets[s.network].allocations :
              /\ alloc.name = q /\ alloc.address # None
              /\ alloc.address.ip = s.peers[q].allowedIP.ip

Granted(p, s) == GrantedIn(networks, deletedNetworks, p, s)

(* From one state to another, networks that are not deleted only grow.     *)
Grows(nets, deleted, nets2, deleted2) ==
  \A n \in NetworkNames : n \notin deleted2 =>
    n \notin deleted /\ nets[n].allocations \subseteq nets2[n].allocations

OneEach(allocations) ==
  \A a, b \in allocations : a.name = b.name => a = b

(* Every copy of a network that was never deleted shows a part of what it  *)
(* has on record, which is one address per peer.                           *)
RecordInv ==
  /\ \A n \in NetworkNames : ~ networks[n].live => networks[n].allocations = {}
  /\ \A n \in NetworkNames \ deletedNetworks :
       /\ OneEach(networks[n].allocations)
       /\ cachedNetworks[n].allocations \subseteq networks[n].allocations
  /\ \A i \in 1..Len(networkEvents) : networkEvents[i].name \notin deletedNetworks =>
       networkEvents[i].object.allocations \subseteq networks[networkEvents[i].name].allocations
  /\ nr.pc # "idle" /\ nr.name \notin deletedNetworks =>
       nr.instance.allocations \subseteq networks[nr.name].allocations
  /\ nr.pc = "update" /\ nr.name \notin deletedNetworks => OneEach(nr.allocations)

(* Every copy of a peer, and the status a Reconcile is building, is        *)
(* granted.                                                                *)
CopiesGranted ==
  /\ \A p \in PeerNames :
       /\ Granted(p, peers[p].status)
       /\ Granted(p, cachedPeers[p].status)
       /\ Granted(p, pr.listed[p].status)
  /\ \A i \in 1..Len(peerEvents) :
       Granted(peerEvents[i].name, peerEvents[i].object.status)
  /\ pr.pc # "idle" =>
       Granted(pr.name, pr.instance.status) /\ Granted(pr.name, pr.status)

(* The status and the network a Reconcile has at each point.               *)
ReconcileCases ==
  /\ pr.pc \in {"network", "address", "config", "list"} => pr.status = pr.instance.status
  /\ pr.pc \in {"address", "config", "list", "routes"} => pr.instance.status.network # None
  /\ \A q \in pr.todo : pr.listed[q].status.network = pr.instance.status.network

GrantInv == CopiesGranted /\ ReconcileCases

-----------------------------------------------------------------------------
LEMMA GrantedGrows ==
  ASSUME NEW nets, NEW deleted, NEW nets2, NEW deleted2, Grows(nets, deleted, nets2, deleted2),
         deleted \subseteq NetworkNames, NEW p, NEW s \in PeerStatus,
         GrantedIn(nets, deleted, p, s)
  PROVE  GrantedIn(nets2, deleted2, p, s)
<1>1. CASE s.network = None
  <2>1. s.network \notin deleted
    BY <1>1, NoneAssumption
  <2> QED
    BY <1>1, <2>1 DEF GrantedIn
<1>2. CASE s.network \in NetworkNames
  <2> SUFFICES ASSUME s.network \notin deleted2 PROVE GrantedIn(nets2, deleted2, p, s)
    BY DEF GrantedIn
  <2>1. s.network \notin deleted
        /\ nets[s.network].allocations \subseteq nets2[s.network].allocations
    BY <1>2 DEF Grows
  <2> QED
    BY <2>1 DEF GrantedIn
<1> QED
  BY <1>1, <1>2, PeerStatusFields

(* Nothing is granted to begin with, nor to a peer that is created.        *)
LEMMA NoStatusGranted ==
  ASSUME NEW nets, NEW deleted, NEW p
  PROVE  GrantedIn(nets, deleted, p, NoStatus)
BY DEF GrantedIn, NoStatus, NoConfigurations

(* The first rule that matches is unique, and so is the address.           *)
LEMMA allocateIPUnique ==
  ASSUME NEW p, NEW labels, NEW rules \in NetworkSpec, NEW a, NEW b,
         allocateIP(p, labels, rules, a), allocateIP(p, labels, rules, b)
  PROVE  a = b
<1>1. PICK i \in DOMAIN rules :
        /\ MatchesRule(p, labels, rules[i])
        /\ \A j \in 1..(i - 1) : ~ MatchesRule(p, labels, rules[j])
        /\ a = rules[i].address
  BY DEF allocateIP
<1>2. PICK k \in DOMAIN rules :
        /\ MatchesRule(p, labels, rules[k])
        /\ \A j \in 1..(k - 1) : ~ MatchesRule(p, labels, rules[j])
        /\ b = rules[k].address
  BY DEF allocateIP
<1>3. DOMAIN rules = 1..Len(rules) /\ Len(rules) \in Nat
  BY LenProperties DEF NetworkSpec
<1>4. i \in Nat /\ k \in Nat /\ i >= 1 /\ k >= 1
  BY <1>3
<1>5. ~ i < k
  <2> SUFFICES ASSUME i < k PROVE FALSE
    OBVIOUS
  <2>1. i \in 1..(k - 1)
    BY <1>4
  <2> QED
    BY <1>1, <1>2, <2>1
<1>6. ~ k < i
  <2> SUFFICES ASSUME k < i PROVE FALSE
    OBVIOUS
  <2>1. k \in 1..(i - 1)
    BY <1>4
  <2> QED
    BY <1>1, <1>2, <2>1
<1>7. i = k
  BY <1>4, <1>5, <1>6
<1> QED
  BY <1>1, <1>2, <1>7

(* A Reconcile of the network adds no second address for a peer.           *)
LEMMA AllocateAllOneEach ==
  ASSUME NEW n, NEW network \in Network, NEW listed, OneEach(network.allocations)
  PROVE  OneEach(AllocateAll(n, network, listed))
<1> DEFINE old == network.allocations
           new == NewAllocations(n, network, listed)
<1>1. network.rules \in NetworkSpec /\ old \subseteq IPAssignment
  BY NetworkFields
<1>2. \A a \in new : a \in IPAssignment /\ ~ \E b \in old : b.name = a.name
  BY DEF NewAllocations
<1>3. ASSUME NEW a \in new, NEW b \in new, a.name = b.name
      PROVE  a = b
  <2>1. allocateIP(a.name, listed[a.name].spec.labels, network.rules, a.address)
        /\ allocateIP(a.name, listed[a.name].spec.labels, network.rules, b.address)
    BY <1>3 DEF NewAllocations
  <2>2. a.address = b.address
    BY <1>1, <2>1, allocateIPUnique
  <2> QED
    BY <1>2, <1>3, <2>2 DEF IPAssignment
<1>4. ASSUME NEW a \in old, NEW b \in old, a.name = b.name
      PROVE  a = b
  BY <1>4 DEF OneEach
<1>5. AllocateAll(n, network, listed) = old \cup new
  BY DEF AllocateAll
<1> HIDE DEF old, new
<1> QED
  BY <1>2, <1>3, <1>4, <1>5 DEF OneEach

(* No step takes anything from the record of a network never deleted.      *)
LEMMA AllocationsGrow ==
  ASSUME TypeInv, NetworkInv, RecordInv, [Next]_vars
  PROVE  Grows(networks, deletedNetworks, networks', deletedNetworks')
<1> USE DEF TypeInv, TypeOK, ClusterTypeOK
<1>1. ASSUME UNCHANGED <<networks, deletedNetworks>>
      PROVE  Grows(networks, deletedNetworks, networks', deletedNetworks')
  BY <1>1 DEF Grows
<1>2. ASSUME NEW n \in NetworkNames, NEW o \in Network, WriteNetwork(n, o),
             deletedNetworks \subseteq deletedNetworks',
             n \notin deletedNetworks' => networks[n].allocations \subseteq o.allocations
      PROVE  Grows(networks, deletedNetworks, networks', deletedNetworks')
  BY <1>2 DEF WriteNetwork, Grows
<1>3. ASSUME NEW n \in NetworkNames, CreateNetwork(n) \/ EditNetwork(n) \/ DeleteNetwork(n)
      PROVE  Grows(networks, deletedNetworks, networks', deletedNetworks')
  <2>1. PICK o \in Network :
           /\ WriteNetwork(n, o)
           /\ networks[n].live /\ o.live => o.allocations = networks[n].allocations
           /\ deletedNetworks' = IF o.live THEN deletedNetworks
                                           ELSE deletedNetworks \cup {n}
    BY <1>3, UserNetworkWrite
  <2>2. ~ networks[n].live => networks[n].allocations = {}
    BY DEF RecordInv
  <2>3. n \notin deletedNetworks' => networks[n].allocations \subseteq o.allocations
    BY <2>1, <2>2, NetworkFields
  <2> QED
    BY <1>2, <2>1, <2>3
<1>4. CASE NetworkUpdate \/ NetworkUpdateReplyLost
  <2>1. CASE deletedNetworks' = deletedNetworks
    BY <1>2, <1>4, <2>1, NetworkStatusWrite
  <2>2. CASE deletedNetworks' # deletedNetworks
    <3>1. CASE UNCHANGED vars
      BY <2>2, <3>1 DEF vars
    <3>2. CASE Next
      <4>1. UserStep
        BY <2>2, <3>2 DEF Next, PeerStep, NetworkStep, Fault, Restart, DeliverPeerEvent,
             DeliverNetworkEvent, DeliverRouteEvent, ResyncPeers, ResyncNetworks,
             ResyncRoutes, informerUnchanged
      <4>2. \E n \in NetworkNames : DeleteNetwork(n)
        BY <2>2, <4>1 DEF UserStep, CreatePeer, EditPeer, DeletePeer, CreateNetwork,
             EditNetwork, ApplyRoute, DeleteRoute
      <4> QED
        BY <1>3, <4>2
    <3> QED
      BY <3>1, <3>2
  <2> QED
    BY <2>1, <2>2
<1>5. CASE UNCHANGED vars
  BY <1>1, <1>5 DEF vars, serverVars
<1> QED
  BY <1>1, <1>3, <1>4, <1>5, OnlyNetworkWriters

-----------------------------------------------------------------------------
(* The records.                                                            *)

(* A write of a network.                                                   *)
LEMMA RecordWrite ==
  ASSUME TypeInv, RecordInv, NEW n \in NetworkNames, NEW o \in Network,
         WriteNetwork(n, o), Grows(networks, deletedNetworks, networks', deletedNetworks'),
         ~ o.live => o.allocations = {},
         n \notin deletedNetworks' => OneEach(o.allocations),
         cachedNetworks' = cachedNetworks, nr' = nr \/ nr' = NetworkIdle
  PROVE  RecordInv'
<1> USE DEF TypeInv, TypeOK, ClusterTypeOK
<1>1. /\ networks' = [networks EXCEPT ![n] = o]
      /\ networkEvents' = Append(networkEvents, [name |-> n, object |-> o])
  BY DEF WriteNetwork
<1>2. \A m \in NetworkNames : ~ networks'[m].live => networks'[m].allocations = {}
  BY <1>1 DEF RecordInv
<1>3. ASSUME NEW m \in NetworkNames \ deletedNetworks'
      PROVE  /\ OneEach(networks'[m].allocations)
             /\ cachedNetworks'[m].allocations \subseteq networks'[m].allocations
  <2>1. m \notin deletedNetworks /\ networks[m].allocations \subseteq networks'[m].allocations
    BY DEF Grows
  <2>2. OneEach(networks[m].allocations)
        /\ cachedNetworks[m].allocations \subseteq networks[m].allocations
    BY <2>1 DEF RecordInv
  <2>3. OneEach(networks'[m].allocations)
    BY <1>1, <2>2
  <2> QED
    BY <2>1, <2>2, <2>3
<1>4. ASSUME NEW i \in 1..Len(networkEvents'), networkEvents'[i].name \notin deletedNetworks'
      PROVE  networkEvents'[i].object.allocations
               \subseteq networks'[networkEvents'[i].name].allocations
  <2>1. CASE i \in 1..Len(networkEvents)
    <3>0. networkEvents'[i] = networkEvents[i] /\ networkEvents[i] \in NetworkEvent
      BY <1>1, <2>1
    <3>1. networkEvents'[i] = networkEvents[i] /\ networkEvents[i].name \in NetworkNames
      BY <3>0 DEF NetworkEvent
    <3>2. /\ networkEvents[i].name \notin deletedNetworks
          /\ networks[networkEvents[i].name].allocations
               \subseteq networks'[networkEvents[i].name].allocations
      BY <1>4, <3>1 DEF Grows
    <3>3. networkEvents[i].object.allocations
            \subseteq networks[networkEvents[i].name].allocations
      BY <2>1, <3>2 DEF RecordInv
    <3> QED
      BY <3>1, <3>2, <3>3
  <2>2. CASE i = Len(networkEvents) + 1
    <3>1. networkEvents'[i] = [name |-> n, object |-> o]
      BY <1>1, <2>2
    <3> QED
      BY <1>1, <3>1
  <2> QED
    BY <1>1, <1>4, <2>1, <2>2
<1>5. /\ nr'.pc # "idle" /\ nr'.name \notin deletedNetworks' =>
           nr'.instance.allocations \subseteq networks'[nr'.name].allocations
      /\ nr'.pc = "update" /\ nr'.name \notin deletedNetworks' => OneEach(nr'.allocations)
  <2>1. CASE nr' = NetworkIdle
    BY <2>1 DEF NetworkIdle
  <2>2. CASE nr' = nr
    <3>1. nr.pc # "idle" => nr.name \in NetworkNames
      BY DEF NetworkControllerTypeOK
    <3>2. nr.pc # "idle" /\ nr.name \notin deletedNetworks' =>
            /\ nr.name \notin deletedNetworks
            /\ networks[nr.name].allocations \subseteq networks'[nr.name].allocations
      BY <3>1 DEF Grows
    <3> QED
      BY <2>2, <3>2 DEF RecordInv
  <2> QED
    BY <2>1, <2>2
<1> QED
  BY <1>2, <1>3, <1>4, <1>5 DEF RecordInv

LEMMA RecordStep ==
  ASSUME TypeInv, NetworkInv, RecordInv, [Next]_vars
  PROVE  RecordInv'
<1> USE DEF TypeInv, TypeOK, ClusterTypeOK
<1>1. Grows(networks, deletedNetworks, networks', deletedNetworks')
  BY AllocationsGrow
<1>2. ASSUME UNCHANGED <<networks, networkEvents, cachedNetworks, nr, deletedNetworks>>
      PROVE  RecordInv'
  BY <1>2 DEF RecordInv
<1>3. CASE UserStep
  <2>1. ASSUME NEW n \in NetworkNames, CreateNetwork(n) \/ EditNetwork(n) \/ DeleteNetwork(n)
        PROVE  RecordInv'
    <3>1. cachedNetworks' = cachedNetworks /\ nr' = nr
      BY <2>1 DEF CreateNetwork, EditNetwork, DeleteNetwork, UserEdits, cacheVars,
                  controllerVars, networkControllerVars
    <3>2. PICK o \in Network :
            /\ WriteNetwork(n, o)
            /\ ~ networks[n].live \/ ~ o.live => o.allocations = {}
            /\ networks[n].live /\ o.live => o.allocations = networks[n].allocations
      BY <2>1, UserNetworkWrite
    <3>3. n \notin deletedNetworks' => OneEach(o.allocations)
      <4>1. n \notin deletedNetworks' => OneEach(networks[n].allocations)
        BY <1>1 DEF Grows, RecordInv
      <4>2. OneEach({})
        BY DEF OneEach
      <4> QED
        BY <3>2, <4>1, <4>2, NetworkFields
    <3> QED
      BY <1>1, <3>1, <3>2, <3>3, RecordWrite
  <2>2. ASSUME NEW p \in PeerNames, CreatePeer(p) \/ EditPeer(p) \/ DeletePeer(p)
        PROVE  RecordInv'
    BY <1>2, <2>2 DEF CreatePeer, EditPeer, DeletePeer, UserEdits, cacheVars,
                      controllerVars, networkControllerVars
  <2>3. ASSUME NEW r \in RouteNames, ApplyRoute(r) \/ DeleteRoute(r)
        PROVE  RecordInv'
    BY <1>2, <2>3 DEF ApplyRoute, DeleteRoute, UserEdits, cacheVars, controllerVars,
                      networkControllerVars
  <2> QED
    BY <1>3, <2>1, <2>2, <2>3 DEF UserStep
<1>4. CASE DeliverNetworkEvent
  <2> DEFINE e == Head(networkEvents)
  <2>1. networks' = networks /\ nr' = nr /\ deletedNetworks' = deletedNetworks
    BY <1>4 DEF DeliverNetworkEvent, informerUnchanged, serverVars
  <2>2. e = networkEvents[1] /\ 1 \in 1..Len(networkEvents)
    BY <1>4, HeadTailProperties DEF DeliverNetworkEvent
  <2>3. e.name \notin deletedNetworks => e.object.allocations \subseteq networks[e.name].allocations
    BY <2>2 DEF RecordInv
  <2>4. cachedNetworks' = [cachedNetworks EXCEPT ![e.name] = e.object]
    BY <1>4 DEF DeliverNetworkEvent
  <2>5. \A n \in NetworkNames \ deletedNetworks :
          cachedNetworks'[n].allocations \subseteq networks[n].allocations
    <3> HIDE DEF e
    <3> QED
      BY <2>3, <2>4 DEF RecordInv
  <2>6. /\ Len(networkEvents') = Len(networkEvents) - 1
        /\ \A i \in 1..Len(networkEvents') : networkEvents'[i] = networkEvents[i + 1]
    BY <1>4, HeadTailProperties DEF DeliverNetworkEvent
  <2>7. ASSUME NEW i \in 1..Len(networkEvents'), networkEvents'[i].name \notin deletedNetworks
        PROVE  networkEvents'[i].object.allocations
                 \subseteq networks[networkEvents'[i].name].allocations
    <3>1. i + 1 \in 1..Len(networkEvents)
      BY <2>6, LenProperties
    <3> QED
      BY <2>6, <2>7, <3>1 DEF RecordInv
  <2> QED
    BY <2>1, <2>5, <2>7 DEF RecordInv
<1>5. CASE DeliverPeerEvent \/ DeliverRouteEvent \/ ResyncPeers \/ ResyncNetworks
             \/ ResyncRoutes
  BY <1>2, <1>5 DEF DeliverPeerEvent, DeliverRouteEvent, ResyncPeers, ResyncNetworks,
                    ResyncRoutes, informerUnchanged, serverVars, cacheVars, eventVars
<1>6. CASE (NetworkControllerStep \/ NetworkControllerFault) /\ UNCHANGED deletedNetworks
  <2>1. CASE NetworkUpdate \/ NetworkUpdateReplyLost
    <3>1. cachedNetworks' = cachedNetworks /\ nr' = NetworkIdle
      BY <2>1 DEF NetworkUpdate, NetworkUpdateReplyLost, cacheVars
    <3>2. nr.pc = "update"
      BY <2>1 DEF NetworkUpdate, NetworkUpdateReplyLost
    <3>3. nr.name \notin deletedNetworks' => OneEach(nr.allocations)
      BY <1>6, <3>2 DEF RecordInv
    <3> QED
      BY <1>1, <2>1, <3>1, <3>3, NetworkStatusWrite, RecordWrite
  <2>2. CASE ~ (NetworkUpdate \/ NetworkUpdateReplyLost)
    <3>1. UNCHANGED <<networks, networkEvents, cachedNetworks>>
      BY <1>6, <2>2 DEF NetworkControllerStep, NetworkControllerFault, NetworkGet,
             NetworkList, NetworkUpdateConflict, NetworkError, serverVars, eventVars, cacheVars
    <3>2. ASSUME nr' = NetworkIdle PROVE RecordInv'
      BY <1>6, <3>1, <3>2 DEF RecordInv, NetworkIdle
    <3>3. ASSUME NEW n \in NetworkNames, NetworkGet(n) PROVE RecordInv'
      <4>1. CASE nr' = [NetworkIdle EXCEPT !.pc = "list", !.name = n,
                                           !.instance = cachedNetworks[n]]
        <5>1. nr'.pc = "list" /\ nr'.name = n /\ nr'.instance = cachedNetworks[n]
          BY <4>1 DEF NetworkIdle
        <5> QED
          BY <1>6, <3>1, <5>1 DEF RecordInv
      <4> QED
        BY <3>2, <3>3, <4>1 DEF NetworkGet
    <3>4. CASE NetworkList
      <4> DEFINE allocations == AllocateAll(nr.name, nr.instance, cachedPeers)
      <4>1. nr.pc = "list" /\ nr.name \in NetworkNames /\ nr.instance \in Network
        BY <3>4 DEF NetworkList, NetworkControllerTypeOK, NetworkReconcile
      <4>2. CASE nr' = [nr EXCEPT !.pc = "update", !.allocations = allocations]
        <5>1. /\ nr'.pc = "update" /\ nr'.name = nr.name /\ nr'.instance = nr.instance
              /\ nr'.allocations = allocations
          BY <4>2 DEF NetworkControllerTypeOK, NetworkReconcile
        <5>2. nr.name \notin deletedNetworks => OneEach(nr.instance.allocations)
          BY <4>1 DEF RecordInv, OneEach
        <5>3. nr.name \notin deletedNetworks => OneEach(allocations)
          BY <4>1, <5>2, AllocateAllOneEach
        <5> HIDE DEF allocations
        <5> QED
          BY <1>6, <3>1, <4>1, <5>1, <5>3 DEF RecordInv
      <4> QED
        BY <3>2, <3>4, <4>2 DEF NetworkList
    <3>5. CASE NetworkUpdateConflict \/ NetworkError
      BY <3>2, <3>5 DEF NetworkUpdateConflict, NetworkError
    <3> QED
      BY <1>6, <2>2, <3>3, <3>4, <3>5 DEF NetworkControllerStep, NetworkControllerFault
  <2> QED
    BY <2>1, <2>2
<1>7. CASE /\ PeerControllerStep \/ PeerControllerFault
           /\ UNCHANGED <<networkControllerVars, deletedNetworks>>
  <2>1. UNCHANGED <<networks, networkEvents, cachedNetworks>>
    BY <1>7 DEF PeerControllerStep, PeerControllerFault, PeerGet, PeerAssignNetwork,
           PeerAssignAddress, PeerGetNetwork, PeerList, PeerListFails, PeerConfigure,
           PeerConfigured, PeerUpdate, PeerUpdateConflict, PeerError, PeerUpdateReplyLost,
           PeerRead, serverVars, eventVars, cacheVars
  <2> QED
    BY <1>2, <1>7, <2>1 DEF networkControllerVars
<1>8. CASE Restart
  BY <1>8 DEF Restart, serverVars, RecordInv, NetworkIdle
<1>9. CASE UNCHANGED vars
  BY <1>2, <1>9 DEF vars, serverVars, eventVars, cacheVars, controllerVars,
                    networkControllerVars
<1> QED
  BY <1>3, <1>4, <1>5, <1>6, <1>7, <1>8, <1>9 DEF Next, PeerStep, NetworkStep, Fault

-----------------------------------------------------------------------------
(* The statuses.                                                           *)

(* Where a Reconcile is: what PeerGet sets up, the reads maintain.         *)
LEMMA CasesStep ==
  ASSUME TypeInv, PeerInv, ReconcileCases, [Next]_vars
  PROVE  ReconcileCases'
<1> USE DEF TypeInv, TypeOK, ClusterTypeOK, PeerControllerTypeOK
<1>1. ASSUME pr' = pr PROVE ReconcileCases'
  BY <1>1 DEF ReconcileCases
<1>2. ASSUME pr' = PeerIdle PROVE ReconcileCases'
  BY <1>2 DEF ReconcileCases, PeerIdle
<1>3. /\ pr \in PeerReconcile
      /\ pr.pc # "idle" => StatusKept(pr.instance.status, pr.status)
  BY DEF PeerInv, PeerReconcileKeeps
<1>4. ASSUME NEW p \in PeerNames, PeerGet(p) PROVE ReconcileCases'
  <2> DEFINE instance == cachedPeers[p]
             case == IF instance.status.network = None THEN "network"
                     ELSE IF instance.status.address = None THEN "address"
                     ELSE "config"
             new == [PeerIdle EXCEPT !.pc = case, !.name = p, !.instance = instance,
                                     !.status = instance.status]
  <2>1. pr' = new \/ pr' = PeerIdle
    BY <1>4 DEF PeerGet
  <2>2. new.pc = case /\ new.instance = instance /\ new.status = instance.status
        /\ new.todo = {}
    <3> HIDE DEF case, instance
    <3> QED
      BY DEF PeerIdle
  <2>3. case \in {"address", "config", "list", "routes"} => instance.status.network # None
    OBVIOUS
  <2> HIDE DEF new, case, instance
  <2>4. CASE pr' = new
    BY <2>2, <2>3, <2>4 DEF ReconcileCases
  <2> QED
    BY <1>2, <2>1, <2>4
<1>5. ASSUME NEW s, pr' = [pr EXCEPT !.pc = "update", !.status = s] PROVE ReconcileCases'
  <2>1. pr'.pc = "update" /\ pr'.instance = pr.instance /\ pr'.todo = pr.todo
        /\ pr'.listed = pr.listed
    BY <1>3, <1>5 DEF PeerReconcile
  <2> QED
    BY <2>1 DEF ReconcileCases
<1>6. CASE PeerAssignNetwork
  BY <1>2, <1>5, <1>6 DEF PeerAssignNetwork
<1>7. CASE PeerAssignAddress
  BY <1>2, <1>5, <1>7 DEF PeerAssignAddress
<1>8. CASE PeerGetNetwork
  <2>1. CASE pr' = [pr EXCEPT !.pc = "list"]
    <3>1. /\ pr'.pc = "list" /\ pr'.instance = pr.instance /\ pr'.todo = pr.todo
          /\ pr'.listed = pr.listed /\ pr'.status = pr.status
      BY <1>3, <2>1 DEF PeerReconcile
    <3>2. pr.pc = "config"
      BY <1>8 DEF PeerGetNetwork, PeerRead
    <3> QED
      BY <3>1, <3>2 DEF ReconcileCases
  <2> QED
    BY <1>2, <1>8, <2>1 DEF PeerGetNetwork
<1>9. CASE PeerList
  <2>1. /\ pr'.pc = "routes" /\ pr'.instance = pr.instance /\ pr'.listed = cachedPeers
        /\ pr'.todo = Reachable(pr.name, pr.instance, cachedPeers)
    BY <1>3, <1>9 DEF PeerList, PeerReconcile
  <2>2. pr.pc = "list"
    BY <1>9 DEF PeerList, PeerRead
  <2>3. \A q \in Reachable(pr.name, pr.instance, cachedPeers) :
          cachedPeers[q].status.network = pr.instance.status.network
    BY DEF Reachable, Neighbours
  <2> QED
    BY <2>1, <2>2, <2>3 DEF ReconcileCases
<1>10. ASSUME NEW q \in PeerNames, PeerConfigure(q) PROVE ReconcileCases'
  <2>1. PICK s : pr' = [pr EXCEPT !.todo = pr.todo \ {q}, !.status = s]
    BY <1>10 DEF PeerConfigure
  <2>2. /\ pr'.pc = pr.pc /\ pr'.instance = pr.instance /\ pr'.todo = pr.todo \ {q}
        /\ pr'.listed = pr.listed
    BY <1>3, <2>1 DEF PeerReconcile
  <2>3. pr.pc = "routes"
    BY <1>10 DEF PeerConfigure, PeerRead
  <2> QED
    BY <2>2, <2>3 DEF ReconcileCases
<1>11. CASE PeerConfigured
  <2>1. CASE pr' = [PeerIdle EXCEPT !.pc = "update", !.name = pr.name,
                                    !.instance = pr.instance, !.status = pr.status]
    <3>1. pr'.pc = "update" /\ pr'.todo = {}
      BY <2>1 DEF PeerIdle
    <3> QED
      BY <3>1 DEF ReconcileCases
  <2> QED
    BY <1>2, <1>11, <2>1 DEF PeerConfigured
<1>12. CASE PeerListFails \/ PeerUpdate \/ PeerUpdateConflict \/ PeerControllerFault \/ Restart
  BY <1>2, <1>12 DEF PeerListFails, PeerUpdate, PeerUpdateConflict, PeerControllerFault,
                     PeerError, PeerUpdateReplyLost, Restart
<1>13. CASE UserStep
  BY <1>1, <1>13 DEF UserStep, CreatePeer, EditPeer, DeletePeer, CreateNetwork, EditNetwork,
       DeleteNetwork, ApplyRoute, DeleteRoute, UserEdits, controllerVars, peerControllerVars
<1>14. CASE \/ DeliverPeerEvent \/ DeliverNetworkEvent \/ DeliverRouteEvent
            \/ ResyncPeers \/ ResyncNetworks \/ ResyncRoutes
  BY <1>1, <1>14 DEF DeliverPeerEvent, DeliverNetworkEvent, DeliverRouteEvent, ResyncPeers,
       ResyncNetworks, ResyncRoutes, informerUnchanged
<1>15. CASE UNCHANGED peerControllerVars
  BY <1>1, <1>15 DEF peerControllerVars
<1>16. CASE UNCHANGED vars
  BY <1>1, <1>16 DEF vars, controllerVars, peerControllerVars
<1> QED
  BY <1>4, <1>6, <1>7, <1>8, <1>9, <1>10, <1>11, <1>12, <1>13, <1>14, <1>15, <1>16
  DEF Next, PeerStep, NetworkStep, Fault, PeerControllerStep

(* The address that a Reconcile copies from any version of its network.    *)
LEMMA AddressGranted ==
  ASSUME TypeInv, PeerInv, RecordInv, GrantInv, pr.pc = "address",
         NEW alloc \in cachedNetworks[pr.instance.status.network].allocations,
         alloc.name = pr.name, alloc.address # None
  PROVE  Granted(pr.name, [pr.status EXCEPT !.address = alloc.address])
<1> USE DEF TypeInv, TypeOK, ClusterTypeOK, PeerControllerTypeOK
<1> DEFINE n == pr.instance.status.network
           s == [pr.status EXCEPT !.address = alloc.address]
<1>1. n \in NetworkNames /\ pr.status = pr.instance.status /\ pr.status \in PeerStatus
  BY PeerReconcileFields DEF PeerReconcileTyped, GrantInv, ReconcileCases
<1>2. s.network = n /\ s.address = alloc.address /\ s.peers = pr.status.peers
  BY <1>1 DEF PeerStatus
<1>3. alloc \in IPAssignment
  BY <1>1, NetworkFields
<1>4. alloc = [name |-> pr.name, address |-> s.address]
  BY <1>2, <1>3 DEF IPAssignment
<1>5. n \notin deletedNetworks => alloc \in networks[n].allocations
  BY <1>1 DEF RecordInv
<1>6. n # None
  BY <1>1, NoneAssumption
<1>7. Granted(pr.name, pr.status)
  BY DEF GrantInv, CopiesGranted
<1>8. pr.status.network = n
  BY <1>1
<1> HIDE DEF n, s
<1>9. Granted(pr.name, s)
  BY <1>2, <1>4, <1>5, <1>6, <1>7, <1>8 DEF Granted, GrantedIn
<1> QED
  BY <1>9 DEF s

(* An entry computed from a listed peer names the address granted to it.   *)
LEMMA EntryGranted ==
  ASSUME TypeInv, PeerInv, GrantInv, pr.pc = "routes", NEW q \in pr.todo,
         NEW bindings \in [RouteNames -> RouteBinding]
  PROVE  Granted(pr.name, [pr.status EXCEPT
           !.peers = [pr.status.peers EXCEPT
              ![q] = Configuration(q, pr.listed[q], bindings)]])
<1> USE DEF TypeInv, TypeOK, ClusterTypeOK, PeerControllerTypeOK
<1> DEFINE object == pr.listed[q]
           cfg == Configuration(q, object, bindings)
           cfgs == [pr.status.peers EXCEPT ![q] = cfg]
           s == [pr.status EXCEPT !.peers = cfgs]
           n == pr.status.network
<1>1. /\ q \in PeerNames /\ object \in Peer /\ object.status.address # None
      /\ pr.status \in PeerStatus /\ pr.name \in PeerNames
  BY PeerReconcileFields DEF PeerReconcileTyped
<1>2. object.status.address \in Address
  BY <1>1, PeerFields, PeerStatusFields
<1>3. cfg.allowedIP.ip = object.status.address.ip
  <2>1. splitNetMask(object.status.address)[1].ip = object.status.address.ip
    BY <1>2 DEF splitNetMask, Address
  <2> QED
    BY <2>1 DEF Configuration
<1>4. object.status.network = n /\ n # None
  <2>1. object.status.network = pr.instance.status.network
        /\ pr.instance.status.network # None
    BY DEF GrantInv, ReconcileCases
  <2>2. pr.status.network = pr.instance.status.network
    BY <2>1 DEF PeerInv, PeerReconcileKeeps, StatusKept
  <2> QED
    BY <2>1, <2>2
<1>5. n \notin deletedNetworks =>
        [name |-> q, address |-> object.status.address] \in networks[n].allocations
  <2>1. Granted(q, object.status)
    BY <1>1 DEF GrantInv, CopiesGranted
  <2> QED
    BY <1>1, <1>4, <2>1 DEF Granted, GrantedIn
<1>6. Granted(pr.name, pr.status)
  BY DEF GrantInv, CopiesGranted
<1> HIDE DEF cfg
<1>7. s.network = n /\ s.address = pr.status.address /\ s.peers = cfgs
  BY <1>1 DEF PeerStatus
<1>8. cfgs[q] = cfg /\ \A x \in PeerNames \ {q} : cfgs[x] = pr.status.peers[x]
  BY <1>1, PeerStatusFields DEF PeerConfigurations
<1> HIDE DEF cfgs, s, object, n
<1>9. ASSUME n \notin deletedNetworks
      PROVE  /\ s.address # None =>
                  [name |-> pr.name, address |-> s.address] \in networks[n].allocations
             /\ \A x \in PeerNames : s.peers[x] # None =>
                  \E alloc \in networks[n].allocations :
                    /\ alloc.name = x /\ alloc.address # None
                    /\ alloc.address.ip = s.peers[x].allowedIP.ip
  <2>1. s.address # None =>
          [name |-> pr.name, address |-> s.address] \in networks[n].allocations
    BY <1>6, <1>7, <1>9 DEF Granted, GrantedIn, n
  <2>2. \E alloc \in networks[n].allocations :
          /\ alloc.name = q /\ alloc.address # None
          /\ alloc.address.ip = cfg.allowedIP.ip
    BY <1>1, <1>3, <1>5, <1>9
  <2>3. ASSUME NEW x \in PeerNames \ {q}, pr.status.peers[x] # None
        PROVE  \E alloc \in networks[n].allocations :
                 /\ alloc.name = x /\ alloc.address # None
                 /\ alloc.address.ip = pr.status.peers[x].allowedIP.ip
    BY <1>6, <1>9, <2>3 DEF Granted, GrantedIn, n
  <2>4. ASSUME NEW x \in PeerNames, s.peers[x] # None
        PROVE  \E alloc \in networks[n].allocations :
                 /\ alloc.name = x /\ alloc.address # None
                 /\ alloc.address.ip = s.peers[x].allowedIP.ip
    <3>1. CASE x = q
      BY <1>7, <1>8, <2>2, <3>1
    <3>2. CASE x # q
      <4>1. s.peers[x] = pr.status.peers[x] /\ x \in PeerNames \ {q}
        BY <1>7, <1>8, <3>2
      <4> QED
        BY <2>3, <2>4, <4>1
    <3> QED
      BY <3>1, <3>2
  <2> QED
    BY <2>1, <2>4
<1>10. Granted(pr.name, s)
  BY <1>4, <1>7, <1>9 DEF Granted, GrantedIn
<1> QED
  BY <1>10 DEF s, cfgs, cfg, object

-----------------------------------------------------------------------------
(* A status that is granted stays granted, and a new peer has nothing.     *)
LEMMA StillGranted ==
  ASSUME TypeInv, NetworkInv, RecordInv, [Next]_vars,
         NEW p, NEW s \in PeerStatus, GrantedIn(networks, deletedNetworks, p, s)
  PROVE  GrantedIn(networks', deletedNetworks', p, s)
<1>1. Grows(networks, deletedNetworks, networks', deletedNetworks')
  BY AllocationsGrow
<1>2. deletedNetworks \subseteq NetworkNames
  BY DEF TypeInv, TypeOK
<1> QED
  BY <1>1, <1>2, GrantedGrows

(* The steps that move the copies of peers outside a Reconcile.            *)
LEMMA OnlyPeerMovers ==
  ASSUME Next, <<peers, peerEvents, cachedPeers>>' # <<peers, peerEvents, cachedPeers>>
  PROVE  \/ \E p \in PeerNames : CreatePeer(p) \/ EditPeer(p) \/ DeletePeer(p)
         \/ PeerUpdate \/ PeerUpdateReplyLost \/ DeliverPeerEvent \/ Restart
<1> USE DEF serverVars, eventVars, cacheVars
<1>1. CASE UserStep
  BY <1>1 DEF UserStep, CreateNetwork, EditNetwork, DeleteNetwork, ApplyRoute, DeleteRoute,
              UserEdits
<1>2. CASE PeerControllerStep \/ PeerControllerFault
  BY <1>2 DEF PeerControllerStep, PeerControllerFault, PeerGet, PeerAssignNetwork,
              PeerAssignAddress, PeerGetNetwork, PeerList, PeerListFails, PeerConfigure,
              PeerConfigured, PeerUpdateConflict, PeerError, PeerRead
<1>3. CASE NetworkControllerStep \/ NetworkControllerFault
  BY <1>3 DEF NetworkControllerStep, NetworkControllerFault, NetworkGet, NetworkList,
              NetworkUpdate, NetworkUpdateConflict, NetworkError, NetworkUpdateReplyLost
<1>4. CASE \/ DeliverNetworkEvent \/ DeliverRouteEvent
           \/ ResyncPeers \/ ResyncNetworks \/ ResyncRoutes
  BY <1>4 DEF DeliverNetworkEvent, DeliverRouteEvent, ResyncPeers, ResyncNetworks,
              ResyncRoutes, informerUnchanged
<1> QED
  BY <1>1, <1>2, <1>3, <1>4 DEF Next, PeerStep, NetworkStep, Fault

(* The server's peers, their events and their cache.                       *)
LEMMA CopiesStep ==
  ASSUME TypeInv, PeerInv, NetworkInv, RecordInv, GrantInv, [Next]_vars
  PROVE  /\ \A p \in PeerNames :
              /\ GrantedIn(networks', deletedNetworks', p, peers'[p].status)
              /\ GrantedIn(networks', deletedNetworks', p, cachedPeers'[p].status)
         /\ \A i \in 1..Len(peerEvents') :
              GrantedIn(networks', deletedNetworks', peerEvents'[i].name,
                        peerEvents'[i].object.status)
<1> USE DEF TypeInv, TypeOK, ClusterTypeOK
<1> DEFINE G(p, s) == GrantedIn(networks', deletedNetworks', p, s)
<1>1. \A p \in PeerNames : G(p, peers[p].status) /\ G(p, cachedPeers[p].status)
  <2> SUFFICES ASSUME NEW p \in PeerNames
               PROVE  G(p, peers[p].status) /\ G(p, cachedPeers[p].status)
    OBVIOUS
  <2>1. peers[p].status \in PeerStatus /\ cachedPeers[p].status \in PeerStatus
    BY PeerFields
  <2>2. /\ GrantedIn(networks, deletedNetworks, p, peers[p].status)
        /\ GrantedIn(networks, deletedNetworks, p, cachedPeers[p].status)
    BY DEF GrantInv, CopiesGranted, Granted
  <2> QED
    BY <2>1, <2>2, StillGranted
<1>2. \A i \in 1..Len(peerEvents) : /\ peerEvents[i] \in PeerEvent
                                    /\ G(peerEvents[i].name, peerEvents[i].object.status)
  <2> SUFFICES ASSUME NEW i \in 1..Len(peerEvents)
               PROVE  /\ peerEvents[i] \in PeerEvent
                      /\ G(peerEvents[i].name, peerEvents[i].object.status)
    OBVIOUS
  <2>1. peerEvents[i] \in PeerEvent
    OBVIOUS
  <2>2. peerEvents[i].object.status \in PeerStatus
    BY <2>1, PeerFields DEF PeerEvent
  <2>3. GrantedIn(networks, deletedNetworks, peerEvents[i].name, peerEvents[i].object.status)
    BY DEF GrantInv, CopiesGranted, Granted
  <2> QED
    BY <2>1, <2>2, <2>3, StillGranted
<1> HIDE DEF G
<1> SUFFICES /\ \A p \in PeerNames : G(p, peers'[p].status) /\ G(p, cachedPeers'[p].status)
             /\ \A i \in 1..Len(peerEvents') : G(peerEvents'[i].name, peerEvents'[i].object.status)
  BY DEF G
<1> DEFINE Goal == /\ \A p \in PeerNames :
                        G(p, peers'[p].status) /\ G(p, cachedPeers'[p].status)
                   /\ \A i \in 1..Len(peerEvents') :
                        G(peerEvents'[i].name, peerEvents'[i].object.status)
<1>3. ASSUME NEW p \in PeerNames, NEW o \in Peer, WritePeer(p, o), G(p, o.status),
             cachedPeers' = cachedPeers
      PROVE  Goal
  <2>1. peers' = [peers EXCEPT ![p] = o]
        /\ peerEvents' = Append(peerEvents, [name |-> p, object |-> o])
    BY <1>3 DEF WritePeer
  <2>2. ASSUME NEW q \in PeerNames PROVE G(q, peers'[q].status)
    <3>1. CASE q = p
      BY <1>3, <2>1, <3>1
    <3>2. CASE q # p
      BY <1>1, <2>1, <3>2
    <3> QED
      BY <3>1, <3>2
  <2>3. ASSUME NEW i \in 1..Len(peerEvents')
        PROVE  G(peerEvents'[i].name, peerEvents'[i].object.status)
    <3>1. CASE i \in 1..Len(peerEvents)
      <4>1. peerEvents'[i] = peerEvents[i]
        BY <2>1, <3>1
      <4> QED
        BY <1>2, <3>1, <4>1
    <3>2. CASE i = Len(peerEvents) + 1
      <4>1. peerEvents'[i] = [name |-> p, object |-> o]
        BY <2>1, <3>2
      <4>2. peerEvents'[i].name = p /\ peerEvents'[i].object = o
        BY <4>1
      <4> QED
        BY <1>3, <4>2
    <3> QED
      BY <2>1, <3>1, <3>2
  <2> QED
    BY <1>1, <1>3, <2>2, <2>3
<1>4. ASSUME NEW p \in PeerNames, CreatePeer(p) \/ EditPeer(p) \/ DeletePeer(p)
      PROVE  Goal
  <2>1. PICK o \in Peer : /\ WritePeer(p, o)
                          /\ o.status = NoStatus \/ o.status = peers[p].status
    BY <1>4, UserPeerWrite
  <2>2. G(p, o.status)
    BY <1>1, <2>1, NoStatusGranted DEF G
  <2>3. cachedPeers' = cachedPeers
    BY <1>4 DEF CreatePeer, EditPeer, DeletePeer, UserEdits, cacheVars
  <2> QED
    BY <1>3, <2>1, <2>2, <2>3
<1>5. CASE PeerUpdate \/ PeerUpdateReplyLost
  <2>1. pr.name \in PeerNames /\ \E o \in Peer : WritePeer(pr.name, o) /\ o.status = pr.status
    BY <1>5, PeerStatusWrite
  <2>2. PICK o \in Peer : WritePeer(pr.name, o) /\ o.status = pr.status
    BY <2>1
  <2>3. pr.status \in PeerStatus
    BY PeerReconcileFields DEF PeerControllerTypeOK
  <2>4. pr.pc = "update"
    BY <1>5 DEF PeerUpdate, PeerUpdateReplyLost
  <2>5. GrantedIn(networks, deletedNetworks, pr.name, pr.status)
    BY <2>4 DEF GrantInv, CopiesGranted, Granted
  <2>6. G(pr.name, pr.status)
    BY <2>3, <2>5, StillGranted DEF G
  <2>7. cachedPeers' = cachedPeers
    BY <1>5 DEF PeerUpdate, PeerUpdateReplyLost, cacheVars
  <2> QED
    BY <1>3, <2>1, <2>2, <2>6, <2>7
<1>6. CASE DeliverPeerEvent
  <2> DEFINE e == Head(peerEvents)
  <2>1. peers' = peers /\ cachedPeers' = [cachedPeers EXCEPT ![e.name] = e.object]
    BY <1>6 DEF DeliverPeerEvent, informerUnchanged, serverVars
  <2>2. e = peerEvents[1] /\ 1 \in 1..Len(peerEvents)
    BY <1>6, HeadTailProperties DEF DeliverPeerEvent
  <2>3. G(e.name, e.object.status)
    BY <1>2, <2>2
  <2>4. ASSUME NEW q \in PeerNames PROVE G(q, cachedPeers'[q].status)
    <3> HIDE DEF e
    <3>1. CASE q = e.name
      <4>1. cachedPeers'[q] = e.object
        BY <2>1, <3>1
      <4> QED
        BY <2>3, <3>1, <4>1
    <3>2. CASE q # e.name
      <4>1. cachedPeers'[q] = cachedPeers[q]
        BY <2>1, <3>2
      <4> QED
        BY <1>1, <4>1
    <3> QED
      BY <3>1, <3>2
  <2>5. /\ Len(peerEvents') = Len(peerEvents) - 1
        /\ \A i \in 1..Len(peerEvents') : peerEvents'[i] = peerEvents[i + 1]
    BY <1>6, HeadTailProperties DEF DeliverPeerEvent
  <2>6. ASSUME NEW i \in 1..Len(peerEvents')
        PROVE  G(peerEvents'[i].name, peerEvents'[i].object.status)
    <3>1. i + 1 \in 1..Len(peerEvents)
      BY <2>5, LenProperties
    <3> QED
      BY <1>2, <2>5, <3>1
  <2> QED
    BY <1>1, <2>1, <2>4, <2>6
<1>7. CASE Restart
  <2>1. peers' = peers /\ cachedPeers' = peers /\ peerEvents' = <<>>
    BY <1>7 DEF Restart, serverVars
  <2>2. Len(peerEvents') = 0
    BY <2>1
  <2> QED
    BY <1>1, <2>1, <2>2
<1>8. CASE UNCHANGED <<peers, peerEvents, cachedPeers>>
  BY <1>1, <1>2, <1>8
<1>9. Goal
  <2>1. CASE UNCHANGED vars
    BY <1>8, <2>1 DEF vars, serverVars, eventVars, cacheVars
  <2> QED
    BY <1>4, <1>5, <1>6, <1>7, <1>8, <2>1, OnlyPeerMovers
<1> QED
  BY <1>9

(* The Reconcile under way.                                                *)
LEMMA ReconcileStep ==
  ASSUME TypeInv, PeerInv, NetworkInv, RecordInv, GrantInv, [Next]_vars
  PROVE  /\ \A p \in PeerNames :
              GrantedIn(networks', deletedNetworks', p, pr'.listed[p].status)
         /\ pr'.pc # "idle" =>
              /\ GrantedIn(networks', deletedNetworks', pr'.name, pr'.instance.status)
              /\ GrantedIn(networks', deletedNetworks', pr'.name, pr'.status)
<1> USE DEF TypeInv, TypeOK, ClusterTypeOK, PeerControllerTypeOK
<1> DEFINE G(p, s) == GrantedIn(networks', deletedNetworks', p, s)
           Goal == /\ \A p \in PeerNames : G(p, pr'.listed[p].status)
                   /\ pr'.pc # "idle" =>
                        G(pr'.name, pr'.instance.status) /\ G(pr'.name, pr'.status)
<1>0. /\ pr \in PeerReconcile /\ pr.instance.status \in PeerStatus
      /\ pr.status \in PeerStatus /\ pr.listed \in [PeerNames -> Peer]
  BY PeerReconcileFields, PeerFields
<1>1. \A p \in PeerNames : G(p, pr.listed[p].status) /\ G(p, cachedPeers[p].status)
  <2> SUFFICES ASSUME NEW p \in PeerNames
               PROVE  G(p, pr.listed[p].status) /\ G(p, cachedPeers[p].status)
    OBVIOUS
  <2>1. pr.listed[p].status \in PeerStatus /\ cachedPeers[p].status \in PeerStatus
    BY <1>0, PeerFields
  <2>2. /\ GrantedIn(networks, deletedNetworks, p, pr.listed[p].status)
        /\ GrantedIn(networks, deletedNetworks, p, cachedPeers[p].status)
    BY DEF GrantInv, CopiesGranted, Granted
  <2> QED
    BY <2>1, <2>2, StillGranted
<1>2. pr.pc # "idle" => G(pr.name, pr.instance.status) /\ G(pr.name, pr.status)
  <2>1. pr.pc # "idle" =>
          /\ GrantedIn(networks, deletedNetworks, pr.name, pr.instance.status)
          /\ GrantedIn(networks, deletedNetworks, pr.name, pr.status)
    BY DEF GrantInv, CopiesGranted, Granted
  <2> QED
    BY <1>0, <2>1, StillGranted
<1>3. \A p \in PeerNames : G(p, PeerIdle.listed[p].status)
  <2>1. \A p \in PeerNames : PeerIdle.listed[p].status = NoStatus
    BY DEF PeerIdle, NoPeer
  <2> QED
    BY <2>1, NoStatusGranted
<1> HIDE DEF G
<1> SUFFICES Goal
  BY DEF G
<1>4. CASE pr' = pr
  BY <1>1, <1>2, <1>4
<1>5. CASE pr' = PeerIdle
  BY <1>3, <1>5 DEF PeerIdle
<1>6. ASSUME NEW p \in PeerNames, PeerGet(p) PROVE Goal
  <2> DEFINE instance == cachedPeers[p]
             case == IF instance.status.network = None THEN "network"
                     ELSE IF instance.status.address = None THEN "address"
                     ELSE "config"
             new == [PeerIdle EXCEPT !.pc = case, !.name = p, !.instance = instance,
                                     !.status = instance.status]
  <2>1. pr' = new \/ pr' = PeerIdle
    BY <1>6 DEF PeerGet
  <2>2. /\ new.name = p /\ new.instance = instance /\ new.status = instance.status
        /\ new.listed = PeerIdle.listed
    <3> HIDE DEF case, instance
    <3> QED
      BY DEF PeerIdle
  <2>3. G(p, instance.status)
    BY <1>1
  <2> HIDE DEF new, case, instance
  <2>4. CASE pr' = new
    BY <1>3, <2>2, <2>3, <2>4
  <2> QED
    BY <1>5, <2>1, <2>4
<1>7. ASSUME NEW s, pr' = [pr EXCEPT !.pc = "update", !.status = s], pr.pc # "idle",
             G(pr.name, s)
      PROVE  Goal
  <2>1. pr'.name = pr.name /\ pr'.instance = pr.instance /\ pr'.listed = pr.listed
        /\ pr'.status = s
    BY <1>0, <1>7 DEF PeerReconcile
  <2> QED
    BY <1>1, <1>2, <1>7, <2>1
<1>8. CASE PeerAssignNetwork
  <2>1. pr.pc = "network"
    BY <1>8 DEF PeerAssignNetwork, PeerRead
  <2>2. CASE pr' # PeerIdle
    <3>1. PICK n \in NetworkNames :
            pr' = [pr EXCEPT !.pc = "update", !.status = [pr.status EXCEPT !.network = n]]
      BY <1>8, <2>2 DEF PeerAssignNetwork
    <3> DEFINE s == [pr.status EXCEPT !.network = n]
    <3>2. s.address = pr.status.address /\ s.peers = pr.status.peers
      BY <1>0 DEF PeerStatus
    <3>3. pr.status.network = None
      BY <2>1 DEF PeerInv, PeerReconcileKeeps, GrantInv, ReconcileCases
    <3>4. None \notin deletedNetworks
      BY NoneAssumption
    <3>5. Granted(pr.name, pr.status)
      BY <2>1 DEF GrantInv, CopiesGranted
    <3>6. pr.status.address = None /\ \A q \in PeerNames : pr.status.peers[q] = None
      BY <3>3, <3>4, <3>5 DEF Granted, GrantedIn
    <3> HIDE DEF s
    <3>7. G(pr.name, s)
      BY <3>2, <3>6 DEF G, GrantedIn
    <3> QED
      BY <1>7, <2>1, <3>1, <3>7 DEF s
  <2> QED
    BY <1>5, <2>2
<1>9. CASE PeerAssignAddress
  <2>1. pr.pc = "address" /\ UNCHANGED <<peerQueue, serverVars, cacheVars, eventVars>>
    BY <1>9 DEF PeerAssignAddress, PeerRead
  <2>2. CASE pr' # PeerIdle
    <3>1. PICK alloc \in cachedNetworks[pr.instance.status.network].allocations :
            /\ alloc.name = pr.name /\ alloc.address # None
            /\ pr' = [pr EXCEPT !.pc = "update",
                                !.status = [pr.status EXCEPT !.address = alloc.address]]
      BY <1>9, <2>2 DEF PeerAssignAddress
    <3> DEFINE s == [pr.status EXCEPT !.address = alloc.address]
    <3>2. Granted(pr.name, s)
      BY <2>1, <3>1, AddressGranted
    <3>3. s \in PeerStatus
      <4>1. pr.instance.status.network \in NetworkNames
        BY <2>1 DEF PeerReconcileTyped
      <4>2. alloc.address \in Address
        BY <3>1, <4>1, NetworkFields DEF IPAssignment
      <4> QED
        BY <1>0, <4>2 DEF PeerStatus
    <3>4. G(pr.name, s)
      <4> HIDE DEF s
      <4> QED
        BY <3>2, <3>3, StillGranted DEF G, Granted
    <3> QED
      BY <1>7, <2>1, <3>1, <3>4
  <2> QED
    BY <1>5, <2>2
<1>10. CASE PeerGetNetwork
  <2>1. CASE pr' = [pr EXCEPT !.pc = "list"]
    <3>1. /\ pr'.name = pr.name /\ pr'.instance = pr.instance /\ pr'.listed = pr.listed
          /\ pr'.status = pr.status
      BY <1>0, <2>1 DEF PeerReconcile
    <3>2. pr.pc # "idle"
      BY <1>10 DEF PeerGetNetwork, PeerRead
    <3> QED
      BY <1>1, <1>2, <3>1, <3>2
  <2> QED
    BY <1>5, <1>10, <2>1 DEF PeerGetNetwork
<1>11. CASE PeerList
  <2> DEFINE s == [pr.status EXCEPT !.peers = NoConfigurations]
  <2>1. /\ pr'.name = pr.name /\ pr'.instance = pr.instance /\ pr'.listed = cachedPeers
        /\ pr'.status = s
    BY <1>0, <1>11 DEF PeerList, PeerReconcile
  <2>2. pr.pc # "idle"
    BY <1>11 DEF PeerList, PeerRead
  <2>3. s.network = pr.status.network /\ s.address = pr.status.address
        /\ s.peers = NoConfigurations
    BY <1>0 DEF PeerStatus
  <2>4. \A q \in PeerNames : s.peers[q] = None
    BY <2>3 DEF NoConfigurations
  <2> HIDE DEF s
  <2>5. G(pr.name, s)
    BY <1>2, <2>2, <2>3, <2>4 DEF G, GrantedIn
  <2> QED
    BY <1>1, <1>2, <2>1, <2>2, <2>5
<1>12. ASSUME NEW q \in PeerNames, PeerConfigure(q) PROVE Goal
  <2> DEFINE cfg == Configuration(q, pr.listed[q], cachedRoutes)
             s == [pr.status EXCEPT !.peers = [pr.status.peers EXCEPT ![q] = cfg]]
  <2>1. pr.pc = "routes" /\ q \in pr.todo /\ pr' = [pr EXCEPT !.todo = pr.todo \ {q}, !.status = s]
    BY <1>12 DEF PeerConfigure, PeerRead
  <2>2. cachedRoutes \in [RouteNames -> RouteBinding]
    OBVIOUS
  <2>3. Granted(pr.name, s)
    BY <2>1, <2>2, EntryGranted
  <2>4. cfg \in PeerConfiguration
    BY <1>0, <2>1, <2>2, ConfigurationTyped DEF PeerReconcileTyped
  <2> HIDE DEF cfg
  <2>5. [pr.status.peers EXCEPT ![q] = cfg] \in PeerConfigurations
    BY <1>0, <2>4, PeerStatusFields DEF PeerConfigurations
  <2>6. s \in PeerStatus
    BY <1>0, <2>5 DEF PeerStatus
  <2> HIDE DEF s
  <2>7. /\ pr'.name = pr.name /\ pr'.instance = pr.instance /\ pr'.listed = pr.listed
        /\ pr'.status = s
    BY <1>0, <2>1 DEF PeerReconcile
  <2>8. G(pr.name, s)
    BY <2>3, <2>6, StillGranted DEF G, Granted
  <2> QED
    BY <1>1, <1>2, <2>1, <2>7, <2>8
<1>13. CASE PeerConfigured
  <2>1. CASE pr' = [PeerIdle EXCEPT !.pc = "update", !.name = pr.name,
                                    !.instance = pr.instance, !.status = pr.status]
    <3>1. /\ pr'.name = pr.name /\ pr'.instance = pr.instance /\ pr'.status = pr.status
          /\ pr'.listed = PeerIdle.listed
      BY <2>1 DEF PeerIdle
    <3>2. pr.pc # "idle"
      BY <1>13 DEF PeerConfigured, PeerRead
    <3> QED
      BY <1>2, <1>3, <3>1, <3>2
  <2> QED
    BY <1>5, <1>13, <2>1 DEF PeerConfigured
<1>14. CASE PeerListFails \/ PeerUpdate \/ PeerUpdateConflict \/ PeerControllerFault \/ Restart
  BY <1>5, <1>14 DEF PeerListFails, PeerUpdate, PeerUpdateConflict, PeerControllerFault,
                     PeerError, PeerUpdateReplyLost, Restart
<1>15. CASE UserStep
  BY <1>4, <1>15 DEF UserStep, CreatePeer, EditPeer, DeletePeer, CreateNetwork, EditNetwork,
       DeleteNetwork, ApplyRoute, DeleteRoute, UserEdits, controllerVars, peerControllerVars
<1>16. CASE \/ DeliverPeerEvent \/ DeliverNetworkEvent \/ DeliverRouteEvent
            \/ ResyncPeers \/ ResyncNetworks \/ ResyncRoutes
  BY <1>4, <1>16 DEF DeliverPeerEvent, DeliverNetworkEvent, DeliverRouteEvent, ResyncPeers,
       ResyncNetworks, ResyncRoutes, informerUnchanged
<1>17. CASE UNCHANGED peerControllerVars
  BY <1>4, <1>17 DEF peerControllerVars
<1>18. CASE UNCHANGED vars
  BY <1>4, <1>18 DEF vars, controllerVars, peerControllerVars
<1>19. Goal
  <2> HIDE DEF Goal
  <2> QED
    BY <1>6, <1>8, <1>9, <1>10, <1>11, <1>12, <1>13, <1>14, <1>15, <1>16, <1>17, <1>18
    DEF Next, PeerStep, NetworkStep, Fault, PeerControllerStep
<1> QED
  BY <1>19

-----------------------------------------------------------------------------
(* The theorems.                                                           *)

(* The inductive invariant: each network never deleted only ever grants,   *)
(* and everything the peer controller holds was granted.                   *)
THEOREM StatusesAreGranted == Spec => [](RecordInv /\ GrantInv)
<1>1. Init => RecordInv /\ GrantInv
  <2> SUFFICES ASSUME Init PROVE RecordInv /\ GrantInv
    OBVIOUS
  <2>1. RecordInv
    <3>1. /\ networks = [n \in NetworkNames |-> NoNetwork(0)] /\ cachedNetworks = networks
          /\ networkEvents = <<>> /\ nr.pc = "idle"
      BY DEF Init, ClusterInit, NetworkControllerInit, NetworkIdle
    <3> QED
      BY <3>1 DEF RecordInv, NoNetwork, OneEach
  <2>2. /\ \A p \in PeerNames : /\ peers[p].status = NoStatus
                                /\ cachedPeers[p].status = NoStatus
                                /\ pr.listed[p].status = NoStatus
        /\ peerEvents = <<>> /\ pr.pc = "idle" /\ pr.todo = {}
    BY DEF Init, ClusterInit, PeerControllerInit, PeerIdle, NoPeer
  <2>3. GrantInv
    BY <2>2, NoStatusGranted DEF GrantInv, CopiesGranted, ReconcileCases, Granted
  <2> QED
    BY <2>1, <2>3
<1>2. TypeInv /\ PeerInv /\ NetworkInv /\ RecordInv /\ GrantInv /\ [Next]_vars
        => RecordInv' /\ GrantInv'
  <2> SUFFICES ASSUME TypeInv, PeerInv, NetworkInv, RecordInv, GrantInv, [Next]_vars
               PROVE  RecordInv' /\ GrantInv'
    OBVIOUS
  <2>1. RecordInv'
    BY RecordStep
  <2>2. ReconcileCases'
    BY CasesStep DEF GrantInv
  <2>3. CopiesGranted'
    BY CopiesStep, ReconcileStep DEF CopiesGranted, Granted
  <2> QED
    BY <2>1, <2>2, <2>3 DEF GrantInv
<1> QED
  BY <1>1, <1>2, TypeInvariant, CopiesAreCoherent, PTL DEF Spec

(* A peer's address is the only one its network has on record for it, for  *)
(* any number of peers, networks, rules, faults and restarts: the peer and *)
(* network controllers, which never talk to each other, cannot disagree.   *)
THEOREM AddressesAllocated == Spec => []AddressIsAllocated
<1>1. TypeInv /\ RecordInv /\ GrantInv => AddressIsAllocated
  <2> SUFFICES ASSUME TypeInv, RecordInv, GrantInv, NEW p \in PeerNames,
                      peers[p].status.address # None,
                      peers[p].status.network \notin deletedNetworks
               PROVE  LET n == peers[p].status.network
                      IN  /\ n # None
                          /\ [name |-> p, address |-> peers[p].status.address]
                               \in networks[n].allocations
                          /\ \A alloc \in networks[n].allocations :
                               alloc.name = p => alloc.address = peers[p].status.address
    BY DEF AddressIsAllocated
  <2> DEFINE n == peers[p].status.network
             mine == [name |-> p, address |-> peers[p].status.address]
  <2>1. n \in NetworkNames \cup {None}
    BY PeerFields, PeerStatusFields DEF TypeInv, TypeOK, ClusterTypeOK
  <2>2. n # None /\ mine \in networks[n].allocations
    BY DEF GrantInv, CopiesGranted, Granted, GrantedIn
  <2>3. OneEach(networks[n].allocations)
    BY <2>1, <2>2 DEF RecordInv
  <2>4. \A alloc \in networks[n].allocations : alloc.name = p => alloc = mine
    BY <2>2, <2>3 DEF OneEach
  <2> QED
    BY <2>2, <2>4
<1> QED
  BY <1>1, TypeInvariant, StatusesAreGranted, PTL

(* Every entry of every peer's configuration routes to an address that is  *)
(* on record, in the peer's network, for the neighbour the entry is for.   *)
THEOREM ConfigurationsAllocated == Spec => []ConfigurationIsAllocated
<1>1. GrantInv => ConfigurationIsAllocated
  BY DEF GrantInv, CopiesGranted, Granted, GrantedIn, ConfigurationIsAllocated
<1> QED
  BY <1>1, StatusesAreGranted, PTL
=============================================================================
