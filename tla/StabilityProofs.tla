-------------------------- MODULE StabilityProofs --------------------------
(***************************************************************************)
(* The proofs that what the control plane has once given out it never      *)
(* takes back: a live peer keeps its network and address, a live network   *)
(* its allocations.                                                        *)
(*                                                                         *)
(* Both controllers write statuses they computed from copies. The argument *)
(* is that every copy anywhere (in a cache, in a watch event, in a         *)
(* Reconcile under way) is the stored object itself as long as it has its  *)
(* resourceVersion. A status update that is accepted was therefore         *)
(* computed from the stored object, and a Reconcile only adds to the       *)
(* status it started from.                                                 *)
(***************************************************************************)
EXTENDS TypeProofs

Coherent(copy, object) ==
  copy.rv <= object.rv /\ (copy.rv = object.rv => copy = object)

PeerCopiesCoherent ==
  /\ \A p \in PeerNames : Coherent(cachedPeers[p], peers[p])
  /\ \A i \in 1..Len(peerEvents) :
       Coherent(peerEvents[i].object, peers[peerEvents[i].name])
  /\ pr.pc # "idle" => Coherent(pr.instance, peers[pr.name])

NetworkCopiesCoherent ==
  /\ \A n \in NetworkNames : Coherent(cachedNetworks[n], networks[n])
  /\ \A i \in 1..Len(networkEvents) :
       Coherent(networkEvents[i].object, networks[networkEvents[i].name])
  /\ nr.pc # "idle" => Coherent(nr.instance, networks[nr.name])

(* A Reconcile only adds to the status it read.                            *)
PeerReconcileKeeps ==
  pr.pc # "idle" =>
    /\ StatusKept(pr.instance.status, pr.status)
    /\ pr.pc = "network" => pr.instance.status.network = None
    /\ pr.pc = "address" => pr.instance.status.address = None

NetworkReconcileKeeps ==
  nr.pc = "update" => nr.instance.allocations \subseteq nr.allocations

PeerInv == PeerCopiesCoherent /\ PeerReconcileKeeps

NetworkInv == NetworkCopiesCoherent /\ NetworkReconcileKeeps

-----------------------------------------------------------------------------
(* A copy stays coherent when the object is written, as the object then    *)
(* has a version that no copy has.                                         *)
LEMMA CoherentAfterWrite ==
  ASSUME NEW copy, NEW old, NEW new, copy.rv \in Nat, old.rv \in Nat,
         new.rv = old.rv + 1, Coherent(copy, old)
  PROVE  Coherent(copy, new)
BY DEF Coherent

LEMMA CoherentSelf == ASSUME NEW o, o.rv \in Nat PROVE Coherent(o, o)
BY DEF Coherent

(* A write of the next version of a peer.                                  *)
LEMMA PeerWriteInv ==
  ASSUME TypeInv, PeerInv, NEW p \in PeerNames, NEW o \in Peer,
         o.rv = peers[p].rv + 1, WritePeer(p, o),
         cachedPeers' = cachedPeers, pr' = pr \/ pr' = PeerIdle
  PROVE  PeerInv'
<1> USE DEF TypeInv, TypeOK, ClusterTypeOK
<1>1. /\ peers' = [peers EXCEPT ![p] = o]
      /\ peerEvents' = Append(peerEvents, [name |-> p, object |-> o])
  BY DEF WritePeer
<1>2. \A q \in PeerNames : \A c \in Peer : Coherent(c, peers[q]) => Coherent(c, peers'[q])
  <2> SUFFICES ASSUME NEW q \in PeerNames, NEW c \in Peer, Coherent(c, peers[q])
               PROVE  Coherent(c, peers'[q])
    OBVIOUS
  <2>1. c.rv \in Nat /\ peers[q].rv \in Nat
    BY PeerFields
  <2>2. CASE q = p
    BY <1>1, <2>1, <2>2, CoherentAfterWrite
  <2>3. CASE q # p
    BY <1>1, <2>3
  <2> QED
    BY <2>2, <2>3
<1>3. \A q \in PeerNames : Coherent(cachedPeers'[q], peers'[q])
  BY <1>2 DEF PeerInv, PeerCopiesCoherent
<1>4. ASSUME NEW i \in 1..Len(peerEvents')
      PROVE  Coherent(peerEvents'[i].object, peers'[peerEvents'[i].name])
  <2>1. CASE i \in 1..Len(peerEvents)
    <3>1. peerEvents'[i] = peerEvents[i] /\ peerEvents[i] \in PeerEvent
      BY <1>1, <2>1
    <3>2. peerEvents[i].name \in PeerNames /\ peerEvents[i].object \in Peer
      BY <3>1 DEF PeerEvent
    <3>3. Coherent(peerEvents[i].object, peers[peerEvents[i].name])
      BY <2>1 DEF PeerInv, PeerCopiesCoherent
    <3> QED
      BY <1>2, <3>1, <3>2, <3>3
  <2>2. CASE i = Len(peerEvents) + 1
    <3>1. peerEvents'[i] = [name |-> p, object |-> o]
      BY <1>1, <2>2
    <3>2. Coherent(o, o)
      BY PeerFields, CoherentSelf
    <3> QED
      BY <1>1, <3>1, <3>2
  <2> QED
    BY <1>1, <1>4, <2>1, <2>2
<1>5. pr'.pc # "idle" => Coherent(pr'.instance, peers'[pr'.name])
  <2>1. PeerIdle.pc = "idle"
    BY DEF PeerIdle
  <2>2. pr.pc # "idle" => pr.name \in PeerNames /\ pr.instance \in Peer
    BY PeerReconcileFields DEF PeerControllerTypeOK
  <2> QED
    BY <1>2, <2>1, <2>2 DEF PeerInv, PeerCopiesCoherent
<1>6. PeerReconcileKeeps'
  BY DEF PeerInv, PeerReconcileKeeps, PeerIdle
<1> QED
  BY <1>3, <1>4, <1>5, <1>6 DEF PeerInv, PeerCopiesCoherent

LEMMA NetworkWriteInv ==
  ASSUME TypeInv, NetworkInv, NEW n \in NetworkNames, NEW o \in Network,
         o.rv = networks[n].rv + 1, WriteNetwork(n, o),
         cachedNetworks' = cachedNetworks, nr' = nr \/ nr' = NetworkIdle
  PROVE  NetworkInv'
<1> USE DEF TypeInv, TypeOK, ClusterTypeOK
<1>1. /\ networks' = [networks EXCEPT ![n] = o]
      /\ networkEvents' = Append(networkEvents, [name |-> n, object |-> o])
  BY DEF WriteNetwork
<1>2. \A m \in NetworkNames : \A c \in Network :
        Coherent(c, networks[m]) => Coherent(c, networks'[m])
  <2> SUFFICES ASSUME NEW m \in NetworkNames, NEW c \in Network, Coherent(c, networks[m])
               PROVE  Coherent(c, networks'[m])
    OBVIOUS
  <2>1. c.rv \in Nat /\ networks[m].rv \in Nat
    BY NetworkFields
  <2>2. CASE m = n
    BY <1>1, <2>1, <2>2, CoherentAfterWrite
  <2>3. CASE m # n
    BY <1>1, <2>3
  <2> QED
    BY <2>2, <2>3
<1>3. \A m \in NetworkNames : Coherent(cachedNetworks'[m], networks'[m])
  BY <1>2 DEF NetworkInv, NetworkCopiesCoherent
<1>4. ASSUME NEW i \in 1..Len(networkEvents')
      PROVE  Coherent(networkEvents'[i].object, networks'[networkEvents'[i].name])
  <2>1. CASE i \in 1..Len(networkEvents)
    <3>1. networkEvents'[i] = networkEvents[i] /\ networkEvents[i] \in NetworkEvent
      BY <1>1, <2>1
    <3>2. networkEvents[i].name \in NetworkNames /\ networkEvents[i].object \in Network
      BY <3>1 DEF NetworkEvent
    <3>3. Coherent(networkEvents[i].object, networks[networkEvents[i].name])
      BY <2>1 DEF NetworkInv, NetworkCopiesCoherent
    <3> QED
      BY <1>2, <3>1, <3>2, <3>3
  <2>2. CASE i = Len(networkEvents) + 1
    <3>1. networkEvents'[i] = [name |-> n, object |-> o]
      BY <1>1, <2>2
    <3>2. Coherent(o, o)
      BY NetworkFields, CoherentSelf
    <3> QED
      BY <1>1, <3>1, <3>2
  <2> QED
    BY <1>1, <1>4, <2>1, <2>2
<1>5. nr'.pc # "idle" => Coherent(nr'.instance, networks'[nr'.name])
  <2>1. NetworkIdle.pc = "idle"
    BY DEF NetworkIdle
  <2>2. nr.pc # "idle" => nr.name \in NetworkNames /\ nr.instance \in Network
    BY DEF NetworkControllerTypeOK, NetworkReconcile
  <2> QED
    BY <1>2, <2>1, <2>2 DEF NetworkInv, NetworkCopiesCoherent
<1>6. NetworkReconcileKeeps'
  BY DEF NetworkInv, NetworkReconcileKeeps, NetworkIdle
<1> QED
  BY <1>3, <1>4, <1>5, <1>6 DEF NetworkInv, NetworkCopiesCoherent

(* The status updates of the controllers write the next version; that they *)
(* were accepted means that the copy they started from is the object.      *)
LEMMA PeerStatusWrite ==
  ASSUME TypeInv, PeerInv, PeerUpdate \/ PeerUpdateReplyLost
  PROVE  /\ pr.name \in PeerNames
         /\ pr.instance = peers[pr.name]
         /\ StatusKept(peers[pr.name].status, pr.status)
         /\ \E o \in Peer : /\ WritePeer(pr.name, o)
                            /\ o.rv = peers[pr.name].rv + 1
                            /\ o.status = pr.status
                            /\ o.live = peers[pr.name].live
                            /\ o.spec = peers[pr.name].spec
<1> USE DEF TypeInv, TypeOK, ClusterTypeOK, PeerControllerTypeOK
<1>1. /\ pr.pc = "update" /\ PeerUpdateAccepted(pr.name, pr.instance)
      /\ WritePeerStatus(pr.name, pr.status)
  BY DEF PeerUpdate, PeerUpdateReplyLost
<1>2. pr.name \in PeerNames /\ pr.status \in PeerStatus
  BY <1>1, PeerReconcileFields
<1>3. pr.instance = peers[pr.name]
  BY <1>1 DEF PeerUpdateAccepted, PeerInv, PeerCopiesCoherent, Coherent
<1>4. StatusKept(pr.instance.status, pr.status)
  BY <1>1 DEF PeerInv, PeerReconcileKeeps
<1> DEFINE o == [peers[pr.name] EXCEPT !.rv = peers[pr.name].rv + 1, !.status = pr.status]
<1>5. peers[pr.name] \in Peer /\ peers[pr.name].rv + 1 \in Nat
  BY <1>2, PeerFields
<1>6. o \in Peer
  BY <1>2, <1>5, PeerExcept
<1>7. /\ o.rv = peers[pr.name].rv + 1 /\ o.status = pr.status
      /\ o.live = peers[pr.name].live /\ o.spec = peers[pr.name].spec
  BY <1>5 DEF Peer
<1>8. WritePeer(pr.name, o)
  BY <1>1 DEF WritePeerStatus
<1> HIDE DEF o
<1> QED
  BY <1>2, <1>3, <1>4, <1>6, <1>7, <1>8

LEMMA NetworkStatusWrite ==
  ASSUME TypeInv, NetworkInv, NetworkUpdate \/ NetworkUpdateReplyLost
  PROVE  /\ nr.name \in NetworkNames
         /\ nr.instance = networks[nr.name]
         /\ networks[nr.name].live
         /\ networks[nr.name].allocations \subseteq nr.allocations
         /\ \E o \in Network : /\ WriteNetwork(nr.name, o)
                               /\ o.rv = networks[nr.name].rv + 1
                               /\ o.live
                               /\ o.allocations = nr.allocations
<1> USE DEF TypeInv, TypeOK, ClusterTypeOK, NetworkControllerTypeOK
<1>1. /\ nr.pc = "update" /\ NetworkUpdateAccepted(nr.name, nr.instance)
      /\ WriteNetworkStatus(nr.name, nr.allocations)
  BY DEF NetworkUpdate, NetworkUpdateReplyLost
<1>2. nr.name \in NetworkNames /\ nr.allocations \in SUBSET IPAssignment
  BY <1>1 DEF NetworkReconcile
<1>3. nr.instance = networks[nr.name] /\ networks[nr.name].live
  BY <1>1 DEF NetworkUpdateAccepted, NetworkInv, NetworkCopiesCoherent, Coherent
<1>4. nr.instance.allocations \subseteq nr.allocations
  BY <1>1 DEF NetworkInv, NetworkReconcileKeeps
<1> DEFINE o == [networks[nr.name] EXCEPT !.rv = networks[nr.name].rv + 1,
                                          !.allocations = nr.allocations]
<1>5. networks[nr.name] \in Network /\ networks[nr.name].rv + 1 \in Nat
  BY <1>2, NetworkFields
<1>6. o \in Network
  BY <1>2, <1>5, NetworkExcept
<1>7. /\ o.rv = networks[nr.name].rv + 1 /\ o.live = networks[nr.name].live
      /\ o.allocations = nr.allocations
  BY <1>5 DEF Network
<1>8. WriteNetwork(nr.name, o)
  BY <1>1 DEF WriteNetworkStatus
<1> HIDE DEF o
<1> QED
  BY <1>2, <1>3, <1>4, <1>6, <1>7, <1>8

-----------------------------------------------------------------------------
(* The reads of a Reconcile keep the copy it started from, and change the  *)
(* status only where the copy has none.                                    *)
LEMMA PeerReadInv ==
  ASSUME TypeInv, PeerInv, UNCHANGED <<peers, peerEvents, cachedPeers>>,
         PeerControllerStep \/ PeerControllerFault
  PROVE  PeerInv'
<1> USE DEF TypeInv, TypeOK, ClusterTypeOK, PeerControllerTypeOK
<1>1. /\ \A p \in PeerNames : Coherent(cachedPeers'[p], peers'[p])
      /\ \A i \in 1..Len(peerEvents') :
           Coherent(peerEvents'[i].object, peers'[peerEvents'[i].name])
  BY DEF PeerInv, PeerCopiesCoherent
<1>2. /\ pr \in PeerReconcile /\ pr.status \in PeerStatus
      /\ pr.pc # "idle" => pr.name \in PeerNames
  BY PeerReconcileFields
<1>3. ASSUME pr' = PeerIdle PROVE PeerInv'
  BY <1>1, <1>3 DEF PeerInv, PeerCopiesCoherent, PeerReconcileKeeps, PeerIdle
<1>4. ASSUME pr.pc # "idle", pr'.name = pr.name, pr'.instance = pr.instance,
             pr'.pc \notin {"network", "address"},
             StatusKept(pr.instance.status, pr'.status)
      PROVE  PeerInv'
  BY <1>1, <1>4 DEF PeerInv, PeerCopiesCoherent, PeerReconcileKeeps
<1>5. ASSUME NEW p \in PeerNames, PeerGet(p) PROVE PeerInv'
  <2> DEFINE instance == cachedPeers[p]
             case == IF instance.status.network = None THEN "network"
                     ELSE IF instance.status.address = None THEN "address"
                     ELSE "config"
             new == [PeerIdle EXCEPT !.pc = case, !.name = p, !.instance = instance,
                                     !.status = instance.status]
  <2>1. pr' = new \/ pr' = PeerIdle
    BY <1>5 DEF PeerGet
  <2>2. /\ new.pc = case /\ new.name = p /\ new.instance = instance
        /\ new.status = instance.status
    <3> HIDE DEF case, instance
    <3> QED
      BY DEF PeerIdle
  <2>3. /\ case = "network" => instance.status.network = None
        /\ case = "address" => instance.status.address = None
    OBVIOUS
  <2>4. Coherent(instance, peers[p]) /\ StatusKept(instance.status, instance.status)
    BY DEF PeerInv, PeerCopiesCoherent, StatusKept
  <2> HIDE DEF new, case, instance
  <2>5. CASE pr' = new
    BY <1>1, <2>2, <2>3, <2>4, <2>5 DEF PeerInv, PeerCopiesCoherent, PeerReconcileKeeps
  <2> QED
    BY <1>3, <2>1, <2>5
<1>6. CASE PeerAssignNetwork
  <2>1. pr.pc = "network" /\ pr.instance.status.network = None
        /\ StatusKept(pr.instance.status, pr.status)
    BY <1>6 DEF PeerAssignNetwork, PeerRead, PeerInv, PeerReconcileKeeps
  <2>2. ASSUME NEW n, pr' = [pr EXCEPT !.pc = "update",
                                       !.status = [pr.status EXCEPT !.network = n]]
        PROVE  PeerInv'
    <3>1. /\ pr'.name = pr.name /\ pr'.instance = pr.instance /\ pr'.pc = "update"
          /\ pr'.status = [pr.status EXCEPT !.network = n]
      BY <1>2, <2>2 DEF PeerReconcile
    <3>2. pr'.status.address = pr.status.address
      BY <1>2, <3>1 DEF PeerStatus
    <3> QED
      BY <1>4, <2>1, <3>1, <3>2 DEF StatusKept
  <2> QED
    BY <1>3, <1>6, <2>2 DEF PeerAssignNetwork
<1>7. CASE PeerAssignAddress
  <2>1. pr.pc = "address" /\ pr.instance.status.address = None
        /\ StatusKept(pr.instance.status, pr.status)
    BY <1>7 DEF PeerAssignAddress, PeerRead, PeerInv, PeerReconcileKeeps
  <2>2. ASSUME NEW a, pr' = [pr EXCEPT !.pc = "update",
                                       !.status = [pr.status EXCEPT !.address = a]]
        PROVE  PeerInv'
    <3>1. /\ pr'.name = pr.name /\ pr'.instance = pr.instance /\ pr'.pc = "update"
          /\ pr'.status = [pr.status EXCEPT !.address = a]
      BY <1>2, <2>2 DEF PeerReconcile
    <3>2. pr'.status.network = pr.status.network
      BY <1>2, <3>1 DEF PeerStatus
    <3> QED
      BY <1>4, <2>1, <3>1, <3>2 DEF StatusKept
  <2> QED
    BY <1>3, <1>7, <2>2 DEF PeerAssignAddress
<1>8. CASE PeerGetNetwork
  <2>1. pr.pc = "config" /\ StatusKept(pr.instance.status, pr.status)
    BY <1>8 DEF PeerGetNetwork, PeerRead, PeerInv, PeerReconcileKeeps
  <2>2. CASE pr' = [pr EXCEPT !.pc = "list"]
    <3>1. /\ pr'.name = pr.name /\ pr'.instance = pr.instance /\ pr'.pc = "list"
          /\ pr'.status = pr.status
      BY <1>2, <2>2 DEF PeerReconcile
    <3> QED
      BY <1>4, <2>1, <3>1
  <2> QED
    BY <1>3, <1>8, <2>2 DEF PeerGetNetwork
<1>9. CASE PeerList
  <2>1. pr.pc = "list" /\ StatusKept(pr.instance.status, pr.status)
    BY <1>9 DEF PeerList, PeerRead, PeerInv, PeerReconcileKeeps
  <2>2. /\ pr'.name = pr.name /\ pr'.instance = pr.instance /\ pr'.pc = "routes"
        /\ pr'.status = [pr.status EXCEPT !.peers = NoConfigurations]
    BY <1>2, <1>9 DEF PeerList, PeerReconcile
  <2>3. pr'.status.network = pr.status.network /\ pr'.status.address = pr.status.address
    BY <1>2, <2>2 DEF PeerStatus
  <2> QED
    BY <1>4, <2>1, <2>2, <2>3 DEF StatusKept
<1>10. ASSUME NEW q \in PeerNames, PeerConfigure(q) PROVE PeerInv'
  <2>1. pr.pc = "routes" /\ StatusKept(pr.instance.status, pr.status)
    BY <1>10 DEF PeerConfigure, PeerRead, PeerInv, PeerReconcileKeeps
  <2>2. PICK cfgs : pr' = [pr EXCEPT !.todo = pr.todo \ {q},
                                     !.status = [pr.status EXCEPT !.peers = cfgs]]
    BY <1>10 DEF PeerConfigure
  <2>3. /\ pr'.name = pr.name /\ pr'.instance = pr.instance /\ pr'.pc = pr.pc
        /\ pr'.status = [pr.status EXCEPT !.peers = cfgs]
    BY <1>2, <2>2 DEF PeerReconcile
  <2>4. pr'.status.network = pr.status.network /\ pr'.status.address = pr.status.address
    BY <1>2, <2>3 DEF PeerStatus
  <2> QED
    BY <1>4, <2>1, <2>3, <2>4 DEF StatusKept
<1>11. CASE PeerConfigured
  <2>1. pr.pc = "routes" /\ StatusKept(pr.instance.status, pr.status)
    BY <1>11 DEF PeerConfigured, PeerRead, PeerInv, PeerReconcileKeeps
  <2>2. CASE pr' = [PeerIdle EXCEPT !.pc = "update", !.name = pr.name,
                                    !.instance = pr.instance, !.status = pr.status]
    <3>1. /\ pr'.name = pr.name /\ pr'.instance = pr.instance /\ pr'.pc = "update"
          /\ pr'.status = pr.status
      BY <2>2 DEF PeerIdle
    <3> QED
      BY <1>4, <2>1, <3>1
  <2> QED
    BY <1>3, <1>11, <2>2 DEF PeerConfigured
<1>12. CASE PeerListFails \/ PeerUpdate \/ PeerUpdateConflict \/ PeerControllerFault
  BY <1>3, <1>12 DEF PeerListFails, PeerUpdate, PeerUpdateConflict, PeerControllerFault,
                     PeerError, PeerUpdateReplyLost
<1> QED
  BY <1>5, <1>6, <1>7, <1>8, <1>9, <1>10, <1>11, <1>12 DEF PeerControllerStep

LEMMA NetworkReadInv ==
  ASSUME TypeInv, NetworkInv, UNCHANGED <<networks, networkEvents, cachedNetworks>>,
         NetworkControllerStep \/ NetworkControllerFault
  PROVE  NetworkInv'
<1> USE DEF TypeInv, TypeOK, ClusterTypeOK, NetworkControllerTypeOK
<1>1. /\ \A n \in NetworkNames : Coherent(cachedNetworks'[n], networks'[n])
      /\ \A i \in 1..Len(networkEvents') :
           Coherent(networkEvents'[i].object, networks'[networkEvents'[i].name])
  BY DEF NetworkInv, NetworkCopiesCoherent
<1>2. ASSUME nr' = NetworkIdle PROVE NetworkInv'
  BY <1>1, <1>2 DEF NetworkInv, NetworkCopiesCoherent, NetworkReconcileKeeps, NetworkIdle
<1>3. ASSUME NEW n \in NetworkNames, NetworkGet(n) PROVE NetworkInv'
  <2>1. CASE nr' = [NetworkIdle EXCEPT !.pc = "list", !.name = n,
                                       !.instance = cachedNetworks[n]]
    <3>1. nr'.pc = "list" /\ nr'.name = n /\ nr'.instance = cachedNetworks[n]
      BY <2>1 DEF NetworkIdle
    <3> QED
      BY <1>1, <3>1 DEF NetworkInv, NetworkCopiesCoherent, NetworkReconcileKeeps
  <2> QED
    BY <1>2, <1>3, <2>1 DEF NetworkGet
<1>4. CASE NetworkList
  <2> DEFINE allocations == AllocateAll(nr.name, nr.instance, cachedPeers)
  <2>1. nr.instance.allocations \subseteq allocations
    BY DEF AllocateAll
  <2>2. CASE nr' = [nr EXCEPT !.pc = "update", !.allocations = allocations]
    <3>1. /\ nr'.pc = "update" /\ nr'.name = nr.name /\ nr'.instance = nr.instance
          /\ nr'.allocations = allocations
      BY <2>2 DEF NetworkReconcile
    <3>2. nr.pc # "idle"
      BY <1>4 DEF NetworkList
    <3> QED
      BY <1>1, <2>1, <3>1, <3>2 DEF NetworkInv, NetworkCopiesCoherent, NetworkReconcileKeeps
  <2> QED
    BY <1>2, <1>4, <2>2 DEF NetworkList
<1>5. CASE NetworkUpdate \/ NetworkUpdateConflict \/ NetworkControllerFault
  BY <1>2, <1>5 DEF NetworkUpdate, NetworkUpdateConflict, NetworkControllerFault,
                    NetworkError, NetworkUpdateReplyLost
<1> QED
  BY <1>3, <1>4, <1>5 DEF NetworkControllerStep

(* A delivered event hands its copy to the cache; a restart refills the    *)
(* caches from the server.                                                 *)
LEMMA DeliverPeerInv ==
  ASSUME TypeInv, PeerInv, DeliverPeerEvent
  PROVE  PeerInv'
<1> USE DEF TypeInv, TypeOK, ClusterTypeOK
<1> DEFINE e == Head(peerEvents)
<1>1. peers' = peers /\ pr' = pr
  BY DEF DeliverPeerEvent, informerUnchanged, serverVars
<1>2. e = peerEvents[1] /\ 1 \in 1..Len(peerEvents)
  BY HeadTailProperties DEF DeliverPeerEvent
<1>3. Coherent(e.object, peers[e.name])
  BY <1>2 DEF PeerInv, PeerCopiesCoherent
<1>4. cachedPeers' = [cachedPeers EXCEPT ![e.name] = e.object]
  BY DEF DeliverPeerEvent
<1>5. \A p \in PeerNames : Coherent(cachedPeers'[p], peers'[p])
  <2> HIDE DEF e
  <2> QED
    BY <1>1, <1>3, <1>4 DEF PeerInv, PeerCopiesCoherent
<1>6. /\ Len(peerEvents') = Len(peerEvents) - 1
      /\ \A i \in 1..Len(peerEvents') : peerEvents'[i] = peerEvents[i + 1]
  BY HeadTailProperties DEF DeliverPeerEvent
<1>7. ASSUME NEW i \in 1..Len(peerEvents')
      PROVE  Coherent(peerEvents'[i].object, peers'[peerEvents'[i].name])
  <2>1. i + 1 \in 1..Len(peerEvents)
    BY <1>6, LenProperties
  <2>2. Coherent(peerEvents[i + 1].object, peers[peerEvents[i + 1].name])
    BY <2>1 DEF PeerInv, PeerCopiesCoherent
  <2> QED
    BY <1>1, <1>6, <2>2
<1> QED
  BY <1>1, <1>5, <1>7 DEF PeerInv, PeerCopiesCoherent, PeerReconcileKeeps

LEMMA DeliverNetworkInv ==
  ASSUME TypeInv, NetworkInv, DeliverNetworkEvent
  PROVE  NetworkInv'
<1> USE DEF TypeInv, TypeOK, ClusterTypeOK
<1> DEFINE e == Head(networkEvents)
<1>1. networks' = networks /\ nr' = nr
  BY DEF DeliverNetworkEvent, informerUnchanged, serverVars
<1>2. e = networkEvents[1] /\ 1 \in 1..Len(networkEvents)
  BY HeadTailProperties DEF DeliverNetworkEvent
<1>3. Coherent(e.object, networks[e.name])
  BY <1>2 DEF NetworkInv, NetworkCopiesCoherent
<1>4. cachedNetworks' = [cachedNetworks EXCEPT ![e.name] = e.object]
  BY DEF DeliverNetworkEvent
<1>5. \A n \in NetworkNames : Coherent(cachedNetworks'[n], networks'[n])
  <2> HIDE DEF e
  <2> QED
    BY <1>1, <1>3, <1>4 DEF NetworkInv, NetworkCopiesCoherent
<1>6. /\ Len(networkEvents') = Len(networkEvents) - 1
      /\ \A i \in 1..Len(networkEvents') : networkEvents'[i] = networkEvents[i + 1]
  BY HeadTailProperties DEF DeliverNetworkEvent
<1>7. ASSUME NEW i \in 1..Len(networkEvents')
      PROVE  Coherent(networkEvents'[i].object, networks'[networkEvents'[i].name])
  <2>1. i + 1 \in 1..Len(networkEvents)
    BY <1>6, LenProperties
  <2>2. Coherent(networkEvents[i + 1].object, networks[networkEvents[i + 1].name])
    BY <2>1 DEF NetworkInv, NetworkCopiesCoherent
  <2> QED
    BY <1>1, <1>6, <2>2
<1> QED
  BY <1>1, <1>5, <1>7 DEF NetworkInv, NetworkCopiesCoherent, NetworkReconcileKeeps

LEMMA RestartInv ==
  ASSUME TypeInv, Restart
  PROVE  PeerInv' /\ NetworkInv'
<1> USE DEF TypeInv, TypeOK, ClusterTypeOK
<1>1. /\ cachedPeers' = peers' /\ peerEvents' = <<>> /\ pr' = PeerIdle
      /\ cachedNetworks' = networks' /\ networkEvents' = <<>> /\ nr' = NetworkIdle
      /\ peers' = peers /\ networks' = networks
  BY DEF Restart, serverVars
<1>2. \A p \in PeerNames : Coherent(peers[p], peers[p])
  BY PeerFields, CoherentSelf
<1>3. \A n \in NetworkNames : Coherent(networks[n], networks[n])
  BY NetworkFields, CoherentSelf
<1>4. PeerInv'
  BY <1>1, <1>2 DEF PeerInv, PeerCopiesCoherent, PeerReconcileKeeps, PeerIdle
<1>5. NetworkInv'
  BY <1>1, <1>3 DEF NetworkInv, NetworkCopiesCoherent, NetworkReconcileKeeps, NetworkIdle
<1> QED
  BY <1>4, <1>5

(* Only users and the status updates of the controllers write objects.     *)
LEMMA OnlyPeerWriters ==
  ASSUME Next, peers' # peers
  PROVE  \/ \E p \in PeerNames : CreatePeer(p) \/ EditPeer(p) \/ DeletePeer(p)
         \/ PeerUpdate \/ PeerUpdateReplyLost
<1> USE DEF serverVars
<1>1. CASE UserStep
  BY <1>1 DEF UserStep, CreateNetwork, EditNetwork, DeleteNetwork, ApplyRoute, DeleteRoute
<1>2. CASE PeerControllerStep \/ PeerControllerFault
  BY <1>2 DEF PeerControllerStep, PeerControllerFault, PeerGet, PeerAssignNetwork,
              PeerAssignAddress, PeerGetNetwork, PeerList, PeerListFails, PeerConfigure,
              PeerConfigured, PeerUpdateConflict, PeerError, PeerRead
<1>3. CASE NetworkControllerStep \/ NetworkControllerFault
  BY <1>3 DEF NetworkControllerStep, NetworkControllerFault, NetworkGet, NetworkList,
              NetworkUpdate, NetworkUpdateConflict, NetworkError, NetworkUpdateReplyLost
<1>4. CASE \/ DeliverPeerEvent \/ DeliverNetworkEvent \/ DeliverRouteEvent
           \/ ResyncPeers \/ ResyncNetworks \/ ResyncRoutes \/ Restart
  BY <1>4 DEF DeliverPeerEvent, DeliverNetworkEvent, DeliverRouteEvent, ResyncPeers,
              ResyncNetworks, ResyncRoutes, Restart, informerUnchanged
<1> QED
  BY <1>1, <1>2, <1>3, <1>4 DEF Next, PeerStep, NetworkStep, Fault

LEMMA OnlyNetworkWriters ==
  ASSUME Next, networks' # networks \/ deletedNetworks' # deletedNetworks
  PROVE  \/ \E n \in NetworkNames : CreateNetwork(n) \/ EditNetwork(n) \/ DeleteNetwork(n)
         \/ NetworkUpdate \/ NetworkUpdateReplyLost
<1> USE DEF serverVars
<1>1. CASE UserStep
  BY <1>1 DEF UserStep, CreatePeer, EditPeer, DeletePeer, ApplyRoute, DeleteRoute
<1>2. CASE (PeerControllerStep \/ PeerControllerFault) /\ UNCHANGED deletedNetworks
  BY <1>2 DEF PeerControllerStep, PeerControllerFault, PeerGet, PeerAssignNetwork,
              PeerAssignAddress, PeerGetNetwork, PeerList, PeerListFails, PeerConfigure,
              PeerConfigured, PeerUpdate, PeerUpdateConflict, PeerError,
              PeerUpdateReplyLost, PeerRead
<1>3. CASE (NetworkControllerStep \/ NetworkControllerFault) /\ UNCHANGED deletedNetworks
  BY <1>3 DEF NetworkControllerStep, NetworkControllerFault, NetworkGet, NetworkList,
              NetworkUpdateConflict, NetworkError
<1>4. CASE \/ DeliverPeerEvent \/ DeliverNetworkEvent \/ DeliverRouteEvent
           \/ ResyncPeers \/ ResyncNetworks \/ ResyncRoutes \/ Restart
  BY <1>4 DEF DeliverPeerEvent, DeliverNetworkEvent, DeliverRouteEvent, ResyncPeers,
              ResyncNetworks, ResyncRoutes, Restart, informerUnchanged
<1> QED
  BY <1>1, <1>2, <1>3, <1>4 DEF Next, PeerStep, NetworkStep, Fault

-----------------------------------------------------------------------------
(* The theorems.                                                           *)

LEMMA PeerInvStep ==
  ASSUME TypeInv, PeerInv, [Next]_vars
  PROVE  PeerInv'
<1> USE DEF TypeInv, TypeOK, ClusterTypeOK
<1>1. ASSUME UNCHANGED <<peers, peerEvents, cachedPeers, pr>> PROVE PeerInv'
  BY <1>1 DEF PeerInv, PeerCopiesCoherent, PeerReconcileKeeps
<1>2. CASE UserStep
  <2>1. ASSUME NEW p \in PeerNames, CreatePeer(p) \/ EditPeer(p) \/ DeletePeer(p)
        PROVE  PeerInv'
    <3>1. cachedPeers' = cachedPeers /\ pr' = pr
      BY <2>1 DEF CreatePeer, EditPeer, DeletePeer, UserEdits, cacheVars, controllerVars,
                  peerControllerVars
    <3> QED
      BY <2>1, <3>1, UserPeerWrite, PeerWriteInv
  <2>2. ASSUME NEW n \in NetworkNames, CreateNetwork(n) \/ EditNetwork(n) \/ DeleteNetwork(n)
        PROVE  PeerInv'
    BY <1>1, <2>2 DEF CreateNetwork, EditNetwork, DeleteNetwork, UserEdits, cacheVars,
                      controllerVars, peerControllerVars
  <2>3. ASSUME NEW r \in RouteNames, ApplyRoute(r) \/ DeleteRoute(r)
        PROVE  PeerInv'
    BY <1>1, <2>3 DEF ApplyRoute, DeleteRoute, UserEdits, cacheVars, controllerVars,
                      peerControllerVars
  <2> QED
    BY <1>2, <2>1, <2>2, <2>3 DEF UserStep
<1>3. CASE DeliverPeerEvent
  BY <1>3, DeliverPeerInv
<1>4. CASE DeliverNetworkEvent \/ DeliverRouteEvent \/ ResyncPeers \/ ResyncNetworks
             \/ ResyncRoutes
  BY <1>1, <1>4 DEF DeliverNetworkEvent, DeliverRouteEvent, ResyncPeers, ResyncNetworks,
                    ResyncRoutes, informerUnchanged, serverVars, cacheVars, eventVars
<1>5. CASE PeerControllerStep \/ PeerControllerFault
  <2>1. CASE PeerUpdate \/ PeerUpdateReplyLost
    <3>1. cachedPeers' = cachedPeers /\ pr' = PeerIdle
      BY <2>1 DEF PeerUpdate, PeerUpdateReplyLost, cacheVars
    <3> QED
      BY <2>1, <3>1, PeerStatusWrite, PeerWriteInv
  <2>2. CASE ~ (PeerUpdate \/ PeerUpdateReplyLost)
    <3>1. UNCHANGED <<serverVars, eventVars, cacheVars>>
      BY <1>5, <2>2 DEF PeerControllerStep, PeerControllerFault, PeerGet, PeerAssignNetwork,
             PeerAssignAddress, PeerGetNetwork, PeerList, PeerListFails, PeerConfigure,
             PeerConfigured, PeerUpdateConflict, PeerError, PeerRead
    <3>2. UNCHANGED <<peers, peerEvents, cachedPeers>>
      BY <3>1 DEF serverVars, eventVars, cacheVars
    <3> QED
      BY <1>5, <3>2, PeerReadInv
  <2> QED
    BY <2>1, <2>2
<1>6. CASE /\ NetworkControllerStep \/ NetworkControllerFault
           /\ UNCHANGED peerControllerVars
  BY <1>1, <1>6 DEF NetworkControllerStep, NetworkControllerFault, NetworkGet, NetworkList,
                    NetworkUpdate, NetworkUpdateConflict, NetworkError, NetworkUpdateReplyLost,
                    serverVars, eventVars, cacheVars, peerControllerVars
<1>7. CASE Restart
  BY <1>7, RestartInv
<1>8. CASE UNCHANGED vars
  BY <1>1, <1>8 DEF vars, serverVars, eventVars, cacheVars, controllerVars, peerControllerVars
<1> QED
  BY <1>2, <1>3, <1>4, <1>5, <1>6, <1>7, <1>8 DEF Next, PeerStep, NetworkStep, Fault

LEMMA NetworkInvStep ==
  ASSUME TypeInv, NetworkInv, [Next]_vars
  PROVE  NetworkInv'
<1> USE DEF TypeInv, TypeOK, ClusterTypeOK
<1>1. ASSUME UNCHANGED <<networks, networkEvents, cachedNetworks, nr>> PROVE NetworkInv'
  BY <1>1 DEF NetworkInv, NetworkCopiesCoherent, NetworkReconcileKeeps
<1>2. CASE UserStep
  <2>1. ASSUME NEW n \in NetworkNames, CreateNetwork(n) \/ EditNetwork(n) \/ DeleteNetwork(n)
        PROVE  NetworkInv'
    <3>1. cachedNetworks' = cachedNetworks /\ nr' = nr
      BY <2>1 DEF CreateNetwork, EditNetwork, DeleteNetwork, UserEdits, cacheVars,
                  controllerVars, networkControllerVars
    <3> QED
      BY <2>1, <3>1, UserNetworkWrite, NetworkWriteInv
  <2>2. ASSUME NEW p \in PeerNames, CreatePeer(p) \/ EditPeer(p) \/ DeletePeer(p)
        PROVE  NetworkInv'
    BY <1>1, <2>2 DEF CreatePeer, EditPeer, DeletePeer, UserEdits, cacheVars,
                      controllerVars, networkControllerVars
  <2>3. ASSUME NEW r \in RouteNames, ApplyRoute(r) \/ DeleteRoute(r)
        PROVE  NetworkInv'
    BY <1>1, <2>3 DEF ApplyRoute, DeleteRoute, UserEdits, cacheVars, controllerVars,
                      networkControllerVars
  <2> QED
    BY <1>2, <2>1, <2>2, <2>3 DEF UserStep
<1>3. CASE DeliverNetworkEvent
  BY <1>3, DeliverNetworkInv
<1>4. CASE DeliverPeerEvent \/ DeliverRouteEvent \/ ResyncPeers \/ ResyncNetworks
             \/ ResyncRoutes
  BY <1>1, <1>4 DEF DeliverPeerEvent, DeliverRouteEvent, ResyncPeers, ResyncNetworks,
                    ResyncRoutes, informerUnchanged, serverVars, cacheVars, eventVars
<1>5. CASE NetworkControllerStep \/ NetworkControllerFault
  <2>1. CASE NetworkUpdate \/ NetworkUpdateReplyLost
    <3>1. cachedNetworks' = cachedNetworks /\ nr' = NetworkIdle
      BY <2>1 DEF NetworkUpdate, NetworkUpdateReplyLost, cacheVars
    <3> QED
      BY <2>1, <3>1, NetworkStatusWrite, NetworkWriteInv
  <2>2. CASE ~ (NetworkUpdate \/ NetworkUpdateReplyLost)
    <3>1. UNCHANGED <<serverVars, eventVars, cacheVars>>
      BY <1>5, <2>2 DEF NetworkControllerStep, NetworkControllerFault, NetworkGet,
             NetworkList, NetworkUpdateConflict, NetworkError
    <3>2. UNCHANGED <<networks, networkEvents, cachedNetworks>>
      BY <3>1 DEF serverVars, eventVars, cacheVars
    <3> QED
      BY <1>5, <3>2, NetworkReadInv
  <2> QED
    BY <2>1, <2>2
<1>6. CASE /\ PeerControllerStep \/ PeerControllerFault
           /\ UNCHANGED networkControllerVars
  <2>1. UNCHANGED <<networks, networkEvents, cachedNetworks>>
    BY <1>6 DEF PeerControllerStep, PeerControllerFault, PeerGet, PeerAssignNetwork,
           PeerAssignAddress, PeerGetNetwork, PeerList, PeerListFails, PeerConfigure,
           PeerConfigured, PeerUpdate, PeerUpdateConflict, PeerError, PeerUpdateReplyLost,
           PeerRead, serverVars, eventVars, cacheVars
  <2> QED
    BY <1>1, <1>6, <2>1 DEF networkControllerVars
<1>7. CASE Restart
  BY <1>7, RestartInv
<1>8. CASE UNCHANGED vars
  BY <1>1, <1>8 DEF vars, serverVars, eventVars, cacheVars, controllerVars,
                    networkControllerVars
<1> QED
  BY <1>2, <1>3, <1>4, <1>5, <1>6, <1>7, <1>8 DEF Next, PeerStep, NetworkStep, Fault

(* Every copy of an object is the object as long as it has its version,    *)
(* and no Reconcile takes anything out of the status it read.              *)
THEOREM CopiesAreCoherent == Spec => [](PeerInv /\ NetworkInv)
<1>1. Init => PeerInv /\ NetworkInv
  <2> SUFFICES ASSUME Init PROVE PeerInv /\ NetworkInv
    OBVIOUS
  <2>1. \A p \in PeerNames : Coherent(NoPeer(0), NoPeer(0))
    BY CoherentSelf DEF NoPeer
  <2>2. \A n \in NetworkNames : Coherent(NoNetwork(0), NoNetwork(0))
    BY CoherentSelf DEF NoNetwork
  <2>3. PeerInv
    BY <2>1 DEF Init, ClusterInit, PeerControllerInit, PeerIdle, PeerInv,
                PeerCopiesCoherent, PeerReconcileKeeps
  <2>4. NetworkInv
    BY <2>2 DEF Init, ClusterInit, NetworkControllerInit, NetworkIdle, NetworkInv,
                NetworkCopiesCoherent, NetworkReconcileKeeps
  <2> QED
    BY <2>3, <2>4
<1>2. TypeInv /\ PeerInv /\ NetworkInv /\ [Next]_vars => PeerInv' /\ NetworkInv'
  BY PeerInvStep, NetworkInvStep
<1> QED
  BY <1>1, <1>2, TypeInvariant, PTL DEF Spec

(* While a peer lives, no step of anyone changes the network or the        *)
(* address it has been given: MembershipIsStable holds however stale the   *)
(* copies are that the controllers work from.                              *)
THEOREM MembershipStable == Spec => MembershipIsStable
<1>1. TypeInv /\ PeerInv /\ [Next]_vars => [MembershipKept]_vars
  <2> SUFFICES ASSUME TypeInv, PeerInv, Next PROVE MembershipKept
    OBVIOUS
  <2> USE DEF TypeInv, TypeOK, ClusterTypeOK
  <2>1. ASSUME NEW p \in PeerNames, NEW o \in Peer, WritePeer(p, o),
               peers[p].live /\ o.live => StatusKept(peers[p].status, o.status)
        PROVE  MembershipKept
    BY <2>1 DEF WritePeer, MembershipKept, StatusKept
  <2>2. ASSUME peers' = peers PROVE MembershipKept
    BY <2>2 DEF MembershipKept, StatusKept
  <2>3. ASSUME NEW p \in PeerNames, CreatePeer(p) \/ EditPeer(p) \/ DeletePeer(p)
        PROVE  MembershipKept
    <3>1. PICK o \in Peer : /\ WritePeer(p, o)
                            /\ peers[p].live /\ o.live => o.status = peers[p].status
      BY <2>3, UserPeerWrite
    <3> QED
      BY <2>1, <3>1 DEF StatusKept
  <2>4. CASE PeerUpdate \/ PeerUpdateReplyLost
    BY <2>1, <2>4, PeerStatusWrite
  <2>5. CASE peers' # peers
    <3>1. \/ \E p \in PeerNames : CreatePeer(p) \/ EditPeer(p) \/ DeletePeer(p)
          \/ PeerUpdate \/ PeerUpdateReplyLost
      BY <2>5, OnlyPeerWriters
    <3> QED
      BY <2>3, <2>4, <3>1
  <2> QED
    BY <2>2, <2>5
<1> QED
  BY <1>1, CopiesAreCoherent, TypeInvariant, PTL DEF Spec, MembershipIsStable

(* While a network lives, its record only grows: the controller drops no   *)
(* allocation, whatever became of the peer it was made for.                *)
LEMMA RecordsGrow ==
  ASSUME TypeInv, NetworkInv, [Next]_vars, NEW n \in NetworkNames,
         networks[n].live, networks'[n].live
  PROVE  networks[n].allocations \subseteq networks'[n].allocations
<1> USE DEF TypeInv, TypeOK, ClusterTypeOK
<1>1. ASSUME NEW m \in NetworkNames, NEW o \in Network, WriteNetwork(m, o),
             networks[m].live /\ o.live => networks[m].allocations \subseteq o.allocations
      PROVE  networks[n].allocations \subseteq networks'[n].allocations
  BY <1>1 DEF WriteNetwork
<1>2. CASE networks' = networks
  BY <1>2
<1>3. ASSUME NEW m \in NetworkNames, CreateNetwork(m) \/ EditNetwork(m) \/ DeleteNetwork(m)
      PROVE  networks[n].allocations \subseteq networks'[n].allocations
  BY <1>1, <1>3, UserNetworkWrite
<1>4. CASE NetworkUpdate \/ NetworkUpdateReplyLost
  BY <1>1, <1>4, NetworkStatusWrite
<1>5. CASE networks' # networks
  <2>1. Next
    BY <1>5 DEF vars, serverVars
  <2>2. \/ \E m \in NetworkNames : CreateNetwork(m) \/ EditNetwork(m) \/ DeleteNetwork(m)
        \/ NetworkUpdate \/ NetworkUpdateReplyLost
    BY <1>5, <2>1, OnlyNetworkWriters
  <2> QED
    BY <1>3, <1>4, <2>2
<1> QED
  BY <1>2, <1>5
=============================================================================
