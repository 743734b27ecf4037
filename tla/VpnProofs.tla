----------------------------- MODULE VpnProofs -----------------------------
(***************************************************************************)
(* The proofs about the whole: a machine's device keeps to the allocations *)
(* of the control plane, and once both have settled it is connected; and   *)
(* settled statuses are mutual.                                            *)
(*                                                                         *)
(* What the device has may be older than anything still stored. It is on   *)
(* record nevertheless: records only grow (AddressProofs), and an entry    *)
(* has the key of a spec that users gave the peer it is for.               *)
(***************************************************************************)
EXTENDS Vpn, QuiescenceProofs, WireGuardProofs

(* The entries of peer p's status are for other peers, each with a key     *)
(* that users gave that peer; and p has an address when it has entries.    *)
EntriesKeyed(p, status) ==
  /\ status.peers[p] = None
  /\ \A q \in PeerNames : status.peers[q] # None =>
       status.address # None /\ status.peers[q].publicKey \in KeysOf(q)

Keyed(p, object) ==
  /\ object.live => object.spec \in PeerSpecs[p]
  /\ EntriesKeyed(p, object.status)

(* So it is in every copy of a Peer ...                                    *)
CopiesKeyed ==
  /\ \A p \in PeerNames : Keyed(p, peers[p]) /\ Keyed(p, cachedPeers[p])
  /\ \A i \in 1..Len(peerEvents) : Keyed(peerEvents[i].name, peerEvents[i].object)

(* ... and in what a Reconcile works from and is building.                 *)
ReconcileKeyed ==
  /\ \A q \in PeerNames : Keyed(q, pr.listed[q])
  /\ \A q \in pr.todo : q # pr.name /\ pr.listed[q].live
  /\ pr.pc # "idle" => EntriesKeyed(pr.name, pr.status)
  /\ pr.pc \in {"config", "list", "routes"} => pr.status.address # None

-----------------------------------------------------------------------------
(* The keys in the statuses.                                               *)
LEMMA NothingKeyed ==
  ASSUME NEW p \in PeerNames
  PROVE  EntriesKeyed(p, NoStatus) /\ \A v : Keyed(p, NoPeer(v))
BY DEF EntriesKeyed, Keyed, NoPeer, NoStatus, NoConfigurations

LEMMA CopiesKeyedWrite ==
  ASSUME TypeInv, CopiesKeyed, NEW p \in PeerNames, NEW o \in Peer, WritePeer(p, o),
         Keyed(p, o), cachedPeers' = cachedPeers
  PROVE  CopiesKeyed'
<1> USE DEF TypeInv, TypeOK, ClusterTypeOK
<1> DEFINE e == [name |-> p, object |-> o]
<1>1. peers' = [peers EXCEPT ![p] = o] /\ peerEvents' = Append(peerEvents, e)
  BY DEF WritePeer
<1>2. \A q \in PeerNames : Keyed(q, peers'[q]) /\ Keyed(q, cachedPeers'[q])
  BY <1>1 DEF CopiesKeyed
<1>3. ASSUME NEW i \in 1..Len(peerEvents')
      PROVE  Keyed(peerEvents'[i].name, peerEvents'[i].object)
  <2>1. CASE i \in 1..Len(peerEvents)
    <3>1. peerEvents'[i] = peerEvents[i]
      BY <1>1, <2>1
    <3> QED
      BY <2>1, <3>1 DEF CopiesKeyed
  <2>2. CASE i = Len(peerEvents) + 1
    <3>1. peerEvents'[i] = e
      BY <1>1, <2>2
    <3> QED
      BY <3>1
  <2> QED
    BY <1>1, <1>3, <2>1, <2>2
<1> QED
  BY <1>2, <1>3 DEF CopiesKeyed

LEMMA CopiesKeyedStep ==
  ASSUME TypeInv, PeerInv, CopiesKeyed, ReconcileKeyed, [Next]_vars
  PROVE  CopiesKeyed'
<1> USE DEF TypeInv, TypeOK, ClusterTypeOK
<1>1. CASE UNCHANGED <<peers, peerEvents, cachedPeers>>
  BY <1>1 DEF CopiesKeyed
<1>2. ASSUME NEW p \in PeerNames, CreatePeer(p) \/ EditPeer(p) \/ DeletePeer(p)
      PROVE  CopiesKeyed'
  <2>1. PICK o \in Peer : /\ WritePeer(p, o)
                          /\ o.status = NoStatus \/ o.status = peers[p].status
                          /\ o.live => o.spec \in PeerSpecs[p]
    BY <1>2, UserPeerWrite
  <2>2. EntriesKeyed(p, NoStatus) /\ EntriesKeyed(p, peers[p].status)
    BY NothingKeyed DEF CopiesKeyed, Keyed
  <2>3. cachedPeers' = cachedPeers
    BY <1>2 DEF CreatePeer, EditPeer, DeletePeer, UserEdits, cacheVars
  <2> QED
    BY <2>1, <2>2, <2>3, CopiesKeyedWrite DEF Keyed
<1>3. CASE PeerUpdate \/ PeerUpdateReplyLost
  <2>1. /\ pr.name \in PeerNames
        /\ \E o \in Peer : /\ WritePeer(pr.name, o) /\ o.status = pr.status
                           /\ o.live = peers[pr.name].live /\ o.spec = peers[pr.name].spec
    BY <1>3, PeerStatusWrite
  <2>2. EntriesKeyed(pr.name, pr.status) /\ cachedPeers' = cachedPeers
    BY <1>3 DEF PeerUpdate, PeerUpdateReplyLost, ReconcileKeyed, cacheVars
  <2>3. Keyed(pr.name, peers[pr.name])
    BY <2>1 DEF CopiesKeyed
  <2> QED
    BY <2>1, <2>2, <2>3, CopiesKeyedWrite DEF Keyed
<1>4. CASE DeliverPeerEvent
  <2> DEFINE e == Head(peerEvents)
  <2>1. /\ peers' = peers /\ peerEvents # <<>> /\ peerEvents' = Tail(peerEvents)
        /\ cachedPeers' = [cachedPeers EXCEPT ![e.name] = e.object]
    BY <1>4 DEF DeliverPeerEvent, informerUnchanged, serverVars
  <2>2. /\ e = peerEvents[1] /\ 1 \in 1..Len(peerEvents)
        /\ Len(peerEvents') = Len(peerEvents) - 1
        /\ \A i \in 1..Len(peerEvents') : peerEvents'[i] = peerEvents[i + 1]
    BY <2>1, HeadTailProperties, LenProperties
  <2>3. Keyed(e.name, e.object)
    BY <2>2 DEF CopiesKeyed
  <2> HIDE DEF e
  <2>4. \A p \in PeerNames : Keyed(p, peers'[p]) /\ Keyed(p, cachedPeers'[p])
    BY <2>1, <2>3 DEF CopiesKeyed
  <2>5. ASSUME NEW i \in 1..Len(peerEvents')
        PROVE  Keyed(peerEvents'[i].name, peerEvents'[i].object)
    <3>1. i + 1 \in 1..Len(peerEvents)
      BY <2>2, LenProperties
    <3> QED
      BY <2>2, <3>1 DEF CopiesKeyed
  <2> QED
    BY <2>4, <2>5 DEF CopiesKeyed
<1>5. CASE Restart
  BY <1>5 DEF Restart, serverVars, CopiesKeyed
<1>6. CASE UNCHANGED vars
  BY <1>1, <1>6 DEF vars, serverVars, eventVars, cacheVars
<1> QED
  BY <1>1, <1>2, <1>3, <1>4, <1>5, <1>6, OnlyPeerMovers

(* The entry that a Reconcile adds has the key of the peer it listed.      *)
LEMMA EntryKeyed ==
  ASSUME TypeInv, ReconcileKeyed, pr.pc = "routes", NEW q \in pr.todo
  PROVE  EntriesKeyed(pr.name, [pr.status EXCEPT
           !.peers = [pr.status.peers EXCEPT
              ![q] = Configuration(q, pr.listed[q], cachedRoutes)]])
<1> DEFINE cfg == Configuration(q, pr.listed[q], cachedRoutes)
           cfgs == [pr.status.peers EXCEPT ![q] = cfg]
           s == [pr.status EXCEPT !.peers = cfgs]
<1>1. /\ q \in PeerNames /\ q # pr.name
      /\ pr.status \in PeerStatus /\ pr.status.peers \in PeerConfigurations
      /\ EntriesKeyed(pr.name, pr.status) /\ pr.status.address # None
  BY PeerReconcileFields, PeerStatusFields
  DEF ReconcileKeyed, TypeInv, TypeOK, PeerControllerTypeOK
<1>2. pr.listed[q].spec \in PeerSpecs[q]
  BY <1>1 DEF ReconcileKeyed, Keyed
<1>3. cfg.publicKey \in KeysOf(q)
  BY <1>2 DEF Configuration, KeysOf
<1> HIDE DEF cfg
<1>4. cfgs[q] = cfg /\ \A x \in PeerNames \ {q} : cfgs[x] = pr.status.peers[x]
  BY <1>1 DEF PeerConfigurations
<1>5. pr.name \in PeerNames
  BY DEF TypeInv, TypeOK, PeerControllerTypeOK
<1> HIDE DEF cfgs
<1>6. s.peers = cfgs /\ s.address = pr.status.address
  BY <1>1 DEF PeerStatus
<1> HIDE DEF s
<1>7. EntriesKeyed(pr.name, s)
  BY <1>1, <1>3, <1>4, <1>5, <1>6 DEF EntriesKeyed
<1> QED
  BY <1>7 DEF s, cfgs, cfg

LEMMA ReconcileKeyedStep ==
  ASSUME TypeInv, CopiesKeyed, ReconcileKeyed, [Next]_vars
  PROVE  ReconcileKeyed'
<1> USE DEF TypeInv, TypeOK, ClusterTypeOK, PeerControllerTypeOK
<1>1. ASSUME pr' = pr PROVE ReconcileKeyed'
  BY <1>1 DEF ReconcileKeyed
<1>2. ASSUME pr' = PeerIdle PROVE ReconcileKeyed'
  <2>1. /\ pr'.listed = [q \in PeerNames |-> NoPeer(0)] /\ pr'.todo = {} /\ pr'.pc = "idle"
    BY <1>2 DEF PeerIdle
  <2> QED
    BY <2>1, NothingKeyed DEF ReconcileKeyed
<1>3. /\ pr \in PeerReconcile
      /\ pr.status \in PeerStatus
      /\ pr.pc # "idle" => EntriesKeyed(pr.name, pr.status)
  BY PeerReconcileFields DEF ReconcileKeyed
<1>4. ASSUME NEW p \in PeerNames, PeerGet(p) PROVE ReconcileKeyed'
  <2> DEFINE instance == cachedPeers[p]
             case == IF instance.status.network = None THEN "network"
                     ELSE IF instance.status.address = None THEN "address"
                     ELSE "config"
             new == [PeerIdle EXCEPT !.pc = case, !.name = p, !.instance = instance,
                                     !.status = instance.status]
  <2>1. pr' = new \/ pr' = PeerIdle
    BY <1>4 DEF PeerGet
  <2>2. /\ new.listed = [q \in PeerNames |-> NoPeer(0)] /\ new.todo = {}
        /\ new.name = p /\ new.status = instance.status /\ new.pc = case
    <3> HIDE DEF case, instance
    <3> QED
      BY DEF PeerIdle
  <2>3. EntriesKeyed(p, instance.status)
    BY DEF CopiesKeyed, Keyed
  <2>4. case \in {"config", "list", "routes"} => instance.status.address # None
    OBVIOUS
  <2> HIDE DEF new, case, instance
  <2>5. CASE pr' = new
    BY <2>2, <2>3, <2>4, <2>5, NothingKeyed DEF ReconcileKeyed
  <2> QED
    BY <1>2, <2>1, <2>5
<1>5. ASSUME NEW s, pr.pc # "idle", pr' = [pr EXCEPT !.pc = "update", !.status = s],
             EntriesKeyed(pr.name, s)
      PROVE  ReconcileKeyed'
  <2>1. /\ pr'.status = s /\ pr'.todo = pr.todo /\ pr'.listed = pr.listed /\ pr'.name = pr.name
        /\ pr'.pc = "update"
    BY <1>3, <1>5 DEF PeerReconcile
  <2> QED
    BY <1>5, <2>1 DEF ReconcileKeyed
<1>6. CASE PeerAssignNetwork
  <2>1. pr.pc # "idle"
    BY <1>6 DEF PeerAssignNetwork, PeerRead
  <2>2. \A n : EntriesKeyed(pr.name, [pr.status EXCEPT !.network = n])
    BY <1>3, <2>1 DEF EntriesKeyed, PeerStatus
  <2> QED
    BY <1>2, <1>5, <1>6, <2>1, <2>2 DEF PeerAssignNetwork
<1>7. CASE PeerAssignAddress
  <2>1. pr.pc # "idle"
    BY <1>7 DEF PeerAssignAddress, PeerRead
  <2>2. \A a : a # None => EntriesKeyed(pr.name, [pr.status EXCEPT !.address = a])
    BY <1>3, <2>1 DEF EntriesKeyed, PeerStatus
  <2> QED
    BY <1>2, <1>5, <1>7, <2>1, <2>2 DEF PeerAssignAddress
<1>8. CASE PeerGetNetwork
  <2>1. CASE pr' = [pr EXCEPT !.pc = "list"]
    <3>1. /\ pr'.todo = pr.todo /\ pr'.name = pr.name
          /\ pr'.listed = pr.listed /\ pr'.status = pr.status
      BY <1>3, <2>1 DEF PeerReconcile
    <3>2. pr.pc = "config"
      BY <1>8 DEF PeerGetNetwork, PeerRead
    <3> QED
      BY <3>1, <3>2 DEF ReconcileKeyed
  <2> QED
    BY <1>2, <1>8, <2>1 DEF PeerGetNetwork
<1>9. CASE PeerList
  <2> DEFINE s == [pr.status EXCEPT !.peers = NoConfigurations]
  <2>1. /\ pr'.name = pr.name /\ pr'.listed = cachedPeers /\ pr'.status = s /\ pr.pc = "list"
        /\ pr'.todo = Reachable(pr.name, pr.instance, cachedPeers)
    BY <1>3, <1>9 DEF PeerList, PeerRead, PeerReconcile
  <2>2. pr.name \in PeerNames
    BY <1>9 DEF PeerList, PeerRead
  <2>3. \A q \in Reachable(pr.name, pr.instance, cachedPeers) :
          q # pr.name /\ cachedPeers[q].live
    BY DEF Reachable, Neighbours
  <2>4. EntriesKeyed(pr.name, s) /\ s.address = pr.status.address
    BY <1>3, <2>2 DEF EntriesKeyed, NoConfigurations, PeerStatus
  <2> HIDE DEF s
  <2> QED
    BY <2>1, <2>3, <2>4 DEF ReconcileKeyed, CopiesKeyed
<1>10. ASSUME NEW q \in PeerNames, PeerConfigure(q) PROVE ReconcileKeyed'
  <2> DEFINE s == [pr.status EXCEPT
                    !.peers = [pr.status.peers EXCEPT
                       ![q] = Configuration(q, pr.listed[q], cachedRoutes)]]
  <2>1. pr.pc = "routes" /\ q \in pr.todo /\ pr' = [pr EXCEPT !.todo = pr.todo \ {q}, !.status = s]
    BY <1>10 DEF PeerConfigure, PeerRead
  <2>2. EntriesKeyed(pr.name, s) /\ s.address = pr.status.address
    BY <1>3, <2>1, EntryKeyed DEF PeerStatus
  <2> HIDE DEF s
  <2>3. /\ pr'.name = pr.name /\ pr'.todo = pr.todo \ {q}
        /\ pr'.listed = pr.listed /\ pr'.status = s
    BY <1>3, <2>1 DEF PeerReconcile
  <2> QED
    BY <2>1, <2>2, <2>3 DEF ReconcileKeyed
<1>11. CASE PeerConfigured
  <2>1. CASE pr' = [PeerIdle EXCEPT !.pc = "update", !.name = pr.name,
                                    !.instance = pr.instance, !.status = pr.status]
    <3>1. /\ pr'.todo = {} /\ pr'.listed = [q \in PeerNames |-> NoPeer(0)]
          /\ pr'.name = pr.name /\ pr'.status = pr.status /\ pr'.pc = "update"
      BY <2>1 DEF PeerIdle
    <3>2. pr.pc # "idle"
      BY <1>11 DEF PeerConfigured, PeerRead
    <3> QED
      BY <1>3, <3>1, <3>2, NothingKeyed DEF ReconcileKeyed
  <2> QED
    BY <1>2, <1>11, <2>1 DEF PeerConfigured
<1>12. CASE PeerListFails \/ PeerUpdate \/ PeerUpdateConflict \/ PeerControllerFault \/ Restart
  BY <1>2, <1>12 DEF PeerListFails, PeerUpdate, PeerUpdateConflict, PeerControllerFault,
                     PeerError, PeerUpdateReplyLost, Restart
<1>13. CASE UserStep
  BY <1>1, <1>13 DEF UserStep, CreatePeer, EditPeer, DeletePeer, CreateNetwork, EditNetwork,
       DeleteNetwork, ApplyRoute, DeleteRoute, UserEdits, controllerVars, peerControllerVars
<1>14. CASE \/ DeliverPeerEvent \/ DeliverNetworkEvent \/ DeliverRouteEvent
            \/ ResyncPeers \/ ResyncNetworks \/ ResyncRoutes
  BY <1>1, <1>14 DEF DeliverPeerEvent, DeliverNetworkEvent, DeliverRouteEvent, ResyncPeers,
       ResyncNetworks, ResyncRoutes, informerUnchanged
<1>15. CASE UNCHANGED peerControllerVars
  BY <1>1, <1>15 DEF peerControllerVars
<1>16. CASE UNCHANGED vars
  BY <1>1, <1>16 DEF vars, controllerVars, peerControllerVars
<1> QED
  BY <1>4, <1>6, <1>7, <1>8, <1>9, <1>10, <1>11, <1>12, <1>13, <1>14, <1>15, <1>16
  DEF Next, PeerStep, NetworkStep, Fault, PeerControllerStep

(* Every entry of every peer's configuration, in whatever copy, is for     *)
(* another peer and has a key that the users gave that very peer; a peer   *)
(* has entries only once it has an address (computePeerConfigurations).    *)
THEOREM EntriesHaveTheirKeys == Spec => [](CopiesKeyed /\ ReconcileKeyed)
<1>1. Init => CopiesKeyed /\ ReconcileKeyed
  <2> SUFFICES ASSUME Init PROVE CopiesKeyed /\ ReconcileKeyed
    OBVIOUS
  <2>1. /\ peers = [p \in PeerNames |-> NoPeer(0)] /\ cachedPeers = peers /\ peerEvents = <<>>
    BY DEF Init, ClusterInit
  <2>2. CopiesKeyed
    BY <2>1, NothingKeyed, EmptySeq DEF CopiesKeyed
  <2>3. ReconcileKeyed
    BY NothingKeyed DEF Init, PeerControllerInit, PeerIdle, ReconcileKeyed
  <2> QED
    BY <2>2, <2>3
<1>2. TypeInv /\ PeerInv /\ CopiesKeyed /\ ReconcileKeyed /\ [Next]_vars
        => (CopiesKeyed /\ ReconcileKeyed)'
  BY CopiesKeyedStep, ReconcileKeyedStep
<1>3. Spec => [](TypeInv /\ PeerInv)
  BY TypeInvariant, CopiesAreCoherent, PTL
<1> QED
  BY <1>1, <1>2, <1>3, PTL DEF Spec

-----------------------------------------------------------------------------
(* What the machine's guardlet reads.                                      *)
LEMMA PublishedFields ==
  ASSUME TypeInv, machine \in PeerNames
  PROVE  LET status == peers[machine].status
         IN  /\ Published.endpoint = peers[machine].spec.endpoint
             /\ Published.endpoint \in Endpoint
             /\ Published.address = status.address
             /\ Published.address \in Address \cup {None}
             /\ DOMAIN Published.peers = {q \in PeerNames : status.peers[q] # None}
             /\ \A q \in DOMAIN Published.peers :
                  /\ status.peers[q] \in PeerConfiguration
                  /\ Published.peers[q] \in Entry
                  /\ Published.peers[q].publicKey = status.peers[q].publicKey
                  /\ Published.peers[q].endpoint = status.peers[q].endpoint
                  /\ Published.peers[q].allowedIPs
                       = {status.peers[q].allowedIP} \cup status.peers[q].routes
<1> DEFINE peer == peers[machine]
           cfg == peer.status.peers
<1>1. /\ peer \in Peer /\ peer.spec.endpoint \in Endpoint
      /\ peer.status.address \in Address \cup {None} /\ cfg \in PeerConfigurations
  <2>1. peer \in Peer
    BY DEF TypeInv, TypeOK, ClusterTypeOK
  <2> HIDE DEF peer
  <2>2. peer.spec \in PeerSpec /\ peer.status \in PeerStatus
    BY <2>1, PeerFields
  <2> QED
    BY <2>1, <2>2, PeerStatusFields DEF PeerSpec
<1>2. \A q \in PeerNames : cfg[q] # None => cfg[q] \in PeerConfiguration
  BY <1>1 DEF PeerConfigurations
<1>3. /\ Published.endpoint = peer.spec.endpoint
      /\ Published.address = peer.status.address
      /\ DOMAIN Published.peers = {q \in PeerNames : cfg[q] # None}
      /\ \A q \in DOMAIN Published.peers : Published.peers[q] =
           [publicKey |-> cfg[q].publicKey, endpoint |-> cfg[q].endpoint,
            allowedIPs |-> {cfg[q].allowedIP} \cup cfg[q].routes]
  BY DEF Published
<1> HIDE DEF cfg, peer
<1>4. \A c \in PeerConfiguration :
        [publicKey |-> c.publicKey, endpoint |-> c.endpoint,
         allowedIPs |-> {c.allowedIP} \cup c.routes] \in Entry
  BY VpnAssumption DEF PeerConfiguration, Entry
<1>5. ASSUME NEW q \in DOMAIN Published.peers
      PROVE  /\ cfg[q] \in PeerConfiguration
             /\ Published.peers[q] \in Entry
             /\ Published.peers[q].publicKey = cfg[q].publicKey
             /\ Published.peers[q].endpoint = cfg[q].endpoint
             /\ Published.peers[q].allowedIPs = {cfg[q].allowedIP} \cup cfg[q].routes
  <2>1. cfg[q] \in PeerConfiguration
    BY <1>2, <1>3
  <2>2. Published.peers[q] =
          [publicKey |-> cfg[q].publicKey, endpoint |-> cfg[q].endpoint,
           allowedIPs |-> {cfg[q].allowedIP} \cup cfg[q].routes]
    BY <1>3
  <2> QED
    BY <1>4, <2>1, <2>2
<1>6. /\ Published.endpoint = peer.spec.endpoint /\ Published.endpoint \in Endpoint
      /\ Published.address = peer.status.address
      /\ Published.address \in Address \cup {None}
      /\ DOMAIN Published.peers = {q \in PeerNames : cfg[q] # None}
  BY <1>1, <1>3
<1> QED
  BY <1>5, <1>6 DEF cfg, peer

(* What buildCfgArgs has checked of it.                                    *)
LEMMA PublishedChecked ==
  ASSUME TypeInv, machine \in PeerNames, ~ buildCfgArgsFails(Published)
  PROVE  /\ Published.endpoint.port \in Ports
         /\ \A q \in DOMAIN Published.peers : Published.peers[q].publicKey \in PublicKeys
<1>1. Published.endpoint.port \in Ports
  BY PublishedFields DEF buildCfgArgsFails, SplitHostPortFails, Endpoint
<1>2. \A q \in DOMAIN Published.peers : Published.peers[q].publicKey \in PublicKeys
  BY PublishedFields DEF buildCfgArgsFails, Entry
<1> QED
  BY <1>1, <1>2

(* The interface that wg set starts from.                                  *)
LEMMA InterfaceFields ==
  ASSUME device \in Device
  PROVE  /\ Interface(device) \in Device
         /\ Interface(device).addresses \subseteq device.addresses
         /\ \A s \in Prefixes : Interface(device).allowed[s] # None => Interface(device).allowed[s] = device.allowed[s]
<1>1. CASE device.exists
  BY <1>1 DEF Interface
<1>2. CASE ~ device.exists
  <2>1. Interface(device) = [NoDevice EXCEPT !.exists = TRUE]
    BY <1>2 DEF Interface
  <2>2. Interface(device) \in Device
    BY <2>1, NothingTyped DEF Device
  <2>3. Interface(device).addresses = {} /\ Interface(device).allowed = [s \in Prefixes |-> None]
    BY <2>1 DEF NoDevice
  <2> QED
    BY <2>2, <2>3
<1> QED
  BY <1>1, <1>2

-----------------------------------------------------------------------------
(* The device. A device is good when it has its type and, unless networks  *)
(* were deleted, its addresses are the machine's and it allows no address  *)
(* for anyone but the peer that has it.                                    *)
Allotted(d) ==
  /\ \A a \in d.addresses : AllocatedTo(a.ip, machine)
  /\ \A h \in HostAddress \ Subnets : d.allowed[h] # None =>
       \E q \in PeerNames \ {machine} : AllocatedTo(h.ip, q) /\ d.allowed[h] \in KeysOf(q)

Good(d) == d \in Device /\ (deletedNetworks = {} => Allotted(d))

DeviceInv == machine \in PeerNames /\ Good(device)

(* An entry is for another peer, with its key and its address.             *)
LEMMA EntryAllotted ==
  ASSUME TypeInv, machine \in PeerNames, CopiesKeyed, ConfigurationIsAllocated,
         deletedNetworks = {}, NEW q \in DOMAIN Published.peers
  PROVE  /\ q \in PeerNames \ {machine}
         /\ Published.peers[q].publicKey \in KeysOf(q)
         /\ \A h \in Published.peers[q].allowedIPs \ Subnets : AllocatedTo(h.ip, q)
<1> DEFINE status == peers[machine].status
           cfg == status.peers[q]
<1>1. /\ q \in PeerNames /\ cfg # None /\ cfg \in PeerConfiguration
      /\ Published.peers[q].publicKey = cfg.publicKey
      /\ Published.peers[q].allowedIPs = {cfg.allowedIP} \cup cfg.routes
  BY PublishedFields
<1>2. EntriesKeyed(machine, status)
  BY DEF CopiesKeyed, Keyed
<1>3. q # machine /\ cfg.publicKey \in KeysOf(q)
  BY <1>1, <1>2 DEF EntriesKeyed
<1>4. status.network # None /\ status.network \in NetworkNames
  <2>1. status.network # None
    BY <1>1 DEF ConfigurationIsAllocated
  <2>2. peers[machine] \in Peer
    BY DEF TypeInv, TypeOK, ClusterTypeOK
  <2> QED
    BY <2>1, <2>2, PeerFields, PeerStatusFields
<1>5. \E alloc \in networks[status.network].allocations :
        alloc.name = q /\ alloc.address # None /\ alloc.address.ip = cfg.allowedIP.ip
  BY <1>1 DEF ConfigurationIsAllocated
<1>6. AllocatedTo(cfg.allowedIP.ip, q)
  BY <1>4, <1>5 DEF AllocatedTo
<1>7. cfg.routes \subseteq Subnets
  BY <1>1 DEF PeerConfiguration
<1> QED
  BY <1>1, <1>3, <1>6, <1>7

(* wg set keeps a device good, whichever entry it comes to.                *)
LEMMA StartedGood ==
  ASSUME TypeInv, DeviceInv
  PROVE  Good(Interface(device)) /\ Good(Started(device, Published))
<1>1. device \in Device /\ Published.endpoint.port \in Ports \cup {None}
  BY PublishedFields DEF DeviceInv, Good, Endpoint
<1>2. HostAddress \subseteq Prefixes
  BY VpnAssumption
<1>3. Good(Interface(device))
  <2>1. Allotted(device) => Allotted(Interface(device))
    BY <1>1, <1>2, InterfaceFields DEF Allotted
  <2> QED
    BY <1>1, <2>1, InterfaceFields DEF DeviceInv, Good
<1>4. Allotted(Interface(device)) => Allotted(Started(device, Published))
  BY <1>1, StartedFields DEF Allotted
<1> QED
  BY <1>1, <1>3, <1>4, StartedFields DEF Good

LEMMA EnteredGood ==
  ASSUME TypeInv, machine \in PeerNames, CopiesKeyed, ConfigurationIsAllocated,
         ~ buildCfgArgsFails(Published), NEW d, Good(d), NEW j
  PROVE  Good(Entered(d, Published, NameOrder[j]))
<1> DEFINE q == NameOrder[j]
           e == Published.peers[q]
<1>1. CASE q \notin DOMAIN Published.peers
  BY <1>1 DEF Entered
<1>2. CASE q \in DOMAIN Published.peers
  <2>1. /\ e \in Entry /\ e.publicKey \in PublicKeys /\ d \in Device
        /\ Entered(d, Published, NameOrder[j]) = withPeer(d, e)
    BY <1>2, PublishedFields, PublishedChecked DEF Entered, Good
  <2>2. /\ withPeer(d, e) \in Device
        /\ withPeer(d, e).addresses = d.addresses
        /\ \A s \in Prefixes : withPeer(d, e).allowed[s] =
             IF e.allowedIPs = {} THEN d.allowed[s]
             ELSE IF s \in e.allowedIPs THEN e.publicKey
             ELSE IF d.allowed[s] = e.publicKey THEN None
             ELSE d.allowed[s]
    BY <2>1, withPeerFields
  <2>3. ASSUME deletedNetworks = {}, Allotted(d)
        PROVE  Allotted(withPeer(d, e))
    <3>1. /\ q \in PeerNames \ {machine} /\ e.publicKey \in KeysOf(q)
          /\ \A h \in e.allowedIPs \ Subnets : AllocatedTo(h.ip, q)
      BY <1>2, <2>3, EntryAllotted
    <3> HIDE DEF e, q
    <3>2. ASSUME NEW h \in HostAddress \ Subnets, withPeer(d, e).allowed[h] # None
          PROVE  \E x \in PeerNames \ {machine} :
                   AllocatedTo(h.ip, x) /\ withPeer(d, e).allowed[h] \in KeysOf(x)
      <4>1. h \in Prefixes
        BY VpnAssumption
      <4>2. CASE h \in e.allowedIPs
        BY <2>2, <3>1, <4>1, <4>2
      <4>3. CASE h \notin e.allowedIPs
        <5>1. withPeer(d, e).allowed[h] = d.allowed[h]
          BY <2>2, <3>2, <4>1, <4>3
        <5> QED
          BY <2>3, <3>2, <5>1 DEF Allotted
      <4> QED
        BY <4>2, <4>3
    <3> QED
      BY <2>2, <2>3, <3>2 DEF Allotted
  <2> HIDE DEF e
  <2>4. Good(withPeer(d, e))
    BY <2>2, <2>3 DEF Good
  <2> QED
    BY <2>1, <2>4
<1> QED
  BY <1>1, <1>2

LEMMA ConfiguredGood ==
  ASSUME TypeInv, DeviceInv, CopiesKeyed, ConfigurationIsAllocated,
         ~ buildCfgArgsFails(Published), NEW i \in 0..Len(NameOrder)
  PROVE  Good(Configured(device, Published, NameOrder)[i])
<1> DEFINE after == Configured(device, Published, NameOrder)
           Bad == {j \in 0..Len(NameOrder) : ~ Good(after[j])}
<1>0. Len(NameOrder) \in Nat
  BY VpnAssumption, LenProperties
<1>1. /\ after[0] = Started(device, Published)
      /\ \A j \in 1..Len(NameOrder) : after[j] = Entered(after[j - 1], Published, NameOrder[j])
  BY <1>0, ConfiguredInSteps
<1> HIDE DEF after
<1>2. ASSUME Bad # {}
      PROVE  FALSE
  <2>0. Bad \subseteq Nat
    OBVIOUS
  <2>1. PICK j \in Bad : \A x \in Bad : j <= x
    <3> HIDE DEF Bad
    <3> QED
      BY <1>2, <2>0, LeastNumber
  <2>2. CASE j = 0
    BY <1>1, <2>1, <2>2, StartedGood
  <2>3. CASE j # 0
    <3>1. j \in 1..Len(NameOrder) /\ j - 1 \in 0..Len(NameOrder) /\ j - 1 \notin Bad
      BY <1>0, <2>1, <2>3
    <3>2. Good(after[j - 1])
      BY <3>1
    <3>3. after[j] = Entered(after[j - 1], Published, NameOrder[j])
      BY <1>1, <3>1
    <3>4. Good(after[j])
      BY <3>2, <3>3, EnteredGood DEF DeviceInv
    <3> QED
      BY <2>1, <3>4
  <2> QED
    BY <2>2, <2>3
<1>3. Good(after[i])
  BY <1>2
<1> QED
  BY <1>3 DEF after

(* setupIP gives the interface an address that is the machine's own.       *)
LEMMA UpGood ==
  ASSUME TypeInv, machine \in PeerNames, AddressIsAllocated,
         ~ AddressRefused(Published.address), NEW d, Good(d)
  PROVE  Good(Up(Addressed(d, Published), Published, AllPrefixes(Published)))
<1> DEFINE a == Published.address
           status == peers[machine].status
           up == Up(Addressed(d, Published), Published, AllPrefixes(Published))
<1>1. a = status.address /\ a # None /\ a \in Address
  BY PublishedFields DEF AddressRefused
<1>2. ipMask(a).ip = a.ip
  BY DEF ipMask
<1>3. up \in Device /\ up.allowed = d.allowed /\ up.addresses = d.addresses \cup {ipMask(a)}
  <2>1. d \in Device
    BY DEF Good
  <2> QED
    BY <1>1, <2>1, UpFields
<1> HIDE DEF up
<1>4. ASSUME deletedNetworks = {}
      PROVE  AllocatedTo(a.ip, machine)
  <2>1. /\ status.network # None
        /\ [name |-> machine, address |-> a] \in networks[status.network].allocations
    BY <1>1, <1>4 DEF AddressIsAllocated
  <2>2. peers[machine] \in Peer
    BY DEF TypeInv, TypeOK, ClusterTypeOK
  <2>3. status.network \in NetworkNames
    BY <2>1, <2>2, PeerFields, PeerStatusFields
  <2> HIDE DEF a, status
  <2> QED
    BY <1>1, <2>1, <2>3 DEF AllocatedTo
<1>5. Allotted(d) /\ deletedNetworks = {} => Allotted(up)
  BY <1>2, <1>3, <1>4 DEF Allotted
<1> QED
  BY <1>3, <1>5 DEF Good, up

(* What is allocated stays so, whatever the control plane does.            *)
LEMMA StillAllocated ==
  ASSUME TypeInv, NetworkInv, RecordInv, [Next]_vars, deletedNetworks' = {}, NEW ip, NEW p,
         AllocatedTo(ip, p)
  PROVE  AllocatedTo(ip, p)'
<1>1. \A n \in NetworkNames : networks[n].allocations \subseteq networks'[n].allocations
  BY AllocationsGrow DEF Grows
<1> QED
  BY <1>1 DEF AllocatedTo

LEMMA NoneDeleted ==
  ASSUME TypeInv, NetworkInv, RecordInv, [Next]_vars, deletedNetworks' = {}
  PROVE  deletedNetworks = {}
<1>1. deletedNetworks \subseteq NetworkNames
  BY DEF TypeInv, TypeOK
<1> QED
  BY <1>1, AllocationsGrow DEF Grows

LEMMA DeviceStep ==
  ASSUME TypeInv, NetworkInv, RecordInv, CopiesKeyed, AddressIsAllocated,
         ConfigurationIsAllocated, DeviceInv, [VpnNext]_vpnVars
  PROVE  DeviceInv'
<1>1. ASSUME NEW d, Good(d), device' = d, machine' = machine,
             networks' = networks, deletedNetworks' = deletedNetworks
      PROVE  DeviceInv'
  BY <1>1 DEF DeviceInv, Good, Allotted, AllocatedTo, KeysOf
<1>2. CASE [Next]_vars /\ UNCHANGED <<machine, device>>
  <2>1. ASSUME deletedNetworks' = {}
        PROVE  Allotted(device)'
    <3>1. Allotted(device)
      BY <1>2, <2>1, NoneDeleted DEF DeviceInv, Good
    <3>2. \A a \in device.addresses : AllocatedTo(a.ip, machine)'
      BY <1>2, <2>1, <3>1, StillAllocated DEF Allotted
    <3>3. ASSUME NEW h \in HostAddress \ Subnets, device.allowed[h] # None
          PROVE  \E q \in PeerNames \ {machine} :
                   AllocatedTo(h.ip, q)' /\ device.allowed[h] \in KeysOf(q)
      <4>1. PICK q \in PeerNames \ {machine} :
              AllocatedTo(h.ip, q) /\ device.allowed[h] \in KeysOf(q)
        BY <3>1, <3>3 DEF Allotted
      <4>2. AllocatedTo(h.ip, q)'
        BY <1>2, <2>1, <4>1, StillAllocated
      <4> QED
        BY <4>1, <4>2
    <3> QED
      BY <1>2, <3>2, <3>3 DEF Allotted, KeysOf
  <2> QED
    BY <1>2, <2>1 DEF DeviceInv, Good
<1>3. CASE Reboot /\ UNCHANGED <<vars, machine>>
  <2>1. Good(NoDevice)
    BY NothingTyped, VpnAssumption DEF NoDevice, Good, Allotted
  <2> QED
    BY <1>1, <1>3, <2>1 DEF Reboot, vars, serverVars
<1>4. CASE GuardletStops /\ UNCHANGED <<vars, machine>>
  <2>1. PICK i \in 0..Len(NameOrder) :
          device' = Configured(device, Published, NameOrder)[i]
    BY <1>4 DEF GuardletStops
  <2>2. Good(Configured(device, Published, NameOrder)[i])
    BY <1>4, <2>1, ConfiguredGood DEF GuardletStops
  <2> QED
    BY <1>1, <1>4, <2>1, <2>2 DEF vars, serverVars
<1>5. CASE GuardletReconciles /\ UNCHANGED <<vars, machine>>
  <2> DEFINE configured == Configured(device, Published, NameOrder)[Len(NameOrder)]
             up == Up(Addressed(configured, Published), Published, AllPrefixes(Published))
  <2>1. Len(NameOrder) \in 0..Len(NameOrder)
    BY VpnAssumption, LenProperties
  <2>2. device' = IF buildCfgArgsFails(Published) THEN Interface(device)
                  ELSE IF AddressRefused(Published.address) THEN configured
                  ELSE up
    BY <1>5 DEF GuardletReconciles
  <2>3. Good(Interface(device))
    BY StartedGood
  <2>4. ~ buildCfgArgsFails(Published) => Good(configured)
    BY <2>1, ConfiguredGood
  <2> HIDE DEF configured
  <2>5. ~ buildCfgArgsFails(Published) /\ ~ AddressRefused(Published.address) => Good(up)
    BY <2>4, UpGood DEF DeviceInv
  <2>6. Good(device')
    BY <2>2, <2>3, <2>4, <2>5
  <2> QED
    BY <1>1, <1>5, <2>6 DEF vars, serverVars
<1>6. CASE UNCHANGED vpnVars
  BY <1>2, <1>6 DEF vpnVars
<1> QED
  BY <1>2, <1>3, <1>4, <1>5, <1>6 DEF VpnNext

(* The control plane does not notice the machine.                          *)
LEMMA VpnIsControlPlane == VpnSpec => Spec /\ [](machine \in PeerNames)
<1>1. VpnInit => Init /\ machine \in PeerNames
  BY DEF VpnInit
<1>2. [VpnNext]_vpnVars => [Next]_vars
  BY DEF VpnNext, vpnVars
<1>3. machine \in PeerNames /\ [VpnNext]_vpnVars => (machine \in PeerNames)'
  BY DEF VpnNext, vpnVars
<1> QED
  BY <1>1, <1>2, <1>3, PTL DEF VpnSpec, Spec

(* The device stays good, whatever the control plane and the guardlet do.  *)
LEMMA DeviceIsGood == VpnSpec => [](TypeInv /\ DeviceInv)
<1>1. VpnInit => DeviceInv
  <2>1. Good(NoDevice)
    BY NothingTyped, VpnAssumption DEF NoDevice, Good, Allotted
  <2> QED
    BY <2>1 DEF VpnInit, DeviceInv
<1>2. /\ TypeInv /\ NetworkInv /\ RecordInv /\ CopiesKeyed /\ AddressIsAllocated
      /\ ConfigurationIsAllocated /\ DeviceInv /\ [VpnNext]_vpnVars
      => DeviceInv'
  BY DeviceStep
<1>3. VpnSpec => [](TypeInv /\ NetworkInv /\ RecordInv /\ CopiesKeyed /\ AddressIsAllocated
                    /\ ConfigurationIsAllocated)
  BY VpnIsControlPlane, TypeInvariant, CopiesAreCoherent, StatusesAreGranted,
     EntriesHaveTheirKeys, AddressesAllocated, ConfigurationsAllocated, PTL
<1> QED
  BY <1>1, <1>2, <1>3, PTL DEF VpnSpec

(* Whatever was deleted, created again or given another key, every address *)
(* a machine gave its interface is allocated to its own peer, and its      *)
(* device allows an address only for a key of the peer it is allocated to, *)
(* unless a network was deleted (setupIP, buildCfgArgs).                   *)
THEOREM DeviceKeeps == VpnSpec => []DeviceKeepsToAllocations
<1>1. DeviceInv => DeviceKeepsToAllocations
  BY DEF DeviceInv, Good, Allotted, DeviceKeepsToAllocations
<1> QED
  BY <1>1, DeviceIsGood, PTL

-----------------------------------------------------------------------------
(* Once a Reconcile of what is published has come to its end, all of it is *)
(* on the device, and the next one, stopped or not, takes nothing away.    *)
Reconciled ==
  reconciled /\ Applicable(Published) /\ Distinct(Published) =>
    Applied(device, Published) /\ Routed(device, Published)

(* What the guardlet refuses nothing of, as the lemmas about its commands  *)
(* take it.                                                                *)
LEMMA PublishedApplicable ==
  ASSUME TypeInv, machine \in PeerNames, Applicable(Published)
  PROVE  /\ Published.endpoint.port \in Ports
         /\ Published.address \in Address \cup {None} /\ ~ AddressRefused(Published.address)
         /\ \A p \in DOMAIN Published.peers :
              Published.peers[p] \in Entry /\ Published.peers[p].publicKey \in PublicKeys
         /\ DOMAIN Published.peers \subseteq PeerNames
         /\ AllPrefixes(Published) \subseteq Prefixes
<1>1. /\ Published.address \in Address \cup {None}
      /\ DOMAIN Published.peers \subseteq PeerNames
      /\ \A p \in DOMAIN Published.peers : Published.peers[p] \in Entry
  BY PublishedFields
<1>2. AllPrefixes(Published) \subseteq Prefixes
  BY <1>1 DEF AllPrefixes, Entry
<1> QED
  BY <1>1, <1>2, PublishedChecked DEF Applicable

LEMMA GuardletReconcilesAll ==
  ASSUME TypeInv, DeviceInv, GuardletReconciles, Applicable(Published), Distinct(Published)
  PROVE  Applied(device', Published) /\ Routed(device', Published)
<1> DEFINE o == Published
           configured == Configured(device, o, NameOrder)[Len(NameOrder)]
           up == Up(Addressed(configured, o), o, AllPrefixes(o))
<1>1. device \in Device
  BY DEF DeviceInv, Good
<1>2. /\ o.endpoint.port \in Ports
      /\ o.address \in Address \cup {None} /\ ~ AddressRefused(o.address)
      /\ \A p \in DOMAIN o.peers : o.peers[p] \in Entry /\ o.peers[p].publicKey \in PublicKeys
      /\ DOMAIN o.peers \subseteq PeerNames
      /\ AllPrefixes(o) \subseteq Prefixes
  BY PublishedApplicable DEF DeviceInv
<1>3. Len(NameOrder) \in Nat /\ DOMAIN NameOrder = 1..Len(NameOrder)
  BY VpnAssumption, LenProperties
<1>4. \A p \in DOMAIN o.peers : \E i \in 1..Len(NameOrder) : NameOrder[i] = p
  BY <1>2, <1>3, VpnAssumption
<1>5. device' = up
  BY DEF GuardletReconciles, Applicable
<1> HIDE DEF o
<1>6. Distinct(o)
  BY DEF o
<1>7. /\ configured \in Device
      /\ configured.exists /\ configured.key /\ configured.port = o.endpoint.port
      /\ \A p \in DOMAIN o.peers :
           (\E i \in 1..Len(NameOrder) : NameOrder[i] = p) => EntryApplied(configured, o.peers[p])
  BY <1>1, <1>2, <1>3, <1>6, ConfiguredApplies
<1> HIDE DEF configured
<1>8. /\ up.exists /\ up.key /\ up.port = o.endpoint.port
      /\ up.peers = configured.peers /\ up.endpoints = configured.endpoints
      /\ up.allowed = configured.allowed
      /\ up.up /\ ipMask(o.address) \in up.addresses
      /\ \A s \in Prefixes : s \in AllPrefixes(o) => up.routes[s] # None
  BY <1>2, <1>7, UpFields
<1> HIDE DEF up
<1>9. \A p \in DOMAIN o.peers : EntryApplied(up, o.peers[p])
  BY <1>4, <1>7, <1>8 DEF EntryApplied
<1>10. Applied(up, o) /\ Routed(up, o)
  BY <1>2, <1>8, <1>9 DEF Applied, Routed
<1> QED
  BY <1>5, <1>10 DEF o

LEMMA GuardletStopsKeepsAll ==
  ASSUME TypeInv, DeviceInv, GuardletStops, Applicable(Published), Distinct(Published),
         Applied(device, Published), Routed(device, Published)
  PROVE  Applied(device', Published) /\ Routed(device', Published)
<1> DEFINE o == Published
<1>1. device \in Device
  BY DEF DeviceInv, Good
<1>2. /\ o.endpoint.port \in Ports
      /\ \A p \in DOMAIN o.peers : o.peers[p] \in Entry /\ o.peers[p].publicKey \in PublicKeys
  BY PublishedApplicable DEF DeviceInv
<1>3. Len(NameOrder) \in Nat
  BY VpnAssumption, LenProperties
<1>4. PICK i \in 0..Len(NameOrder) : device' = Configured(device, o, NameOrder)[i]
  BY DEF GuardletStops
<1> HIDE DEF o
<1>5. Distinct(o) /\ Applied(device, o) /\ Routed(device, o)
  BY DEF o
<1>6. device.exists /\ device.up /\ ipMask(o.address) \in device.addresses
      /\ \A p \in DOMAIN o.peers : EntryApplied(device, o.peers[p])
  BY <1>5 DEF Applied
<1> DEFINE new == Configured(device, o, NameOrder)[i]
<1>7. /\ new.exists /\ new.key /\ new.port = o.endpoint.port
      /\ device.exists => /\ new.up = device.up /\ new.addresses = device.addresses
                          /\ new.routes = device.routes
      /\ \A p \in DOMAIN o.peers :
           device.exists /\ EntryApplied(device, o.peers[p]) => EntryApplied(new, o.peers[p])
  BY <1>1, <1>2, <1>3, <1>5, ConfiguredApplies
<1> HIDE DEF new
<1>8. Applied(new, o) /\ Routed(new, o)
  BY <1>5, <1>6, <1>7 DEF Applied, Routed
<1> QED
  BY <1>4, <1>8 DEF o, new

LEMMA ReconciledStep ==
  ASSUME TypeInv, DeviceInv, Reconciled, [VpnNext]_vpnVars
  PROVE  Reconciled'
<1>1. CASE /\ Next \/ UNCHANGED vpnVars
           /\ device' = device
           /\ reconciled' => reconciled /\ Published' = Published
  BY <1>1 DEF Reconciled
<1>2. ASSUME UNCHANGED <<vars, machine>>
      PROVE  Published' = Published
  BY <1>2 DEF Published, vars, serverVars
<1>3. CASE Reboot /\ UNCHANGED <<vars, machine>>
  BY <1>3 DEF Reboot, Reconciled
<1>4. CASE GuardletStops /\ UNCHANGED <<vars, machine>>
  <2>1. Published' = Published /\ reconciled' = reconciled
    BY <1>2, <1>4 DEF GuardletStops
  <2> QED
    BY <1>4, <2>1, GuardletStopsKeepsAll DEF Reconciled
<1>5. CASE GuardletReconciles /\ UNCHANGED <<vars, machine>>
  BY <1>2, <1>5, GuardletReconcilesAll DEF Reconciled
<1>6. CASE UNCHANGED vpnVars
  <2>1. Published' = Published
    BY <1>2, <1>6 DEF vpnVars
  <2> QED
    BY <1>1, <1>6, <2>1 DEF vpnVars
<1> QED
  BY <1>1, <1>3, <1>4, <1>5, <1>6 DEF VpnNext

-----------------------------------------------------------------------------
(* Once all has settled.                                                   *)

(* A peer that is to be a member of a network with an address is one, and  *)
(* has the configuration that the resources call for.                      *)
LEMMA SettledMember ==
  ASSUME TypeInv, NEW p \in PeerNames, NEW n \in NetworkNames,
         PeerSettled(p), Addressable(p, n)
  PROVE  LET status == peers[p].status
         IN  /\ peers[p].live /\ status.network = n
             /\ status.address \in Address /\ ~ AddressRefused(status.address)
             /\ \/ ConfigurationFails(p, peers[p], peers)
                \/ status.peers = [q \in PeerNames |->
                     IF q \in Reachable(p, peers[p], peers)
                       THEN Configuration(q, peers[q], routes)
                       ELSE None]
<1> DEFINE peer == peers[p]
           m == peer.status.network
           unmatched == ~ \E x \in NetworkNames :
                            allocateNetwork(p, peer.spec.labels, networks, x)
           unserved == ~ networks[m].live \/ Unaddressable(p, m)
           configured == \/ ~ networks[m].live
                         \/ ConfigurationFails(p, peer, peers)
                         \/ peer.status.peers = [q \in PeerNames |->
                              IF q \in Reachable(p, peer, peers)
                                THEN Configuration(q, peers[q], routes)
                                ELSE None]
<1>1. peer.live /\ networks[n].live
  BY DEF Addressable
<1>2. /\ m = None => unmatched
      /\ m # None /\ peer.status.address = None => unserved
      /\ m # None /\ peer.status.address # None => configured
  <2>1. CASE m = None
    BY <1>1, <2>1 DEF PeerSettled
  <2>2. CASE m # None /\ peer.status.address = None
    BY <1>1, <2>2 DEF PeerSettled
  <2>3. CASE m # None /\ peer.status.address # None
    BY <1>1, <2>3 DEF PeerSettled
  <2> QED
    BY <2>1, <2>2, <2>3
<1>3. n # None
  BY NoneAssumption
<1>4. m = n
  BY <1>2 DEF Addressable
<1>5. peer.status.address # None
  BY <1>1, <1>2, <1>3, <1>4 DEF Addressable
<1>6. peer.status.address \in Address
  <2>1. peer \in Peer
    BY DEF TypeInv, TypeOK, ClusterTypeOK
  <2> HIDE DEF peer
  <2> QED
    BY <1>5, <2>1, PeerFields, PeerStatusFields
<1>7. ~ AddressRefused(peer.status.address)
  BY <1>5 DEF Addressable
<1> QED
  BY <1>1, <1>2, <1>3, <1>4, <1>5, <1>6, <1>7

(* Then the machine's Peer has an entry for exactly the reachable members. *)
LEMMA SettledEntries ==
  ASSUME TypeInv, machine \in PeerNames, NEW n \in NetworkNames,
         PeerSettled(machine), Addressable(machine, n), Fit
  PROVE  /\ DOMAIN Published.peers = Reachable(machine, peers[machine], peers)
         /\ \A q \in DOMAIN Published.peers :
              LET address == peers[q].status.address
                  endpoint == peers[q].spec.endpoint
              IN  /\ q \in PeerNames \ {machine} /\ peers[q].live /\ address # None
                  /\ Published.peers[q].publicKey = peers[q].spec.publicKey
                  /\ Published.peers[q].endpoint =
                       IF endpoint.host # None THEN endpoint ELSE None
                  /\ splitNetMask(address)[1] \in HostAddress
                  /\ Published.peers[q].allowedIPs =
                       {splitNetMask(address)[1]} \cup Exposed(q)
<1> DEFINE here == peers[machine]
           R == Reachable(machine, here, peers)
           cfg == here.status.peers
<1>1. here.live /\ \/ ConfigurationFails(machine, here, peers)
                   \/ cfg = [q \in PeerNames |-> IF q \in R THEN Configuration(q, peers[q], routes)
                                                 ELSE None]
  BY SettledMember
<1>2. ~ ConfigurationFails(machine, here, peers)
  BY <1>1 DEF ConfigurationFails, Neighbours, Fit
<1>3. \A q \in PeerNames : cfg[q] = IF q \in R THEN Configuration(q, peers[q], routes) ELSE None
  BY <1>1, <1>2
<1>4. \A q \in R : q \in PeerNames \ {machine} /\ peers[q].live /\ peers[q].status.address # None
  BY DEF Reachable, Neighbours
<1>5. peers \in [PeerNames -> Peer] /\ routes \in [RouteNames -> RouteBinding]
  BY DEF TypeInv, TypeOK, ClusterTypeOK
<1> HIDE DEF R
<1>6. \A q \in R : Configuration(q, peers[q], routes) \in PeerConfiguration
  BY <1>4, <1>5, ConfigurationTyped
<1>7. \A q \in PeerNames : q \in R <=> cfg[q] # None
  BY <1>3, <1>6, VpnAssumption
<1>8. DOMAIN Published.peers = R
  BY <1>4, <1>7, PublishedFields
<1>9. ASSUME NEW q \in R
      PROVE  LET address == peers[q].status.address
                 endpoint == peers[q].spec.endpoint
             IN  /\ Published.peers[q].publicKey = peers[q].spec.publicKey
                 /\ Published.peers[q].endpoint = IF endpoint.host # None THEN endpoint ELSE None
                 /\ splitNetMask(address)[1] \in HostAddress
                 /\ Published.peers[q].allowedIPs = {splitNetMask(address)[1]} \cup Exposed(q)
  <2> DEFINE c == Configuration(q, peers[q], routes)
  <2>1. c \in PeerConfiguration /\ cfg[q] = c
    BY <1>3, <1>4, <1>6
  <2>2. /\ c.publicKey = peers[q].spec.publicKey
        /\ c.endpoint = IF peers[q].spec.endpoint.host # None
                          THEN peers[q].spec.endpoint ELSE None
        /\ c.allowedIP = splitNetMask(peers[q].status.address)[1]
        /\ c.routes = Exposed(q)
    BY DEF Configuration, Exposed
  <2> HIDE DEF c
  <2>3. c.allowedIP \in HostAddress
    BY <2>1 DEF PeerConfiguration
  <2>4. /\ Published.peers[q].publicKey = c.publicKey
        /\ Published.peers[q].endpoint = c.endpoint
        /\ Published.peers[q].allowedIPs = {c.allowedIP} \cup c.routes
    BY <1>8, <2>1, PublishedFields
  <2> QED
    BY <2>2, <2>3, <2>4
<1> QED
  BY <1>4, <1>8, <1>9 DEF R

(* The guardlet refuses nothing of it, and no two entries get in each      *)
(* other's way.                                                            *)
LEMMA SettledApplicable ==
  ASSUME TypeInv, machine \in PeerNames, NEW n \in NetworkNames,
         PeerSettled(machine), Addressable(machine, n), Fit
  PROVE  Applicable(Published) /\ Distinct(Published)
<1> DEFINE o == Published
           Prefix(q) == splitNetMask(peers[q].status.address)[1]
<1>1. /\ peers[machine].live /\ o.endpoint = peers[machine].spec.endpoint
      /\ ~ AddressRefused(o.address)
  BY SettledMember, PublishedFields
<1>2. \A q \in DOMAIN o.peers :
        /\ q \in PeerNames /\ peers[q].live /\ peers[q].status.address # None
        /\ o.peers[q].publicKey = peers[q].spec.publicKey
        /\ o.peers[q].endpoint # None => o.peers[q].endpoint = peers[q].spec.endpoint
        /\ Prefix(q) \in HostAddress
        /\ o.peers[q].allowedIPs = {Prefix(q)} \cup Exposed(q)
  BY SettledEntries
<1>3. \A q \in PeerNames : Prefix(q).ip = peers[q].status.address.ip
  BY DEF splitNetMask
<1> HIDE DEF o, Prefix
<1>4. ~ buildCfgArgsFails(o)
  BY <1>1, <1>2 DEF buildCfgArgsFails, Fit
<1>5. ASSUME NEW p \in DOMAIN o.peers, NEW q \in DOMAIN o.peers, p # q
      PROVE  /\ o.peers[p].publicKey # o.peers[q].publicKey
             /\ o.peers[p].allowedIPs \cap o.peers[q].allowedIPs = {}
  <2>1. /\ peers[p].spec.publicKey # peers[q].spec.publicKey
        /\ peers[p].status.address.ip # peers[q].status.address.ip
        /\ Exposed(p) \cap Exposed(q) = {}
        /\ Exposed(p) \cap HostAddress = {} /\ Exposed(q) \cap HostAddress = {}
    BY <1>2, <1>5 DEF Fit
  <2>2. Prefix(p) # Prefix(q)
    BY <1>2, <1>3, <2>1
  <2> QED
    BY <1>2, <2>1, <2>2
<1>6. Distinct(o)
  BY <1>5 DEF Distinct
<1> QED
  BY <1>1, <1>4, <1>6 DEF Applicable, o

(* What the guardlet then has applied connects the machine.                *)
LEMMA SettledConnects ==
  ASSUME TypeInv, machine \in PeerNames, Reconciled, Settled, reconciled, Fit,
         NEW q \in PeerNames, ToConnect(machine, q)
  PROVE  ConnectedTo(q)
<1> DEFINE o == Published
           e == Published.peers[q]
           address == peers[q].status.address
           endpoint == peers[q].spec.endpoint
<1>1. PICK n \in NetworkNames : Addressable(machine, n) /\ Addressable(q, n)
  BY DEF ToConnect
<1>2. PeerSettled(machine) /\ PeerSettled(q)
  BY DEF Settled
<1>3. /\ peers[machine].status.network = n /\ peers[machine].live
      /\ peers[q].live /\ peers[q].status.network = n /\ address # None
  BY <1>1, <1>2, SettledMember DEF AddressRefused
<1>4. q \in Reachable(machine, peers[machine], peers)
  BY <1>3 DEF Reachable, Neighbours, ToConnect
<1>5. /\ q \in DOMAIN o.peers
      /\ e.publicKey = peers[q].spec.publicKey
      /\ e.endpoint = IF endpoint.host # None THEN endpoint ELSE None
      /\ e.allowedIPs = {splitNetMask(address)[1]} \cup Exposed(q)
  BY <1>1, <1>2, <1>4, SettledEntries
<1>6. Applied(device, o) /\ Routed(device, o)
  BY <1>1, <1>2, SettledApplicable DEF Reconciled
<1>7. e.allowedIPs \subseteq Prefixes
  BY <1>5, PublishedFields DEF Entry
<1>8. endpoint \in Endpoint
  <2>1. peers[q] \in Peer
    BY DEF TypeInv, TypeOK, ClusterTypeOK
  <2> QED
    BY <2>1, PeerFields DEF PeerSpec
<1>9. EntryApplied(device, e)
  BY <1>5, <1>6 DEF Applied
<1> HIDE DEF e
<1>10. \A s \in e.allowedIPs : device.routes[s] # None
  BY <1>5, <1>6 DEF Routed, AllPrefixes, e
<1>11. \A s \in e.allowedIPs : device.allowed[s] = peers[q].spec.publicKey
  BY <1>5, <1>7, <1>9 DEF EntryApplied
<1>12. endpoint.host # None => device.endpoints[peers[q].spec.publicKey] = endpoint
  BY <1>5, <1>8, <1>9, VpnAssumption DEF EntryApplied
<1>13. /\ device.up /\ device.port = peers[machine].spec.endpoint.port
       /\ ipMask(peers[machine].status.address) \in device.addresses
  BY <1>6, PublishedFields DEF Applied
<1> QED
  BY <1>3, <1>5, <1>10, <1>11, <1>12, <1>13 DEF ConnectedTo

(* The promises of the parts add up to that of the whole: whenever the     *)
(* control plane has settled and the guardlet has come to the end of a     *)
(* Reconcile of what it published, the machine is connected to every peer  *)
(* it is to be connected to, whatever earlier versions left on its device  *)
(* (computePeerConfigurations, buildCfgArgs, addRoutes).                   *)
THEOREM Connected == VpnSpec => []ConnectedWhenSettled
<1>1. VpnInit => Reconciled
  BY DEF VpnInit, Reconciled
<1>2. TypeInv /\ DeviceInv /\ Reconciled /\ [VpnNext]_vpnVars => Reconciled'
  BY ReconciledStep
<1>3. TypeInv /\ DeviceInv /\ Reconciled => ConnectedWhenSettled
  BY SettledConnects DEF DeviceInv, ConnectedWhenSettled
<1> QED
  BY <1>1, <1>2, <1>3, DeviceIsGood, PTL DEF VpnSpec

-----------------------------------------------------------------------------
(* Mutual configuration. The entries of a settled member, addressed or not *)
(* yet.                                                                    *)
LEMMA SettledEntry ==
  ASSUME TypeInv, CopiesKeyed, NEW p \in PeerNames, NEW q \in PeerNames, p # q,
         PeerSettled(p), peers[p].live, peers[q].live,
         peers[p].status.network # None, networks[peers[p].status.network].live,
         peers[q].status.network = peers[p].status.network,
         \A x \in PeerNames : peers[x].live => ~ SplitHostPortFails(peers[x].spec.endpoint)
  PROVE  peers[p].status.peers[q] # None <=>
           /\ peers[p].status.address # None /\ peers[q].status.address # None
           /\ peers[p].spec.endpoint.host # None \/ peers[q].spec.endpoint.host # None
<1>1. EntriesKeyed(p, peers[p].status)
  BY DEF CopiesKeyed, Keyed
<1>2. CASE peers[p].status.address = None
  BY <1>1, <1>2 DEF EntriesKeyed
<1>3. CASE peers[p].status.address # None
  <2>1. ~ ConfigurationFails(p, peers[p], peers)
    BY DEF ConfigurationFails, Neighbours
  <2>2. peers[p].status.peers =
          [x \in PeerNames |-> IF x \in Reachable(p, peers[p], peers)
                                 THEN Configuration(x, peers[x], routes) ELSE None]
    BY <1>3, <2>1 DEF PeerSettled
  <2>3. q \in Reachable(p, peers[p], peers) <=>
          /\ peers[q].status.address # None
          /\ peers[p].spec.endpoint.host # None \/ peers[q].spec.endpoint.host # None
    BY DEF Reachable, Neighbours
  <2>4. q \in Reachable(p, peers[p], peers) => peers[p].status.peers[q] # None
    <3> SUFFICES ASSUME q \in Reachable(p, peers[p], peers) PROVE peers[p].status.peers[q] # None
      OBVIOUS
    <3>1. peers[p].status.peers[q] = Configuration(q, peers[q], routes)
      BY <2>2
    <3>2. Configuration(q, peers[q], routes) \in PeerConfiguration
      BY <2>3, ConfigurationTyped DEF TypeInv, TypeOK, ClusterTypeOK
    <3> QED
      BY <3>1, <3>2, VpnAssumption
  <2>5. q \notin Reachable(p, peers[p], peers) => peers[p].status.peers[q] = None
    BY <2>2
  <2> QED
    BY <1>3, <2>3, <2>4, <2>5
<1> QED
  BY <1>2, <1>3

(* Settled statuses are mutual: an entry depends on the two addresses and  *)
(* the two endpoints alike, and no one has entries before an address       *)
(* (computePeerConfigurations, peer_controller.go:166-215).                *)
THEOREM SettledIsMutual == Spec => []((\A p \in PeerNames : PeerSettled(p)) => MeshIsMutual)
<1>1. TypeInv /\ CopiesKeyed => ((\A p \in PeerNames : PeerSettled(p)) => MeshIsMutual)
  <2> SUFFICES ASSUME TypeInv, CopiesKeyed, \A p \in PeerNames : PeerSettled(p),
                      \A p \in PeerNames :
                        peers[p].live => ~ SplitHostPortFails(peers[p].spec.endpoint),
                      NEW p \in PeerNames, NEW q \in PeerNames,
                      peers[p].live, peers[q].live, peers[p].status.network # None,
                      peers[p].status.network = peers[q].status.network,
                      networks[peers[p].status.network].live
               PROVE  peers[p].status.peers[q] # None <=> peers[q].status.peers[p] # None
    BY DEF MeshIsMutual
  <2>1. CASE p = q
    BY <2>1
  <2>2. CASE p # q
    BY <2>2, SettledEntry
  <2> QED
    BY <2>1, <2>2
<1> QED
  BY <1>1, TypeInvariant, EntriesHaveTheirKeys, PTL

(* So the mesh becomes mutual for good when the statuses settle for good,  *)
(* whatever it is that makes them settle.                                  *)
THEOREM MutualWhenSettled == Spec /\ EventuallySettled => EventuallyMutual
BY SettledIsMutual, PTL DEF EventuallySettled, EventuallyMutual
=============================================================================
