-------------------------- MODULE QuiescenceProofs --------------------------
(***************************************************************************)
(* The proof that no wake-up is lost: when nothing is under way any more,  *)
(* every peer that could have an address of its network has it, without    *)
(* any resync.                                                             *)
(*                                                                         *)
(* Whatever is still to be done for a peer is awaited: an event about the  *)
(* peer or its network is still to be delivered, or a request of the       *)
(* controller in charge is queued, or its Reconcile is under way with the  *)
(* stored object in hand. An event that is delivered turns into requests,  *)
(* and the mapper that chooses them reads a cache that shows the stored    *)
(* object unless another event is still to come.                           *)
(***************************************************************************)
EXTENDS RefinementProofs, WellFoundedInduction

(* An event about x is still to be delivered.                              *)
Pending(x, events) == \E i \in 1..Len(events) : events[i].name = x

(* The cache shows the stored objects, or events that make it so are still *)
(* to be delivered: the last event about an object carries what is stored. *)
Trails(cached, events, objects) ==
  /\ \A x \in DOMAIN objects : ~ Pending(x, events) => cached[x] = objects[x]
  /\ \A i \in 1..Len(events) :
       (\A j \in 1..Len(events) : i < j => events[j].name # events[i].name)
         => events[i].object = objects[events[i].name]

CachesTrail ==
  /\ Trails(cachedPeers, peerEvents, peers)
  /\ Trails(cachedNetworks, networkEvents, networks)

(* Peer p is a member of n that n has no allocation for, but could have.   *)
ToAllocate(p, n) ==
  /\ peers[p].live /\ peers[p].status.network = n /\ networks[n].live
  /\ ~ \E alloc \in networks[n].allocations : alloc.name = p
  /\ \E i \in DOMAIN networks[n].rules :
       MatchesRule(p, peers[p].spec.labels, networks[n].rules[i])

(* It will: an event or a request is under way that leads to a Reconcile   *)
(* of n, or one is under way that has read what is stored.                 *)
AllocationAwaited(p, n) ==
  \/ Pending(p, peerEvents) \/ Pending(n, networkEvents) \/ n \in networkQueue
  \/ nr.pc # "idle" /\ nr.name = n /\ nr.instance = networks[n]

(* Peer p is a member of n without the address that n has allocated to it. *)
ToAddress(p, n) ==
  /\ peers[p].live /\ peers[p].status.network = n /\ networks[n].live
  /\ peers[p].status.address = None
  /\ \E alloc \in networks[n].allocations : alloc.name = p /\ alloc.address # None

AddressAwaited(p, n) ==
  \/ Pending(p, peerEvents) \/ Pending(n, networkEvents) \/ p \in peerQueue
  \/ pr.pc \in {"address", "update"} /\ pr.name = p /\ pr.instance = peers[p]

(* No wake-up is lost: whatever is still to be done is awaited.            *)
WakeUps ==
  \A p \in PeerNames, n \in NetworkNames :
    /\ ToAllocate(p, n) => AllocationAwaited(p, n)
    /\ ToAddress(p, n) => AddressAwaited(p, n)

(* Every record has one address per name, deleted networks or not.         *)
RecordsOneEach == \A n \in NetworkNames : OneEach(networks[n].allocations)

-----------------------------------------------------------------------------
(* Sets of numbers have a least element: the first rule, the first name.   *)
LEMMA LeastOne ==
  ASSUME NEW S \in SUBSET Nat, S # {}
  PROVE  \E i \in S : \A j \in S : i <= j
<1> DEFINE less == {ss \in Nat \X Nat : ss[1] < ss[2]}
<1>1. IsWellFoundedOn(OpToRel(<, Nat), Nat)
  BY NatLessThanWellFounded
<1>2. OpToRel(<, Nat) = less
  BY DEF OpToRel
<1>3. IsWellFoundedOn(less, Nat)
  BY <1>1, <1>2
<1>4. \A x, y \in Nat : ~ (<<y, x>> \in less) => x <= y
  OBVIOUS
<1> HIDE DEF less
<1>5. PICK x \in S : \A y \in S : ~ (<<y, x>> \in less)
  BY <1>3, WFMin
<1> QED
  BY <1>4, <1>5

(* Where a rule matches, allocateIP finds the first that does.             *)
LEMMA allocateIPFinds ==
  ASSUME NEW p, NEW labels, NEW rules \in NetworkSpec,
         \E i \in DOMAIN rules : MatchesRule(p, labels, rules[i])
  PROVE  \E a \in Address \cup {None} : allocateIP(p, labels, rules, a)
<1> DEFINE matching == {i \in DOMAIN rules : MatchesRule(p, labels, rules[i])}
<1>1. DOMAIN rules = 1..Len(rules) /\ Len(rules) \in Nat
  BY LenProperties DEF NetworkSpec
<1>2. matching \in SUBSET Nat /\ matching # {}
  BY <1>1
<1>3. PICK i \in matching : \A j \in matching : i <= j
  <2> HIDE DEF matching
  <2> QED
    BY <1>2, LeastOne
<1>4. \A j \in 1..(i - 1) : ~ MatchesRule(p, labels, rules[j])
  BY <1>1, <1>3
<1>5. rules[i] \in AllocationRule
  BY <1>1, <1>3, ElementOfSeq DEF NetworkSpec
<1>6. rules[i].address \in Address \cup {None}
  BY <1>5 DEF AllocationRule
<1> QED
  BY <1>3, <1>4, <1>6 DEF allocateIP

-----------------------------------------------------------------------------
(* Events under way.                                                       *)
LEMMA PendingAppend ==
  ASSUME NEW S, NEW events \in Seq(S), NEW e \in S, NEW x
  PROVE  Pending(x, Append(events, e)) <=> Pending(x, events) \/ e.name = x
<1> DEFINE all == Append(events, e)
<1>1. /\ Len(all) = Len(events) + 1 /\ Len(events) \in Nat
      /\ all[Len(events) + 1] = e
      /\ \A i \in 1..Len(events) : all[i] = events[i]
  BY AppendProperties
<1> HIDE DEF all
<1> QED
  BY <1>1 DEF Pending, all

LEMMA PendingTail ==
  ASSUME NEW S, NEW events \in Seq(S), events # <<>>, NEW x
  PROVE  Pending(x, events) <=> Head(events).name = x \/ Pending(x, Tail(events))
<1> DEFINE e == Head(events)
           rest == Tail(events)
<1>1. /\ e = events[1] /\ Len(events) \in Nat /\ Len(events) >= 1
      /\ Len(rest) = Len(events) - 1
      /\ \A i \in 1..Len(rest) : rest[i] = events[i + 1]
  BY HeadTailProperties, EmptySeq
<1>2. \A i \in 1..Len(events) : i = 1 \/ i - 1 \in 1..Len(rest)
  BY <1>1
<1>3. \A i \in 1..Len(rest) : i + 1 \in 1..Len(events)
  BY <1>1
<1> HIDE DEF e, rest
<1>4. Pending(x, events) => e.name = x \/ Pending(x, rest)
  <2> SUFFICES ASSUME NEW i \in 1..Len(events), events[i].name = x, e.name # x
               PROVE  Pending(x, rest)
    BY DEF Pending
  <2>1. i # 1 /\ i - 1 \in 1..Len(rest)
    BY <1>1, <1>2
  <2>2. rest[i - 1] = events[i]
    BY <1>1, <2>1
  <2> QED
    BY <2>1, <2>2 DEF Pending
<1>5. e.name = x => Pending(x, events)
  BY <1>1 DEF Pending
<1>6. Pending(x, rest) => Pending(x, events)
  BY <1>1, <1>3 DEF Pending
<1> QED
  BY <1>4, <1>5, <1>6 DEF e, rest

(* A write is announced, a delivery brings the cache up to date.           *)
LEMMA TrailsWrite ==
  ASSUME NEW Name, NEW Object, NEW objects \in [Name -> Object],
         NEW cached \in [Name -> Object],
         NEW events \in Seq([name: Name, object: Object]),
         NEW x \in Name, NEW o \in Object, Trails(cached, events, objects)
  PROVE  Trails(cached, Append(events, [name |-> x, object |-> o]),
                [objects EXCEPT ![x] = o])
<1> DEFINE e == [name |-> x, object |-> o]
           all == Append(events, e)
           new == [objects EXCEPT ![x] = o]
<1>0. e \in [name: Name, object: Object]
  OBVIOUS
<1>1. /\ Len(all) = Len(events) + 1 /\ Len(events) \in Nat
      /\ all[Len(events) + 1] = e
      /\ \A i \in 1..Len(events) : all[i] = events[i]
  BY <1>0, AppendProperties
<1>2. \A y : Pending(y, all) <=> Pending(y, events) \/ e.name = y
  BY <1>0, PendingAppend
<1>3. /\ DOMAIN new = Name /\ DOMAIN objects = Name /\ new[x] = o
      /\ \A y \in Name : y # x => new[y] = objects[y]
  OBVIOUS
<1>4. \A i \in 1..Len(events) : events[i].name \in Name
  <2> TAKE i \in 1..Len(events)
  <2>1. events[i] \in [name: Name, object: Object]
    BY ElementOfSeq
  <2> QED
    BY <2>1
<1>5. e.name = x /\ e.object = o
  OBVIOUS
<1> HIDE DEF all, new, e
<1>6. \A y \in DOMAIN new : ~ Pending(y, all) => cached[y] = new[y]
  BY <1>2, <1>3, <1>5 DEF Trails
<1>7. ASSUME NEW i \in 1..Len(all),
             \A j \in 1..Len(all) : i < j => all[j].name # all[i].name
      PROVE  all[i].object = new[all[i].name]
  <2>1. CASE i = Len(events) + 1
    BY <1>1, <1>3, <1>5, <2>1
  <2>2. CASE i \in 1..Len(events)
    <3>1. all[i] = events[i] /\ i < Len(events) + 1 /\ Len(events) + 1 \in 1..Len(all)
      BY <1>1, <2>2
    <3>2. events[i].name # x
      BY <1>1, <1>5, <1>7, <3>1
    <3>3. \A j \in 1..Len(events) : i < j => events[j].name # events[i].name
      BY <1>1, <1>7, <3>1
    <3>4. events[i].object = objects[events[i].name]
      BY <2>2, <3>3 DEF Trails
    <3> QED
      BY <1>3, <1>4, <2>2, <3>1, <3>2, <3>4
  <2> QED
    BY <1>1, <1>7, <2>1, <2>2
<1> QED
  BY <1>6, <1>7 DEF Trails, all, new, e

LEMMA TrailsDeliver ==
  ASSUME NEW Name, NEW Object, NEW objects \in [Name -> Object],
         NEW cached \in [Name -> Object],
         NEW events \in Seq([name: Name, object: Object]), events # <<>>,
         Trails(cached, events, objects)
  PROVE  Trails([cached EXCEPT ![Head(events).name] = Head(events).object],
                Tail(events), objects)
<1> DEFINE e == Head(events)
           rest == Tail(events)
           new == [cached EXCEPT ![e.name] = e.object]
<1>1. /\ e = events[1] /\ Len(events) \in Nat /\ Len(events) >= 1
      /\ Len(rest) = Len(events) - 1
      /\ \A i \in 1..Len(rest) : rest[i] = events[i + 1]
      /\ e \in [name: Name, object: Object]
  <2> DEFINE Event == [name: Name, object: Object]
  <2>1. events \in Seq(Event)
    OBVIOUS
  <2> HIDE DEF Event
  <2>2. e \in Event
    BY <2>1, HeadTailProperties
  <2>3. /\ e = events[1] /\ Len(events) \in Nat /\ Len(events) >= 1
        /\ Len(rest) = Len(events) - 1
        /\ \A i \in 1..Len(rest) : rest[i] = events[i + 1]
    BY <2>1, HeadTailProperties, EmptySeq
  <2> QED
    BY <2>2, <2>3 DEF Event
<1>2. \A y : Pending(y, events) <=> e.name = y \/ Pending(y, rest)
  BY PendingTail
<1>3. /\ new[e.name] = e.object /\ DOMAIN objects = Name
      /\ \A y \in Name : y # e.name => new[y] = cached[y]
  BY <1>1
<1>4. \A i \in 1..Len(rest) : i + 1 \in 1..Len(events)
  BY <1>1
<1>5. \A i \in 1..Len(events) : i = 1 \/ i - 1 \in 1..Len(rest)
  BY <1>1
<1> HIDE DEF e, rest, new
<1>6. ASSUME NEW y \in Name, ~ Pending(y, rest)
      PROVE  new[y] = objects[y]
  <2>1. CASE y # e.name
    BY <1>2, <1>3, <1>6, <2>1 DEF Trails
  <2>2. CASE y = e.name
    <3>1. \A j \in 1..Len(events) : 1 < j => events[j].name # events[1].name
      <4> SUFFICES ASSUME NEW j \in 1..Len(events), 1 < j, events[j].name = y
                   PROVE  FALSE
        BY <1>1, <2>2
      <4>1. j - 1 \in 1..Len(rest) /\ rest[j - 1] = events[j]
        BY <1>1, <1>5
      <4> QED
        BY <1>6, <4>1 DEF Pending
    <3>2. events[1].object = objects[events[1].name]
      BY <1>1, <3>1 DEF Trails
    <3> QED
      BY <1>1, <1>3, <2>2, <3>2
  <2> QED
    BY <2>1, <2>2
<1>7. ASSUME NEW i \in 1..Len(rest),
             \A j \in 1..Len(rest) : i < j => rest[j].name # rest[i].name
      PROVE  rest[i].object = objects[rest[i].name]
  <2>1. i + 1 \in 1..Len(events) /\ rest[i] = events[i + 1]
    BY <1>1, <1>4
  <2>2. \A j \in 1..Len(events) : i + 1 < j => events[j].name # events[i + 1].name
    <3> SUFFICES ASSUME NEW j \in 1..Len(events), i + 1 < j
                 PROVE  events[j].name # events[i + 1].name
      OBVIOUS
    <3>1. j - 1 \in 1..Len(rest) /\ rest[j - 1] = events[j] /\ i < j - 1
      BY <1>1, <1>5
    <3> QED
      BY <1>7, <2>1, <3>1
  <2> QED
    BY <2>1, <2>2 DEF Trails
<1> QED
  BY <1>3, <1>6, <1>7 DEF Trails, e, rest, new

-----------------------------------------------------------------------------
(* What a step does to the events, the queues and the Reconciles.          *)
LEMMA OnlyNetworkMovers ==
  ASSUME Next,
         <<networks, networkEvents, cachedNetworks>>' # <<networks, networkEvents, cachedNetworks>>
  PROVE  \/ \E n \in NetworkNames : CreateNetwork(n) \/ EditNetwork(n) \/ DeleteNetwork(n)
         \/ NetworkUpdate \/ NetworkUpdateReplyLost \/ DeliverNetworkEvent \/ Restart
<1> USE DEF serverVars, eventVars, cacheVars
<1>1. CASE UserStep
  BY <1>1 DEF UserStep, CreatePeer, EditPeer, DeletePeer, ApplyRoute, DeleteRoute, UserEdits
<1>2. CASE PeerControllerStep \/ PeerControllerFault
  BY <1>2 DEF PeerControllerStep, PeerControllerFault, PeerGet, PeerAssignNetwork,
       PeerAssignAddress, PeerGetNetwork, PeerList, PeerListFails, PeerConfigure,
       PeerConfigured, PeerUpdate, PeerUpdateConflict, PeerError, PeerUpdateReplyLost, PeerRead
<1>3. CASE NetworkControllerStep \/ NetworkControllerFault
  BY <1>3 DEF NetworkControllerStep, NetworkControllerFault, NetworkGet, NetworkList,
              NetworkUpdateConflict, NetworkError
<1>4. CASE \/ DeliverPeerEvent \/ DeliverNetworkEvent \/ DeliverRouteEvent
           \/ ResyncPeers \/ ResyncNetworks \/ ResyncRoutes \/ Restart
  BY <1>4 DEF DeliverPeerEvent, DeliverRouteEvent, ResyncPeers, ResyncNetworks,
              ResyncRoutes, informerUnchanged
<1> QED
  BY <1>1, <1>2, <1>3, <1>4 DEF Next, PeerStep, NetworkStep, Fault

(* Every write of an object is announced.                                  *)
LEMMA PeerWriters ==
  ASSUME TypeInv, PeerInv,
         \/ \E p \in PeerNames : CreatePeer(p) \/ EditPeer(p) \/ DeletePeer(p)
         \/ PeerUpdate \/ PeerUpdateReplyLost
  PROVE  /\ \E p \in PeerNames, o \in Peer : WritePeer(p, o)
         /\ cachedPeers' = cachedPeers
<1>1. CASE PeerUpdate \/ PeerUpdateReplyLost
  BY <1>1, PeerStatusWrite DEF PeerUpdate, PeerUpdateReplyLost, cacheVars
<1>2. ASSUME NEW p \in PeerNames, CreatePeer(p) \/ EditPeer(p) \/ DeletePeer(p)
      PROVE  (\E o \in Peer : WritePeer(p, o)) /\ cachedPeers' = cachedPeers
  BY <1>2, UserPeerWrite
  DEF CreatePeer, EditPeer, DeletePeer, UserEdits, cacheVars, TypeInv, TypeOK, ClusterTypeOK
<1> QED
  BY <1>1, <1>2

LEMMA NetworkWriters ==
  ASSUME TypeInv, NetworkInv,
         \/ \E n \in NetworkNames : CreateNetwork(n) \/ EditNetwork(n) \/ DeleteNetwork(n)
         \/ NetworkUpdate \/ NetworkUpdateReplyLost
  PROVE  /\ \E n \in NetworkNames, o \in Network : WriteNetwork(n, o)
         /\ cachedNetworks' = cachedNetworks
<1>1. CASE NetworkUpdate \/ NetworkUpdateReplyLost
  BY <1>1, NetworkStatusWrite DEF NetworkUpdate, NetworkUpdateReplyLost, cacheVars
<1>2. ASSUME NEW n \in NetworkNames, CreateNetwork(n) \/ EditNetwork(n) \/ DeleteNetwork(n)
      PROVE  (\E o \in Network : WriteNetwork(n, o)) /\ cachedNetworks' = cachedNetworks
  BY <1>2, UserNetworkWrite
  DEF CreateNetwork, EditNetwork, DeleteNetwork, UserEdits, cacheVars, TypeInv, TypeOK,
      ClusterTypeOK
<1> QED
  BY <1>1, <1>2

LEMMA PeerEventPending ==
  ASSUME TypeInv, NEW p \in PeerNames, NEW o \in Peer, WritePeer(p, o), NEW x
  PROVE  /\ Pending(x, peerEvents') <=> Pending(x, peerEvents) \/ x = p
         /\ x # p => peers'[x] = peers[x]
<1>1. [name |-> p, object |-> o] \in PeerEvent
  BY DEF PeerEvent
<1>2. Pending(x, Append(peerEvents, [name |-> p, object |-> o]))
        <=> Pending(x, peerEvents) \/ [name |-> p, object |-> o].name = x
  BY <1>1, PendingAppend DEF TypeInv, TypeOK, ClusterTypeOK
<1> QED
  BY <1>2 DEF WritePeer, TypeInv, TypeOK, ClusterTypeOK

LEMMA NetworkEventPending ==
  ASSUME TypeInv, NEW n \in NetworkNames, NEW o \in Network, WriteNetwork(n, o), NEW x
  PROVE  /\ Pending(x, networkEvents') <=> Pending(x, networkEvents) \/ x = n
         /\ x # n => networks'[x] = networks[x]
<1>1. [name |-> n, object |-> o] \in NetworkEvent
  BY DEF NetworkEvent
<1>2. Pending(x, Append(networkEvents, [name |-> n, object |-> o]))
        <=> Pending(x, networkEvents) \/ [name |-> n, object |-> o].name = x
  BY <1>1, PendingAppend DEF TypeInv, TypeOK, ClusterTypeOK
<1> QED
  BY <1>2 DEF WriteNetwork, TypeInv, TypeOK, ClusterTypeOK

(* An object that changes is announced, and an announcement is only lost   *)
(* by being delivered or with the manager.                                 *)
LEMMA PeerEventsStep ==
  ASSUME TypeInv, PeerInv, [Next]_vars, NEW p \in PeerNames
  PROVE  /\ peers'[p] # peers[p] => Pending(p, peerEvents')
         /\ Pending(p, peerEvents) =>
              \/ Pending(p, peerEvents') \/ Restart
              \/ DeliverPeerEvent /\ Head(peerEvents).name = p
<1>1. CASE UNCHANGED <<peers, peerEvents, cachedPeers>>
  BY <1>1
<1>2. CASE \/ \E q \in PeerNames : CreatePeer(q) \/ EditPeer(q) \/ DeletePeer(q)
           \/ PeerUpdate \/ PeerUpdateReplyLost
  <2>1. PICK q \in PeerNames, o \in Peer : WritePeer(q, o)
    BY <1>2, PeerWriters
  <2> QED
    BY <2>1, PeerEventPending
<1>3. CASE DeliverPeerEvent
  <2>1. peers' = peers /\ peerEvents # <<>> /\ peerEvents' = Tail(peerEvents)
    BY <1>3 DEF DeliverPeerEvent, informerUnchanged, serverVars
  <2>2. Pending(p, peerEvents) => Head(peerEvents).name = p \/ Pending(p, Tail(peerEvents))
    BY <2>1, PendingTail DEF TypeInv, TypeOK, ClusterTypeOK
  <2> QED
    BY <1>3, <2>1, <2>2
<1>4. CASE Restart
  BY <1>4 DEF Restart, serverVars
<1>5. CASE UNCHANGED vars
  BY <1>1, <1>5 DEF vars, serverVars, eventVars, cacheVars
<1> QED
  BY <1>1, <1>2, <1>3, <1>4, <1>5, OnlyPeerMovers

LEMMA NetworkEventsStep ==
  ASSUME TypeInv, NetworkInv, [Next]_vars, NEW n \in NetworkNames
  PROVE  /\ networks'[n] # networks[n] => Pending(n, networkEvents')
         /\ Pending(n, networkEvents) =>
              \/ Pending(n, networkEvents') \/ Restart
              \/ DeliverNetworkEvent /\ Head(networkEvents).name = n
<1>1. CASE UNCHANGED <<networks, networkEvents, cachedNetworks>>
  BY <1>1
<1>2. CASE \/ \E m \in NetworkNames : CreateNetwork(m) \/ EditNetwork(m) \/ DeleteNetwork(m)
           \/ NetworkUpdate \/ NetworkUpdateReplyLost
  <2>1. PICK m \in NetworkNames, o \in Network : WriteNetwork(m, o)
    BY <1>2, NetworkWriters
  <2> QED
    BY <2>1, NetworkEventPending
<1>3. CASE DeliverNetworkEvent
  <2>1. networks' = networks /\ networkEvents # <<>> /\ networkEvents' = Tail(networkEvents)
    BY <1>3 DEF DeliverNetworkEvent, informerUnchanged, serverVars
  <2>2. Pending(n, networkEvents) =>
          Head(networkEvents).name = n \/ Pending(n, Tail(networkEvents))
    BY <2>1, PendingTail DEF TypeInv, TypeOK, ClusterTypeOK
  <2> QED
    BY <1>3, <2>1, <2>2
<1>4. CASE Restart
  BY <1>4 DEF Restart, serverVars
<1>5. CASE UNCHANGED vars
  BY <1>1, <1>5 DEF vars, serverVars, eventVars, cacheVars
<1> QED
  BY <1>1, <1>2, <1>3, <1>4, <1>5, OnlyNetworkMovers

(* A request is only taken off its queue by the worker or lost with the    *)
(* manager, and a Reconcile goes on until its status is written, puts its  *)
(* request back, or finds nothing to do.                                   *)
LEMMA NetworkRequestStep ==
  ASSUME TypeInv, [Next]_vars
  PROVE  /\ \A n \in networkQueue : n \in networkQueue' \/ NetworkGet(n) \/ Restart
         /\ nr.pc # "idle" =>
              \/ nr' = nr \/ Restart \/ NetworkList \/ NetworkUpdate \/ NetworkUpdateReplyLost
              \/ nr.name \in networkQueue'
<1>2. CASE UserStep
  BY <1>2 DEF UserStep, CreatePeer, EditPeer, DeletePeer, CreateNetwork, EditNetwork,
       DeleteNetwork, ApplyRoute, DeleteRoute, UserEdits, controllerVars, networkControllerVars
<1>3. CASE \/ DeliverPeerEvent \/ DeliverNetworkEvent \/ DeliverRouteEvent
           \/ ResyncPeers \/ ResyncNetworks \/ ResyncRoutes
  BY <1>3 DEF DeliverPeerEvent, DeliverNetworkEvent, DeliverRouteEvent, ResyncPeers,
       ResyncNetworks, ResyncRoutes, informerUnchanged
<1>4. CASE UNCHANGED networkControllerVars
  BY <1>4 DEF networkControllerVars
<1>5. ASSUME NEW n \in NetworkNames, NetworkGet(n)
      PROVE  nr.pc = "idle" /\ \A m \in networkQueue : m \in networkQueue' \/ m = n
  BY <1>5 DEF NetworkGet
<1>6. CASE NetworkList \/ NetworkUpdate \/ NetworkUpdateReplyLost
  BY <1>6 DEF NetworkList, NetworkUpdate, NetworkUpdateReplyLost
<1>7. CASE NetworkUpdateConflict \/ NetworkError
  BY <1>7 DEF NetworkUpdateConflict, NetworkError
<1>8. CASE UNCHANGED vars
  BY <1>4, <1>8 DEF vars, controllerVars
<1> QED
  BY <1>2, <1>3, <1>4, <1>5, <1>6, <1>7, <1>8
  DEF Next, PeerStep, NetworkStep, Fault, NetworkControllerStep, NetworkControllerFault

LEMMA PeerRequestStep ==
  ASSUME TypeInv, [Next]_vars
  PROVE  /\ \A p \in peerQueue : p \in peerQueue' \/ PeerGet(p) \/ Restart
         /\ pr.pc \in {"address", "update"} =>
              \/ pr' = pr \/ Restart \/ PeerAssignAddress \/ PeerUpdate \/ PeerUpdateReplyLost
              \/ pr.name \in peerQueue'
<1>1. CASE UserStep
  BY <1>1 DEF UserStep, CreatePeer, EditPeer, DeletePeer, CreateNetwork, EditNetwork,
       DeleteNetwork, ApplyRoute, DeleteRoute, UserEdits, controllerVars, peerControllerVars
<1>2. CASE \/ DeliverPeerEvent \/ DeliverNetworkEvent \/ DeliverRouteEvent
           \/ ResyncPeers \/ ResyncNetworks \/ ResyncRoutes
  BY <1>2 DEF DeliverPeerEvent, DeliverNetworkEvent, DeliverRouteEvent, ResyncPeers,
       ResyncNetworks, ResyncRoutes, informerUnchanged
<1>3. CASE UNCHANGED peerControllerVars
  BY <1>3 DEF peerControllerVars
<1>4. ASSUME NEW p \in PeerNames, PeerGet(p)
      PROVE  pr.pc = "idle" /\ \A q \in peerQueue : q \in peerQueue' \/ q = p
  BY <1>4 DEF PeerGet
<1>5. CASE \/ PeerAssignNetwork \/ PeerGetNetwork \/ PeerList \/ PeerConfigured
           \/ \E q \in PeerNames : PeerConfigure(q)
  BY <1>5 DEF PeerAssignNetwork, PeerGetNetwork, PeerList, PeerConfigured, PeerConfigure,
              PeerRead
<1>6. CASE PeerAssignAddress \/ PeerUpdate \/ PeerUpdateReplyLost
  BY <1>6 DEF PeerAssignAddress, PeerRead, PeerUpdate, PeerUpdateReplyLost
<1>7. CASE PeerListFails \/ PeerUpdateConflict \/ PeerError
  BY <1>7 DEF PeerListFails, PeerUpdateConflict, PeerError
<1>8. CASE UNCHANGED vars
  BY <1>3, <1>8 DEF vars, controllerVars
<1> QED
  BY <1>1, <1>2, <1>3, <1>4, <1>5, <1>6, <1>7, <1>8
  DEF Next, PeerStep, NetworkStep, Fault, PeerControllerStep, PeerControllerFault

-----------------------------------------------------------------------------
(* Caches trail the server.                                                *)
LEMMA CachesTrailStep ==
  ASSUME TypeInv, PeerInv, NetworkInv, CachesTrail, [Next]_vars
  PROVE  CachesTrail'
<1> USE DEF TypeInv, TypeOK, ClusterTypeOK
<1>1. Trails(cachedPeers', peerEvents', peers')
  <2>1. CASE UNCHANGED <<peers, peerEvents, cachedPeers>>
    BY <2>1 DEF CachesTrail
  <2>2. CASE \/ \E p \in PeerNames : CreatePeer(p) \/ EditPeer(p) \/ DeletePeer(p)
             \/ PeerUpdate \/ PeerUpdateReplyLost
    <3>1. PICK p \in PeerNames, o \in Peer : WritePeer(p, o) /\ cachedPeers' = cachedPeers
      BY <2>2, PeerWriters
    <3> QED
      BY <3>1, TrailsWrite DEF WritePeer, PeerEvent, CachesTrail
  <2>3. CASE DeliverPeerEvent
    <3>1. /\ peers' = peers /\ peerEvents # <<>> /\ peerEvents' = Tail(peerEvents)
          /\ cachedPeers' = [cachedPeers EXCEPT ![Head(peerEvents).name] = Head(peerEvents).object]
      BY <2>3 DEF DeliverPeerEvent, informerUnchanged, serverVars
    <3> QED
      BY <3>1, TrailsDeliver DEF PeerEvent, CachesTrail
  <2>4. CASE Restart
    BY <2>4 DEF Restart, serverVars, Trails
  <2>5. CASE UNCHANGED vars
    BY <2>1, <2>5 DEF vars, serverVars, eventVars, cacheVars
  <2> QED
    BY <2>1, <2>2, <2>3, <2>4, <2>5, OnlyPeerMovers
<1>2. Trails(cachedNetworks', networkEvents', networks')
  <2>1. CASE UNCHANGED <<networks, networkEvents, cachedNetworks>>
    BY <2>1 DEF CachesTrail
  <2>2. CASE \/ \E n \in NetworkNames : CreateNetwork(n) \/ EditNetwork(n) \/ DeleteNetwork(n)
             \/ NetworkUpdate \/ NetworkUpdateReplyLost
    <3>1. PICK n \in NetworkNames, o \in Network :
            WriteNetwork(n, o) /\ cachedNetworks' = cachedNetworks
      BY <2>2, NetworkWriters
    <3> QED
      BY <3>1, TrailsWrite DEF WriteNetwork, NetworkEvent, CachesTrail
  <2>3. CASE DeliverNetworkEvent
    <3>1. /\ networks' = networks /\ networkEvents # <<>>
          /\ networkEvents' = Tail(networkEvents)
          /\ cachedNetworks' = [cachedNetworks EXCEPT
                ![Head(networkEvents).name] = Head(networkEvents).object]
      BY <2>3 DEF DeliverNetworkEvent, informerUnchanged, serverVars
    <3> QED
      BY <3>1, TrailsDeliver DEF NetworkEvent, CachesTrail
  <2>4. CASE Restart
    BY <2>4 DEF Restart, serverVars, Trails
  <2>5. CASE UNCHANGED vars
    BY <2>1, <2>5 DEF vars, serverVars, eventVars, cacheVars
  <2> QED
    BY <2>1, <2>2, <2>3, <2>4, <2>5, OnlyNetworkMovers
<1> QED
  BY <1>1, <1>2 DEF CachesTrail

(* One address per name, whatever a network went through.                  *)
LEMMA RecordsOneEachStep ==
  ASSUME TypeInv, NetworkInv, GrantsOnce, RecordsOneEach, [Next]_vars
  PROVE  RecordsOneEach'
<1> USE DEF TypeInv, TypeOK, ClusterTypeOK
<1>1. CASE networks' = networks
  BY <1>1 DEF RecordsOneEach
<1>2. ASSUME NEW n \in NetworkNames, NEW o \in Network, WriteNetwork(n, o),
             OneEach(o.allocations)
      PROVE  RecordsOneEach'
  BY <1>2 DEF WriteNetwork, RecordsOneEach
<1>3. ASSUME NEW n \in NetworkNames, CreateNetwork(n) \/ EditNetwork(n) \/ DeleteNetwork(n)
      PROVE  RecordsOneEach'
  <2>1. PICK o \in Network :
          /\ WriteNetwork(n, o)
          /\ ~ networks[n].live \/ ~ o.live => o.allocations = {}
          /\ networks[n].live /\ o.live => o.allocations = networks[n].allocations
    BY <1>3, UserNetworkWrite
  <2>2. OneEach(networks[n].allocations) /\ OneEach({})
    BY DEF RecordsOneEach, OneEach
  <2>3. OneEach(o.allocations)
    BY <2>1, <2>2, NetworkFields
  <2> QED
    BY <1>2, <2>1, <2>3
<1>4. CASE NetworkUpdate \/ NetworkUpdateReplyLost
  <2>1. /\ nr.name \in NetworkNames /\ nr.instance = networks[nr.name]
        /\ networks[nr.name].allocations \subseteq nr.allocations
        /\ \E o \in Network : WriteNetwork(nr.name, o) /\ o.allocations = nr.allocations
    BY <1>4, NetworkStatusWrite
  <2>2. AddedOnce(networks[nr.name].allocations, nr.allocations)
    BY <1>4, <2>1 DEF NetworkUpdate, NetworkUpdateReplyLost, GrantsOnce
  <2>3. OneEach(networks[nr.name].allocations)
    BY <2>1 DEF RecordsOneEach
  <2>4. OneEach(nr.allocations)
    BY <2>2, <2>3 DEF OneEach, AddedOnce
  <2> QED
    BY <1>2, <2>1, <2>4
<1>5. CASE UNCHANGED vars
  BY <1>1, <1>5 DEF vars, serverVars
<1> QED
  BY <1>1, <1>3, <1>4, <1>5, OnlyNetworkWriters

-----------------------------------------------------------------------------
(* No wake-up is lost.                                                     *)

(* An event about a peer wakes its network's Reconcile and its own.        *)
LEMMA PeerEventWakes ==
  ASSUME TypeInv, CachesTrail, CachesTrail', NEW p \in PeerNames, NEW n \in NetworkNames,
         DeliverPeerEvent, Head(peerEvents).name = p,
         peers[p].live, peers[p].status.network = n, networks[n].live
  PROVE  /\ Pending(p, peerEvents') \/ Pending(n, networkEvents') \/ n \in networkQueue'
         /\ p \in peerQueue'
<1> USE DEF TypeInv, TypeOK, ClusterTypeOK
<1> DEFINE e == Head(peerEvents)
<1>1. /\ peers' = peers /\ networks' = networks /\ networkEvents' = networkEvents
      /\ cachedPeers' = [cachedPeers EXCEPT ![p] = e.object]
      /\ p \in peerQueue'
      /\ peerMapper(e.object) \subseteq networkQueue' \/ ~ e.object.live
  BY DEF DeliverPeerEvent, informerUnchanged, serverVars, LiveOf
<1> HIDE DEF e
<1> SUFFICES ASSUME ~ Pending(p, peerEvents'), ~ Pending(n, networkEvents')
             PROVE  n \in networkQueue'
  BY <1>1
<1>2. cachedPeers'[p] = peers[p] /\ cachedPeers'[p] = e.object
  BY <1>1 DEF CachesTrail, Trails
<1>3. cachedNetworks[n] = networks[n]
  BY <1>1 DEF CachesTrail, Trails
<1> QED
  BY <1>1, <1>2, <1>3 DEF peerMapper

(* An event about a network wakes its Reconcile and those of its peers.    *)
LEMMA NetworkEventWakes ==
  ASSUME TypeInv, CachesTrail, NEW p \in PeerNames, NEW n \in NetworkNames,
         DeliverNetworkEvent, Head(networkEvents).name = n,
         peers[p].live, peers[p].status.network = n
  PROVE  /\ n \in networkQueue'
         /\ Pending(p, peerEvents') \/ p \in peerQueue'
<1> USE DEF TypeInv, TypeOK, ClusterTypeOK
<1>1. /\ peerEvents' = peerEvents /\ n \in networkQueue'
      /\ networkMapper(n) \subseteq peerQueue'
  BY DEF DeliverNetworkEvent
<1>2. ~ Pending(p, peerEvents) => cachedPeers[p] = peers[p]
  BY DEF CachesTrail, Trails
<1> QED
  BY <1>1, <1>2 DEF networkMapper

LEMMA RestartWakes ==
  ASSUME TypeInv, Restart, NEW p \in PeerNames, NEW n \in NetworkNames,
         peers[p].live, networks[n].live
  PROVE  p \in peerQueue' /\ n \in networkQueue'
BY DEF Restart, LiveNames, TypeInv, TypeOK, ClusterTypeOK

(* A Reconcile that starts from the stored network and sees the stored     *)
(* peer makes the allocation.                                              *)
LEMMA NetworkListAllocates ==
  ASSUME TypeInv, NetworkList, NEW p \in PeerNames, NEW n \in NetworkNames,
         ToAllocate(p, n), nr.name = n, nr.instance = networks[n],
         cachedPeers[p] = peers[p]
  PROVE  nr'.pc = "update" /\ nr'.name = n /\ nr'.instance = networks[n]
<1> USE DEF TypeInv, TypeOK, ClusterTypeOK, NetworkControllerTypeOK
<1> DEFINE all == AllocateAll(n, networks[n], cachedPeers)
<1>1. PICK a \in Address \cup {None} :
        allocateIP(p, peers[p].spec.labels, networks[n].rules, a)
  BY NetworkFields, allocateIPFinds DEF ToAllocate
<1> DEFINE new == [name |-> p, address |-> a]
<1>2. new \in NewAllocations(n, networks[n], cachedPeers)
  <2>1. new \in IPAssignment /\ new.name = p /\ new.address = a
    BY <1>1 DEF IPAssignment
  <2> HIDE DEF new
  <2> QED
    BY <1>1, <2>1 DEF NewAllocations, ToAllocate
<1>3. new \in all /\ new \notin networks[n].allocations
  <2>1. new.name = p
    OBVIOUS
  <2> HIDE DEF new
  <2> QED
    BY <1>2, <2>1 DEF AllocateAll, ToAllocate
<1>4. nr' = [nr EXCEPT !.pc = "update", !.allocations = all]
  BY <1>3 DEF NetworkList
<1> HIDE DEF all
<1> QED
  BY <1>4 DEF NetworkReconcile

LEMMA AllocationStep ==
  ASSUME TypeInv, PeerInv, NetworkInv, CachesTrail, CachesTrail', [Next]_vars,
         NEW p \in PeerNames, NEW n \in NetworkNames,
         ToAllocate(p, n) => AllocationAwaited(p, n), ToAllocate(p, n)'
  PROVE  AllocationAwaited(p, n)'
<1> SUFFICES ASSUME ~ Pending(p, peerEvents'), ~ Pending(n, networkEvents'),
                    n \notin networkQueue'
             PROVE  nr'.pc # "idle" /\ nr'.name = n /\ nr'.instance = networks'[n]
  BY DEF AllocationAwaited
<1>1. peers'[p] = peers[p] /\ networks'[n] = networks[n]
  BY PeerEventsStep, NetworkEventsStep
<1>2. ToAllocate(p, n)
  BY <1>1 DEF ToAllocate
<1>3. peers[p].live /\ peers[p].status.network = n /\ networks[n].live
  BY <1>2 DEF ToAllocate
<1>4. ~ Restart
  BY <1>3, RestartWakes
<1>5. ~ Pending(p, peerEvents)
  BY <1>3, <1>4, PeerEventsStep, PeerEventWakes
<1>6. ~ Pending(n, networkEvents)
  BY <1>3, <1>4, NetworkEventsStep, NetworkEventWakes
<1>7. cachedPeers[p] = peers[p] /\ cachedNetworks[n] = networks[n]
  BY <1>5, <1>6 DEF CachesTrail, Trails, TypeInv, TypeOK, ClusterTypeOK
<1>8. CASE n \in networkQueue
  <2>1. NetworkGet(n)
    BY <1>4, <1>8, NetworkRequestStep
  <2>2. nr' = [NetworkIdle EXCEPT !.pc = "list", !.name = n, !.instance = networks[n]]
    BY <1>3, <1>7, <2>1 DEF NetworkGet
  <2> QED
    BY <1>1, <2>2 DEF NetworkIdle
<1>9. CASE nr.pc # "idle" /\ nr.name = n /\ nr.instance = networks[n]
  <2>1. nr' = nr \/ NetworkList \/ NetworkUpdate \/ NetworkUpdateReplyLost
    BY <1>4, <1>9, NetworkRequestStep
  <2>2. CASE nr' = nr
    BY <1>1, <1>9, <2>2
  <2>3. CASE NetworkList
    BY <1>1, <1>2, <1>7, <1>9, <2>3, NetworkListAllocates
  <2>4. CASE NetworkUpdate \/ NetworkUpdateReplyLost
    <3>1. \E o \in Network : WriteNetwork(n, o)
      BY <1>9, <2>4, NetworkStatusWrite
    <3>2. Pending(n, networkEvents')
      BY <3>1, NetworkEventPending
    <3> QED
      BY <3>2
  <2> QED
    BY <2>1, <2>2, <2>3, <2>4
<1> QED
  BY <1>2, <1>5, <1>6, <1>8, <1>9 DEF AllocationAwaited

(* A Reconcile that starts from the stored peer and sees the stored        *)
(* network takes the address.                                              *)
LEMMA PeerAssignAddressTakes ==
  ASSUME TypeInv, RecordsOneEach, PeerAssignAddress,
         NEW p \in PeerNames, NEW n \in NetworkNames, ToAddress(p, n),
         pr.name = p, pr.instance = peers[p], cachedNetworks[n] = networks[n]
  PROVE  pr'.pc = "update" /\ pr'.name = p /\ pr'.instance = peers[p]
<1> USE DEF TypeInv, TypeOK, ClusterTypeOK, PeerControllerTypeOK
<1> DEFINE mine == {alloc \in networks[n].allocations : alloc.name = p}
<1>1. /\ networks[n].live /\ OneEach(networks[n].allocations)
      /\ pr.instance.status.network = n
      /\ \E alloc \in mine : alloc.address # None
  BY DEF ToAddress, RecordsOneEach
<1>2. \A a, b \in mine : a = b
  BY <1>1 DEF OneEach
<1>3. \A alloc \in mine : alloc.address # None
  BY <1>1, <1>2
<1>4. \E alloc \in mine :
        pr' = [pr EXCEPT !.pc = "update",
                         !.status = [pr.status EXCEPT !.address = alloc.address]]
  BY <1>1, <1>3 DEF PeerAssignAddress
<1>5. PICK s : pr' = [pr EXCEPT !.pc = "update", !.status = s]
  BY <1>4
<1> QED
  BY <1>5 DEF PeerReconcile

LEMMA AddressStep ==
  ASSUME TypeInv, PeerInv, NetworkInv, CachesTrail, CachesTrail', RecordsOneEach, [Next]_vars,
         NEW p \in PeerNames, NEW n \in NetworkNames,
         ToAddress(p, n) => AddressAwaited(p, n), ToAddress(p, n)'
  PROVE  AddressAwaited(p, n)'
<1> SUFFICES ASSUME ~ Pending(p, peerEvents'), ~ Pending(n, networkEvents'),
                    p \notin peerQueue'
             PROVE  /\ pr'.pc \in {"address", "update"} /\ pr'.name = p
                    /\ pr'.instance = peers'[p]
  BY DEF AddressAwaited
<1>1. peers'[p] = peers[p] /\ networks'[n] = networks[n]
  BY PeerEventsStep, NetworkEventsStep
<1>2. ToAddress(p, n)
  BY <1>1 DEF ToAddress
<1>3. /\ peers[p].live /\ peers[p].status.network = n /\ networks[n].live
      /\ peers[p].status.address = None
  BY <1>2 DEF ToAddress
<1>4. ~ Restart
  BY <1>3, RestartWakes
<1>5. ~ Pending(p, peerEvents)
  BY <1>3, <1>4, PeerEventsStep, PeerEventWakes
<1>6. ~ Pending(n, networkEvents)
  BY <1>3, <1>4, NetworkEventsStep, NetworkEventWakes
<1>7. cachedPeers[p] = peers[p] /\ cachedNetworks[n] = networks[n]
  BY <1>5, <1>6 DEF CachesTrail, Trails, TypeInv, TypeOK, ClusterTypeOK
<1>8. CASE p \in peerQueue
  <2>1. PeerGet(p)
    BY <1>4, <1>8, PeerRequestStep
  <2>2. n # None
    BY NoneAssumption
  <2>3. pr' = [PeerIdle EXCEPT !.pc = "address", !.name = p, !.instance = peers[p],
                               !.status = peers[p].status]
    BY <1>3, <1>7, <2>1, <2>2 DEF PeerGet
  <2> QED
    BY <1>1, <2>3 DEF PeerIdle
<1>9. CASE pr.pc \in {"address", "update"} /\ pr.name = p /\ pr.instance = peers[p]
  <2>1. pr' = pr \/ PeerAssignAddress \/ PeerUpdate \/ PeerUpdateReplyLost
    BY <1>4, <1>9, PeerRequestStep
  <2>2. CASE pr' = pr
    BY <1>1, <1>9, <2>2
  <2>3. CASE PeerAssignAddress
    BY <1>1, <1>2, <1>7, <1>9, <2>3, PeerAssignAddressTakes
  <2>4. CASE PeerUpdate \/ PeerUpdateReplyLost
    <3>1. \E o \in Peer : WritePeer(p, o)
      BY <1>9, <2>4, PeerStatusWrite
    <3>2. Pending(p, peerEvents')
      BY <3>1, PeerEventPending
    <3> QED
      BY <3>2
  <2> QED
    BY <2>1, <2>2, <2>3, <2>4
<1> QED
  BY <1>2, <1>5, <1>6, <1>8, <1>9 DEF AddressAwaited

-----------------------------------------------------------------------------
(* The theorems.                                                           *)

(* The inductive invariant: caches trail the server by the events still to *)
(* come, records have one address per name, and whatever a peer could have *)
(* is awaited.                                                             *)
THEOREM NoWakeUpLost == Spec => [](CachesTrail /\ RecordsOneEach /\ GrantsOnce /\ WakeUps)
<1>1. Init => CachesTrail /\ RecordsOneEach /\ GrantsOnce /\ WakeUps
  <2> SUFFICES ASSUME Init PROVE CachesTrail /\ RecordsOneEach /\ GrantsOnce /\ WakeUps
    OBVIOUS
  <2>1. /\ peers = [p \in PeerNames |-> NoPeer(0)]
        /\ networks = [n \in NetworkNames |-> NoNetwork(0)]
        /\ cachedPeers = peers /\ cachedNetworks = networks
        /\ peerEvents = <<>> /\ networkEvents = <<>> /\ nr.pc = "idle"
    BY DEF Init, ClusterInit, NetworkControllerInit, NetworkIdle
  <2>2. CachesTrail
    BY <2>1 DEF CachesTrail, Trails
  <2>3. RecordsOneEach
    BY <2>1 DEF RecordsOneEach, OneEach, NoNetwork
  <2>4. GrantsOnce
    BY <2>1 DEF GrantsOnce
  <2>5. WakeUps
    BY <2>1 DEF WakeUps, ToAllocate, ToAddress, NoPeer
  <2> QED
    BY <2>2, <2>3, <2>4, <2>5
<1>2. /\ TypeInv /\ PeerInv /\ NetworkInv /\ CachesTrail /\ RecordsOneEach /\ GrantsOnce
      /\ WakeUps /\ [Next]_vars
      => CachesTrail' /\ RecordsOneEach' /\ GrantsOnce' /\ WakeUps'
  <2> SUFFICES ASSUME TypeInv, PeerInv, NetworkInv, CachesTrail, RecordsOneEach, GrantsOnce,
                      WakeUps, [Next]_vars
               PROVE  CachesTrail' /\ RecordsOneEach' /\ GrantsOnce' /\ WakeUps'
    OBVIOUS
  <2>1. CachesTrail' /\ RecordsOneEach' /\ GrantsOnce'
    BY CachesTrailStep, RecordsOneEachStep, GrantsOnceStep
  <2>2. ASSUME NEW p \in PeerNames, NEW n \in NetworkNames
        PROVE  /\ ToAllocate(p, n)' => AllocationAwaited(p, n)'
               /\ ToAddress(p, n)' => AddressAwaited(p, n)'
    BY <2>1, AllocationStep, AddressStep DEF WakeUps
  <2>3. WakeUps'
    BY <2>2 DEF WakeUps
  <2> QED
    BY <2>1, <2>3
<1> QED
  BY <1>1, <1>2, TypeInvariant, CopiesAreCoherent, PTL DEF Spec

(* When the queues are empty, the events delivered and the workers idle,   *)
(* every peer of a live network has the address it could have: no watch    *)
(* event, requeue or mapper forgets it, and no resync is needed.           *)
THEOREM QuiescentlyAddressed == Spec => []QuiescentAddressed
<1>1. TypeInv /\ WakeUps => QuiescentAddressed
  <2> SUFFICES ASSUME TypeInv, WakeUps, Quiescent, NEW p \in PeerNames,
                      peers[p].live, peers[p].status.network # None,
                      networks[peers[p].status.network].live,
                      peers[p].status.address = None
               PROVE  Unaddressable(p, peers[p].status.network)
    BY DEF QuiescentAddressed
  <2> DEFINE n == peers[p].status.network
  <2>1. n \in NetworkNames
    BY PeerFields, PeerStatusFields DEF TypeInv, TypeOK, ClusterTypeOK
  <2>2. ~ AllocationAwaited(p, n) /\ ~ AddressAwaited(p, n)
    BY DEF Quiescent, AllocationAwaited, AddressAwaited, Pending
  <2>3. ~ ToAllocate(p, n) /\ ~ ToAddress(p, n)
    BY <2>1, <2>2 DEF WakeUps
  <2> QED
    BY <2>3 DEF ToAllocate, ToAddress, Unaddressable, AllocationsOf
<1> QED
  BY <1>1, TypeInvariant, NoWakeUpLost, PTL

(* While a peer and its network live, no step of anyone drops or changes   *)
(* what the peer was allocated, or adds to it: what is on record stays     *)
(* there, and there is only one address per name.                          *)
THEOREM AllocationsStable == Spec => AllocationsAreStable
<1>1. TypeInv /\ NetworkInv /\ RecordsOneEach' /\ [Next]_vars => [AllocationsKept]_vars
  <2> SUFFICES ASSUME TypeInv, NetworkInv, RecordsOneEach', [Next]_vars,
                      NEW p \in PeerNames, NEW n \in NetworkNames,
                      networks[n].live, networks'[n].live, AllocationsOf(p, n) # {}
               PROVE  AllocationsOf(p, n)' = AllocationsOf(p, n)
    BY DEF AllocationsKept
  <2>1. networks[n].allocations \subseteq networks'[n].allocations
    BY RecordsGrow
  <2>2. \A a, b \in networks'[n].allocations : a.name = b.name => a = b
    BY DEF RecordsOneEach, OneEach
  <2>3. PICK a \in networks[n].allocations : a.name = p
    BY DEF AllocationsOf
  <2>4. \A b \in networks'[n].allocations : b.name = p => b = a
    BY <2>1, <2>2, <2>3
  <2> QED
    BY <2>1, <2>3, <2>4 DEF AllocationsOf
<1> QED
  BY <1>1, NoWakeUpLost, CopiesAreCoherent, TypeInvariant, PTL
  DEF Spec, AllocationsAreStable
=============================================================================
