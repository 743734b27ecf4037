-------------------------- MODULE WireGuardProofs --------------------------
(***************************************************************************)
(* Lemmas about the guardlet's commands: what they establish on a device,  *)
(* and what they leave alone.                                              *)
(***************************************************************************)
EXTENDS WireGuard, SequenceTheorems, WellFoundedInduction, TLAPS

(* The parts of a Peer as the guardlet reads it.                           *)
LEMMA InstanceFields ==
  ASSUME NEW o \in PublishedPeer
  PROVE  /\ o.endpoint \in Endpoint /\ o.address \in Address \cup {None}
         /\ o.peers \in Seq(Entry)
         /\ DOMAIN o.peers = 1..Len(o.peers) /\ Len(o.peers) \in Nat
         /\ \A i \in DOMAIN o.peers : o.peers[i] \in Entry
BY LenProperties, ElementOfSeq DEF PublishedPeer

LEMMA NothingTyped == Unpublished \in PublishedPeer /\ NoDevice \in Device
<1>1. Unpublished \in PublishedPeer
  BY EmptySeq DEF Unpublished, PublishedPeer, Endpoint
<1>2. NoDevice \in Device
  BY DEF NoDevice, Device
<1> QED
  BY <1>1, <1>2

(* The address that is added has a netmask.                                *)
LEMMA ipMaskTyped ==
  ASSUME NEW a \in Address \cup {None}, ~ AddressRefused(a)
  PROVE  a \in Address /\ a.ip \in IPs /\ ipMask(a) \in InterfaceAddress
BY DEF AddressRefused, Address, ipMask, InterfaceAddress

(* What buildCfgArgs has checked.                                          *)
LEMMA buildCfgArgsChecks ==
  ASSUME NEW o \in PublishedPeer, ~ buildCfgArgsFails(o)
  PROVE  /\ o.endpoint.port \in Ports
         /\ \A i \in DOMAIN o.peers : o.peers[i].publicKey \in PublicKeys
<1>1. o.endpoint \in Endpoint /\ \A i \in DOMAIN o.peers : o.peers[i] \in Entry
  BY InstanceFields
<1>2. o.endpoint.port \in Ports
  BY <1>1 DEF buildCfgArgsFails, SplitHostPortFails, Endpoint
<1>3. \A i \in DOMAIN o.peers : o.peers[i].publicKey \in PublicKeys
  BY <1>1 DEF buildCfgArgsFails, Entry
<1> QED
  BY <1>2, <1>3

(* Configuring one entry: the fields of the device it touches.             *)
LEMMA withPeerFields ==
  ASSUME NEW d \in Device, NEW e \in Entry, e.publicKey \in PublicKeys
  PROVE  LET new == withPeer(d, e)
             k == e.publicKey
         IN  /\ new \in Device
             /\ new.exists = d.exists /\ new.up = d.up /\ new.key = d.key
             /\ new.port = d.port /\ new.addresses = d.addresses /\ new.routes = d.routes
             /\ new.peers = d.peers \cup {k}
             /\ \A x \in PublicKeys : new.endpoints[x] =
                  IF x = k /\ e.endpoint # None THEN e.endpoint ELSE d.endpoints[x]
             /\ \A s \in Prefixes : new.allowed[s] =
                  IF e.allowedIPs = {} THEN d.allowed[s]
                  ELSE IF s \in e.allowedIPs THEN k
                  ELSE IF d.allowed[s] = k THEN None
                  ELSE d.allowed[s]
<1> DEFINE k == e.publicKey
           endpoints == IF e.endpoint = None
                          THEN d.endpoints
                          ELSE [d.endpoints EXCEPT ![k] = e.endpoint]
           allowed == IF e.allowedIPs = {}
                        THEN d.allowed
                        ELSE [s \in Prefixes |-> IF s \in e.allowedIPs THEN k
                                                 ELSE IF d.allowed[s] = k THEN None
                                                 ELSE d.allowed[s]]
           new == withPeer(d, e)
<1>1. /\ d.endpoints \in [PublicKeys -> Endpoint \cup {None}]
      /\ d.allowed \in [Prefixes -> PublicKeys \cup {None}]
      /\ d.peers \subseteq PublicKeys
  BY DEF Device
<1>2. e.endpoint \in Endpoint \cup {None} /\ e.allowedIPs \subseteq Prefixes
  BY DEF Entry
<1>3. /\ endpoints \in [PublicKeys -> Endpoint \cup {None}]
      /\ \A x \in PublicKeys : endpoints[x] =
           IF x = k /\ e.endpoint # None THEN e.endpoint ELSE d.endpoints[x]
  BY <1>1, <1>2
<1>4. /\ allowed \in [Prefixes -> PublicKeys \cup {None}]
      /\ \A s \in Prefixes : allowed[s] =
           IF e.allowedIPs = {} THEN d.allowed[s]
           ELSE IF s \in e.allowedIPs THEN k
           ELSE IF d.allowed[s] = k THEN None
           ELSE d.allowed[s]
  BY <1>1, <1>2
<1>5. new = [d EXCEPT !.peers = d.peers \cup {k}, !.endpoints = endpoints,
                      !.allowed = allowed]
  BY DEF withPeer
<1> HIDE DEF endpoints, allowed, new
<1>6. /\ new.peers = d.peers \cup {k} /\ new.endpoints = endpoints /\ new.allowed = allowed
      /\ new.exists = d.exists /\ new.up = d.up /\ new.key = d.key
      /\ new.port = d.port /\ new.addresses = d.addresses /\ new.routes = d.routes
  BY <1>5 DEF Device
<1>7. new \in Device
  BY <1>1, <1>3, <1>4, <1>5 DEF Device
<1> QED
  BY <1>3, <1>4, <1>6, <1>7 DEF new

-----------------------------------------------------------------------------
(* wg set, entry by entry.                                                 *)
Entered(d, o, k) == IF k \in DOMAIN o.peers THEN withPeer(d, o.peers[k]) ELSE d

LEMMA LeastNumber ==
  ASSUME NEW S \in SUBSET Nat, S # {}
  PROVE  \E i \in S : \A j \in S : i <= j
<1> DEFINE less == {ss \in Nat \X Nat : ss[1] < ss[2]}
<1>1. IsWellFoundedOn(less, Nat)
  <2>1. OpToRel(<, Nat) = less
    BY DEF OpToRel
  <2> QED
    BY <2>1, NatLessThanWellFounded
<1>2. \A x, y \in Nat : ~ (<<y, x>> \in less) => x <= y
  OBVIOUS
<1> HIDE DEF less
<1>3. PICK x \in S : \A y \in S : ~ (<<y, x>> \in less)
  BY <1>1, WFMin
<1> QED
  BY <1>2, <1>3

(* Configured lists the devices after each of the entries: there is such a *)
(* list of any length, as there is no shortest one that cannot be had.     *)
LEMMA ConfiguredInSteps ==
  ASSUME NEW d, NEW o, NEW order, Len(order) \in Nat
  PROVE  LET after == Configured(d, o, order)
         IN  /\ after[0] = Started(d, o)
             /\ \A j \in 1..Len(order) : after[j] = Entered(after[j - 1], o, order[j])
<1> DEFINE Step(g, j) == IF j = 0 THEN Started(d, o) ELSE Entered(g[j - 1], o, order[j])
           Possible(n) == \E g : g = [j \in 0..n |-> Step(g, j)]
           Impossible == {n \in Nat : ~ Possible(n)}
           len == Len(order)
<1>1. ASSUME Impossible # {}
      PROVE  FALSE
  <2>1. PICK m \in Impossible : \A x \in Impossible : m <= x
    BY <1>1, LeastNumber
  <2>2. CASE m = 0
    <3> DEFINE g == [j \in 0..0 |-> Started(d, o)]
    <3>1. g = [j \in 0..0 |-> Step(g, j)]
      OBVIOUS
    <3> QED
      BY <2>2, <3>1
  <2>3. CASE m # 0
    <3>1. m - 1 \in Nat /\ Possible(m - 1)
      <4> HIDE DEF Possible
      <4> QED
        BY <2>1, <2>3
    <3>2. PICK g : g = [j \in 0..(m - 1) |-> Step(g, j)]
      BY <3>1
    <3> DEFINE h == [j \in 0..m |-> IF j < m THEN g[j] ELSE Step(g, m)]
    <3>3. ASSUME NEW j \in 0..m PROVE h[j] = Step(h, j)
      <4>1. j # 0 => j - 1 \in 0..m /\ j - 1 < m
        OBVIOUS
      <4>2. j # 0 => h[j - 1] = g[j - 1]
        BY <4>1
      <4>3. Step(h, j) = Step(g, j)
        BY <4>2
      <4>4. j < m => g[j] = Step(g, j)
        BY <3>2
      <4> QED
        BY <4>3, <4>4
    <3>4. h = [j \in 0..m |-> Step(h, j)]
      BY <3>3
    <3> QED
      BY <2>1, <3>4
  <2> QED
    BY <2>2, <2>3
<1> DEFINE after == CHOOSE g : g = [j \in 0..len |-> Step(g, j)]
<1>2. after = [j \in 0..len |-> Step(after, j)]
  BY <1>1
<1>3. Configured(d, o, order) = after
  BY DEF Configured, Entered
<1> HIDE DEF after
<1>4. after[0] = Started(d, o) /\ \A j \in 1..len : after[j] = Entered(after[j - 1], o, order[j])
  BY <1>2
<1> QED
  BY <1>3, <1>4

-----------------------------------------------------------------------------
(* What wg set and the commands after it achieve.                          *)

(* The fields that wg set starts from; an interface that is there keeps    *)
(* all it has but the port and the private key.                            *)
LEMMA StartedFields ==
  ASSUME NEW d \in Device, NEW o, o.endpoint.port \in Ports \cup {None}
  PROVE  LET new == Started(d, o)
         IN  /\ new \in Device
             /\ new.exists /\ new.key /\ new.port = o.endpoint.port
             /\ new.addresses = Interface(d).addresses /\ new.allowed = Interface(d).allowed
             /\ d.exists => /\ new.up = d.up /\ new.addresses = d.addresses
                            /\ new.peers = d.peers /\ new.endpoints = d.endpoints
                            /\ new.allowed = d.allowed /\ new.routes = d.routes
<1> DEFINE i == Interface(d)
           new == Started(d, o)
<1>1. i \in Device /\ i.exists /\ (d.exists => i = d)
  BY NothingTyped DEF Interface, Device, NoDevice
<1>2. new = [i EXCEPT !.port = o.endpoint.port, !.key = TRUE]
  BY DEF Started
<1> HIDE DEF i, new
<1>3. /\ new \in Device /\ new.exists = i.exists /\ new.key /\ new.port = o.endpoint.port
      /\ new.up = i.up /\ new.addresses = i.addresses /\ new.peers = i.peers
      /\ new.endpoints = i.endpoints /\ new.allowed = i.allowed /\ new.routes = i.routes
  BY <1>1, <1>2 DEF Device
<1> QED
  BY <1>1, <1>3 DEF i, new

(* An entry is applied once it has been set, and stays applied whichever   *)
(* entry is set after it: no two claim the same key or prefix.             *)
LEMMA EnteredApplies ==
  ASSUME NEW o, Distinct(o),
         \A p \in DOMAIN o.peers : o.peers[p] \in Entry /\ o.peers[p].publicKey \in PublicKeys,
         NEW d \in Device, NEW q
  PROVE  LET new == Entered(d, o, q)
         IN  /\ new \in Device
             /\ new.exists = d.exists /\ new.up = d.up /\ new.key = d.key
             /\ new.port = d.port /\ new.addresses = d.addresses /\ new.routes = d.routes
             /\ \A p \in DOMAIN o.peers :
                  p = q \/ EntryApplied(d, o.peers[p]) => EntryApplied(new, o.peers[p])
<1> DEFINE e == o.peers[q]
           new == withPeer(d, e)
<1>1. CASE q \notin DOMAIN o.peers
  BY <1>1 DEF Entered
<1>2. CASE q \in DOMAIN o.peers
  <2>1. e \in Entry /\ e.publicKey \in PublicKeys /\ Entered(d, o, q) = new
    BY <1>2 DEF Entered
  <2>2. /\ new \in Device
        /\ new.exists = d.exists /\ new.up = d.up /\ new.key = d.key
        /\ new.port = d.port /\ new.addresses = d.addresses /\ new.routes = d.routes
        /\ new.peers = d.peers \cup {e.publicKey}
        /\ \A x \in PublicKeys : new.endpoints[x] =
             IF x = e.publicKey /\ e.endpoint # None THEN e.endpoint ELSE d.endpoints[x]
        /\ \A s \in Prefixes : new.allowed[s] =
             IF e.allowedIPs = {} THEN d.allowed[s]
             ELSE IF s \in e.allowedIPs THEN e.publicKey
             ELSE IF d.allowed[s] = e.publicKey THEN None
             ELSE d.allowed[s]
    BY <2>1, withPeerFields
  <2>3. \A p \in DOMAIN o.peers \ {q} :
          /\ o.peers[p].publicKey \in PublicKeys /\ o.peers[p].publicKey # e.publicKey
          /\ o.peers[p].allowedIPs \cap e.allowedIPs = {}
    BY <1>2 DEF Distinct
  <2> HIDE DEF e, new
  <2>4. EntryApplied(new, e)
    BY <2>1, <2>2, NoneAssumption DEF EntryApplied
  <2>5. ASSUME NEW p \in DOMAIN o.peers \ {q}, EntryApplied(d, o.peers[p])
        PROVE  EntryApplied(new, o.peers[p])
    <3> DEFINE f == o.peers[p]
    <3>1. /\ f.publicKey \in PublicKeys /\ f.publicKey # e.publicKey
          /\ f.allowedIPs \cap e.allowedIPs = {}
      BY <2>3
    <3> HIDE DEF f
    <3>2. EntryApplied(d, f)
      BY <2>5 DEF f
    <3>3. EntryApplied(new, f)
      BY <2>1, <2>2, <3>1, <3>2, NoneAssumption DEF EntryApplied
    <3> QED
      BY <3>3 DEF f
  <2> QED
    BY <2>1, <2>2, <2>4, <2>5 DEF e
<1> QED
  BY <1>1, <1>2

(* So after the first j of the entries, all of these are applied, and all  *)
(* that were applied before.                                               *)
LEMMA ConfiguredApplies ==
  ASSUME NEW o, Distinct(o), o.endpoint.port \in Ports,
         \A p \in DOMAIN o.peers : o.peers[p] \in Entry /\ o.peers[p].publicKey \in PublicKeys,
         NEW d \in Device, NEW order, Len(order) \in Nat, NEW j \in 0..Len(order)
  PROVE  LET new == Configured(d, o, order)[j]
         IN  /\ new \in Device
             /\ new.exists /\ new.key /\ new.port = o.endpoint.port
             /\ d.exists => /\ new.up = d.up /\ new.addresses = d.addresses
                            /\ new.routes = d.routes
             /\ \A p \in DOMAIN o.peers :
                  (d.exists /\ EntryApplied(d, o.peers[p])) \/ (\E i \in 1..j : order[i] = p)
                    => EntryApplied(new, o.peers[p])
<1> DEFINE after == Configured(d, o, order)
           Done(i) ==
             /\ after[i] \in Device
             /\ after[i].exists /\ after[i].key /\ after[i].port = o.endpoint.port
             /\ d.exists => /\ after[i].up = d.up /\ after[i].addresses = d.addresses
                            /\ after[i].routes = d.routes
             /\ \A p \in DOMAIN o.peers :
                  (d.exists /\ EntryApplied(d, o.peers[p])) \/ (\E x \in 1..i : order[x] = p)
                    => EntryApplied(after[i], o.peers[p])
           Undone == {i \in 0..Len(order) : ~ Done(i)}
<1>1. /\ after[0] = Started(d, o)
      /\ \A i \in 1..Len(order) : after[i] = Entered(after[i - 1], o, order[i])
  BY ConfiguredInSteps
<1> HIDE DEF after
<1>2. Done(0)
  <2>1. /\ after[0] \in Device
        /\ after[0].exists /\ after[0].key /\ after[0].port = o.endpoint.port
        /\ d.exists => /\ after[0].up = d.up /\ after[0].addresses = d.addresses
                       /\ after[0].peers = d.peers /\ after[0].endpoints = d.endpoints
                       /\ after[0].allowed = d.allowed /\ after[0].routes = d.routes
    BY <1>1, StartedFields
  <2>2. \A p \in DOMAIN o.peers :
          d.exists /\ EntryApplied(d, o.peers[p]) => EntryApplied(after[0], o.peers[p])
    BY <2>1 DEF EntryApplied
  <2> QED
    BY <2>1, <2>2
<1>3. ASSUME NEW i \in 1..Len(order), Done(i - 1)
      PROVE  Done(i)
  <2>1. /\ after[i] \in Device
        /\ after[i].exists = after[i - 1].exists /\ after[i].up = after[i - 1].up
        /\ after[i].key = after[i - 1].key /\ after[i].port = after[i - 1].port
        /\ after[i].addresses = after[i - 1].addresses /\ after[i].routes = after[i - 1].routes
        /\ \A p \in DOMAIN o.peers : p = order[i] \/ EntryApplied(after[i - 1], o.peers[p])
                                     => EntryApplied(after[i], o.peers[p])
    <3>1. after[i] = Entered(after[i - 1], o, order[i]) /\ after[i - 1] \in Device
      BY <1>1, <1>3
    <3> QED
      BY <3>1, EnteredApplies
  <2>2. \A p : (\E x \in 1..i : order[x] = p) => p = order[i] \/ \E x \in 1..(i - 1) : order[x] = p
    OBVIOUS
  <2> QED
    BY <1>3, <2>1, <2>2
<1>4. Undone = {}
  <2> SUFFICES ASSUME Undone # {} PROVE FALSE
    OBVIOUS
  <2>1. Undone \subseteq Nat
    OBVIOUS
  <2>2. PICK i \in Undone : \A x \in Undone : i <= x
    <3> HIDE DEF Undone
    <3> QED
      BY <2>1, LeastNumber
  <2>3. i \in 0..Len(order) /\ ~ Done(i)
    BY <2>2
  <2> HIDE DEF Done
  <2>4. i # 0
    BY <1>2, <2>3
  <2>5. i \in 1..Len(order) /\ i - 1 \in 0..Len(order) /\ i - 1 \notin Undone
    <3> HIDE DEF Undone
    <3>1. i - 1 \in 0..Len(order) /\ i \in 1..Len(order)
      BY <2>3, <2>4
    <3> QED
      BY <2>2, <2>3, <3>1
  <2> QED
    BY <1>3, <2>3, <2>5
<1>5. Done(j)
  <2> HIDE DEF Done
  <2> QED
    BY <1>4
<1> QED
  BY <1>5 DEF after

(* setupIP, ifup and addRoutes change these fields, and no others.         *)
LEMMA UpFields ==
  ASSUME NEW d \in Device, NEW o, o.address \in Address \cup {None},
         ~ AddressRefused(o.address), NEW prefixes
  PROVE  LET new == Up(Addressed(d, o), o, prefixes)
         IN  /\ new \in Device
             /\ new.exists = d.exists /\ new.key = d.key /\ new.port = d.port
             /\ new.peers = d.peers /\ new.endpoints = d.endpoints /\ new.allowed = d.allowed
             /\ new.up /\ new.addresses = d.addresses \cup {ipMask(o.address)}
             /\ \A s \in Prefixes : s \in prefixes \/ d.routes[s] # None => new.routes[s] # None
<1> DEFINE a == Addressed(d, o)
           routed == [s \in Prefixes |-> IF s \in prefixes /\ a.routes[s] = None
                                           THEN o.address.ip ELSE a.routes[s]]
           new == Up(a, o, prefixes)
<1>1. o.address.ip \in IPs /\ ipMask(o.address) \in InterfaceAddress
  BY ipMaskTyped
<1>2. /\ a \in Device /\ a.exists = d.exists /\ a.key = d.key /\ a.port = d.port
      /\ a.peers = d.peers /\ a.endpoints = d.endpoints /\ a.allowed = d.allowed
      /\ a.routes = d.routes /\ a.addresses = d.addresses \cup {ipMask(o.address)}
  <2>1. a = [d EXCEPT !.addresses = d.addresses \cup {ipMask(o.address)}]
    BY DEF Addressed
  <2> HIDE DEF a
  <2> QED
    BY <1>1, <2>1 DEF Device
<1>3. new = [a EXCEPT !.up = TRUE, !.routes = routed]
  BY DEF Up
<1> HIDE DEF a
<1>4. /\ routed \in [Prefixes -> IPs \cup {None}]
      /\ \A s \in Prefixes : s \in prefixes \/ d.routes[s] # None => routed[s] # None
  BY <1>1, <1>2, NoneAssumption DEF Device
<1> HIDE DEF new, routed
<1>5. /\ new \in Device /\ new.exists = a.exists /\ new.key = a.key /\ new.port = a.port
      /\ new.peers = a.peers /\ new.endpoints = a.endpoints /\ new.allowed = a.allowed
      /\ new.up /\ new.addresses = a.addresses /\ new.routes = routed
  BY <1>2, <1>3, <1>4 DEF Device
<1> QED
  BY <1>2, <1>4, <1>5 DEF a, new
=============================================================================
