--------------------------- MODULE GuardletProofs ---------------------------
(***************************************************************************)
(* The proofs that a Reconcile of the guardlet ends with the Peer it read  *)
(* applied to the device, that the device is only up when configured and   *)
(* is not interrupted, and that a Reconcile amounts to one step of         *)
(* Machine, for any Peers, failures, restarts and reboots.                 *)
(***************************************************************************)
EXTENDS GuardletProperties, WireGuardProofs

(* What the commands that have run so far have established.                *)
CommandsDone ==
  /\ gr.pc \in {"interface", "configure"} => gr.next = 1
  /\ gr.pc \in {"peers", "up", "routes"} =>
       /\ device.exists /\ device.key /\ device.port = gr.instance.endpoint.port
       /\ ~ buildCfgArgsFails(gr.instance)
  /\ gr.pc \in {"up", "routes"} =>
       /\ ~ AddressRefused(gr.instance.address)
       /\ ipMask(gr.instance.address) \in device.addresses
  /\ gr.pc = "routes" => device.up

(* The entries before the next one are on the device, later ones have not  *)
(* disturbed them.                                                         *)
EntriesDone ==
  gr.pc \in {"peers", "up", "routes"} /\ Distinct(gr.instance) =>
    \A i \in DOMAIN gr.instance.peers :
      (gr.pc = "peers" => i < gr.next) => EntryApplied(device, gr.instance.peers[i])

GuardletInv == GuardletTypeOK /\ CommandsDone /\ EntriesDone /\ UpIsConfigured

-----------------------------------------------------------------------------
(* The types of a Reconcile and of what there is to begin with.            *)
LEMMA ReconcileFields ==
  ASSUME NEW r \in GuardletReconcile
  PROVE  /\ r.request \in Request \cup {None} /\ r.instance \in PublishedPeer
         /\ r.next \in Nat \ {0} /\ r.todo \in SUBSET Prefixes /\ r.found \in Device
BY DEF GuardletReconcile

LEMMA NoneTyped ==
  /\ Unpublished \in PublishedPeer
  /\ GuardletIdle \in GuardletReconcile
  /\ NoDevice \in Device
<1>1. GuardletIdle \in GuardletReconcile
  BY NothingTyped DEF GuardletIdle, GuardletReconcile
<1> QED
  BY <1>1, NothingTyped

-----------------------------------------------------------------------------
(* An idle guardlet has done nothing yet.                                  *)
LEMMA IdleInv ==
  ASSUME gr' = GuardletIdle
  PROVE  CommandsDone' /\ EntriesDone'
BY DEF GuardletIdle, CommandsDone, EntriesDone

LEMMA InitInv == Init => GuardletInv
<1> SUFFICES ASSUME Init PROVE GuardletInv
  OBVIOUS
<1>1. GuardletTypeOK
  BY NoneTyped, GuardletAssumption DEF Init, GuardletTypeOK, GuardletIdle
<1>2. CommandsDone /\ EntriesDone
  BY DEF Init, GuardletIdle, CommandsDone, EntriesDone
<1>3. UpIsConfigured
  BY DEF Init, NoDevice, UpIsConfigured
<1> QED
  BY <1>1, <1>2, <1>3 DEF GuardletInv

(* A Reconcile that ends with an error.                                    *)
LEMMA RetryInv ==
  ASSUME GuardletInv, Retry, gr.pc # "idle",
         faults' \in 0..MaxFaults, restarts' \in 0..MaxRestarts
  PROVE  GuardletInv'
<1>1. GuardletTypeOK'
  BY NoneTyped DEF GuardletInv, GuardletTypeOK, Retry, clusterVars, GuardletIdle
<1>2. CommandsDone' /\ EntriesDone'
  BY IdleInv DEF Retry
<1>3. UpIsConfigured'
  BY DEF GuardletInv, UpIsConfigured, Retry
<1> QED
  BY <1>1, <1>2, <1>3 DEF GuardletInv

(* A step that changes neither the Reconcile under way nor the device.     *)
LEMMA StillInv ==
  ASSUME GuardletInv, GuardletTypeOK', UNCHANGED <<gr, device>>
  PROVE  GuardletInv'
<1>1. CommandsDone'
  BY DEF GuardletInv, CommandsDone
<1>2. EntriesDone'
  BY DEF GuardletInv, EntriesDone, EntryApplied
<1>3. UpIsConfigured'
  BY DEF GuardletInv, UpIsConfigured
<1> QED
  BY <1>1, <1>2, <1>3 DEF GuardletInv

(* A step of a Reconcile has its types right when the Reconcile and the    *)
(* device do.                                                              *)
LEMMA CommandTypes ==
  ASSUME GuardletTypeOK, UNCHANGED <<clusterVars, queue>>,
         gr' \in GuardletReconcile, gr'.request = gr.request, gr.pc # "idle", device' \in Device,
         faults' \in 0..MaxFaults, restarts' \in 0..MaxRestarts
  PROVE  GuardletTypeOK'
BY DEF GuardletTypeOK, clusterVars

-----------------------------------------------------------------------------
(* The invariant along the actions of a Reconcile.                         *)
LEMMA GuardletGetInv ==
  ASSUME GuardletInv, NEW r \in Request, GuardletGet(r)
  PROVE  GuardletInv'
<1> USE DEF GuardletInv
<1>1. published[r] \in PublishedPeer /\ device \in Device
  BY DEF GuardletTypeOK
<1>2. /\ gr' \in GuardletReconcile
      /\ gr'.pc \in {"idle", "interface"} /\ gr'.next = 1
      /\ gr'.pc # "idle" => gr'.request \in Request
  BY <1>1, NoneTyped DEF GuardletGet, GuardletIdle, GuardletReconcile
<1>3. GuardletTypeOK'
  BY <1>2 DEF GuardletGet, GuardletTypeOK, clusterVars, boundVars
<1>4. CommandsDone' /\ EntriesDone'
  BY <1>2 DEF CommandsDone, EntriesDone
<1>5. UpIsConfigured'
  BY DEF GuardletGet, UpIsConfigured
<1> QED
  BY <1>3, <1>4, <1>5

LEMMA setupInterfaceInv ==
  ASSUME GuardletInv, setupInterface
  PROVE  GuardletInv'
<1> USE DEF GuardletInv
<1>1. device \in Device /\ gr \in GuardletReconcile
  BY DEF GuardletTypeOK
<1>2. /\ gr' \in GuardletReconcile /\ gr'.request = gr.request
      /\ gr'.pc = "configure" /\ gr.pc # "idle" /\ gr'.next = 1
  BY <1>1 DEF setupInterface, Command, CommandsDone, GuardletReconcile
<1>3. device' \in Device /\ (device' = device \/ ~ device'.up)
  BY <1>1, NoneTyped DEF setupInterface, Device, NoDevice
<1>4. GuardletTypeOK'
  BY <1>2, <1>3, CommandTypes DEF setupInterface, Command, GuardletTypeOK, boundVars
<1>5. CommandsDone' /\ EntriesDone'
  BY <1>2 DEF CommandsDone, EntriesDone
<1>6. UpIsConfigured'
  BY <1>3 DEF UpIsConfigured
<1> QED
  BY <1>4, <1>5, <1>6

(* No entry is configured yet.                                             *)
LEMMA ConfigureDeviceInv ==
  ASSUME GuardletInv, ConfigureDevice
  PROVE  GuardletInv'
<1> USE DEF GuardletInv
<1>1. device \in Device /\ gr \in GuardletReconcile /\ gr.instance \in PublishedPeer
  BY ReconcileFields DEF GuardletTypeOK
<1>2. /\ gr' \in GuardletReconcile /\ gr'.request = gr.request
      /\ gr'.pc = "peers" /\ gr.pc # "idle"
      /\ gr'.instance = gr.instance /\ gr'.next = 1
  BY <1>1 DEF ConfigureDevice, Command, CommandsDone, GuardletReconcile
<1>3. gr.instance.endpoint.port \in Ports
  BY <1>1, buildCfgArgsChecks DEF ConfigureDevice
<1>4. /\ device' \in Device
      /\ device'.exists /\ device'.key /\ device'.port = gr.instance.endpoint.port
      /\ device'.up = device.up /\ device'.addresses = device.addresses
  BY <1>1, <1>3 DEF ConfigureDevice, Device
<1>5. GuardletTypeOK'
  BY <1>2, <1>4, CommandTypes DEF ConfigureDevice, Command, GuardletTypeOK, boundVars
<1>6. CommandsDone'
  BY <1>2, <1>4 DEF ConfigureDevice, CommandsDone
<1>7. EntriesDone'
  BY <1>1, <1>2, InstanceFields DEF EntriesDone
<1>8. UpIsConfigured'
  BY <1>3, <1>4, NoneAssumption DEF UpIsConfigured
<1> QED
  BY <1>5, <1>6, <1>7, <1>8

(* The entry that is applied takes no prefix and no endpoint from another  *)
(* when all are distinct.                                                  *)
LEMMA ConfigurePeerInv ==
  ASSUME GuardletInv, ConfigurePeer
  PROVE  GuardletInv'
<1> USE DEF GuardletInv
<1> DEFINE o == gr.instance
           e == o.peers[gr.next]
<1>1. /\ device \in Device /\ gr \in GuardletReconcile /\ o \in PublishedPeer
      /\ gr.next \in Nat \ {0}
  BY ReconcileFields DEF GuardletTypeOK
<1>2. /\ gr' \in GuardletReconcile /\ gr'.request = gr.request
      /\ gr'.pc = "peers" /\ gr.pc = "peers"
      /\ gr'.instance = o /\ gr'.next = gr.next + 1
  BY <1>1 DEF ConfigurePeer, Command, GuardletReconcile
<1>3. ~ buildCfgArgsFails(o)
  BY <1>2 DEF CommandsDone
<1>4. /\ DOMAIN o.peers = 1..Len(o.peers) /\ Len(o.peers) \in Nat
      /\ \A i \in DOMAIN o.peers : o.peers[i] \in Entry /\ o.peers[i].publicKey \in PublicKeys
  BY <1>1, <1>3, InstanceFields, buildCfgArgsChecks
<1>5. gr.next \in DOMAIN o.peers /\ e \in Entry /\ e.publicKey \in PublicKeys
  BY <1>1, <1>4 DEF ConfigurePeer
<1>6. device' = withPeer(device, e)
  BY DEF ConfigurePeer
<1> HIDE DEF e
<1>7. /\ device' \in Device
      /\ device'.exists = device.exists /\ device'.up = device.up /\ device'.key = device.key
      /\ device'.port = device.port /\ device'.addresses = device.addresses
      /\ device'.peers = device.peers \cup {e.publicKey}
      /\ \A x \in PublicKeys : device'.endpoints[x] =
           IF x = e.publicKey /\ e.endpoint # None THEN e.endpoint ELSE device.endpoints[x]
      /\ \A s \in Prefixes : device'.allowed[s] =
           IF e.allowedIPs = {} THEN device.allowed[s]
           ELSE IF s \in e.allowedIPs THEN e.publicKey
           ELSE IF device.allowed[s] = e.publicKey THEN None
           ELSE device.allowed[s]
  BY <1>1, <1>5, <1>6, withPeerFields
<1>8. GuardletTypeOK'
  BY <1>2, <1>7, CommandTypes DEF ConfigurePeer, Command, GuardletTypeOK, boundVars
<1>9. CommandsDone'
  BY <1>2, <1>3, <1>7 DEF CommandsDone
<1>10. UpIsConfigured'
  BY <1>7 DEF UpIsConfigured
<1>11. ASSUME Distinct(o), NEW i \in DOMAIN o.peers, i < gr.next + 1
       PROVE  EntryApplied(device, o.peers[i])'
  <2> DEFINE f == o.peers[i]
  <2>1. CASE i = gr.next
    <3>1. f = e /\ f' = e
      BY <1>2, <2>1 DEF e
    <3>2. /\ e.publicKey \in device'.peers
          /\ e.endpoint # None => device'.endpoints[e.publicKey] = e.endpoint
          /\ e.allowedIPs # {} =>
               \A s \in Prefixes : device'.allowed[s] = e.publicKey <=> s \in e.allowedIPs
      BY <1>5, <1>7, NoneAssumption
    <3> QED
      BY <3>1, <3>2 DEF EntryApplied
  <2>2. CASE i # gr.next
    <3>1. i < gr.next
      BY <1>1, <1>4, <1>11, <2>2
    <3>2. EntryApplied(device, f)
      BY <1>2, <1>11, <3>1 DEF EntriesDone
    <3>3. /\ f' = f /\ f.publicKey \in PublicKeys
          /\ f.publicKey # e.publicKey /\ f.allowedIPs \cap e.allowedIPs = {}
      BY <1>2, <1>4, <1>5, <1>11, <2>2 DEF Distinct, e
    <3> HIDE DEF f
    <3>4. /\ f.publicKey \in device'.peers
          /\ f.endpoint # None => device'.endpoints[f.publicKey] = f.endpoint
      BY <1>7, <3>2, <3>3 DEF EntryApplied
    <3>5. f.allowedIPs # {} =>
            \A s \in Prefixes : device'.allowed[s] = f.publicKey <=> s \in f.allowedIPs
      BY <1>7, <3>2, <3>3, NoneAssumption DEF EntryApplied
    <3>6. EntryApplied(device, f)'
      BY <3>3, <3>4, <3>5 DEF EntryApplied
    <3> QED
      BY <3>6 DEF f
  <2> QED
    BY <2>1, <2>2
<1>12. EntriesDone'
  BY <1>2, <1>11 DEF EntriesDone, Distinct
<1> QED
  BY <1>8, <1>9, <1>10, <1>12

(* After the entries, what a step leaves of the device keeps them applied. *)
LEMMA EntriesKept ==
  ASSUME GuardletInv, gr'.instance = gr.instance, gr.instance \in PublishedPeer,
         gr.pc \in {"up", "routes"} \/ (gr.pc = "peers" /\ gr.next > Len(gr.instance.peers)),
         gr.next \in Nat,
         device'.peers = device.peers, device'.endpoints = device.endpoints,
         device'.allowed = device.allowed
  PROVE  EntriesDone'
<1>1. ASSUME Distinct(gr.instance), NEW i \in DOMAIN gr.instance.peers
      PROVE  EntryApplied(device, gr.instance.peers[i])
  BY <1>1, InstanceFields DEF GuardletInv, EntriesDone
<1>2. ASSUME Distinct(gr.instance), NEW i \in DOMAIN gr.instance.peers
      PROVE  EntryApplied(device, gr.instance.peers[i])'
  BY <1>1, <1>2 DEF EntryApplied
<1> QED
  BY <1>2 DEF EntriesDone, Distinct

LEMMA setupIPInv ==
  ASSUME GuardletInv, setupIP
  PROVE  GuardletInv'
<1> USE DEF GuardletInv
<1>1. /\ device \in Device /\ gr \in GuardletReconcile /\ gr.instance \in PublishedPeer
      /\ gr.next \in Nat
  BY ReconcileFields DEF GuardletTypeOK
<1>2. /\ gr' \in GuardletReconcile /\ gr'.request = gr.request
      /\ gr'.pc = "up" /\ gr.pc = "peers" /\ gr'.instance = gr.instance
  BY <1>1 DEF setupIP, Command, GuardletReconcile
<1>3. ipMask(gr.instance.address) \in InterfaceAddress
  BY <1>1, InstanceFields, ipMaskTyped DEF setupIP
<1>4. /\ device' \in Device
      /\ device'.addresses = device.addresses \cup {ipMask(gr.instance.address)}
      /\ device'.exists = device.exists /\ device'.up = device.up /\ device'.key = device.key
      /\ device'.port = device.port /\ device'.peers = device.peers
      /\ device'.endpoints = device.endpoints /\ device'.allowed = device.allowed
  BY <1>1, <1>3 DEF setupIP, Device
<1>5. GuardletTypeOK'
  BY <1>2, <1>4, CommandTypes DEF setupIP, Command, GuardletTypeOK, boundVars
<1>6. CommandsDone'
  BY <1>2, <1>4 DEF setupIP, CommandsDone
<1>7. EntriesDone'
  BY <1>1, <1>2, <1>4, EntriesKept DEF setupIP
<1>8. UpIsConfigured'
  BY <1>4 DEF UpIsConfigured
<1> QED
  BY <1>5, <1>6, <1>7, <1>8

LEMMA ifupInv ==
  ASSUME GuardletInv, ifup
  PROVE  GuardletInv'
<1> USE DEF GuardletInv
<1>1. /\ device \in Device /\ gr \in GuardletReconcile /\ gr.instance \in PublishedPeer
      /\ gr.next \in Nat
  BY ReconcileFields DEF GuardletTypeOK
<1>2. AllPrefixes(gr.instance) \subseteq Prefixes
  BY <1>1, InstanceFields DEF AllPrefixes, Entry
<1>3. /\ gr' \in GuardletReconcile /\ gr'.request = gr.request
      /\ gr'.pc = "routes" /\ gr.pc = "up" /\ gr'.instance = gr.instance
  BY <1>1, <1>2 DEF ifup, Command, GuardletReconcile
<1>4. /\ device' \in Device /\ device'.up
      /\ device'.addresses = device.addresses
      /\ device'.exists = device.exists /\ device'.key = device.key
      /\ device'.port = device.port /\ device'.peers = device.peers
      /\ device'.endpoints = device.endpoints /\ device'.allowed = device.allowed
  BY <1>1 DEF ifup, Device
<1>5. GuardletTypeOK'
  BY <1>3, <1>4, CommandTypes DEF ifup, Command, GuardletTypeOK, boundVars
<1>6. CommandsDone'
  BY <1>3, <1>4 DEF CommandsDone
<1>7. EntriesDone'
  BY <1>1, <1>3, <1>4, EntriesKept
<1>8. UpIsConfigured'
  <2>1. gr.instance.endpoint.port \in Ports
    BY <1>1, <1>3, buildCfgArgsChecks DEF CommandsDone
  <2> QED
    BY <1>3, <1>4, <2>1, NoneAssumption DEF CommandsDone, UpIsConfigured
<1> QED
  BY <1>5, <1>6, <1>7, <1>8

(* A route is added or not: the rest of the device stays.                  *)
LEMMA RouteInv ==
  ASSUME GuardletInv, NEW s \in Prefixes,
         addRoute(s) \/ (addRouteFails(s) /\ faults' \in 0..MaxFaults /\ UNCHANGED restarts)
  PROVE  GuardletInv'
<1> USE DEF GuardletInv
<1>1. /\ device \in Device /\ gr \in GuardletReconcile /\ gr.instance \in PublishedPeer
      /\ gr.next \in Nat
  BY ReconcileFields DEF GuardletTypeOK
<1>2. /\ gr' \in GuardletReconcile /\ gr'.request = gr.request
      /\ gr'.pc = "routes" /\ gr.pc = "routes" /\ gr'.instance = gr.instance
  BY <1>1 DEF addRoute, addRouteFails, Command, GuardletReconcile
<1>3. gr.instance.address.ip \in IPs
  BY <1>1, <1>2, InstanceFields, ipMaskTyped DEF CommandsDone
<1>4. /\ device' \in Device
      /\ device'.addresses = device.addresses /\ device'.up = device.up
      /\ device'.exists = device.exists /\ device'.key = device.key
      /\ device'.port = device.port /\ device'.peers = device.peers
      /\ device'.endpoints = device.endpoints /\ device'.allowed = device.allowed
  <2>1. CASE device' = device
    BY <1>1, <2>1
  <2>2. CASE device' # device
    <3> DEFINE new == [device.routes EXCEPT ![s] = gr.instance.address.ip]
    <3>1. device' = [device EXCEPT !.routes = new]
      BY <2>2 DEF addRoute, addRouteFails
    <3>2. new \in [Prefixes -> IPs \cup {None}]
      BY <1>1, <1>3 DEF Device
    <3> HIDE DEF new
    <3> QED
      BY <1>1, <3>1, <3>2 DEF Device
  <2> QED
    BY <2>1, <2>2
<1>5. GuardletTypeOK'
  BY <1>2, <1>4, CommandTypes
     DEF addRoute, addRouteFails, Command, GuardletTypeOK, boundVars
<1>6. CommandsDone'
  BY <1>2, <1>4 DEF CommandsDone
<1>7. EntriesDone'
  BY <1>1, <1>2, <1>4, EntriesKept
<1>8. UpIsConfigured'
  BY <1>4 DEF UpIsConfigured
<1> QED
  BY <1>5, <1>6, <1>7, <1>8

LEMMA setupInterfaceFailsInv ==
  ASSUME GuardletInv, setupInterfaceFails, faults' \in 0..MaxFaults, UNCHANGED restarts
  PROVE  GuardletInv'
<1> USE DEF GuardletInv
<1>1. gr \in GuardletReconcile
  BY DEF GuardletTypeOK
<1>2. /\ gr' \in GuardletReconcile /\ gr'.request = gr.request
      /\ gr'.pc = "configure" /\ gr.pc # "idle" /\ gr'.next = 1
  BY <1>1 DEF setupInterfaceFails, Command, CommandsDone, GuardletReconcile
<1>3. GuardletTypeOK'
  BY <1>2, CommandTypes DEF setupInterfaceFails, Command, GuardletTypeOK
<1>4. CommandsDone' /\ EntriesDone'
  BY <1>2 DEF CommandsDone, EntriesDone
<1>5. UpIsConfigured'
  BY DEF setupInterfaceFails, UpIsConfigured
<1> QED
  BY <1>3, <1>4, <1>5

LEMMA ReconciledInv ==
  ASSUME GuardletInv, Reconciled
  PROVE  GuardletInv'
<1>1. GuardletTypeOK'
  BY NoneTyped DEF GuardletInv, GuardletTypeOK, Reconciled, Command, clusterVars,
                   boundVars, GuardletIdle
<1>2. CommandsDone' /\ EntriesDone'
  BY IdleInv DEF Reconciled
<1>3. UpIsConfigured'
  BY DEF GuardletInv, UpIsConfigured, Reconciled
<1> QED
  BY <1>1, <1>2, <1>3 DEF GuardletInv

(* The invariant is kept by what happens around the guardlet.              *)
LEMMA PublishInv ==
  ASSUME GuardletInv, NEW r \in Request, Publish(r)
  PROVE  GuardletInv'
<1>1. published' \in [Request -> PublishedPeer]
  BY NoneTyped, GuardletAssumption DEF GuardletInv, GuardletTypeOK, Publish
<1>2. changes' \in 0..MaxChanges
  BY GuardletAssumption DEF GuardletInv, GuardletTypeOK, Publish
<1>3. GuardletTypeOK'
  BY <1>1, <1>2 DEF GuardletInv, GuardletTypeOK, Publish, boundVars
<1> QED
  BY <1>3, StillInv DEF Publish

LEMMA ResyncInv ==
  ASSUME GuardletInv, Resync
  PROVE  GuardletInv'
<1>1. GuardletTypeOK'
  BY DEF GuardletInv, GuardletTypeOK, Resync, LiveRequests, clusterVars, boundVars
<1> QED
  BY <1>1, StillInv DEF Resync

LEMMA RestartInv ==
  ASSUME GuardletInv, Restart
  PROVE  GuardletInv'
<1>1. restarts' \in 0..MaxRestarts
  BY GuardletAssumption DEF GuardletInv, GuardletTypeOK, Restart
<1>2. GuardletTypeOK'
  BY <1>1, NoneTyped DEF GuardletInv, GuardletTypeOK, Restart, LiveRequests, clusterVars,
                         GuardletIdle
<1>3. CommandsDone' /\ EntriesDone'
  BY IdleInv DEF Restart
<1>4. UpIsConfigured'
  BY DEF GuardletInv, UpIsConfigured, Restart, NoDevice
<1> QED
  BY <1>2, <1>3, <1>4 DEF GuardletInv

LEMMA FaultInv ==
  ASSUME GuardletInv, Fault
  PROVE  GuardletInv'
<1>1. faults' \in 0..MaxFaults /\ restarts' \in 0..MaxRestarts /\ UNCHANGED restarts
  BY GuardletAssumption DEF GuardletInv, GuardletTypeOK, Fault
<1>2. CASE setupInterfaceFails
  BY <1>1, <1>2, setupInterfaceFailsInv
<1>3. CASE \E s \in Prefixes : addRouteFails(s)
  BY <1>1, <1>3, RouteInv
<1>4. CASE CommandFails
  BY <1>1, <1>4, RetryInv DEF CommandFails
<1> QED
  BY <1>2, <1>3, <1>4 DEF Fault

LEMMA NextInv == GuardletInv /\ [Next]_vars => GuardletInv'
<1> SUFFICES ASSUME GuardletInv, [Next]_vars PROVE GuardletInv'
  OBVIOUS
<1>1. CASE GuardletStep
  <2>1. ASSUME ConfigureDeviceFails \/ setupIPFails PROVE GuardletInv'
    <3>1. Retry /\ gr.pc # "idle" /\ UNCHANGED boundVars
      BY <2>1 DEF ConfigureDeviceFails, setupIPFails
    <3>2. faults' \in 0..MaxFaults /\ restarts' \in 0..MaxRestarts
      BY <3>1 DEF GuardletInv, GuardletTypeOK, boundVars
    <3> QED
      BY <3>1, <3>2, RetryInv
  <2> QED
    BY <1>1, <2>1, GuardletGetInv, setupInterfaceInv, ConfigureDeviceInv, ConfigurePeerInv,
       setupIPInv, ifupInv, RouteInv, ReconciledInv DEF GuardletStep
<1>2. CASE Fault
  BY <1>2, FaultInv
<1>3. CASE \E r \in Request : Publish(r)
  BY <1>3, PublishInv
<1>4. CASE Resync
  BY <1>4, ResyncInv
<1>5. CASE Restart
  BY <1>5, RestartInv
<1>6. CASE UNCHANGED vars
  <2>1. GuardletTypeOK' /\ UNCHANGED <<gr, device>>
    BY <1>6 DEF vars, clusterVars, boundVars, GuardletInv, GuardletTypeOK
  <2> QED
    BY <2>1, StillInv
<1> QED
  BY <1>1, <1>2, <1>3, <1>4, <1>5, <1>6 DEF Next

(* The guardlet keeps the invariant.                                       *)
THEOREM GuardletInvariant == Spec => []GuardletInv
BY InitInv, NextInv, PTL DEF Spec

(* Every variable of the guardlet holds a value of its type, whatever is   *)
(* published, fails or is restarted; every address that setupIP adds has a *)
(* netmask.                                                                *)
THEOREM GuardletTypeCorrect == Spec => []GuardletTypeOK
<1>1. GuardletInv => GuardletTypeOK
  BY DEF GuardletInv
<1> QED
  BY <1>1, GuardletInvariant, PTL

(* A Reconcile that reaches the routes has applied the Peer that it read   *)
(* in full: key, port, address and every entry of status.peers, for any    *)
(* number of entries with distinct keys and prefixes, although the failure *)
(* of ip link add is swallowed and wg set applies entry after entry.       *)
THEOREM DeviceApplied == Spec => []ReconciledIsApplied
<1>1. GuardletInv => ReconciledIsApplied
  <2> SUFFICES ASSUME GuardletInv, gr.pc = "routes", Distinct(gr.instance)
               PROVE  Applied(device, gr.instance)
    BY DEF ReconciledIsApplied
  <2>1. /\ device.exists /\ device.up /\ device.key
        /\ device.port = gr.instance.endpoint.port
        /\ ipMask(gr.instance.address) \in device.addresses
    BY DEF GuardletInv, CommandsDone
  <2>2. \A i \in DOMAIN gr.instance.peers : EntryApplied(device, gr.instance.peers[i])
    BY DEF GuardletInv, EntriesDone
  <2> QED
    BY <2>1, <2>2 DEF Applied
<1> QED
  BY <1>1, GuardletInvariant, PTL

(* The interface is up only with a private key, a listening port and an    *)
(* address, after any failures, restarts and reboots: ifup comes after them*)
(* all, and each ends the Reconcile when it fails.                         *)
THEOREM UpOnlyConfigured == Spec => []UpIsConfigured
<1>1. GuardletInv => UpIsConfigured
  BY DEF GuardletInv
<1> QED
  BY <1>1, GuardletInvariant, PTL

(* Of a Peer whose address has no netmask, the file that mkconf prints and *)
(* the commands that a guardlet runs configure the same: for any number of *)
(* entries with distinct keys and prefixes.                                *)
THEOREM FileAgrees == Spec => []MkconfAgrees
<1>1. GuardletInv => MkconfAgrees
  <2> DEFINE o == gr.instance
             f == generateConf(o)
  <2> SUFFICES ASSUME GuardletInv, gr.pc = "routes", Distinct(o), o.address.mask = None
               PROVE  /\ ~ generateConfFails(o) /\ ~ wgQuickRefuses(f)
                      /\ device.port = f.listenPort
                      /\ [ip |-> f.address.ip, mask |-> f.address.masks[1]] \in device.addresses
                      /\ \A i \in DOMAIN f.peers :
                           /\ f.peers[i].publicKey \in device.peers
                           /\ f.peers[i].endpoint # None =>
                                device.endpoints[f.peers[i].publicKey] = f.peers[i].endpoint
                      /\ \A s \in AllPrefixes(o) : device.allowed[s] = wgQuickAllowed(f, s)
    BY DEF MkconfAgrees
  <2>1. /\ ~ buildCfgArgsFails(o) /\ ~ AddressRefused(o.address)
        /\ device.port = o.endpoint.port /\ ipMask(o.address) \in device.addresses
        /\ \A i \in DOMAIN o.peers : EntryApplied(device, o.peers[i])
    BY DEF GuardletInv, CommandsDone, EntriesDone
  <2>2. o \in PublishedPeer
    BY ReconcileFields DEF GuardletInv, GuardletTypeOK
  <2>3. /\ o.address \in Address \cup {None} /\ DOMAIN o.peers = 1..Len(o.peers)
        /\ Len(o.peers) \in Nat
        /\ \A i \in DOMAIN o.peers : o.peers[i] \in Entry
    BY <2>2, InstanceFields
  <2>4. o.address # None /\ o.address \in Address /\ o.address.ip \in IPs
    BY <2>1, <2>3, ipMaskTyped DEF AddressRefused
  <2>5. /\ f.address = [ip |-> o.address.ip, masks |-> <<"32">>]
        /\ f.listenPort = o.endpoint.port /\ f.peers = o.peers
    BY <2>4 DEF generateConf, ConfAddress
  <2>6. ~ generateConfFails(o)
    BY <2>1 DEF generateConfFails, buildCfgArgsFails
  <2>7. ~ wgQuickRefuses(f)
    <3>1. f.address.ip # None /\ Len(f.address.masks) = 1
      BY <2>4, <2>5, NoneAssumption
    <3>2. \A i \in DOMAIN f.peers : f.peers[i].publicKey # None
      BY <2>1, <2>5 DEF buildCfgArgsFails
    <3> QED
      BY <3>1, <3>2 DEF wgQuickRefuses
  <2>8. [ip |-> f.address.ip, mask |-> f.address.masks[1]] \in device.addresses
    <3>1. ipMask(o.address) = [ip |-> o.address.ip, mask |-> "32"]
      BY DEF ipMask
    <3> QED
      BY <3>1, <2>1, <2>5
  <2>9. ASSUME NEW i \in DOMAIN f.peers
        PROVE  /\ f.peers[i].publicKey \in device.peers
               /\ f.peers[i].endpoint # None =>
                    device.endpoints[f.peers[i].publicKey] = f.peers[i].endpoint
    BY <2>1, <2>5 DEF EntryApplied
  <2>10. ASSUME NEW s \in AllPrefixes(o)
         PROVE  device.allowed[s] = wgQuickAllowed(f, s)
    <3> DEFINE naming == {i \in DOMAIN f.peers : s \in f.peers[i].allowedIPs}
    <3>1. PICK i \in DOMAIN o.peers : s \in o.peers[i].allowedIPs
      BY DEF AllPrefixes
    <3>2. s \in Prefixes /\ device.allowed[s] = o.peers[i].publicKey
      BY <2>1, <2>3, <3>1 DEF EntryApplied, Entry
    <3>3. naming = {i}
      BY <2>5, <3>1 DEF Distinct
    <3>4. i \in Nat /\ (CHOOSE j \in naming : \A l \in naming : l <= j) = i
      BY <2>3, <3>3
    <3>5. naming # {} /\ wgQuickAllowed(f, s) =
            f.peers[CHOOSE j \in naming : \A l \in naming : l <= j].publicKey
      BY <3>3 DEF wgQuickAllowed
    <3> QED
      BY <2>5, <3>2, <3>4, <3>5
  <2> QED
    BY <2>1, <2>5, <2>6, <2>7, <2>8, <2>9, <2>10
<1> QED
  BY <1>1, GuardletInvariant, PTL

-----------------------------------------------------------------------------
(* What serves stays in service.                                           *)

(* A step that takes no allowed IP, endpoint or route away.                *)
LEMMA ServesStill ==
  ASSUME NEW o, NEW d, NEW d2,
         d.up => d2.up, d2.allowed = d.allowed, d2.endpoints = d.endpoints,
         \A s \in AllPrefixes(o) : d.routes[s] # None => d2.routes[s] # None
  PROVE  Serves(d, o) \subseteq Serves(d2, o)
BY DEF Serves

(* Configuring an entry takes nothing from another when all are distinct,  *)
(* and nothing of what is its own.                                         *)
LEMMA EntryTakesNothing ==
  ASSUME GuardletInv, ConfigurePeer, Distinct(gr.instance)
  PROVE  Serves(device, gr.instance) \subseteq Serves(device', gr.instance)
<1> DEFINE o == gr.instance
           e == o.peers[gr.next]
<1>1. device \in Device /\ o \in PublishedPeer /\ gr.next \in Nat \ {0}
  BY ReconcileFields DEF GuardletInv, GuardletTypeOK
<1>2. ~ buildCfgArgsFails(o) /\ gr.next <= Len(o.peers)
  BY DEF GuardletInv, CommandsDone, ConfigurePeer, Command
<1>3. /\ DOMAIN o.peers = 1..Len(o.peers) /\ Len(o.peers) \in Nat
      /\ \A i \in DOMAIN o.peers : o.peers[i] \in Entry /\ o.peers[i].publicKey \in PublicKeys
  BY <1>1, <1>2, InstanceFields, buildCfgArgsChecks
<1>4. gr.next \in DOMAIN o.peers /\ e \in Entry /\ e.publicKey \in PublicKeys
  BY <1>1, <1>2, <1>3
<1>5. device' = withPeer(device, e)
  BY DEF ConfigurePeer
<1> HIDE DEF e
<1>6. /\ device'.up = device.up
      /\ \A x \in PublicKeys : device'.endpoints[x] =
           IF x = e.publicKey /\ e.endpoint # None THEN e.endpoint ELSE device.endpoints[x]
      /\ \A s \in Prefixes : device'.allowed[s] =
           IF e.allowedIPs = {} THEN device.allowed[s]
           ELSE IF s \in e.allowedIPs THEN e.publicKey
           ELSE IF device.allowed[s] = e.publicKey THEN None
           ELSE device.allowed[s]
  BY <1>1, <1>4, <1>5, withPeerFields
<1>7. device'.routes = device.routes
  BY <1>1, <1>5 DEF withPeer, Device
<1>8. ASSUME NEW s \in Serves(device, o)
      PROVE  s \in Serves(device', o)
  <2>1. PICK i \in DOMAIN o.peers :
          /\ s \in o.peers[i].allowedIPs /\ device.allowed[s] = o.peers[i].publicKey
          /\ o.peers[i].endpoint # None =>
               device.endpoints[o.peers[i].publicKey] = o.peers[i].endpoint
    BY <1>8 DEF Serves
  <2> DEFINE f == o.peers[i]
  <2>2. s \in Prefixes /\ f.publicKey \in PublicKeys
    BY <1>3, <2>1 DEF Entry
  <2>3. i # gr.next => f.publicKey # e.publicKey /\ f.allowedIPs \cap e.allowedIPs = {}
    BY <1>4, <2>1 DEF Distinct, e
  <2>4. i = gr.next => f = e
    BY DEF e
  <2> HIDE DEF f
  <2>5. s \in f.allowedIPs /\ device.allowed[s] = f.publicKey
        /\ (f.endpoint # None => device.endpoints[f.publicKey] = f.endpoint)
    BY <2>1 DEF f
  <2>6. device'.allowed[s] = f.publicKey
    <3>1. CASE i = gr.next
      BY <1>6, <2>2, <2>4, <2>5, <3>1
    <3>2. CASE i # gr.next
      BY <1>6, <2>2, <2>3, <2>5, <3>2
    <3> QED
      BY <3>1, <3>2
  <2>7. f.endpoint # None => device'.endpoints[f.publicKey] = f.endpoint
    <3>1. CASE i = gr.next
      BY <1>6, <2>2, <2>4, <3>1
    <3>2. CASE i # gr.next
      BY <1>6, <2>2, <2>3, <2>5, <3>2
    <3> QED
      BY <3>1, <3>2
  <2>8. s \in AllPrefixes(o) /\ device'.up /\ device'.routes[s] # None
    BY <1>6, <1>7, <1>8 DEF Serves
  <2> QED
    BY <2>1, <2>5, <2>6, <2>7, <2>8 DEF Serves, f
<1> QED
  BY <1>8

LEMMA ServesStep ==
  ASSUME GuardletInv, [Next]_vars
  PROVE  NotInterrupted
<1> DEFINE o == gr.instance
<1> SUFFICES ASSUME Distinct(o), ~ buildCfgArgsFails(o), device' # NoDevice
             PROVE  Serves(device, o) \subseteq Serves(device', o)
  BY DEF NotInterrupted
<1>1. device \in Device /\ o \in PublishedPeer
  BY ReconcileFields DEF GuardletInv, GuardletTypeOK
<1>2. CASE device' = device
  BY <1>2
<1>3. CASE setupInterface
  <2>1. CASE device.exists
    BY <1>2, <1>3, <2>1 DEF setupInterface
  <2>2. CASE ~ device.exists
    <3>1. ~ device.up
      BY <2>2 DEF GuardletInv, UpIsConfigured
    <3> QED
      BY <3>1 DEF Serves
  <2> QED
    BY <2>1, <2>2
<1>4. CASE ConfigureDevice
  <2>1. /\ device'.up = device.up /\ device'.allowed = device.allowed
        /\ device'.endpoints = device.endpoints /\ device'.routes = device.routes
    BY <1>1, <1>4 DEF ConfigureDevice, Device
  <2> QED
    BY <2>1, ServesStill
<1>5. CASE ConfigurePeer
  BY <1>5, EntryTakesNothing
<1>6. CASE setupIP
  <2>1. /\ device'.up = device.up /\ device'.allowed = device.allowed
        /\ device'.endpoints = device.endpoints /\ device'.routes = device.routes
    BY <1>1, <1>6 DEF setupIP, Device
  <2> QED
    BY <2>1, ServesStill
<1>7. CASE ifup
  <2>1. /\ device'.up /\ device'.allowed = device.allowed
        /\ device'.endpoints = device.endpoints /\ device'.routes = device.routes
    BY <1>1, <1>7 DEF ifup, Device
  <2> QED
    BY <2>1, ServesStill
<1>8. ASSUME NEW s \in Prefixes, addRoute(s)
      PROVE  Serves(device, o) \subseteq Serves(device', o)
  <2> DEFINE new == [device.routes EXCEPT ![s] = o.address.ip]
  <2>1. o.address.ip \in IPs
    BY <1>1, <1>8, InstanceFields, ipMaskTyped DEF addRoute, Command, GuardletInv, CommandsDone
  <2>2. new \in [Prefixes -> IPs \cup {None}]
        /\ \A x \in Prefixes : device.routes[x] # None => new[x] # None
    BY <1>1, <2>1, NoneAssumption DEF Device
  <2> HIDE DEF new
  <2>3. device' = device \/ device' = [device EXCEPT !.routes = new]
    BY <1>8 DEF addRoute, new
  <2>4. CASE device' = [device EXCEPT !.routes = new]
    <3>1. /\ device'.up = device.up /\ device'.allowed = device.allowed
          /\ device'.endpoints = device.endpoints /\ device'.routes = new
      BY <1>1, <2>4 DEF Device
    <3>2. AllPrefixes(o) \subseteq Prefixes
      BY <1>1, InstanceFields DEF AllPrefixes, Entry
    <3> QED
      BY <2>2, <3>1, <3>2, ServesStill
  <2> QED
    BY <1>2, <2>3, <2>4
<1>9. CASE Restart
  BY <1>2, <1>9 DEF Restart
<1>10. CASE \/ (\E r \in Request : GuardletGet(r) \/ Publish(r)) \/ ConfigureDeviceFails
            \/ setupIPFails \/ Reconciled \/ Fault \/ Resync \/ UNCHANGED vars
  BY <1>2, <1>10 DEF GuardletGet, Publish, ConfigureDeviceFails, setupIPFails, Retry, Reconciled,
       Fault, setupInterfaceFails, addRouteFails, CommandFails, Resync, vars
<1> QED
  BY <1>3, <1>4, <1>5, <1>6, <1>7, <1>8, <1>9, <1>10 DEF Next, GuardletStep

(* However often the guardlet configures a device in use again, and from   *)
(* whatever version to whatever other, nothing that the device serves of   *)
(* the version it is given is interrupted, for lists of any length with    *)
(* distinct keys and prefixes; only a reboot interrupts it.                *)
THEOREM DeviceNotInterrupted == Spec => IsNotInterrupted
<1>1. GuardletInv /\ [Next]_vars => NotInterrupted
  BY ServesStep
<1> QED
  BY <1>1, GuardletInvariant, PTL DEF Spec, IsNotInterrupted

-----------------------------------------------------------------------------
(* A Reconcile amounts to one step of Machine. At each of its commands the *)
(* device is one that the machine could have been left with.               *)
SoFar == Configured(gr.found, gr.instance, Listed(gr.instance))

AddressedSoFar == Addressed(SoFar[Len(gr.instance.peers)], gr.instance)

MidwayInv ==
  /\ gr.pc = "idle" => gr.instance = Unpublished
  /\ gr.pc # "idle" => gr.instance.live
  /\ gr.pc = "interface" => device = gr.found
  /\ gr.pc = "configure" => device \in {gr.found, Interface(gr.found)}
  /\ gr.pc = "peers" => gr.next <= Len(gr.instance.peers) + 1 /\ device = SoFar[gr.next - 1]
  /\ gr.pc = "up" => device = AddressedSoFar
  /\ gr.pc = "routes" =>
       /\ AddressedSoFar \in Device
       /\ gr.todo \subseteq AllPrefixes(gr.instance)
       /\ \E routed \in SUBSET AllPrefixes(gr.instance) :
            device = Up(AddressedSoFar, gr.instance, routed)

(* The devices after each of the entries as they are listed.               *)
LEMMA SoFarSteps ==
  ASSUME NEW d, NEW o \in PublishedPeer
  PROVE  LET after == Configured(d, o, Listed(o))
         IN  /\ Len(Listed(o)) = Len(o.peers)
             /\ after[0] = Started(d, o)
             /\ \A j \in 1..Len(o.peers) : after[j] = withPeer(after[j - 1], o.peers[j])
<1> DEFINE after == Configured(d, o, Listed(o))
<1>1. DOMAIN o.peers = 1..Len(o.peers) /\ Len(o.peers) \in Nat
  BY InstanceFields
<1>2. Len(Listed(o)) = Len(o.peers)
  BY <1>1 DEF Listed
<1>3. /\ after[0] = Started(d, o)
      /\ \A j \in 1..Len(Listed(o)) : after[j] = Entered(after[j - 1], o, Listed(o)[j])
  BY <1>1, <1>2, ConfiguredInSteps
<1> HIDE DEF after
<1>4. ASSUME NEW j \in 1..Len(o.peers)
      PROVE  after[j] = withPeer(after[j - 1], o.peers[j])
  <2>1. Listed(o)[j] = j /\ j \in DOMAIN o.peers
    BY <1>1 DEF Listed
  <2>2. after[j] = Entered(after[j - 1], o, j)
    BY <1>2, <1>3, <2>1
  <2> QED
    BY <2>1, <2>2 DEF Entered
<1> QED
  BY <1>2, <1>3, <1>4 DEF after

(* What addRoute makes of the device.                                      *)
OneRoute(d, s, gateway) ==
  IF d.routes[s] = None
    THEN [d EXCEPT !.routes = [d.routes EXCEPT ![s] = gateway]] ELSE d

(* Routes are added one by one to those that there are.                    *)
LEMMA OneMoreRoute ==
  ASSUME NEW d \in Device, NEW o, o.address.ip \in IPs, NEW routed \in SUBSET Prefixes,
         NEW s \in Prefixes
  PROVE  Up(d, o, routed \cup {s}) = OneRoute(Up(d, o, routed), s, o.address.ip)
<1> DEFINE up == Up(d, o, routed)
<1> DEFINE R(set) == [x \in Prefixes |-> IF x \in set /\ d.routes[x] = None
                                          THEN o.address.ip ELSE d.routes[x]]
<1>1. up = [d EXCEPT !.up = TRUE, !.routes = R(routed)]
  BY DEF Up
<1>2. Up(d, o, routed \cup {s}) = [d EXCEPT !.up = TRUE, !.routes = R(routed \cup {s})]
  BY DEF Up
<1>3. \A x \in Prefixes :
        R(routed)[x] = IF x \in routed /\ d.routes[x] = None THEN o.address.ip ELSE d.routes[x]
  OBVIOUS
<1>4. R(routed \cup {s}) =
        IF R(routed)[s] = None THEN [R(routed) EXCEPT ![s] = o.address.ip] ELSE R(routed)
  BY GuardletAssumption
<1> HIDE DEF R
<1>5. up.routes = R(routed)
  BY <1>1 DEF Device
<1>6. [up EXCEPT !.routes = [up.routes EXCEPT ![s] = o.address.ip]] =
        [d EXCEPT !.up = TRUE, !.routes = [R(routed) EXCEPT ![s] = o.address.ip]]
  BY <1>1, <1>5 DEF Device
<1> QED
  BY <1>1, <1>2, <1>4, <1>5, <1>6 DEF OneRoute

(* wg set ends where the next entry would come after the last.             *)
LEMMA MidwayStep ==
  ASSUME GuardletInv, GuardletInv', MidwayInv, [Next]_vars
  PROVE  MidwayInv'
<1> DEFINE o == gr.instance
<1>1. /\ device \in Device /\ device' \in Device /\ gr \in GuardletReconcile /\ o \in PublishedPeer
      /\ gr.next \in Nat \ {0} /\ gr.found \in Device
  BY ReconcileFields DEF GuardletInv, GuardletTypeOK
<1>2. DOMAIN o.peers = 1..Len(o.peers) /\ Len(o.peers) \in Nat
  BY <1>1, InstanceFields
<1>3. /\ SoFar[0] = Started(gr.found, o)
      /\ \A j \in 1..Len(o.peers) : SoFar[j] = withPeer(SoFar[j - 1], o.peers[j])
  BY <1>1, SoFarSteps DEF SoFar
<1>4. ASSUME gr'.instance = o, gr'.found = gr.found
      PROVE  SoFar' = SoFar /\ AddressedSoFar' = AddressedSoFar
  BY <1>4 DEF SoFar, AddressedSoFar
<1>5. ASSUME gr' = GuardletIdle PROVE MidwayInv'
  BY <1>5 DEF MidwayInv, GuardletIdle
<1>6. ASSUME gr' = gr, device' = device PROVE MidwayInv'
  BY <1>6 DEF MidwayInv, SoFar, AddressedSoFar
<1>7. ASSUME NEW r \in Request, GuardletGet(r) PROVE MidwayInv'
  <2>1. CASE gr' = GuardletIdle
    BY <1>5, <2>1
  <2>2. CASE /\ published[r].live
             /\ gr' = [GuardletIdle EXCEPT !.pc = "interface", !.request = r,
                                           !.instance = published[r], !.found = device]
    <3>1. /\ gr'.pc = "interface" /\ gr'.instance = published[r] /\ gr'.found = device
          /\ device' = device
      BY <1>7, <2>2 DEF GuardletIdle, GuardletGet
    <3> QED
      BY <2>2, <3>1 DEF MidwayInv
  <2> QED
    BY <1>7, <2>1, <2>2 DEF GuardletGet
<1>8. CASE setupInterface \/ setupInterfaceFails
  <2>1. /\ gr.pc = "interface" /\ gr'.pc = "configure" /\ gr'.instance = o
        /\ gr'.found = gr.found
    BY <1>1, <1>8 DEF setupInterface, setupInterfaceFails, Command, GuardletReconcile
  <2>2. device = gr.found /\ device' \in {gr.found, Interface(gr.found)}
    BY <1>8, <2>1 DEF setupInterface, setupInterfaceFails, MidwayInv, Interface
  <2> QED
    BY <2>1, <2>2 DEF MidwayInv
<1>9. CASE ConfigureDevice
  <2>1. /\ gr.pc = "configure" /\ gr'.pc = "peers" /\ gr'.instance = o
        /\ gr'.found = gr.found /\ gr'.next = 1
    BY <1>1, <1>9 DEF ConfigureDevice, Command, GuardletReconcile, GuardletInv, CommandsDone
  <2>2. device = Interface(gr.found)
    BY <1>9, <2>1 DEF ConfigureDevice, MidwayInv, Interface
  <2>3. device' = SoFar[0]
    BY <1>3, <1>9, <2>2 DEF ConfigureDevice, Started
  <2> QED
    BY <1>2, <1>4, <2>1, <2>3 DEF MidwayInv
<1>10. CASE ConfigurePeer
  <2>1. /\ gr.pc = "peers" /\ gr'.pc = "peers" /\ gr'.instance = o
        /\ gr'.found = gr.found /\ gr'.next = gr.next + 1
    BY <1>1, <1>10 DEF ConfigurePeer, Command, GuardletReconcile
  <2>2. gr.next \in 1..Len(o.peers) /\ device = SoFar[gr.next - 1]
    BY <1>1, <1>2, <1>10, <2>1 DEF ConfigurePeer, MidwayInv
  <2>3. device' = SoFar[gr.next]
    BY <1>3, <1>10, <2>2 DEF ConfigurePeer
  <2>4. gr'.next <= Len(o.peers) + 1 /\ gr'.next - 1 = gr.next
    BY <1>1, <1>2, <2>1, <2>2
  <2> QED
    BY <1>4, <2>1, <2>3, <2>4 DEF MidwayInv
<1>11. CASE setupIP
  <2>1. /\ gr.pc = "peers" /\ gr'.pc = "up" /\ gr'.instance = o /\ gr'.found = gr.found
    BY <1>1, <1>11 DEF setupIP, Command, GuardletReconcile
  <2>2. gr.next - 1 = Len(o.peers)
    BY <1>1, <1>2, <1>11, <2>1 DEF setupIP, MidwayInv
  <2>3. device = SoFar[Len(o.peers)]
    BY <2>1, <2>2 DEF MidwayInv
  <2>4. device' = AddressedSoFar
    BY <1>11, <2>3 DEF setupIP, AddressedSoFar, Addressed
  <2> QED
    BY <1>4, <2>1, <2>4 DEF MidwayInv
<1>12. CASE ifup
  <2>1. /\ gr.pc = "up" /\ gr'.pc = "routes" /\ gr'.instance = o /\ gr'.found = gr.found
        /\ gr'.todo = AllPrefixes(o)
    BY <1>1, <1>12 DEF ifup, Command, GuardletReconcile
  <2>2. device = AddressedSoFar
    BY <2>1 DEF MidwayInv
  <2>3. device' = Up(device, o, {})
    <3>1. [s \in Prefixes |-> IF s \in {} /\ device.routes[s] = None
                                THEN o.address.ip ELSE device.routes[s]] = device.routes
      BY <1>1 DEF Device
    <3>2. Up(device, o, {}) = [device EXCEPT !.up = TRUE, !.routes = device.routes]
      BY <3>1 DEF Up
    <3> QED
      BY <1>1, <1>12, <3>2 DEF ifup, Device
  <2> QED
    BY <1>1, <1>4, <2>1, <2>2, <2>3 DEF MidwayInv
<1>13. ASSUME NEW s \in Prefixes, addRoute(s) \/ addRouteFails(s) PROVE MidwayInv'
  <2>1. /\ gr.pc = "routes" /\ gr'.pc = "routes" /\ gr'.instance = o /\ gr'.found = gr.found
        /\ gr'.todo = gr.todo \ {s} /\ s \in gr.todo
    BY <1>1, <1>13 DEF addRoute, addRouteFails, Command, GuardletReconcile
  <2>2. PICK routed \in SUBSET AllPrefixes(o) : device = Up(AddressedSoFar, o, routed)
    BY <2>1 DEF MidwayInv
  <2>3. AddressedSoFar \in Device /\ gr.todo \subseteq AllPrefixes(o)
    BY <2>1 DEF MidwayInv
  <2>4. o.address.ip \in IPs
    BY <1>1, <2>1, InstanceFields, ipMaskTyped DEF GuardletInv, CommandsDone
  <2>5. AllPrefixes(o) \subseteq Prefixes
    BY <1>1, InstanceFields DEF AllPrefixes, Entry
  <2>6. addRoute(s) => device' = Up(AddressedSoFar, o, routed \cup {s})
    <3>1. routed \in SUBSET Prefixes
      BY <2>5
    <3>2. Up(AddressedSoFar, o, routed \cup {s}) = OneRoute(device, s, o.address.ip)
      BY <2>2, <2>3, <2>4, <3>1, OneMoreRoute
    <3>3. addRoute(s) => device' = OneRoute(device, s, o.address.ip)
      BY DEF addRoute, OneRoute
    <3> QED
      BY <3>2, <3>3
  <2>7. \E more \in SUBSET AllPrefixes(o) : device' = Up(AddressedSoFar, o, more)
    <3>1. CASE addRoute(s)
      BY <2>1, <2>3, <2>6, <3>1
    <3>2. CASE addRouteFails(s)
      BY <2>2, <3>2 DEF addRouteFails
    <3> QED
      BY <1>13, <3>1, <3>2
  <2> QED
    BY <1>4, <2>1, <2>3, <2>7 DEF MidwayInv
<1>14. CASE ConfigureDeviceFails \/ setupIPFails \/ CommandFails \/ Reconciled \/ Restart
  BY <1>5, <1>14 DEF ConfigureDeviceFails, setupIPFails, CommandFails, Retry, Reconciled, Restart
<1>15. CASE (\E r \in Request : Publish(r)) \/ Resync \/ UNCHANGED vars
  BY <1>6, <1>15 DEF Publish, Resync, vars
<1> QED
  BY <1>7, <1>8, <1>9, <1>10, <1>11, <1>12, <1>13, <1>14, <1>15 DEF Next, GuardletStep, Fault

(* Every step keeps MidwayInv, and whenever a Reconcile stops, it leaves   *)
(* one of the outcomes behind.                                             *)
THEOREM Midway == Spec => [](GuardletInv /\ MidwayInv)
<1>1. Init => MidwayInv
  BY DEF Init, MidwayInv, GuardletIdle
<1>2. GuardletInv /\ GuardletInv' /\ MidwayInv /\ [Next]_vars => MidwayInv'
  BY MidwayStep
<1> QED
  BY <1>1, <1>2, GuardletInvariant, PTL DEF Spec

LEMMA InOutcomes ==
  ASSUME GuardletInv, MidwayInv, gr.pc # "idle"
  PROVE  device \in Outcomes(gr.found, gr.instance, Listed(gr.instance))
<1> DEFINE o == gr.instance
<1>1. /\ gr \in GuardletReconcile /\ o \in PublishedPeer /\ gr.next \in Nat \ {0}
      /\ gr.pc \in {"interface", "configure", "peers", "up", "routes"}
  BY ReconcileFields DEF GuardletInv, GuardletTypeOK, GuardletReconcile
<1>2. DOMAIN o.peers = 1..Len(o.peers) /\ Len(o.peers) \in Nat
  BY <1>1, InstanceFields
<1>3. Len(Listed(o)) = Len(o.peers)
  BY <1>2 DEF Listed
<1>4. ASSUME ~ buildCfgArgsFails(o), NEW i \in 0..Len(o.peers), device = SoFar[i]
      PROVE  device \in Outcomes(gr.found, o, Listed(o))
  BY <1>3, <1>4 DEF SoFar, Outcomes
<1>5. ASSUME Applicable(o),
             \/ device = AddressedSoFar
             \/ \E routed \in SUBSET AllPrefixes(o) : device = Up(AddressedSoFar, o, routed)
      PROVE  device \in Outcomes(gr.found, o, Listed(o))
  BY <1>3, <1>5 DEF SoFar, AddressedSoFar, Outcomes
<1>6. CASE gr.pc \in {"interface", "configure"}
  BY <1>6 DEF MidwayInv, Outcomes
<1>7. CASE gr.pc = "peers"
  <2>1. ~ buildCfgArgsFails(o) /\ gr.next - 1 \in 0..Len(o.peers) /\ device = SoFar[gr.next - 1]
    BY <1>1, <1>2, <1>7 DEF MidwayInv, GuardletInv, CommandsDone
  <2> QED
    BY <1>4, <2>1
<1>8. CASE gr.pc \in {"up", "routes"}
  <2>1. Applicable(o)
    BY <1>8 DEF GuardletInv, CommandsDone, Applicable
  <2> QED
    BY <1>5, <1>8, <2>1 DEF MidwayInv
<1> QED
  BY <1>1, <1>6, <1>7, <1>8

(* Machine's operators are those of WireGuard.                             *)
LEMMA SameOutcomes ==
  ASSUME NEW d, NEW o, NEW order
  PROVE  Promised!Outcomes(d, o, order) = Outcomes(d, o, order)
<1>1. Promised!Interface(d) = Interface(d)
  BY DEF Promised!Interface, Interface, Promised!NoDevice, NoDevice
<1>2. Promised!Started(d, o) = Started(d, o)
  BY <1>1 DEF Promised!Started, Started
<1>3. \A x, e : Promised!withPeer(x, e) = withPeer(x, e)
  BY DEF Promised!withPeer, withPeer
<1>4. Promised!Configured(d, o, order) = Configured(d, o, order)
  BY <1>2, <1>3 DEF Promised!Configured, Configured
<1>5. \A x : Promised!Addressed(x, o) = Addressed(x, o)
  BY DEF Promised!Addressed, Addressed, Promised!ipMask, ipMask
<1>6. Promised!AllPrefixes(o) = AllPrefixes(o)
  BY DEF Promised!AllPrefixes, AllPrefixes
<1>7. \A x, routed : Promised!Up(x, o, routed) = Up(x, o, routed)
  BY DEF Promised!Up, Up
<1>8. Promised!buildCfgArgsFails(o) = buildCfgArgsFails(o)
  BY DEF Promised!buildCfgArgsFails, buildCfgArgsFails, Promised!SplitHostPortFails,
         SplitHostPortFails
<1>9. Promised!Applicable(o) = Applicable(o)
  BY <1>8 DEF Promised!Applicable, Applicable, Promised!AddressRefused, AddressRefused
<1> QED
  BY <1>1, <1>4, <1>5, <1>6, <1>7, <1>8, <1>9 DEF Promised!Outcomes, Outcomes

(* The steps of the guardlet, seen as steps of Machine.                    *)
Own == [n \in Namespaces |-> published[[namespace |-> n, name |-> PeerName]]]
Seen == IF gr.pc = "idle" THEN device ELSE gr.found

(* A Reconcile that stops, with the device as it is.                       *)
LEMMA StopsByApply ==
  ASSUME GuardletInv, MidwayInv, gr.pc # "idle", gr' = GuardletIdle, device' = device,
         published' = published
  PROVE  Promised!Apply
<1>1. gr.instance.live
  BY DEF MidwayInv
<1>2. gr'.pc = "idle" /\ gr'.instance = Unpublished
  BY DEF GuardletIdle
<1>3. Seen = gr.found /\ Seen' = device
  BY <1>2 DEF Seen
<1>4. device \in Promised!Outcomes(gr.found, gr.instance, Promised!Listed(gr.instance))
  BY InOutcomes, SameOutcomes DEF Promised!Listed, Listed
<1>5. Own' = Own
  BY DEF Own
<1> QED
  BY <1>1, <1>2, <1>3, <1>4, <1>5
     DEF Promised!Apply, Own, Seen, Promised!Unpublished, Unpublished

(* A command in the middle of a Reconcile is not seen.                     *)
LEMMA MidwayUnseen ==
  ASSUME gr.pc # "idle", gr'.pc # "idle", gr'.instance = gr.instance, gr'.found = gr.found,
         published' = published
  PROVE  UNCHANGED Promised!machineVars
BY DEF Promised!machineVars

LEMMA MachineStep ==
  ASSUME GuardletInv, MidwayInv, [Next]_vars
  PROVE  [Promised!MachineNext]_(Promised!machineVars)
<1> USE DEF Promised!MachineNext
<1>1. gr \in GuardletReconcile /\ published \in [Request -> PublishedPeer]
  BY DEF GuardletInv, GuardletTypeOK
<1>2. ASSUME gr' = gr, device' = device, published' = published
      PROVE  UNCHANGED Promised!machineVars
  BY <1>2 DEF Promised!machineVars
<1>3. ASSUME NEW r \in Request, GuardletGet(r)
      PROVE  [Promised!MachineNext]_(Promised!machineVars)
  <2>1. gr.pc = "idle" /\ gr.instance = Unpublished /\ device' = device /\ published' = published
    BY <1>3 DEF GuardletGet, MidwayInv, clusterVars
  <2>2. CASE r.name = PeerName /\ published[r].live
    <3>1. gr'.pc = "interface" /\ gr'.instance = published[r] /\ gr'.found = device
      BY <1>3, <2>2 DEF GuardletGet, GuardletIdle
    <3>2. r.namespace \in Namespaces /\ r = [namespace |-> r.namespace, name |-> PeerName]
      BY <2>2 DEF Request
    <3>3. Promised!Read(r.namespace)
      BY <2>1, <2>2, <3>1, <3>2 DEF Promised!Read, Promised!Unpublished, Unpublished
    <3> QED
      BY <3>2, <3>3
  <2>3. CASE ~ (r.name = PeerName /\ published[r].live)
    <3>1. gr'.pc = "idle" /\ gr'.instance = Unpublished
      BY <1>3, <2>3 DEF GuardletGet, GuardletIdle
    <3> QED
      BY <2>1, <3>1 DEF Promised!machineVars
  <2> QED
    BY <2>2, <2>3
<1>4. ASSUME \/ setupInterface \/ setupInterfaceFails \/ ConfigureDevice \/ ConfigurePeer
             \/ setupIP \/ ifup
             \/ \E s \in Prefixes : addRoute(s) \/ addRouteFails(s)
      PROVE  UNCHANGED Promised!machineVars
  <2>1. /\ gr.pc # "idle" /\ gr'.pc # "idle" /\ gr'.instance = gr.instance
        /\ gr'.found = gr.found /\ published' = published
    BY <1>1, <1>4 DEF setupInterface, setupInterfaceFails, ConfigureDevice, ConfigurePeer,
       setupIP, ifup, addRoute, addRouteFails, Command, clusterVars, GuardletReconcile
  <2> QED
    BY <2>1, MidwayUnseen
<1>5. ASSUME ConfigureDeviceFails \/ setupIPFails \/ CommandFails \/ Reconciled
      PROVE  Promised!Apply
  <2>1. gr.pc # "idle" /\ gr' = GuardletIdle /\ device' = device /\ published' = published
    BY <1>5 DEF ConfigureDeviceFails, setupIPFails, CommandFails, Reconciled, Retry, Command,
       clusterVars
  <2> QED
    BY <2>1, StopsByApply
<1>6. ASSUME NEW r \in Request, Publish(r)
      PROVE  Promised!Offer
  <2>1. gr' = gr /\ device' = device
    BY <1>6 DEF Publish
  <2>2. published' \in [Request -> PublishedPeer]
    BY <1>6, NextInv DEF Next, GuardletInv, GuardletTypeOK
  <2>3. Own' \in [Namespaces -> PublishedPeer]
    BY <2>2, GuardletAssumption DEF Own, Request
  <2> QED
    BY <2>1, <2>3 DEF Promised!Offer, Own, Promised!PublishedPeer, PublishedPeer,
       Promised!Entry, Entry, Promised!Endpoint, Endpoint, Promised!Address, Address
<1>7. CASE Restart
  <2>1. /\ gr' = GuardletIdle /\ gr'.pc = "idle" /\ gr'.instance = Unpublished
        /\ device' \in {device, NoDevice} /\ published' = published
    BY <1>7 DEF Restart, clusterVars, GuardletIdle
  <2>2. CASE device' = NoDevice
    BY <2>1, <2>2 DEF Promised!Lose, Promised!Unpublished, Unpublished, Promised!NoDevice,
       NoDevice
  <2>3. CASE device' = device /\ gr.pc = "idle"
    BY <2>1, <2>3 DEF MidwayInv, Promised!machineVars
  <2>4. CASE device' = device /\ gr.pc # "idle"
    BY <2>1, <2>4, StopsByApply
  <2> QED
    BY <2>1, <2>2, <2>3, <2>4
<1>8. ASSUME Resync \/ UNCHANGED vars
      PROVE  UNCHANGED Promised!machineVars
  BY <1>2, <1>8 DEF Resync, vars, clusterVars
<1> QED
  BY <1>3, <1>4, <1>5, <1>6, <1>7, <1>8 DEF Next, GuardletStep, Fault

(* The guardlet implements Machine: commands that fail or are cut short by *)
(* a restart, prefixes routed in any order, and Peers published meanwhile  *)
(* amount to single steps from what a Reconcile found to one of Outcomes,  *)
(* for any Peers of any length, and any number of failures and restarts.   *)
THEOREM GuardletImplements == Spec => ImplementsMachine
<1>1. Init => Promised!MachineInit
  <2> SUFFICES ASSUME Init PROVE Promised!MachineInit
    OBVIOUS
  <2>1. Own = [n \in Namespaces |-> Unpublished]
    BY GuardletAssumption DEF Init, Own, Request
  <2> QED
    BY <2>1 DEF Init, GuardletIdle, Own, Promised!MachineInit, Promised!Unpublished,
       Unpublished, Promised!NoDevice, NoDevice
<1>2. GuardletInv /\ MidwayInv /\ [Next]_vars => [Promised!MachineNext]_(Promised!machineVars)
  BY MachineStep
<1> QED
  BY <1>1, <1>2, Midway, PTL DEF Spec, ImplementsMachine, Promised!MachineSpec
=============================================================================
