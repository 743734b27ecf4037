-------------------------------- MODULE Vpn --------------------------------
(***************************************************************************)
(* The control plane together with a machine of the VPN, which may be that *)
(* of any peer: its guardlet, and its WireGuard device, which outlives the *)
(* Peer object. Guardlets do not affect each other or the control plane,   *)
(* so what holds of any one machine holds of all of them.                  *)
(*                                                                         *)
(* A Reconcile of the guardlet is one step here, or stops part way through *)
(* wg set. It reads its Peer once, versions are read in order, and nobody  *)
(* else reads the device: when it runs its commands, as long as it stays   *)
(* between two reads, makes no other state reachable. Left out are stops   *)
(* after wg set and failing routes, which leave a device with fewer        *)
(* addresses and routes than here. Guardlet has the commands one by one.   *)
(***************************************************************************)
EXTENDS ControlPlaneProperties, WireGuard

CONSTANT NameOrder   \* the names of PeerNames in the order of lists

ASSUME VpnAssumption ==
  /\ HostAddress \cup Subnets \subseteq Prefixes
  /\ None \notin Endpoint \cup PeerConfiguration
  /\ NameOrder \in Seq(PeerNames)
  /\ \A p \in PeerNames : \E i \in DOMAIN NameOrder :
       NameOrder[i] = p /\ \A j \in DOMAIN NameOrder : NameOrder[j] = p => j = i

VARIABLES
  machine,      \* the peer whose machine it is
  device,       \* its WireGuard device
  reconciled    \* history: a Reconcile of what is now published has come to
                \* its end, and the machine has not been rebooted since

vpnVars == <<vars, machine, device, reconciled>>

(* The machine's Peer as the guardlet reads it, its entries by the names   *)
(* they are for. The AllowedIPs of an entry are its host prefix and its    *)
(* routes.                                                                 *)
Published ==
  LET peer == peers[machine]
      cfg == peer.status.peers
  IN  [live |-> peer.live, endpoint |-> peer.spec.endpoint, address |-> peer.status.address,
       peers |-> [q \in {p \in PeerNames : cfg[p] # None} |->
                    [publicKey |-> cfg[q].publicKey, endpoint |-> cfg[q].endpoint,
                     allowedIPs |-> {cfg[q].allowedIP} \cup cfg[q].routes]]]

(* A Reconcile that no command of fails and nothing stops, the control     *)
(* plane listing entries in the order of names.                            *)
GuardletReconciles ==
  /\ peers[machine].live
  /\ LET o == Published
         configured == Configured(device, o, NameOrder)[Len(NameOrder)]
     IN  device' = IF buildCfgArgsFails(o) THEN Interface(device)
                   ELSE IF AddressRefused(o.address) THEN configured
                   ELSE Up(Addressed(configured, o), o, AllPrefixes(o))
  /\ reconciled' = TRUE

GuardletStops ==
  /\ peers[machine].live
  /\ ~ buildCfgArgsFails(Published)
  /\ \E i \in 0..Len(NameOrder) : device' = Configured(device, Published, NameOrder)[i]
  /\ UNCHANGED reconciled

(* The machine is rebooted and loses its device.                           *)
Reboot == device' = NoDevice /\ reconciled' = FALSE

VpnInit ==
  Init /\ machine \in PeerNames /\ device = NoDevice /\ reconciled = FALSE

VpnNext ==
  \/ /\ Next
     /\ UNCHANGED <<machine, device>>
     /\ reconciled' = (reconciled /\ Published' = Published)
  \/ (GuardletReconciles \/ GuardletStops \/ Reboot) /\ UNCHANGED <<vars, machine>>

VpnSpec == VpnInit /\ [][VpnNext]_vpnVars

-----------------------------------------------------------------------------
(* The guardlet only ever adds, and Peers may be deleted, created again or *)
(* given another key at any time. Still, every address that the machine    *)
(* ever gave its interface is allocated to its own peer, and the device    *)
(* allows an address only for a key of the peer it is allocated to. (A     *)
(* network that was deleted starts anew and lifts the promise; a binding   *)
(* may route what looks like an address to anyone.)                        *)
AllocatedTo(ip, p) ==
  \E n \in NetworkNames : \E alloc \in networks[n].allocations :
    alloc.name = p /\ alloc.address # None /\ alloc.address.ip = ip

KeysOf(p) == {spec.publicKey : spec \in PeerSpecs[p]}

DeviceKeepsToAllocations ==
  deletedNetworks = {} =>
    /\ \A a \in device.addresses : AllocatedTo(a.ip, machine)
    /\ \A h \in HostAddress \ Subnets : device.allowed[h] # None =>
         \E q \in PeerNames \ {machine} :
           AllocatedTo(h.ip, q) /\ device.allowed[h] \in KeysOf(q)

-----------------------------------------------------------------------------
(* What users wrote is fit for a VPN: endpoints can be split, keys and     *)
(* addresses are distinct, no subnet is exposed through two peers, and     *)
(* none is the address of one.                                             *)
Exposed(p) ==
  UNION {routes[r].spec.routes : r \in routeRulesForPeer(p, peers[p].spec.labels, routes)}

Fit ==
  \A p \in PeerNames : peers[p].live =>
    /\ peers[p].spec.publicKey # None /\ ~ SplitHostPortFails(peers[p].spec.endpoint)
    /\ Exposed(p) \cap HostAddress = {}
    /\ \A q \in PeerNames \ {p} : peers[q].live =>
         LET a == peers[p].status.address
             b == peers[q].status.address
         IN  /\ peers[p].spec.publicKey # peers[q].spec.publicKey
             /\ a # None /\ b # None => a.ip # b.ip
             /\ Exposed(p) \cap Exposed(q) = {}

(* p is, or by the rules is to be, a member of n with an address.          *)
Addressable(p, n) ==
  LET status == peers[p].status
  IN  /\ peers[p].live /\ networks[n].live
      /\ \/ status.network = n
         \/ status.network = None /\ allocateNetwork(p, peers[p].spec.labels, networks, n)
      /\ IF status.address = None THEN ~ Unaddressable(p, n) ELSE ~ AddressRefused(status.address)

ToConnect(p, q) ==
  /\ p # q
  /\ \E n \in NetworkNames : Addressable(p, n) /\ Addressable(q, n)
  /\ peers[p].spec.endpoint.host # None \/ peers[q].spec.endpoint.host # None

(* The machine's side of its connection with q. What it sends to q's       *)
(* address, or to a subnet behind q, is encrypted for q's key and goes to  *)
(* where q listens, if it does; what q sends to the machine is received.   *)
ConnectedTo(q) ==
  LET address == peers[q].status.address
      key == peers[q].spec.publicKey
      here == peers[machine]
  IN  /\ device.up /\ address # None
      /\ \A s \in {splitNetMask(address)[1]} \cup Exposed(q) :
           device.routes[s] # None /\ device.allowed[s] = key
      /\ peers[q].spec.endpoint.host # None => device.endpoints[key] = peers[q].spec.endpoint
      /\ ipMask(here.status.address) \in device.addresses
      /\ here.spec.endpoint.host # None => device.port = here.spec.endpoint.port

(* What the control plane comes to by itself, by EventuallySettled.        *)
Settled == \A p \in PeerNames : PeerSettled(p)

(* The promises of the parts add up to that of the whole: when the control *)
(* plane has settled and the guardlet has once come to the end of a        *)
(* Reconcile of what it published, as it does every sync period, the       *)
(* machine is connected to every peer it is to be connected to, and stays  *)
(* so while it repeats that Reconcile in part or in full: nothing that     *)
(* earlier versions left on the device, old keys, prefixes of others,      *)
(* routes, is in the way (computePeerConfigurations, buildCfgArgs,         *)
(* addRoutes).                                                             *)
ConnectedWhenSettled ==
  Settled /\ reconciled /\ Fit =>
    \A q \in PeerNames : ToConnect(machine, q) => ConnectedTo(q)
=============================================================================
