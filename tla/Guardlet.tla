------------------------------ MODULE Guardlet ------------------------------
(***************************************************************************)
(* The guardlet (pkg/controller/guardlet, cmd/guardlet): it runs on one    *)
(* machine of the VPN and turns the status of one Peer into a WireGuard    *)
(* device, one command after another.                                      *)
(*                                                                         *)
(* Every command may fail; the guardlet may be restarted between any two   *)
(* of them, and the machine rebooted, which loses the device.              *)
(***************************************************************************)
EXTENDS WireGuard

CONSTANTS
  Namespaces,     \* namespaces of the Peers that the guardlet watches
  PeerName,       \* config.PeerName
  Versions,       \* what the control plane may publish under a Peer's name
  MaxChanges,     \* bound on published changes
  MaxFaults,      \* bound on failing commands
  MaxRestarts     \* bound on restarts of the guardlet or of the machine

Request == [namespace: Namespaces, name: PeerNames]

ASSUME GuardletAssumption ==
  /\ PeerName \in PeerNames
  /\ Versions \subseteq PublishedPeer
  /\ MaxChanges \in Nat /\ MaxFaults \in Nat /\ MaxRestarts \in Nat

VARIABLES
  published,   \* the Peers in the guardlet's cache
  queue,       \* requests waiting
  gr,          \* the Reconcile under way
  device,      \* the WireGuard device and the routes through it
  changes, faults, restarts

clusterVars == <<published, changes>>
boundVars == <<faults, restarts>>
vars == <<clusterVars, queue, gr, device, boundVars>>

(* next is the entry to be configured next, todo the prefixes to route.    *)
(* found is history: the device as the Reconcile found it.                 *)
GuardletReconcile ==
  [pc: {"idle", "interface", "configure", "peers", "up", "routes"},
   request: Request \cup {None}, instance: PublishedPeer, next: Nat \ {0},
   todo: SUBSET Prefixes, found: Device]

GuardletIdle ==
  [pc |-> "idle", request |-> None, instance |-> Unpublished, next |-> 1, todo |-> {},
   found |-> NoDevice]

Init ==
  /\ published = [r \in Request |-> Unpublished]
  /\ queue = {}
  /\ gr = GuardletIdle
  /\ device = NoDevice
  /\ changes = 0 /\ faults = 0 /\ restarts = 0

-----------------------------------------------------------------------------
(* Mutant: requests for other peers are not dropped.                       *)
GuardletGetAny(r) ==
  /\ gr.pc = "idle"
  /\ r \in queue
  /\ queue' = queue \ {r}
  /\ gr' = IF published[r].live
             THEN [GuardletIdle EXCEPT !.pc = "interface", !.request = r,
                                       !.instance = published[r], !.found = device]
             ELSE GuardletIdle
  /\ UNCHANGED <<clusterVars, device, boundVars>>

(* Reconcile takes a request: another peer's, or one for a Peer that is    *)
(* gone, ends it.                                                          *)
GuardletGet(r) ==
  /\ gr.pc = "idle"
  /\ r \in queue
  /\ queue' = queue \ {r}
  /\ gr' = IF r.name = PeerName /\ published[r].live
             THEN [GuardletIdle EXCEPT !.pc = "interface", !.request = r,
                                       !.instance = published[r], !.found = device]
             ELSE GuardletIdle
  /\ UNCHANGED <<clusterVars, device, boundVars>>

(* What is common to the commands below.                                   *)
Command(pc) == gr.pc = pc /\ UNCHANGED <<clusterVars, queue>>

(* Reconcile returns an error and the request goes back.                   *)
Retry ==
  /\ gr' = GuardletIdle
  /\ queue' = queue \cup {gr.request}
  /\ UNCHANGED <<clusterVars, device>>

setupInterface ==
  /\ Command("interface")
  /\ device' = IF device.exists THEN device ELSE [NoDevice EXCEPT !.exists = TRUE]
  /\ gr' = [gr EXCEPT !.pc = "configure"]
  /\ UNCHANGED boundVars

(* Mutant: the configuration starts anew, as with wg setconf.              *)
ConfigureDeviceAnew ==
  /\ Command("configure")
  /\ ~ buildCfgArgsFails(gr.instance) /\ device.exists
  /\ device' = [NoDevice EXCEPT !.exists = TRUE, !.up = device.up, !.key = TRUE,
                                !.port = gr.instance.endpoint.port,
                                !.addresses = device.addresses, !.routes = device.routes]
  /\ gr' = [gr EXCEPT !.pc = "peers"]
  /\ UNCHANGED boundVars

(* wg set: the listening port and the private key first ...                *)
ConfigureDevice ==
  /\ Command("configure")
  /\ ~ buildCfgArgsFails(gr.instance) /\ device.exists
  /\ device' = [device EXCEPT !.port = gr.instance.endpoint.port, !.key = TRUE]
  /\ gr' = [gr EXCEPT !.pc = "peers"]
  /\ UNCHANGED boundVars

ConfigureDeviceFails ==
  /\ gr.pc = "configure"
  /\ buildCfgArgsFails(gr.instance) \/ ~ device.exists
  /\ Retry
  /\ UNCHANGED boundVars

(* ... then the entries, in turn.                                          *)
ConfigurePeer ==
  /\ Command("peers")
  /\ gr.next <= Len(gr.instance.peers)
  /\ device' = withPeer(device, gr.instance.peers[gr.next])
  /\ gr' = [gr EXCEPT !.next = gr.next + 1]
  /\ UNCHANGED boundVars

(* An address that the interface has is not added again.                   *)
setupIP ==
  /\ Command("peers")
  /\ gr.next > Len(gr.instance.peers)
  /\ ~ AddressRefused(gr.instance.address)
  /\ device' = [device EXCEPT !.addresses = device.addresses \cup {ipMask(gr.instance.address)}]
  /\ gr' = [gr EXCEPT !.pc = "up"]
  /\ UNCHANGED boundVars

(* Mutant: a peer without an address is nothing to do.                     *)
setupIPSkips ==
  /\ Command("peers")
  /\ gr.next > Len(gr.instance.peers)
  /\ AddressRefused(gr.instance.address)
  /\ gr' = [gr EXCEPT !.pc = "up"]
  /\ UNCHANGED <<device, boundVars>>

setupIPFails ==
  /\ gr.pc = "peers"
  /\ gr.next > Len(gr.instance.peers)
  /\ AddressRefused(gr.instance.address)
  /\ Retry
  /\ UNCHANGED boundVars

ifup ==
  /\ Command("up")
  /\ device' = [device EXCEPT !.up = TRUE]
  /\ gr' = [gr EXCEPT !.pc = "routes", !.todo = AllPrefixes(gr.instance)]
  /\ UNCHANGED boundVars

(* addRoutes: a prefix that is routed already is an error, which is only   *)
(* logged.                                                                 *)
addRoute(s) ==
  /\ Command("routes")
  /\ s \in gr.todo
  /\ device' = IF device.routes[s] = None
                 THEN [device EXCEPT !.routes = [device.routes EXCEPT
                                                   ![s] = gr.instance.address.ip]]
                 ELSE device
  /\ gr' = [gr EXCEPT !.todo = gr.todo \ {s}]
  /\ UNCHANGED boundVars

(* "Reconciled wireguard configuration".                                   *)
Reconciled ==
  /\ Command("routes")
  /\ gr.todo = {}
  /\ gr' = GuardletIdle
  /\ UNCHANGED <<device, boundVars>>

GuardletStep ==
  \/ \E r \in Request : GuardletGet(r)
  \/ setupInterface
  \/ ConfigureDevice \/ ConfigureDeviceFails \/ ConfigurePeer
  \/ setupIP \/ setupIPFails
  \/ ifup
  \/ \E s \in Prefixes : addRoute(s)
  \/ Reconciled

-----------------------------------------------------------------------------
(* Failing commands: creating the interface and adding a route are only    *)
(* logged ...                                                              *)
setupInterfaceFails ==
  /\ Command("interface")
  /\ ~ device.exists
  /\ gr' = [gr EXCEPT !.pc = "configure"]
  /\ UNCHANGED device

addRouteFails(s) ==
  /\ Command("routes")
  /\ s \in gr.todo
  /\ gr' = [gr EXCEPT !.todo = gr.todo \ {s}]
  /\ UNCHANGED device

(* Mutant: a failing wg set is only logged, too.                           *)
CommandFailsLogged ==
  /\ Command("peers")
  /\ gr' = [gr EXCEPT !.next = Len(gr.instance.peers) + 1]
  /\ UNCHANGED device

(* ... the others end the Reconcile. wg set may have done part of its work.*)
CommandFails == gr.pc \in {"configure", "peers", "up"} /\ Retry

Fault ==
  /\ faults < MaxFaults
  /\ faults' = faults + 1
  /\ setupInterfaceFails \/ (\E s \in Prefixes : addRouteFails(s)) \/ CommandFails
  /\ UNCHANGED restarts

(* The control plane or a user changes, creates or deletes a Peer.         *)
Publish(r) ==
  /\ changes < MaxChanges
  /\ changes' = changes + 1
  /\ \E o \in (Versions \cup {Unpublished}) \ {published[r]} :
       published' = [published EXCEPT ![r] = o]
  /\ queue' = queue \cup {r}
  /\ UNCHANGED <<gr, device, boundVars>>

LiveRequests == {r \in Request : published[r].live}

(* Every five seconds, and when the guardlet starts.                       *)
Resync ==
  /\ queue' = queue \cup LiveRequests
  /\ UNCHANGED <<clusterVars, gr, device, boundVars>>

(* The guardlet is restarted: the device stays. A reboot takes it.         *)
Restart ==
  /\ restarts < MaxRestarts
  /\ restarts' = restarts + 1
  /\ queue' = LiveRequests
  /\ gr' = GuardletIdle
  /\ device' \in {device, NoDevice}
  /\ UNCHANGED <<clusterVars, faults>>

Next ==
  \/ GuardletStep
  \/ Fault
  \/ \E r \in Request : Publish(r)
  \/ Resync
  \/ Restart

Spec == Init /\ [][Next]_vars
=============================================================================
