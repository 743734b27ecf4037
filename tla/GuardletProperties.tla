------------------------- MODULE GuardletProperties -------------------------
(***************************************************************************)
(* What the guardlet promises about the device it configures, and, at the  *)
(* end, what its documentation promises and the code does not keep.        *)
(***************************************************************************)
EXTENDS Guardlet, Mkconf

(* Every variable holds a value of its type, and every address of the      *)
(* interface has a netmask (setupIP, peer_controller.go:138-146).          *)
GuardletTypeOK ==
  /\ published \in [Request -> PublishedPeer]
  /\ queue \subseteq Request
  /\ gr \in GuardletReconcile
  /\ gr.pc # "idle" => gr.request \in Request
  /\ device \in Device
  /\ changes \in 0..MaxChanges /\ faults \in 0..MaxFaults /\ restarts \in 0..MaxRestarts

-----------------------------------------------------------------------------
(* Reconcile reaches its last part, the routes, only with the Peer it read *)
(* applied in full, although a failure to create the interface went        *)
(* unnoticed, entries are applied one at a time, and earlier Reconciles    *)
(* may have stopped anywhere (Reconcile, peer_controller.go:252-282).      *)
ReconciledIsApplied ==
  gr.pc = "routes" /\ Distinct(gr.instance) => Applied(device, gr.instance)

(* The interface is only ever up with a private key, a listening port and  *)
(* an address, whatever failed, was restarted or rebooted before           *)
(* (Reconcile, peer_controller.go:265-280).                                *)
UpIsConfigured ==
  device.up =>
    device.exists /\ device.key /\ device.port # None /\ device.addresses # {}

(* A file that mkconf prints says the same as the commands of the guardlet *)
(* do: of a Peer whose address has no netmask wg-quick refuses nothing,    *)
(* and a guardlet that gets to the routes of the same Peer has given its   *)
(* device the file's port, address, keys and endpoints, and each prefix to *)
(* the peer that wg-quick gives it to (generateConf, mkconf/main.go:90-120,*)
(* and buildCfgArgs).                                                      *)
MkconfAgrees ==
  LET o == gr.instance
      f == generateConf(o)
  IN  gr.pc = "routes" /\ Distinct(o) /\ o.address.mask = None =>
        /\ ~ generateConfFails(o) /\ ~ wgQuickRefuses(f)
        /\ device.port = f.listenPort
        /\ [ip |-> f.address.ip, mask |-> f.address.masks[1]] \in device.addresses
        /\ \A i \in DOMAIN f.peers :
             /\ f.peers[i].publicKey \in device.peers
             /\ f.peers[i].endpoint # None =>
                  device.endpoints[f.peers[i].publicKey] = f.peers[i].endpoint
        /\ \A s \in AllPrefixes(o) : device.allowed[s] = wgQuickAllowed(f, s)

-----------------------------------------------------------------------------
(* The prefixes of o that the device carries to where they belong.         *)
Serves(d, o) ==
  {s \in AllPrefixes(o) :
     /\ d.up /\ d.routes[s] # None
     /\ \E i \in DOMAIN o.peers :
          LET e == o.peers[i]
          IN  /\ s \in e.allowedIPs /\ d.allowed[s] = e.publicKey
              /\ e.endpoint # None => d.endpoints[e.publicKey] = e.endpoint}

(* Every Reconcile, each five seconds and on every event, configures all   *)
(* of a device in use again, from its interface to its routes. While it    *)
(* does, and while it goes from one version of the Peer to the next, what  *)
(* the device serves of the version it is given is not interrupted, except *)
(* by a reboot (Reconcile, peer_controller.go:252-290).                    *)
NotInterrupted ==
  LET o == gr.instance
  IN  Distinct(o) /\ ~ buildCfgArgsFails(o) /\ device' # NoDevice =>
        Serves(device, o) \subseteq Serves(device', o)

IsNotInterrupted == [][NotInterrupted]_vars

-----------------------------------------------------------------------------
(* However its commands interleave with publications, failures, restarts   *)
(* and reboots, a Reconcile amounts to one step of the device, from what   *)
(* it found to what one Peer of the guardlet's name makes of that: no      *)
(* entry is left out and the next one applied, no address without all      *)
(* entries, no route without the address, nothing of two versions mixed    *)
(* (Reconcile, peer_controller.go:234-290). Vpn has such steps only.       *)
Promised ==
  INSTANCE Machine WITH
    own <- [n \in Namespaces |-> published[[namespace |-> n, name |-> PeerName]]],
    reading <- gr.instance,
    device <- IF gr.pc = "idle" THEN device ELSE gr.found

ImplementsMachine == Promised!MachineSpec

-----------------------------------------------------------------------------
(* Fairness: the worker runs on, requests are taken first in first out,    *)
(* and the sync period keeps elapsing. Nobody has to publish, fail or      *)
(* restart.                                                                *)
Fairness ==
  /\ WF_vars(GuardletStep)
  /\ \A r \in Request : SF_vars(GuardletGet(r))
  /\ WF_vars(Resync)

FairSpec == Spec /\ Fairness

(* The guardlet's own Peer, when one namespace alone has one that it can   *)
(* apply.                                                                  *)
Mine == {r \in Request : r.name = PeerName /\ published[r].live}

Alone(r) == Mine = {r} /\ Applicable(published[r])

(* Once the control plane and the users come to rest, the device gets and  *)
(* keeps everything that the guardlet's Peer lists, after any failures,    *)
(* restarts and reboots, and whatever other peers are doing (Reconcile,    *)
(* with the sync period of cmd/guardlet/main.go:39).                       *)
EventuallyApplied ==
  <>[](\A r \in Request : Alone(r) /\ Distinct(published[r]) =>
         Applied(device, published[r]) /\ Routed(device, published[r]))

-----------------------------------------------------------------------------
(* "Peers is a computed list of peers that should be configured on this    *)
(* peer's wireguard interface" (peer_types.go:49): the device comes to     *)
(* have the peers that are listed, and no others (buildCfgArgs).           *)
EventuallyOnlyListed ==
  <>[](\A r \in Request : Alone(r) =>
         device.peers = {published[r].peers[i].publicKey : i \in DOMAIN published[r].peers})
=============================================================================
