# kubewg in TLA+

kubewg runs a WireGuard VPN from Kubernetes resources. A `Network` holds
allocation rules, a `Peer` describes one machine, a `RouteBinding` exposes
subnets through the peers it selects. Two controllers in the *manager* fill in
the statuses, and a *guardlet* on every machine turns the status of its `Peer`
into a WireGuard device.

The modules here model the manager, the guardlet, `mkconf` and the manager and
a guardlet together, check them with TLC on small instances and prove their
safety properties with TLAPS for all instances.
What is left is in the [plan](#plan).

## Inventory

| part | source | state | operations |
|---|---|---|---|
| API types, selectors | `pkg/apis/wg/v1alpha1`, `pkg/api/selectors.go` | none | `PeerMatchesSelector` |
| API server, watches, caches | external; used through `mgr.GetClient()` | objects with a resourceVersion, watch streams, informer caches | get and list (from the cache), status update (to the server, versioned), deliver an event, resync |
| network controller | `pkg/controller/network` | work queue; locals of `Reconcile` | `peerMapper.Map`, `Reconcile`, `allocateIP` |
| peer controller | `pkg/controller/peer` | work queue; locals of `Reconcile` | `networkMapper.Map`, `routeBindingMapper.Map`, `Reconcile`, `allocateNetwork`, `computePeerConfigurations`, `routeRulesForPeer`, `splitNetMask` |
| manager | `cmd/manager`, `pkg/controller` | the process | start, restart |
| guardlet | `pkg/controller/guardlet`, `cmd/guardlet`, `pkg/config` | key file, device, its addresses, routes and peers | `setupInterface`, `setupIP`, `addRoutes`, `ifup`, `wg set`, `Reconcile` |
| mkconf | `cmd/mkconf` | none | one `Peer` to one `wg-quick` file |
| webhook | `pkg/webhook` | none | never registered (`cmd/manager/main.go:71-75`) |

**How the parts interact.** Only through the API server. A user creates a
`Peer`; its event wakes the peer controller, which finds the one network with a
matching rule and writes `status.network`; that event is mapped to the network
and wakes the network controller, which appends an allocation to
`Network.status`; that event is mapped back to the peers of the network, and
the peer controller copies the address to `status.address`; the event of that
write makes it compute `status.peers` from all other members. Four Reconciles,
two controllers, and between any two of them the caches trail the server.

**What is hard.** Reconciles work from cached copies of several objects of
different ages; writes race with users and with the other controller; a write
may be stored and its reply lost; the manager may restart between any two
steps; progress depends on mappers turning the right events into the right
requests; objects may be deleted and recreated under a running Reconcile. The
guardlet changes a device by a series of commands that may fail, or be cut off
by a restart or a reboot, each of them; two failures are only logged; and
nothing it configured is ever removed, so what a device holds goes back to every
status it was ever configured from.
`PROJECT.json` lists each such hazard at its line.

**What makes each part correct.**

- network controller: never withdraws or changes an address; at most one per peer.
- peer controller: never changes a membership or an address; configures exactly
  the reachable members, each with an address allocated to it.
- both together: the two statuses agree; no wake-up is lost; everything
  converges once the users stop editing.
- guardlet: a finished `Reconcile` has applied all of the status; the interface
  is never up half configured; the device converges to what the status lists.
- all together: what a device ever held stays true to the allocations, and
  machines that should be connected are, when every part has done its own.
- mkconf: its file says the same as the guardlet's commands.

## Modules

| module | what it models |
|---|---|
| `WgApi` | the resources' fields, `PeerMatchesSelector`, `matchesRule`, `splitNetMask` |
| `Cluster` | API server, watch streams and caches (external) |
| `NetworkController` | `pkg/controller/network` |
| `PeerController` | `pkg/controller/peer` |
| `ControlPlane` | both controllers over one cluster, users, informers, faults, restarts: `Spec` |
| `ControlPlaneProperties` | invariants, step properties, fairness and liveness of `Spec`; its refinement of `Addressing` |
| `Addressing` | abstract: what the control plane promises about addresses, without caches, events and controllers |
| `DocumentedBehaviour` | what the docs, comments and tests promise and the code does not keep |
| `MCControlPlane` | the instances for TLC |
| `TypeProofs`, `StabilityProofs`, `AddressProofs`, `RefinementProofs`, `QuiescenceProofs` | the theorems about `ControlPlane` |
| `WireGuard` | a WireGuard device, what the guardlet's commands do to it, and what a `Reconcile` may leave behind (`Outcomes`) |
| `Machine` | abstract: what a guardlet promises of its machine's device, without commands, queue and faults |
| `Guardlet` | `pkg/controller/guardlet`, `cmd/guardlet`, command by command |
| `Mkconf` | `cmd/mkconf` as operators, with what `wg-quick` makes of its file (external) |
| `GuardletProperties` | what the guardlet keeps and what mkconf agrees with, its refinement of `Machine`, and what the docs promise and the guardlet does not |
| `MCGuardlet` | the instances for TLC |
| `WireGuardProofs` | lemmas about the operators of `WireGuard`, for the two modules of proofs that use it |
| `GuardletProofs` | the theorems about `Guardlet` |
| `Vpn` | `ControlPlane` with one machine, its guardlet and its device |
| `MCVpn` | the instance for TLC |
| `VpnProofs` | the theorems about `Vpn` |

`ControlPlane` extends both controllers, which extend `Cluster`, which extends
`WgApi`. `Guardlet`, `Machine` and `Mkconf` extend `WireGuard`, which extends
`WgApi`: they meet the control plane only in the status they read. `Vpn` extends
`ControlPlaneProperties` and `WireGuard`. A definition called *Mutant* in a
comment stands directly before the one it would replace; it is a plausible bug
that one of the properties catches and no specification uses it.

### State

| variable | code |
|---|---|
| `peers`, `networks`, `routes` | what the API server stores; `live = FALSE` is "not found" |
| `peerEvents`, `networkEvents`, `routeEvents` | watch events not yet delivered, in order |
| `cachedPeers`, `cachedNetworks`, `cachedRoutes` | what `r.Get` and `r.List` return |
| `peerQueue`, `networkQueue` | requests in the controllers' work queues |
| `pr`, `nr` | the locals of the `Reconcile` under way and where it is (`pc`) |
| `edits`, `faults`, `restarts` | how much of the bounds is used up |
| `deletedNetworks` | history: networks that were deleted at some point |

In `Guardlet`:

| variable | code |
|---|---|
| `published` | the Peers in the guardlet's cache, by namespace and name |
| `queue`, `gr` | the work queue and the `Reconcile` under way: the Peer it read, the entry that is next, the prefixes left to route; `gr.found` is history: the device as the `Reconcile` found it |
| `device` | what the kernel has: the interface, its key, port and addresses, its WireGuard peers with endpoints and allowed IPs, the routes through it (external) |
| `changes`, `faults`, `restarts` | how much of the bounds is used up |

`Vpn` adds to the variables of `ControlPlane`:

| variable | code |
|---|---|
| `machine` | the peer whose machine is observed: any, chosen once |
| `device` | that machine's device, as in `Guardlet`; it outlives the Peer object |
| `reconciled` | history: a `Reconcile` of what is now published has come to its end, and the machine has not been rebooted since |

### Actions

A `Reconcile` is cut where it reads or writes shared state, and nowhere else.
Each read of a cache is one action, since caches move between two reads; each
write is one action, since the server decides on it atomically.

| action | code |
|---|---|
| `NetworkGet`, `NetworkList`, `NetworkUpdate` | `network_controller.go:128-141`, `143-186`, `186-192` |
| `NetworkUpdateConflict`, `NetworkError`, `NetworkUpdateReplyLost` | the `return reconcile.Result{}, err` branches |
| `PeerGet` | `peer_controller.go:280-312`: get, pick one of the three cases |
| `PeerAssignNetwork`, `PeerAssignAddress` | cases 1 and 2, `312-332`, `334-348` |
| `PeerGetNetwork`, `PeerList`, `PeerListFails`, `PeerConfigure`, `PeerConfigured` | case 3, `350-370` with `computePeerConfigurations`; the bindings are listed again for each neighbour, so each neighbour is a step |
| `PeerUpdate`, `PeerUpdateConflict`, `PeerError`, `PeerUpdateReplyLost` | `372-382` and the error returns |
| `DeliverPeerEvent`, ... , `ResyncPeers`, ... | the `Watch` calls in `add` of both controllers |
| `Restart` | `cmd/manager/main.go` |
| `CreatePeer`, ... , `DeleteRoute` | users |

The guardlet's `Reconcile` is cut at every command, and `wg set` at every entry,
since it may stop half way:

| action | code (`pkg/controller/guardlet/peer_controller.go`) |
|---|---|
| `GuardletGet` | `234-250`: the name filter and the get |
| `setupInterface`, `setupInterfaceFails` | `113-136`; the failure is swallowed |
| `ConfigureDevice`, `ConfigurePeer`, `ConfigureDeviceFails` | `buildCfgArgs` and `wg set`, `82-111`, `257-270` |
| `setupIP`, `setupIPFails` | `138-177`, `272-275` |
| `ifup` | `210-225`, `277-280` |
| `addRoute`, `addRouteFails`, `Reconciled` | `179-208`, `282-290`; failures are only logged |
| `CommandFails` | any command of `265-280` that fails ends the `Reconcile` |
| `Publish`, `Resync`, `Restart` | the watch (`57-72`), the sync period and the process (`cmd/guardlet/main.go`); a restart may be a reboot, which loses the device |

In `Vpn` the steps of `ControlPlane` interleave with those of the machine:
`GuardletReconciles` is a whole `Reconcile` of the Peer as the server has it
(`Published` gives it the guardlet's view), `GuardletStops` one that stops after
any entry of `wg set`, `Reboot` loses the device. `Published` names entries by the
peers they are for, and `NameOrder` is the order in which the control plane lists
them; `Configured` of `WireGuard` applies them in that order, one by one. The
outcomes of these steps are among `Outcomes`, the same operator that `Machine` is
built from, so that `Guardlet` implementing `Machine` is what makes it right to
compose the control plane with whole Reconciles.

### Abstractions

- One namespace: every get and list is confined to the namespace of the object.
- Text is abstract. A peer's labels are a set of key-value pairs, an address is
  an IP and what follows its slash, an endpoint is a host and a port. `None` is
  the empty string or nil; a netmask of `""` is an address that ends in a slash.
  `splitNetMask` is modelled by what it does to the two parts.
- The cache lists objects sorted by key (`sets.String.List` in client-go's
  store), so `status.peers` is a function of the neighbour's name and
  `allocations` a set: order never differs between two equal lists. Routes of
  an entry are a set: a route listed twice counts once.
- Each object has its own version counter that survives deletion, which keeps
  exactly the comparisons of resourceVersions that the code can make.
- The work queue is a set: it drops duplicates, and fairness stands for its
  order. Its back-off only delays. A request that arrives while the same key is
  being reconciled waits, as in the real queue.
- Handlers run in the same step as the cache update they follow. Cached reads
  fail only through `PeerError` and `NetworkError`.
- A restarted manager has filled its caches and announced every object before
  a worker starts (`WaitForCacheSync`).
- The guardlet reads one Peer once per `Reconcile`, so its cache and the server
  are one variable: a trailing cache is a later `Publish`.
- The commands are those for Linux. `wg set` and `ip` are modelled by their
  effects: `wg set` adds or changes and never removes, and moves a prefix to the
  peer that names it last; `ip addr add` refuses an empty address and one that
  ends in a slash; `ip route add` refuses a prefix that has a route. A prefix
  is one value: that two prefixes overlap, or that the kernel adds a route for
  the interface's own subnet, is left out. The routes of one `Reconcile` are
  added in any order, which gives the same routes as all have one gateway.
- `Network.spec.subnet` is passed to `computePeerConfigurations` and never
  read. Recorded Kubernetes events and log lines are read by nobody. Both are
  left out.
- `Vpn` has one machine. Guardlets only read Peers and only write their own
  device, so the behaviours of several machines are those of each, side by side;
  a property of one machine that TLC checks for every choice of `machine` holds
  of all. Its `Reconcile` is one step, as it reads its Peer once and nobody else
  reads the device. Left out are stops after `wg set` and failing routes: they
  leave a device with fewer addresses and routes than the same `Reconcile` run to
  its end, and `ConnectedWhenSettled` supposes that one has come to its end.
  `reconciled` is a history variable: no action's guard reads it.
- In mkconf, the private key and the keepalive interval are constants of the
  file. `wg-quick` is modelled by what it refuses and by the peer it leaves a
  prefix with.

## Runs

Users create, edit and delete objects in any order up to `MaxEdits`; every
counter is bounded by a guard, and the runs need no state constraint. Deadlock
is checked in every run (a resync is always possible).

| run | instance | checks |
|---|---|---|
| `stale` | 2 peers, 1 network with two rule sets, 4 edits, 1 fault, 1 restart (1.26 M states) | `TypeOK`, `AddressIsAllocated`, `ConfigurationIsAllocated`, `QuiescentAddressed`, `ImplementsAddressing` |
| `networks` | 2 peers with edited labels and endpoints, 2 overlapping networks, 4 edits (535 k) | `AddressIsAllocated`, `ConfigurationIsAllocated`, `QuiescentAddressed`, `MembershipIsStable`, `AllocationsAreStable` |
| `live` | 2 peers, 1 network, 1 route binding, 4 edits, 1 fault (284 k) | `EventuallySettled`, `EventuallyMutual` |
| `guardlet` | one Peer name in 2 namespaces, 6 versions of a Peer, 3 changes, 2 faults, 2 restarts (2.70 M) | `GuardletTypeOK`, `ReconciledIsApplied`, `UpIsConfigured`, `MkconfAgrees`, `IsNotInterrupted` |
| `guardlet_live` | 2 Peers, 6 versions, 3 changes, 1 fault, 1 restart (294 k) | `EventuallyApplied`, `ImplementsMachine` |
| `vpn` | 2 peers, one with two keys, 1 network, 1 route binding, 4 edits, either machine (1.49 M up to symmetry) | `DeviceKeepsToAllocations`, `ConnectedWhenSettled` |

- `AddressIsAllocated`: a peer's address is on record in its network and the
  only one there for it. The two fields are written by two controllers from
  caches. It needs the proviso that the network was never deleted: see
  `doc_addresses_agree`.
- `ConfigurationIsAllocated`: an entry routes to an IP allocated to the
  neighbour it is for, in the peer's own network.
- `QuiescentAddressed`: when all queues, streams and workers are idle, no peer
  is still waiting for an address it could have. This is a lost-wake-up
  property: it must hold without any help from a resync.
- `MembershipIsStable`: while a Peer lives, the network and the address it was
  given are never taken back or changed. Every write is a full status computed
  from an older copy, so this rests on the version check and on what `Reconcile`
  keeps.
- `AllocationsAreStable`: while a member and its network live, what is on record
  for the member is neither dropped nor changed nor added to, though the whole
  list is written from a Network and a list of Peers of different ages, and the
  member's labels or the rules were edited meanwhile. A write that is not
  refused when its copy is old breaks it. It says nothing of peers that are
  gone: the comment at `network_controller.go:179` wants theirs removed
  (`doc_pruned`).
- `ImplementsAddressing`: `ControlPlane` implements `Addressing`, where a peer
  joins, enters one network, takes the one address that network has on record
  for it, keeps both until it leaves, and networks only grant. `holder` is the
  Peers' liveness, network and address, `record` the Networks' allocations; all
  else is hidden. It says more than the invariants: membership comes before the
  address, no step does two things, a write that was computed from an old copy
  and a write whose reply was lost are one of these steps or nothing.
- `EventuallySettled`: statuses converge to what a sequential reading of the
  stored resources gives. `EventuallyMutual`: the mesh is symmetric.
- `ReconciledIsApplied`: when `Reconcile` gets to the routes, the device has the
  key, port, address and every entry of the Peer it read, although the failure
  to create the interface was ignored and earlier Reconciles, of other versions
  or other namespaces, may have stopped anywhere. It supposes that no two
  entries share a key or a prefix, since WireGuard gives a shared prefix to the
  entry that comes last.
- `UpIsConfigured`: the interface is up only with a key, a port and an address.
- `MkconfAgrees`: a file that mkconf prints says what a guardlet configures for
  the same Peer; the guardlet's part is the device at the end of a `Reconcile`.
  It is limited to an address without a netmask: see the smaller differences.
- `IsNotInterrupted`: all of a device in use is configured again every five
  seconds and on every event. What it serves of the version it is being given -
  a prefix with a route, allowed for the right key, at the right endpoint - is
  not lost at any step, whatever version it held before; only a reboot loses it.
  A configuration that starts anew, as `wg setconf` would, breaks it.
- `ImplementsMachine`: `Guardlet` implements `Machine`, where a Peer of the
  guardlet's name is read and then applied in one step, with a result out of
  `Outcomes`: the device as it was, the interface, the entries up to one of them,
  all of them with the address, and that up with some of the routes. The mapping
  shows the device as `gr.found` while a `Reconcile` runs, which hides its
  commands. It says that what is left behind, when a command fails or a restart
  cuts in, comes from one version and from a prefix of the commands.
- `DeviceKeepsToAllocations`: the device, which is only ever added to, holds no
  own address that is not allocated to its peer, and allows no address for a key
  that never was one of the address's owner, whatever was deleted, created
  again, rekeyed, stopped or rebooted in between. It rests on allocations that
  outlive their peers: a network that reuses an address breaks it. Its reach has
  limits: a network that was deleted lifts it; it asks that an address is on
  record for its owner, and would not notice that it is on record for someone
  else too; and the rules of the run are never edited, so there no peer's address
  ever changes, only its key. `DeviceKeeps` proves it for all rules and edits.
- `ConnectedWhenSettled`: if the statuses are what they should be and a `Reconcile`
  of what is published has come to its end since it was last changed, the machine
  has an interface with its own address, and to every peer it is to be connected
  to a route, an allowed prefix for the right key and the right endpoint, for its
  address and for the subnets exposed through it. Nothing is supposed of the
  device: entries of a neighbour's old key, prefixes that moved and routes of
  earlier versions, some applied in part, are all there when the last `Reconcile`
  starts, and later ones that stop half way may not undo it. A `wg set` that
  leaves out the keys the device already has breaks it. `Fit` says what
  that takes from users: endpoints that can be split, distinct keys and
  addresses, no subnet behind two peers and none that is a peer's own address (a
  binding may route any text, so nothing else keeps it from taking a neighbour's
  host prefix; the proof needs this, TLC's instance has no such subnet). Where
  users expose one prefix through two peers nothing is promised: see the smaller
  differences.
- `EventuallyApplied`: the device comes to have, and keeps, all that the Peer
  lists, with a route for every prefix. It speaks of a name that is used in one
  namespace; with two, the guardlet applies both Peers in turn.

**The whole from its parts.** `ConnectedWhenSettled` is the last link of an
argument that no single run can hold. `EventuallySettled` (`live`) gives its
premise about statuses. Once the Peer no longer changes, which a settled control
plane grants, the sync period brings a `Reconcile` of it that comes to its end,
which is its other premise: `EventuallyApplied` (`guardlet_live`) shows it by
what such a `Reconcile` leaves. The control plane never reads a device, so the
argument is not circular. What is to be connected then is. Liveness over the composition itself
is too large for TLC.

**Why the bounds are enough.** Two peers give a pair of neighbours and the races
between a peer, its neighbour and one network. Four edits cover what it takes to
set up a network with two peers and then disturb it once, or to set up one peer,
delete and recreate it, which is where versions and names are reused. Two
networks are needed only for overlapping rules. One fault at every possible
point, in each controller, and one restart at every point exercise each error
path next to each interleaving. `live` has the fault and leaves the restart to
`stale`: with both it is too large. Names are not symmetric (rules name them);
the two keys of the laptop in `vpn` are, and only there symmetry is used. In
`vpn` four edits are a network, two peers and one of: a route, a new key, a
deletion; or a peer that is deleted and created again with another key. Faults
and restarts are left to the other runs: a device only sees published statuses,
and those every interleaving of the controllers already brings in every order.
The guardlet's versions are the stages a Peer goes through: without an address,
with one neighbour, with two after a prefix moved between them, with another
port and address; and two that it refuses. Three changes make the device go
through three of them, and two faults or restarts can hit one Reconcile and the
one that follows it. The theorems below have no bound on anything.

**Fairness** (`FairSpec`). Weak fairness of event delivery and of the two
workers: goroutines that are always runnable. Strong fairness of taking each
request: the queue is first in first out, while a request is only ready when
the worker is idle. Weak fairness of the resyncs: the informers' timers, ten
hours by default (`cmd/manager/main.go` sets no `SyncPeriod`). Nothing is
assumed of users, faults and restarts, which are bounded. Convergence does
depend on the resyncs: `doc_configured` shows it, and so does a peer created
before its network (below). The
guardlet's fairness is the same, its `sync-period` being 5 seconds
(`cmd/guardlet/main.go:39`): a route that failed is only tried again because of
it.

### Where the code and its documentation part

Each of these runs checks one formula of `DocumentedBehaviour` or
`GuardletProperties`, and TLC finds it violated; `PROJECT.json` quotes the sentence.

| run | what happens |
|---|---|
| `doc_pruned` | allocations of deleted peers are computed away into `newAllocations`, which is never used |
| `doc_configured` | when a neighbour gets its address only the neighbour is reconciled; the mesh is completed by the next resync |
| `doc_addresses_agree` | after its network is deleted and recreated a peer keeps an address that the network gives differently |
| `doc_endpoint` | an omitted endpoint is an error of `net.SplitHostPort`, which ends the configuration of every peer of the network |
| `doc_routes` | a route binding is configured on the peers of every network, as `routeRulesForPeer` never reads its `network` |
| `doc_only_listed` | a neighbour that leaves `status.peers` stays on the device, as `wg set` is never told to remove it |

Smaller differences, visible in a single definition and without a run:

- A peer created before its network is left alone with "don't retry until
  something changes" (`peer_controller.go:327`), but `networkMapper` only wakes
  peers that are members already, so it waits for the next resync.
- `allocateIP` allocates `""` for a rule without an address, and the peer can
  then never get one (`Unaddressable` says so).
- A rule with a static address that matches several peers gives all of them the
  same address; `Fit` excludes it.
- `addRoutes` only logs a failure, so "Reconciled wireguard configuration" does
  not mean that every prefix is routed.
- Of two neighbours that expose one prefix the device allows it for the last
  only, where `routebinding_types.go:29` promises several routes; `Fit` excludes
  it too.
- mkconf appends `/32` to the address whether or not it has a netmask
  (`ConfAddress`): for an address such as `1.2.3.4/24`, which the other parts
  accept (`peer_controller_test.go:280`), it prints `1.2.3.4/24/32`, which
  `wg-quick` refuses, where `README.md:420` says the file can be used with it.
  `MkconfAgrees` is false without its restriction.

## Proofs

The first five modules are about `Spec` of `ControlPlane`, for any sets of names,
rules, selectors, specs and any bounds. The assumptions are `NoneAssumption`
(`None` is not a name, a host, a port, a key or an IP), `SpecsAssumption` (what users submit
passes the CRD's types) and `BoundsAssumption`.

- `TypeProofs`: `TypeCorrect`, `Spec => []TypeOK`. `TypeOK` is not inductive: a
  `Reconcile` that copies an address indexes the networks with the network it
  read, and one that computes entries splits addresses it read earlier.
  `PeerReconcileTyped` remembers what the earlier tests established.
- `StabilityProofs`: `MembershipStable`. The invariant
  (`CopiesAreCoherent`) says that every copy of an object, in a cache, an event
  or a `Reconcile`, has an older version than the stored object or is equal to
  it, and that the status a `Reconcile` builds keeps what its copy has. A write
  that the server accepts has the stored version, so its copy is the stored
  object, and what the copy has is kept; likewise the record of a network that
  lives only grows (`RecordsGrow`).
- `AddressProofs`: `AddressesAllocated` and `ConfigurationsAllocated`. The
  invariant (`StatusesAreGranted`) says of each network never deleted that its
  record has one address per peer (`allocateIP` is deterministic and only runs
  for peers without one), that every copy of it shows a part of its record, and
  that every status anywhere names only addresses on record (*granted*).
  Records only grow (`AllocationsGrow`), so a status once granted stays granted
  wherever it is copied.
- `RefinementProofs`: `Implements`, `Spec => ImplementsAddressing`. Initial
  states map to initial states; then every action is mapped in turn. Users'
  actions are `Join`, `Leave` and `Dissolve`. A network's write is a `Grant`: the
  status it writes has what the network had, and at most one new allocation per
  name (`GrantsOnce`, an invariant of the `Reconcile` that follows from
  `allocateIP` being run once for each listed name that has none). A peer's write
  changes at most one of network and address (`OneField`, because a `Reconcile`
  is in one of three cases), which makes it `Enter` or `Take`; that the address
  taken is on record is `StatusesAreGranted`, that the copy written over is the
  stored object is `CopiesAreCoherent`. Everything else stutters.
- `QuiescenceProofs`: `QuiescentlyAddressed`, `Spec => []QuiescentAddressed`. A
  lost wake-up is a statement about what is *not* on the way, so the invariant
  (`NoWakeUpLost`) accounts for everything that is. `CachesTrail`: a cache shows
  the stored object unless an event about it is still to be delivered, and the
  last such event carries what is stored. `RecordsOneEach` and `GrantsOnce`: a
  record has one allocation per name, and so has the list being written.
  `WakeUps`: for each live member that its network could allocate an address
  for, or whose allocated address it has not taken, an event about the peer or
  the network is pending, a request of the controller in charge is queued, or
  its `Reconcile` is under way with the stored object in hand. An event that is
  delivered becomes the request that takes its place (`peerMapper`,
  `networkMapper`), a write that is refused or fails puts its request back, and
  a restart fills both queues with all objects. `AllocationsStable` is here as it
  needs `RecordsOneEach`: a record that only grows and has one allocation per
  name cannot change what it has for a member. The proof does not need the
  member to live, so the code keeps more than the property asks.
- `WireGuardProofs`: what the commands change and keep, what `buildCfgArgs` has
  checked, that an entry stays applied whichever entry is set after it
  (`EnteredApplies`, `ConfiguredApplies`), and that `Configured`, a recursive function, is what its entries make
  of the device one by one (`ConfiguredInSteps`: if it were not defined up to
  some length, there would be a least such length, `LeastNumber`).
- `GuardletProofs`: `GuardletTypeCorrect`, `DeviceApplied`, `UpOnlyConfigured`,
  `FileAgrees`, `DeviceNotInterrupted` and `GuardletImplements`, about `Spec` of
  `Guardlet`, for any namespaces, versions and bounds and lists of any length,
  from `NoneAssumption` and `GuardletAssumption`. What holds at the end of a
  `Reconcile` is built up command by command, so the invariant says what each
  `pc` has established: `CommandsDone` for the commands, `EntriesDone` for the
  entries before the next one. That a later entry does not disturb an earlier
  one (`ConfigurePeerInv`) is where distinct keys and prefixes are used. Nothing
  is assumed of the device a `Reconcile` finds but `UpIsConfigured`.
  `FileAgrees` takes the device from `DeviceApplied` and reads the file off the
  same Peer: with distinct prefixes the entry that names a prefix last is the
  only one to name it. `DeviceNotInterrupted` needs the same invariant: an entry
  takes from its key the prefixes it does not name, and with distinct entries
  none of those is served for another one; a route is only added where there is
  none. `GuardletImplements` adds `MidwayInv`: at each `pc` the device is what
  the commands so far make of `gr.found`, for one version. So wherever a
  `Reconcile` stops the device is one of `Outcomes` (`InOutcomes`) and the step
  is an `Apply` of `Machine`; `GuardletGet` is a `Read`, `Publish` an `Offer`, a
  reboot a `Lose`, and all commands stutter.
- `VpnProofs`: `DeviceKeeps` and `Connected`, about `VpnSpec`, from the
  assumptions of `ControlPlane` and `VpnAssumption`: host addresses and subnets
  are prefixes, `None` is neither an endpoint nor an entry, and lists have an
  order. `EntriesHaveTheirKeys` says that every entry of every copy of a status
  has a key that users gave the peer it is for, and that a peer has entries only
  once it has an address. `DeviceKeeps` is an invariant of
  the device alone: each address and each allowed host address it has was
  allocated when it got it (`ConfigurationsAllocated`, `AddressesAllocated`), to
  whom it belongs, and stays so because records only grow. Each prefix of the
  entries is a good device again (`ConfiguredGood`), so a `Reconcile` may stop
  anywhere. `Connected` rests on the invariant
  `Reconciled`: once a `Reconcile` of what is published has come to its end, the
  device has all of it (`GuardletReconcilesAll`, from any device), and one that
  stops half way takes nothing away (`GuardletStopsKeepsAll`). The settled
  statuses list every peer to be connected to, with the entry that
  `Configuration` gives; with `Fit` the entries are distinct and can be applied;
  and what the device has gives the key, the endpoint, the prefixes and the
  routes.
  `SettledIsMutual` and `MutualWhenSettled` are about `Spec` of `ControlPlane`:
  settled statuses are mutual, so `EventuallyMutual` follows from
  `EventuallySettled`. They are here because they use `EntriesHaveTheirKeys`, and
  that `None` is not an entry.

The mapping of `Machine` needs one more fact: `Promised!Outcomes`, which is stated
with the instance's copies of the operators of `WireGuard`, is `Outcomes`
(`SameOutcomes`).

TLC checked the invariants that these proofs rest on on the instances of the
runs before they were proved, or checks what follows from them in a run.

Every safety invariant, every action property and both refinements that a run
checks are proved. Only model-checked are the liveness properties
`EventuallySettled` and `EventuallyApplied`, and with the first one
`EventuallyMutual`, which follows from it: they need fairness, which rests on
`ENABLED`, and an argument by induction on what is left to do, which this prover
does not support. The documented promises of the runs that end in a violation
are false, so nothing is to be proved of them.

## Not modelled

The guardlet's commands for darwin, the webhook (never
registered), generated deep copies and scheme registration (no behaviour), flag
parsing and client set-up (I/O), namespaces in the control plane (every get and
list stays in one), vendored code (except through the external definitions of
`Cluster` and `Guardlet`).

## Plan

1. Done: control plane, its runs, its safety theorems.
2. Done: the guardlet, its runs, its safety theorems.
3. Done: `Mkconf`, its agreement with the guardlet, checked and proved.
4. Done: `Vpn`, checked.
5. Done: `Addressing`, the refinement checked and proved.
6. Done: `QuiescentAddressed`, proved.
7. Done: `DeviceKeepsToAllocations` and `ConnectedWhenSettled`, proved.
8. Done: `Machine` as the abstract guardlet, the refinement checked and proved;
   `IsNotInterrupted`, checked and proved.
9. Done: settled statuses are mutual, as a theorem.
10. Left: the safety half of convergence, as theorems. In a state where nothing
   is on the way and the Peers, Networks and bindings have been announced once
   more since the last edit, every status is as `PeerSettled` says; and the same
   of the guardlet's queue and device for `EventuallyApplied`. The second half,
   that such a state is reached, stays with TLC.
