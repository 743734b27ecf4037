----------------------------- MODULE WireGuard -----------------------------
(***************************************************************************)
(* A WireGuard device as the commands of the guardlet see and change it,   *)
(* and what the guardlet takes from a Peer to build those commands. The    *)
(* commands are those for Linux.                                           *)
(***************************************************************************)
EXTENDS WgApi

CONSTANT Prefixes   \* what an element of AllowedIPs may be

(* One element of status.peers, as far as the guardlet reads it.           *)
Entry ==
  [publicKey: PublicKeys \cup {None}, endpoint: Endpoint \cup {None},
   allowedIPs: SUBSET Prefixes]

(* A Peer as the guardlet reads it: spec.endpoint and the status.          *)
PublishedPeer ==
  [live: BOOLEAN, endpoint: Endpoint, address: Address \cup {None}, peers: Seq(Entry)]

Unpublished ==
  [live |-> FALSE, endpoint |-> [host |-> None, port |-> None], address |-> None,
   peers |-> <<>>]

InterfaceAddress == [ip: IPs, mask: Masks \cup {"32"}]

(* endpoints and allowed are WireGuard's: a prefix is allowed for at most  *)
(* one peer. routes gives the gateway of each prefix routed to the device. *)
Device ==
  [exists: BOOLEAN, up: BOOLEAN, key: BOOLEAN, port: Ports \cup {None},
   addresses: SUBSET InterfaceAddress, peers: SUBSET PublicKeys,
   endpoints: [PublicKeys -> Endpoint \cup {None}],
   allowed: [Prefixes -> PublicKeys \cup {None}],
   routes: [Prefixes -> IPs \cup {None}]]

NoDevice ==
  [exists |-> FALSE, up |-> FALSE, key |-> FALSE, port |-> None, addresses |-> {},
   peers |-> {}, endpoints |-> [k \in PublicKeys |-> None],
   allowed |-> [s \in Prefixes |-> None], routes |-> [s \in Prefixes |-> None]]

-----------------------------------------------------------------------------
(* buildCfgArgs fails on an endpoint that cannot be split, the peer's own  *)
(* or an entry's, and on an entry without a public key.                    *)
buildCfgArgsFails(o) ==
  \/ SplitHostPortFails(o.endpoint)
  \/ \E i \in DOMAIN o.peers :
       \/ o.peers[i].publicKey = None
       \/ o.peers[i].endpoint # None /\ SplitHostPortFails(o.peers[i].endpoint)

(* wg set ... peer K endpoint E allowed-ips L: the allowed IPs of K become *)
(* L, taken from other peers if need be; what is not given stays.          *)
withPeer(d, e) ==
  LET k == e.publicKey
  IN  [d EXCEPT
         !.peers = d.peers \cup {k},
         !.endpoints = IF e.endpoint = None
                         THEN d.endpoints
                         ELSE [d.endpoints EXCEPT ![k] = e.endpoint],
         !.allowed = IF e.allowedIPs = {}
                       THEN d.allowed
                       ELSE [s \in Prefixes |-> IF s \in e.allowedIPs THEN k
                                                ELSE IF d.allowed[s] = k THEN None
                                                ELSE d.allowed[s]]]

(* Mutant: the netmask is not completed.                                   *)
ipMaskAsIs(a) == a

(* The address as setupIP gives it to ip addr add.                         *)
ipMask(a) == IF a.mask = None THEN [ip |-> a.ip, mask |-> "32"] ELSE a

(* What ip addr add refuses: "/32", and an address that ends in a slash.   *)
AddressRefused(a) == a = None \/ (a # None /\ a.mask = "")

(* A Peer that the guardlet refuses nothing of.                            *)
Applicable(o) == ~ buildCfgArgsFails(o) /\ ~ AddressRefused(o.address)

AllPrefixes(o) == UNION {o.peers[i].allowedIPs : i \in DOMAIN o.peers}

-----------------------------------------------------------------------------
(* What a Reconcile of Peer o makes of a device d: setupInterface ...      *)
Interface(d) == IF d.exists THEN d ELSE [NoDevice EXCEPT !.exists = TRUE]

(* ... wg set, first the port and the private key ...                      *)
Started(d, o) == [Interface(d) EXCEPT !.port = o.endpoint.port, !.key = TRUE]

(* Mutant: entries whose key the device already has are left alone.        *)
ConfiguredUnknown(d, o, order) ==
  LET after[j \in 0..Len(order)] ==
        IF j = 0 THEN Started(d, o)
        ELSE IF order[j] \in DOMAIN o.peers /\ o.peers[order[j]].publicKey \notin d.peers
          THEN withPeer(after[j - 1], o.peers[order[j]])
        ELSE after[j - 1]
  IN  after

(* ... and up to each of the entries in turn, which are in some order of   *)
(* the names or numbers they go by ...                                     *)
Configured(d, o, order) ==
  LET after[j \in 0..Len(order)] ==
        IF j = 0 THEN Started(d, o)
        ELSE IF order[j] \in DOMAIN o.peers THEN withPeer(after[j - 1], o.peers[order[j]])
        ELSE after[j - 1]
  IN  after

(* The order in which status.peers lists its entries.                      *)
Listed(o) == [i \in DOMAIN o.peers |-> i]

(* ... setupIP ...                                                         *)
Addressed(d, o) == [d EXCEPT !.addresses = d.addresses \cup {ipMask(o.address)}]

(* ... and ifup, and addRoutes for prefixes that have no route.            *)
Up(d, o, prefixes) ==
  [d EXCEPT !.up = TRUE,
            !.routes = [s \in Prefixes |-> IF s \in prefixes /\ d.routes[s] = None
                                             THEN o.address.ip ELSE d.routes[s]]]

(* All that it may leave behind, when it stops or a command fails: what    *)
(* was there, or nothing but the interface; some entries, in order; all of *)
(* them with the address; and all of that up, with some of the routes.     *)
Outcomes(d, o, order) ==
  LET configured == Configured(d, o, order)
      addressed == Addressed(configured[Len(order)], o)
  IN  {d, Interface(d)} \cup
      (IF buildCfgArgsFails(o) THEN {} ELSE {configured[i] : i \in 0..Len(order)}) \cup
      (IF Applicable(o)
         THEN {addressed} \cup {Up(addressed, o, routed) : routed \in SUBSET AllPrefixes(o)}
         ELSE {})

-----------------------------------------------------------------------------
(* No two entries claim the same key or the same prefix.                   *)
Distinct(o) ==
  \A i, j \in DOMAIN o.peers : i # j =>
    /\ o.peers[i].publicKey # o.peers[j].publicKey
    /\ o.peers[i].allowedIPs \cap o.peers[j].allowedIPs = {}

(* The device has the entry: its peer, its endpoint if it has one, and for *)
(* that peer the entry's prefixes and no others.                           *)
EntryApplied(d, e) ==
  /\ e.publicKey \in d.peers
  /\ e.endpoint # None => d.endpoints[e.publicKey] = e.endpoint
  /\ e.allowedIPs # {} =>
       \A s \in Prefixes : d.allowed[s] = e.publicKey <=> s \in e.allowedIPs

Applied(d, o) ==
  /\ d.exists /\ d.up /\ d.key
  /\ d.port = o.endpoint.port
  /\ ipMask(o.address) \in d.addresses
  /\ \A i \in DOMAIN o.peers : EntryApplied(d, o.peers[i])

Routed(d, o) == \A s \in AllPrefixes(o) : d.routes[s] # None
=============================================================================
