------------------------------- MODULE Mkconf -------------------------------
(***************************************************************************)
(* mkconf (cmd/mkconf): for machines that cannot run a guardlet it prints  *)
(* the status of one Peer as a file for wg-quick. It gets the Peer,        *)
(* prints, and exits; a Peer that cannot be got, or whose endpoint cannot  *)
(* be split, ends it with nothing printed.                                 *)
(***************************************************************************)
EXTENDS WireGuard

generateConfFails(o) == SplitHostPortFails(o.endpoint)

(* "/32" follows the address, whether or not that has a netmask already.   *)
ConfAddress(a) ==
  IF a = None THEN [ip |-> None, masks |-> <<"32">>]
  ELSE [ip |-> a.ip, masks |-> IF a.mask = None THEN <<"32">> ELSE <<a.mask, "32">>]

(* Mutant: the entries get the peer's own endpoint.                        *)
generateConfOwnEndpoint(o) ==
  [address |-> ConfAddress(o.address), listenPort |-> o.endpoint.port,
   peers |-> [i \in DOMAIN o.peers |-> [o.peers[i] EXCEPT !.endpoint = o.endpoint]]]

(* The file: Address and ListenPort, and a [Peer] section per entry with   *)
(* its PublicKey, AllowedIPs and, when it has one, Endpoint.               *)
generateConf(o) ==
  [address |-> ConfAddress(o.address), listenPort |-> o.endpoint.port, peers |-> o.peers]

-----------------------------------------------------------------------------
(* wg-quick refuses an address that is missing or has two netmasks, and    *)
(* hands the rest to wg, which refuses an empty key.                       *)
wgQuickRefuses(f) ==
  \/ f.address.ip = None \/ Len(f.address.masks) # 1
  \/ \E i \in DOMAIN f.peers : f.peers[i].publicKey = None

(* The peer that wg-quick leaves a prefix with: the last one to name it.   *)
wgQuickAllowed(f, s) ==
  LET naming == {i \in DOMAIN f.peers : s \in f.peers[i].allowedIPs}
  IN  IF naming = {} THEN None
      ELSE f.peers[CHOOSE i \in naming : \A j \in naming : j <= i].publicKey
=============================================================================
