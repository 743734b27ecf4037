--------------------------- MODULE MCControlPlane ---------------------------
(***************************************************************************)
(* Small instances of the control plane for TLC.                           *)
(***************************************************************************)
EXTENDS DocumentedBehaviour, TLC

CONSTANTS p1, p2, n1, n2, r1, label, k1, k2, host, port, ip1, ip2, net1

ByName(p) == [names |-> {p}, matchLabels |-> {}]
ByLabel == [names |-> {}, matchLabels |-> {label}]
Plain(ip) == [ip |-> ip, mask |-> None]
Masked(ip) == [ip |-> ip, mask |-> "24"]
Rule(address, selector) == [address |-> address, selector |-> selector]

(* The endpoints of the README's server and laptop, and an omitted one.    *)
Listening == [host |-> host, port |-> port]
BehindNAT == [host |-> None, port |-> port]
Omitted == [host |-> None, port |-> None]
Spec1(endpoint, labels) == [labels |-> labels, publicKey |-> k1, endpoint |-> endpoint]
Spec2(endpoint, labels) == [labels |-> labels, publicKey |-> k2, endpoint |-> endpoint]

ServerAndLaptop == (p1 :> {Spec1(Listening, {})}) @@ (p2 :> {Spec2(BehindNAT, {})})
ServerAndOmitted == (p1 :> {Spec1(Listening, {})}) @@ (p2 :> {Spec2(Omitted, {})})

(* Peers whose labels and endpoints are edited.                            *)
EditedPeers ==
  (p1 :> {Spec1(Listening, {}), Spec1(Listening, {label})})
    @@ (p2 :> {Spec2(BehindNAT, {label}), Spec2(Omitted, {label})})

(* The network of the README, one static address per peer, one of them     *)
(* with a netmask as in peer_controller_test.go; its rules may later be    *)
(* edited to give p1 another address.                                      *)
StaticRules == <<Rule(Masked(ip1), ByName(p1)), Rule(Plain(ip2), ByName(p2))>>
MovedRules == <<Rule(Plain(ip2), ByName(p1)), Rule(Plain(ip1), None)>>
OneStaticNetwork == (n1 :> {StaticRules})
OneEditedNetwork == (n1 :> {StaticRules, MovedRules})

(* A network for labelled peers and one that p1 matches in any case: a     *)
(* labelled p1 matches both.                                               *)
TwoNetworks ==
  (n1 :> {<<Rule(Plain(ip1), ByLabel)>>})
    @@ (n2 :> {<<Rule(Masked(ip2), ByName(p1))>>})

(* The README's network, and one that nobody has created.                  *)
StaticAndAbsent == (n1 :> {StaticRules}) @@ (n2 :> {})

(* The server's local network exposed through p1, as in the README.        *)
NoRoutes == <<>>
RouteInN1 == (r1 :> {[network |-> n1, selector |-> ByName(p1), routes |-> {net1}]})
RouteInN2 == (r1 :> {[network |-> n2, selector |-> ByName(p1), routes |-> {net1}]})
=============================================================================
