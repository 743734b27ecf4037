------------------------------- MODULE MCVpn -------------------------------
(***************************************************************************)
(* Small instances of the VPN for TLC.                                     *)
(***************************************************************************)
EXTENDS Vpn, TLC

CONSTANTS p1, p2, n1, r1, k1, k2, k3, host, port, ip1, ip2, net1

(* The README's server and laptop; the laptop's key may be changed.        *)
Rule(address, p) == [address |-> address, selector |-> [names |-> {p}, matchLabels |-> {}]]
Laptop(key) == [labels |-> {}, publicKey |-> key, endpoint |-> [host |-> None, port |-> port]]

ServerAndLaptop ==
  (p1 :> {[labels |-> {}, publicKey |-> k1, endpoint |-> [host |-> host, port |-> port]]})
    @@ (p2 :> {Laptop(k2), Laptop(k3)})

OneNetwork ==
  (n1 :> {<<Rule([ip |-> ip1, mask |-> "24"], p1), Rule([ip |-> ip2, mask |-> None], p2)>>})

(* The server's local network.                                             *)
LocalNetwork ==
  (r1 :> {[network |-> n1, selector |-> [names |-> {p1}, matchLabels |-> {}],
           routes |-> {net1}]})

(* The laptop's two keys are alike.                                        *)
LaptopKeys == Permutations({k2, k3})

AllPossiblePrefixes == HostAddress \cup Subnets

ByName == <<p1, p2>>
=============================================================================
