----------------------------- MODULE MCGuardlet -----------------------------
(***************************************************************************)
(* Small instances of the guardlet for TLC.                                *)
(***************************************************************************)
EXTENDS GuardletProperties

CONSTANTS p1, p2, ns1, ns2, k1, k2, host, port1, port2, ip1, ip2, host1, host2, net1

Entry1(s) == [publicKey |-> k1, endpoint |-> [host |-> host, port |-> port1],
              allowedIPs |-> {host1} \cup s]
Entry2(s) == [publicKey |-> k2, endpoint |-> None, allowedIPs |-> {host2} \cup s]
NoKey == [publicKey |-> None, endpoint |-> None, allowedIPs |-> {host2}]

Published(port, address, peers) ==
  [live |-> TRUE, endpoint |-> [host |-> None, port |-> port], address |-> address,
   peers |-> peers]
Plain(ip) == [ip |-> ip, mask |-> None]
Masked(ip) == [ip |-> ip, mask |-> "24"]

(* The stages a Peer goes through: no address, no neighbour, one, two; the *)
(* prefix net1 moves from one neighbour to the other; the address changes. *)
Stages ==
  {Published(port1, None, <<>>),
   Published(port1, Plain(ip1), <<Entry1({net1})>>),
   Published(port1, Plain(ip1), <<Entry1({}), Entry2({net1})>>),
   Published(port2, Masked(ip2), <<Entry2({})>>)}

(* The same, with what the guardlet refuses.                               *)
StagesAndRefused ==
  Stages \cup {Published(None, Plain(ip1), <<Entry1({})>>),
               Published(port1, Plain(ip1), <<Entry1({}), NoKey>>)}

(* A neighbour that leaves.                                                *)
NeighbourLeaves ==
  {Published(port1, Plain(ip1), <<Entry1({})>>), Published(port1, Plain(ip1), <<>>)}
=============================================================================
