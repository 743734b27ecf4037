----------------------------- MODULE Addressing -----------------------------
(***************************************************************************)
(* What the control plane promises about addresses, without saying how: a  *)
(* peer enters one network, takes the one address that the network has on  *)
(* record for it, and keeps both until it leaves. There are no caches, no  *)
(* events, no versions and no controllers.                                 *)
(***************************************************************************)
EXTENDS WgApi

VARIABLES
  holder,      \* holder[p]: what peer p holds
  record,      \* record[n]: the addresses network n has granted
  dissolved    \* networks that were dissolved at some point

addressingVars == <<holder, record, dissolved>>

Nobody == [live |-> FALSE, network |-> None, address |-> None]

AddressingInit ==
  /\ holder = [p \in PeerNames |-> Nobody]
  /\ record = [n \in NetworkNames |-> {}]
  /\ dissolved = {}

Join(p) ==
  /\ ~ holder[p].live
  /\ holder' = [holder EXCEPT ![p] = [live |-> TRUE, network |-> None, address |-> None]]
  /\ UNCHANGED <<record, dissolved>>

Leave(p) ==
  /\ holder[p].live
  /\ holder' = [holder EXCEPT ![p] = Nobody]
  /\ UNCHANGED <<record, dissolved>>

Enter(p, n) ==
  /\ holder[p] = [live |-> TRUE, network |-> None, address |-> None]
  /\ holder' = [holder EXCEPT ![p] = [live |-> TRUE, network |-> n, address |-> None]]
  /\ UNCHANGED <<record, dissolved>>

(* A network grants addresses to names that have none, one to each.        *)
Grant(n) ==
  /\ record' = [record EXCEPT ![n] = record'[n]]
  /\ record[n] \subseteq record'[n]
  /\ \A new \in record'[n] \ record[n], other \in record'[n] :
       new.name = other.name => new = other
  /\ UNCHANGED <<holder, dissolved>>

(* A peer takes the address that its network has granted it. A network     *)
(* that was dissolved may still be taken at its old word.                  *)
Take(p, a) ==
  /\ holder[p].live /\ holder[p].network # None /\ holder[p].address = None
  /\ \/ holder[p].network \in dissolved
     \/ [name |-> p, address |-> a] \in record[holder[p].network]
  /\ holder' = [holder EXCEPT ![p] = [live |-> TRUE, network |-> holder[p].network,
                                      address |-> a]]
  /\ UNCHANGED <<record, dissolved>>

Dissolve(n) ==
  /\ record' = [record EXCEPT ![n] = {}]
  /\ dissolved' = dissolved \cup {n}
  /\ UNCHANGED holder

AddressingNext ==
  \/ \E n \in NetworkNames : Grant(n) \/ Dissolve(n)
  \/ \E p \in PeerNames : Join(p) \/ Leave(p)
  \/ \E p \in PeerNames, n \in NetworkNames : Enter(p, n)
  \/ \E p \in PeerNames, a \in Address : Take(p, a)

AddressingSpec == AddressingInit /\ [][AddressingNext]_addressingVars
=============================================================================
