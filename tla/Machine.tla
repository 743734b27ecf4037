------------------------------ MODULE Machine ------------------------------
(***************************************************************************)
(* What the guardlet promises of the machine it runs on, without the       *)
(* commands, the queue and what fails: it reads a Peer of its own name and *)
(* applies it in one step, to the end or to some earlier point; the device *)
(* changes in no other way, unless a reboot takes it.                      *)
(***************************************************************************)
EXTENDS WireGuard

CONSTANT Namespaces   \* where a Peer of the machine's name may be

VARIABLES
  own,       \* the Peers of its name
  reading,   \* the one that is being applied
  device     \* the device between two applications

machineVars == <<own, reading, device>>

MachineInit ==
  /\ own = [n \in Namespaces |-> Unpublished]
  /\ reading = Unpublished
  /\ device = NoDevice

Offer == own' \in [Namespaces -> PublishedPeer] /\ UNCHANGED <<reading, device>>

Read(n) ==
  /\ reading = Unpublished
  /\ own[n].live
  /\ reading' = own[n]
  /\ UNCHANGED <<own, device>>

Apply ==
  /\ reading.live
  /\ device' \in Outcomes(device, reading, Listed(reading))
  /\ reading' = Unpublished
  /\ UNCHANGED own

Lose == reading' = Unpublished /\ device' = NoDevice /\ UNCHANGED own

MachineNext == Offer \/ (\E n \in Namespaces : Read(n)) \/ Apply \/ Lose

MachineSpec == MachineInit /\ [][MachineNext]_machineVars
=============================================================================
