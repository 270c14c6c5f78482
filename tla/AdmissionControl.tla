-------------------------- MODULE AdmissionControl --------------------------
(***************************************************************************)
(* What the clearance ledger promises, without tables, locks or faults: a  *)
(* zone admits at most Capacity[z] drones at once, and a drone is inside   *)
(* at most one zone.  AirspaceClearance implements it with inside read     *)
(* from the zone_clearance table.                                          *)
(***************************************************************************)
EXTENDS Integers, FiniteSets

CONSTANTS Zones, Drones, Capacity

VARIABLE inside   \* inside[z]: the drones cleared into z

Init == inside = [z \in Zones |-> {}]

\* A drone that is nowhere enters a zone with a slot left.
Enter(z, d) ==
    /\ \A y \in Zones : d \notin inside[y]
    /\ Cardinality(inside[z]) < Capacity[z]
    /\ inside' = [inside EXCEPT ![z] = @ \cup {d}]

\* A drone gives back the clearance it holds.
Leave(z, d) ==
    /\ d \in inside[z]
    /\ inside' = [inside EXCEPT ![z] = @ \ {d}]

Next == \E z \in Zones, d \in Drones : Enter(z, d) \/ Leave(z, d)

Spec == Init /\ [][Next]_inside

=============================================================================
