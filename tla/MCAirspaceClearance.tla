------------------------ MODULE MCAirspaceClearance ------------------------
(***************************************************************************)
(* Small instances of AirspaceClearance.  One zone is the contended one    *)
(* and a second shows that a drone cannot hold two clearances.             *)
(***************************************************************************)
EXTENDS AirspaceClearance, TLC

CONSTANTS z1, z2, d1, d2, d3

\* Two slots for three askers, and as DEMO_ZONES gives the demo's airport.
WiderCapacity == (z1 :> 2) @@ (z2 :> 1)

UpToThreeAskers == {{d1, d2}, {d1, d2, d3}}

RequestSymmetry == Permutations(Requests)

\* One zone of two slots, another zone, and the three drones of the demo.
DemoOfThree == SevenSteps(z1, z2, d1, d2, d3)

=============================================================================
