------------------------- MODULE MCSessionTimeline -------------------------
(***************************************************************************)
(* Small instances of SessionTimeline.                                     *)
(***************************************************************************)
EXTENDS SessionTimeline, TLC

Symmetry == Permutations(Requests) \cup Permutations(Events)
            \cup Permutations(Lost)

=============================================================================
