--------------------------- MODULE AppendOnlyLog ---------------------------
(***************************************************************************)
(* What a session's timeline promises: each session has a log, and the     *)
(* only thing that ever happens to a log is that one event is appended.    *)
(***************************************************************************)
EXTENDS Naturals, Sequences

CONSTANTS Sessions, Events

VARIABLE log

Init == log = [s \in Sessions |-> <<>>]

Extend(s, e) == log' = [log EXCEPT ![s] = Append(@, e)]

Next == \E s \in Sessions, e \in Events : Extend(s, e)

Spec == Init /\ [][Next]_log

=============================================================================
