---------------------------- MODULE MCEventSink ----------------------------
(***************************************************************************)
(* Small instances of EventSink.                                           *)
(***************************************************************************)
EXTENDS EventSink, TLC

CONSTANTS p1, e1

OnePartition == e1 :> p1

=============================================================================
