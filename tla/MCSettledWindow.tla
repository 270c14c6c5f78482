-------------------------- MODULE MCSettledWindow --------------------------
(***************************************************************************)
(* Small instances of SettledWindow.                                       *)
(***************************************************************************)
EXTENDS SettledWindow, TLC

CONSTANTS p1, p2, e1, e2

OneEach == (e1 :> p1) @@ (e2 :> p2)

\* One batch crosses both partitions and ends where it began, so that a record
\* of the batch can follow another on its partition.
AcrossPartitions == <<e1, e2, e1>>

=============================================================================
