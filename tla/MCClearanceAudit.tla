-------------------------- MODULE MCClearanceAudit --------------------------
(***************************************************************************)
(* A small instance of ClearanceAudit: one zone of one slot, two drones,   *)
(* every operation but the demo and transactions that commit late beside   *)
(* the audit.                                                              *)
(***************************************************************************)
EXTENDS ClearanceAudit, TLC

CONSTANTS z1, d1, d2

OneSlot   == z1 :> 1
TwoAskers == {{d1, d2}}
NoScript  == <<>>

=============================================================================
