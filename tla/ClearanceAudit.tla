--------------------------- MODULE ClearanceAudit ---------------------------
(***************************************************************************)
(* GET /clearance/state beside the ledger it reads.  _clearance_state takes *)
(* no lock and is several reads: every occupancy row first, then zone by   *)
(* zone the holders, then one mirror row per holder.  Transactions commit  *)
(* between them.                                                           *)
(***************************************************************************)
EXTENDS AirspaceClearance

VARIABLE view   \* the state route's local state, for one request at a time

auditVars == <<vars, view>>

NoView == [pc |-> "idle", snap |-> [z \in Zones |-> 0], left |-> {},
           mirrors |-> {}, inconsistent |-> {}, mismatched |-> {},
           quiet |-> TRUE]

ViewTypeOK ==
    view \in [pc           : {"idle", "zones", "report"},
              snap         : [Zones -> Int],         \* remaining, as read first
              left         : SUBSET Zones,           \* rows still to visit
              mirrors      : SUBSET (Zones \X Drones),  \* mirror reads to make
              inconsistent : SUBSET Zones,           \* rows with consistent = False
              mismatched   : SUBSET Drones,
              quiet        : BOOLEAN]                \* history: the ledger has
                                                     \* not moved since the start

\* SELECT ... FROM zone_occupancy
AuditOccupancy ==
    /\ view.pc = "idle"
    /\ view' = [NoView EXCEPT !.pc = "zones", !.snap = remaining, !.left = rows]
    /\ UNCHANGED vars

\* Faulty: only missing slots are reported.
AuditHoldersAtLeast(z) ==
    /\ view.pc = "zones" /\ view.mirrors = {} /\ z \in view.left
    /\ view' = [view EXCEPT
                  !.left = @ \ {z},
                  !.mirrors = {z} \X zoneClearance[z],
                  !.inconsistent =
                     IF Capacity[z] <= view.snap[z] + Cardinality(zoneClearance[z])
                     THEN @ ELSE @ \cup {z}]
    /\ UNCHANGED vars

\* SELECT entity_id FROM zone_clearance WHERE zone_id = z.  consistent compares
\* the capacity with the count read first and the holders read now.
AuditHolders(z) ==
    /\ view.pc = "zones" /\ view.mirrors = {} /\ z \in view.left
    /\ view' = [view EXCEPT
                  !.left = @ \ {z},
                  !.mirrors = {z} \X zoneClearance[z],
                  !.inconsistent =
                     IF Capacity[z] = view.snap[z] + Cardinality(zoneClearance[z])
                     THEN @ ELSE @ \cup {z}]
    /\ UNCHANGED vars

\* SELECT zone_id FROM drone_clearance WHERE entity_id = d
AuditMirror(z, d) ==
    /\ view.pc = "zones" /\ <<z, d>> \in view.mirrors
    /\ view' = [view EXCEPT
                  !.mirrors = @ \ {<<z, d>>},
                  !.mismatched = IF droneClearance[d] = z THEN @ ELSE @ \cup {d}]
    /\ UNCHANGED vars

AuditReport ==
    /\ view.pc = "zones" /\ view.left = {} /\ view.mirrors = {}
    /\ view' = [view EXCEPT !.pc = "report"]
    /\ UNCHANGED vars

\* The response is sent, or a read raised and the route answered 503.
AuditEnd ==
    /\ view.pc # "idle"
    /\ view' = NoView
    /\ UNCHANGED vars

System ==
    /\ Next
    /\ view' = [view EXCEPT !.quiet = @ /\ ledger' = ledger]

AuditInit == Init /\ view = NoView

AuditNext ==
    \/ System
    \/ AuditOccupancy
    \/ \E z \in Zones : AuditHolders(z)
    \/ \E z \in Zones, d \in Drones : AuditMirror(z, d)
    \/ AuditReport
    \/ AuditEnd

AuditSpec == AuditInit /\ [][AuditNext]_auditVars

\* The audit may be abandoned; the other requests go on.
FairAuditSpec == AuditSpec /\ \A r \in Requests : WF_vars(Progress(r))

CleanReport == view.inconsistent = {} /\ view.mismatched = {}

\* transactions.py: "The invariant that check protects is capacity ==
\* remaining + holders, and the state route reports whether it still holds".
\* An audit that no transaction overtook is right both ways: it finds nothing
\* in a sound ledger, and a seed INSERT that landed late does not escape it.
QuietAuditIsTrue ==
    view.pc = "report" /\ view.quiet => (CleanReport <=> SlotsAddUp /\ MirrorsAgree)

\* What a reader of the route may rely on.
AuditSound == ViewTypeOK /\ QuietAuditIsTrue

=============================================================================
