------------------------- MODULE AirspaceClearance -------------------------
(***************************************************************************)
(* The airspace-clearance ledger: three Accord tables and the requests     *)
(* that move them (backend/app/routes/transactions.py), with the sink that *)
(* seeds the occupancy rows (ingress/consumer/consumer.py).                *)
(*                                                                         *)
(* A clearance is recorded under its zone and under its drone, and the     *)
(* zone counts its free slots down.  Each Accord transaction is one atomic *)
(* step.  A transaction whose answer the driver lost (a timeout, a dropped *)
(* connection) raises in the handler and is parked in a slot of Lost: it   *)
(* may still land at any later time, or never.                             *)
(***************************************************************************)
EXTENDS Integers, Sequences, FiniteSets

CONSTANTS
    Zones,        \* restricted zones a caller may name
    Drones,       \* entity ids a caller may name
    Capacity,     \* Capacity[z]: the limit DEMO_ZONES gives zone z
    Requests,     \* concurrent HTTP requests (threadpool workers)
    Ops,          \* the mutating routes this instance exercises
    Fleets,       \* the sets of askers /clearance/contend may be called with
    DemoScript,   \* the scripted transactions of /clearance/demo
    Lost,         \* slots for transactions with a lost answer (bound)
    LateSeeds,    \* whether a seed INSERT that raised may still land later
    NoZone,       \* null zone_id
    Free          \* the lock, not held

ASSUME DronesAssumption   == IsFiniteSet(Drones)
ASSUME CapacityAssumption == Capacity \in [Zones -> Nat]
ASSUME NoZoneAssumption   == NoZone \notin Zones
ASSUME FreeAssumption     == Free \notin Requests
ASSUME SeedsAssumption    == LateSeeds \in BOOLEAN
ASSUME FleetsAssumption   == Fleets \subseteq SUBSET Drones

Txn == [kind : {"grant", "release"}, zone : Zones, drone : Drones]

GrantOf(z, d)   == [kind |-> "grant",   zone |-> z, drone |-> d]
ReleaseOf(z, d) == [kind |-> "release", zone |-> z, drone |-> d]

\* clearance_demo's seven steps, without the measured repeats.
SevenSteps(zone, other, first, second, third) ==
    <<GrantOf(zone, first), GrantOf(zone, first), GrantOf(other, first),
      GrantOf(zone, second), GrantOf(zone, third),
      ReleaseOf(zone, first), ReleaseOf(zone, first)>>

NoTxn == [kind |-> "none"]

ASSUME ScriptAssumption == DemoScript \in Seq(Txn)

VARIABLES
    rows,            \* zones that have a zone_occupancy row
    remaining,       \* zone_occupancy.remaining, meaningful on rows
    zoneClearance,   \* zone_clearance: the entity_ids under each zone_id
    droneClearance,  \* drone_clearance: the zone_id under each entity_id
    toSeed,          \* the sink's loop over DEMO_ZONES: zones still to visit
    seeding,         \* the zone it found missing and is about to insert
    lateSeed,        \* an INSERT in flight that the sink no longer waits for
    lock,            \* transactions.py:_lock, the request holding it
    job,             \* each request's local state
    orphan           \* transactions in flight that no handler waits for

ledger == <<rows, remaining, zoneClearance, droneClearance>>
sink   == <<toSeed, seeding, lateSeed>>
vars   == <<rows, remaining, zoneClearance, droneClearance, toSeed, seeding,
            lateSeed, lock, job, orphan>>

-----------------------------------------------------------------------------
(* The two transactions *)

\* Faulty: the grant does not look at the free slots.
GrantGuardUncounted(z, d) == z \in rows /\ droneClearance[d] = NoZone

\* _grant_cql: two reads guard a decrement and two inserts.
GrantGuard(z, d) ==
    /\ z \in rows
    /\ remaining[z] > 0
    /\ droneClearance[d] = NoZone

\* Faulty: the grant inserts the zone's row and not the drone's.
GrantOneSided(z, d) ==
    /\ GrantGuard(z, d)
    /\ remaining' = [remaining EXCEPT ![z] = @ - 1]
    /\ zoneClearance' = [zoneClearance EXCEPT ![z] = @ \cup {d}]
    /\ UNCHANGED <<rows, droneClearance>>

Grant(z, d) ==
    /\ GrantGuard(z, d)
    /\ remaining' = [remaining EXCEPT ![z] = @ - 1]
    /\ zoneClearance' = [zoneClearance EXCEPT ![z] = @ \cup {d}]
    /\ droneClearance' = [droneClearance EXCEPT ![d] = z]
    /\ UNCHANGED rows

\* _release_cql: one read guards an increment and two deletes.
ReleaseGuard(z, d) == droneClearance[d] = z

Release(z, d) ==
    /\ ReleaseGuard(z, d)
    /\ remaining' = [remaining EXCEPT ![z] = @ + 1]
    /\ zoneClearance' = [zoneClearance EXCEPT ![z] = @ \ {d}]
    /\ droneClearance' = [droneClearance EXCEPT ![d] = NoZone]
    /\ UNCHANGED rows

\* The transaction runs: its IF fires and all three tables move, or none does.
Execute(t) ==
    \/ t.kind = "grant"   /\ Grant(t.zone, t.drone)
    \/ t.kind = "release" /\ Release(t.zone, t.drone)
    \/ /\ t.kind = "grant"   => ~GrantGuard(t.zone, t.drone)
       /\ t.kind = "release" => ~ReleaseGuard(t.zone, t.drone)
       /\ UNCHANGED ledger

\* Faulty: the full zone is not among the reasons.
GrantReasonNeverFull(z, d) ==
    CASE z \notin rows              -> "no occupancy row"
      [] droneClearance[d] # NoZone -> "already holds"
      [] OTHER                      -> ""

\* _grant_reason: why a grant did not fire, read from the projection (the
\* values before the write).  The empty string is the only "applied".
GrantReason(z, d) ==
    CASE z \notin rows                -> "no occupancy row"
      [] droneClearance[d] # NoZone   -> "already holds"
      [] remaining[z] <= 0            -> "full"
      [] OTHER                        -> ""

ReleaseReason(z, d) ==
    CASE droneClearance[d] = NoZone -> "nothing to give back"
      [] droneClearance[d] # z      -> "held elsewhere"
      [] OTHER                      -> ""

\* _clearance_step: applied = not reason.
Outcome(t) ==
    LET reason == IF t.kind = "grant" THEN GrantReason(t.zone, t.drone)
                                      ELSE ReleaseReason(t.zone, t.drone)
    IN  IF reason = "" THEN "applied" ELSE "refused"

-----------------------------------------------------------------------------
(* Requests *)

AskState == {"none", "out", "applied", "refused", "error"}

Job == [op     : Ops \cup {"none"},
        pc     : {"idle", "occupancy", "holders", "release", "before",
                  "step", "ask", "count", "report"},
        zone   : Zones \cup {NoZone},   \* contend: the zone every asker wants
        left   : SUBSET Zones,          \* scan: occupancy rows still to read
        todo   : SUBSET Txn,            \* reset: releases still to run
        script : Seq(Txn),              \* transactions to run in this order
        log    : Seq({"applied", "refused", "error"}),
        asks   : [Drones -> AskState],  \* contend: one ask per fleet asset
        winners: SUBSET Drones,         \* contend: holders read afterwards
        missing: BOOLEAN,               \* history: an answer was missing when
                                        \* the request began
        dropped: BOOLEAN]               \* history: one was lost since

IdleJob == [op |-> "none", pc |-> "idle", zone |-> NoZone, left |-> {},
            todo |-> {}, script |-> <<>>, log |-> <<>>,
            asks |-> [d \in Drones |-> "none"], winners |-> {},
            missing |-> FALSE, dropped |-> FALSE]

Granting(r) == {d \in Drones : job[r].asks[d] = "applied"}
Failing(r)  == {d \in Drones : job[r].asks[d] = "error"}

\* The request's local state changes, and no other request's.
Becomes(r, j) == job' = [job EXCEPT ![r] = j]

SomeOrphan == \E o \in Lost : orphan[o] # NoTxn

\* _lock.acquire(blocking=False): a request that does not get the lock answers
\* 409 and changes nothing.
Acquire(r) ==
    /\ lock = Free
    /\ lock' = r
    /\ UNCHANGED <<ledger, sink, orphan>>

\* POST /clearance/grant and /clearance/release: one transaction.
StartOne(r, kind, z, d) ==
    /\ job[r].pc = "idle" /\ kind \in Ops
    /\ Acquire(r)
    /\ Becomes(r, [IdleJob EXCEPT
                    !.op = kind, !.pc = "step",
                    !.script = <<[kind |-> kind, zone |-> z, drone |-> d]>>,
                    !.missing = SomeOrphan])

\* POST /clearance/reset and /clearance/demo: both begin with a reset.
StartReset(r) ==
    /\ job[r].pc = "idle" /\ "reset" \in Ops
    /\ Acquire(r)
    /\ Becomes(r, [IdleJob EXCEPT !.op = "reset", !.pc = "occupancy",
                                  !.missing = SomeOrphan])

StartDemo(r) ==
    /\ job[r].pc = "idle" /\ "demo" \in Ops
    /\ Acquire(r)
    /\ Becomes(r, [IdleJob EXCEPT !.op = "demo", !.pc = "occupancy",
                                  !.script = DemoScript, !.missing = SomeOrphan])

\* POST /clearance/contend: every asker is a fleet asset, its ask still out.
StartContend(r, z, fleet) ==
    /\ job[r].pc = "idle" /\ "contend" \in Ops
    /\ Acquire(r)
    /\ Becomes(r, [IdleJob EXCEPT
                    !.op = "contend", !.pc = "occupancy", !.zone = z,
                    !.asks = [d \in Drones |->
                                IF d \in fleet THEN "out" ELSE "none"],
                    !.missing = SomeOrphan])

\* _clearance_state as _clearance_reset calls it: the occupancy rows first,
\* then each zone's holders, one read after another.
ReadOccupancy(r) ==
    /\ job[r].pc = "occupancy"
    /\ Becomes(r, [job[r] EXCEPT !.pc = "holders", !.left = rows])
    /\ UNCHANGED <<ledger, sink, lock, orphan>>

ReleasesOf(z) == {ReleaseOf(z, d) : d \in zoneClearance[z]}

\* Faulty: a zone's holders replace those of the zones read before it.
ReadHoldersOfLast(r, z) ==
    /\ job[r].pc = "holders" /\ z \in job[r].left
    /\ Becomes(r, [job[r] EXCEPT !.left = @ \ {z}, !.todo = ReleasesOf(z)])
    /\ UNCHANGED <<ledger, sink, lock, orphan>>

ReadHolders(r, z) ==
    /\ job[r].pc = "holders" /\ z \in job[r].left
    /\ Becomes(r, [job[r] EXCEPT !.left = @ \ {z},
                                !.todo = @ \cup ReleasesOf(z)])
    /\ UNCHANGED <<ledger, sink, lock, orphan>>

\* The scan is complete, and the releases begin.
ScanDone(r) ==
    /\ job[r].pc = "holders" /\ job[r].left = {}
    /\ Becomes(r, [job[r] EXCEPT !.pc = "release"])
    /\ UNCHANGED <<ledger, sink, lock, orphan>>

\* One release of _clearance_reset.  Its outcome goes into the action list
\* that /clearance/contend and /clearance/demo discard.
ReleaseOne(r, t) ==
    /\ job[r].pc = "release" /\ t \in job[r].todo
    /\ Execute(t)
    /\ Becomes(r, [job[r] EXCEPT !.todo = @ \ {t}])
    /\ UNCHANGED <<sink, lock, orphan>>

\* The driver raised: the step is an error and the transaction an orphan.
Park(t, o) ==
    /\ orphan[o] = NoTxn
    /\ orphan' = [orphan EXCEPT ![o] = t]
    /\ UNCHANGED <<ledger, sink, lock>>

ReleaseLost(r, t, o) ==
    /\ job[r].pc = "release" /\ t \in job[r].todo
    /\ Park(t, o)
    /\ Becomes(r, [job[r] EXCEPT !.todo = @ \ {t}, !.dropped = TRUE])

\* What follows the reset: contend's asks, the demo's script, or the answer.
AfterReset(op) ==
    CASE op = "contend" -> "before"
      [] op = "demo"    -> "step"
      [] OTHER          -> "report"

ResetDone(r) ==
    /\ job[r].pc = "release" /\ job[r].todo = {}
    /\ Becomes(r, [job[r] EXCEPT !.pc = AfterReset(job[r].op)])
    /\ UNCHANGED <<ledger, sink, lock, orphan>>

\* A scripted transaction, or the only one of /clearance/grant and /release.
Step(r) ==
    /\ job[r].pc = "step" /\ job[r].script # <<>>
    /\ Execute(Head(job[r].script))
    /\ Becomes(r, [job[r] EXCEPT
                    !.script = Tail(@),
                    !.log = Append(@, Outcome(Head(job[r].script)))])
    /\ UNCHANGED <<sink, lock, orphan>>

StepLost(r, o) ==
    /\ job[r].pc = "step" /\ job[r].script # <<>>
    /\ Park(Head(job[r].script), o)
    /\ Becomes(r, [job[r] EXCEPT !.script = Tail(@),
                                !.log = Append(@, "error"),
                                !.dropped = TRUE])

StepsDone(r) ==
    /\ job[r].pc = "step" /\ job[r].script = <<>>
    /\ Becomes(r, [job[r] EXCEPT !.pc = "report"])
    /\ UNCHANGED <<ledger, sink, lock, orphan>>

\* contend reads the zone before the asks: without a row it answers 404.
ReadBefore(r) ==
    /\ job[r].pc = "before"
    /\ \/ /\ job[r].zone \in rows
          /\ Becomes(r, [job[r] EXCEPT !.pc = "ask"])
          /\ UNCHANGED lock
       \/ /\ job[r].zone \notin rows
          /\ Becomes(r, IdleJob)
          /\ lock' = Free
    /\ UNCHANGED <<ledger, sink, orphan>>

AskTxn(r, d) == GrantOf(job[r].zone, d)

\* One worker of the ThreadPoolExecutor: all asks are out at once.
Ask(r, d) ==
    /\ job[r].pc = "ask" /\ job[r].asks[d] = "out"
    /\ Execute(AskTxn(r, d))
    /\ Becomes(r, [job[r] EXCEPT !.asks[d] = Outcome(AskTxn(r, d))])
    /\ UNCHANGED <<sink, lock, orphan>>

AskLost(r, d, o) ==
    /\ job[r].pc = "ask" /\ job[r].asks[d] = "out"
    /\ Park(AskTxn(r, d), o)
    /\ Becomes(r, [job[r] EXCEPT !.asks[d] = "error", !.dropped = TRUE])

AsksDone(r) ==
    /\ job[r].pc = "ask" /\ \A d \in Drones : job[r].asks[d] # "out"
    /\ Becomes(r, [job[r] EXCEPT !.pc = "count"])
    /\ UNCHANGED <<ledger, sink, lock, orphan>>

\* The zone is read once more, after every ask has answered.
ReadAfter(r) ==
    /\ job[r].pc = "count"
    /\ Becomes(r, [job[r] EXCEPT !.pc = "report",
                                !.winners = zoneClearance[job[r].zone]])
    /\ UNCHANGED <<ledger, sink, lock, orphan>>

\* finally: _lock.release().
Finish(r) ==
    /\ job[r].pc = "report"
    /\ Becomes(r, IdleJob)
    /\ lock' = Free
    /\ UNCHANGED <<ledger, sink, orphan>>

\* Faulty: the lock is released on the way out, not in a finally.
AbortKeepsLock(r) ==
    /\ job[r].pc \in {"occupancy", "holders", "release", "before", "step", "count"}
    /\ job[r].pc = "step" => job[r].log # <<>>
    /\ Becomes(r, IdleJob)
    /\ UNCHANGED <<ledger, sink, lock, orphan>>

\* A read of _clearance_state raised: the route answers 503, what the request
\* already did stays, and the finally still releases the lock.
Abort(r) ==
    /\ job[r].pc \in {"occupancy", "holders", "release", "before", "step", "count"}
    /\ job[r].pc = "step" => job[r].log # <<>>
    /\ Becomes(r, IdleJob)
    /\ lock' = Free
    /\ UNCHANGED <<ledger, sink, orphan>>

-----------------------------------------------------------------------------
(* Late transactions, and the sink *)

Land(o) ==
    /\ orphan[o] # NoTxn
    /\ Execute(orphan[o])
    /\ orphan' = [orphan EXCEPT ![o] = NoTxn]
    /\ UNCHANGED <<sink, lock, job>>

Vanish(o) ==
    /\ orphan[o] # NoTxn
    /\ orphan' = [orphan EXCEPT ![o] = NoTxn]
    /\ UNCHANGED <<ledger, sink, lock, job>>

\* Faulty: an existing row is seeded again.
SeedReadAlways(z) ==
    /\ seeding = NoZone /\ z \in toSeed
    /\ toSeed' = toSeed \ {z}
    /\ seeding' = z
    /\ UNCHANGED <<ledger, lateSeed>>

\* seed_zone_occupancy, one zone of DEMO_ZONES: SELECT first ...
SeedRead(z) ==
    /\ seeding = NoZone /\ z \in toSeed
    /\ toSeed' = toSeed \ {z}
    /\ seeding' = IF z \in rows THEN NoZone ELSE z
    /\ UNCHANGED <<ledger, lateSeed>>

\* ... then a plain INSERT with remaining = capacity.
SeedInsert ==
    /\ seeding # NoZone
    /\ rows' = rows \cup {seeding}
    /\ remaining' = [remaining EXCEPT ![seeding] = Capacity[seeding]]
    /\ seeding' = NoZone
    /\ UNCHANGED <<zoneClearance, droneClearance, toSeed, lateSeed>>

\* The INSERT failed: it is logged, and the loop goes on to the next zone.
SeedFail ==
    /\ seeding # NoZone
    /\ seeding' = NoZone
    /\ UNCHANGED <<ledger, toSeed, lateSeed>>

\* It raised because its answer was lost: the loop goes on all the same, and
\* the INSERT may still land, as late as any other transaction.
SeedLost ==
    /\ LateSeeds
    /\ seeding # NoZone /\ lateSeed = NoZone
    /\ lateSeed' = seeding
    /\ seeding' = NoZone
    /\ UNCHANGED <<ledger, toSeed>>

SeedLands ==
    /\ lateSeed # NoZone
    /\ rows' = rows \cup {lateSeed}
    /\ remaining' = [remaining EXCEPT ![lateSeed] = Capacity[lateSeed]]
    /\ lateSeed' = NoZone
    /\ UNCHANGED <<zoneClearance, droneClearance, toSeed, seeding>>

\* The sink process dies at any point and its container starts it again.
SinkRestart ==
    /\ toSeed' = Zones
    /\ seeding' = NoZone
    /\ UNCHANGED <<ledger, lateSeed>>

-----------------------------------------------------------------------------
Init ==
    /\ rows = {}
    /\ remaining = [z \in Zones |-> 0]
    /\ zoneClearance = [z \in Zones |-> {}]
    /\ droneClearance = [d \in Drones |-> NoZone]
    /\ toSeed = Zones
    /\ seeding = NoZone
    /\ lateSeed = NoZone
    /\ lock = Free
    /\ job = [r \in Requests |-> IdleJob]
    /\ orphan = [o \in Lost |-> NoTxn]

Start(r) ==
    \/ \E kind \in {"grant", "release"}, z \in Zones, d \in Drones :
          StartOne(r, kind, z, d)
    \/ StartReset(r)
    \/ StartDemo(r)
    \/ \E z \in Zones, fleet \in Fleets : StartContend(r, z, fleet)

\* What a request thread does on its own once it holds the lock, as long as
\* the database answers.
Progress(r) ==
    \/ ReadOccupancy(r)
    \/ \E z \in Zones : ReadHolders(r, z)
    \/ ScanDone(r)
    \/ \E t \in job[r].todo : ReleaseOne(r, t)
    \/ ResetDone(r)
    \/ Step(r)
    \/ StepsDone(r)
    \/ ReadBefore(r)
    \/ \E d \in Drones : Ask(r, d)
    \/ AsksDone(r)
    \/ ReadAfter(r)
    \/ Finish(r)

\* What goes wrong around it.
Fault(r) ==
    \/ Abort(r)
    \/ \E o \in Lost :
          \/ \E t \in job[r].todo : ReleaseLost(r, t, o)
          \/ StepLost(r, o)
          \/ \E d \in Drones : AskLost(r, d, o)

\* The sink shares the tables with the requests, and nothing else.
Sink ==
    /\ \/ \E z \in Zones : SeedRead(z)
       \/ SeedInsert
       \/ SeedFail
       \/ SeedLost
       \/ SeedLands
       \/ SinkRestart
    /\ UNCHANGED <<lock, job, orphan>>

Next ==
    \/ \E r \in Requests : Start(r) \/ Progress(r) \/ Fault(r)
    \/ \E o \in Lost : Land(o) \/ Vanish(o)
    \/ Sink

Spec == Init /\ [][Next]_vars

\* A thread that can go on does: the handlers are plain synchronous code, and
\* every driver call returns an answer or raises.
FairSpec == Spec /\ \A r \in Requests : WF_vars(Progress(r))

-----------------------------------------------------------------------------
(* Properties *)

TypeOK ==
    /\ rows \subseteq Zones
    /\ remaining \in [Zones -> Int]
    /\ zoneClearance \in [Zones -> SUBSET Drones]
    /\ droneClearance \in [Drones -> Zones \cup {NoZone}]
    /\ toSeed \subseteq Zones
    /\ seeding \in Zones \cup {NoZone}
    /\ lateSeed \in Zones \cup {NoZone}
    /\ lock \in Requests \cup {Free}
    /\ job \in [Requests -> Job]
    /\ orphan \in [Lost -> Txn \cup {NoTxn}]

\* The invariant the three tables exist for (transactions.py, "capacity ==
\* remaining + holders"), whatever transactions land late and however often the
\* sink restarts and seeds again.
SlotsAddUp ==
    \A z \in rows : Capacity[z] = remaining[z] + Cardinality(zoneClearance[z])

\* A zone never holds more drones than its capacity.
NeverOverAdmitted ==
    \A z \in Zones : zoneClearance[z] # {} =>
        z \in rows /\ Cardinality(zoneClearance[z]) <= Capacity[z]

\* Both sides of a clearance agree, in both directions: the state route checks
\* only the zone side, and a drone row without its twin would go unseen.
MirrorsAgree ==
    \A z \in Zones, d \in Drones : d \in zoneClearance[z] <=> droneClearance[d] = z

\* What the handlers promise of the ledger at every moment.
LedgerSound == TypeOK /\ SlotsAddUp /\ NeverOverAdmitted /\ MirrorsAgree

\* A step answers "applied" exactly when it moved the ledger.  The answer is
\* computed from the projection by _grant_reason and _release_reason, apart
\* from the IF that decided, so the two can drift.
AnswersAreTrue ==
    [][\A r \in Requests :
         /\ Len(job'[r].log) = Len(job[r].log) + 1 =>
               (job'[r].log[Len(job'[r].log)] = "applied" <=> ledger' # ledger)
         /\ \A d \in Drones :
               job[r].asks[d] = "out" /\ job'[r].asks[d] \in {"applied", "refused"} =>
                  (job'[r].asks[d] = "applied" <=> ledger' # ledger)]_vars

Undisturbed(r) == ~job[r].missing /\ ~job[r].dropped

Contended(r) == job[r].op = "contend" /\ job[r].pc = "report"

Askers(r) == {d \in Drones : job[r].asks[d] # "none"}

FewerOf(a, b) == IF a <= b THEN a ELSE b

Exact(r) ==
    Cardinality(Granting(r)) = FewerOf(Cardinality(Askers(r)), Capacity[job[r].zone])

\* With every answer delivered, overlapping asks admit as many drones as the
\* zone has slots (or askers), and the winners read afterwards are the drones
\* told "applied".  It needs the lock, a complete reset and the guard.
ContendCountsExactly ==
    \A r \in Requests : Contended(r) /\ Undisturbed(r) =>
        Exact(r) /\ job[r].winners = Granting(r)

\* clearance_demo's docstring, "Only three of the seven may change anything":
\* the first grant, the second drone's grant and the first release.
DemoTellsItsStory ==
    \A r \in Requests :
        /\ job[r].op = "demo" /\ job[r].pc = "report" /\ Undisturbed(r)
        /\ job[r].log[1] = "applied"
        => SubSeq(job[r].log, 1, 7) =
             <<"applied", "refused", "refused", "applied", "refused",
               "applied", "refused">>

\* Both of the page's demonstrations end as the page says they do, whatever else
\* is asked meanwhile.
DemonstrationsHold == ContendCountsExactly /\ DemoTellsItsStory

\* The ledger implements AdmissionControl, read through zone_clearance.
Admission == INSTANCE AdmissionControl WITH inside <- zoneClearance

\* Every step of every request, fault and late transaction is an admission, a
\* departure, or nothing at all to the zones' holders.
AdmissionControlled == Admission!Spec

\* A request that took _lock gives it back: every path ends in the finally.
LockIsReturned == \A r \in Requests : lock = r ~> lock = Free

=============================================================================
