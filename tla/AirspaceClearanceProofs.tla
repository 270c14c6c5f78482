---------------------- MODULE AirspaceClearanceProofs ----------------------
(***************************************************************************)
(* TLAPS proofs about AirspaceClearance and ClearanceAudit, for every set  *)
(* of zones, drones, requests and lost answers.                            *)
(***************************************************************************)
EXTENDS ClearanceAudit, FiniteSetTheorems, TLAPS

\* The types of the four tables, apart from the requests'.
LedgerTypeOK ==
    /\ rows \subseteq Zones
    /\ remaining \in [Zones -> Int]
    /\ zoneClearance \in [Zones -> SUBSET Drones]
    /\ droneClearance \in [Drones -> Zones \cup {NoZone}]

\* Asks go out only after the zone's row was read, and rows are never deleted.
AsksNameARow ==
    \A r \in Requests : job[r].pc \in {"ask", "count"} => job[r].zone \in rows

\* A zone without a row has no holders, and the zone the sink is about to
\* insert has no row: its SELECT is stale only until the INSERT, and nobody
\* else inserts rows.  With LateSeeds that is not so, and the counts can break.
SeedingIsFresh ==
    /\ \A z \in Zones \ rows : zoneClearance[z] = {}
    /\ seeding \notin rows /\ lateSeed = NoZone
    /\ \A z \in rows : remaining[z] >= 0

\* The inductive invariant.
LedgerInv == TypeOK /\ AsksNameARow /\ SlotsAddUp /\ MirrorsAgree /\ SeedingIsFresh

-----------------------------------------------------------------------------
(* Types *)

\* An idle request's local state is well typed.
LEMMA IdleJobType == IdleJob \in Job
<1>1. <<>> \in Seq(Txn) /\ <<>> \in Seq({"applied", "refused", "error"})
  OBVIOUS
<1>2. QED
  BY <1>1 DEF IdleJob, Job, AskState

\* A transaction leaves the tables well typed, whichever way its IF went.
LEMMA ExecuteType ==
  ASSUME LedgerTypeOK, NEW t \in Txn, Execute(t)
  PROVE  LedgerTypeOK'
<1>1. CASE t.kind = "grant" /\ Grant(t.zone, t.drone)
  BY <1>1 DEF LedgerTypeOK, Grant, GrantGuard, Txn
<1>2. CASE t.kind = "release" /\ Release(t.zone, t.drone)
  BY <1>2 DEF LedgerTypeOK, Release, ReleaseGuard, Txn
<1>3. CASE UNCHANGED ledger
  BY <1>3 DEF LedgerTypeOK, ledger
<1>4. QED
  BY <1>1, <1>2, <1>3 DEF Execute

\* What a finished step is reported as is one of the two answers.
LEMMA OutcomeType == \A t : Outcome(t) \in {"applied", "refused"}
  BY DEF Outcome

\* The initial state is well typed.
LEMMA TypeInit == Init => TypeOK
  BY IdleJobType, CapacityAssumption DEF Init, TypeOK

\* Replacing one request's local state by a well-typed one keeps the type.
LEMMA BecomesType ==
  ASSUME TypeOK, NEW r \in Requests, NEW j \in Job, Becomes(r, j)
  PROVE  job' \in [Requests -> Job]
  BY DEF TypeOK, Becomes

\* Starting a request keeps the types.
LEMMA StartType ==
  ASSUME TypeOK, NEW r \in Requests, Start(r)
  PROVE  TypeOK'
<1> USE IdleJobType
<1>a. SomeOrphan \in BOOLEAN
  BY DEF SomeOrphan
<1>b. ASSUME NEW j \in Job, Becomes(r, j), Acquire(r) PROVE TypeOK'
  <2>1. job' \in [Requests -> Job]
    BY <1>b, BecomesType
  <2>2. QED
    BY <1>b, <2>1 DEF Acquire, TypeOK, ledger, sink
<1>1. ASSUME NEW kind \in {"grant", "release"}, NEW z \in Zones, NEW d \in Drones,
             StartOne(r, kind, z, d)
      PROVE  TypeOK'
  <2>1. <<[kind |-> kind, zone |-> z, drone |-> d]>> \in Seq(Txn)
    BY DEF Txn
  <2>2. [IdleJob EXCEPT !.op = kind, !.pc = "step",
            !.script = <<[kind |-> kind, zone |-> z, drone |-> d]>>,
            !.missing = SomeOrphan] \in Job
    BY <1>1, <1>a, <2>1, Zenon DEF Job, StartOne
  <2>3. QED
    BY <1>1, <1>b, <2>2 DEF StartOne
<1>2. CASE StartReset(r)
  <2>1. [IdleJob EXCEPT !.op = "reset", !.pc = "occupancy",
                        !.missing = SomeOrphan] \in Job
    BY <1>2, <1>a, Zenon DEF Job, StartReset
  <2>2. QED
    BY <1>2, <1>b, <2>1 DEF StartReset
<1>3. CASE StartDemo(r)
  <2>1. [IdleJob EXCEPT !.op = "demo", !.pc = "occupancy",
                        !.script = DemoScript, !.missing = SomeOrphan] \in Job
    BY <1>3, <1>a, ScriptAssumption, Zenon DEF Job, StartDemo
  <2>2. QED
    BY <1>3, <1>b, <2>1 DEF StartDemo
<1>4. ASSUME NEW z \in Zones, NEW fleet \in Fleets, StartContend(r, z, fleet)
      PROVE  TypeOK'
  <2>1. [d \in Drones |-> IF d \in fleet THEN "out" ELSE "none"] \in [Drones -> AskState]
    BY DEF AskState
  <2>2. [IdleJob EXCEPT !.op = "contend", !.pc = "occupancy", !.zone = z,
            !.asks = [d \in Drones |-> IF d \in fleet THEN "out" ELSE "none"],
            !.missing = SomeOrphan] \in Job
    BY <1>4, <1>a, <2>1, Zenon DEF Job, StartContend
  <2>3. QED
    BY <1>4, <1>b, <2>2 DEF StartContend
<1>5. QED
  BY <1>1, <1>2, <1>3, <1>4 DEF Start

\* A request that goes on keeps the types.
LEMMA ProgressType ==
  ASSUME TypeOK, AsksNameARow, NEW r \in Requests, Progress(r)
  PROVE  TypeOK'
<1> USE IdleJobType, OutcomeType
<1>a. LedgerTypeOK /\ job[r] \in Job
  BY DEF TypeOK, LedgerTypeOK
<1>b. ASSUME NEW j \in Job, Becomes(r, j), UNCHANGED <<ledger, sink, lock, orphan>>
      PROVE  TypeOK'
  <2>1. job' \in [Requests -> Job]
    BY <1>b, BecomesType
  <2>2. QED
    BY <1>b, <2>1 DEF TypeOK, ledger, sink
<1>c. ASSUME NEW j \in Job, Becomes(r, j), NEW t \in Txn, Execute(t),
             UNCHANGED <<sink, lock, orphan>>
      PROVE  TypeOK'
  <2>1. job' \in [Requests -> Job]
    BY <1>c, BecomesType
  <2>2. LedgerTypeOK'
    BY <1>a, <1>c, ExecuteType
  <2>3. QED
    BY <1>c, <2>1, <2>2 DEF TypeOK, LedgerTypeOK, sink
<1>1. CASE ReadOccupancy(r)
  <2>1. [job[r] EXCEPT !.pc = "holders", !.left = rows] \in Job
    BY <1>a, Zenon DEF Job, LedgerTypeOK
  <2>2. QED
    BY <1>1, <1>b, <2>1 DEF ReadOccupancy
<1>2. ASSUME NEW z \in Zones, ReadHolders(r, z) PROVE TypeOK'
  <2>1. ReleasesOf(z) \subseteq Txn
    BY DEF ReleasesOf, ReleaseOf, Txn, TypeOK
  <2>2. job[r].todo \cup ReleasesOf(z) \in SUBSET Txn
    BY <1>a, <2>1 DEF Job
  <2>3. [job[r] EXCEPT !.left = @ \ {z}, !.todo = @ \cup ReleasesOf(z)] \in Job
    BY <1>a, <2>2, Zenon DEF Job
  <2>4. QED
    BY <1>2, <1>b, <2>3 DEF ReadHolders
<1>3. CASE ScanDone(r)
  <2>1. [job[r] EXCEPT !.pc = "release"] \in Job
    BY <1>a, Zenon DEF Job
  <2>2. QED
    BY <1>3, <1>b, <2>1 DEF ScanDone
<1>4. ASSUME NEW t \in job[r].todo, ReleaseOne(r, t) PROVE TypeOK'
  <2>1. t \in Txn
    BY <1>4, <1>a DEF Job
  <2>2. [job[r] EXCEPT !.todo = @ \ {t}] \in Job
    BY <1>a, Zenon DEF Job
  <2>3. QED
    BY <1>4, <1>c, <2>1, <2>2 DEF ReleaseOne
<1>5. CASE ResetDone(r)
  <2>1. AfterReset(job[r].op) \in {"before", "step", "report"}
    BY DEF AfterReset
  <2>2. [job[r] EXCEPT !.pc = AfterReset(job[r].op)] \in Job
    BY <1>a, <2>1, Zenon DEF Job
  <2>3. QED
    BY <1>5, <1>b, <2>2 DEF ResetDone
<1>6. CASE Step(r)
  <2>1. /\ Head(job[r].script) \in Txn
        /\ Tail(job[r].script) \in Seq(Txn)
    BY <1>6, <1>a DEF Step, Job
  <2>2. Append(job[r].log, Outcome(Head(job[r].script)))
           \in Seq({"applied", "refused", "error"})
    BY <1>a DEF Job
  <2>3. [job[r] EXCEPT !.script = Tail(@),
                       !.log = Append(@, Outcome(Head(job[r].script)))] \in Job
    BY <1>a, <2>1, <2>2, Zenon DEF Job
  <2>4. QED
    BY <1>6, <1>c, <2>1, <2>3 DEF Step
<1>7. CASE StepsDone(r)
  <2>1. [job[r] EXCEPT !.pc = "report"] \in Job
    BY <1>a, Zenon DEF Job
  <2>2. QED
    BY <1>7, <1>b, <2>1 DEF StepsDone
<1>8. CASE ReadBefore(r)
  <2>1. [job[r] EXCEPT !.pc = "ask"] \in Job
    BY <1>a, Zenon DEF Job
  <2>2. job' \in [Requests -> Job]
    BY <1>8, <2>1, BecomesType DEF ReadBefore
  <2>3. QED
    BY <1>8, <2>2 DEF ReadBefore, TypeOK, ledger, sink
<1>9. ASSUME NEW d \in Drones, Ask(r, d) PROVE TypeOK'
  <2>1. AskTxn(r, d) \in Txn
    BY <1>9 DEF Ask, AskTxn, GrantOf, Txn, AsksNameARow, TypeOK
  <2>2. Outcome(AskTxn(r, d)) \in AskState
    BY DEF AskState
  <2>3. [job[r] EXCEPT !.asks[d] = Outcome(AskTxn(r, d))] \in Job
    BY <1>a, <2>2, Zenon DEF Job
  <2>4. QED
    BY <1>9, <1>c, <2>1, <2>3 DEF Ask
<1>10. CASE AsksDone(r)
  <2>1. [job[r] EXCEPT !.pc = "count"] \in Job
    BY <1>a, Zenon DEF Job
  <2>2. QED
    BY <1>10, <1>b, <2>1 DEF AsksDone
<1>11. CASE ReadAfter(r)
  <2>1. zoneClearance[job[r].zone] \in SUBSET Drones
    BY <1>11, <1>a DEF ReadAfter, AsksNameARow, LedgerTypeOK
  <2>2. [job[r] EXCEPT !.pc = "report", !.winners = zoneClearance[job[r].zone]] \in Job
    BY <1>a, <2>1, Zenon DEF Job
  <2>3. QED
    BY <1>11, <1>b, <2>2 DEF ReadAfter
<1>12. CASE Finish(r)
  <2>1. job' \in [Requests -> Job]
    BY <1>12, BecomesType DEF Finish
  <2>2. QED
    BY <1>12, <2>1 DEF Finish, TypeOK, ledger, sink
<1>13. QED
  BY <1>1, <1>2, <1>3, <1>4, <1>5, <1>6, <1>7, <1>8, <1>9, <1>10, <1>11, <1>12
     DEF Progress

\* A request that meets a fault keeps the types.
LEMMA FaultType ==
  ASSUME TypeOK, AsksNameARow, NEW r \in Requests, Fault(r)
  PROVE  TypeOK'
<1> USE IdleJobType
<1>a. job[r] \in Job
  BY DEF TypeOK
<1>b. ASSUME NEW j \in Job, Becomes(r, j), NEW t \in Txn, NEW o \in Lost, Park(t, o)
      PROVE  TypeOK'
  <2>1. job' \in [Requests -> Job]
    BY <1>b, BecomesType
  <2>2. QED
    BY <1>b, <2>1 DEF Park, TypeOK, ledger, sink
<1>1. CASE Abort(r)
  <2>1. job' \in [Requests -> Job]
    BY <1>1, BecomesType DEF Abort
  <2>2. QED
    BY <1>1, <2>1 DEF Abort, TypeOK, ledger, sink
<1>2. ASSUME NEW o \in Lost, NEW t \in job[r].todo, ReleaseLost(r, t, o)
      PROVE  TypeOK'
  <2>1. t \in Txn
    BY <1>2, <1>a DEF Job
  <2>2. [job[r] EXCEPT !.todo = @ \ {t}, !.dropped = TRUE] \in Job
    BY <1>a, Zenon DEF Job
  <2>3. QED
    BY <1>2, <1>b, <2>1, <2>2 DEF ReleaseLost
<1>3. ASSUME NEW o \in Lost, StepLost(r, o) PROVE TypeOK'
  <2>1. /\ Head(job[r].script) \in Txn
        /\ Tail(job[r].script) \in Seq(Txn)
        /\ Append(job[r].log, "error") \in Seq({"applied", "refused", "error"})
    BY <1>3, <1>a DEF StepLost, Job
  <2>2. [job[r] EXCEPT !.script = Tail(@), !.log = Append(@, "error"),
                       !.dropped = TRUE] \in Job
    BY <1>a, <2>1, Zenon DEF Job
  <2>3. QED
    BY <1>3, <1>b, <2>1, <2>2 DEF StepLost
<1>4. ASSUME NEW o \in Lost, NEW d \in Drones, AskLost(r, d, o) PROVE TypeOK'
  <2>1. AskTxn(r, d) \in Txn
    BY <1>4 DEF AskLost, AskTxn, GrantOf, Txn, AsksNameARow, TypeOK
  <2>2. [job[r] EXCEPT !.asks[d] = "error", !.dropped = TRUE] \in Job
    BY <1>a, Zenon DEF Job, AskState
  <2>3. QED
    BY <1>4, <1>b, <2>1, <2>2 DEF AskLost
<1>5. QED
  BY <1>1, <1>2, <1>3, <1>4 DEF Fault

\* Every step keeps the types.
LEMMA TypeStep == TypeOK /\ AsksNameARow /\ [Next]_vars => TypeOK'
<1> SUFFICES ASSUME TypeOK, AsksNameARow, [Next]_vars PROVE TypeOK'
  OBVIOUS
<1>1. ASSUME NEW r \in Requests, Start(r) \/ Progress(r) \/ Fault(r) PROVE TypeOK'
  BY <1>1, StartType, ProgressType, FaultType
<1>2. ASSUME NEW o \in Lost, Land(o) PROVE TypeOK'
  <2>1. orphan[o] \in Txn /\ LedgerTypeOK
    BY <1>2 DEF Land, TypeOK, LedgerTypeOK
  <2>2. LedgerTypeOK'
    BY <1>2, <2>1, ExecuteType DEF Land
  <2>3. QED
    BY <1>2, <2>2 DEF Land, TypeOK, LedgerTypeOK, sink
<1>3. ASSUME NEW o \in Lost, Vanish(o) PROVE TypeOK'
  BY <1>3 DEF Vanish, TypeOK, ledger, sink
<1>4. CASE Sink
  BY <1>4, CapacityAssumption DEF Sink, SeedRead, SeedInsert, SeedFail, SeedLost,
     SeedLands, SinkRestart, TypeOK, ledger
<1>5. CASE UNCHANGED vars
  BY <1>5 DEF vars, TypeOK
<1>6. QED
  BY <1>1, <1>2, <1>3, <1>4, <1>5 DEF Next

-----------------------------------------------------------------------------
(* The ledger *)

\* The part of the invariant that speaks of the tables alone.
Balanced ==
    /\ LedgerTypeOK
    /\ SlotsAddUp
    /\ MirrorsAgree
    /\ \A z \in Zones \ rows : zoneClearance[z] = {}
    /\ \A z \in rows : remaining[z] >= 0

\* A zone's holders are finitely many, so they can be counted.
LEMMA HoldersFinite ==
  ASSUME LedgerTypeOK, NEW z \in Zones
  PROVE  /\ IsFiniteSet(zoneClearance[z])
         /\ Cardinality(zoneClearance[z]) \in Nat
<1>1. zoneClearance[z] \in SUBSET Drones
  BY DEF LedgerTypeOK
<1>2. IsFiniteSet(zoneClearance[z])
  BY <1>1, DronesAssumption, FS_Subset
<1>3. QED
  BY <1>2, FS_CardinalityType

\* A grant that fires takes one slot and adds one holder, on both sides.
LEMMA GrantBalanced ==
  ASSUME Balanced, NEW z \in Zones, NEW d \in Drones, Grant(z, d)
  PROVE  Balanced'
<1> USE DEF Balanced
<1>1. LedgerTypeOK'
  BY DEF LedgerTypeOK, Grant, GrantGuard
<1>2. d \notin zoneClearance[z]
  BY NoZoneAssumption DEF Grant, GrantGuard, MirrorsAgree
<1>3. Cardinality(zoneClearance[z] \cup {d}) = Cardinality(zoneClearance[z]) + 1
  BY <1>2, HoldersFinite, FS_AddElement
<1>4. SlotsAddUp'
  <2>1. zoneClearance'[z] = zoneClearance[z] \cup {d} /\ remaining'[z] = remaining[z] - 1
    BY DEF Grant, LedgerTypeOK
  <2>2. \A y \in Zones \ {z} : zoneClearance'[y] = zoneClearance[y] /\ remaining'[y] = remaining[y]
    BY DEF Grant, LedgerTypeOK
  <2>3. z \in rows /\ rows' = rows /\ rows \subseteq Zones
    BY DEF Grant, GrantGuard, LedgerTypeOK
  <2>4. Capacity[z] = remaining'[z] + Cardinality(zoneClearance'[z])
    <3>1. remaining[z] \in Int /\ Cardinality(zoneClearance[z]) \in Nat
      BY HoldersFinite DEF LedgerTypeOK
    <3>2. QED
      BY <2>1, <2>3, <1>3, <3>1 DEF SlotsAddUp
  <2>5. QED
    BY <2>2, <2>3, <2>4 DEF SlotsAddUp
<1>5. MirrorsAgree'
  BY NoZoneAssumption DEF Grant, GrantGuard, MirrorsAgree, LedgerTypeOK
<1>6. \A y \in Zones \ rows' : zoneClearance'[y] = {}
  BY DEF Grant, GrantGuard, LedgerTypeOK
<1>7. \A y \in rows' : remaining'[y] >= 0
  BY DEF Grant, GrantGuard, LedgerTypeOK
<1>8. QED
  BY <1>1, <1>4, <1>5, <1>6, <1>7

\* A release that fires gives back the slot its drone held, on both sides.
LEMMA ReleaseBalanced ==
  ASSUME Balanced, NEW z \in Zones, NEW d \in Drones, Release(z, d)
  PROVE  Balanced'
<1> USE DEF Balanced
<1>1. LedgerTypeOK'
  BY DEF LedgerTypeOK, Release, ReleaseGuard
<1>2. d \in zoneClearance[z] /\ z \in rows
  BY DEF Release, ReleaseGuard, MirrorsAgree
<1>3. Cardinality(zoneClearance[z] \ {d}) = Cardinality(zoneClearance[z]) - 1
  BY <1>2, HoldersFinite, FS_RemoveElement
<1>4. SlotsAddUp'
  <2>1. zoneClearance'[z] = zoneClearance[z] \ {d} /\ remaining'[z] = remaining[z] + 1
    BY DEF Release, LedgerTypeOK
  <2>2. \A y \in Zones \ {z} : zoneClearance'[y] = zoneClearance[y] /\ remaining'[y] = remaining[y]
    BY DEF Release, LedgerTypeOK
  <2>3. rows' = rows /\ rows \subseteq Zones
    BY DEF Release, LedgerTypeOK
  <2>4. Capacity[z] = remaining'[z] + Cardinality(zoneClearance'[z])
    <3>1. remaining[z] \in Int /\ Cardinality(zoneClearance[z]) \in Nat
      BY HoldersFinite DEF LedgerTypeOK
    <3>2. QED
      BY <1>2, <1>3, <2>1, <3>1 DEF SlotsAddUp
  <2>5. QED
    BY <2>2, <2>3, <2>4 DEF SlotsAddUp
<1>5. MirrorsAgree'
  BY NoZoneAssumption DEF Release, ReleaseGuard, MirrorsAgree, LedgerTypeOK
<1>6. \A y \in Zones \ rows' : zoneClearance'[y] = {}
  BY DEF Release, LedgerTypeOK
<1>7. \A y \in rows' : remaining'[y] >= 0
  BY DEF Release, LedgerTypeOK
<1>8. QED
  BY <1>1, <1>4, <1>5, <1>6, <1>7

\* A transaction keeps the tables balanced and deletes no row.
LEMMA ExecuteBalanced ==
  ASSUME Balanced, NEW t \in Txn, Execute(t)
  PROVE  Balanced' /\ rows' = rows
<1>1. t.zone \in Zones /\ t.drone \in Drones
  BY DEF Txn
<1>2. CASE Grant(t.zone, t.drone)
  BY <1>1, <1>2, GrantBalanced DEF Grant
<1>3. CASE Release(t.zone, t.drone)
  BY <1>1, <1>3, ReleaseBalanced DEF Release
<1>4. CASE UNCHANGED ledger
  BY <1>4 DEF ledger, Balanced, LedgerTypeOK, SlotsAddUp, MirrorsAgree
<1>5. QED
  BY <1>2, <1>3, <1>4 DEF Execute

\* A step that leaves the tables alone keeps the balance.
LEMMA UnchangedBalanced ==
  ASSUME Balanced, UNCHANGED ledger
  PROVE  Balanced' /\ rows' = rows
  BY DEF ledger, Balanced, LedgerTypeOK, SlotsAddUp, MirrorsAgree

\* The sink's INSERT hits a zone without a row, hence without holders.
LEMMA SeedBalanced ==
  ASSUME Balanced, seeding \notin rows, seeding \in Zones \cup {NoZone}, SeedInsert
  PROVE  Balanced'
<1> USE DEF Balanced
<1>1. seeding \in Zones \ rows
  BY DEF SeedInsert
<1>2. zoneClearance[seeding] = {} /\ Cardinality(zoneClearance[seeding]) = 0
  BY <1>1, FS_EmptySet
<1>3. Capacity[seeding] \in Int /\ Capacity[seeding] >= 0
  BY <1>1, CapacityAssumption
<1>4. /\ remaining'[seeding] = Capacity[seeding]
      /\ \A z \in Zones \ {seeding} : remaining'[z] = remaining[z]
      /\ remaining' \in [Zones -> Int]
  BY <1>1, <1>3 DEF LedgerTypeOK, SeedInsert
<1>5. /\ rows' = rows \cup {seeding}
      /\ zoneClearance' = zoneClearance
      /\ droneClearance' = droneClearance
  BY DEF SeedInsert
<1>6. LedgerTypeOK'
  BY <1>1, <1>4, <1>5 DEF LedgerTypeOK
<1>7. SlotsAddUp'
  <2>1. ASSUME NEW z \in rows'
        PROVE  Capacity[z] = remaining'[z] + Cardinality(zoneClearance'[z])
    <3>1. CASE z = seeding
      BY <3>1, <1>2, <1>3, <1>4, <1>5
    <3>2. CASE z # seeding
      BY <3>2, <1>4, <1>5 DEF LedgerTypeOK, SlotsAddUp
    <3>3. QED
      BY <3>1, <3>2
  <2>2. QED
    BY <2>1 DEF SlotsAddUp
<1>8. MirrorsAgree'
  BY <1>5 DEF MirrorsAgree
<1>9. \A z \in Zones \ rows' : zoneClearance'[z] = {}
  BY <1>5
<1>10. \A z \in rows' : remaining'[z] >= 0
  BY <1>3, <1>4, <1>5 DEF LedgerTypeOK
<1>11. QED
  BY <1>6, <1>7, <1>8, <1>9, <1>10

-----------------------------------------------------------------------------
(* The theorems *)

\* The invariant holds initially.
LEMMA InitInv == Init => LedgerInv
<1> SUFFICES ASSUME Init PROVE LedgerInv
  OBVIOUS
<1>1. TypeOK
  BY TypeInit
<1>2. AsksNameARow
  BY DEF Init, IdleJob, AsksNameARow
<1>3. SlotsAddUp /\ SeedingIsFresh
  BY DEF Init, SlotsAddUp, SeedingIsFresh
<1>4. MirrorsAgree
  BY NoZoneAssumption DEF Init, MirrorsAgree
<1>5. QED
  BY <1>1, <1>2, <1>3, <1>4 DEF LedgerInv

\* Whatever a step is, to the tables it is one transaction, an INSERT of the sink
\* in time or late, or nothing.
LEMMA StepExecutes ==
  ASSUME TypeOK, AsksNameARow, [Next]_vars
  PROVE  UNCHANGED ledger \/ SeedInsert \/ SeedLands \/ \E t \in Txn : Execute(t)
<1>b. ASSUME NEW r \in Requests PROVE job[r] \in Job
  BY <1>b DEF TypeOK
<1>1. ASSUME NEW r \in Requests, Start(r)
      PROVE  UNCHANGED ledger
  BY <1>1 DEF Start, StartOne, StartReset, StartDemo, StartContend, Acquire
<1>2. ASSUME NEW r \in Requests, Progress(r)
      PROVE  UNCHANGED ledger \/ \E t \in Txn : Execute(t)
  <2>1. ASSUME NEW t \in job[r].todo, ReleaseOne(r, t) PROVE \E u \in Txn : Execute(u)
    BY <2>1, <1>b DEF ReleaseOne, Job
  <2>2. CASE Step(r)
    <3>1. Head(job[r].script) \in Txn
      BY <2>2, <1>b DEF Step, Job
    <3>2. QED
      BY <2>2, <3>1 DEF Step
  <2>3. ASSUME NEW d \in Drones, Ask(r, d) PROVE \E u \in Txn : Execute(u)
    <3>1. AskTxn(r, d) \in Txn
      BY <2>3 DEF Ask, AskTxn, GrantOf, Txn, AsksNameARow, TypeOK
    <3>2. QED
      BY <2>3, <3>1 DEF Ask
  <2>4. QED
    BY <1>2, <2>1, <2>2, <2>3 DEF Progress, ReadOccupancy, ReadHolders, ScanDone,
       ResetDone, StepsDone, ReadBefore, AsksDone, ReadAfter, Finish
<1>3. ASSUME NEW r \in Requests, Fault(r)
      PROVE  UNCHANGED ledger
  BY <1>3 DEF Fault, Abort, ReleaseLost, StepLost, AskLost, Park
<1>4. ASSUME NEW o \in Lost, Land(o) \/ Vanish(o)
      PROVE  UNCHANGED ledger \/ \E t \in Txn : Execute(t)
  <2>1. orphan[o] \in Txn
    BY <1>4 DEF TypeOK, Land, Vanish
  <2>2. QED
    BY <1>4, <2>1 DEF Land, Vanish
<1>5. CASE Sink
  BY <1>5 DEF Sink, SeedRead, SeedFail, SeedLost, SinkRestart
<1>6. CASE UNCHANGED vars
  BY <1>6 DEF vars, ledger
<1>7. QED
  BY <1>1, <1>2, <1>3, <1>4, <1>5, <1>6 DEF Next

\* A step keeps both sides of every clearance together and deletes no row,
\* whatever the sink's INSERTs do to the counts.
LEMMA MirrorsStep ==
  ASSUME TypeOK, AsksNameARow, MirrorsAgree, [Next]_vars
  PROVE  MirrorsAgree' /\ rows \subseteq rows'
<1>a. LedgerTypeOK
  BY DEF TypeOK, LedgerTypeOK
<1>1. CASE UNCHANGED ledger
  BY <1>1 DEF ledger, MirrorsAgree
<1>2. CASE SeedInsert \/ SeedLands
  BY <1>2 DEF SeedInsert, SeedLands, MirrorsAgree
<1>3. ASSUME NEW t \in Txn, Execute(t)
      PROVE  MirrorsAgree' /\ rows \subseteq rows'
  <2>1. t.zone \in Zones /\ t.drone \in Drones
    BY DEF Txn
  <2>2. CASE Grant(t.zone, t.drone)
    BY <1>a, <2>1, <2>2, NoZoneAssumption DEF Grant, GrantGuard, MirrorsAgree, LedgerTypeOK
  <2>3. CASE Release(t.zone, t.drone)
    BY <1>a, <2>1, <2>3, NoZoneAssumption
       DEF Release, ReleaseGuard, MirrorsAgree, LedgerTypeOK
  <2>4. CASE UNCHANGED ledger
    BY <2>4 DEF ledger, MirrorsAgree
  <2>5. QED
    BY <1>3, <2>2, <2>3, <2>4 DEF Execute
<1>4. QED
  BY <1>1, <1>2, <1>3, StepExecutes

\* No step unbalances the tables, and only the sink's INSERT adds a row.
LEMMA TablesStep ==
  ASSUME LedgerInv, [Next]_vars
  PROVE  Balanced' /\ rows \subseteq rows' /\ (rows' = rows \/ SeedInsert)
<1>a. Balanced /\ seeding \notin rows /\ seeding \in Zones \cup {NoZone}
  BY DEF LedgerInv, Balanced, LedgerTypeOK, TypeOK, SeedingIsFresh
<1>1. CASE UNCHANGED ledger \/ \E t \in Txn : Execute(t)
  BY <1>1, <1>a, UnchangedBalanced, ExecuteBalanced
<1>2. CASE SeedInsert
  BY <1>2, <1>a, SeedBalanced DEF SeedInsert
<1>3. CASE SeedLands
  BY <1>3 DEF SeedLands, LedgerInv, SeedingIsFresh
<1>4. QED
  BY <1>1, <1>2, <1>3, StepExecutes DEF LedgerInv

\* A request's new local state names a row if it asks; the others are as before.
LEMMA BecomesNamesARow ==
  ASSUME TypeOK, AsksNameARow, rows \subseteq rows',
         NEW r \in Requests, NEW j, Becomes(r, j),
         j.pc \in {"ask", "count"} => j.zone \in rows
  PROVE  AsksNameARow'
<1>1. \A q \in Requests : job'[q] = IF q = r THEN j ELSE job[q]
  BY DEF TypeOK, Becomes
<1>2. QED
  BY <1>1 DEF AsksNameARow

\* Asks name a zone whose row was read, and rows are never deleted.
LEMMA AsksStep ==
  ASSUME TypeOK, AsksNameARow, MirrorsAgree, [Next]_vars
  PROVE  AsksNameARow'
<1>a. TypeOK /\ AsksNameARow /\ rows \subseteq rows'
  BY MirrorsStep
<1>b. IdleJob.pc = "idle"
  BY DEF IdleJob
<1>1. ASSUME NEW r \in Requests, Start(r) PROVE AsksNameARow'
  <2>1. ASSUME NEW j, Becomes(r, j), j.pc \notin {"ask", "count"} PROVE AsksNameARow'
    BY <2>1, <1>a, BecomesNamesARow
  <2>2. ASSUME NEW kind \in {"grant", "release"}, NEW z \in Zones, NEW d \in Drones,
               StartOne(r, kind, z, d)
        PROVE  AsksNameARow'
    BY <2>2, <2>1, IdleJobType, Zenon DEF StartOne, Job
  <2>3. CASE StartReset(r)
    BY <2>3, <2>1, IdleJobType, Zenon DEF StartReset, Job
  <2>4. CASE StartDemo(r)
    BY <2>4, <2>1, IdleJobType, Zenon DEF StartDemo, Job
  <2>5. ASSUME NEW z \in Zones, NEW fleet \in Fleets, StartContend(r, z, fleet)
        PROVE  AsksNameARow'
    BY <2>5, <2>1, IdleJobType, Zenon DEF StartContend, Job
  <2>6. QED
    BY <1>1, <2>2, <2>3, <2>4, <2>5 DEF Start
<1>2. ASSUME NEW r \in Requests, Progress(r) PROVE AsksNameARow'
  <2>a. job[r] \in Job
    BY <1>a DEF TypeOK
  <2>1. ASSUME NEW j, Becomes(r, j), j.pc \notin {"ask", "count"} PROVE AsksNameARow'
    BY <2>1, <1>a, BecomesNamesARow
  <2>2. ASSUME NEW j, Becomes(r, j), j.pc = job[r].pc, j.zone = job[r].zone
        PROVE  AsksNameARow'
    BY <2>2, <1>a, BecomesNamesARow DEF AsksNameARow
  <2>3. CASE ReadOccupancy(r)
    BY <2>3, <2>1, <2>a, Zenon DEF ReadOccupancy, Job
  <2>4. ASSUME NEW z \in Zones, ReadHolders(r, z) PROVE AsksNameARow'
    BY <2>4, <2>2, <2>a, Zenon DEF ReadHolders, Job
  <2>5. CASE ScanDone(r)
    BY <2>5, <2>1, <2>a, Zenon DEF ScanDone, Job
  <2>6. ASSUME NEW t \in job[r].todo, ReleaseOne(r, t) PROVE AsksNameARow'
    BY <2>6, <2>2, <2>a, Zenon DEF ReleaseOne, Job
  <2>7. CASE ResetDone(r)
    <3>1. AfterReset(job[r].op) \notin {"ask", "count"}
      BY DEF AfterReset
    <3>2. [job[r] EXCEPT !.pc = AfterReset(job[r].op)].pc = AfterReset(job[r].op)
      BY <2>a, Zenon DEF Job
    <3>3. QED
      BY <2>7, <2>1, <3>1, <3>2, Zenon DEF ResetDone
  <2>8. CASE Step(r)
    BY <2>8, <2>2, <2>a, Zenon DEF Step, Job
  <2>9. CASE StepsDone(r)
    BY <2>9, <2>1, <2>a, Zenon DEF StepsDone, Job
  <2>10. CASE ReadBefore(r)
    <3>1. [job[r] EXCEPT !.pc = "ask"].zone = job[r].zone
      BY <2>a, Zenon DEF Job
    <3>2. QED
      BY <2>10, <3>1, <1>a, <1>b, <2>1, BecomesNamesARow DEF ReadBefore
  <2>11. ASSUME NEW d \in Drones, Ask(r, d) PROVE AsksNameARow'
    BY <2>11, <2>2, <2>a, Zenon DEF Ask, Job
  <2>12. CASE AsksDone(r)
    <3>1. [job[r] EXCEPT !.pc = "count"].zone = job[r].zone
      BY <2>a, Zenon DEF Job
    <3>2. job[r].zone \in rows
      BY <2>12, <1>a DEF AsksDone, AsksNameARow
    <3>3. QED
      BY <2>12, <3>1, <3>2, <1>a, BecomesNamesARow DEF AsksDone
  <2>13. CASE ReadAfter(r)
    BY <2>13, <2>1, <2>a, Zenon DEF ReadAfter, Job
  <2>14. CASE Finish(r)
    BY <2>14, <2>1, <1>b, Zenon DEF Finish
  <2>15. QED
    BY <1>2, <2>3, <2>4, <2>5, <2>6, <2>7, <2>8, <2>9, <2>10, <2>11, <2>12, <2>13,
       <2>14 DEF Progress
<1>3. ASSUME NEW r \in Requests, Fault(r) PROVE AsksNameARow'
  <2>a. job[r] \in Job
    BY <1>a DEF TypeOK
  <2>1. ASSUME NEW j, Becomes(r, j), j.pc = job[r].pc, j.zone = job[r].zone
        PROVE  AsksNameARow'
    BY <2>1, <1>a, BecomesNamesARow DEF AsksNameARow
  <2>2. CASE Abort(r)
    BY <2>2, <1>a, <1>b, BecomesNamesARow DEF Abort
  <2>3. ASSUME NEW o \in Lost, NEW t \in job[r].todo, ReleaseLost(r, t, o)
        PROVE  AsksNameARow'
    BY <2>3, <2>1, <2>a, Zenon DEF ReleaseLost, Job
  <2>4. ASSUME NEW o \in Lost, StepLost(r, o) PROVE AsksNameARow'
    BY <2>4, <2>1, <2>a, Zenon DEF StepLost, Job
  <2>5. ASSUME NEW o \in Lost, NEW d \in Drones, AskLost(r, d, o) PROVE AsksNameARow'
    BY <2>5, <2>1, <2>a, Zenon DEF AskLost, Job
  <2>6. QED
    BY <1>3, <2>2, <2>3, <2>4, <2>5 DEF Fault
<1>4. CASE UNCHANGED job
  BY <1>4, <1>a DEF AsksNameARow
<1>5. QED
  BY <1>1, <1>2, <1>3, <1>4 DEF Next, Land, Vanish, Sink, SeedRead, SeedInsert,
     SeedFail, SeedLost, SeedLands, SinkRestart, vars

\* The zone the sink is about to insert still has no row: its own INSERT is
\* the only step that adds one, as long as none lands late.
LEMMA SeedingStep ==
  ASSUME ~LateSeeds, LedgerInv, [Next]_vars
  PROVE  seeding' \notin rows' /\ lateSeed' = NoZone
<1>a. TypeOK /\ seeding \notin rows /\ NoZone \notin rows /\ lateSeed = NoZone
  BY NoZoneAssumption DEF LedgerInv, SeedingIsFresh, TypeOK
<1>1. CASE Sink
  BY <1>1, <1>a, NoZoneAssumption
     DEF Sink, SeedRead, SeedInsert, SeedFail, SeedLost, SeedLands, SinkRestart,
     ledger, TypeOK
<1>2. CASE ~Sink
  <2>1. UNCHANGED <<seeding, lateSeed>>
    <3>1. ASSUME NEW r \in Requests, Start(r) PROVE UNCHANGED <<seeding, lateSeed>>
      BY <3>1 DEF Start, StartOne, StartReset, StartDemo, StartContend, Acquire, sink
    <3>2. ASSUME NEW r \in Requests, Progress(r) PROVE UNCHANGED <<seeding, lateSeed>>
      BY <3>2 DEF Progress, ReadOccupancy, ReadHolders, ScanDone, ReleaseOne, ResetDone,
         Step, StepsDone, ReadBefore, Ask, AsksDone, ReadAfter, Finish, sink
    <3>3. ASSUME NEW r \in Requests, Fault(r) PROVE UNCHANGED <<seeding, lateSeed>>
      BY <3>3 DEF Fault, Abort, ReleaseLost, StepLost, AskLost, Park, sink
    <3>4. QED
      BY <1>2, <3>1, <3>2, <3>3 DEF Next, Land, Vanish, sink, vars
  <2>2. rows' = rows
    BY <2>1, TablesStep DEF SeedInsert
  <2>3. QED
    BY <1>a, <2>1, <2>2
<1>3. QED
  BY <1>1, <1>2

\* Every step keeps the invariant.
LEMMA InvStep ==
  ASSUME ~LateSeeds
  PROVE  LedgerInv /\ [Next]_vars => LedgerInv'
<1> SUFFICES ASSUME LedgerInv, [Next]_vars PROVE LedgerInv'
  OBVIOUS
<1>1. TypeOK'
  BY TypeStep DEF LedgerInv
<1>2. Balanced' /\ AsksNameARow' /\ seeding' \notin rows' /\ lateSeed' = NoZone
  BY TablesStep, AsksStep, SeedingStep DEF LedgerInv
<1>3. QED
  BY <1>1, <1>2 DEF LedgerInv, Balanced, SeedingIsFresh

\* What holds of the requests and of both sides of a clearance even when the
\* sink's INSERTs land late and break the counts.
MirrorInv == TypeOK /\ AsksNameARow /\ MirrorsAgree

\* It is inductive by itself.
LEMMA MirrorInvHolds == Spec => []MirrorInv
<1>1. Init => MirrorInv
  BY InitInv DEF LedgerInv, MirrorInv
<1>2. MirrorInv /\ [Next]_vars => MirrorInv'
  BY TypeStep, AsksStep, MirrorsStep DEF MirrorInv
<1>3. QED
  BY <1>1, <1>2, PTL DEF Spec

\* Every variable keeps its type in every reachable state.
THEOREM TypeCorrect == Spec => []TypeOK
<1>1. MirrorInv => TypeOK
  BY DEF MirrorInv
<1>2. QED
  BY <1>1, MirrorInvHolds, PTL

\* In every reachable state the free slots and the holders of every seeded
\* zone add up to its capacity, for any number of requests, lost answers, late
\* transactions and sink restarts, as long as no seed INSERT lands late.
THEOREM LedgerAddsUp ==
  ASSUME ~LateSeeds
  PROVE  Spec => []SlotsAddUp
<1>1. LedgerInv => SlotsAddUp
  BY DEF LedgerInv
<1>2. QED
  BY <1>1, InitInv, InvStep, PTL DEF Spec

\* In every reachable state zone_clearance and drone_clearance agree, in both
\* directions; so a drone is never cleared into two zones.  A seed INSERT that
\* lands late breaks the counts, and not this.
THEOREM BothSidesAgree == Spec => []MirrorsAgree
<1>1. MirrorInv => MirrorsAgree
  BY DEF MirrorInv
<1>2. QED
  BY <1>1, MirrorInvHolds, PTL

\* No zone ever holds more drones than its capacity.
THEOREM CapacityRespected ==
  ASSUME ~LateSeeds
  PROVE  Spec => []NeverOverAdmitted
<1>1. LedgerInv => NeverOverAdmitted
  <2> SUFFICES ASSUME LedgerInv, NEW z \in Zones, zoneClearance[z] # {}
               PROVE  z \in rows /\ Cardinality(zoneClearance[z]) <= Capacity[z]
    BY DEF NeverOverAdmitted
  <2>1. z \in rows
    BY DEF LedgerInv, SeedingIsFresh
  <2>2. LedgerTypeOK
    BY DEF LedgerInv, TypeOK, LedgerTypeOK
  <2>3. /\ Capacity[z] = remaining[z] + Cardinality(zoneClearance[z])
        /\ remaining[z] >= 0 /\ remaining[z] \in Int
    BY <2>1, <2>2 DEF LedgerInv, SeedingIsFresh, SlotsAddUp, LedgerTypeOK
  <2>4. Cardinality(zoneClearance[z]) \in Nat
    BY <2>2, HoldersFinite
  <2>5. QED
    BY <2>1, <2>3, <2>4
<1>2. QED
  BY <1>1, InitInv, InvStep, PTL DEF Spec

\* All that the ledger promises at once: what the run of two requests checks.
THEOREM LedgerIsSound ==
  ASSUME ~LateSeeds
  PROVE  Spec => []LedgerSound
<1>1. TypeOK /\ SlotsAddUp /\ NeverOverAdmitted /\ MirrorsAgree => LedgerSound
  BY DEF LedgerSound
<1>2. QED
  BY <1>1, TypeCorrect, LedgerAddsUp, CapacityRespected, BothSidesAgree, PTL

-----------------------------------------------------------------------------
(* The ledger implements AdmissionControl *)

\* AdmissionControl counts with the same Cardinality.
LEMMA SameCardinality == \A S : Admission!Cardinality(S) = Cardinality(S)
  BY Zenon DEF Cardinality, Admission!Cardinality, IsFiniteSet, Admission!IsFiniteSet

\* A transaction is an admission, a departure, or invisible.
LEMMA ExecuteAdmits ==
  ASSUME Balanced, NEW t \in Txn, Execute(t)
  PROVE  [Admission!Next]_zoneClearance
<1>1. t.zone \in Zones /\ t.drone \in Drones
  BY DEF Txn
<1>2. CASE Grant(t.zone, t.drone)
  <2>1. \A y \in Zones : t.drone \notin zoneClearance[y]
    BY <1>1, <1>2, NoZoneAssumption DEF Grant, GrantGuard, Balanced, MirrorsAgree
  <2>2. Cardinality(zoneClearance[t.zone]) < Capacity[t.zone]
    <3>1. Cardinality(zoneClearance[t.zone]) \in Nat
      BY <1>1, HoldersFinite DEF Balanced
    <3>2. /\ remaining[t.zone] \in Int /\ remaining[t.zone] > 0
          /\ Capacity[t.zone] = remaining[t.zone] + Cardinality(zoneClearance[t.zone])
      BY <1>1, <1>2 DEF Grant, GrantGuard, Balanced, LedgerTypeOK, SlotsAddUp
    <3>3. QED
      BY <3>1, <3>2
  <2>3. Admission!Enter(t.zone, t.drone)
    BY <1>2, <2>1, <2>2, SameCardinality DEF Admission!Enter, Grant
  <2>4. QED
    BY <1>1, <2>3 DEF Admission!Next
<1>3. CASE Release(t.zone, t.drone)
  <2>1. t.drone \in zoneClearance[t.zone]
    BY <1>1, <1>3 DEF Release, ReleaseGuard, Balanced, MirrorsAgree
  <2>2. Admission!Leave(t.zone, t.drone)
    BY <1>3, <2>1 DEF Admission!Leave, Release
  <2>3. QED
    BY <1>1, <2>2 DEF Admission!Next
<1>4. CASE UNCHANGED ledger
  BY <1>4 DEF ledger
<1>5. QED
  BY <1>2, <1>3, <1>4 DEF Execute

\* Every step of the ledger is a step of AdmissionControl or a stutter.
LEMMA StepAdmits ==
  ASSUME LedgerInv, [Next]_vars
  PROVE  [Admission!Next]_zoneClearance
<1>a. Balanced
  BY DEF LedgerInv, Balanced, LedgerTypeOK, TypeOK, SeedingIsFresh
<1>1. CASE UNCHANGED zoneClearance
  BY <1>1
<1>2. CASE \E t \in Txn : Execute(t)
  BY <1>2, <1>a, ExecuteAdmits
<1>3. QED
  BY <1>1, <1>2, StepExecutes DEF LedgerInv, ledger, SeedInsert, SeedLands

\* The three tables, their transactions, faults and late arrivals implement
\* plain admission control.
THEOREM ImplementsAdmissionControl ==
  ASSUME ~LateSeeds
  PROVE  Spec => AdmissionControlled
<1>1. Init => Admission!Init
  BY DEF Init, Admission!Init
<1>2. LedgerInv /\ [Next]_vars => [Admission!Next]_zoneClearance
  BY StepAdmits
<1>3. QED
  BY <1>1, <1>2, InitInv, InvStep, PTL DEF Spec, AdmissionControlled, Admission!Spec

-----------------------------------------------------------------------------
(* What the requests are told *)

\* Request q's share of AnswersAreTrue.
ToldTheTruth(q) ==
    /\ Len(job'[q].log) = Len(job[q].log) + 1 =>
          (job'[q].log[Len(job'[q].log)] = "applied" <=> ledger' # ledger)
    /\ \A d \in Drones :
          job[q].asks[d] = "out" /\ job'[q].asks[d] \in {"applied", "refused"} =>
             (job'[q].asks[d] = "applied" <=> ledger' # ledger)

\* The reasons computed from the projection and the IF of the transaction come
\* to the same: "applied" is said when, and only when, the tables moved.
LEMMA OutcomeIsTrue ==
  ASSUME LedgerTypeOK, NEW t \in Txn, Execute(t)
  PROVE  Outcome(t) = "applied" <=> ledger' # ledger
<1>a. /\ t.zone \in Zones /\ t.drone \in Drones /\ t.kind \in {"grant", "release"}
      /\ t.zone # NoZone
  BY NoZoneAssumption DEF Txn
<1>1. CASE t.kind = "grant" /\ Grant(t.zone, t.drone)
  <2>1. Outcome(t) = "applied"
    BY <1>a, <1>1 DEF Outcome, GrantReason, Grant, GrantGuard, LedgerTypeOK
  <2>2. droneClearance'[t.drone] # droneClearance[t.drone]
    BY <1>a, <1>1 DEF Grant, GrantGuard, LedgerTypeOK
  <2>3. QED
    BY <2>1, <2>2 DEF ledger
<1>2. CASE t.kind = "release" /\ Release(t.zone, t.drone)
  <2>1. Outcome(t) = "applied"
    BY <1>a, <1>2 DEF Outcome, ReleaseReason, Release, ReleaseGuard, LedgerTypeOK
  <2>2. droneClearance'[t.drone] # droneClearance[t.drone]
    BY <1>a, <1>2 DEF Release, ReleaseGuard, LedgerTypeOK
  <2>3. QED
    BY <2>1, <2>2 DEF ledger
<1>3. CASE /\ t.kind = "grant" => ~GrantGuard(t.zone, t.drone)
           /\ t.kind = "release" => ~ReleaseGuard(t.zone, t.drone)
           /\ UNCHANGED ledger
  <2>1. CASE t.kind = "grant"
    BY <1>a, <1>3, <2>1 DEF Outcome, GrantReason, GrantGuard, LedgerTypeOK
  <2>2. CASE t.kind = "release"
    BY <1>a, <1>3, <2>2 DEF Outcome, ReleaseReason, ReleaseGuard, LedgerTypeOK
  <2>3. QED
    BY <1>a, <2>1, <2>2
<1>4. QED
  BY <1>1, <1>2, <1>3 DEF Execute

\* A request that hears nothing in a step is told no untruth.
LEMMA NothingTold ==
  ASSUME NEW q, job[q] \in Job, job'[q] \in Job,
         \/ job'[q].log = job[q].log /\ job'[q].asks = job[q].asks
         \/ /\ job'[q].log = <<>>
            /\ \A d \in Drones : job'[q].asks[d] \in {"none", "out"}
  PROVE  ToldTheTruth(q)
<1>1. Len(job[q].log) \in Nat
  BY DEF Job
<1>2. CASE job'[q].log = job[q].log /\ job'[q].asks = job[q].asks
  BY <1>1, <1>2 DEF ToldTheTruth
<1>3. CASE /\ job'[q].log = <<>>
           /\ \A d \in Drones : job'[q].asks[d] \in {"none", "out"}
  BY <1>1, <1>3 DEF ToldTheTruth
<1>4. QED
  BY <1>2, <1>3

\* The others hear nothing when one request becomes something else.
LEMMA OthersHearNothing ==
  ASSUME TypeOK, TypeOK', NEW r \in Requests, NEW j, Becomes(r, j),
         NEW q \in Requests, q # r
  PROVE  ToldTheTruth(q)
<1>1. job'[q] = job[q] /\ job[q] \in Job
  BY DEF TypeOK, Becomes
<1>2. QED
  BY <1>1, NothingTold

\* What the request itself becomes.
LEMMA BecomesIt ==
  ASSUME TypeOK, NEW r \in Requests, NEW j, Becomes(r, j)
  PROVE  job'[r] = j /\ \A q \in Requests \ {r} : job'[q] = job[q]
  BY DEF TypeOK, Becomes

\* A request that starts has heard nothing yet.
LEMMA StartTells ==
  ASSUME TypeOK, TypeOK', NEW r \in Requests, Start(r)
  PROVE  \A q \in Requests : ToldTheTruth(q)
<1>a. job[r] \in Job /\ job'[r] \in Job
  BY DEF TypeOK
<1>b. ASSUME NEW j, Becomes(r, j), j.log = <<>>,
             \A d \in Drones : j.asks[d] \in {"none", "out"}
      PROVE  \A q \in Requests : ToldTheTruth(q)
  <2>1. ToldTheTruth(r)
    BY <1>a, <1>b, BecomesIt, NothingTold
  <2>2. QED
    BY <1>b, <2>1, OthersHearNothing
<1>c. /\ IdleJob.log = <<>>
      /\ \A d \in Drones : IdleJob.asks[d] = "none"
  BY DEF IdleJob
<1>d. ASSUME NEW j, Becomes(r, j), j.log = IdleJob.log, j.asks = IdleJob.asks
      PROVE  \A q \in Requests : ToldTheTruth(q)
  BY <1>b, <1>c, <1>d
<1>1. ASSUME NEW kind \in {"grant", "release"}, NEW z \in Zones, NEW d \in Drones,
             StartOne(r, kind, z, d)
      PROVE  \A q \in Requests : ToldTheTruth(q)
  BY <1>1, <1>d, IdleJobType, Zenon DEF StartOne, Job
<1>2. CASE StartReset(r)
  BY <1>2, <1>d, IdleJobType, Zenon DEF StartReset, Job
<1>3. CASE StartDemo(r)
  BY <1>3, <1>d, IdleJobType, Zenon DEF StartDemo, Job
<1>4. ASSUME NEW z \in Zones, NEW fleet \in Fleets, StartContend(r, z, fleet)
      PROVE  \A q \in Requests : ToldTheTruth(q)
  <2> DEFINE out == [d \in Drones |-> IF d \in fleet THEN "out" ELSE "none"]
             j   == [IdleJob EXCEPT !.op = "contend", !.pc = "occupancy", !.zone = z,
                                    !.asks = out, !.missing = SomeOrphan]
  <2>1. \A d \in Drones : out[d] \in {"none", "out"}
    OBVIOUS
  <2>2. j.log = IdleJob.log /\ j.asks = out
    BY IdleJobType, Zenon DEF Job
  <2>3. Becomes(r, j)
    BY <1>4 DEF StartContend
  <2> HIDE DEF j, out
  <2>4. QED
    BY <1>b, <1>c, <2>1, <2>2, <2>3
<1>5. QED
  BY <1>1, <1>2, <1>3, <1>4 DEF Start

\* A request that goes on hears "applied" only of a step that moved the tables.
LEMMA ProgressTells ==
  ASSUME TypeOK, TypeOK', AsksNameARow, NEW r \in Requests, Progress(r)
  PROVE  \A q \in Requests : ToldTheTruth(q)
<1>a. job[r] \in Job /\ job'[r] \in Job /\ LedgerTypeOK
  BY DEF TypeOK, LedgerTypeOK
<1>d. Len(job[r].log) \in Nat
  BY <1>a DEF Job
<1>b. ASSUME NEW j, Becomes(r, j), j.log = job[r].log, j.asks = job[r].asks
      PROVE  \A q \in Requests : ToldTheTruth(q)
  <2>1. ToldTheTruth(r)
    BY <1>a, <1>b, BecomesIt, NothingTold
  <2>2. QED
    BY <1>b, <2>1, OthersHearNothing
<1>c. ASSUME Becomes(r, IdleJob) PROVE \A q \in Requests : ToldTheTruth(q)
  <2>1. ToldTheTruth(r)
    BY <1>a, <1>c, BecomesIt, NothingTold DEF IdleJob
  <2>2. QED
    BY <1>c, <2>1, OthersHearNothing
<1>1. CASE ReadOccupancy(r)
  BY <1>1, <1>a, <1>b, Zenon DEF ReadOccupancy, Job
<1>2. ASSUME NEW z \in Zones, ReadHolders(r, z) PROVE \A q \in Requests : ToldTheTruth(q)
  BY <1>2, <1>a, <1>b, Zenon DEF ReadHolders, Job
<1>3. CASE ScanDone(r)
  BY <1>3, <1>a, <1>b, Zenon DEF ScanDone, Job
<1>4. ASSUME NEW t \in job[r].todo, ReleaseOne(r, t)
      PROVE  \A q \in Requests : ToldTheTruth(q)
  BY <1>4, <1>a, <1>b, Zenon DEF ReleaseOne, Job
<1>5. CASE ResetDone(r)
  BY <1>5, <1>a, <1>b, Zenon DEF ResetDone, Job
<1>6. CASE Step(r)
  <2> DEFINE t == Head(job[r].script)
             j == [job[r] EXCEPT !.script = Tail(@), !.log = Append(@, Outcome(t))]
  <2>1. j.log = Append(job[r].log, Outcome(t)) /\ j.asks = job[r].asks
    BY <1>a, Zenon DEF Job
  <2>2. t \in Txn
    BY <1>6, <1>a DEF Step, Job
  <2>3. Becomes(r, j) /\ Execute(t)
    BY <1>6 DEF Step
  <2> HIDE DEF j, t
  <2>4. Outcome(t) = "applied" <=> ledger' # ledger
    BY <1>a, <2>2, <2>3, OutcomeIsTrue
  <2>5. job'[r].log = Append(job[r].log, Outcome(t)) /\ job'[r].asks = job[r].asks
    BY <2>1, <2>3, BecomesIt
  <2>6. job[r].log \in Seq({"applied", "refused", "error"})
    BY <1>a DEF Job
  <2>7. /\ Len(job'[r].log) = Len(job[r].log) + 1
        /\ job'[r].log[Len(job'[r].log)] = Outcome(t)
    BY <2>5, <2>6
  <2>8. ToldTheTruth(r)
    BY <2>4, <2>5, <2>7 DEF ToldTheTruth
  <2>9. QED
    BY <2>3, <2>8, OthersHearNothing
<1>7. CASE StepsDone(r)
  BY <1>7, <1>a, <1>b, Zenon DEF StepsDone, Job
<1>8. CASE ReadBefore(r)
  <2>1. /\ [job[r] EXCEPT !.pc = "ask"].log = job[r].log
        /\ [job[r] EXCEPT !.pc = "ask"].asks = job[r].asks
    BY <1>a, Zenon DEF Job
  <2>2. QED
    BY <1>8, <1>b, <1>c, <2>1 DEF ReadBefore
<1>9. ASSUME NEW d \in Drones, Ask(r, d) PROVE \A q \in Requests : ToldTheTruth(q)
  <2> DEFINE t == AskTxn(r, d)
             j == [job[r] EXCEPT !.asks[d] = Outcome(t)]
  <2>1. j.log = job[r].log /\ j.asks = [job[r].asks EXCEPT ![d] = Outcome(t)]
    BY <1>a, Zenon DEF Job
  <2>2. t \in Txn
    BY <1>9 DEF Ask, AskTxn, GrantOf, Txn, AsksNameARow, TypeOK
  <2>3. Becomes(r, j) /\ Execute(t)
    BY <1>9 DEF Ask
  <2> HIDE DEF j, t
  <2>4. Outcome(t) = "applied" <=> ledger' # ledger
    BY <1>a, <2>2, <2>3, OutcomeIsTrue
  <2>5. /\ job'[r].log = job[r].log
        /\ job'[r].asks = [job[r].asks EXCEPT ![d] = Outcome(t)]
    BY <2>1, <2>3, BecomesIt
  <2>6. job[r].asks \in [Drones -> AskState]
    BY <1>a DEF Job
  <2>7. ASSUME NEW e \in Drones, job[r].asks[e] = "out",
               job'[r].asks[e] \in {"applied", "refused"}
        PROVE  job'[r].asks[e] = "applied" <=> ledger' # ledger
    <3>1. e = d
      BY <2>5, <2>6, <2>7
    <3>2. job'[r].asks[e] = Outcome(t)
      BY <2>5, <2>6, <3>1
    <3>3. QED
      BY <2>4, <3>2
  <2>8. ToldTheTruth(r)
    BY <1>d, <2>5, <2>7 DEF ToldTheTruth
  <2>9. QED
    BY <2>3, <2>8, OthersHearNothing
<1>10. CASE AsksDone(r)
  BY <1>10, <1>a, <1>b, Zenon DEF AsksDone, Job
<1>11. CASE ReadAfter(r)
  BY <1>11, <1>a, <1>b, Zenon DEF ReadAfter, Job
<1>12. CASE Finish(r)
  BY <1>12, <1>c DEF Finish
<1>13. QED
  BY <1>1, <1>2, <1>3, <1>4, <1>5, <1>6, <1>7, <1>8, <1>9, <1>10, <1>11, <1>12
     DEF Progress

\* A step that raised is an error, and nobody is told that it was applied.
LEMMA FaultTells ==
  ASSUME TypeOK, TypeOK', AsksNameARow, NEW r \in Requests, Fault(r)
  PROVE  \A q \in Requests : ToldTheTruth(q)
<1>b. job[r] \in Job /\ job'[r] \in Job
  BY DEF TypeOK
<1>a. /\ job[r] \in Job /\ job'[r] \in Job
      /\ job[r].log \in Seq({"applied", "refused", "error"})
      /\ job[r].asks \in [Drones -> AskState]
      /\ Len(job[r].log) \in Nat
  BY <1>b DEF Job
<1>1. CASE Abort(r)
  <2>1. ToldTheTruth(r)
    BY <1>1, <1>a, BecomesIt, NothingTold DEF Abort, IdleJob
  <2>2. QED
    BY <1>1, <2>1, OthersHearNothing DEF Abort
<1>2. ASSUME NEW o \in Lost, NEW t \in job[r].todo, ReleaseLost(r, t, o)
      PROVE  \A q \in Requests : ToldTheTruth(q)
  <2> DEFINE j == [job[r] EXCEPT !.todo = @ \ {t}, !.dropped = TRUE]
  <2>1. j.log = job[r].log /\ j.asks = job[r].asks
    BY <1>a, Zenon DEF Job
  <2>2. Becomes(r, j)
    BY <1>2 DEF ReleaseLost
  <2> HIDE DEF j
  <2>3. ToldTheTruth(r)
    BY <1>a, <2>1, <2>2, BecomesIt, NothingTold
  <2>4. QED
    BY <2>2, <2>3, OthersHearNothing
<1>3. ASSUME NEW o \in Lost, StepLost(r, o) PROVE \A q \in Requests : ToldTheTruth(q)
  <2> DEFINE j == [job[r] EXCEPT !.script = Tail(@), !.log = Append(@, "error"),
                                 !.dropped = TRUE]
  <2>1. j.log = Append(job[r].log, "error") /\ j.asks = job[r].asks
    BY <1>a, Zenon DEF Job
  <2>2. Becomes(r, j) /\ ledger' = ledger
    BY <1>3 DEF StepLost, Park, ledger
  <2> HIDE DEF j
  <2>3. job'[r].log = Append(job[r].log, "error") /\ job'[r].asks = job[r].asks
    BY <2>1, <2>2, BecomesIt
  <2>4. job'[r].log[Len(job'[r].log)] = "error"
    BY <1>a, <2>3
  <2>5. ToldTheTruth(r)
    BY <2>2, <2>3, <2>4 DEF ToldTheTruth
  <2>6. QED
    BY <2>2, <2>5, OthersHearNothing
<1>4. ASSUME NEW o \in Lost, NEW d \in Drones, AskLost(r, d, o)
      PROVE  \A q \in Requests : ToldTheTruth(q)
  <2> DEFINE j == [job[r] EXCEPT !.asks[d] = "error", !.dropped = TRUE]
  <2>1. j.log = job[r].log /\ j.asks = [job[r].asks EXCEPT ![d] = "error"]
    BY <1>a, Zenon DEF Job
  <2>2. Becomes(r, j)
    BY <1>4 DEF AskLost
  <2> HIDE DEF j
  <2>3. /\ job'[r].log = job[r].log
        /\ job'[r].asks = [job[r].asks EXCEPT ![d] = "error"]
    BY <2>1, <2>2, BecomesIt
  <2>4. ToldTheTruth(r)
    BY <1>a, <2>3 DEF ToldTheTruth
  <2>5. QED
    BY <2>2, <2>4, OthersHearNothing
<1>5. QED
  BY <1>1, <1>2, <1>3, <1>4 DEF Fault

\* Whatever the step, no request is told an untruth.
LEMMA StepTells ==
  ASSUME TypeOK, TypeOK', AsksNameARow, [Next]_vars
  PROVE  \A q \in Requests : ToldTheTruth(q)
<1>1. ASSUME UNCHANGED job PROVE \A q \in Requests : ToldTheTruth(q)
  BY <1>1, NothingTold DEF TypeOK
<1>2. QED
  BY <1>1, StartTells, ProgressTells, FaultTells DEF Next, Land, Vanish, Sink, vars

\* A step is reported "applied" exactly when it moved the ledger, for any number
\* of requests, lost answers and late INSERTs: the reasons that _grant_reason and
\* _release_reason compute from the projection never drift from the IF.
THEOREM AnswersTold == Spec => AnswersAreTrue
<1>1. MirrorInv /\ MirrorInv' /\ [Next]_vars =>
        [\A r \in Requests :
           /\ Len(job'[r].log) = Len(job[r].log) + 1 =>
                 (job'[r].log[Len(job'[r].log)] = "applied" <=> ledger' # ledger)
           /\ \A d \in Drones :
                 job[r].asks[d] = "out" /\ job'[r].asks[d] \in {"applied", "refused"} =>
                    (job'[r].asks[d] = "applied" <=> ledger' # ledger)]_vars
  BY StepTells DEF MirrorInv, ToldTheTruth
<1>2. QED
  BY <1>1, MirrorInvHolds, PTL DEF Spec, AnswersAreTrue

-----------------------------------------------------------------------------
(* The audit *)

\* What an audit that no transaction overtook has seen so far: the counts it
\* read first are still the counts, the rows it visited are marked if and only
\* if they do not add up, and no mirror was found missing.
QuietSees ==
    view.quiet /\ view.pc # "idle" =>
        /\ view.snap = remaining
        /\ view.left \subseteq rows
        /\ view.inconsistent \subseteq rows \ view.left
        /\ \A z \in rows \ view.left :
              z \in view.inconsistent <=>
                 Capacity[z] # remaining[z] + Cardinality(zoneClearance[z])
        /\ \A z \in Zones, d \in Drones :
              <<z, d>> \in view.mirrors => d \in zoneClearance[z]
        /\ view.mismatched = {}
        /\ view.pc = "report" => view.left = {}

\* The inductive invariant of the audit, beside the ledger's.
AuditInv == MirrorInv /\ ViewTypeOK /\ QuietSees

\* The audit moves nothing of what it reads.
LEMMA AuditReadsOnly == AuditNext => System \/ UNCHANGED vars
  BY DEF AuditNext, AuditOccupancy, AuditHolders, AuditMirror, AuditReport, AuditEnd

\* The ledger's invariant does not depend on who reads it.
LEMMA MirrorInvBeside ==
  ASSUME MirrorInv, [AuditNext]_auditVars
  PROVE  MirrorInv'
<1>1. [Next]_vars
  BY AuditReadsOnly DEF auditVars, System
<1>2. QED
  BY <1>1, TypeStep, AsksStep, MirrorsStep DEF MirrorInv

\* An audit that has not begun has seen nothing.
LEMMA NoViewType ==
  /\ NoView.pc = "idle"
  /\ NoView \in [pc : {"idle", "zones", "report"}, snap : [Zones -> Int],
                 left : SUBSET Zones, mirrors : SUBSET (Zones \X Drones),
                 inconsistent : SUBSET Zones, mismatched : SUBSET Drones,
                 quiet : BOOLEAN]
  BY DEF NoView

\* The view stays well typed.
LEMMA ViewTypeStep ==
  ASSUME MirrorInv, ViewTypeOK, [AuditNext]_auditVars
  PROVE  ViewTypeOK'
<1>a. /\ rows \subseteq Zones /\ remaining \in [Zones -> Int]
      /\ zoneClearance \in [Zones -> SUBSET Drones]
  BY DEF MirrorInv, TypeOK
<1>1. CASE System
  <2>1. (view.quiet /\ ledger' = ledger) \in BOOLEAN
    OBVIOUS
  <2>2. QED
    BY <1>1, <2>1, Zenon DEF System, ViewTypeOK
<1>2. CASE AuditOccupancy
  BY <1>2, <1>a, NoViewType, Zenon DEF AuditOccupancy, ViewTypeOK
<1>3. ASSUME NEW z \in Zones, AuditHolders(z) PROVE ViewTypeOK'
  <2> DEFINE inc == IF Capacity[z] = view.snap[z] + Cardinality(zoneClearance[z])
                    THEN view.inconsistent ELSE view.inconsistent \cup {z}
  <2>1. {z} \X zoneClearance[z] \in SUBSET (Zones \X Drones)
    BY <1>a
  <2>2. inc \in SUBSET Zones
    BY DEF ViewTypeOK
  <2>3. view.left \ {z} \in SUBSET Zones
    BY DEF ViewTypeOK
  <2>4. view' = [view EXCEPT !.left = view.left \ {z}, !.mirrors = {z} \X zoneClearance[z],
                             !.inconsistent = inc]
    BY <1>3 DEF AuditHolders
  <2> HIDE DEF inc
  <2>5. QED
    BY <2>1, <2>2, <2>3, <2>4, Zenon DEF ViewTypeOK
<1>4. ASSUME NEW z \in Zones, NEW d \in Drones, AuditMirror(z, d) PROVE ViewTypeOK'
  <2> DEFINE mis == IF droneClearance[d] = z THEN view.mismatched
                                             ELSE view.mismatched \cup {d}
  <2>1. mis \in SUBSET Drones
    BY DEF ViewTypeOK
  <2>2. view.mirrors \ {<<z, d>>} \in SUBSET (Zones \X Drones)
    BY DEF ViewTypeOK
  <2>3. view' = [view EXCEPT !.mirrors = view.mirrors \ {<<z, d>>}, !.mismatched = mis]
    BY <1>4 DEF AuditMirror
  <2> HIDE DEF mis
  <2>4. QED
    BY <2>1, <2>2, <2>3, Zenon DEF ViewTypeOK
<1>5. CASE AuditReport
  BY <1>5, Zenon DEF AuditReport, ViewTypeOK
<1>6. CASE AuditEnd
  BY <1>6, NoViewType DEF AuditEnd, ViewTypeOK
<1>7. CASE UNCHANGED auditVars
  BY <1>7 DEF auditVars, ViewTypeOK
<1>8. QED
  BY <1>1, <1>2, <1>3, <1>4, <1>5, <1>6, <1>7 DEF AuditNext

\* An audit keeps seeing what is there as long as nothing moves, and is no longer
\* quiet once something has.
LEMMA QuietSeesStep ==
  ASSUME AuditInv, [AuditNext]_auditVars
  PROVE  QuietSees'
<1>a. /\ rows \subseteq Zones /\ remaining \in [Zones -> Int]
      /\ zoneClearance \in [Zones -> SUBSET Drones]
      /\ MirrorsAgree
  BY DEF AuditInv, MirrorInv, TypeOK
<1>b. ViewTypeOK /\ QuietSees
  BY DEF AuditInv
<1>1. CASE System
  <2>1. /\ view'.pc = view.pc /\ view'.snap = view.snap /\ view'.left = view.left
        /\ view'.mirrors = view.mirrors /\ view'.inconsistent = view.inconsistent
        /\ view'.mismatched = view.mismatched
        /\ view'.quiet = (view.quiet /\ ledger' = ledger)
    BY <1>1, <1>b DEF System, ViewTypeOK
  <2>2. CASE ledger' = ledger
    BY <1>b, <2>1, <2>2 DEF QuietSees, ledger
  <2>3. CASE ledger' # ledger
    BY <2>1, <2>3 DEF QuietSees
  <2>4. QED
    BY <2>2, <2>3
<1>2. CASE AuditOccupancy
  <2>1. /\ view'.pc = "zones" /\ view'.snap = remaining /\ view'.left = rows
        /\ view'.mirrors = {} /\ view'.inconsistent = {} /\ view'.mismatched = {}
    BY <1>2 DEF AuditOccupancy, NoView
  <2>2. UNCHANGED ledger
    BY <1>2 DEF AuditOccupancy, vars, ledger
  <2>3. QED
    BY <2>1, <2>2 DEF QuietSees, ledger
<1>3. ASSUME NEW z \in Zones, AuditHolders(z) PROVE QuietSees'
  <2>1. /\ view'.pc = "zones" /\ view'.snap = view.snap /\ view'.left = view.left \ {z}
        /\ view'.mirrors = {z} \X zoneClearance[z]
        /\ view'.inconsistent =
             IF Capacity[z] = view.snap[z] + Cardinality(zoneClearance[z])
             THEN view.inconsistent ELSE view.inconsistent \cup {z}
        /\ view'.mismatched = view.mismatched /\ view'.quiet = view.quiet
    BY <1>3, <1>b DEF AuditHolders, ViewTypeOK
  <2>2. view.pc = "zones" /\ z \in view.left /\ UNCHANGED ledger
    BY <1>3 DEF AuditHolders, vars, ledger
  <2> SUFFICES ASSUME view.quiet PROVE QuietSees'
    BY <2>1 DEF QuietSees
  <2>3. /\ view.snap = remaining /\ view.left \subseteq rows
        /\ view.inconsistent \subseteq rows \ view.left /\ view.mismatched = {}
        /\ \A y \in rows \ view.left :
              y \in view.inconsistent <=>
                 Capacity[y] # remaining[y] + Cardinality(zoneClearance[y])
    BY <1>b, <2>2 DEF QuietSees
  <2>4. view'.inconsistent =
             IF Capacity[z] = remaining[z] + Cardinality(zoneClearance[z])
             THEN view.inconsistent ELSE view.inconsistent \cup {z}
    BY <2>1, <2>3
  <2>5. view'.inconsistent \subseteq rows \ view'.left
    BY <2>1, <2>2, <2>3, <2>4
  <2>6. \A y \in rows \ view'.left :
          y \in view'.inconsistent <=>
             Capacity[y] # remaining[y] + Cardinality(zoneClearance[y])
    BY <2>1, <2>2, <2>3, <2>4
  <2>7. QED
    BY <1>a, <2>1, <2>2, <2>3, <2>5, <2>6 DEF QuietSees, ledger
<1>4. ASSUME NEW z \in Zones, NEW d \in Drones, AuditMirror(z, d) PROVE QuietSees'
  <2>1. /\ view'.pc = "zones" /\ view'.snap = view.snap /\ view'.left = view.left
        /\ view'.mirrors = view.mirrors \ {<<z, d>>}
        /\ view'.inconsistent = view.inconsistent
        /\ view'.mismatched = (IF droneClearance[d] = z THEN view.mismatched
                                                      ELSE view.mismatched \cup {d})
        /\ view'.quiet = view.quiet
    BY <1>4, <1>b DEF AuditMirror, ViewTypeOK
  <2>2. view.pc = "zones" /\ <<z, d>> \in view.mirrors /\ UNCHANGED ledger
    BY <1>4 DEF AuditMirror, vars, ledger
  <2>3. view.quiet => droneClearance[d] = z
    BY <1>a, <1>b, <2>2 DEF QuietSees, MirrorsAgree
  <2>4. QED
    BY <1>b, <2>1, <2>2, <2>3 DEF QuietSees, ledger
<1>5. CASE AuditReport
  <2>1. /\ view'.pc = "report" /\ view'.snap = view.snap /\ view'.left = view.left
        /\ view'.mirrors = view.mirrors /\ view'.inconsistent = view.inconsistent
        /\ view'.mismatched = view.mismatched /\ view'.quiet = view.quiet
    BY <1>5, <1>b DEF AuditReport, ViewTypeOK
  <2>2. view.pc = "zones" /\ view.left = {} /\ UNCHANGED ledger
    BY <1>5 DEF AuditReport, vars, ledger
  <2>3. QED
    BY <1>b, <2>1, <2>2 DEF QuietSees, ledger
<1>6. CASE AuditEnd
  BY <1>6 DEF AuditEnd, NoView, QuietSees
<1>7. CASE UNCHANGED auditVars
  BY <1>7, <1>b DEF auditVars, vars, QuietSees
<1>8. QED
  BY <1>1, <1>2, <1>3, <1>4, <1>5, <1>6, <1>7 DEF AuditNext

\* The three parts together are inductive.
LEMMA AuditInvHolds == AuditSpec => []AuditInv
<1>1. AuditInit => AuditInv
  <2> SUFFICES ASSUME AuditInit PROVE AuditInv
    OBVIOUS
  <2>1. MirrorInv
    BY InitInv DEF AuditInit, LedgerInv, MirrorInv
  <2>2. ViewTypeOK /\ QuietSees
    BY NoViewType DEF AuditInit, ViewTypeOK, QuietSees
  <2>3. QED
    BY <2>1, <2>2 DEF AuditInv
<1>2. AuditInv /\ [AuditNext]_auditVars => AuditInv'
  BY MirrorInvBeside, ViewTypeStep, QuietSeesStep DEF AuditInv
<1>3. QED
  BY <1>1, <1>2, PTL DEF AuditSpec

\* GET /clearance/state, when no transaction overtook it, reports a ledger sound
\* exactly when it is, whether or not a late seed INSERT has broken the counts.
THEOREM AuditIsSound == AuditSpec => []AuditSound
<1>1. AuditInv => AuditSound
  <2> SUFFICES ASSUME AuditInv PROVE AuditSound
    OBVIOUS
  <2>1. ViewTypeOK /\ QuietSees /\ MirrorsAgree
    BY DEF AuditInv, MirrorInv
  <2>2. ASSUME view.pc = "report", view.quiet
        PROVE  CleanReport <=> SlotsAddUp /\ MirrorsAgree
    <3>1. /\ view.left = {} /\ view.mismatched = {} /\ view.inconsistent \subseteq rows
          /\ \A z \in rows : z \in view.inconsistent <=>
                Capacity[z] # remaining[z] + Cardinality(zoneClearance[z])
      BY <2>1, <2>2 DEF QuietSees
    <3>2. view.inconsistent = {} <=> SlotsAddUp
      BY <3>1 DEF SlotsAddUp
    <3>3. QED
      BY <2>1, <3>1, <3>2 DEF CleanReport
  <2>3. QED
    BY <2>1, <2>2 DEF AuditSound, QuietAuditIsTrue
<1>2. QED
  BY <1>1, AuditInvHolds, PTL

-----------------------------------------------------------------------------
(* The demonstrations *)

\* A request under way holds the lock; if it has seen every answer, no
\* transaction is in flight without it.
Alone(r) == lock = r /\ (Undisturbed(r) => ~SomeOrphan)

Unasked(r) == \A d \in Drones : job[r].asks[d] \in {"none", "out"}

\* What a request may be doing where it is.
InPlace(r) ==
    /\ \A t \in job[r].todo : t.kind = "release"
    /\ job[r].pc \in {"occupancy", "holders", "release"} =>
          /\ Unasked(r) /\ job[r].log = <<>>
          /\ job[r].op = "demo" => job[r].script = DemoScript
    /\ job[r].pc = "before" => job[r].op = "contend" /\ Unasked(r)
    /\ job[r].pc \in {"ask", "count"} => job[r].op = "contend"
    /\ job[r].pc = "step" => job[r].op # "contend"

\* The reset is complete: the holders it has looked at are all to be released,
\* and when the releases are done nobody holds anything.
CoversHolders(r) ==
    /\ job[r].pc = "holders" =>
          \A z \in Zones \ job[r].left : ReleasesOf(z) \subseteq job[r].todo
    /\ job[r].pc = "release" => \A z \in Zones : ReleasesOf(z) \subseteq job[r].todo
    /\ job[r].pc = "before" => \A z \in Zones : zoneClearance[z] = {}

\* Zone z is held by the drones of S, and no other zone by anyone.
OnlyHeld(z, S) == \A y \in Zones : zoneClearance[y] = IF y = z THEN S ELSE {}

\* Of the asks so far: the drones told "applied" hold the zone, nobody else holds
\* anything, and a drone was refused only once the zone was full.
AskedSoFar(r) ==
    /\ job[r].pc \in {"ask", "count"} =>
          /\ OnlyHeld(job[r].zone, Granting(r))
          /\ \A d \in Drones :
                /\ job[r].asks[d] # "error"
                /\ job[r].asks[d] = "refused" => remaining[job[r].zone] = 0
    /\ job[r].pc = "count" => \A d \in Drones : job[r].asks[d] # "out"
    /\ Contended(r) => Exact(r) /\ job[r].winners = Granting(r)

\* All of it, for a request under way.
RequestFits(r) ==
    job[r].pc # "idle" =>
        /\ Alone(r) /\ InPlace(r)
        /\ Undisturbed(r) => CoversHolders(r) /\ AskedSoFar(r)

\* The inductive invariant of the contention.
ContendInv == LedgerInv /\ \A r \in Requests : RequestFits(r)

\* The lock: while one request is under way, or another takes it, all others idle.
LEMMA OthersIdle ==
  ASSUME \A q \in Requests : RequestFits(q), NEW r \in Requests,
         lock = Free \/ job[r].pc # "idle"
  PROVE  \A q \in Requests \ {r} : job[q].pc = "idle"
  BY FreeAssumption DEF RequestFits, Alone

\* So when one request's local state changes, only that request is to be looked at.
LEMMA OnlyItMatters ==
  ASSUME ContendInv, NEW r \in Requests, NEW j, Becomes(r, j),
         lock = Free \/ job[r].pc # "idle", RequestFits(r)'
  PROVE  \A q \in Requests : RequestFits(q)'
<1>1. \A q \in Requests \ {r} : job'[q].pc = "idle"
  BY OthersIdle, BecomesIt DEF ContendInv, LedgerInv
<1>2. QED
  BY <1>1 DEF RequestFits

\* An idle request has nothing to show.
LEMMA IdleFits ==
  ASSUME ContendInv, NEW r \in Requests, Becomes(r, IdleJob)
  PROVE  RequestFits(r)'
<1>1. job'[r].pc = "idle"
  BY BecomesIt DEF ContendInv, LedgerInv, IdleJob
<1>2. QED
  BY <1>1 DEF RequestFits

\* A request that loses no answer stays alone.
LEMMA AloneKept ==
  ASSUME NEW r, Alone(r), lock' = lock, orphan' = orphan,
         job'[r].missing = job[r].missing, job'[r].dropped = job[r].dropped
  PROVE  Alone(r)' /\ (Undisturbed(r)' <=> Undisturbed(r))
<1>1. Undisturbed(r)' <=> Undisturbed(r)
  BY DEF Undisturbed
<1>2. SomeOrphan' <=> SomeOrphan
  BY DEF SomeOrphan
<1>3. QED
  BY <1>1, <1>2 DEF Alone

\* Starting a request: it takes the lock and counts the answers still missing.
LEMMA StartFits ==
  ASSUME ContendInv, NEW r \in Requests, Start(r)
  PROVE  \A q \in Requests : RequestFits(q)'
<1>a. TypeOK
  BY DEF ContendInv, LedgerInv
<1>b. /\ IdleJob.todo = {} /\ IdleJob.log = <<>>
      /\ \A d \in Drones : IdleJob.asks[d] = "none"
  BY DEF IdleJob
<1>c. ASSUME NEW j, Becomes(r, j), Acquire(r), j.missing = SomeOrphan, j.todo = {},
             j.pc \in {"occupancy", "step"}, j.log = <<>>,
             \A d \in Drones : j.asks[d] \in {"none", "out"},
             j.op = "demo" => j.script = DemoScript,
             j.pc = "step" => j.op # "contend"
      PROVE  \A q \in Requests : RequestFits(q)'
  <2>1. job'[r] = j /\ lock = Free
    BY <1>a, <1>c, BecomesIt DEF Acquire
  <2>2. Alone(r)'
    <3>1. SomeOrphan' <=> SomeOrphan
      BY <1>c DEF Acquire, SomeOrphan
    <3>2. QED
      BY <1>c, <2>1, <3>1 DEF Alone, Undisturbed, Acquire
  <2>3. InPlace(r)'
    BY <1>c, <2>1 DEF InPlace, Unasked
  <2>4. CoversHolders(r)' /\ AskedSoFar(r)'
    BY <1>c, <2>1 DEF CoversHolders, AskedSoFar, Contended
  <2>5. RequestFits(r)'
    BY <2>2, <2>3, <2>4 DEF RequestFits
  <2>6. QED
    BY <1>c, <2>1, <2>5, OnlyItMatters
<1>1. ASSUME NEW kind \in {"grant", "release"}, NEW z \in Zones, NEW d \in Drones,
             StartOne(r, kind, z, d)
      PROVE  \A q \in Requests : RequestFits(q)'
  <2> DEFINE j == [IdleJob EXCEPT !.op = kind, !.pc = "step",
                     !.script = <<[kind |-> kind, zone |-> z, drone |-> d]>>,
                     !.missing = SomeOrphan]
  <2>1. /\ j.missing = SomeOrphan /\ j.todo = IdleJob.todo /\ j.pc = "step"
        /\ j.log = IdleJob.log /\ j.asks = IdleJob.asks /\ j.op = kind
    BY IdleJobType, Zenon DEF Job
  <2>2. Becomes(r, j) /\ Acquire(r)
    BY <1>1 DEF StartOne
  <2> HIDE DEF j
  <2>3. QED
    BY <1>b, <1>c, <2>1, <2>2
<1>2. CASE StartReset(r)
  <2> DEFINE j == [IdleJob EXCEPT !.op = "reset", !.pc = "occupancy",
                                  !.missing = SomeOrphan]
  <2>1. /\ j.missing = SomeOrphan /\ j.todo = IdleJob.todo /\ j.pc = "occupancy"
        /\ j.log = IdleJob.log /\ j.asks = IdleJob.asks /\ j.op = "reset"
    BY IdleJobType, Zenon DEF Job
  <2>2. Becomes(r, j) /\ Acquire(r)
    BY <1>2 DEF StartReset
  <2> HIDE DEF j
  <2>3. QED
    BY <1>b, <1>c, <2>1, <2>2
<1>3. CASE StartDemo(r)
  <2> DEFINE j == [IdleJob EXCEPT !.op = "demo", !.pc = "occupancy",
                                  !.script = DemoScript, !.missing = SomeOrphan]
  <2>1. /\ j.missing = SomeOrphan /\ j.todo = IdleJob.todo /\ j.pc = "occupancy"
        /\ j.log = IdleJob.log /\ j.asks = IdleJob.asks /\ j.script = DemoScript
    BY IdleJobType, Zenon DEF Job
  <2>2. Becomes(r, j) /\ Acquire(r)
    BY <1>3 DEF StartDemo
  <2> HIDE DEF j
  <2>3. QED
    BY <1>b, <1>c, <2>1, <2>2
<1>4. ASSUME NEW z \in Zones, NEW fleet \in Fleets, StartContend(r, z, fleet)
      PROVE  \A q \in Requests : RequestFits(q)'
  <2> DEFINE out == [d \in Drones |-> IF d \in fleet THEN "out" ELSE "none"]
             j   == [IdleJob EXCEPT !.op = "contend", !.pc = "occupancy", !.zone = z,
                                    !.asks = out, !.missing = SomeOrphan]
  <2>1. \A d \in Drones : out[d] \in {"none", "out"}
    OBVIOUS
  <2>2. /\ j.missing = SomeOrphan /\ j.todo = IdleJob.todo /\ j.pc = "occupancy"
        /\ j.log = IdleJob.log /\ j.asks = out /\ j.op = "contend"
    BY IdleJobType, Zenon DEF Job
  <2>3. Becomes(r, j) /\ Acquire(r)
    BY <1>4 DEF StartContend
  <2> HIDE DEF j, out
  <2>4. QED
    BY <1>b, <1>c, <2>1, <2>2, <2>3
<1>5. QED
  BY <1>1, <1>2, <1>3, <1>4 DEF Start

\* What the steps of a request under way start from.
LEMMA UnderWay ==
  ASSUME ContendInv, NEW r \in Requests, job[r].pc # "idle"
  PROVE  /\ TypeOK /\ LedgerTypeOK /\ job[r] \in Job
         /\ Alone(r) /\ InPlace(r)
         /\ Undisturbed(r) => CoversHolders(r) /\ AskedSoFar(r)
  BY DEF ContendInv, LedgerInv, RequestFits, TypeOK, LedgerTypeOK

\* The scan begins with all rows still to be read; a zone without a row has no
\* holders.
LEMMA ReadOccupancyFits ==
  ASSUME ContendInv, NEW r \in Requests, ReadOccupancy(r)
  PROVE  RequestFits(r)'
<1>a. job[r].pc = "occupancy"
  BY DEF ReadOccupancy
<1>b. /\ TypeOK /\ job[r] \in Job /\ Alone(r) /\ InPlace(r)
  BY <1>a, UnderWay
<1>1. /\ job'[r].pc = "holders" /\ job'[r].left = rows
      /\ job'[r].op = job[r].op /\ job'[r].todo = job[r].todo
      /\ job'[r].script = job[r].script /\ job'[r].log = job[r].log
      /\ job'[r].asks = job[r].asks
      /\ job'[r].missing = job[r].missing /\ job'[r].dropped = job[r].dropped
  <2>1. job'[r] = [job[r] EXCEPT !.pc = "holders", !.left = rows]
    BY <1>b, BecomesIt DEF ReadOccupancy
  <2>2. QED
    BY <1>b, <2>1 DEF Job
<1>2. UNCHANGED <<ledger, lock, orphan>>
  BY DEF ReadOccupancy
<1>3. Alone(r)'
  BY <1>b, <1>1, <1>2, AloneKept
<1>4. InPlace(r)'
  BY <1>a, <1>b, <1>1 DEF InPlace, Unasked
<1>5. CoversHolders(r)'
  <2>1. \A z \in Zones \ rows : zoneClearance[z] = {}
    BY DEF ContendInv, LedgerInv, SeedingIsFresh
  <2>2. \A z \in Zones \ job'[r].left : zoneClearance'[z] = {}
    BY <1>1, <1>2, <2>1 DEF ledger
  <2>3. QED
    BY <1>1, <2>2 DEF CoversHolders, ReleasesOf
<1>6. AskedSoFar(r)'
  BY <1>1 DEF AskedSoFar, Contended
<1>7. QED
  BY <1>3, <1>4, <1>5, <1>6 DEF RequestFits

\* A row's holders join those already found.
LEMMA ReadHoldersFits ==
  ASSUME ContendInv, NEW r \in Requests, NEW z \in Zones, ReadHolders(r, z)
  PROVE  RequestFits(r)'
<1>a. job[r].pc = "holders"
  BY DEF ReadHolders
<1>b. /\ TypeOK /\ job[r] \in Job /\ Alone(r) /\ InPlace(r)
      /\ Undisturbed(r) => CoversHolders(r)
  BY <1>a, UnderWay
<1>1. /\ job'[r].pc = "holders" /\ job'[r].left = job[r].left \ {z}
      /\ job'[r].todo = job[r].todo \cup ReleasesOf(z)
      /\ job'[r].op = job[r].op
      /\ job'[r].script = job[r].script /\ job'[r].log = job[r].log
      /\ job'[r].asks = job[r].asks
      /\ job'[r].missing = job[r].missing /\ job'[r].dropped = job[r].dropped
  <2>1. job'[r] = [job[r] EXCEPT !.left = @ \ {z}, !.todo = @ \cup ReleasesOf(z)]
    BY <1>b, BecomesIt DEF ReadHolders
  <2>2. QED
    BY <1>a, <1>b, <2>1 DEF Job
<1>2. UNCHANGED <<ledger, lock, orphan>>
  BY DEF ReadHolders
<1>3. Alone(r)' /\ (Undisturbed(r)' <=> Undisturbed(r))
  BY <1>b, <1>1, <1>2, AloneKept
<1>4. InPlace(r)'
  <2>1. \A t \in ReleasesOf(z) : t.kind = "release"
    BY DEF ReleasesOf, ReleaseOf
  <2>2. QED
    BY <1>a, <1>b, <1>1, <2>1 DEF InPlace, Unasked
<1>5. ASSUME Undisturbed(r) PROVE CoversHolders(r)'
  <2>1. \A y \in Zones : ReleasesOf(y)' = ReleasesOf(y)
    BY <1>2 DEF ReleasesOf, ledger
  <2>2. \A y \in Zones \ job[r].left : ReleasesOf(y) \subseteq job[r].todo
    BY <1>a, <1>b, <1>5 DEF CoversHolders
  <2>3. \A y \in Zones \ job'[r].left : ReleasesOf(y) \subseteq job'[r].todo
    BY <1>1, <2>2
  <2>4. QED
    BY <1>1, <2>1, <2>3 DEF CoversHolders
<1>6. AskedSoFar(r)'
  BY <1>1 DEF AskedSoFar, Contended
<1>7. QED
  BY <1>3, <1>4, <1>5, <1>6 DEF RequestFits

\* The scan is complete: every holder there is will be released.
LEMMA ScanDoneFits ==
  ASSUME ContendInv, NEW r \in Requests, ScanDone(r)
  PROVE  RequestFits(r)'
<1>a. job[r].pc = "holders" /\ job[r].left = {}
  BY DEF ScanDone
<1>b. /\ TypeOK /\ job[r] \in Job /\ Alone(r) /\ InPlace(r)
      /\ Undisturbed(r) => CoversHolders(r)
  BY <1>a, UnderWay
<1>1. /\ job'[r].pc = "release" /\ job'[r].todo = job[r].todo /\ job'[r].op = job[r].op
      /\ job'[r].script = job[r].script /\ job'[r].log = job[r].log
      /\ job'[r].asks = job[r].asks
      /\ job'[r].missing = job[r].missing /\ job'[r].dropped = job[r].dropped
  BY <1>b, BecomesIt DEF ScanDone, Job
<1>2. UNCHANGED <<ledger, lock, orphan>>
  BY DEF ScanDone
<1>3. Alone(r)' /\ (Undisturbed(r)' <=> Undisturbed(r))
  BY <1>b, <1>1, <1>2, AloneKept
<1>4. InPlace(r)'
  BY <1>a, <1>b, <1>1 DEF InPlace, Unasked
<1>5. ASSUME Undisturbed(r) PROVE CoversHolders(r)'
  <2>1. \A y \in Zones : ReleasesOf(y)' = ReleasesOf(y)
    BY <1>2 DEF ReleasesOf, ledger
  <2>2. \A y \in Zones : ReleasesOf(y) \subseteq job'[r].todo
    BY <1>a, <1>b, <1>1, <1>5 DEF CoversHolders
  <2>3. QED
    BY <1>1, <2>1, <2>2 DEF CoversHolders
<1>6. AskedSoFar(r)'
  BY <1>1 DEF AskedSoFar, Contended
<1>7. QED
  BY <1>3, <1>4, <1>5, <1>6 DEF RequestFits

\* A release that ran leaves its drone out of its zone, and adds no holder.
LEMMA ReleaseClears ==
  ASSUME LedgerTypeOK, MirrorsAgree, NEW t \in Txn, t.kind = "release", Execute(t)
  PROVE  /\ \A y \in Zones : zoneClearance'[y] \subseteq zoneClearance[y]
         /\ t.drone \notin zoneClearance'[t.zone]
<1>a. t.zone \in Zones /\ t.drone \in Drones
  BY DEF Txn
<1>1. CASE Release(t.zone, t.drone)
  BY <1>a, <1>1 DEF Release, LedgerTypeOK
<1>2. CASE ~ReleaseGuard(t.zone, t.drone) /\ UNCHANGED ledger
  BY <1>a, <1>2 DEF ReleaseGuard, MirrorsAgree, ledger
<1>3. QED
  BY <1>1, <1>2 DEF Execute

\* One release of the reset: the others still cover whoever holds a clearance.
LEMMA ReleaseOneFits ==
  ASSUME ContendInv, NEW r \in Requests, NEW t \in job[r].todo, ReleaseOne(r, t)
  PROVE  RequestFits(r)'
<1>a. job[r].pc = "release"
  BY DEF ReleaseOne
<1>b. /\ TypeOK /\ LedgerTypeOK /\ job[r] \in Job /\ Alone(r) /\ InPlace(r)
      /\ Undisturbed(r) => CoversHolders(r)
  BY <1>a, UnderWay
<1>1. /\ job'[r].pc = "release" /\ job'[r].todo = job[r].todo \ {t}
      /\ job'[r].op = job[r].op
      /\ job'[r].script = job[r].script /\ job'[r].log = job[r].log
      /\ job'[r].asks = job[r].asks
      /\ job'[r].missing = job[r].missing /\ job'[r].dropped = job[r].dropped
  BY <1>a, <1>b, BecomesIt DEF ReleaseOne, Job
<1>2. UNCHANGED <<lock, orphan>> /\ Execute(t)
  BY DEF ReleaseOne
<1>3. Alone(r)' /\ (Undisturbed(r)' <=> Undisturbed(r))
  BY <1>b, <1>1, <1>2, AloneKept
<1>4. InPlace(r)'
  BY <1>a, <1>b, <1>1 DEF InPlace, Unasked
<1>5. ASSUME Undisturbed(r) PROVE CoversHolders(r)'
  <2>1. t \in Txn /\ t.kind = "release"
    BY <1>b DEF Job, InPlace
  <2>2. /\ \A y \in Zones : zoneClearance'[y] \subseteq zoneClearance[y]
        /\ t.drone \notin zoneClearance'[t.zone]
    BY <1>b, <1>2, <2>1, ReleaseClears DEF ContendInv, LedgerInv
  <2>3. ASSUME NEW y \in Zones, NEW d \in zoneClearance'[y]
        PROVE  ReleaseOf(y, d) \in job'[r].todo
    <3>1. ReleaseOf(y, d) \in job[r].todo
      BY <1>a, <1>b, <1>5, <2>2, <2>3 DEF CoversHolders, ReleasesOf
    <3>2. ReleaseOf(y, d) # t
      BY <2>2, <2>3 DEF ReleaseOf
    <3>3. QED
      BY <1>1, <3>1, <3>2
  <2>4. QED
    BY <1>1, <2>3 DEF CoversHolders, ReleasesOf
<1>6. AskedSoFar(r)'
  BY <1>1 DEF AskedSoFar, Contended
<1>7. QED
  BY <1>3, <1>4, <1>5, <1>6 DEF RequestFits

\* The releases are done: nobody holds anything.
LEMMA ResetDoneEmpties ==
  ASSUME ContendInv, NEW r \in Requests, ResetDone(r), Undisturbed(r)
  PROVE  \A z \in Zones : zoneClearance[z] = {}
<1>1. CoversHolders(r) /\ job[r].pc = "release" /\ job[r].todo = {}
  BY UnderWay DEF ResetDone
<1>2. QED
  BY <1>1 DEF CoversHolders, ReleasesOf

\* What follows starts from an empty airspace.
LEMMA ResetDoneFits ==
  ASSUME ContendInv, NEW r \in Requests, ResetDone(r)
  PROVE  RequestFits(r)'
<1>a. job[r].pc = "release"
  BY DEF ResetDone
<1>b. /\ TypeOK /\ job[r] \in Job /\ Alone(r) /\ InPlace(r)
  BY <1>a, UnderWay
<1>1. /\ job'[r].pc = AfterReset(job[r].op)
      /\ job'[r].todo = job[r].todo /\ job'[r].op = job[r].op
      /\ job'[r].asks = job[r].asks
      /\ job'[r].missing = job[r].missing /\ job'[r].dropped = job[r].dropped
  BY <1>b, BecomesIt DEF ResetDone, Job
<1>2. UNCHANGED <<ledger, lock, orphan>>
  BY DEF ResetDone
<1>c. /\ job'[r].pc \in {"before", "step", "report"}
      /\ job'[r].pc = "before" <=> job[r].op = "contend"
  BY <1>1 DEF AfterReset
<1>3. Alone(r)' /\ (Undisturbed(r)' <=> Undisturbed(r))
  BY <1>b, <1>1, <1>2, AloneKept
<1>4. InPlace(r)'
  BY <1>a, <1>b, <1>c, <1>1 DEF InPlace, Unasked
<1>5. ASSUME Undisturbed(r) PROVE CoversHolders(r)'
  BY <1>c, <1>2, <1>5, ResetDoneEmpties DEF CoversHolders, ledger
<1>6. AskedSoFar(r)'
  BY <1>c, <1>1 DEF AskedSoFar, Contended
<1>7. QED
  BY <1>3, <1>4, <1>5, <1>6 DEF RequestFits

\* A grant either fires and is reported "applied", or nothing moves and it is
\* reported "refused"; and so for a release.
LEMMA GrantOutcome ==
  ASSUME LedgerTypeOK, NEW t \in Txn, t.kind = "grant", Execute(t)
  PROVE  \/ Outcome(t) = "applied" /\ Grant(t.zone, t.drone)
         \/ /\ Outcome(t) = "refused" /\ ~GrantGuard(t.zone, t.drone)
            /\ UNCHANGED ledger
<1>a. t.zone \in Zones /\ t.drone \in Drones
  BY DEF Txn
<1>1. Outcome(t) = IF GrantGuard(t.zone, t.drone) THEN "applied" ELSE "refused"
  BY <1>a DEF Outcome, GrantReason, GrantGuard, LedgerTypeOK
<1>2. QED
  BY <1>1 DEF Execute, Grant

LEMMA ReleaseOutcome ==
  ASSUME LedgerTypeOK, NEW t \in Txn, t.kind = "release", Execute(t)
  PROVE  \/ Outcome(t) = "applied" /\ Release(t.zone, t.drone)
         \/ /\ Outcome(t) = "refused" /\ ~ReleaseGuard(t.zone, t.drone)
            /\ UNCHANGED ledger
<1>a. t.zone \in Zones /\ t.drone \in Drones /\ t.zone # NoZone
  BY NoZoneAssumption DEF Txn
<1>1. Outcome(t) = IF ReleaseGuard(t.zone, t.drone) THEN "applied" ELSE "refused"
  BY <1>a DEF Outcome, ReleaseReason, ReleaseGuard, LedgerTypeOK
<1>2. QED
  BY <1>1 DEF Execute, Release

\* A scripted step says nothing about contentions.
LEMMA StepFits ==
  ASSUME ContendInv, NEW r \in Requests, Step(r)
  PROVE  RequestFits(r)'
<1>a. job[r].pc = "step"
  BY DEF Step
<1>b. /\ TypeOK /\ job[r] \in Job /\ Alone(r) /\ InPlace(r)
  BY <1>a, UnderWay
<1>1. /\ job'[r].pc = "step" /\ job'[r].todo = job[r].todo /\ job'[r].op = job[r].op
      /\ job'[r].missing = job[r].missing /\ job'[r].dropped = job[r].dropped
  <2>1. job'[r] = [job[r] EXCEPT !.script = Tail(@),
                                 !.log = Append(@, Outcome(Head(job[r].script)))]
    BY <1>b, BecomesIt DEF Step
  <2>2. QED
    BY <1>a, <1>b, <2>1, Zenon DEF Job
<1>2. UNCHANGED <<lock, orphan>>
  BY DEF Step
<1>3. Alone(r)'
  BY <1>b, <1>1, <1>2, AloneKept
<1>4. InPlace(r)'
  BY <1>a, <1>b, <1>1 DEF InPlace
<1>5. CoversHolders(r)' /\ AskedSoFar(r)'
  BY <1>1 DEF CoversHolders, AskedSoFar, Contended
<1>6. QED
  BY <1>3, <1>4, <1>5 DEF RequestFits

LEMMA StepsDoneFits ==
  ASSUME ContendInv, NEW r \in Requests, StepsDone(r)
  PROVE  RequestFits(r)'
<1>a. job[r].pc = "step"
  BY DEF StepsDone
<1>b. /\ TypeOK /\ job[r] \in Job /\ Alone(r) /\ InPlace(r)
  BY <1>a, UnderWay
<1>1. /\ job'[r].pc = "report" /\ job'[r].todo = job[r].todo /\ job'[r].op = job[r].op
      /\ job'[r].missing = job[r].missing /\ job'[r].dropped = job[r].dropped
  BY <1>b, BecomesIt DEF StepsDone, Job
<1>2. UNCHANGED <<lock, orphan>>
  BY DEF StepsDone
<1>3. Alone(r)'
  BY <1>b, <1>1, <1>2, AloneKept
<1>4. InPlace(r)'
  BY <1>b, <1>1 DEF InPlace
<1>5. CoversHolders(r)' /\ AskedSoFar(r)'
  BY <1>a, <1>b, <1>1 DEF CoversHolders, AskedSoFar, Contended, InPlace
<1>6. QED
  BY <1>3, <1>4, <1>5 DEF RequestFits

\* The asks go out into an empty airspace.
LEMMA ReadBeforeFits ==
  ASSUME ContendInv, NEW r \in Requests, ReadBefore(r)
  PROVE  RequestFits(r)'
<1>a. job[r].pc = "before"
  BY DEF ReadBefore
<1>b. /\ TypeOK /\ job[r] \in Job /\ Alone(r) /\ InPlace(r)
      /\ Undisturbed(r) => CoversHolders(r)
  BY <1>a, UnderWay
<1>c. CASE Becomes(r, IdleJob)
  BY <1>c, IdleFits
<1>d. CASE Becomes(r, [job[r] EXCEPT !.pc = "ask"]) /\ UNCHANGED lock
  <2>1. /\ job'[r].pc = "ask" /\ job'[r].todo = job[r].todo /\ job'[r].op = job[r].op
        /\ job'[r].asks = job[r].asks /\ job'[r].zone = job[r].zone
        /\ job'[r].missing = job[r].missing /\ job'[r].dropped = job[r].dropped
    BY <1>b, <1>d, BecomesIt DEF Job
  <2>2. UNCHANGED <<ledger, lock, orphan>>
    BY <1>d DEF ReadBefore
  <2>3. Alone(r)' /\ (Undisturbed(r)' <=> Undisturbed(r))
    BY <1>b, <2>1, <2>2, AloneKept
  <2>4. InPlace(r)'
    BY <1>a, <1>b, <2>1 DEF InPlace
  <2>5. CoversHolders(r)'
    BY <2>1 DEF CoversHolders
  <2>6. ASSUME Undisturbed(r) PROVE AskedSoFar(r)'
    <3>1. \A z \in Zones : zoneClearance'[z] = {}
      BY <1>a, <1>b, <2>2, <2>6 DEF CoversHolders, ledger
    <3>2. \A d \in Drones : job'[r].asks[d] \in {"none", "out"}
      BY <1>a, <1>b, <2>1 DEF InPlace, Unasked
    <3>3. Granting(r)' = {}
      BY <3>2 DEF Granting
    <3>4. QED
      BY <2>1, <3>1, <3>2, <3>3 DEF AskedSoFar, OnlyHeld, Contended
  <2>7. QED
    BY <2>3, <2>4, <2>5, <2>6 DEF RequestFits
<1>e. QED
  BY <1>c, <1>d DEF ReadBefore

\* One ask: it takes a slot, or the zone is full.
LEMMA AskFits ==
  ASSUME ContendInv, NEW r \in Requests, NEW d \in Drones, Ask(r, d)
  PROVE  RequestFits(r)'
<1> DEFINE t == AskTxn(r, d)
           z == job[r].zone
<1>a. job[r].pc = "ask" /\ job[r].asks[d] = "out"
  BY DEF Ask
<1>b. /\ TypeOK /\ LedgerTypeOK /\ job[r] \in Job /\ Alone(r) /\ InPlace(r)
      /\ Undisturbed(r) => AskedSoFar(r)
  BY <1>a, UnderWay
<1>c. z \in rows /\ z \in Zones
  BY <1>a, <1>b DEF ContendInv, LedgerInv, AsksNameARow, TypeOK
<1>d. t \in Txn /\ t.kind = "grant" /\ t.zone = z /\ t.drone = d
  BY <1>c DEF AskTxn, GrantOf, Txn
<1>e. Execute(t) /\ UNCHANGED <<lock, orphan>>
  BY DEF Ask
<1>f. job[r].asks \in [Drones -> AskState]
  BY <1>b DEF Job
<1>1. /\ job'[r].pc = "ask" /\ job'[r].todo = job[r].todo /\ job'[r].op = job[r].op
      /\ job'[r].asks = [job[r].asks EXCEPT ![d] = Outcome(t)]
      /\ job'[r].zone = z
      /\ job'[r].missing = job[r].missing /\ job'[r].dropped = job[r].dropped
  <2>1. job'[r] = [job[r] EXCEPT !.asks[d] = Outcome(t)]
    BY <1>b, BecomesIt DEF Ask
  <2> HIDE DEF t
  <2>2. QED
    BY <1>a, <1>b, <2>1, Zenon DEF Job
<1> HIDE DEF t, z
<1>3. Alone(r)' /\ (Undisturbed(r)' <=> Undisturbed(r))
  BY <1>b, <1>e, <1>1, AloneKept
<1>4. InPlace(r)'
  BY <1>a, <1>b, <1>1 DEF InPlace
<1>5. CoversHolders(r)'
  BY <1>1 DEF CoversHolders
<1>6. ASSUME Undisturbed(r) PROVE AskedSoFar(r)'
  <2>1. /\ OnlyHeld(z, Granting(r))
        /\ \A e \in Drones : /\ job[r].asks[e] # "error"
                             /\ job[r].asks[e] = "refused" => remaining[z] = 0
    BY <1>a, <1>b, <1>6 DEF AskedSoFar, z
  <2>2. \A e \in Drones : job'[r].asks[e] = IF e = d THEN Outcome(t) ELSE job[r].asks[e]
    BY <1>f, <1>1
  <2>3. d \notin Granting(r)
    BY <1>a DEF Granting
  <2>4. droneClearance[d] = NoZone
    <3>1. \A y \in Zones : d \notin zoneClearance[y]
      BY <2>1, <2>3 DEF OnlyHeld
    <3>2. droneClearance[d] \in Zones \cup {NoZone}
      BY <1>b DEF LedgerTypeOK
    <3>3. QED
      BY <3>1, <3>2 DEF ContendInv, LedgerInv, MirrorsAgree
  <2>5. CASE Outcome(t) = "applied" /\ Grant(z, d)
    <3>1. remaining[z] > 0 /\ remaining[z] \in Int
      BY <1>b, <1>c, <2>5 DEF Grant, GrantGuard, LedgerTypeOK
    <3>2. Granting(r)' = Granting(r) \cup {d}
      BY <2>2, <2>5 DEF Granting
    <3>3. \A y \in Zones : zoneClearance'[y] =
            IF y = z THEN zoneClearance[y] \cup {d} ELSE zoneClearance[y]
      BY <1>b, <1>c, <2>5 DEF Grant, LedgerTypeOK
    <3>4. \A y \in Zones : zoneClearance'[y] = IF y = z THEN Granting(r)' ELSE {}
      BY <1>c, <2>1, <3>2, <3>3 DEF OnlyHeld
    <3>5. \A e \in Drones : job'[r].asks[e] # "error" /\ job'[r].asks[e] # "refused"
      BY <2>1, <2>2, <2>5, <3>1
    <3>6. QED
      BY <1>1, <3>4, <3>5 DEF AskedSoFar, Contended, OnlyHeld
  <2>6. CASE Outcome(t) = "refused" /\ ~GrantGuard(z, d) /\ UNCHANGED ledger
    <3>1. remaining[z] = 0
      <4>1. remaining[z] \in Int /\ remaining[z] >= 0
        BY <1>b, <1>c DEF LedgerTypeOK, ContendInv, LedgerInv, SeedingIsFresh
      <4>2. ~(remaining[z] > 0)
        BY <1>c, <2>4, <2>6 DEF GrantGuard
      <4>3. QED
        BY <4>1, <4>2
    <3>2. Granting(r)' = Granting(r)
      BY <1>a, <2>2, <2>6 DEF Granting
    <3>3. \A y \in Zones : zoneClearance'[y] = IF y = z THEN Granting(r)' ELSE {}
      BY <2>1, <2>6, <3>2 DEF OnlyHeld, ledger
    <3>4. \A e \in Drones : job'[r].asks[e] # "error"
      BY <2>1, <2>2, <2>6
    <3>5. remaining'[z] = 0
      BY <2>6, <3>1 DEF ledger
    <3>6. QED
      BY <1>1, <3>3, <3>4, <3>5 DEF AskedSoFar, Contended, OnlyHeld
  <2>7. QED
    BY <1>b, <1>d, <1>e, <2>5, <2>6, GrantOutcome
<1>7. QED
  BY <1>3, <1>4, <1>5, <1>6 DEF RequestFits

\* The executor is done when every ask has its answer.
LEMMA AsksDoneFits ==
  ASSUME ContendInv, NEW r \in Requests, AsksDone(r)
  PROVE  RequestFits(r)'
<1>a. job[r].pc = "ask" /\ \A d \in Drones : job[r].asks[d] # "out"
  BY DEF AsksDone
<1>b. /\ TypeOK /\ job[r] \in Job /\ Alone(r) /\ InPlace(r)
      /\ Undisturbed(r) => AskedSoFar(r)
  BY <1>a, UnderWay
<1>1. /\ job'[r].pc = "count" /\ job'[r].todo = job[r].todo /\ job'[r].op = job[r].op
      /\ job'[r].asks = job[r].asks /\ job'[r].zone = job[r].zone
      /\ job'[r].missing = job[r].missing /\ job'[r].dropped = job[r].dropped
  BY <1>b, BecomesIt DEF AsksDone, Job
<1>2. UNCHANGED <<ledger, lock, orphan>>
  BY DEF AsksDone
<1>3. Alone(r)' /\ (Undisturbed(r)' <=> Undisturbed(r))
  BY <1>b, <1>1, <1>2, AloneKept
<1>4. InPlace(r)'
  BY <1>a, <1>b, <1>1 DEF InPlace
<1>5. CoversHolders(r)'
  BY <1>1 DEF CoversHolders
<1>6. ASSUME Undisturbed(r) PROVE AskedSoFar(r)'
  <2>1. Granting(r)' = Granting(r)
    BY <1>1 DEF Granting
  <2>2. QED
    BY <1>a, <1>b, <1>1, <1>2, <1>6, <2>1 DEF AskedSoFar, OnlyHeld, Contended, ledger
<1>7. QED
  BY <1>3, <1>4, <1>5, <1>6 DEF RequestFits

\* When all have answered, the count is exact: somebody was refused, and then the
\* zone is full, or nobody was, and then every asker holds a slot.
LEMMA CountIsExact ==
  ASSUME ContendInv, NEW r \in Requests, job[r].pc = "count", Undisturbed(r)
  PROVE  Exact(r) /\ zoneClearance[job[r].zone] = Granting(r)
<1> DEFINE z == job[r].zone
<1>a. /\ TypeOK /\ LedgerTypeOK /\ job[r] \in Job /\ AskedSoFar(r)
  BY UnderWay
<1>b. z \in rows /\ z \in Zones
  BY <1>a DEF ContendInv, LedgerInv, AsksNameARow, TypeOK
<1>c. job[r].asks \in [Drones -> AskState]
  BY <1>a DEF Job
<1>d. zoneClearance[z] = Granting(r)
  BY <1>a, <1>b DEF AskedSoFar, OnlyHeld
<1>e. /\ Capacity[z] = remaining[z] + Cardinality(Granting(r))
      /\ remaining[z] \in Int /\ remaining[z] >= 0 /\ Capacity[z] \in Nat
  BY <1>a, <1>b, <1>d, CapacityAssumption
     DEF ContendInv, LedgerInv, SlotsAddUp, SeedingIsFresh, LedgerTypeOK
<1>f. /\ IsFiniteSet(Granting(r)) /\ IsFiniteSet(Askers(r))
      /\ Granting(r) \subseteq Askers(r)
  BY DronesAssumption, FS_Subset DEF Granting, Askers
<1>g. /\ Cardinality(Granting(r)) \in Nat /\ Cardinality(Askers(r)) \in Nat
      /\ Cardinality(Granting(r)) <= Cardinality(Askers(r))
  BY <1>f, FS_CardinalityType, FS_Subset
<1>1. CASE \E d \in Drones : job[r].asks[d] = "refused"
  <2>1. remaining[z] = 0
    BY <1>1, <1>a DEF AskedSoFar
  <2>2. QED
    BY <1>d, <1>e, <1>g, <2>1 DEF Exact, FewerOf
<1>2. CASE \A d \in Drones : job[r].asks[d] # "refused"
  <2>1. \A d \in Drones : job[r].asks[d] \in {"none", "applied"}
    BY <1>2, <1>a, <1>c DEF AskedSoFar, AskState
  <2>2. Askers(r) = Granting(r)
    BY <2>1 DEF Askers, Granting
  <2>3. QED
    BY <1>d, <1>e, <1>g, <2>2 DEF Exact, FewerOf
<1>3. QED
  BY <1>1, <1>2

\* The zone read afterwards is held by those told "applied".
LEMMA ReadAfterFits ==
  ASSUME ContendInv, NEW r \in Requests, ReadAfter(r)
  PROVE  RequestFits(r)'
<1>a. job[r].pc = "count"
  BY DEF ReadAfter
<1>b. /\ TypeOK /\ job[r] \in Job /\ Alone(r) /\ InPlace(r)
  BY <1>a, UnderWay
<1>1. /\ job'[r].pc = "report" /\ job'[r].todo = job[r].todo /\ job'[r].op = job[r].op
      /\ job'[r].asks = job[r].asks /\ job'[r].zone = job[r].zone
      /\ job'[r].winners = zoneClearance[job[r].zone]
      /\ job'[r].missing = job[r].missing /\ job'[r].dropped = job[r].dropped
  <2>1. job'[r] = [job[r] EXCEPT !.pc = "report", !.winners = zoneClearance[job[r].zone]]
    BY <1>b, BecomesIt DEF ReadAfter
  <2>2. QED
    BY <1>b, <2>1, Zenon DEF Job
<1>2. UNCHANGED <<ledger, lock, orphan>>
  BY DEF ReadAfter
<1>3. Alone(r)' /\ (Undisturbed(r)' <=> Undisturbed(r))
  BY <1>b, <1>1, <1>2, AloneKept
<1>4. InPlace(r)'
  BY <1>b, <1>1 DEF InPlace
<1>5. CoversHolders(r)'
  BY <1>1 DEF CoversHolders
<1>6. ASSUME Undisturbed(r) PROVE AskedSoFar(r)'
  <2>1. Granting(r)' = Granting(r) /\ Askers(r)' = Askers(r)
    BY <1>1 DEF Granting, Askers
  <2>2. Exact(r) /\ zoneClearance[job[r].zone] = Granting(r)
    BY <1>a, <1>6, CountIsExact
  <2>3. Exact(r)'
    BY <1>1, <2>1, <2>2 DEF Exact
  <2>4. QED
    BY <1>1, <2>1, <2>2, <2>3 DEF AskedSoFar
<1>7. QED
  BY <1>3, <1>4, <1>5, <1>6 DEF RequestFits

\* A request that lost an answer promises no more than to be alone and in place.
LEMMA LostFits ==
  ASSUME ContendInv, NEW r \in Requests, Fault(r)
  PROVE  RequestFits(r)'
<1>a. job[r].pc # "idle"
  BY DEF Fault, Abort, ReleaseLost, StepLost, AskLost
<1>b. /\ TypeOK /\ job[r] \in Job /\ Alone(r) /\ InPlace(r)
  BY <1>a, UnderWay
<1>c. ASSUME job'[r].dropped, lock' = lock, InPlace(r)' PROVE RequestFits(r)'
  BY <1>b, <1>c DEF RequestFits, Alone, Undisturbed
<1>1. CASE Abort(r)
  BY <1>1, IdleFits DEF Abort
<1>2. ASSUME NEW o \in Lost, NEW t \in job[r].todo, ReleaseLost(r, t, o)
      PROVE  RequestFits(r)'
  <2>1. /\ job'[r].pc = job[r].pc /\ job'[r].todo = job[r].todo \ {t}
        /\ job'[r].op = job[r].op /\ job'[r].asks = job[r].asks
        /\ job'[r].script = job[r].script /\ job'[r].log = job[r].log
        /\ job'[r].dropped = TRUE
    <3>1. job'[r] = [job[r] EXCEPT !.todo = @ \ {t}, !.dropped = TRUE]
      BY <1>2, <1>b, BecomesIt DEF ReleaseLost
    <3>2. QED
      BY <1>b, <3>1, Zenon DEF Job
  <2>2. InPlace(r)'
    BY <1>b, <2>1 DEF InPlace, Unasked
  <2>3. QED
    BY <1>2, <1>c, <2>1, <2>2 DEF ReleaseLost, Park
<1>3. ASSUME NEW o \in Lost, StepLost(r, o) PROVE RequestFits(r)'
  <2>1. /\ job'[r].pc = "step" /\ job'[r].todo = job[r].todo /\ job'[r].op = job[r].op
        /\ job'[r].dropped = TRUE
    <3>1. job'[r] = [job[r] EXCEPT !.script = Tail(@), !.log = Append(@, "error"),
                                   !.dropped = TRUE]
      BY <1>3, <1>b, BecomesIt DEF StepLost
    <3>2. job[r].pc = "step"
      BY <1>3 DEF StepLost
    <3>3. QED
      BY <1>b, <3>1, <3>2, Zenon DEF Job
  <2>2. InPlace(r)'
    BY <1>3, <1>b, <2>1 DEF InPlace, StepLost
  <2>3. QED
    BY <1>3, <1>c, <2>1, <2>2 DEF StepLost, Park
<1>4. ASSUME NEW o \in Lost, NEW d \in Drones, AskLost(r, d, o) PROVE RequestFits(r)'
  <2>1. /\ job'[r].pc = "ask" /\ job'[r].todo = job[r].todo /\ job'[r].op = job[r].op
        /\ job'[r].dropped = TRUE
    <3>1. job'[r] = [job[r] EXCEPT !.asks[d] = "error", !.dropped = TRUE]
      BY <1>4, <1>b, BecomesIt DEF AskLost
    <3>2. job[r].pc = "ask"
      BY <1>4 DEF AskLost
    <3>3. QED
      BY <1>b, <3>1, <3>2, Zenon DEF Job
  <2>2. InPlace(r)'
    BY <1>4, <1>b, <2>1 DEF InPlace, AskLost
  <2>3. QED
    BY <1>4, <1>c, <2>1, <2>2 DEF AskLost, Park
<1>5. QED
  BY <1>1, <1>2, <1>3, <1>4 DEF Fault

\* The sink adds rows that nobody holds, and leaves the zones in use alone.
LEMMA SinkLeaves ==
  ASSUME LedgerInv, Sink
  PROVE  /\ zoneClearance' = zoneClearance /\ rows \subseteq rows'
         /\ \A z \in rows : remaining'[z] = remaining[z]
         /\ UNCHANGED <<lock, job, orphan>>
<1>1. CASE SeedInsert
  <2>1. seeding \notin rows /\ rows \subseteq Zones /\ remaining \in [Zones -> Int]
    BY DEF LedgerInv, SeedingIsFresh, TypeOK
  <2>2. QED
    BY <1>1, <2>1 DEF SeedInsert, Sink
<1>2. CASE UNCHANGED ledger
  BY <1>2 DEF ledger, Sink
<1>3. QED
  BY <1>1, <1>2 DEF Sink, SeedRead, SeedFail, SeedLost, SeedLands, SinkRestart, LedgerInv,
     SeedingIsFresh

\* Steps that move no zone in use and no request keep what was established.
LEMMA AsideFits ==
  ASSUME ContendInv, zoneClearance' = zoneClearance,
         \A z \in rows : remaining'[z] = remaining[z],
         UNCHANGED <<lock, job, orphan>>
  PROVE  \A r \in Requests : RequestFits(r)'
<1> SUFFICES ASSUME NEW r \in Requests, job[r].pc # "idle"
             PROVE  RequestFits(r)'
  BY DEF RequestFits
<1>a. /\ TypeOK /\ Alone(r) /\ InPlace(r)
      /\ Undisturbed(r) => CoversHolders(r) /\ AskedSoFar(r)
  BY UnderWay
<1>1. Alone(r)' /\ (Undisturbed(r)' <=> Undisturbed(r))
  BY <1>a, AloneKept
<1>2. InPlace(r)'
  BY <1>a DEF InPlace, Unasked
<1>3. ASSUME Undisturbed(r) PROVE CoversHolders(r)' /\ AskedSoFar(r)'
  <2>1. CoversHolders(r)'
    BY <1>a, <1>3 DEF CoversHolders, ReleasesOf
  <2>2. job[r].pc \in {"ask", "count"} => job[r].zone \in rows
    BY DEF ContendInv, LedgerInv, AsksNameARow
  <2>3. Granting(r)' = Granting(r) /\ (Exact(r)' <=> Exact(r))
    BY DEF Granting, Exact, Askers
  <2>4. AskedSoFar(r)'
    BY <1>a, <1>3, <2>2, <2>3 DEF AskedSoFar, OnlyHeld, Contended
  <2>5. QED
    BY <2>1, <2>4
<1>4. QED
  BY <1>1, <1>2, <1>3 DEF RequestFits

\* A late transaction meets no request that has seen all its answers.
LEMMA LateFits ==
  ASSUME ContendInv, NEW o \in Lost, Land(o) \/ Vanish(o)
  PROVE  \A r \in Requests : RequestFits(r)'
<1> SUFFICES ASSUME NEW r \in Requests, job[r].pc # "idle"
             PROVE  RequestFits(r)'
  BY DEF RequestFits, Land, Vanish
<1>a. Alone(r) /\ InPlace(r)
  BY UnderWay
<1>1. UNCHANGED <<lock, job>> /\ SomeOrphan
  BY DEF Land, Vanish, SomeOrphan
<1>2. ~Undisturbed(r)
  BY <1>a, <1>1 DEF Alone
<1>3. ~Undisturbed(r)' /\ lock' = r
  BY <1>a, <1>1, <1>2 DEF Undisturbed, Alone
<1>4. InPlace(r)'
  BY <1>a, <1>1 DEF InPlace, Unasked
<1>5. QED
  BY <1>3, <1>4 DEF RequestFits, Alone

\* Every step keeps every request in place.
LEMMA ContendStep ==
  ASSUME ~LateSeeds, ContendInv, [Next]_vars
  PROVE  ContendInv'
<1>1. LedgerInv'
  BY InvStep DEF ContendInv
<1>a. TypeOK
  BY DEF ContendInv, LedgerInv
<1>2. ASSUME NEW r \in Requests, Progress(r) PROVE \A q \in Requests : RequestFits(q)'
  <2>1. job[r].pc # "idle" /\ \E j : Becomes(r, j)
    BY <1>2 DEF Progress, ReadOccupancy, ReadHolders, ScanDone, ReleaseOne, ResetDone,
       Step, StepsDone, ReadBefore, Ask, AsksDone, ReadAfter, Finish
  <2>2. ASSUME Finish(r) PROVE RequestFits(r)'
    BY <2>2, IdleFits DEF Finish
  <2>3. RequestFits(r)'
    BY <1>2, <2>2, ReadOccupancyFits, ReadHoldersFits, ScanDoneFits, ReleaseOneFits,
       ResetDoneFits, StepFits, StepsDoneFits, ReadBeforeFits, AskFits, AsksDoneFits,
       ReadAfterFits DEF Progress
  <2>4. QED
    BY <2>1, <2>3, OnlyItMatters
<1>3. ASSUME NEW r \in Requests, Fault(r) PROVE \A q \in Requests : RequestFits(q)'
  <2>1. job[r].pc # "idle" /\ \E j : Becomes(r, j)
    BY <1>3 DEF Fault, Abort, ReleaseLost, StepLost, AskLost
  <2>2. QED
    BY <1>3, <2>1, LostFits, OnlyItMatters
<1>4. ASSUME Sink PROVE \A q \in Requests : RequestFits(q)'
  BY <1>4, SinkLeaves, AsideFits DEF ContendInv
<1>5. ASSUME UNCHANGED vars PROVE \A q \in Requests : RequestFits(q)'
  BY <1>5, AsideFits DEF vars
<1>6. \A q \in Requests : RequestFits(q)'
  BY <1>2, <1>3, <1>4, <1>5, StartFits, LateFits DEF Next
<1>7. QED
  BY <1>1, <1>6 DEF ContendInv

\* The invariant of the contention holds in every reachable state.
LEMMA ContendInvHolds ==
  ASSUME ~LateSeeds
  PROVE  Spec => []ContendInv
<1>1. Init => ContendInv
  <2> SUFFICES ASSUME Init PROVE ContendInv
    OBVIOUS
  <2>1. \A r \in Requests : job[r].pc = "idle"
    BY DEF Init, IdleJob
  <2>2. QED
    BY <2>1, InitInv DEF ContendInv, RequestFits
<1>2. ContendInv /\ [Next]_vars => ContendInv'
  BY ContendStep
<1>3. QED
  BY <1>1, <1>2, PTL DEF Spec

\* When every answer arrived, overlapping asks admit exactly as many drones as the
\* zone has slots or askers, and the winners read afterwards are those told
\* "applied", however many requests compete and whatever was lost before.
THEOREM ContentionIsExact ==
  ASSUME ~LateSeeds
  PROVE  Spec => []ContendCountsExactly
<1>1. ContendInv => ContendCountsExactly
  BY DEF ContendInv, RequestFits, AskedSoFar, ContendCountsExactly, Contended
<1>2. QED
  BY <1>1, ContendInvHolds, PTL

-----------------------------------------------------------------------------
(* The scripted demo *)

\* clearance_demo's script: seven steps on a zone of two slots, by three drones of
\* which the first two differ, and whatever repeats are measured after them.
DemoIs(zone, other, first, second, third) ==
    /\ zone \in Zones /\ other \in Zones
    /\ {first, second, third} \subseteq Drones /\ first # second
    /\ Capacity[zone] = 2
    /\ Len(DemoScript) >= 7
    /\ \A i \in 1..7 :
          DemoScript[i] = SevenSteps(zone, other, first, second, third)[i]

Story == <<"applied", "refused", "refused", "applied", "refused", "applied", "refused">>

\* The holders of the demo's zone after n of its steps.
HeldAfter(n, first, second) ==
    CASE n <= 3      -> {first}
      [] n \in {4, 5} -> {first, second}
      [] OTHER       -> {second}

\* What the log and the zones say after so many steps, if the first was applied.
StorySoFar(r, zone, first, second) ==
    job[r].op = "demo" =>
      /\ job[r].pc = "step" =>
            /\ Len(job[r].script) + Len(job[r].log) = Len(DemoScript)
            /\ \A i \in 1..Len(job[r].script) :
                  job[r].script[i] = DemoScript[Len(job[r].log) + i]
            /\ job[r].log = <<>> => OnlyHeld(zone, {})
            /\ Len(job[r].log) > 0 /\ job[r].log[1] = "applied" =>
                  /\ \A i \in 1..7 : i <= Len(job[r].log) => job[r].log[i] = Story[i]
                  /\ Len(job[r].log) <= 6 =>
                        OnlyHeld(zone, HeldAfter(Len(job[r].log), first, second))
      /\ job[r].pc = "report" =>
            /\ Len(job[r].log) >= 7
            /\ job[r].log[1] = "applied" => \A i \in 1..7 : job[r].log[i] = Story[i]

\* The inductive invariant of the demo.
DemoFits(r, zone, first, second) ==
    job[r].pc # "idle" /\ Undisturbed(r) => StorySoFar(r, zone, first, second)

StoryInv(zone, first, second) ==
    ContendInv /\ \A r \in Requests : DemoFits(r, zone, first, second)

\* A grant to a drone that holds a clearance is refused, into whatever zone.
LEMMA HolderIsRefused ==
  ASSUME LedgerInv, NEW z \in Zones, NEW y \in Zones, NEW d \in zoneClearance[z],
         Execute(GrantOf(y, d))
  PROVE  Outcome(GrantOf(y, d)) = "refused" /\ UNCHANGED ledger
<1>a. LedgerTypeOK /\ MirrorsAgree
  BY DEF LedgerInv, TypeOK, LedgerTypeOK
<1>b. d \in Drones /\ droneClearance[d] # NoZone
  BY <1>a, NoZoneAssumption DEF MirrorsAgree, LedgerTypeOK
<1>1. /\ GrantOf(y, d) \in Txn /\ GrantOf(y, d).kind = "grant"
      /\ GrantOf(y, d).zone = y /\ GrantOf(y, d).drone = d
  BY <1>b DEF GrantOf, Txn
<1>2. ~Grant(y, d)
  BY <1>b DEF Grant, GrantGuard
<1>3. QED
  BY <1>a, <1>1, <1>2, GrantOutcome

\* A grant to a drone without a clearance is refused by a full zone ...
LEMMA FullIsRefused ==
  ASSUME LedgerInv, NEW z \in Zones, NEW d \in Drones, remaining[z] = 0,
         Execute(GrantOf(z, d))
  PROVE  Outcome(GrantOf(z, d)) = "refused" /\ UNCHANGED ledger
<1>a. LedgerTypeOK
  BY DEF LedgerInv, TypeOK, LedgerTypeOK
<1>1. /\ GrantOf(z, d) \in Txn /\ GrantOf(z, d).kind = "grant"
      /\ GrantOf(z, d).zone = z /\ GrantOf(z, d).drone = d
  BY DEF GrantOf, Txn
<1>2. ~Grant(z, d)
  BY DEF Grant, GrantGuard
<1>3. QED
  BY <1>a, <1>1, <1>2, GrantOutcome

\* ... and takes a slot of a zone that has one.
LEMMA FreeIsGranted ==
  ASSUME LedgerInv, NEW z \in rows, NEW d \in Drones, remaining[z] > 0,
         \A y \in Zones : d \notin zoneClearance[y], Execute(GrantOf(z, d))
  PROVE  /\ Outcome(GrantOf(z, d)) = "applied"
         /\ \A y \in Zones : zoneClearance'[y] =
               IF y = z THEN zoneClearance[z] \cup {d} ELSE zoneClearance[y]
<1>a. LedgerTypeOK /\ MirrorsAgree /\ z \in Zones
  BY DEF LedgerInv, TypeOK, LedgerTypeOK
<1>b. droneClearance[d] = NoZone
  BY <1>a DEF MirrorsAgree, LedgerTypeOK
<1>1. /\ GrantOf(z, d) \in Txn /\ GrantOf(z, d).kind = "grant"
      /\ GrantOf(z, d).zone = z /\ GrantOf(z, d).drone = d
  BY <1>a DEF GrantOf, Txn
<1>2. GrantGuard(z, d)
  BY <1>b DEF GrantGuard
<1>3. Outcome(GrantOf(z, d)) = "applied" /\ Grant(z, d)
  BY <1>a, <1>1, <1>2, GrantOutcome
<1>4. QED
  BY <1>a, <1>3 DEF Grant, LedgerTypeOK

\* A holder's release gives its slot back; nobody else's does anything.
LEMMA HolderIsReleased ==
  ASSUME LedgerInv, NEW z \in Zones, NEW d \in Drones, Execute(ReleaseOf(z, d))
  PROVE  /\ d \in zoneClearance[z] =>
              /\ Outcome(ReleaseOf(z, d)) = "applied"
              /\ \A y \in Zones : zoneClearance'[y] =
                    IF y = z THEN zoneClearance[z] \ {d} ELSE zoneClearance[y]
         /\ d \notin zoneClearance[z] => Outcome(ReleaseOf(z, d)) = "refused"
<1>a. LedgerTypeOK /\ MirrorsAgree
  BY DEF LedgerInv, TypeOK, LedgerTypeOK
<1>1. /\ ReleaseOf(z, d) \in Txn /\ ReleaseOf(z, d).kind = "release"
      /\ ReleaseOf(z, d).zone = z /\ ReleaseOf(z, d).drone = d
  BY DEF ReleaseOf, Txn
<1>2. ReleaseGuard(z, d) <=> d \in zoneClearance[z]
  BY <1>a DEF ReleaseGuard, MirrorsAgree
<1>3. CASE d \in zoneClearance[z]
  <2>1. Outcome(ReleaseOf(z, d)) = "applied" /\ Release(z, d)
    BY <1>a, <1>1, <1>2, <1>3, ReleaseOutcome
  <2>2. QED
    BY <1>a, <1>3, <2>1 DEF Release, LedgerTypeOK
<1>4. CASE d \notin zoneClearance[z]
  <2>1. ~Release(z, d)
    BY <1>2, <1>4 DEF Release
  <2>2. QED
    BY <1>a, <1>1, <1>4, <2>1, ReleaseOutcome
<1>5. QED
  BY <1>3, <1>4

\* The free slots of a zone of two, by who holds it.
LEMMA TwoSlots ==
  ASSUME LedgerInv, NEW z \in Zones, Capacity[z] = 2, NEW d \in Drones, NEW e \in Drones,
         d # e
  PROVE  /\ zoneClearance[z] = {d} => z \in rows /\ remaining[z] = 1
         /\ zoneClearance[z] = {d, e} => z \in rows /\ remaining[z] = 0
<1>1. Cardinality({d}) = 1
  BY FS_Singleton
<1>2. Cardinality({d, e}) = 2
  <2>1. IsFiniteSet({d}) /\ e \notin {d}
    BY FS_Singleton
  <2>2. Cardinality({d} \cup {e}) = Cardinality({d}) + 1
    BY <2>1, FS_AddElement
  <2>3. {d} \cup {e} = {d, e}
    OBVIOUS
  <2>4. QED
    BY <1>1, <2>2, <2>3
<1>3. zoneClearance[z] # {} => z \in rows
  BY DEF LedgerInv, SeedingIsFresh
<1>4. z \in rows => 2 = remaining[z] + Cardinality(zoneClearance[z])
  BY DEF LedgerInv, SlotsAddUp
<1>5. remaining[z] \in Int
  BY DEF LedgerInv, TypeOK
<1>6. ASSUME zoneClearance[z] = {d} PROVE z \in rows /\ remaining[z] = 1
  <2>1. z \in rows /\ Cardinality(zoneClearance[z]) = 1
    BY <1>1, <1>3, <1>6
  <2>2. QED
    BY <1>4, <1>5, <2>1
<1>7. ASSUME zoneClearance[z] = {d, e} PROVE z \in rows /\ remaining[z] = 0
  <2>1. z \in rows /\ Cardinality(zoneClearance[z]) = 2
    BY <1>2, <1>3, <1>7
  <2>2. QED
    BY <1>4, <1>5, <2>1
<1>8. QED
  BY <1>6, <1>7

\* After the step, zone z is held by the drones of S, and no other zone by anyone.
WillHold(z, S) == \A y \in Zones : zoneClearance'[y] = IF y = z THEN S ELSE {}

\* The first step, if it is applied, gives the zone to the first drone.
LEMMA StoryBegins ==
  ASSUME LedgerInv, NEW zone, NEW other, NEW first, NEW second, NEW third,
         DemoIs(zone, other, first, second, third), OnlyHeld(zone, {}),
         Execute(DemoScript[1]), Outcome(DemoScript[1]) = "applied"
  PROVE  WillHold(zone, HeldAfter(1, first, second))
<1>1. DemoScript[1] = GrantOf(zone, first) /\ zone \in Zones /\ first \in Drones
  BY DEF DemoIs, SevenSteps
<1>2. LedgerTypeOK
  BY DEF LedgerInv, TypeOK, LedgerTypeOK
<1>3. /\ GrantOf(zone, first) \in Txn /\ GrantOf(zone, first).kind = "grant"
      /\ GrantOf(zone, first).zone = zone /\ GrantOf(zone, first).drone = first
  BY <1>1 DEF GrantOf, Txn
<1>4. Grant(zone, first)
  BY <1>1, <1>2, <1>3, GrantOutcome
<1>5. \A y \in Zones : zoneClearance'[y] = IF y = zone THEN {first} ELSE {}
  BY <1>1, <1>2, <1>4 DEF Grant, LedgerTypeOK, OnlyHeld
<1>6. HeldAfter(1, first, second) = {first}
  BY DEF HeldAfter
<1>7. QED
  BY <1>5, <1>6 DEF WillHold

\* Each of the six steps that follow ends as the docstring says, and leaves the
\* zone to the drones it says.
LEMMA StoryGoesOn ==
  ASSUME LedgerInv, NEW zone, NEW other, NEW first, NEW second, NEW third,
         DemoIs(zone, other, first, second, third), NEW n \in 1..6,
         OnlyHeld(zone, HeldAfter(n, first, second)), Execute(DemoScript[n + 1])
  PROVE  /\ Outcome(DemoScript[n + 1]) = Story[n + 1]
         /\ n < 6 => WillHold(zone, HeldAfter(n + 1, first, second))
<1>a. /\ zone \in Zones /\ other \in Zones /\ Capacity[zone] = 2
      /\ first \in Drones /\ second \in Drones /\ third \in Drones /\ first # second
  BY DEF DemoIs
<1>b. /\ zoneClearance[zone] = {first} => zone \in rows /\ remaining[zone] = 1
      /\ zoneClearance[zone] = {first, second} => remaining[zone] = 0
  BY <1>a, TwoSlots
<1>c. \A y \in Zones : zoneClearance[y] =
         IF y = zone THEN HeldAfter(n, first, second) ELSE {}
  BY DEF OnlyHeld
<1>1. CASE n \in {1, 2}
  <2>1. HeldAfter(n, first, second) = {first} /\ HeldAfter(n + 1, first, second) = {first}
    BY <1>1 DEF HeldAfter
  <2>2. first \in zoneClearance[zone]
    BY <1>a, <1>c, <2>1
  <2>3. PICK y \in Zones : DemoScript[n + 1] = GrantOf(y, first)
    BY <1>1, <1>a DEF DemoIs, SevenSteps
  <2>4. Outcome(DemoScript[n + 1]) = "refused" /\ UNCHANGED ledger
    BY <1>a, <2>2, <2>3, HolderIsRefused
  <2>5. Story[n + 1] = "refused"
    BY <1>1 DEF Story
  <2>6. WillHold(zone, HeldAfter(n + 1, first, second))
    BY <1>c, <2>1, <2>4 DEF WillHold, ledger
  <2>7. QED
    BY <2>4, <2>5, <2>6
<1>2. CASE n = 3
  <2>1. /\ HeldAfter(n, first, second) = {first}
        /\ HeldAfter(n + 1, first, second) = {first, second}
    BY <1>2 DEF HeldAfter
  <2>2. DemoScript[n + 1] = GrantOf(zone, second) /\ Story[n + 1] = "applied"
    BY <1>2 DEF DemoIs, SevenSteps, Story
  <2>3. /\ zone \in rows /\ remaining[zone] > 0
        /\ \A y \in Zones : second \notin zoneClearance[y]
    BY <1>a, <1>b, <1>c, <2>1
  <2>e. Execute(GrantOf(zone, second))
    BY <2>2
  <2>4. /\ Outcome(GrantOf(zone, second)) = "applied"
        /\ \A y \in Zones : zoneClearance'[y] =
              IF y = zone THEN zoneClearance[zone] \cup {second} ELSE zoneClearance[y]
    BY <1>a, <2>e, <2>3, FreeIsGranted, Zenon
  <2>5. WillHold(zone, HeldAfter(n + 1, first, second))
    BY <1>a, <1>c, <2>1, <2>4 DEF WillHold
  <2>6. QED
    BY <2>2, <2>4, <2>5
<1>3. CASE n = 4
  <2>1. /\ HeldAfter(n, first, second) = {first, second}
        /\ HeldAfter(n + 1, first, second) = {first, second}
    BY <1>3 DEF HeldAfter
  <2>2. DemoScript[n + 1] = GrantOf(zone, third) /\ Story[n + 1] = "refused"
    BY <1>3 DEF DemoIs, SevenSteps, Story
  <2>3. Outcome(GrantOf(zone, third)) = "refused" /\ UNCHANGED ledger
    BY <1>a, <1>b, <1>c, <2>1, <2>2, FullIsRefused
  <2>4. WillHold(zone, HeldAfter(n + 1, first, second))
    BY <1>c, <2>1, <2>3 DEF WillHold, ledger
  <2>5. QED
    BY <2>2, <2>3, <2>4
<1>4. CASE n = 5
  <2>1. /\ HeldAfter(n, first, second) = {first, second}
        /\ HeldAfter(n + 1, first, second) = {second}
    BY <1>4 DEF HeldAfter
  <2>2. DemoScript[n + 1] = ReleaseOf(zone, first) /\ Story[n + 1] = "applied"
    BY <1>4 DEF DemoIs, SevenSteps, Story
  <2>3. zoneClearance[zone] = {first, second}
    BY <1>a, <1>c, <2>1
  <2>4. /\ Outcome(ReleaseOf(zone, first)) = "applied"
        /\ \A y \in Zones : zoneClearance'[y] =
              IF y = zone THEN zoneClearance[zone] \ {first} ELSE zoneClearance[y]
    BY <1>a, <2>2, <2>3, HolderIsReleased
  <2>5. {first, second} \ {first} = {second}
    BY <1>a
  <2>6. WillHold(zone, HeldAfter(n + 1, first, second))
    BY <1>c, <2>1, <2>3, <2>4, <2>5 DEF WillHold
  <2>7. QED
    BY <2>2, <2>4, <2>6
<1>5. CASE n = 6
  <2>1. HeldAfter(n, first, second) = {second}
    BY <1>5 DEF HeldAfter
  <2>2. DemoScript[n + 1] = ReleaseOf(zone, first) /\ Story[n + 1] = "refused"
    BY <1>5 DEF DemoIs, SevenSteps, Story
  <2>3. first \notin zoneClearance[zone]
    BY <1>a, <1>c, <2>1
  <2>4. Outcome(ReleaseOf(zone, first)) = "refused"
    BY <1>a, <2>2, <2>3, HolderIsReleased
  <2>5. QED
    BY <1>5, <2>2, <2>4
<1>6. QED
  BY <1>1, <1>2, <1>3, <1>4, <1>5

\* One scripted step of the demo.
LEMMA DemoStep ==
  ASSUME NEW zone, NEW other, NEW first, NEW second, NEW third,
         DemoIs(zone, other, first, second, third), StoryInv(zone, first, second),
         NEW r \in Requests, Step(r), Undisturbed(r)
  PROVE  StorySoFar(r, zone, first, second)'
<1> DEFINE log == job[r].log
           script == job[r].script
           n == Len(log)
           t == Head(script)
<1>a. /\ LedgerInv /\ TypeOK /\ job[r] \in Job
      /\ job[r].pc = "step" /\ script # <<>> /\ Execute(t)
  BY DEF StoryInv, ContendInv, LedgerInv, TypeOK, Step
<1>b. job'[r] = [job[r] EXCEPT !.script = Tail(@), !.log = Append(@, Outcome(t))]
  BY <1>a, BecomesIt DEF Step
<1>c. /\ job'[r].pc = "step" /\ job'[r].op = job[r].op
      /\ job'[r].script = Tail(script) /\ job'[r].log = Append(log, Outcome(t))
  <2> HIDE DEF t
  <2>1. QED
    BY <1>a, <1>b, Zenon DEF Job
<1>d. log \in Seq({"applied", "refused", "error"}) /\ script \in Seq(Txn)
  BY <1>a DEF Job
<1> SUFFICES ASSUME job[r].op = "demo" PROVE StorySoFar(r, zone, first, second)'
  BY <1>c DEF StorySoFar
<1>e. /\ Len(script) + n = Len(DemoScript)
      /\ \A i \in 1..Len(script) : script[i] = DemoScript[n + i]
      /\ log = <<>> => OnlyHeld(zone, {})
      /\ n > 0 /\ log[1] = "applied" =>
            /\ \A i \in 1..7 : i <= n => log[i] = Story[i]
            /\ n <= 6 => OnlyHeld(zone, HeldAfter(n, first, second))
  BY <1>a DEF StoryInv, DemoFits, StorySoFar
<1>f. t = script[1] /\ n \in Nat /\ Len(script) \in Nat /\ Len(script) > 0
  BY <1>a, <1>d
<1>g. t = DemoScript[n + 1]
  BY <1>e, <1>f
<1>h. /\ Len(job'[r].log) = n + 1 /\ job'[r].log[n + 1] = Outcome(t)
      /\ \A i \in 1..n : job'[r].log[i] = log[i]
  BY <1>c, <1>d, OutcomeType
<1>i. /\ Len(job'[r].script) = Len(script) - 1
      /\ \A i \in 1..Len(job'[r].script) : job'[r].script[i] = script[i + 1]
  BY <1>c, <1>d, <1>f
<1>j. Len(DemoScript) \in Nat
  BY ScriptAssumption
<1> HIDE DEF t, log, script, n
<1>1. /\ Len(job'[r].script) + Len(job'[r].log) = Len(DemoScript)
      /\ \A i \in 1..Len(job'[r].script) :
            job'[r].script[i] = DemoScript[Len(job'[r].log) + i]
  <2>1. Len(job'[r].script) + Len(job'[r].log) = Len(DemoScript)
    BY <1>e, <1>f, <1>h, <1>i, <1>j
  <2>2. ASSUME NEW i \in 1..Len(job'[r].script)
        PROVE  job'[r].script[i] = DemoScript[Len(job'[r].log) + i]
    <3>1. i + 1 \in 1..Len(script) /\ i \in Int
      BY <1>f, <1>i
    <3>2. job'[r].script[i] = DemoScript[n + (i + 1)]
      BY <1>e, <1>i, <3>1
    <3>3. n + (i + 1) = Len(job'[r].log) + i
      BY <1>f, <1>h, <3>1
    <3>4. QED
      BY <3>2, <3>3
  <2>3. QED
    BY <2>1, <2>2
<1>2. job'[r].log # <<>>
  BY <1>f, <1>h
<1>3. ASSUME job'[r].log[1] = "applied"
      PROVE  /\ \A i \in 1..7 : i <= Len(job'[r].log) => job'[r].log[i] = Story[i]
             /\ Len(job'[r].log) <= 6 =>
                   WillHold(zone, HeldAfter(Len(job'[r].log), first, second))
  <2>1. CASE n = 0
    <3>1. Outcome(DemoScript[1]) = "applied" /\ OnlyHeld(zone, {})
      <4>1. Len(job'[r].log) = 1 /\ Outcome(t) = "applied" /\ t = DemoScript[1]
        BY <1>3, <1>g, <1>h, <2>1
      <4>2. log = <<>>
        BY <1>d, <2>1 DEF n
      <4>3. QED
        BY <1>e, <4>1, <4>2
    <3>2. WillHold(zone, HeldAfter(1, first, second))
      BY <1>a, <1>g, <2>1, <3>1, StoryBegins
    <3>3. Story[1] = "applied" /\ Len(job'[r].log) = 1
      BY <1>h, <2>1 DEF Story
    <3>4. QED
      BY <1>3, <3>2, <3>3
  <2>2. CASE n > 0
    <3>1. log[1] = "applied"
      BY <1>3, <1>f, <1>h, <2>2
    <3>2. \A i \in 1..7 : i <= n => job'[r].log[i] = Story[i]
      BY <1>e, <1>f, <1>h, <2>2, <3>1
    <3>3. CASE n <= 6
      <4>1. n \in 1..6
        BY <1>f, <2>2, <3>3
      <4>2. /\ Outcome(t) = Story[n + 1]
            /\ n < 6 => WillHold(zone, HeldAfter(n + 1, first, second))
        BY <1>a, <1>e, <1>g, <2>2, <3>1, <3>3, <4>1, StoryGoesOn
      <4>3. ASSUME NEW i \in 1..7, i <= n + 1 PROVE job'[r].log[i] = Story[i]
        <5>1. i <= n \/ i = n + 1
          BY <1>f, <4>3
        <5>2. QED
          BY <1>h, <3>2, <4>2, <5>1
      <4>4. Len(job'[r].log) <= 6 => n < 6
        BY <1>f, <1>h
      <4>5. QED
        BY <1>h, <4>2, <4>3, <4>4
    <3>4. CASE n > 6
      <4>1. \A i \in 1..7 : i <= n
        BY <1>f, <3>4
      <4>2. ~(Len(job'[r].log) <= 6)
        BY <1>f, <1>h, <3>4
      <4>3. QED
        BY <3>2, <4>1, <4>2
    <3>5. QED
      BY <1>f, <3>3, <3>4
  <2>3. QED
    BY <1>f, <2>1, <2>2
<1>4. QED
  BY <1>c, <1>1, <1>2, <1>3 DEF StorySoFar, OnlyHeld, WillHold

\* Only one request is under way, so only that one's story is to be looked at.
LEMMA OnlyItsStory ==
  ASSUME NEW zone, NEW first, NEW second, StoryInv(zone, first, second),
         NEW r \in Requests, NEW j, Becomes(r, j), lock = Free \/ job[r].pc # "idle",
         DemoFits(r, zone, first, second)'
  PROVE  \A q \in Requests : DemoFits(q, zone, first, second)'
<1>1. \A q \in Requests \ {r} : job'[q].pc = "idle"
  BY OthersIdle, BecomesIt DEF StoryInv, ContendInv, LedgerInv
<1>2. QED
  BY <1>1 DEF DemoFits

\* A request that has no story to tell.
LEMMA NoStory ==
  ASSUME NEW zone, NEW first, NEW second, NEW r,
         \/ job'[r].op # "demo"
         \/ job'[r].pc \notin {"step", "report"}
         \/ job'[r].dropped = TRUE
  PROVE  DemoFits(r, zone, first, second)'
  BY DEF DemoFits, StorySoFar, Undisturbed

\* Nor has one that is through.
LEMMA IdleStory ==
  ASSUME NEW zone, NEW first, NEW second, TypeOK, NEW r \in Requests, Becomes(r, IdleJob)
  PROVE  DemoFits(r, zone, first, second)'
<1>1. job'[r].pc = "idle"
  BY BecomesIt DEF IdleJob
<1>2. QED
  BY <1>1, NoStory

\* A request that starts has none yet.
LEMMA StartStory ==
  ASSUME NEW zone, NEW first, NEW second, StoryInv(zone, first, second),
         NEW r \in Requests, Start(r)
  PROVE  \A q \in Requests : DemoFits(q, zone, first, second)'
<1>a. TypeOK
  BY DEF StoryInv, ContendInv, LedgerInv
<1>b. lock = Free /\ \E j : Becomes(r, j)
  BY DEF Start, StartOne, StartReset, StartDemo, StartContend, Acquire
<1>1. ASSUME NEW kind \in {"grant", "release"}, NEW z \in Zones, NEW d \in Drones,
             StartOne(r, kind, z, d)
      PROVE  job'[r].op = kind
  <2>1. job'[r] = [IdleJob EXCEPT !.op = kind, !.pc = "step",
                     !.script = <<[kind |-> kind, zone |-> z, drone |-> d]>>,
                     !.missing = SomeOrphan]
    BY <1>1, <1>a, BecomesIt DEF StartOne
  <2>2. QED
    BY <2>1, IdleJobType, Zenon DEF Job
<1>2. ASSUME StartReset(r) PROVE job'[r].op = "reset"
  <2>1. job'[r] = [IdleJob EXCEPT !.op = "reset", !.pc = "occupancy",
                                  !.missing = SomeOrphan]
    BY <1>2, <1>a, BecomesIt DEF StartReset
  <2>2. QED
    BY <2>1, IdleJobType, Zenon DEF Job
<1>3. ASSUME StartDemo(r) PROVE job'[r].pc = "occupancy"
  <2>1. job'[r] = [IdleJob EXCEPT !.op = "demo", !.pc = "occupancy",
                                  !.script = DemoScript, !.missing = SomeOrphan]
    BY <1>3, <1>a, BecomesIt DEF StartDemo
  <2>2. QED
    BY <2>1, IdleJobType, Zenon DEF Job
<1>4. ASSUME NEW z \in Zones, NEW fleet \in Fleets, StartContend(r, z, fleet)
      PROVE  job'[r].op = "contend"
  <2> DEFINE out == [d \in Drones |-> IF d \in fleet THEN "out" ELSE "none"]
  <2>1. job'[r] = [IdleJob EXCEPT !.op = "contend", !.pc = "occupancy", !.zone = z,
                                  !.asks = out, !.missing = SomeOrphan]
    BY <1>4, <1>a, BecomesIt DEF StartContend
  <2> HIDE DEF out
  <2>2. QED
    BY <2>1, IdleJobType, Zenon DEF Job
<1>5. job'[r].op # "demo" \/ job'[r].pc = "occupancy"
  BY <1>1, <1>2, <1>3, <1>4 DEF Start
<1>6. DemoFits(r, zone, first, second)'
  BY <1>5, NoStory
<1>7. QED
  BY <1>b, <1>6, OnlyItsStory

\* A request under way tells its story as far as it has come.
LEMMA ProgressStory ==
  ASSUME NEW zone, NEW other, NEW first, NEW second, NEW third,
         DemoIs(zone, other, first, second, third), StoryInv(zone, first, second),
         NEW r \in Requests, Progress(r)
  PROVE  \A q \in Requests : DemoFits(q, zone, first, second)'
<1>a. /\ ContendInv /\ TypeOK /\ job[r] \in Job /\ DemoFits(r, zone, first, second)
  BY DEF StoryInv, ContendInv, LedgerInv, TypeOK
<1>b. job[r].pc # "idle" /\ \E j : Becomes(r, j)
  BY DEF Progress, ReadOccupancy, ReadHolders, ScanDone, ReleaseOne, ResetDone,
     Step, StepsDone, ReadBefore, Ask, AsksDone, ReadAfter, Finish
<1>c. InPlace(r)
  BY <1>a, <1>b, UnderWay
<1> SUFFICES DemoFits(r, zone, first, second)'
  BY <1>b, OnlyItsStory
<1>1. CASE ReadOccupancy(r)
  <2>1. job'[r] = [job[r] EXCEPT !.pc = "holders", !.left = rows]
    BY <1>1, <1>a, BecomesIt DEF ReadOccupancy
  <2>2. job'[r].pc = "holders"
    BY <1>a, <2>1, Zenon DEF Job
  <2>3. QED
    BY <2>2, NoStory
<1>2. ASSUME NEW z \in Zones, ReadHolders(r, z) PROVE DemoFits(r, zone, first, second)'
  <2>1. job'[r] = [job[r] EXCEPT !.left = @ \ {z}, !.todo = @ \cup ReleasesOf(z)]
    BY <1>2, <1>a, BecomesIt DEF ReadHolders
  <2>2. job'[r].pc = job[r].pc
    BY <1>a, <2>1, Zenon DEF Job
  <2>3. QED
    BY <1>2, <2>2, NoStory DEF ReadHolders
<1>3. CASE ScanDone(r)
  <2>1. job'[r].pc = "release"
    BY <1>3, <1>a, BecomesIt DEF ScanDone, Job
  <2>2. QED
    BY <2>1, NoStory
<1>4. ASSUME NEW t \in job[r].todo, ReleaseOne(r, t)
      PROVE  DemoFits(r, zone, first, second)'
  <2>1. job'[r] = [job[r] EXCEPT !.todo = @ \ {t}]
    BY <1>4, <1>a, BecomesIt DEF ReleaseOne
  <2>2. job'[r].pc = job[r].pc
    BY <1>a, <2>1, Zenon DEF Job
  <2>3. QED
    BY <1>4, <2>2, NoStory DEF ReleaseOne
<1>5. CASE ResetDone(r)
  <2>1. /\ job'[r].pc = AfterReset(job[r].op) /\ job'[r].op = job[r].op
        /\ job'[r].script = job[r].script /\ job'[r].log = job[r].log
        /\ job'[r].missing = job[r].missing /\ job'[r].dropped = job[r].dropped
    BY <1>5, <1>a, BecomesIt DEF ResetDone, Job
  <2>2. CASE job[r].op = "demo" /\ Undisturbed(r)
    <3>1. /\ job'[r].pc = "step" /\ job'[r].log = <<>> /\ job'[r].script = DemoScript
      BY <1>5, <1>c, <2>1, <2>2 DEF InPlace, ResetDone, AfterReset
    <3>2. \A y \in Zones : zoneClearance'[y] = {}
      BY <1>5, <1>a, <2>2, ResetDoneEmpties DEF ResetDone, ledger
    <3>3. OnlyHeld(zone, {})'
      BY <3>2 DEF OnlyHeld
    <3>4. Len(DemoScript) \in Nat /\ Len(job'[r].log) = 0
      BY <3>1, ScriptAssumption
    <3>5. StorySoFar(r, zone, first, second)'
      BY <3>1, <3>3, <3>4 DEF StorySoFar
    <3>6. QED
      BY <3>5 DEF DemoFits
  <2>3. CASE job[r].op # "demo"
    BY <2>1, <2>3, NoStory
  <2>4. CASE ~Undisturbed(r)
    BY <2>1, <2>4 DEF DemoFits, Undisturbed
  <2>5. QED
    BY <2>2, <2>3, <2>4
<1>6. CASE Step(r)
  <2>1. CASE Undisturbed(r)
    BY <1>6, <2>1, DemoStep DEF DemoFits
  <2>2. CASE ~Undisturbed(r)
    <3> DEFINE o == Outcome(Head(job[r].script))
    <3>1. job'[r] = [job[r] EXCEPT !.script = Tail(@), !.log = Append(@, o)]
      BY <1>6, <1>a, BecomesIt DEF Step
    <3> HIDE DEF o
    <3>2. job'[r].missing = job[r].missing /\ job'[r].dropped = job[r].dropped
      BY <1>a, <3>1, Zenon DEF Job
    <3>3. QED
      BY <2>2, <3>2 DEF DemoFits, Undisturbed
  <2>3. QED
    BY <2>1, <2>2
<1>7. CASE StepsDone(r)
  <2>1. /\ job'[r].pc = "report" /\ job'[r].op = job[r].op
        /\ job'[r].log = job[r].log
        /\ job'[r].missing = job[r].missing /\ job'[r].dropped = job[r].dropped
        /\ job[r].pc = "step" /\ job[r].script = <<>>
    BY <1>7, <1>a, BecomesIt DEF StepsDone, Job
  <2>2. CASE job[r].op = "demo" /\ Undisturbed(r)
    <3>1. /\ Len(job[r].script) + Len(job[r].log) = Len(DemoScript)
          /\ Len(job[r].log) > 0 /\ job[r].log[1] = "applied" =>
                \A i \in 1..7 : i <= Len(job[r].log) => job[r].log[i] = Story[i]
      BY <1>a, <2>1, <2>2 DEF DemoFits, StorySoFar
    <3>2. Len(job[r].log) \in Nat /\ Len(job[r].script) = 0
      BY <1>a, <2>1 DEF Job
    <3>3. Len(job[r].log) >= 7 /\ \A i \in 1..7 : i <= Len(job[r].log)
      BY <3>1, <3>2 DEF DemoIs
    <3>4. job[r].log[1] = "applied" => \A i \in 1..7 : job[r].log[i] = Story[i]
      BY <3>1, <3>2, <3>3
    <3>5. StorySoFar(r, zone, first, second)'
      BY <2>1, <3>3, <3>4 DEF StorySoFar
    <3>6. QED
      BY <3>5 DEF DemoFits
  <2>3. CASE job[r].op # "demo"
    BY <2>1, <2>3, NoStory
  <2>4. CASE ~Undisturbed(r)
    BY <2>1, <2>4 DEF DemoFits, Undisturbed
  <2>5. QED
    BY <2>2, <2>3, <2>4
<1>8. CASE ReadBefore(r)
  <2>1. CASE Becomes(r, IdleJob)
    BY <1>a, <2>1, IdleStory
  <2>2. CASE Becomes(r, [job[r] EXCEPT !.pc = "ask"])
    <3>1. job'[r].pc = "ask"
      BY <1>a, <2>2, BecomesIt DEF Job
    <3>2. QED
      BY <3>1, NoStory
  <2>3. QED
    BY <1>8, <2>1, <2>2 DEF ReadBefore
<1>9. ASSUME NEW d \in Drones, Ask(r, d) PROVE DemoFits(r, zone, first, second)'
  <2> DEFINE o == Outcome(AskTxn(r, d))
  <2>1. job'[r] = [job[r] EXCEPT !.asks[d] = o]
    BY <1>9, <1>a, BecomesIt DEF Ask
  <2> HIDE DEF o
  <2>2. job'[r].pc = job[r].pc
    BY <1>a, <2>1, Zenon DEF Job
  <2>3. QED
    BY <1>9, <2>2, NoStory DEF Ask
<1>10. CASE AsksDone(r)
  <2>1. job'[r].pc = "count"
    BY <1>10, <1>a, BecomesIt DEF AsksDone, Job
  <2>2. QED
    BY <2>1, NoStory
<1>11. CASE ReadAfter(r)
  <2>1. job'[r] = [job[r] EXCEPT !.pc = "report", !.winners = zoneClearance[job[r].zone]]
    BY <1>11, <1>a, BecomesIt DEF ReadAfter
  <2>2. job'[r].op = job[r].op
    BY <1>a, <2>1, Zenon DEF Job
  <2>3. job[r].op = "contend"
    BY <1>11, <1>c DEF InPlace, ReadAfter
  <2>4. QED
    BY <2>2, <2>3, NoStory
<1>12. CASE Finish(r)
  BY <1>12, <1>a, IdleStory DEF Finish
<1>13. QED
  BY <1>1, <1>2, <1>3, <1>4, <1>5, <1>6, <1>7, <1>8, <1>9, <1>10, <1>11, <1>12
     DEF Progress

\* A lost answer ends the story.
LEMMA FaultStory ==
  ASSUME NEW zone, NEW first, NEW second, StoryInv(zone, first, second),
         NEW r \in Requests, Fault(r)
  PROVE  \A q \in Requests : DemoFits(q, zone, first, second)'
<1>a. TypeOK /\ job[r] \in Job
  BY DEF StoryInv, ContendInv, LedgerInv, TypeOK
<1>b. job[r].pc # "idle" /\ \E j : Becomes(r, j)
  BY DEF Fault, Abort, ReleaseLost, StepLost, AskLost
<1> SUFFICES DemoFits(r, zone, first, second)'
  BY <1>b, OnlyItsStory
<1>1. CASE Abort(r)
  BY <1>1, <1>a, IdleStory DEF Abort
<1>2. ASSUME NEW o \in Lost, NEW t \in job[r].todo, ReleaseLost(r, t, o)
      PROVE  job'[r].dropped = TRUE
  <2>1. job'[r] = [job[r] EXCEPT !.todo = @ \ {t}, !.dropped = TRUE]
    BY <1>2, <1>a, BecomesIt DEF ReleaseLost
  <2>2. QED
    BY <1>a, <2>1, Zenon DEF Job
<1>3. ASSUME NEW o \in Lost, StepLost(r, o) PROVE job'[r].dropped = TRUE
  <2>1. job'[r] = [job[r] EXCEPT !.script = Tail(@), !.log = Append(@, "error"),
                                 !.dropped = TRUE]
    BY <1>3, <1>a, BecomesIt DEF StepLost
  <2>2. QED
    BY <1>a, <2>1, Zenon DEF Job
<1>4. ASSUME NEW o \in Lost, NEW d \in Drones, AskLost(r, d, o)
      PROVE  job'[r].dropped = TRUE
  <2>1. job'[r] = [job[r] EXCEPT !.asks[d] = "error", !.dropped = TRUE]
    BY <1>4, <1>a, BecomesIt DEF AskLost
  <2>2. QED
    BY <1>a, <2>1, Zenon DEF Job
<1>5. QED
  BY <1>1, <1>2, <1>3, <1>4, NoStory DEF Fault

\* Every step keeps the story straight.
LEMMA StoryStep ==
  ASSUME ~LateSeeds, NEW zone, NEW other, NEW first, NEW second, NEW third,
         DemoIs(zone, other, first, second, third), StoryInv(zone, first, second),
         [Next]_vars
  PROVE  StoryInv(zone, first, second)'
<1>a. ContendInv /\ \A r \in Requests : DemoFits(r, zone, first, second)
  BY DEF StoryInv
<1>1. ContendInv'
  BY <1>a, ContendStep
<1>2. ASSUME NEW o \in Lost, Land(o) \/ Vanish(o), NEW r \in Requests,
             job[r].pc # "idle"
      PROVE  ~Undisturbed(r)'
  <2>1. Alone(r) /\ SomeOrphan /\ UNCHANGED job
    BY <1>2, <1>a, UnderWay DEF Land, Vanish, SomeOrphan
  <2>2. QED
    BY <2>1 DEF Alone, Undisturbed
<1>3. ASSUME NEW o \in Lost, Land(o) \/ Vanish(o)
      PROVE  \A r \in Requests : DemoFits(r, zone, first, second)'
  BY <1>2, <1>3 DEF DemoFits, Land, Vanish
<1>4. ASSUME zoneClearance' = zoneClearance, job' = job
      PROVE  \A r \in Requests : DemoFits(r, zone, first, second)'
  BY <1>4, <1>a DEF DemoFits, StorySoFar, Undisturbed, OnlyHeld
<1>5. ASSUME Sink \/ UNCHANGED vars
      PROVE  \A r \in Requests : DemoFits(r, zone, first, second)'
  BY <1>4, <1>5, <1>a, SinkLeaves DEF ContendInv, vars
<1>6. \A r \in Requests : DemoFits(r, zone, first, second)'
  BY <1>3, <1>5, StartStory, ProgressStory, FaultStory DEF Next
<1>7. QED
  BY <1>1, <1>6 DEF StoryInv

\* Both demonstrations of the page end as the page says, for any number of
\* concurrent requests, lost answers and restarts of the sink: a contention that
\* saw all its answers counts exactly, and a demo that did, once its first step was
\* applied, applies the second drone's grant and the first release besides, and
\* nothing else.
THEOREM DemonstrationsEndWell ==
  ASSUME ~LateSeeds, NEW zone, NEW other, NEW first, NEW second, NEW third,
         DemoIs(zone, other, first, second, third)
  PROVE  Spec => []DemonstrationsHold
<1>1. Init => StoryInv(zone, first, second)
  <2> SUFFICES ASSUME Init PROVE StoryInv(zone, first, second)
    OBVIOUS
  <2>1. \A r \in Requests : job[r].pc = "idle"
    BY DEF Init, IdleJob
  <2>2. QED
    BY <2>1, InitInv DEF StoryInv, ContendInv, RequestFits, DemoFits
<1>2. StoryInv(zone, first, second) /\ [Next]_vars => StoryInv(zone, first, second)'
  BY StoryStep
<1>3. StoryInv(zone, first, second) => DemonstrationsHold
  <2> SUFFICES ASSUME StoryInv(zone, first, second) PROVE DemonstrationsHold
    OBVIOUS
  <2>1. ContendCountsExactly
    BY DEF StoryInv, ContendInv, RequestFits, AskedSoFar, ContendCountsExactly, Contended
  <2>2. ASSUME NEW r \in Requests, job[r].op = "demo", job[r].pc = "report",
               Undisturbed(r), job[r].log[1] = "applied"
        PROVE  SubSeq(job[r].log, 1, 7) = Story
    <3>1. Len(job[r].log) >= 7 /\ \A i \in 1..7 : job[r].log[i] = Story[i]
      BY <2>2 DEF StoryInv, DemoFits, StorySoFar
    <3>2. job[r].log \in Seq({"applied", "refused", "error"})
      BY DEF StoryInv, ContendInv, LedgerInv, TypeOK, Job
    <3>3. /\ SubSeq(job[r].log, 1, 7) \in Seq({"applied", "refused", "error"})
          /\ Len(SubSeq(job[r].log, 1, 7)) = 7
          /\ \A i \in 1..7 : SubSeq(job[r].log, 1, 7)[i] = job[r].log[i]
      BY <3>1, <3>2
    <3>4. Len(Story) = 7 /\ Story \in Seq({"applied", "refused", "error"})
      BY DEF Story
    <3>5. \A i \in 1..7 : SubSeq(job[r].log, 1, 7)[i] = Story[i]
      BY <3>1, <3>3
    <3>6. QED
      BY <3>3, <3>4, <3>5
  <2>3. DemoTellsItsStory
    BY <2>2 DEF DemoTellsItsStory, Story
  <2>4. QED
    BY <2>1, <2>3 DEF DemonstrationsHold
<1>4. QED
  BY <1>1, <1>2, <1>3, PTL DEF Spec

=============================================================================
