-------------------------- MODULE EventSinkProofs --------------------------
(***************************************************************************)
(* TLAPS proofs about EventSink: which records the sink may lose, what its *)
(* counter may claim and what the latest status shows, for any topic,      *)
(* batch size and number of crashes.                                       *)
(*                                                                         *)
(* And about SettledWindow, which watches the sink: what a settled verdict *)
(* is worth, for any topic, clock and number of crashes, as long as no     *)
(* write of a batch fails and no batch takes longer to send than the       *)
(* margin.                                                                 *)
(***************************************************************************)
EXTENDS SettledWindow, FiniteSetTheorems, WellFoundedInduction, TLAPS

\* The types the argument needs.
DeliveryTypeOK ==
    /\ committed \in [Partitions -> Nat \cup {NoOffset}]
    /\ position \in [Partitions -> Nat]
    /\ batch \subseteq Messages

\* A row of m in table t exists, or a write of the current batch will make it.
Coming(t, m) == <<t, m>> \in stored \/ \E w \in pending : w.table = t /\ w.msg = m

\* Whom the sink still answers for: a record its position has passed has its
\* rows, was skipped, or is in the batch it is working on.
Covered(m) ==
    \/ HasRows(m)
    \/ m \in skipped
    \/ pc = "issue" /\ m \in batch
    \/ pc = "wait" /\ \A t \in InsertTables : Coming(t, m)

PassedIsCovered ==
    pc # "down" => \A m \in Messages : m[2] < position[m[1]] => Covered(m)

\* The sink waits only for writes of its own batch, and only there.
PendingIsBatch ==
    /\ pc # "wait" => pending = {}
    /\ \A w \in pending : w.msg \in batch

\* A running sink's position is never behind what it committed.
PositionAhead == pc # "down" => \A p \in Partitions : committed[p] <= position[p]

\* Without write failures nothing is ever skipped.
NothingSkipped == ~WritesFail => skipped = {}

\* The inductive invariant.
DeliveryInv ==
    /\ DeliveryTypeOK
    /\ PassedIsCovered
    /\ PendingIsBatch
    /\ PositionAhead
    /\ NothingSkipped
    /\ OnlyFailedBatchesAreLost

-----------------------------------------------------------------------------
(* The steps *)

\* The invariant speaks only of these variables.
deliveryVars == <<committed, position, pc, batch, pending, stored, skipped>>

\* A step that leaves them alone keeps it.
LEMMA UnchangedKeeps == ASSUME DeliveryInv, UNCHANGED deliveryVars PROVE DeliveryInv'
  BY DEF DeliveryInv, deliveryVars, DeliveryTypeOK, PassedIsCovered, Covered, Coming, HasRows,
         PendingIsBatch, PositionAhead, NothingSkipped, OnlyFailedBatchesAreLost, Committed

\* A message names a partition and an offset.
LEMMA MessageType == ASSUME NEW m \in Messages PROVE m[1] \in Partitions /\ m[2] \in Nat
<1>1. MaxLog \in Nat
  BY TopicAssumption
<1>2. QED
  BY <1>1 DEF Messages, Offsets

\* poll passes exactly the records it returns.
LEMMA PollKeeps ==
  ASSUME DeliveryInv, NEW n \in [Partitions -> 0..BatchSize], Poll(n)
  PROVE  DeliveryInv'
<1> USE DEF DeliveryInv
<1>a. BatchSize \in Nat /\ pc = "poll" /\ pc' = "issue"
  BY TopicAssumption DEF Poll
<1>b. \A p \in Partitions : n[p] \in Nat /\ position'[p] = position[p] + n[p]
  BY <1>a DEF Poll, DeliveryTypeOK
<1>1. DeliveryTypeOK'
  BY <1>a, <1>b DEF Poll, DeliveryTypeOK, kafka, Fetched
<1>2. PassedIsCovered'
  <2> SUFFICES ASSUME NEW m \in Messages, m[2] < position'[m[1]] PROVE Covered(m)'
    BY DEF PassedIsCovered
  <2>1. CASE m[2] < position[m[1]]
    <3>1. Covered(m)
      BY <1>a, <2>1 DEF PassedIsCovered
    <3>2. HasRows(m) \/ m \in skipped
      BY <1>a, <3>1 DEF Covered
    <3>3. QED
      BY <3>2 DEF Covered, HasRows, Poll, tables
  <2>2. CASE ~(m[2] < position[m[1]])
    <3>1. m[1] \in Partitions /\ m[2] \in Nat
      BY MessageType
    <3>2. position[m[1]] \in Nat /\ position'[m[1]] = position[m[1]] + n[m[1]]
      BY <1>b, <3>1 DEF DeliveryTypeOK
    <3>3. position[m[1]] <= m[2] /\ m[2] < position[m[1]] + n[m[1]]
      BY <2>2, <3>1, <3>2
    <3>4. m \in Fetched(n)
      BY <3>3 DEF Fetched
    <3>5. QED
      BY <1>a, <3>4 DEF Covered, Poll
  <2>3. QED
    BY <2>1, <2>2
<1>3. PositionAhead'
  <2>1. \A p \in Partitions : committed[p] \in Int /\ position[p] \in Nat
    BY DEF DeliveryTypeOK, NoOffset
  <2>2. \A p \in Partitions : committed[p] <= position[p] /\ committed'[p] = committed[p]
    BY <1>a DEF PositionAhead, Poll, kafka
  <2>3. QED
    BY <1>b, <2>1, <2>2 DEF PositionAhead
<1>4. pending' = pending /\ stored' = stored /\ skipped' = skipped /\ committed' = committed
  BY DEF Poll, kafka, tables
<1>5. PendingIsBatch'
  BY <1>a, <1>4 DEF PendingIsBatch
<1>6. NothingSkipped' /\ OnlyFailedBatchesAreLost'
  BY <1>4 DEF NothingSkipped, OnlyFailedBatchesAreLost, Committed, HasRows
<1>7. QED
  BY <1>1, <1>2, <1>3, <1>5, <1>6

\* Every record of the batch gets a write to every table.
LEMMA IssueKeeps == ASSUME DeliveryInv, Issue PROVE DeliveryInv'
<1> USE DEF DeliveryInv
<1>a. pc = "issue" /\ pc' = "wait"
  BY DEF Issue
<1>b. UNCHANGED <<committed, position, batch, stored, skipped>>
  BY DEF Issue, kafka, tables
<1>1. \A m \in batch : \A t \in InsertTables : \E w \in pending' : w.table = t /\ w.msg = m
  <2> SUFFICES ASSUME NEW m \in batch, NEW t \in InsertTables
               PROVE  \E w \in pending' : w.table = t /\ w.msg = m
    OBVIOUS
  <2>1. [table |-> t, msg |-> m, stamp |-> 0] \in pending'
    BY DEF Issue, WritesOf
  <2>2. QED
    BY <2>1
<1>2. \A w \in pending' : w.msg \in batch
  BY DEF Issue, WritesOf
<1>3. PassedIsCovered'
  <2> SUFFICES ASSUME NEW m \in Messages, m[2] < position[m[1]] PROVE Covered(m)'
    BY <1>b DEF PassedIsCovered
  <2>1. HasRows(m) \/ m \in skipped \/ m \in batch
    BY <1>a DEF PassedIsCovered, Covered
  <2>2. CASE m \in batch
    BY <1>a, <1>1, <2>2 DEF Covered, Coming
  <2>3. CASE HasRows(m) \/ m \in skipped
    BY <1>b, <2>3 DEF Covered, HasRows
  <2>4. QED
    BY <2>1, <2>2, <2>3
<1>4. QED
  BY <1>a, <1>b, <1>2, <1>3 DEF DeliveryTypeOK, PendingIsBatch, PositionAhead,
     NothingSkipped, OnlyFailedBatchesAreLost, Committed, HasRows

\* An applied write turns a row that was coming into one that is there.
LEMMA AcknowledgeKeeps ==
  ASSUME DeliveryInv, NEW w \in pending, Acknowledge(w)
  PROVE  DeliveryInv'
<1> USE DEF DeliveryInv
<1>a. pc = "wait" /\ UNCHANGED <<committed, position, pc, batch, skipped>>
  BY DEF Acknowledge, kafka
<1>b. pending' = pending \ {w} /\ stored \subseteq stored'
  BY DEF Acknowledge, ApplyWrite
<1>1. \A m \in Messages, t \in InsertTables : Coming(t, m) => Coming(t, m)'
  <2> SUFFICES ASSUME NEW m \in Messages, NEW t \in InsertTables, Coming(t, m)
               PROVE  Coming(t, m)'
    OBVIOUS
  <2>1. CASE w.table = t /\ w.msg = m
    BY <2>1, TopicAssumption DEF Coming, Acknowledge, ApplyWrite
  <2>2. CASE ~(w.table = t /\ w.msg = m)
    BY <1>b, <2>2 DEF Coming
  <2>3. QED
    BY <2>1, <2>2
<1>2. \A m : HasRows(m) => HasRows(m)'
  BY <1>b DEF HasRows
<1>3. PassedIsCovered'
  <2> SUFFICES ASSUME NEW m \in Messages, m[2] < position[m[1]] PROVE Covered(m)'
    BY <1>a DEF PassedIsCovered
  <2>1. Covered(m)
    BY <1>a DEF PassedIsCovered
  <2>2. QED
    BY <1>a, <1>1, <1>2, <2>1 DEF Covered
<1>4. OnlyFailedBatchesAreLost'
  BY <1>a, <1>2 DEF OnlyFailedBatchesAreLost, Committed
<1>5. QED
  BY <1>a, <1>b, <1>3, <1>4 DEF DeliveryTypeOK, PendingIsBatch, PositionAhead, NothingSkipped

\* A failed batch is the one the history variable remembers.
LEMMA BatchFailsKeeps == ASSUME DeliveryInv, BatchFails PROVE DeliveryInv'
<1> USE DEF DeliveryInv
<1>a. /\ pc = "wait" /\ pc' = "poll" /\ pending' = {} /\ batch' = {} /\ WritesFail
      /\ skipped' = skipped \cup batch
      /\ UNCHANGED <<committed, position, stored>>
  BY DEF BatchFails, kafka, tables
<1>1. PassedIsCovered'
  <2> SUFFICES ASSUME NEW m \in Messages, m[2] < position[m[1]] PROVE Covered(m)'
    BY <1>a DEF PassedIsCovered
  <2>1. HasRows(m) \/ m \in skipped \/ \A t \in InsertTables : Coming(t, m)
    BY <1>a DEF PassedIsCovered, Covered
  <2>2. HasRows(m) \/ m \in skipped \/ m \in batch
    BY <2>1 DEF Coming, HasRows, PendingIsBatch
  <2>3. QED
    BY <1>a, <2>2 DEF Covered, HasRows
<1>2. QED
  BY <1>a, <1>1 DEF DeliveryTypeOK, PendingIsBatch, PositionAhead, NothingSkipped,
     OnlyFailedBatchesAreLost, Committed, HasRows

\* A commit covers what the position has passed, and nothing is pending.
LEMMA CommitKeeps == ASSUME DeliveryInv, Commit PROVE DeliveryInv'
<1> USE DEF DeliveryInv
<1>a. /\ pc = "wait" /\ pc' = "count" /\ pending = {} /\ committed' = position
      /\ UNCHANGED <<position, batch, pending, stored, skipped>>
  BY DEF Commit, tables
<1>1. \A m \in Messages : m[2] < position[m[1]] => HasRows(m) \/ m \in skipped
  BY <1>a DEF PassedIsCovered, Covered, Coming, HasRows
<1>2. PassedIsCovered'
  BY <1>a, <1>1 DEF PassedIsCovered, Covered, HasRows
<1>3. OnlyFailedBatchesAreLost'
  BY <1>a, <1>1 DEF OnlyFailedBatchesAreLost, Committed, HasRows
<1>4. \A p \in Partitions : position[p] \in Nat
  BY DEF DeliveryTypeOK
<1>5. DeliveryTypeOK' /\ PositionAhead'
  BY <1>a, <1>4 DEF DeliveryTypeOK, PositionAhead
<1>6. QED
  BY <1>a, <1>2, <1>3, <1>5 DEF PendingIsBatch, NothingSkipped

\* After a crash the position is forgotten; a restart takes the committed one.
LEMMA RestartKeeps == ASSUME DeliveryInv, Restart PROVE DeliveryInv'
<1> USE DEF DeliveryInv
<1>a. /\ pc = "down" /\ pc' = "poll"
      /\ position' = [p \in Partitions |-> Start(p)]
      /\ skipped' = {m \in skipped : m[2] < Start(m[1])}
      /\ UNCHANGED <<committed, batch, pending, stored>>
  BY DEF Restart, kafka, tables
<1>1. \A p \in Partitions : Start(p) \in Nat /\ committed[p] <= Start(p)
  BY DEF Start, DeliveryTypeOK, NoOffset
<1>2. \A m \in Messages : m[2] < Start(m[1]) <=> m \in Committed
  <2> SUFFICES ASSUME NEW m \in Messages PROVE m[2] < Start(m[1]) <=> m[2] < committed[m[1]]
    BY DEF Committed
  <2>1. m[1] \in Partitions /\ m[2] \in Nat
    BY MessageType
  <2>2. QED
    BY <2>1 DEF Start, NoOffset
<1>3. \A m \in Messages : m[2] < Start(m[1]) => HasRows(m) \/ m \in skipped'
  BY <1>a, <1>2 DEF OnlyFailedBatchesAreLost
<1>4. PassedIsCovered'
  <2> SUFFICES ASSUME NEW m \in Messages, m[2] < position'[m[1]] PROVE Covered(m)'
    BY DEF PassedIsCovered
  <2>1. m[2] < Start(m[1])
    BY <1>a, MessageType
  <2>2. QED
    BY <1>a, <1>3, <2>1 DEF Covered, HasRows
<1>5. OnlyFailedBatchesAreLost'
  BY <1>a, <1>2, <1>3 DEF OnlyFailedBatchesAreLost, Committed, HasRows
<1>6. DeliveryTypeOK' /\ PositionAhead'
  BY <1>a, <1>1 DEF DeliveryTypeOK, PositionAhead
<1>7. QED
  BY <1>a, <1>4, <1>5, <1>6 DEF PendingIsBatch, NothingSkipped

\* The remaining steps of the loop.
LEMMA CountKeeps == ASSUME DeliveryInv, Count PROVE DeliveryInv'
  BY DEF Count, kafka, DeliveryInv, DeliveryTypeOK, PassedIsCovered, Covered, HasRows,
         PendingIsBatch, PositionAhead, NothingSkipped, OnlyFailedBatchesAreLost, Committed

\* A crash loses the position and the batch, not the offsets or the rows.
LEMMA CrashKeeps == ASSUME DeliveryInv, Crash PROVE DeliveryInv'
  BY DEF Crash, kafka, tables, DeliveryInv, DeliveryTypeOK, PassedIsCovered, HasRows,
         PendingIsBatch, PositionAhead, NothingSkipped, OnlyFailedBatchesAreLost, Committed

\* A stray only ever adds a row.
LEMMA StrayKeeps ==
  ASSUME DeliveryInv, NEW w \in strays, StrayLands(w) \/ StrayVanishes(w)
  PROVE  DeliveryInv'
<1>1. CASE StrayVanishes(w)
  BY <1>1, UnchangedKeeps DEF StrayVanishes, kafka, tables, deliveryVars
<1>2. CASE StrayLands(w)
  <2> USE DEF DeliveryInv
  <2>1. /\ UNCHANGED <<committed, position, pc, batch, pending, skipped>>
        /\ stored \subseteq stored'
    BY <1>2 DEF StrayLands, kafka, ApplyWrite
  <2>2. \A m : HasRows(m) => HasRows(m)'
    BY <2>1 DEF HasRows
  <2>3. \A t, m : Coming(t, m) => Coming(t, m)'
    BY <2>1 DEF Coming
  <2>4. \A m : Covered(m) => Covered(m)'
    BY <2>1, <2>2, <2>3 DEF Covered
  <2>5. PassedIsCovered' /\ OnlyFailedBatchesAreLost'
    BY <2>1, <2>2, <2>4 DEF PassedIsCovered, OnlyFailedBatchesAreLost, Committed
  <2>6. QED
    BY <2>1, <2>5 DEF DeliveryTypeOK, PendingIsBatch, PositionAhead, NothingSkipped
<1>3. QED
  BY <1>1, <1>2

\* The invariant holds initially.
LEMMA InitInv == SinkInit => DeliveryInv
<1> SUFFICES ASSUME SinkInit PROVE DeliveryInv
  OBVIOUS
<1>1. \A m \in Messages : ~(m[2] < 0) /\ ~(m[2] < NoOffset) /\ m[1] \in Partitions
  BY MessageType DEF NoOffset
<1>2. PassedIsCovered /\ OnlyFailedBatchesAreLost
  BY <1>1 DEF SinkInit, PassedIsCovered, OnlyFailedBatchesAreLost, Committed
<1>3. QED
  BY <1>2 DEF SinkInit, DeliveryInv, DeliveryTypeOK, PendingIsBatch, PositionAhead,
     NothingSkipped, NoOffset

\* Every step keeps the invariant.
LEMMA InvStep == DeliveryInv /\ [SinkNext]_sinkVars => DeliveryInv'
<1> SUFFICES ASSUME DeliveryInv, [SinkNext]_sinkVars PROVE DeliveryInv'
  OBVIOUS
<1>1. ASSUME NEW e \in Entities, Produce(e) PROVE DeliveryInv'
  BY <1>1, UnchangedKeeps DEF Produce, tables, deliveryVars
<1>2. CASE SinkStep
  BY <1>2, PollKeeps, IssueKeeps, AcknowledgeKeeps, CommitKeeps, CountKeeps, RestartKeeps,
     UnchangedKeeps DEF SinkStep, PollEmpty, sinkVars, deliveryVars
<1>3. CASE SinkFault
  BY <1>3, BatchFailsKeeps, CrashKeeps, StrayKeeps DEF SinkFault
<1>4. CASE UNCHANGED sinkVars
  BY <1>4, UnchangedKeeps DEF sinkVars, deliveryVars
<1>5. QED
  BY <1>1, <1>2, <1>3, <1>4 DEF SinkNext

-----------------------------------------------------------------------------
(* What follows *)

\* Whatever fails and however often the sink dies, a committed record without
\* rows is one of a batch whose own writes failed.
THEOREM LosesOnlyFailedBatches == SinkSpec => []OnlyFailedBatchesAreLost
<1>1. DeliveryInv => OnlyFailedBatchesAreLost
  BY DEF DeliveryInv
<1>2. QED
  BY <1>1, InitInv, InvStep, PTL DEF SinkSpec

\* If no write of a batch fails, every committed record has its rows: crashes
\* alone lose nothing.
THEOREM CrashesLoseNothing == ASSUME ~WritesFail PROVE SinkSpec => []CommittedIsStored
<1>1. DeliveryInv => CommittedIsStored
  BY DEF DeliveryInv, NothingSkipped, OnlyFailedBatchesAreLost, CommittedIsStored
<1>2. QED
  BY <1>1, InitInv, InvStep, PTL DEF SinkSpec

\* A commit never moves an offset back.
LEMMA OffsetsGrow ==
  ASSUME DeliveryInv, [SinkNext]_sinkVars, NEW p \in Partitions
  PROVE  committed'[p] >= committed[p]
<1>1. committed[p] \in Int /\ position[p] \in Int
  BY DEF DeliveryInv, DeliveryTypeOK, NoOffset
<1>2. CASE Commit
  BY <1>1, <1>2 DEF Commit, DeliveryInv, PositionAhead
<1>3. CASE ~Commit
  <2>1. committed' = committed
    BY <1>3 DEF SinkNext, SinkStep, SinkFault, Produce, Poll, PollEmpty, Issue, Acknowledge,
       Count, Restart, BatchFails, Crash, StrayLands, StrayVanishes, kafka, sinkVars
  <2>2. QED
    BY <1>1, <2>1
<1>4. QED
  BY <1>2, <1>3

\* Nor does any step of the sink, so a replay never widens.
THEOREM OffsetsNeverGoBack == SinkSpec => OffsetsOnlyGrow
<1>1. DeliveryInv /\ [SinkNext]_sinkVars =>
        [\A p \in Partitions : committed'[p] >= committed[p]]_sinkVars
  BY OffsetsGrow
<1>2. QED
  BY <1>1, InitInv, InvStep, PTL DEF SinkSpec, OffsetsOnlyGrow

-----------------------------------------------------------------------------
(* Counting, and the newest status: the invariants *)

\* The position and the offsets stay within the log, and a key's records are on
\* its partition.
LogIsAhead ==
    /\ \A p \in Partitions : committed[p] <= Len(log[p]) /\ position[p] <= Len(log[p])
    /\ \A p \in Partitions : \A i \in 1..Len(log[p]) : PartitionOf[log[p][i]] = p
    /\ \A w \in pending \cup strays : w.msg \in Produced

\* The batch in hand is what the position passed last, and none of it is committed.
BatchIsNew ==
    pc \in {"issue", "wait"} =>
        /\ \A b \in batch : committed[b[1]] <= b[2] /\ b[2] < position[b[1]]
        /\ \A b \in batch : \A m \in Messages \ batch :
            m[1] = b[1] /\ m[2] < position[m[1]] => m[2] < b[2]

\* What is counted is committed, and so is what is about to be counted.
CountedIsCommitted ==
    counted + (IF pc = "count" THEN Cardinality(batch) ELSE 0) <= Cardinality(Committed)

\* There is a stamp no write has reached.
StampsAreBounded ==
    \E s \in Nat : /\ \A w \in pending \cup strays : w.stamp <= s
                   /\ \A e \in Entities : latest[e].stamp <= s

\* Of e's row and the writes on their way to it, none at or above stamp s is older
\* than m.
NoneOlder(e, m, s) ==
    /\ \A w \in pending \cup strays :
        w.table = "latest" /\ EntityOf(w.msg) = e /\ w.stamp >= s => w.msg[2] >= m[2]
    /\ latest[e].stamp >= s => latest[e].event # NoEvent /\ latest[e].event[2] >= m[2]

\* The row shows m or something newer, and will.
RowIsSafe(m) == NoneOlder(EntityOf(m), m, latest[EntityOf(m)].stamp)

\* A write the sink waits for will see to that.
WriteIsSafe(m) ==
    \E w \in pending : /\ w.table = "latest" /\ EntityOf(w.msg) = EntityOf(m)
                       /\ NoneOlder(EntityOf(m), m, w.stamp)

\* What a restart would not read again, or this process will not.
Passed(m) == m[2] < committed[m[1]] \/ (pc # "down" /\ m[2] < position[m[1]])

PassedIsSafe ==
    \A m \in Messages : Passed(m) =>
        \/ m \in skipped
        \/ RowIsSafe(m)
        \/ pc = "issue" /\ m \in batch
        \/ pc = "wait" /\ m \in batch /\ WriteIsSafe(m)

\* The inductive invariant.
StatusInv ==
    /\ SinkTypeOK
    /\ LogIsAhead
    /\ BatchIsNew
    /\ CountedIsCommitted
    /\ StampsAreBounded
    /\ PassedIsSafe

-----------------------------------------------------------------------------
(* Least and greatest numbers *)

\* A set of natural numbers has a least one.
LEMMA LeastNatural ==
  ASSUME NEW S \in SUBSET Nat, S # {}
  PROVE  \E x \in S : \A y \in S : x <= y
<1> DEFINE R == OpToRel(<, Nat)
<1>1. IsWellFoundedOn(R, Nat)
  BY NatLessThanWellFounded
<1>2. PICK x \in S : \A y \in S : ~(<<y, x>> \in R)
  <2> HIDE DEF R
  <2>1. QED
    BY <1>1, WFMin
<1>3. R = {ss \in Nat \X Nat : ss[1] < ss[2]}
  BY DEF OpToRel
<1>4. \A y \in S : ~(y < x)
  <2> HIDE DEF R
  <2>1. QED
    BY <1>2, <1>3
<1>5. QED
  BY <1>4

\* Min is that one.
LEMMA MinIsLeast ==
  ASSUME NEW S \in SUBSET Nat, S # {}
  PROVE  Min(S) \in S /\ \A y \in S : Min(S) <= y
  BY LeastNatural DEF Min

\* Below a bound there is also a greatest one, and Max is it.
LEMMA MaxIsGreatest ==
  ASSUME NEW S \in SUBSET Nat, S # {}, NEW b \in Nat, \A x \in S : x <= b
  PROVE  Max(S) \in S /\ \A y \in S : y <= Max(S)
<1> DEFINE T == {b - x : x \in S}
<1>1. T \in SUBSET Nat /\ T # {}
  <2>1. \A x \in S : b - x \in Nat
    OBVIOUS
  <2>2. QED
    BY <2>1
<1>2. PICK t \in T : \A y \in T : t <= y
  BY <1>1, LeastNatural
<1>3. PICK x \in S : t = b - x
  BY <1>2
<1>4. \A y \in S : y <= x
  BY <1>2, <1>3
<1>5. QED
  BY <1>4 DEF Max

-----------------------------------------------------------------------------
(* Records and stamps *)

\* There are finitely many records, so a batch is finite and so is what is
\* committed.
LEMMA MessagesFinite == IsFiniteSet(Messages)
<1>1. 0 \in Int /\ MaxLog - 1 \in Int
  BY TopicAssumption
<1>2. IsFiniteSet(0..(MaxLog - 1))
  BY <1>1, FS_Interval
<1>3. QED
  BY <1>2, TopicAssumption, FS_Product DEF Messages, Offsets

\* A produced record has a key, which is one of its partition.
LEMMA EntityType ==
  ASSUME SinkTypeOK, LogIsAhead, NEW m \in Produced
  PROVE  EntityOf(m) \in Entities /\ PartitionOf[EntityOf(m)] = m[1]
<1>1. m \in Messages /\ m[1] \in Partitions /\ m[2] \in Nat /\ m[2] < Len(log[m[1]])
  BY MessageType DEF Produced
<1>2. log[m[1]] \in Seq(Entities) /\ m[2] + 1 \in 1..Len(log[m[1]])
  BY <1>1 DEF SinkTypeOK
<1>3. QED
  BY <1>1, <1>2 DEF EntityOf, LogIsAhead

\* A record that was passed was produced.
LEMMA PassedIsProduced ==
  ASSUME SinkTypeOK, LogIsAhead, NEW m \in Messages, Passed(m)
  PROVE  m \in Produced
<1>1. m[1] \in Partitions /\ m[2] \in Nat
  BY MessageType
<1>2. committed[m[1]] \in Int /\ position[m[1]] \in Int /\ Len(log[m[1]]) \in Nat
  BY <1>1 DEF SinkTypeOK, NoOffset
<1>3. committed[m[1]] <= Len(log[m[1]]) /\ position[m[1]] <= Len(log[m[1]])
  BY <1>1 DEF LogIsAhead
<1>4. m[2] < Len(log[m[1]])
  BY <1>1, <1>2, <1>3 DEF Passed
<1>5. QED
  BY <1>4 DEF Produced

\* The stamps a new write must exceed have a greatest.
LEMMA StampsHaveMax ==
  ASSUME SinkTypeOK, StampsAreBounded, NEW e \in Entities
  PROVE  /\ Max(Stamps(e)) \in Nat
         /\ latest[e].stamp <= Max(Stamps(e))
         /\ \A w \in pending \cup strays :
              w.table = "latest" /\ EntityOf(w.msg) = e => w.stamp <= Max(Stamps(e))
         /\ \A s \in Nat : (/\ \A w \in pending \cup strays : w.stamp <= s
                            /\ latest[e].stamp <= s) => Max(Stamps(e)) <= s
<1>1. PICK s \in Nat : /\ \A w \in pending \cup strays : w.stamp <= s
                       /\ \A d \in Entities : latest[d].stamp <= s
  BY DEF StampsAreBounded
<1>2. latest[e].stamp \in Nat /\ \A w \in pending \cup strays : w.stamp \in Nat
  BY DEF SinkTypeOK, Write
<1>3. Stamps(e) \in SUBSET Nat /\ latest[e].stamp \in Stamps(e)
  BY <1>2 DEF Stamps
<1>4. \A x \in Stamps(e) : x <= s
  BY <1>1 DEF Stamps
<1>5. Max(Stamps(e)) \in Stamps(e) /\ \A y \in Stamps(e) : y <= Max(Stamps(e))
  BY <1>3, <1>4, MaxIsGreatest
<1>6. \A w \in pending \cup strays :
        w.table = "latest" /\ EntityOf(w.msg) = e => w.stamp \in Stamps(e)
  BY DEF Stamps
<1>7. ASSUME NEW r \in Nat, \A w \in pending \cup strays : w.stamp <= r, latest[e].stamp <= r
      PROVE  Max(Stamps(e)) <= r
  BY <1>5, <1>7 DEF Stamps
<1>8. QED
  BY <1>3, <1>5, <1>6, <1>7

\* The batch's records of one key before m.
Before(m) == {b \in batch : b[1] = m[1] /\ b[2] < m[2] /\ EntityOf(b) = EntityOf(m)}

\* A later record of a key gets a later stamp.
LEMMA StampsFollowTheLog ==
  ASSUME SinkTypeOK, LogIsAhead, StampsAreBounded, batch \subseteq Produced, NEW m \in batch
  PROVE  /\ StampOf(m) \in Nat /\ Max(Stamps(EntityOf(m))) < StampOf(m)
         /\ StampOf(m) <= 1 + Max(Stamps(EntityOf(m))) + Cardinality(batch)
         /\ Cardinality(batch) \in Nat
         /\ \A b \in batch : EntityOf(b) = EntityOf(m) /\ b[2] < m[2] => StampOf(b) < StampOf(m)
<1>1. IsFiniteSet(batch) /\ Cardinality(batch) \in Nat
  BY MessagesFinite, FS_Subset, FS_CardinalityType DEF SinkTypeOK
<1>2. ASSUME NEW b \in batch
      PROVE  /\ IsFiniteSet(Before(b)) /\ Cardinality(Before(b)) \in Nat
             /\ Cardinality(Before(b)) <= Cardinality(batch)
             /\ b[2] \in Nat /\ EntityOf(b) \in Entities /\ PartitionOf[EntityOf(b)] = b[1]
             /\ Max(Stamps(EntityOf(b))) \in Nat
             /\ StampOf(b) = 1 + Max(Stamps(EntityOf(b))) + Cardinality(Before(b))
  <2>1. Before(b) \in SUBSET batch
    BY DEF Before
  <2>2. b[2] \in Nat
    BY MessageType DEF SinkTypeOK
  <2>3. EntityOf(b) \in Entities /\ PartitionOf[EntityOf(b)] = b[1]
    BY EntityType
  <2>4. Max(Stamps(EntityOf(b))) \in Nat
    BY <2>3, StampsHaveMax
  <2>5. QED
    BY <1>1, <2>1, <2>2, <2>3, <2>4, FS_Subset, FS_CardinalityType DEF StampOf, Before
<1>3. ASSUME NEW b \in batch, EntityOf(b) = EntityOf(m), b[2] < m[2]
      PROVE  Cardinality(Before(b)) < Cardinality(Before(m))
  <2>1. b[1] = m[1] /\ b[2] \in Nat /\ m[2] \in Nat
    BY <1>2, <1>3
  <2>2. b \in Before(m) /\ b \notin Before(b)
    BY <1>3, <2>1 DEF Before
  <2>3. \A c \in batch : c[2] \in Nat
    BY <1>2
  <2>4. Before(b) \subseteq Before(m)
    BY <1>3, <2>1, <2>3 DEF Before
  <2>5. /\ Cardinality(Before(b)) <= Cardinality(Before(m))
        /\ Cardinality(Before(b)) # Cardinality(Before(m))
    BY <1>2, <2>2, <2>4, FS_Subset
  <2>6. QED
    BY <1>2, <2>5
<1>4. ASSUME NEW b \in batch, EntityOf(b) = EntityOf(m), b[2] < m[2]
      PROVE  StampOf(b) < StampOf(m)
  BY <1>2, <1>3, <1>4
<1>5. QED
  BY <1>1, <1>2, <1>4

-----------------------------------------------------------------------------
(* The rows of the newest status *)

\* Writes that go, or that carry something newer than m, endanger nothing.
LEMMA SafeStays ==
  ASSUME NEW m, NEW e \in Entities, latest'[e] = latest[e],
         \A w \in pending' \cup strays' : w.table = "latest" /\ EntityOf(w.msg)' = e =>
            \/ w \in pending \cup strays /\ EntityOf(w.msg) = e
            \/ w.msg[2] >= m[2],
         NEW s, NoneOlder(e, m, s)
  PROVE  NoneOlder(e, m, s)'
  BY DEF NoneOlder

\* A write lands, on its own row, or loses to a newer one.
LEMMA LandKeepsRows ==
  ASSUME SinkTypeOK, LogIsAhead, NEW w \in pending \cup strays, ApplyWrite(w), log' = log,
         pending' \cup strays' \subseteq pending \cup strays, NEW m \in Produced
  PROVE  /\ RowIsSafe(m) => RowIsSafe(m)'
         /\ \A v \in pending' : /\ v.table = "latest" /\ EntityOf(v.msg) = EntityOf(m)
                                /\ NoneOlder(EntityOf(m), m, v.stamp)
                                => NoneOlder(EntityOf(m), m, v.stamp)'
         /\ /\ w.table = "latest" /\ EntityOf(w.msg) = EntityOf(m)
            /\ NoneOlder(EntityOf(m), m, w.stamp)
            => RowIsSafe(m)'
<1> DEFINE e == EntityOf(m)
<1>1. e \in Entities /\ EntityOf(w.msg) \in Entities
  BY EntityType DEF LogIsAhead
<1>2. \A x : EntityOf(x)' = EntityOf(x)
  BY DEF EntityOf
<1>3. w \in Write /\ w.msg \in Messages /\ w.stamp \in Nat /\ latest[e].stamp \in Nat
  BY <1>1 DEF SinkTypeOK, Write
<1>4. w.msg # NoEvent
  BY <1>3, TopicAssumption DEF Messages, Offsets
<1>5. CASE latest'[e] = latest[e]
  <2>1. \A s : NoneOlder(e, m, s) => NoneOlder(e, m, s)'
    BY <1>1, <1>2, <1>5, SafeStays
  <2>2. RowIsSafe(m) => RowIsSafe(m)'
    BY <1>2, <1>5, <2>1 DEF RowIsSafe
  <2>3. ASSUME w.table = "latest", EntityOf(w.msg) = e, NoneOlder(e, m, w.stamp)
        PROVE  RowIsSafe(m)'
    <3>1. latest[e].stamp >= w.stamp
      <4>1. CASE w.stamp > latest[e].stamp
        <5>1. latest'[e] = [stamp |-> w.stamp, event |-> w.msg]
          BY <1>1, <2>3, <4>1 DEF ApplyWrite, SinkTypeOK
        <5>2. QED
          BY <1>5, <4>1, <5>1, <1>3
      <4>2. QED
        BY <1>3, <4>1
    <3>2. \A v \in pending \cup strays : v.stamp \in Nat
      BY DEF SinkTypeOK, Write
    <3>3. NoneOlder(e, m, latest[e].stamp)
      BY <1>3, <2>3, <3>1, <3>2 DEF NoneOlder
    <3>4. QED
      BY <2>2, <3>3 DEF RowIsSafe
  <2>4. QED
    BY <2>1, <2>2, <2>3
<1>6. CASE latest'[e] # latest[e]
  <2>1. /\ w.table = "latest" /\ EntityOf(w.msg) = e /\ w.stamp > latest[e].stamp
        /\ latest'[e] = [stamp |-> w.stamp, event |-> w.msg]
    BY <1>1, <1>6 DEF ApplyWrite, SinkTypeOK
  <2>2. \A v \in pending \cup strays : v.stamp \in Nat
    BY DEF SinkTypeOK, Write
  <2>3. QED
    BY <1>2, <1>3, <1>4, <2>1, <2>2 DEF RowIsSafe, NoneOlder
<1>7. QED
  BY <1>5, <1>6

\* Nothing lands, and no write is added: every safe row and write stays safe.
LEMMA StillSafe ==
  ASSUME SinkTypeOK, LogIsAhead, latest' = latest,
         pending' \cup strays' \subseteq pending \cup strays,
         \A x \in Produced : EntityOf(x)' = EntityOf(x), NEW m \in Produced
  PROVE  /\ RowIsSafe(m) => RowIsSafe(m)'
         /\ pending' = pending /\ WriteIsSafe(m) => WriteIsSafe(m)'
<1>1. EntityOf(m) \in Entities /\ EntityOf(m)' = EntityOf(m)
  BY EntityType
<1>2. \A w \in pending \cup strays : EntityOf(w.msg)' = EntityOf(w.msg)
  BY DEF LogIsAhead
<1>3. \A s : NoneOlder(EntityOf(m), m, s) => NoneOlder(EntityOf(m), m, s)'
  BY <1>1, <1>2 DEF NoneOlder
<1>4. QED
  BY <1>1, <1>2, <1>3 DEF RowIsSafe, WriteIsSafe

\* The log is the same: so is each record's key.
LEMMA SameLog ==
  ASSUME log' = log
  PROVE  (\A x : EntityOf(x)' = EntityOf(x)) /\ Produced' = Produced
  BY DEF EntityOf, Produced

-----------------------------------------------------------------------------
(* The steps, for the counts and the newest status *)

\* The producer appends behind everything the sink has seen.
LEMMA ProduceKeepsStatus ==
  ASSUME StatusInv, NEW e \in Entities, Produce(e)
  PROVE  StatusInv'
<1> USE DEF StatusInv
<1> DEFINE q == PartitionOf[e]
<1>a. UNCHANGED <<committed, position, pc, batch, pending, strays, stored, latest, counted,
                  crashes, skipped>>
  BY DEF Produce, tables
<1>b. q \in Partitions /\ log[q] \in Seq(Entities) /\ log' = [log EXCEPT ![q] = Append(@, e)]
  BY TopicAssumption DEF Produce, SinkTypeOK
<1>c. ASSUME NEW p \in Partitions
      PROVE  /\ log'[p] \in Seq(Entities) /\ Len(log[p]) \in Nat /\ Len(log'[p]) >= Len(log[p])
             /\ \A i \in 1..Len(log[p]) : log'[p][i] = log[p][i]
             /\ \A i \in 1..Len(log'[p]) : PartitionOf[log'[p][i]] = p
  <2>1. log[p] \in Seq(Entities) /\ \A i \in 1..Len(log[p]) : PartitionOf[log[p][i]] = p
    BY DEF SinkTypeOK, LogIsAhead
  <2>2. CASE p = q
    <3>1. log'[p] = Append(log[p], e)
      BY <1>b, <2>2 DEF SinkTypeOK
    <3>2. QED
      BY <2>1, <2>2, <3>1
  <2>3. CASE p # q
    <3>1. log'[p] = log[p]
      BY <1>b, <2>3 DEF SinkTypeOK
    <3>2. QED
      BY <2>1, <3>1
  <2>4. QED
    BY <2>2, <2>3
<1>d. \A x \in Produced : x \in Produced' /\ EntityOf(x)' = EntityOf(x)
  <2> SUFFICES ASSUME NEW x \in Produced PROVE x \in Produced' /\ EntityOf(x)' = EntityOf(x)
    OBVIOUS
  <2>1. x \in Messages /\ x[1] \in Partitions /\ x[2] \in Nat /\ x[2] < Len(log[x[1]])
    BY MessageType DEF Produced
  <2>2. x[2] + 1 \in 1..Len(log[x[1]]) /\ x[2] < Len(log'[x[1]])
    BY <1>c, <2>1, SMT
  <2>3. QED
    BY <1>c, <2>1, <2>2 DEF Produced, EntityOf
<1>1. SinkTypeOK'
  <2>1. log' \in [Partitions -> Seq(Entities)]
    BY <1>b DEF SinkTypeOK
  <2>2. QED
    BY <1>a, <2>1 DEF SinkTypeOK
<1>2. LogIsAhead'
  <2>1. \A p \in Partitions : committed[p] \in Int /\ position[p] \in Int
    BY DEF SinkTypeOK, NoOffset
  <2>2. \A p \in Partitions : committed[p] <= Len(log'[p]) /\ position[p] <= Len(log'[p])
    BY <1>c, <2>1 DEF LogIsAhead, SinkTypeOK
  <2>3. \A w \in pending \cup strays : w.msg \in Produced'
    BY <1>d DEF LogIsAhead
  <2>4. QED
    BY <1>a, <1>c, <2>2, <2>3 DEF LogIsAhead
<1>3. BatchIsNew' /\ CountedIsCommitted' /\ StampsAreBounded'
  BY <1>a DEF BatchIsNew, CountedIsCommitted, Committed, StampsAreBounded
<1>4. PassedIsSafe'
  <2> SUFFICES ASSUME NEW m \in Messages, Passed(m)
               PROVE  \/ m \in skipped
                      \/ RowIsSafe(m)'
                      \/ pc = "issue" /\ m \in batch
                      \/ pc = "wait" /\ m \in batch /\ WriteIsSafe(m)'
    BY <1>a DEF PassedIsSafe, Passed
  <2>1. m \in Produced
    BY PassedIsProduced
  <2>2. (RowIsSafe(m) => RowIsSafe(m)') /\ (WriteIsSafe(m) => WriteIsSafe(m)')
    BY <1>a, <1>d, <2>1, StillSafe
  <2>3. QED
    BY <2>2 DEF PassedIsSafe
<1>5. QED
  BY <1>1, <1>2, <1>3, <1>4

\* poll takes up new records, and they are the last its position has passed.
LEMMA PollKeepsStatus ==
  ASSUME DeliveryInv, StatusInv, NEW n \in [Partitions -> 0..BatchSize], Poll(n)
  PROVE  StatusInv'
<1> USE DEF StatusInv
<1>a. /\ pc = "poll" /\ pc' = "issue" /\ batch' = Fetched(n) /\ batch' \subseteq Messages
      /\ UNCHANGED <<log, committed, pending, strays, stored, latest, counted, crashes, skipped>>
  BY DEF Poll, kafka, tables, Fetched
<1>b. \A p \in Partitions :
        /\ n[p] \in Nat /\ position[p] \in Nat /\ committed[p] \in Int
        /\ committed[p] <= position[p]
        /\ position'[p] = position[p] + n[p] /\ position'[p] <= Len(log[p])
  BY <1>a, TopicAssumption DEF Poll, SinkTypeOK, NoOffset, DeliveryInv, PositionAhead
<1>c. \A m \in Messages : /\ m[1] \in Partitions /\ m[2] \in Nat
                          /\ m \in batch' <=> position[m[1]] <= m[2] /\ m[2] < position'[m[1]]
  <2> SUFFICES ASSUME NEW m \in Messages
               PROVE  /\ m[1] \in Partitions /\ m[2] \in Nat
                      /\ m \in batch' <=> position[m[1]] <= m[2] /\ m[2] < position'[m[1]]
    OBVIOUS
  <2>1. m[1] \in Partitions /\ m[2] \in Nat
    BY MessageType
  <2>2. QED
    BY <1>a, <1>b, <2>1 DEF Fetched
<1>1. SinkTypeOK'
  <2>1. position' \in [Partitions -> Nat]
    BY <1>b DEF Poll
  <2>2. QED
    BY <1>a, <2>1 DEF SinkTypeOK
<1>2. LogIsAhead'
  BY <1>a, <1>b DEF LogIsAhead, Produced
<1>3. BatchIsNew'
  <2>1. ASSUME NEW b \in batch' PROVE committed[b[1]] <= b[2] /\ b[2] < position'[b[1]]
    <3>1. b \in Messages /\ b[1] \in Partitions /\ b[2] \in Nat /\ position[b[1]] <= b[2]
      BY <1>a, <1>c, <2>1
    <3>2. QED
      BY <1>b, <1>c, <2>1, <3>1
  <2>2. ASSUME NEW b \in batch', NEW m \in Messages \ batch',
               m[1] = b[1], m[2] < position'[m[1]]
        PROVE  m[2] < b[2]
    <3>1. b \in Messages /\ b[1] \in Partitions /\ b[2] \in Nat /\ position[b[1]] <= b[2]
      BY <1>a, <1>c, <2>2
    <3>2. m[1] \in Partitions /\ m[2] \in Nat /\ ~(position[m[1]] <= m[2])
      BY <1>c, <2>2
    <3>3. position[b[1]] \in Nat
      BY <1>b, <3>1
    <3>4. QED
      BY <2>2, <3>1, <3>2, <3>3
  <2>3. QED
    BY <1>a, <2>1, <2>2 DEF BatchIsNew
<1>4. CountedIsCommitted' /\ StampsAreBounded'
  BY <1>a DEF CountedIsCommitted, Committed, StampsAreBounded
<1>5. PassedIsSafe'
  <2> SUFFICES ASSUME NEW m \in Messages, Passed(m)', m \notin batch'
               PROVE  m \in skipped \/ RowIsSafe(m)'
    BY <1>a DEF PassedIsSafe
  <2>1. Passed(m)
    <3>1. m[1] \in Partitions /\ m[2] \in Nat
      BY MessageType
    <3>2. committed[m[1]] <= position[m[1]] /\ position[m[1]] \in Nat /\ committed[m[1]] \in Int
      BY <1>b, <3>1
    <3>3. m[2] < position[m[1]]
      BY <1>a, <1>c, <3>1, <3>2 DEF Passed
    <3>4. QED
      BY <1>a, <3>3 DEF Passed
  <2>2. m \in Produced
    BY <2>1, PassedIsProduced
  <2>3. RowIsSafe(m) => RowIsSafe(m)'
    BY <1>a, <2>2, SameLog, StillSafe
  <2>4. QED
    BY <1>a, <2>1, <2>3 DEF PassedIsSafe
<1>6. QED
  BY <1>1, <1>2, <1>3, <1>4, <1>5

\* The batch in hand was produced, and passed.
LEMMA BatchIsPassed ==
  ASSUME StatusInv, pc \in {"issue", "wait"}, NEW b \in batch
  PROVE  b \in Messages /\ Passed(b) /\ b \in Produced
<1>1. b \in Messages /\ b[2] < position[b[1]]
  BY DEF StatusInv, SinkTypeOK, BatchIsNew
<1>2. Passed(b)
  BY <1>1 DEF Passed
<1>3. QED
  BY <1>1, <1>2, PassedIsProduced DEF StatusInv

\* The writes of a batch are stamped above everything on their rows, in the
\* order of the log, and nothing outside the batch is newer than the batch.
LEMMA IssueKeepsStatus ==
  ASSUME DeliveryInv, StatusInv, Issue
  PROVE  StatusInv'
<1> USE DEF StatusInv
<1>a. /\ pc = "issue" /\ pc' = "wait"
      /\ UNCHANGED <<log, committed, position, batch, strays, stored, latest, counted, crashes,
                     skipped>>
  BY DEF Issue, kafka, tables
<1>b. pending = {}
  BY <1>a DEF DeliveryInv, PendingIsBatch
<1>c. batch \subseteq Messages /\ batch \subseteq Produced
  BY <1>a, BatchIsPassed
<1>d. ASSUME NEW b \in batch
      PROVE  /\ EntityOf(b) \in Entities /\ PartitionOf[EntityOf(b)] = b[1]
             /\ b[1] \in Partitions /\ b[2] \in Nat
             /\ StampOf(b) \in Nat /\ Max(Stamps(EntityOf(b))) < StampOf(b)
             /\ StampOf(b) <= 1 + Max(Stamps(EntityOf(b))) + Cardinality(batch)
             /\ Cardinality(batch) \in Nat /\ Max(Stamps(EntityOf(b))) \in Nat
             /\ \A c \in batch : EntityOf(c) = EntityOf(b) /\ c[2] < b[2]
                                   => StampOf(c) < StampOf(b)
  <2>1. EntityOf(b) \in Entities /\ PartitionOf[EntityOf(b)] = b[1]
    BY <1>c, EntityType
  <2>2. b[1] \in Partitions /\ b[2] \in Nat
    BY <1>c, MessageType
  <2>3. QED
    BY <1>c, <2>1, <2>2, StampsFollowTheLog, StampsHaveMax
<1>e. \A w \in pending' : /\ w \in Write /\ w.msg \in batch
                          /\ w.table = "latest" => w.stamp = StampOf(w.msg)
                          /\ w.table # "latest" => w.stamp = 0
  <2> SUFFICES ASSUME NEW b \in batch, NEW w \in WritesOf(b)
               PROVE  /\ w \in Write /\ w.msg \in batch
                      /\ w.table = "latest" => w.stamp = StampOf(w.msg)
                      /\ w.table # "latest" => w.stamp = 0
    BY DEF Issue
  <2>1. b \in Messages /\ StampOf(b) \in Nat
    BY <1>c, <1>d
  <2>2. CASE w \in {[table |-> t, msg |-> b, stamp |-> 0] : t \in InsertTables}
    BY <2>1, <2>2, TopicAssumption DEF Write
  <2>3. CASE w = [table |-> "latest", msg |-> b, stamp |-> StampOf(b)]
    BY <2>1, <2>3 DEF Write
  <2>4. QED
    BY <2>2, <2>3 DEF WritesOf
<1>f. \A x : EntityOf(x)' = EntityOf(x)
  BY <1>a, SameLog
<1>1. SinkTypeOK'
  BY <1>a, <1>e DEF SinkTypeOK
<1>2. LogIsAhead'
  BY <1>a, <1>c, <1>e DEF LogIsAhead, Produced
<1>3. BatchIsNew' /\ CountedIsCommitted'
  BY <1>a DEF BatchIsNew, CountedIsCommitted, Committed
<1>4. StampsAreBounded'
  <2>1. PICK s \in Nat : /\ \A w \in pending \cup strays : w.stamp <= s
                         /\ \A e \in Entities : latest[e].stamp <= s
    BY DEF StampsAreBounded
  <2>2. Cardinality(batch) \in Nat
    BY MessagesFinite, FS_Subset, FS_CardinalityType DEF SinkTypeOK
  <2>3. DEFINE r == s + 1 + Cardinality(batch)
  <2>4. r \in Nat /\ s <= r
    BY <2>2
  <2>5. ASSUME NEW w \in pending' PROVE w.stamp <= r
    <3>1. CASE w.table = "latest"
      <4>1. w.msg \in batch /\ w.stamp = StampOf(w.msg) /\ EntityOf(w.msg) \in Entities
        BY <1>d, <1>e, <3>1
      <4>2. Max(Stamps(EntityOf(w.msg))) <= s
        BY <2>1, <4>1, StampsHaveMax
      <4>3. QED
        BY <1>d, <2>2, <4>1, <4>2
    <3>2. CASE w.table # "latest"
      BY <1>e, <2>4, <3>2
    <3>3. QED
      BY <3>1, <3>2
  <2>6. ASSUME NEW w \in strays PROVE w.stamp <= r
    <3>1. w.stamp \in Nat /\ w.stamp <= s
      BY <2>1 DEF SinkTypeOK, Write
    <3>2. QED
      BY <2>2, <3>1
  <2>7. ASSUME NEW e \in Entities PROVE latest[e].stamp <= r
    <3>1. latest[e].stamp \in Nat /\ latest[e].stamp <= s
      BY <2>1 DEF SinkTypeOK
    <3>2. QED
      BY <2>2, <3>1
  <2> HIDE DEF r
  <2>8. QED
    BY <1>a, <2>4, <2>5, <2>6, <2>7 DEF StampsAreBounded
<1>5. PassedIsSafe'
  <2> SUFFICES ASSUME NEW m \in Messages, Passed(m), m \notin skipped
               PROVE  RowIsSafe(m)' \/ (m \in batch /\ WriteIsSafe(m)')
    BY <1>a DEF PassedIsSafe, Passed
  <2>1. m \in Produced /\ m[1] \in Partitions /\ m[2] \in Nat
    BY PassedIsProduced, MessageType
  <2>2. EntityOf(m) \in Entities /\ PartitionOf[EntityOf(m)] = m[1]
    BY <2>1, EntityType
  <2>3. \A w \in strays : w.stamp \in Nat
    BY DEF SinkTypeOK, Write
  <2>4. latest[EntityOf(m)].stamp \in Nat
    BY <2>2 DEF SinkTypeOK
  <2>5. CASE m \in batch
    <3>0. PICK s \in Nat : s = StampOf(m)
      BY <1>d, <2>5
    <3>1. \E w \in pending' : w.table = "latest" /\ w.msg = m /\ w.stamp = s
      <4>1. [table |-> "latest", msg |-> m, stamp |-> s] \in pending'
        BY <2>5, <3>0 DEF Issue, WritesOf
      <4>2. QED
        BY <4>1
    <3>2. ASSUME NEW v \in pending' \cup strays, v.table = "latest",
                 EntityOf(v.msg) = EntityOf(m), v.stamp >= StampOf(m)
          PROVE  v.msg[2] >= m[2]
      <4>1. CASE v \in pending'
        <5>1. v.msg \in batch /\ v.stamp = StampOf(v.msg) /\ v.msg[2] \in Nat
          BY <1>d, <1>e, <3>2, <4>1
        <5>2. ~(v.msg[2] < m[2])
          BY <1>d, <2>5, <3>2, <5>1
        <5>3. QED
          BY <2>1, <5>1, <5>2
      <4>2. CASE v \in strays
        <5>1. v.stamp <= Max(Stamps(EntityOf(m)))
          BY <2>2, <3>2, <4>2, StampsHaveMax
        <5>2. QED
          BY <1>d, <2>3, <2>5, <3>2, <4>2, <5>1
      <4>3. QED
        BY <4>1, <4>2
    <3>3. ~(latest[EntityOf(m)].stamp >= StampOf(m))
      <4>1. latest[EntityOf(m)].stamp <= Max(Stamps(EntityOf(m)))
        BY <2>2, StampsHaveMax
      <4>2. QED
        BY <1>d, <2>4, <2>5, <4>1
    <3>4. NoneOlder(EntityOf(m), m, s)'
      BY <1>a, <1>f, <3>0, <3>2, <3>3 DEF NoneOlder
    <3>5. QED
      BY <1>a, <1>f, <2>5, <3>1, <3>4 DEF WriteIsSafe
  <2>6. CASE m \notin batch
    <3>1. RowIsSafe(m)
      BY <1>a, <2>6 DEF PassedIsSafe
    <3>2. m[2] < position[m[1]]
      <4>1. committed[m[1]] <= position[m[1]] /\ committed[m[1]] \in Int /\ position[m[1]] \in Int
        BY <1>a, <2>1 DEF DeliveryInv, PositionAhead, DeliveryTypeOK, NoOffset
      <4>2. QED
        BY <2>1, <4>1 DEF Passed
    <3>3. ASSUME NEW v \in pending', EntityOf(v.msg) = EntityOf(m) PROVE v.msg[2] >= m[2]
      <4>1. v.msg \in batch /\ v.msg[1] = m[1] /\ v.msg[2] \in Nat
        BY <1>d, <1>e, <2>2, <3>3
      <4>2. m[2] < v.msg[2]
        BY <1>a, <2>6, <3>2, <4>1 DEF BatchIsNew
      <4>3. QED
        BY <2>1, <4>1, <4>2
    <3>4. QED
      BY <1>a, <1>f, <3>1, <3>3 DEF RowIsSafe, NoneOlder
  <2>7. QED
    BY <2>5, <2>6
<1>6. QED
  BY <1>1, <1>2, <1>3, <1>4, <1>5

\* A landing write keeps types and bounds.
LEMMA LandKeepsBounds ==
  ASSUME SinkTypeOK, LogIsAhead, StampsAreBounded, NEW w \in pending \cup strays, ApplyWrite(w),
         pending' \cup strays' \subseteq pending \cup strays,
         UNCHANGED <<log, committed, position>>
  PROVE  /\ latest' \in [Entities -> [stamp : Nat, event : Messages \cup {NoEvent}]]
         /\ stored' \subseteq InsertTables \X Messages
         /\ StampsAreBounded' /\ LogIsAhead'
<1>1. w \in Write /\ w.msg \in Messages /\ w.stamp \in Nat /\ w.table \in InsertTables \cup {"latest"}
  BY DEF SinkTypeOK, Write
<1>2. EntityOf(w.msg) \in Entities
  BY EntityType DEF LogIsAhead
<1>3. latest' \in [Entities -> [stamp : Nat, event : Messages \cup {NoEvent}]]
  BY <1>1, <1>2 DEF ApplyWrite, SinkTypeOK
<1>4. stored' \subseteq InsertTables \X Messages
  BY <1>1 DEF ApplyWrite, SinkTypeOK
<1>5. StampsAreBounded'
  <2>1. PICK s \in Nat : /\ \A v \in pending \cup strays : v.stamp <= s
                         /\ \A e \in Entities : latest[e].stamp <= s
    BY DEF StampsAreBounded
  <2>2. \A e \in Entities : latest'[e].stamp = latest[e].stamp \/ latest'[e].stamp = w.stamp
    BY <1>2 DEF ApplyWrite, SinkTypeOK
  <2>3. \A e \in Entities : latest'[e].stamp <= s
    BY <2>1, <2>2
  <2>4. QED
    BY <2>1, <2>3 DEF StampsAreBounded
<1>6. LogIsAhead'
  BY DEF LogIsAhead, Produced
<1>7. QED
  BY <1>3, <1>4, <1>5, <1>6

\* Whatever lands, a row that shows the newest keeps doing so.
LEMMA AcknowledgeKeepsStatus ==
  ASSUME StatusInv, NEW w \in pending, Acknowledge(w)
  PROVE  StatusInv'
<1> USE DEF StatusInv
<1>a. /\ pc = "wait" /\ ApplyWrite(w) /\ pending' = pending \ {w}
      /\ UNCHANGED <<log, committed, position, pc, batch, strays, counted, crashes, skipped>>
  BY DEF Acknowledge, kafka
<1>b. pending' \cup strays' \subseteq pending \cup strays /\ w \in pending \cup strays
  BY <1>a
<1>1. SinkTypeOK'
  BY <1>a, <1>b, LandKeepsBounds DEF SinkTypeOK
<1>2. LogIsAhead' /\ StampsAreBounded'
  BY <1>a, <1>b, LandKeepsBounds
<1>3. BatchIsNew' /\ CountedIsCommitted'
  BY <1>a DEF BatchIsNew, CountedIsCommitted, Committed
<1>4. PassedIsSafe'
  <2> SUFFICES ASSUME NEW m \in Messages, Passed(m), m \notin skipped
               PROVE  RowIsSafe(m)' \/ (m \in batch /\ WriteIsSafe(m)')
    BY <1>a DEF PassedIsSafe, Passed
  <2>1. m \in Produced
    BY PassedIsProduced
  <2>2. CASE RowIsSafe(m)
    BY <1>a, <1>b, <2>1, <2>2, LandKeepsRows
  <2>3. CASE m \in batch /\ WriteIsSafe(m)
    <3>1. PICK v \in pending : /\ v.table = "latest" /\ EntityOf(v.msg) = EntityOf(m)
                               /\ NoneOlder(EntityOf(m), m, v.stamp)
      BY <2>3 DEF WriteIsSafe
    <3>2. CASE v = w
      BY <1>a, <1>b, <2>1, <3>1, <3>2, LandKeepsRows
    <3>3. CASE v # w
      <4>1. v \in pending'
        BY <1>a, <3>3
      <4>2. NoneOlder(EntityOf(m), m, v.stamp)'
        BY <1>a, <1>b, <2>1, <3>1, <4>1, LandKeepsRows
      <4>3. \A x : EntityOf(x)' = EntityOf(x)
        BY <1>a, SameLog
      <4>4. QED
        BY <2>3, <3>1, <4>1, <4>2, <4>3 DEF WriteIsSafe
    <3>4. QED
      BY <3>2, <3>3
  <2>4. QED
    BY <1>a, <2>2, <2>3 DEF PassedIsSafe
<1>5. QED
  BY <1>1, <1>2, <1>3, <1>4

\* So does a stray of a failed batch or a dead process, or one that never lands.
LEMMA StrayKeepsStatus ==
  ASSUME StatusInv, NEW w \in strays, StrayLands(w) \/ StrayVanishes(w)
  PROVE  StatusInv'
<1> USE DEF StatusInv
<1>a. /\ strays' = strays \ {w}
      /\ UNCHANGED <<log, committed, position, pc, batch, pending, counted, crashes, skipped>>
      /\ ApplyWrite(w) \/ (stored' = stored /\ latest' = latest)
  BY DEF StrayLands, StrayVanishes, kafka, tables
<1>b. pending' \cup strays' \subseteq pending \cup strays /\ w \in pending \cup strays
  BY <1>a
<1>1. BatchIsNew' /\ CountedIsCommitted'
  BY <1>a DEF BatchIsNew, CountedIsCommitted, Committed
<1>2. SinkTypeOK' /\ LogIsAhead' /\ StampsAreBounded'
  <2>1. CASE ApplyWrite(w)
    BY <1>a, <1>b, <2>1, LandKeepsBounds DEF SinkTypeOK
  <2>2. CASE stored' = stored /\ latest' = latest
    BY <1>a, <1>b, <2>2 DEF SinkTypeOK, LogIsAhead, Produced, StampsAreBounded
  <2>3. QED
    BY <1>a, <2>1, <2>2
<1>3. PassedIsSafe'
  <2> SUFFICES ASSUME NEW m \in Messages, Passed(m), m \notin skipped
               PROVE  \/ RowIsSafe(m)'
                      \/ pc = "issue" /\ m \in batch
                      \/ pc = "wait" /\ m \in batch /\ WriteIsSafe(m)'
    BY <1>a DEF PassedIsSafe, Passed
  <2>1. m \in Produced
    BY PassedIsProduced
  <2>2. \A x : EntityOf(x)' = EntityOf(x)
    BY <1>a, SameLog
  <2>3. (RowIsSafe(m) => RowIsSafe(m)') /\ (WriteIsSafe(m) => WriteIsSafe(m)')
    <3>1. CASE stored' = stored /\ latest' = latest
      BY <1>a, <1>b, <2>1, <2>2, <3>1, StillSafe
    <3>2. CASE ApplyWrite(w)
      <4>1. RowIsSafe(m) => RowIsSafe(m)'
        BY <1>a, <1>b, <2>1, <3>2, LandKeepsRows
      <4>2. ASSUME NEW v \in pending, v.table = "latest", EntityOf(v.msg) = EntityOf(m),
                   NoneOlder(EntityOf(m), m, v.stamp)
            PROVE  WriteIsSafe(m)'
        <5>1. NoneOlder(EntityOf(m), m, v.stamp)'
          BY <1>a, <1>b, <2>1, <3>2, <4>2, LandKeepsRows
        <5>2. QED
          BY <1>a, <2>2, <4>2, <5>1 DEF WriteIsSafe
      <4>3. QED
        BY <4>1, <4>2 DEF WriteIsSafe
    <3>3. QED
      BY <1>a, <3>1, <3>2
  <2>4. QED
    BY <2>3 DEF PassedIsSafe
<1>4. QED
  BY <1>1, <1>2, <1>3

\* A failed batch is skipped, whatever became of its writes.
LEMMA BatchFailsKeepsStatus ==
  ASSUME StatusInv, BatchFails
  PROVE  StatusInv'
<1> USE DEF StatusInv
<1>a. /\ pc = "wait" /\ pc' = "poll" /\ strays' = strays \cup pending /\ pending' = {}
      /\ skipped' = skipped \cup batch /\ batch' = {}
      /\ UNCHANGED <<log, committed, position, stored, latest, counted, crashes>>
  BY DEF BatchFails, kafka, tables
<1>1. SinkTypeOK' /\ LogIsAhead' /\ BatchIsNew' /\ CountedIsCommitted' /\ StampsAreBounded'
  BY <1>a DEF SinkTypeOK, LogIsAhead, Produced, BatchIsNew, CountedIsCommitted, Committed,
     StampsAreBounded
<1>2. PassedIsSafe'
  <2> SUFFICES ASSUME NEW m \in Messages, Passed(m), m \notin skipped \cup batch
               PROVE  RowIsSafe(m)'
    BY <1>a DEF PassedIsSafe, Passed
  <2>1. m \in Produced
    BY PassedIsProduced
  <2>2. QED
    BY <1>a, <2>1, SameLog, StillSafe DEF PassedIsSafe
<1>3. QED
  BY <1>1, <1>2

\* A commit adds exactly the batch to what is committed, none of which was.
LEMMA CommitKeepsStatus ==
  ASSUME DeliveryInv, StatusInv, Commit
  PROVE  StatusInv'
<1> USE DEF StatusInv
<1>a. /\ pc = "wait" /\ pc' = "count" /\ pending = {} /\ committed' = position
      /\ UNCHANGED <<log, position, batch, pending, strays, stored, latest, counted, crashes,
                     skipped>>
  BY DEF Commit, tables
<1>b. \A p \in Partitions : position[p] \in Nat /\ committed[p] \in Int /\ committed[p] <= position[p]
  BY <1>a DEF SinkTypeOK, NoOffset, DeliveryInv, PositionAhead
<1>1. SinkTypeOK' /\ LogIsAhead' /\ BatchIsNew' /\ StampsAreBounded'
  BY <1>a, <1>b DEF SinkTypeOK, LogIsAhead, Produced, BatchIsNew, StampsAreBounded
<1>2. CountedIsCommitted'
  <2>1. Committed \subseteq Committed'
    <3> SUFFICES ASSUME NEW m \in Messages, m[2] < committed[m[1]] PROVE m[2] < position[m[1]]
      BY <1>a DEF Committed
    <3>1. m[1] \in Partitions /\ m[2] \in Nat
      BY MessageType
    <3>2. QED
      BY <1>b, <3>1
  <2>2. batch \subseteq Committed'
    BY <1>a DEF BatchIsNew, SinkTypeOK, Committed
  <2>3. Committed \cap batch = {}
    <3> SUFFICES ASSUME NEW m \in batch PROVE ~(m[2] < committed[m[1]])
      BY DEF Committed
    <3>1. m[1] \in Partitions /\ m[2] \in Nat /\ committed[m[1]] <= m[2]
      BY <1>a, MessageType DEF BatchIsNew, SinkTypeOK
    <3>2. QED
      BY <1>b, <3>1
  <2>4. IsFiniteSet(Committed) /\ IsFiniteSet(batch) /\ IsFiniteSet(Committed')
    BY MessagesFinite, FS_Subset DEF Committed, SinkTypeOK
  <2>5. Cardinality(Committed \cup batch) = Cardinality(Committed) + Cardinality(batch)
    <3>1. Cardinality(Committed \cap batch) = 0
      BY <2>3, FS_EmptySet
    <3>2. Cardinality(Committed) \in Nat /\ Cardinality(batch) \in Nat
      BY <2>4, FS_CardinalityType
    <3>3. Cardinality(Committed \cup batch)
            = Cardinality(Committed) + Cardinality(batch) - Cardinality(Committed \cap batch)
      BY <2>4, FS_Union
    <3>4. QED
      BY <3>1, <3>2, <3>3
  <2>6. Cardinality(Committed \cup batch) <= Cardinality(Committed')
    BY <2>1, <2>2, <2>4, FS_Subset
  <2>7. counted <= Cardinality(Committed)
    BY <1>a DEF CountedIsCommitted, SinkTypeOK
  <2>8. /\ Cardinality(Committed) \in Nat /\ Cardinality(batch) \in Nat
        /\ Cardinality(Committed') \in Nat /\ counted \in Nat
    BY <2>4, FS_CardinalityType DEF SinkTypeOK
  <2>9. QED
    BY <1>a, <2>5, <2>6, <2>7, <2>8 DEF CountedIsCommitted
<1>3. PassedIsSafe'
  <2> SUFFICES ASSUME NEW m \in Messages, Passed(m)' PROVE m \in skipped \/ RowIsSafe(m)'
    BY <1>a DEF PassedIsSafe
  <2>1. Passed(m)
    BY <1>a DEF Passed
  <2>2. m \in Produced
    BY <2>1, PassedIsProduced
  <2>3. m \in skipped \/ RowIsSafe(m)
    BY <1>a, <2>1 DEF PassedIsSafe, WriteIsSafe
  <2>4. QED
    BY <1>a, <2>2, <2>3, SameLog, StillSafe
<1>4. QED
  BY <1>1, <1>2, <1>3

\* The counter is added to once for a committed batch, or not at all.
LEMMA CountKeepsStatus ==
  ASSUME StatusInv, Count
  PROVE  StatusInv'
<1> USE DEF StatusInv
<1>a. /\ pc = "count" /\ pc' = "poll" /\ batch' = {}
      /\ counted' \in {counted, counted + Cardinality(batch)}
      /\ UNCHANGED <<log, committed, position, pending, strays, stored, latest, crashes, skipped>>
  BY DEF Count, kafka
<1>b. IsFiniteSet(batch) /\ IsFiniteSet(Committed)
  BY MessagesFinite, FS_Subset DEF Committed, SinkTypeOK
<1>c. Cardinality(batch) \in Nat /\ Cardinality(Committed) \in Nat /\ counted \in Nat
  BY <1>b, FS_CardinalityType DEF SinkTypeOK
<1>1. SinkTypeOK'
  BY <1>a, <1>c DEF SinkTypeOK
<1>2. LogIsAhead' /\ BatchIsNew' /\ StampsAreBounded'
  BY <1>a DEF LogIsAhead, Produced, BatchIsNew, StampsAreBounded
<1>3. CountedIsCommitted'
  <2>1. counted + Cardinality(batch) <= Cardinality(Committed)
    BY <1>a DEF CountedIsCommitted
  <2>2. Committed' = Committed
    BY <1>a DEF Committed
  <2>3. counted' <= Cardinality(Committed)
    BY <1>a, <1>c, <2>1
  <2>4. QED
    BY <1>a, <1>c, <2>2, <2>3 DEF CountedIsCommitted
<1>4. PassedIsSafe'
  <2> SUFFICES ASSUME NEW m \in Messages, Passed(m)' PROVE m \in skipped \/ RowIsSafe(m)'
    BY <1>a DEF PassedIsSafe
  <2>1. Passed(m)
    BY <1>a DEF Passed
  <2>2. QED
    BY <1>a, <2>1, PassedIsProduced, SameLog, StillSafe DEF PassedIsSafe
<1>5. QED
  BY <1>1, <1>2, <1>3, <1>4

\* A crash forgets the batch in hand, and none of it was committed.
LEMMA CrashKeepsStatus ==
  ASSUME StatusInv, Crash
  PROVE  StatusInv'
<1> USE DEF StatusInv
<1>a. /\ pc' = "down" /\ strays' = strays \cup pending /\ pending' = {} /\ batch' = {}
      /\ UNCHANGED <<log, committed, position, stored, latest, counted, skipped>>
      /\ crashes' = crashes + 1 /\ crashes < MaxCrashes
  BY DEF Crash, kafka, tables
<1>1. SinkTypeOK'
  <2>1. crashes' \in 0..MaxCrashes
    BY <1>a, TopicAssumption DEF SinkTypeOK
  <2>2. QED
    BY <1>a, <2>1 DEF SinkTypeOK
<1>2. LogIsAhead' /\ BatchIsNew' /\ StampsAreBounded'
  BY <1>a DEF LogIsAhead, Produced, BatchIsNew, StampsAreBounded
<1>3. CountedIsCommitted'
  <2>1. IsFiniteSet(batch) /\ IsFiniteSet(Committed)
    BY MessagesFinite, FS_Subset DEF Committed, SinkTypeOK
  <2>2. Cardinality(batch) \in Nat /\ Cardinality(Committed) \in Nat /\ counted \in Nat
    BY <2>1, FS_CardinalityType DEF SinkTypeOK
  <2>3. counted <= Cardinality(Committed)
    BY <2>2 DEF CountedIsCommitted
  <2>4. Committed' = Committed
    BY <1>a DEF Committed
  <2>5. QED
    BY <1>a, <2>2, <2>3, <2>4 DEF CountedIsCommitted
<1>4. PassedIsSafe'
  <2> SUFFICES ASSUME NEW m \in Messages, m[2] < committed[m[1]]
               PROVE  m \in skipped \/ RowIsSafe(m)'
    BY <1>a DEF PassedIsSafe, Passed
  <2>1. Passed(m)
    BY DEF Passed
  <2>2. pc \in {"issue", "wait"} => m \notin batch
    <3>1. m[1] \in Partitions /\ m[2] \in Nat
      BY MessageType
    <3>2. committed[m[1]] \in Int
      BY <3>1 DEF SinkTypeOK, NoOffset
    <3>3. QED
      BY <3>1, <3>2 DEF BatchIsNew
  <2>3. QED
    BY <1>a, <2>1, <2>2, PassedIsProduced, SameLog, StillSafe DEF PassedIsSafe
<1>5. QED
  BY <1>1, <1>2, <1>3, <1>4

\* A restart reads again from the committed offsets: what it passes was passed.
LEMMA RestartKeepsStatus ==
  ASSUME StatusInv, Restart
  PROVE  StatusInv'
<1> USE DEF StatusInv
<1>a. /\ pc = "down" /\ pc' = "poll"
      /\ position' = [p \in Partitions |-> Start(p)]
      /\ skipped' = {m \in skipped : m[2] < Start(m[1])}
      /\ UNCHANGED <<log, committed, batch, pending, strays, stored, latest, counted, crashes>>
  BY DEF Restart, kafka, tables
<1>b. \A p \in Partitions : /\ Start(p) \in Nat /\ Len(log[p]) \in Nat
                            /\ Start(p) <= Len(log[p])
                            /\ \A k \in Nat : k < Start(p) <=> k < committed[p]
  BY DEF Start, SinkTypeOK, NoOffset, LogIsAhead
<1>1. SinkTypeOK'
  <2>1. position' \in [Partitions -> Nat]
    BY <1>a, <1>b
  <2>2. skipped' \subseteq Messages
    BY <1>a DEF SinkTypeOK
  <2>3. QED
    BY <1>a, <2>1, <2>2 DEF SinkTypeOK
<1>2. LogIsAhead'
  BY <1>a, <1>b DEF LogIsAhead, Produced
<1>3. BatchIsNew' /\ StampsAreBounded' /\ CountedIsCommitted'
  BY <1>a DEF BatchIsNew, StampsAreBounded, CountedIsCommitted, Committed
<1>4. PassedIsSafe'
  <2> SUFFICES ASSUME NEW m \in Messages, Passed(m)' PROVE m \in skipped' \/ RowIsSafe(m)'
    BY <1>a DEF PassedIsSafe
  <2>1. m[1] \in Partitions /\ m[2] \in Nat
    BY MessageType
  <2>2. m[2] < committed[m[1]] /\ m[2] < Start(m[1])
    BY <1>a, <1>b, <2>1 DEF Passed
  <2>3. Passed(m)
    BY <2>2 DEF Passed
  <2>4. m \in skipped => m \in skipped'
    BY <1>a, <2>2
  <2>5. QED
    BY <1>a, <2>3, <2>4, PassedIsProduced, SameLog, StillSafe DEF PassedIsSafe
<1>5. QED
  BY <1>1, <1>2, <1>3, <1>4

\* The invariant holds initially.
LEMMA InitStatus == SinkInit => StatusInv
<1> SUFFICES ASSUME SinkInit PROVE StatusInv
  OBVIOUS
<1>1. \A m \in Messages : ~(m[2] < 0) /\ ~(m[2] < NoOffset) /\ m[1] \in Partitions
  BY MessageType DEF NoOffset
<1>2. SinkTypeOK
  BY TopicAssumption DEF SinkInit, SinkTypeOK, NoOffset
<1>3. LogIsAhead /\ BatchIsNew /\ StampsAreBounded
  BY DEF SinkInit, LogIsAhead, BatchIsNew, StampsAreBounded, NoOffset
<1>4. PassedIsSafe
  BY <1>1 DEF SinkInit, PassedIsSafe, Passed
<1>5. CountedIsCommitted
  <2>1. Committed = {}
    BY <1>1 DEF SinkInit, Committed
  <2>2. QED
    BY <2>1, FS_EmptySet DEF SinkInit, CountedIsCommitted
<1>6. QED
  BY <1>2, <1>3, <1>4, <1>5 DEF StatusInv

\* Every step keeps it.
LEMMA StatusStep == DeliveryInv /\ StatusInv /\ [SinkNext]_sinkVars => StatusInv'
<1> SUFFICES ASSUME DeliveryInv, StatusInv, [SinkNext]_sinkVars PROVE StatusInv'
  OBVIOUS
<1>1. CASE UNCHANGED sinkVars
  <2>1. SinkTypeOK' /\ LogIsAhead' /\ BatchIsNew'
    BY <1>1 DEF sinkVars, StatusInv, SinkTypeOK, LogIsAhead, Produced, BatchIsNew
  <2>2. CountedIsCommitted' /\ StampsAreBounded'
    BY <1>1 DEF sinkVars, StatusInv, CountedIsCommitted, Committed, StampsAreBounded
  <2>3. PassedIsSafe'
    BY <1>1 DEF sinkVars, StatusInv, PassedIsSafe, Passed, RowIsSafe, WriteIsSafe, NoneOlder,
       EntityOf
  <2>4. QED
    BY <2>1, <2>2, <2>3 DEF StatusInv
<1>2. CASE SinkStep
  BY <1>1, <1>2, PollKeepsStatus, IssueKeepsStatus, AcknowledgeKeepsStatus, CommitKeepsStatus,
     CountKeepsStatus, RestartKeepsStatus DEF SinkStep, PollEmpty
<1>3. CASE SinkFault
  BY <1>3, BatchFailsKeepsStatus, CrashKeepsStatus, StrayKeepsStatus DEF SinkFault
<1>4. QED
  BY <1>1, <1>2, <1>3, ProduceKeepsStatus DEF SinkNext

\* With both invariants, the sink's bookkeeping is right and a row it has caught
\* up on shows the newest event.
LEMMA StatusSuffices == StatusInv => SinkSound /\ LatestIsNewest
<1> SUFFICES ASSUME StatusInv PROVE SinkSound /\ LatestIsNewest
  OBVIOUS
<1> USE DEF StatusInv
<1>1. CountsAreBounded
  <2>1. IsFiniteSet(batch) /\ IsFiniteSet(Committed)
    BY MessagesFinite, FS_Subset DEF Committed, SinkTypeOK
  <2>2. Cardinality(batch) \in Nat /\ Cardinality(Committed) \in Nat /\ counted \in Nat
    BY <2>1, FS_CardinalityType DEF SinkTypeOK
  <2>3. QED
    BY <2>2 DEF CountsAreBounded, CountedIsCommitted
<1>2. ASSUME NEW e \in Entities, CaughtUp(e), NEW m \in Produced, EntityOf(m) = e
      PROVE  latest[e].event # NoEvent /\ m[2] <= latest[e].event[2]
  <2>1. m \in Messages /\ m[1] = PartitionOf[e] /\ m[2] \in Nat /\ m[2] < Len(log[m[1]])
    BY <1>2, EntityType, MessageType DEF Produced
  <2>2. Passed(m)
    BY <1>2, <2>1 DEF CaughtUp, Passed
  <2>3. RowIsSafe(m)
    BY <1>2, <2>1, <2>2 DEF CaughtUp, PassedIsSafe
  <2>4. latest[e].stamp \in Nat /\ latest[e].event \in Messages \cup {NoEvent}
    BY DEF SinkTypeOK
  <2>5. latest[e].event # NoEvent /\ latest[e].event[2] >= m[2]
    BY <1>2, <2>3, <2>4 DEF RowIsSafe, NoneOlder
  <2>6. latest[e].event[2] \in Nat
    BY <2>4, <2>5, MessageType
  <2>7. QED
    BY <2>1, <2>5, <2>6
<1>3. QED
  BY <1>1, <1>2 DEF SinkSound, LatestIsNewest

-----------------------------------------------------------------------------
(* What follows *)

\* The counter of a running sink never claims a record that is not committed,
\* through any replays, crashes and lost updates.
THEOREM CountsStayBounded == SinkSpec => []SinkSound
  BY InitInv, InvStep, InitStatus, StatusStep, StatusSuffices, PTL DEF SinkSpec

\* A sink that has caught up without skipping shows each asset's newest event,
\* whatever order its writes and the strays of its earlier lives landed in.
THEOREM StatusIsNewest == SinkSpec => []LatestIsNewest
  BY InitInv, InvStep, InitStatus, StatusStep, StatusSuffices, PTL DEF SinkSpec

-----------------------------------------------------------------------------
(* SettledWindow: the invariants *)

Stamp == [event : Nat, sent : Nat]

Reads == [Partitions -> Nat \cup {NoOffset}]

WindowTypeOK ==
    /\ log \in [Partitions -> Seq(Entities)]
    /\ now \in Nat
    /\ building \in [at : Nat, left : Seq(Entities), sent : Nat]
    /\ stamps \in [Partitions -> Seq(Stamp)]
    /\ reader \in [pc : {"idle", "committed", "beyond", "ends", "done"},
                   committed : Reads, beyond : Reads]
    /\ verdict \in {"none", "settled", "growing"}

\* The Kafka timestamps of a partition never go back, and each follows its
\* batch's own stamp within the time a batch takes.
StampsAreOrdered ==
    /\ building.sent <= now
    /\ \A p \in Partitions :
        /\ Len(stamps[p]) = Len(log[p])
        /\ \A i \in 1..Len(stamps[p]) :
            /\ stamps[p][i].sent <= building.sent
            /\ stamps[p][i].sent <= stamps[p][i].event + BuildTime
            /\ \A j \in 1..Len(stamps[p]) : i <= j => stamps[p][i].sent <= stamps[p][j].sent

\* What the request has read of the offsets is not ahead of them, and the record
\* it found past the target has only such records behind it.
ReadsAreTrue ==
    \A p \in Partitions :
        /\ reader.committed[p] <= committed[p]
        /\ reader.beyond[p] # NoOffset =>
            /\ reader.beyond[p] < Len(stamps[p])
            /\ \A i \in 1..Len(stamps[p]) : reader.beyond[p] < i => stamps[p][i].sent >= Target

\* A settled verdict had the offsets it needed.
VerdictIsBacked ==
    verdict = "settled" =>
        /\ reader.pc = "done"
        /\ \A p \in Partitions :
            reader.beyond[p] # NoOffset => reader.committed[p] >= reader.beyond[p]

\* The inductive invariant.
WindowInv ==
    /\ WindowTypeOK
    /\ StampsAreOrdered
    /\ ReadsAreTrue
    /\ VerdictIsBacked

-----------------------------------------------------------------------------
(* Steps of the sink, seen from the window *)

\* Every step is one of the sink and its producer, or leaves them alone.
LEMMA StepsOfTheSink ==
  ASSUME WindowTypeOK, [Next]_vars
  PROVE  [SinkNext]_sinkVars
<1>1. CASE \E ts \in Time : SendRecord(ts)
  <2>1. PICK ts \in Time : SendRecord(ts)
    BY <1>1
  <2>2. building.left \in Seq(Entities) /\ building.left # <<>>
    BY <2>1 DEF SendRecord, WindowTypeOK
  <2>3. Head(building.left) \in Entities
    BY <2>2
  <2>4. Produce(Head(building.left))
    BY <2>1 DEF SendRecord
  <2>5. QED
    BY <2>3, <2>4 DEF SinkNext
<1>2. CASE Sink
  BY <1>2 DEF Sink, SinkNext
<1>3. CASE Tick \/ BuildBatch \/ Reader \/ UNCHANGED vars
  BY <1>3 DEF Tick, BuildBatch, Reader, Ask, ReadCommitted, ReadBeyond, ReadEnds, ReadFails, vars
<1>4. QED
  BY <1>1, <1>2, <1>3 DEF Next

\* Only the producer writes the log.
LEMMA SinkLeavesTheLog ==
  ASSUME SinkStep \/ SinkFault
  PROVE  log' = log
  BY DEF SinkStep, SinkFault, Poll, PollEmpty, Issue, Acknowledge, Commit, Count, Restart,
     BatchFails, Crash, StrayLands, StrayVanishes, kafka, sinkVars

\* The sink and the clock change nothing the request relies on.
LEMMA OthersKeepWindow ==
  ASSUME WindowInv, DeliveryInv, Sink \/ Tick \/ UNCHANGED vars
  PROVE  WindowInv'
<1> USE DEF WindowInv
<1>1. UNCHANGED <<log, building, stamps, reader, verdict>>
  BY SinkLeavesTheLog DEF Sink, windowVars, Tick, sinkVars, vars
<1>2. now' \in Nat /\ building.sent <= now'
  BY DEF Sink, windowVars, Tick, vars, WindowTypeOK, StampsAreOrdered
<1>3. WindowTypeOK' /\ StampsAreOrdered' /\ VerdictIsBacked'
  BY <1>1, <1>2 DEF WindowTypeOK, StampsAreOrdered, VerdictIsBacked
<1>4. ReadsAreTrue'
  <2>1. [SinkNext]_sinkVars
    BY StepsOfTheSink DEF Next
  <2>2. DeliveryInv'
    BY <2>1, InvStep
  <2>3. \A p \in Partitions : /\ committed'[p] >= committed[p]
                              /\ committed[p] \in Int /\ committed'[p] \in Int
                              /\ reader.committed[p] \in Int
    BY <2>1, <2>2, OffsetsGrow DEF DeliveryInv, DeliveryTypeOK, NoOffset, WindowTypeOK, Reads
  <2>4. \A p \in Partitions : reader.committed[p] <= committed'[p]
    BY <2>3 DEF ReadsAreTrue
  <2>5. QED
    BY <1>1, <2>4 DEF ReadsAreTrue
<1>5. QED
  BY <1>3, <1>4

-----------------------------------------------------------------------------
(* The producer *)

\* A new batch is stamped now, no earlier than anything sent.
LEMMA BuildKeepsWindow ==
  ASSUME WindowInv, BuildBatch
  PROVE  WindowInv'
<1> USE DEF WindowInv
<1>1. /\ building' = [at |-> now, left |-> BatchOf, sent |-> now]
      /\ UNCHANGED <<log, committed, now, stamps, reader, verdict>>
  BY DEF BuildBatch, sinkVars
<1>2. now \in Nat /\ building.sent \in Nat /\ building.sent <= now /\ building'.sent = now
  BY <1>1 DEF WindowTypeOK, StampsAreOrdered
<1>3. WindowTypeOK'
  BY <1>1, <1>2, TimeAssumption DEF WindowTypeOK
<1>4. StampsAreOrdered'
  <2>1. ASSUME NEW p \in Partitions, NEW i \in 1..Len(stamps[p])
        PROVE  stamps[p][i].sent <= now
    <3>1. stamps[p] \in Seq(Stamp)
      BY DEF WindowTypeOK
    <3>2. stamps[p][i] \in Stamp
      BY <3>1
    <3>3. stamps[p][i].sent \in Nat /\ stamps[p][i].sent <= building.sent
      BY <3>2 DEF Stamp, StampsAreOrdered
    <3>4. QED
      BY <1>2, <3>3
  <2>2. QED
    BY <1>1, <1>2, <2>1 DEF StampsAreOrdered
<1>5. ReadsAreTrue' /\ VerdictIsBacked'
  BY <1>1 DEF ReadsAreTrue, VerdictIsBacked
<1>6. QED
  BY <1>3, <1>4, <1>5

\* A record is appended with the newest timestamp of its partition.
LEMMA SendKeepsWindow ==
  ASSUME WindowInv, NEW ts \in Time, SendRecord(ts)
  PROVE  WindowInv'
<1> USE DEF WindowInv
<1> DEFINE e == Head(building.left)
           q == PartitionOf[e]
           r == [event |-> building.at, sent |-> ts]
<1>a. /\ building.left # <<>> /\ building.sent <= ts /\ ts <= now /\ ts <= building.at + BuildTime
      /\ log' = [log EXCEPT ![q] = Append(@, e)]
      /\ stamps' = [stamps EXCEPT ![q] = Append(@, r)]
      /\ building' = [building EXCEPT !.left = Tail(@), !.sent = ts]
      /\ UNCHANGED <<committed, now, reader, verdict>>
  BY DEF SendRecord, Produce
<1>b. /\ building \in [at : Nat, left : Seq(Entities), sent : Nat]
      /\ now \in Nat /\ ts \in Nat /\ BuildTime \in Nat
      /\ log \in [Partitions -> Seq(Entities)] /\ stamps \in [Partitions -> Seq(Stamp)]
  BY TimeAssumption DEF WindowTypeOK, Time
<1>c. e \in Entities /\ q \in Partitions /\ Tail(building.left) \in Seq(Entities)
  <2>1. building.left \in Seq(Entities)
    BY <1>b
  <2>2. QED
    BY <1>a, <2>1, TopicAssumption
<1>d. r \in Stamp /\ r.sent = ts /\ r.event = building.at
  BY <1>b DEF Stamp
<1> HIDE DEF e, q, r
<1>e. ASSUME NEW p \in Partitions
      PROVE  /\ stamps'[p] \in Seq(Stamp) /\ log'[p] \in Seq(Entities)
             /\ Len(stamps[p]) \in Nat /\ Len(stamps'[p]) \in Nat
             /\ Len(stamps'[p]) = Len(log'[p])
             /\ Len(stamps'[p]) >= Len(stamps[p])
             /\ \A i \in 1..Len(stamps'[p]) :
                  \/ i \in 1..Len(stamps[p]) /\ stamps'[p][i] = stamps[p][i]
                  \/ i = Len(stamps'[p]) /\ i = Len(stamps[p]) + 1 /\ stamps'[p][i] = r
  <2>1. stamps[p] \in Seq(Stamp) /\ log[p] \in Seq(Entities) /\ Len(stamps[p]) = Len(log[p])
    BY <1>b DEF StampsAreOrdered
  <2>2. CASE p = q
    <3>1. stamps'[p] = Append(stamps[p], r) /\ log'[p] = Append(log[p], e)
      BY <1>a, <1>b, <2>2
    <3>2. QED
      BY <1>c, <1>d, <2>1, <3>1
  <2>3. CASE p # q
    <3>1. stamps'[p] = stamps[p] /\ log'[p] = log[p]
      BY <1>a, <1>b, <2>3
    <3>2. QED
      BY <2>1, <3>1
  <2>4. QED
    BY <2>2, <2>3
<1>f. building'.sent = ts /\ building'.at = building.at /\ building'.left = Tail(building.left)
  BY <1>a, <1>b
<1>g. building' \in [at : Nat, left : Seq(Entities), sent : Nat]
  BY <1>a, <1>b, <1>c
<1>1. WindowTypeOK'
  <2>1. log' \in [Partitions -> Seq(Entities)] /\ stamps' \in [Partitions -> Seq(Stamp)]
    BY <1>a, <1>b, <1>e
  <2>2. QED
    BY <1>a, <1>g, <2>1 DEF WindowTypeOK
<1>h. ASSUME NEW p \in Partitions, NEW i \in 1..Len(stamps[p])
      PROVE  /\ stamps[p][i].sent \in Nat /\ stamps[p][i].event \in Nat
             /\ stamps[p][i].sent <= ts
             /\ stamps[p][i].sent <= stamps[p][i].event + BuildTime
             /\ \A j \in 1..Len(stamps[p]) : i <= j => stamps[p][i].sent <= stamps[p][j].sent
  <2>1. stamps[p] \in Seq(Stamp)
    BY <1>b
  <2>2. stamps[p][i] \in Stamp
    BY <2>1
  <2>3. stamps[p][i].sent \in Nat /\ stamps[p][i].event \in Nat
    BY <2>2 DEF Stamp
  <2>4. stamps[p][i].sent <= building.sent /\ building.sent \in Nat
    BY <1>b DEF StampsAreOrdered
  <2>5. QED
    BY <1>a, <1>b, <2>3, <2>4 DEF StampsAreOrdered
<1>2. StampsAreOrdered'
  <2>1. ASSUME NEW p \in Partitions, NEW i \in 1..Len(stamps'[p])
        PROVE  stamps'[p][i].sent <= ts /\ stamps'[p][i].sent <= stamps'[p][i].event + BuildTime
    BY <1>a, <1>b, <1>d, <1>e, <1>h, <2>1
  <2>2. ASSUME NEW p \in Partitions, NEW i \in 1..Len(stamps'[p]),
               NEW j \in 1..Len(stamps'[p]), i <= j
        PROVE  stamps'[p][i].sent <= stamps'[p][j].sent
    <3>1. CASE j \in 1..Len(stamps[p]) /\ stamps'[p][j] = stamps[p][j]
      <4>1. i \in 1..Len(stamps[p]) /\ stamps'[p][i] = stamps[p][i]
        BY <1>e, <2>2, <3>1
      <4>2. QED
        BY <1>h, <2>2, <3>1, <4>1
    <3>2. CASE stamps'[p][j] = r
      BY <1>d, <2>1, <3>2
    <3>3. QED
      BY <1>e, <3>1, <3>2
  <2>3. QED
    BY <1>a, <1>e, <1>f, <2>1, <2>2 DEF StampsAreOrdered
<1>3. ReadsAreTrue'
  <2> SUFFICES ASSUME NEW p \in Partitions, reader.beyond[p] # NoOffset
               PROVE  /\ reader.beyond[p] < Len(stamps'[p])
                      /\ \A i \in 1..Len(stamps'[p]) :
                           reader.beyond[p] < i => stamps'[p][i].sent >= Target
    BY <1>a DEF ReadsAreTrue
  <2>1. reader.beyond[p] \in Nat /\ reader.beyond[p] < Len(stamps[p])
    BY DEF ReadsAreTrue, WindowTypeOK, Reads
  <2>2. \A i \in 1..Len(stamps[p]) : reader.beyond[p] < i => stamps[p][i].sent >= Target
    BY DEF ReadsAreTrue
  <2>3. Target \in Nat
    BY TimeAssumption DEF Target
  <2>4. ts >= Target
    <3>1. Len(stamps[p]) \in 1..Len(stamps[p])
      BY <1>e, <2>1
    <3>2. stamps[p][Len(stamps[p])].sent >= Target
      BY <1>e, <2>1, <2>2, <3>1
    <3>3. QED
      BY <1>b, <1>h, <2>3, <3>1, <3>2
  <2>5. \A i \in 1..Len(stamps'[p]) : reader.beyond[p] < i => stamps'[p][i].sent >= Target
    BY <1>d, <1>e, <2>1, <2>2, <2>4
  <2>6. QED
    BY <1>e, <2>1, <2>5
<1>4. VerdictIsBacked'
  BY <1>a DEF VerdictIsBacked
<1>5. QED
  BY <1>1, <1>2, <1>3, <1>4

-----------------------------------------------------------------------------
(* The request *)

\* offsets_for_times finds a record with none before it, and all behind it, at or
\* past the target.
LEMMA FirstBeyondIsFirst ==
  ASSUME WindowInv, NEW p \in Partitions
  PROVE  /\ FirstBeyond(p) \in Nat \cup {NoOffset}
         /\ FirstBeyond(p) # NoOffset =>
              /\ FirstBeyond(p) < Len(stamps[p])
              /\ \A i \in 1..Len(stamps[p]) : FirstBeyond(p) < i => stamps[p][i].sent >= Target
<1> DEFINE late == {i \in 1..Len(stamps[p]) : stamps[p][i].sent >= Target}
<1>1. FirstBeyond(p) = IF late = {} THEN NoOffset ELSE Min(late) - 1
  BY DEF FirstBeyond
<1>2. stamps[p] \in Seq(Stamp) /\ Len(stamps[p]) \in Nat
  BY DEF WindowInv, WindowTypeOK
<1>3. late \in SUBSET Nat
  BY <1>2
<1>4. CASE late # {}
  <2>1. Min(late) \in late
    BY <1>3, <1>4, MinIsLeast
  <2>2. Min(late) \in 1..Len(stamps[p]) /\ stamps[p][Min(late)].sent >= Target
    BY <2>1
  <2> HIDE DEF late
  <2>3. FirstBeyond(p) = Min(late) - 1
    BY <1>1, <1>4
  <2>4. ASSUME NEW i \in 1..Len(stamps[p]), FirstBeyond(p) < i
        PROVE  stamps[p][i].sent >= Target
    <3>1. Min(late) <= i
      BY <2>2, <2>3, <2>4
    <3>2. stamps[p][Min(late)].sent <= stamps[p][i].sent
      BY <2>2, <3>1 DEF WindowInv, StampsAreOrdered
    <3>3. stamps[p][i] \in Stamp /\ stamps[p][Min(late)] \in Stamp
      BY <1>2, <2>2
    <3>4. stamps[p][i].sent \in Nat /\ stamps[p][Min(late)].sent \in Nat /\ Target \in Nat
      BY <3>3, TimeAssumption DEF Stamp, Target
    <3>5. QED
      BY <2>2, <3>2, <3>4
  <2>5. QED
    BY <1>2, <2>2, <2>3, <2>4
<1>5. CASE late = {}
  BY <1>1, <1>5
<1>6. QED
  BY <1>4, <1>5

\* Each read of the request is true when it is made.
LEMMA ReaderKeepsWindow ==
  ASSUME WindowInv, DeliveryInv, Reader
  PROVE  WindowInv'
<1> USE DEF WindowInv
<1>a. UNCHANGED <<log, committed, now, building, stamps>>
  BY DEF Reader, Ask, ReadCommitted, ReadBeyond, ReadEnds, ReadFails, sinkVars
<1>b. StampsAreOrdered'
  BY <1>a DEF StampsAreOrdered
<1>c. reader \in [pc : {"idle", "committed", "beyond", "ends", "done"},
                  committed : Reads, beyond : Reads]
  BY DEF WindowTypeOK
<1>d. verdict = "settled" => reader.pc = "done"
  BY DEF VerdictIsBacked
<1>1. CASE Ask
  <2>1. /\ reader'.committed = reader.committed /\ reader'.beyond = reader.beyond
        /\ verdict' = verdict /\ verdict # "settled"
        /\ reader' \in [pc : {"idle", "committed", "beyond", "ends", "done"},
                        committed : Reads, beyond : Reads]
    BY <1>1, <1>c, <1>d DEF Ask
  <2>2. QED
    BY <1>a, <1>b, <2>1 DEF WindowTypeOK, ReadsAreTrue, VerdictIsBacked
<1>2. CASE ReadCommitted
  <2>1. committed \in Reads /\ \A p \in Partitions : committed[p] \in Int
    BY DEF DeliveryInv, DeliveryTypeOK, Reads, NoOffset
  <2>2. /\ reader'.committed = committed /\ reader'.beyond = reader.beyond
        /\ verdict' = verdict /\ verdict # "settled"
        /\ reader' \in [pc : {"idle", "committed", "beyond", "ends", "done"},
                        committed : Reads, beyond : Reads]
    BY <1>2, <1>c, <1>d, <2>1 DEF ReadCommitted
  <2>3. QED
    BY <1>a, <1>b, <2>1, <2>2 DEF WindowTypeOK, ReadsAreTrue, VerdictIsBacked
<1>3. CASE ReadBeyond
  <2> DEFINE found == [p \in Partitions |-> FirstBeyond(p)]
  <2>1. found \in Reads
    BY FirstBeyondIsFirst DEF Reads
  <2>2. \A p \in Partitions : found[p] = FirstBeyond(p)
    OBVIOUS
  <2>3. reader' = [reader EXCEPT !.pc = "ends", !.beyond = found] /\ reader.pc = "beyond"
        /\ verdict' = verdict
    BY <1>3 DEF ReadBeyond
  <2> HIDE DEF found
  <2>4. /\ reader'.committed = reader.committed /\ reader'.beyond = found
        /\ verdict # "settled"
        /\ reader' \in [pc : {"idle", "committed", "beyond", "ends", "done"},
                        committed : Reads, beyond : Reads]
    BY <1>c, <1>d, <2>1, <2>3
  <2>5. ReadsAreTrue'
    BY <1>a, <2>2, <2>4, FirstBeyondIsFirst DEF ReadsAreTrue
  <2>6. QED
    BY <1>a, <1>b, <2>3, <2>4, <2>5 DEF WindowTypeOK, VerdictIsBacked
<1>4. CASE ReadEnds \/ ReadFails
  <2>1. /\ reader'.committed = reader.committed /\ reader'.beyond = reader.beyond
        /\ reader'.pc = "done" /\ verdict' \in {"settled", "growing"}
        /\ reader' \in [pc : {"idle", "committed", "beyond", "ends", "done"},
                        committed : Reads, beyond : Reads]
    BY <1>4, <1>c DEF ReadEnds, ReadFails
  <2>2. verdict' = "settled" => \A p \in Partitions : ConsumedPast(p)
    BY <1>4 DEF ReadEnds, ReadFails
  <2>3. VerdictIsBacked'
    BY <2>1, <2>2 DEF VerdictIsBacked, ConsumedPast, Needed
  <2>4. QED
    BY <1>a, <1>b, <2>1, <2>3 DEF WindowTypeOK, ReadsAreTrue
<1>5. QED
  BY <1>1, <1>2, <1>3, <1>4 DEF Reader

-----------------------------------------------------------------------------
(* What follows *)

\* The invariants hold initially, and every step keeps them.
LEMMA WindowStart == Init => DeliveryInv /\ WindowInv
<1> SUFFICES ASSUME Init PROVE DeliveryInv /\ WindowInv
  OBVIOUS
<1>1. DeliveryInv
  BY InitInv DEF Init
<1>2. WindowTypeOK
  BY DEF Init, SinkInit, WindowTypeOK, Idle, Reads
<1>3. StampsAreOrdered /\ ReadsAreTrue /\ VerdictIsBacked
  BY DEF Init, SinkInit, StampsAreOrdered, ReadsAreTrue, VerdictIsBacked, Idle, NoOffset
<1>4. QED
  BY <1>1, <1>2, <1>3 DEF WindowInv

\* The step, for both invariants.
LEMMA WindowStep == DeliveryInv /\ WindowInv /\ [Next]_vars => DeliveryInv' /\ WindowInv'
<1> SUFFICES ASSUME DeliveryInv, WindowInv, [Next]_vars PROVE DeliveryInv' /\ WindowInv'
  OBVIOUS
<1>1. DeliveryInv'
  BY StepsOfTheSink, InvStep DEF WindowInv
<1>2. WindowInv'
  BY OthersKeepWindow, BuildKeepsWindow, SendKeepsWindow, ReaderKeepsWindow DEF Next
<1>3. QED
  BY <1>1, <1>2

\* A record of the window that the request's offsets cover has its row, and one
\* from the record past the target on is not of the window.
LEMMA WindowRecords ==
  ASSUME ~WritesFail, BuildTime <= Margin, DeliveryInv, WindowInv,
         NEW m \in Produced, InWindow(m)
  PROVE  /\ m[1] \in Partitions /\ m[2] \in Nat /\ m[2] < Len(log[m[1]])
         /\ m[2] < reader.committed[m[1]] => <<"events", m>> \in stored
         /\ reader.beyond[m[1]] # NoOffset => m[2] < reader.beyond[m[1]]
<1> DEFINE p == m[1]
<1>1. m \in Messages /\ p \in Partitions /\ m[2] \in Nat /\ m[2] < Len(log[p])
  BY MessageType DEF Produced
<1>2. ASSUME m[2] < reader.committed[p] PROVE <<"events", m>> \in stored
  <2>1. reader.committed[p] <= committed[p] /\ reader.committed[p] \in Int /\ committed[p] \in Int
    BY <1>1 DEF WindowInv, ReadsAreTrue, WindowTypeOK, Reads, DeliveryInv, DeliveryTypeOK, NoOffset
  <2>2. m \in Committed
    BY <1>1, <1>2, <2>1 DEF Committed
  <2>3. HasRows(m)
    BY <2>2 DEF DeliveryInv, NothingSkipped, OnlyFailedBatchesAreLost
  <2>4. QED
    BY <2>3, TimeAssumption DEF HasRows
<1>3. ASSUME reader.beyond[p] # NoOffset PROVE m[2] < reader.beyond[p]
  <2> DEFINE s == stamps[p][m[2] + 1]
  <2>1. reader.beyond[p] \in Nat
    BY <1>1, <1>3 DEF WindowInv, WindowTypeOK, Reads
  <2>2. m[2] + 1 \in 1..Len(stamps[p]) /\ stamps[p] \in Seq(Stamp)
    BY <1>1 DEF WindowInv, WindowTypeOK, StampsAreOrdered
  <2>3. s \in Stamp
    BY <2>2
  <2>4. s.event \in Nat /\ s.sent \in Nat
    BY <2>3 DEF Stamp
  <2>5. s.sent <= s.event + BuildTime
    BY <1>1, <2>2 DEF WindowInv, StampsAreOrdered
  <2>6. s.event < WindowEnd
    BY DEF InWindow
  <2>7. WindowEnd \in Nat /\ Margin \in Nat /\ BuildTime \in Nat
    BY TimeAssumption
  <2> HIDE DEF s
  <2>8. ~(s.sent >= Target)
    BY <2>4, <2>5, <2>6, <2>7 DEF Target
  <2>9. ~(reader.beyond[p] < m[2] + 1)
    BY <1>1, <1>3, <2>2, <2>8 DEF WindowInv, ReadsAreTrue, s
  <2>10. QED
    BY <1>1, <2>1, <2>9
<1>4. QED
  BY <1>1, <1>2, <1>3

\* Where a settled verdict rests on a record past the target, nothing is ever
\* added to the window there afterwards: the evidence is final.
THEOREM SettledStaysTrue ==
  ASSUME ~WritesFail, BuildTime <= Margin
  PROVE  Spec => []EvidenceIsFinal
<1>1. DeliveryInv /\ WindowInv => EvidenceIsFinal
  <2> SUFFICES ASSUME DeliveryInv, WindowInv, verdict = "settled", NEW m \in Produced,
                      reader.beyond[m[1]] # NoOffset, InWindow(m)
               PROVE  <<"events", m>> \in stored
    BY DEF EvidenceIsFinal
  <2>1. m[1] \in Partitions /\ m[2] \in Nat /\ m[2] < reader.beyond[m[1]]
    BY WindowRecords
  <2>2. reader.committed[m[1]] \in Int /\ reader.beyond[m[1]] \in Int
    BY <2>1 DEF WindowInv, WindowTypeOK, Reads, NoOffset
  <2>3. m[2] < reader.committed[m[1]]
    BY <2>1, <2>2 DEF WindowInv, VerdictIsBacked
  <2>4. QED
    BY <2>3, WindowRecords
<1>2. QED
  BY <1>1, WindowStart, WindowStep, PTL DEF Spec

\* A settled verdict is true of every record Kafka has when it is given, although
\* the offsets were read before the record past the target, and that before the
\* ends.
THEOREM SettledIsTrueWhenGiven ==
  ASSUME ~WritesFail, BuildTime <= Margin
  PROVE  Spec => SettledWasTrue
<1>1. DeliveryInv /\ WindowInv /\ [Next]_vars =>
        [verdict' # verdict /\ verdict' = "settled" =>
           \A m \in Produced : InWindow(m) => <<"events", m>> \in stored]_vars
  <2> SUFFICES ASSUME DeliveryInv, WindowInv, Next, verdict' # verdict, verdict' = "settled",
                      NEW m \in Produced, InWindow(m)
               PROVE  <<"events", m>> \in stored
    OBVIOUS
  <2>1. ReadEnds
    BY DEF Next, Tick, BuildBatch, SendRecord, Sink, windowVars, Reader, Ask, ReadCommitted,
       ReadBeyond, ReadFails
  <2>2. \A p \in Partitions : ConsumedPast(p)
    BY <2>1 DEF ReadEnds
  <2>3. /\ m[1] \in Partitions /\ m[2] \in Nat /\ m[2] < Len(log[m[1]])
        /\ reader.beyond[m[1]] # NoOffset => m[2] < reader.beyond[m[1]]
    BY WindowRecords
  <2>4. /\ reader.committed[m[1]] \in Int /\ reader.beyond[m[1]] \in Int
        /\ Len(log[m[1]]) \in Int
    BY <2>3 DEF WindowInv, WindowTypeOK, Reads, NoOffset
  <2>5. reader.committed[m[1]] >= Needed(m[1]) /\ m[2] < Needed(m[1]) /\ Needed(m[1]) \in Int
    BY <2>2, <2>3, <2>4 DEF ConsumedPast, Needed
  <2>6. m[2] < reader.committed[m[1]]
    BY <2>3, <2>4, <2>5
  <2>7. QED
    BY <2>6, WindowRecords
<1>2. QED
  BY <1>1, WindowStart, WindowStep, PTL DEF Spec, SettledWasTrue

=============================================================================
