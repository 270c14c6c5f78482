----------------------------- MODULE EventSink -----------------------------
(***************************************************************************)
(* The Cassandra sink (ingress/consumer/consumer.py, main): it polls the   *)
(* events topic, issues every write of a batch at once, waits for all the  *)
(* acknowledgements, commits the offsets and then adds to a counter.       *)
(*                                                                         *)
(* A write that was issued and not yet applied is in pending while the     *)
(* sink waits for it, and in strays once nobody does (its batch failed or  *)
(* the process died): the cluster may still apply a stray, or never.       *)
(***************************************************************************)
EXTENDS Integers, Sequences, FiniteSets, FiniteSetsExt

CONSTANTS
    Entities,       \* assets, each the key of its own events
    Partitions,     \* partitions of the events topic
    PartitionOf,    \* the partition Kafka's key hash gives an asset
    InsertTables,   \* tables with one row per event: events and
                    \* drone_events_by_entity
    BatchSize,      \* max_poll_records
    MaxLog,         \* records per partition (bound)
    MaxCrashes,     \* how often the sink process dies (bound)
    WritesFail,     \* whether a write of a batch may fail
    NoEvent         \* an asset without a drone_latest_status row

ASSUME TopicAssumption ==
    /\ PartitionOf \in [Entities -> Partitions] /\ IsFiniteSet(Partitions)
    /\ BatchSize \in Nat \ {0} /\ MaxLog \in Nat /\ MaxCrashes \in Nat
    /\ WritesFail \in BOOLEAN
    /\ "latest" \notin InsertTables
    /\ NoEvent \notin Partitions \X (0..(MaxLog - 1))

\* No offset was ever committed on the partition.
NoOffset == -1

Offsets  == 0..(MaxLog - 1)
Messages == Partitions \X Offsets

VARIABLES
    log,         \* the topic: log[p] is the sequence of keys produced to p
    committed,   \* the group's committed offsets, kept by Kafka
    position,    \* the consumer's next offset on each partition
    pc,          \* where the sink's loop is
    batch,       \* the records poll returned, or the ones just committed
    pending,     \* writes of this batch not yet applied
    strays,      \* unapplied writes that nobody waits for
    stored,      \* the event rows: <<table, message>>
    latest,      \* drone_latest_status: the newest write per asset
    counted,     \* ingestion_counts, all buckets together
    crashes,     \* how often the process has died (bound)
    skipped      \* history: records of failed batches, not redelivered yet

kafka    == <<log, committed>>
tables   == <<stored, latest, counted>>
sinkVars == <<log, committed, position, pc, batch, pending, strays, stored,
              latest, counted, crashes, skipped>>

-----------------------------------------------------------------------------
(* Records and writes *)

EntityOf(m) == log[m[1]][m[2] + 1]

Produced == {m \in Messages : m[2] < Len(log[m[1]])}

\* The records from the committed offset on are the ones a restart redelivers.
Start(p) == IF committed[p] = NoOffset THEN 0 ELSE committed[p]

\* The driver stamps each write with its own clock when it is issued, and the
\* newest stamp wins whatever order the writes are applied in.  Only the order
\* of the stamps on one asset's row matters, so a new one is above the live ones.
Stamps(e) ==
    {w.stamp : w \in {v \in pending \cup strays : v.table = "latest" /\ EntityOf(v.msg) = e}}
    \cup {latest[e].stamp}

\* Faulty: one timestamp for the whole batch.
StampOfBatch(m) == 1 + Max(Stamps(EntityOf(m)))

\* Within a batch an asset's records are written in the order of the topic.
StampOf(m) ==
    1 + Max(Stamps(EntityOf(m)))
    + Cardinality({b \in batch : b[1] = m[1] /\ b[2] < m[2] /\ EntityOf(b) = EntityOf(m)})

WritesOf(m) ==
    {[table |-> t, msg |-> m, stamp |-> 0] : t \in InsertTables}
    \cup {[table |-> "latest", msg |-> m, stamp |-> StampOf(m)]}

\* The cluster applies one write: an idempotent insert, or an upsert that
\* loses to a newer stamp.
ApplyWrite(w) ==
    \/ /\ w.table # "latest"
       /\ stored' = stored \cup {<<w.table, w.msg>>}
       /\ UNCHANGED latest
    \/ /\ w.table = "latest"
       /\ latest' = IF w.stamp > latest[EntityOf(w.msg)].stamp
                    THEN [latest EXCEPT ![EntityOf(w.msg)] =
                            [stamp |-> w.stamp, event |-> w.msg]]
                    ELSE latest
       /\ UNCHANGED stored

-----------------------------------------------------------------------------
(* The loop *)

\* The producer appends; Kafka keeps the order of one partition.
Produce(e) ==
    /\ Len(log[PartitionOf[e]]) < MaxLog
    /\ log' = [log EXCEPT ![PartitionOf[e]] = Append(@, e)]
    /\ UNCHANGED <<committed, position, pc, batch, pending, strays, tables, crashes, skipped>>

Fetched(n) == {m \in Messages : position[m[1]] <= m[2] /\ m[2] < position[m[1]] + n[m[1]]}

\* consumer.poll: at most max_records, from any partitions; the position moves
\* past what it returns.
Poll(n) ==
    /\ pc = "poll"
    /\ Fetched(n) # {} /\ Cardinality(Fetched(n)) <= BatchSize
    /\ \A p \in Partitions : position[p] + n[p] <= Len(log[p])
    /\ batch' = Fetched(n)
    /\ position' = [p \in Partitions |-> position[p] + n[p]]
    /\ pc' = "issue"
    /\ UNCHANGED <<kafka, pending, strays, tables, crashes, skipped>>

\* Nothing within the timeout: continue.
PollEmpty == pc = "poll" /\ UNCHANGED sinkVars

\* The loop over the records: three execute_async calls each.
Issue ==
    /\ pc = "issue"
    /\ pending' = UNION {WritesOf(m) : m \in batch}
    /\ pc' = "wait"
    /\ UNCHANGED <<kafka, position, batch, strays, tables, crashes, skipped>>

Acknowledge(w) ==
    /\ pc = "wait" /\ w \in pending
    /\ ApplyWrite(w)
    /\ pending' = pending \ {w}
    /\ UNCHANGED <<kafka, position, pc, batch, strays, counted, crashes, skipped>>

\* Faulty: a failed batch is counted as well.
BatchFailsCounted ==
    /\ WritesFail
    /\ pc = "wait"
    /\ strays' = strays \cup pending
    /\ counted' = counted + Cardinality(batch)
    /\ pending' = {} /\ skipped' = skipped \cup batch /\ batch' = {}
    /\ pc' = "poll"
    /\ UNCHANGED <<kafka, position, stored, latest, crashes>>

\* future.result() raised: the except branch goes on to the next poll.
BatchFails ==
    /\ WritesFail
    /\ pc = "wait"
    /\ strays' = strays \cup pending
    /\ pending' = {}
    /\ skipped' = skipped \cup batch
    /\ batch' = {}
    /\ pc' = "poll"
    /\ UNCHANGED <<kafka, position, tables, crashes>>

\* Faulty: the commit does not wait for the acknowledgements.
CommitEarly ==
    /\ pc = "wait"
    /\ committed' = position
    /\ strays' = strays \cup pending /\ pending' = {}
    /\ pc' = "count"
    /\ UNCHANGED <<log, position, batch, tables, crashes, skipped>>

\* Every future returned: consumer.commit() commits the current positions.
Commit ==
    /\ pc = "wait" /\ pending = {}
    /\ committed' = position
    /\ pc' = "count"
    /\ UNCHANGED <<log, position, batch, pending, strays, tables, crashes, skipped>>

\* The counter update nobody waits for: it is applied, or lost.
Count ==
    /\ pc = "count"
    /\ counted' \in {counted, counted + Cardinality(batch)}
    /\ batch' = {}
    /\ pc' = "poll"
    /\ UNCHANGED <<kafka, position, pending, strays, stored, latest, crashes, skipped>>

StrayLands(w) ==
    /\ w \in strays
    /\ ApplyWrite(w)
    /\ strays' = strays \ {w}
    /\ UNCHANGED <<kafka, position, pc, batch, pending, counted, crashes, skipped>>

StrayVanishes(w) ==
    /\ w \in strays
    /\ strays' = strays \ {w}
    /\ UNCHANGED <<kafka, position, pc, batch, pending, tables, crashes, skipped>>

\* The process dies, between any two steps of its loop.
Crash ==
    /\ crashes < MaxCrashes
    /\ crashes' = crashes + 1
    /\ pc' = "down"
    /\ strays' = strays \cup pending
    /\ pending' = {}
    /\ batch' = {}
    /\ UNCHANGED <<kafka, position, tables, skipped>>

\* Faulty: auto_offset_reset="latest", and no group of its own.
RestartAtEnd ==
    /\ pc = "down"
    /\ position' = [p \in Partitions |-> Len(log[p])]
    /\ pc' = "poll"
    /\ UNCHANGED <<kafka, batch, pending, strays, tables, crashes, skipped>>

\* The container starts it again, at the committed offsets or the earliest.
Restart ==
    /\ pc = "down"
    /\ position' = [p \in Partitions |-> Start(p)]
    /\ skipped' = {m \in skipped : m[2] < Start(m[1])}
    /\ pc' = "poll"
    /\ UNCHANGED <<kafka, batch, pending, strays, tables, crashes>>

-----------------------------------------------------------------------------
SinkInit ==
    /\ log = [p \in Partitions |-> <<>>]
    /\ committed = [p \in Partitions |-> NoOffset]
    /\ position = [p \in Partitions |-> 0]
    /\ pc = "poll"
    /\ batch = {}
    /\ pending = {}
    /\ strays = {}
    /\ stored = {}
    /\ latest = [e \in Entities |-> [stamp |-> 0, event |-> NoEvent]]
    /\ counted = 0
    /\ crashes = 0
    /\ skipped = {}

\* What the sink does when nothing goes wrong.
SinkStep ==
    \/ \E n \in [Partitions -> 0..BatchSize] : Poll(n)
    \/ PollEmpty
    \/ Issue
    \/ \E w \in pending : Acknowledge(w)
    \/ Commit
    \/ Count
    \/ Restart

SinkFault ==
    \/ BatchFails
    \/ Crash
    \/ \E w \in strays : StrayLands(w) \/ StrayVanishes(w)

SinkNext == (\E e \in Entities : Produce(e)) \/ SinkStep \/ SinkFault

SinkSpec == SinkInit /\ [][SinkNext]_sinkVars

\* The loop goes on, the cluster answers, the container is restarted.
FairSinkSpec == SinkSpec /\ WF_sinkVars(SinkStep)

-----------------------------------------------------------------------------
(* Properties *)

Write == [table : InsertTables \cup {"latest"}, msg : Messages, stamp : Nat]

SinkTypeOK ==
    /\ log \in [Partitions -> Seq(Entities)]
    /\ committed \in [Partitions -> Nat \cup {NoOffset}]
    /\ position \in [Partitions -> Nat]
    /\ pc \in {"poll", "issue", "wait", "count", "down"}
    /\ batch \subseteq Messages
    /\ pending \subseteq Write
    /\ strays \subseteq Write
    /\ stored \subseteq InsertTables \X Messages
    /\ latest \in [Entities -> [stamp : Nat, event : Messages \cup {NoEvent}]]
    /\ counted \in Nat
    /\ crashes \in 0..MaxCrashes
    /\ skipped \subseteq Messages

HasRows(m) == \A t \in InsertTables : <<t, m>> \in stored

Committed == {m \in Messages : m[2] < committed[m[1]]}

\* The comment on pending: "the offsets are only committed once every write in
\* it has been acknowledged".  A record below a committed offset is never
\* delivered again, so it must have its rows.
CommittedIsStored == \A m \in Committed : HasRows(m)

\* The code's weaker promise when writes fail: a committed record without rows
\* is one whose own batch failed, and no other batch or crash loses any.
OnlyFailedBatchesAreLost == \A m \in Committed : HasRows(m) \/ m \in skipped

\* ingestion_counts never claims more records than were committed, although
\* batches are replayed and its update is neither idempotent nor awaited.
CountsAreBounded == counted <= Cardinality(Committed)

\* What the loop keeps of itself is right at every moment.
SinkSound == SinkTypeOK /\ CountsAreBounded

\* Everything on the asset's partition has been consumed, and nothing skipped.
CaughtUp(e) == pc = "poll" /\ skipped = {}
               /\ position[PartitionOf[e]] = Len(log[PartitionOf[e]])

\* Once the sink has caught up and skipped nothing, each asset's latest status
\* is its newest event: neither a replay, nor a batch whose writes are applied
\* out of order, nor a stray of a dead process leaves an older one.
LatestIsNewest ==
    \A e \in Entities : CaughtUp(e) =>
        \A m \in Produced : EntityOf(m) = e =>
            latest[e].event # NoEvent /\ m[2] <= latest[e].event[2]

\* A commit never moves an offset back, so a replay never widens.
OffsetsOnlyGrow ==
    [][\A p \in Partitions : committed'[p] >= committed[p]]_sinkVars

\* Every record of the topic gets its rows, through any number of crashes, unless
\* a write of its own batch fails.
EveryRecordIsStored ==
    \A m \in Messages : (m \in Produced) ~> (m \in Produced /\ (HasRows(m) \/ m \in skipped))

=============================================================================
