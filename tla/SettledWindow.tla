--------------------------- MODULE SettledWindow ---------------------------
(***************************************************************************)
(* When may a closed window be called settled?  GET /query/window          *)
(* (backend/app/routes/query.py, get_window and _sink_consumed_past) asks  *)
(* Kafka, beside a running producer and sink: it reads the sink's          *)
(* committed offsets, then the first offset past the window's end plus a   *)
(* margin, then the end offsets.                                           *)
(*                                                                         *)
(* Time is counted in ticks.  The producer stamps a batch of events when   *)
(* its loop begins and hands the records to the client one by one; a       *)
(* record's Kafka timestamp is the time of that send, and the broker       *)
(* appends it then or later.  A window is the ticks before WindowEnd.      *)
(***************************************************************************)
EXTENDS EventSink

CONSTANTS
    MaxTime,      \* the last tick (bound)
    WindowEnd,    \* the end of the window that is asked about
    Margin,       \* SETTLED_MARGIN_S
    BuildTime,    \* the longest a batch takes from its stamp to its last send
    BatchOf       \* the keys of one producer batch, in order

ASSUME TimeAssumption ==
    /\ {MaxTime, WindowEnd, Margin, BuildTime} \subseteq Nat
    /\ BatchOf \in Seq(Entities)
    /\ "events" \in InsertTables

Time == 0..MaxTime

\* Faulty: no margin.
TargetAtEnd == WindowEnd

\* end_ms plus the margin.
Target == WindowEnd + Margin

VARIABLES
    now,          \* the clock
    building,     \* the producer's batch: its stamp, the keys left to append,
                  \* the timestamp of its last record
    stamps,       \* stamps[p][i]: event time and Kafka timestamp of a record
    reader,       \* the request: where it is, and what it has read
    verdict       \* what it answered

windowVars == <<now, building, stamps, reader, verdict>>
vars       == <<sinkVars, windowVars>>

Idle == [at |-> 0, left |-> <<>>, sent |-> 0]

-----------------------------------------------------------------------------
(* The producer, the clock and the sink *)

Tick ==
    /\ now < MaxTime
    /\ now' = now + 1
    /\ UNCHANGED <<sinkVars, building, stamps, reader, verdict>>

\* The top of the producer's loop: event ids are stamped from loop_start.
BuildBatch ==
    /\ building.left = <<>>
    /\ building' = [at |-> now, left |-> BatchOf, sent |-> now]
    /\ UNCHANGED <<sinkVars, now, stamps, reader, verdict>>

\* producer.send of the next record, with ts the clock at the call; the broker
\* appends it now.
SendRecord(ts) ==
    /\ building.left # <<>>
    /\ building.sent <= ts /\ ts <= now /\ ts <= building.at + BuildTime
    /\ LET e == Head(building.left) IN
          /\ Produce(e)
          /\ stamps' = [stamps EXCEPT ![PartitionOf[e]] =
                          Append(@, [event |-> building.at, sent |-> ts])]
    /\ building' = [building EXCEPT !.left = Tail(@), !.sent = ts]
    /\ UNCHANGED <<now, reader, verdict>>

Sink == (SinkStep \/ SinkFault) /\ UNCHANGED windowVars

-----------------------------------------------------------------------------
(* The request *)

InWindow(m) == stamps[m[1]][m[2] + 1].event < WindowEnd

\* get_window: the window's minutes are over, and _holds_events finds a row.
Ask ==
    /\ reader.pc = "idle"
    /\ now >= WindowEnd
    /\ \E m \in Produced : InWindow(m) /\ <<"events", m>> \in stored
    /\ reader' = [reader EXCEPT !.pc = "committed"]
    /\ UNCHANGED <<sinkVars, now, building, stamps, verdict>>

\* admin.list_consumer_group_offsets
ReadCommitted ==
    /\ reader.pc = "committed"
    /\ reader' = [reader EXCEPT !.pc = "beyond", !.committed = committed]
    /\ UNCHANGED <<sinkVars, now, building, stamps, verdict>>

\* consumer.offsets_for_times: the first record stamped at or after the target.
FirstBeyond(p) ==
    LET late == {i \in 1..Len(stamps[p]) : stamps[p][i].sent >= Target}
    IN  IF late = {} THEN NoOffset ELSE Min(late) - 1

ReadBeyond ==
    /\ reader.pc = "beyond"
    /\ reader' = [reader EXCEPT !.pc = "ends",
                                !.beyond = [p \in Partitions |-> FirstBeyond(p)]]
    /\ UNCHANGED <<sinkVars, now, building, stamps, verdict>>

\* Faulty: a partition with no record past the target needs nothing.
NeededOnlyBeyond(p) == IF reader.beyond[p] # NoOffset THEN reader.beyond[p] ELSE 0

\* consumer.end_offsets, and the verdict: every partition has a committed
\* offset, at or past the record found, or past the end when none was.
Needed(p) == IF reader.beyond[p] # NoOffset THEN reader.beyond[p] ELSE Len(log[p])

ConsumedPast(p) ==
    reader.committed[p] # NoOffset /\ reader.committed[p] >= Needed(p)

ReadEnds ==
    /\ reader.pc = "ends"
    /\ verdict' = IF \A p \in Partitions : ConsumedPast(p) THEN "settled" ELSE "growing"
    /\ reader' = [reader EXCEPT !.pc = "done"]
    /\ UNCHANGED <<sinkVars, now, building, stamps>>

\* Kafka did not answer one of the three reads: not settled.
ReadFails ==
    /\ reader.pc \in {"committed", "beyond", "ends"}
    /\ verdict' = "growing"
    /\ reader' = [reader EXCEPT !.pc = "done"]
    /\ UNCHANGED <<sinkVars, now, building, stamps>>

-----------------------------------------------------------------------------
Init ==
    /\ SinkInit
    /\ now = 0
    /\ building = Idle
    /\ stamps = [p \in Partitions |-> <<>>]
    /\ reader = [pc |-> "idle",
                 committed |-> [p \in Partitions |-> NoOffset],
                 beyond |-> [p \in Partitions |-> NoOffset]]
    /\ verdict = "none"

Reader == Ask \/ ReadCommitted \/ ReadBeyond \/ ReadEnds \/ ReadFails

Next ==
    \/ Tick
    \/ BuildBatch
    \/ \E ts \in Time : SendRecord(ts)
    \/ Sink
    \/ Reader

Spec == Init /\ [][Next]_vars

-----------------------------------------------------------------------------
(* Properties *)

\* _sink_consumed_past: a "committed offset at or past that one means nothing
\* left to consume on that partition can be filed under this window".  Where a
\* settled verdict rests on a record past the target, it stays true for good.
EvidenceIsFinal ==
    verdict = "settled" =>
        \A m \in Produced : reader.beyond[m[1]] # NoOffset /\ InWindow(m) =>
            <<"events", m>> \in stored

\* A settled verdict is true of all the records Kafka had when it was given,
\* although the three reads were made at different times.
SettledWasTrue ==
    [][verdict' # verdict /\ verdict' = "settled" =>
         \A m \in Produced : InWindow(m) => <<"events", m>> \in stored]_vars

=============================================================================
