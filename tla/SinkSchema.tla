----------------------------- MODULE SinkSchema -----------------------------
(***************************************************************************)
(* How the schema comes to be: the sink (ingress/consumer/consumer.py)     *)
(* creates it one statement at a time while everything else is already     *)
(* running, and starts over when a statement fails.  Cassandra comes and   *)
(* goes; what it has created stays.                                        *)
(***************************************************************************)
EXTENDS Integers, Sequences, SequencesExt

CONSTANT MaxOutages    \* bound: how often Cassandra goes away

ASSUME SchemaAssumption == MaxOutages \in Nat

VARIABLES
    up,       \* Cassandra answers
    outages,
    exists,   \* what the schema holds
    step      \* the sink's position in ensure_schema

schemaVars == <<up, outages, exists, step>>

\* ensure_schema in the order it is written, each group as one statement.
EventTables   == <<"keyspace", "events">>        \* and drone_latest_status
VectorTables  == <<"drone_text_embeddings">>     \* and its index
HistoryTables == <<"drone_events_by_entity">>
OtherTables   == <<"others">>   \* zones, alerts, counts, and the demos' tables

Schema == EventTables \o VectorTables \o HistoryTables \o OtherTables

\* CREATE ... IF NOT EXISTS.
SinkCreates ==
    /\ step <= Len(Schema) /\ up
    /\ exists' = exists \cup {Schema[step]}
    /\ step' = step + 1
    /\ UNCHANGED <<up, outages>>

\* The loop around it sleeps and connects again.
SinkStartsOver ==
    /\ step <= Len(Schema) /\ ~up
    /\ step' = 1
    /\ UNCHANGED <<up, outages, exists>>

CassandraGoes ==
    /\ up /\ outages < MaxOutages
    /\ up' = FALSE
    /\ outages' = outages + 1
    /\ UNCHANGED <<exists, step>>

CassandraReturns ==
    /\ ~up
    /\ up' = TRUE
    /\ UNCHANGED <<outages, exists, step>>

\* An outage may begin at once.
SchemaInit == up = TRUE /\ outages = 0 /\ exists = {} /\ step = 1

SchemaNext == SinkCreates \/ SinkStartsOver \/ CassandraGoes \/ CassandraReturns

SchemaTypeOK ==
    /\ up \in BOOLEAN /\ outages \in 0..MaxOutages
    /\ exists \subseteq ToSet(Schema)
    /\ step \in 1..(Len(Schema) + 1)

=============================================================================
