--------------------------- MODULE MCCqliteReader ---------------------------
(***************************************************************************)
(* Two request threads whose jobs the initial state chooses, beside the    *)
(* sink, Cassandra and a cancel.  Two of the three tables: the first the   *)
(* sink creates, and the last.                                             *)
(***************************************************************************)
EXTENDS CqliteReader

CONSTANTS t1, t2

Pair(a, b) == t1 :> a @@ t2 :> b

MCTables == <<"events", "drone_events_by_entity">>
MCWork   == {Pair("probe", "probe"), Pair("probe", "query"), Pair("probe", "reconnect"),
             Pair("probe", "force"), Pair("transaction", "force"),
             Pair("transaction", "transaction")}

=============================================================================
