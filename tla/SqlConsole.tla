----------------------------- MODULE SqlConsole -----------------------------
(***************************************************************************)
(* The SQL console (backend/app/routes/sql_console.py) and its client      *)
(* (backend/app/db/accord_sql_client.py): one connection to cassandra-sql  *)
(* behind one lock, batches of statements sent one at a time under the     *)
(* page's own lock, and beside them the schema explorer, which takes only  *)
(* the client's.  The service comes and goes.                              *)
(*                                                                         *)
(* A table is what its rows are: those of the seed, others, or none.  The  *)
(* two ENUMs are declared and dropped together; the sequence, the foreign  *)
(* keys and the indexes are left out.                                      *)
(***************************************************************************)
EXTENDS Integers, Sequences, SequencesExt

CONSTANTS
    Callers,      \* request threads
    NoCaller,
    Parents,      \* the tables that are seeded, in order: operators, drones, zones
    Children,     \* flights, flight_legs
    MaxOutages    \* bound: how often the service goes away

ASSUME ConsoleAssumption ==
    /\ NoCaller \notin Callers /\ MaxOutages \in Nat
    /\ Parents \in Seq(ToSet(Parents)) /\ Children \in Seq(ToSet(Children))
    /\ IsInjective(Parents \o Children) /\ Parents # <<>>

VARIABLES
    up,        \* cassandra-sql answers
    era,       \* how often it has been started
    typed,     \* the ENUM types are declared, which the service keeps in memory
    rows,      \* what each table holds
    sqlConn,   \* _conn: the era it was opened in, 0 for None
    sqlConnected,
    sqlLock,   \* the client's _lock
    pageLock,  \* the routes' _lock
    caller,    \* each request
    costs      \* history: per era, statements lost while the service was up

service     == <<up, era, typed, rows>>
client      == <<sqlConn, sqlConnected, sqlLock>>
consoleVars == <<service, client, pageLock, caller, costs>>

Register == ToSet(Parents \o Children)
Jobs     == {"schema", "reset", "file", "take", "read", "explore", "status"}

Idle == [job |-> "status", pc |-> "new", at |-> 1, calm |-> FALSE, errors |-> {}]

Calls(t, r)      == caller' = [caller EXCEPT ![t] = r]
CallGoes(t, pc)  == Calls(t, [caller[t] EXCEPT !.pc = pc])

-----------------------------------------------------------------------------
(* The statements *)

Each(op, tables) == [i \in DOMAIN tables |-> [op |-> op, on |-> tables[i]]]
One(op)          == <<[op |-> op, on |-> Last(Parents)]>>
Capacities       == Last(Parents)    \* zones

SchemaStatements == One("createType") \o Each("create", Parents \o Children)
SeedStatements   == Each("seed", Parents)
ResetStatements  == Each("drop", Reverse(Parents \o Children)) \o One("dropType")

Statements(job) ==
    CASE job = "schema" -> SchemaStatements \o SeedStatements
      [] job = "reset"  -> ResetStatements \o SchemaStatements \o SeedStatements
      [] job = "read"    -> Each("read", Parents \o Children)
      [] job = "explore" -> One("catalog") \o Each("read", Parents \o Children)
      [] OTHER -> One(job)

\* What cassandra-sql refuses.  DROP TYPE ignores its IF EXISTS, UNIQUE is held,
\* and COUNT(*) over an empty table raises.
Rejects(s) ==
    CASE s.op = "createType" -> typed
      [] s.op = "dropType"   -> ~typed
      [] s.op = "create"     -> rows[s.on] # "absent"
      [] s.op = "seed"       -> rows[s.on] # "empty"
      [] s.op = "read"       -> rows[s.on] \in {"absent", "empty"}
      [] s.op = "take"       -> rows[s.on] = "absent"
      [] s.op = "file"       -> \E t \in Register \ {Capacities} : rows[t] = "absent"
      [] OTHER -> FALSE

\* The presets: a flight is filed with its increments in one transaction, and a slot
\* is taken without reading the capacity.
RowsAfter(s) ==
    [t \in Register |->
        CASE s.op = "drop" /\ t = s.on                   -> "absent"
          [] s.op = "create" /\ t = s.on                 -> "empty"
          [] s.op = "seed" /\ t = s.on                   -> "seeded"
          [] s.op = "take" /\ t = s.on /\ rows[t] # "empty" -> "changed"
          [] s.op = "file" /\ t # Capacities
                /\ (t \in ToSet(Children) \/ rows[t] # "empty") -> "changed"
          [] OTHER -> rows[t]]

Applies(s) ==
    /\ rows' = RowsAfter(s)
    /\ typed' = (s.op = "createType" \/ (typed /\ s.op # "dropType"))

-----------------------------------------------------------------------------
(* The routes *)

Ask(t, job) ==
    /\ caller[t].pc = "new"
    /\ job = "status" => sqlLock = NoCaller        \* busy: left alone
    /\ Calls(t, [Idle EXCEPT !.job = job, !.pc = "ready"])
    /\ UNCHANGED <<service, client, pageLock, costs>>

Alive == up /\ sqlConn = era

\* _open: a connection that has answered a probe, or none.
Opened ==
    /\ sqlConn' = IF up THEN era ELSE 0
    /\ sqlConnected' = up

\* Faulty: the flag is taken for the connection.
EnsureReadyByFlag(t) ==
    /\ caller[t].pc = "ready" /\ sqlLock = NoCaller
    /\ IF sqlConnected THEN UNCHANGED <<sqlConn, sqlConnected>> ELSE Opened
    /\ Calls(t, IF caller[t].job = "status" \/ ~(sqlConnected \/ up) THEN Idle
                ELSE [caller[t] EXCEPT !.calm = up,
                                       !.pc = IF caller[t].job = "explore" THEN "batch"
                                                                           ELSE "lock"])
    /\ UNCHANGED <<service, sqlLock, pageLock, costs>>

\* ensure_ready: the connection has just answered, or is opened; otherwise 503.
EnsureReady(t) ==
    /\ caller[t].pc = "ready" /\ sqlLock = NoCaller
    /\ Opened
    /\ Calls(t, IF caller[t].job = "status" \/ ~up THEN Idle
                ELSE [caller[t] EXCEPT !.calm = TRUE,
                                       !.pc = IF caller[t].job = "explore" THEN "batch"
                                                                           ELSE "lock"])
    /\ UNCHANGED <<service, sqlLock, pageLock, costs>>

\* One batch at a time; a second caller is told so.
AcquirePage(t) ==
    /\ caller[t].pc = "lock"
    /\ \/ pageLock = NoCaller /\ pageLock' = t /\ CallGoes(t, "batch")
       \/ pageLock # NoCaller /\ UNCHANGED pageLock /\ Calls(t, Idle)
    /\ UNCHANGED <<service, client, costs>>

-----------------------------------------------------------------------------
(* _run_many, _run_one and execute *)

Statement(t)  == Statements(caller[t].job)[caller[t].at]
More(t)       == caller[t].at <= Len(Statements(caller[t].job))

\* What a raised statement leaves: an error, and the next one.  Without the list of
\* tables the explorer has nothing to go on.
Failed(t) == [caller[t] EXCEPT !.pc = "batch",
                               !.at = IF Statement(t).op = "catalog"
                                      THEN Len(Statements(caller[t].job)) + 1 ELSE @ + 1,
                               !.errors = @ \cup {Statement(t).op}]

Charged == IF up THEN [costs EXCEPT ![era] = @ + 1] ELSE costs

\* Faulty: a statement without a connection is refused.
SendRefused(t) ==
    /\ caller[t].pc = "batch" /\ More(t) /\ sqlLock = NoCaller
    /\ IF sqlConn # 0
       THEN /\ sqlLock' = t /\ CallGoes(t, "running")
            /\ UNCHANGED <<sqlConn, sqlConnected, costs>>
       ELSE /\ Calls(t, Failed(t)) /\ costs' = Charged
            /\ UNCHANGED client
    /\ UNCHANGED <<service, pageLock>>

\* "Opened here rather than refused"; opening may raise as well.
SendStatement(t) ==
    /\ caller[t].pc = "batch" /\ More(t) /\ sqlLock = NoCaller
    /\ IF sqlConn # 0 \/ up
       THEN /\ sqlLock' = t /\ CallGoes(t, "running")
            /\ IF sqlConn # 0 THEN UNCHANGED <<sqlConn, sqlConnected>> ELSE Opened
       ELSE Calls(t, Failed(t)) /\ UNCHANGED client
    /\ UNCHANGED <<service, pageLock, costs>>

Answered(t) ==
    /\ caller[t].pc = "running" /\ Alive /\ ~Rejects(Statement(t))
    /\ Applies(Statement(t))
    /\ sqlLock' = NoCaller
    /\ Calls(t, [caller[t] EXCEPT !.pc = "batch", !.at = @ + 1])
    /\ UNCHANGED <<up, era, sqlConn, sqlConnected, pageLock, costs>>

\* Rejected, or a dead socket: the connection is dropped either way.
RaisesError(t) ==
    /\ caller[t].pc = "running" /\ (Alive => Rejects(Statement(t)))
    /\ sqlConn' = 0 /\ sqlConnected' = FALSE
    /\ sqlLock' = NoCaller
    /\ costs' = IF Alive THEN costs ELSE Charged
    /\ Calls(t, Failed(t))
    /\ UNCHANGED <<service, pageLock>>

Reported(t) ==
    /\ caller[t].pc = "batch" /\ ~More(t)
    /\ pageLock' = IF pageLock = t THEN NoCaller ELSE pageLock
    /\ Calls(t, Idle)
    /\ UNCHANGED <<service, client, costs>>

-----------------------------------------------------------------------------
(* The service *)

\* A statement it was working on may have been applied; its caller is not told.
ServiceGoes ==
    /\ up /\ era <= MaxOutages
    /\ up' = FALSE /\ typed' = FALSE
    /\ rows' \in {rows} \cup
            {RowsAfter(Statement(t)) : t \in {c \in Callers :
                caller[c].pc = "running" /\ Alive /\ ~Rejects(Statement(c))}}
    /\ caller' = [t \in Callers |-> [caller[t] EXCEPT !.calm = FALSE]]
    /\ UNCHANGED <<era, client, pageLock, costs>>

ServiceReturns ==
    /\ ~up
    /\ up' = TRUE /\ era' = era + 1
    /\ UNCHANGED <<typed, rows, client, pageLock, caller, costs>>

-----------------------------------------------------------------------------
\* connect() at startup, which the service may have been too late for.  The tables
\* may be left from an earlier run of the stack.
ConsoleInit ==
    /\ up \in BOOLEAN /\ era = (IF up THEN 1 ELSE 0) /\ typed = FALSE
    /\ \E old \in {"absent", "changed"} : rows = [t \in Register |-> old]
    /\ sqlConn = era /\ sqlConnected = up
    /\ sqlLock = NoCaller /\ pageLock = NoCaller
    /\ caller = [t \in Callers |-> Idle]
    /\ costs = [e \in 1..(MaxOutages + 1) |-> 0]

ConsoleNext ==
    \/ ServiceGoes \/ ServiceReturns
    \/ \E t \in Callers :
        \/ \E job \in Jobs : Ask(t, job)
        \/ EnsureReady(t) \/ AcquirePage(t)
        \/ SendStatement(t) \/ Answered(t) \/ RaisesError(t) \/ Reported(t)

ConsoleSpec == ConsoleInit /\ [][ConsoleNext]_consoleVars

-----------------------------------------------------------------------------
(* Properties *)

ConsoleTypeOK ==
    /\ {up, typed, sqlConnected} \subseteq BOOLEAN /\ era \in 0..(MaxOutages + 1)
    /\ \A t \in ToSet(Parents) : rows[t] \in {"absent", "empty", "seeded", "changed"}
    /\ \A t \in ToSet(Children) : rows[t] \in {"absent", "empty", "changed"}
    /\ sqlConn \in 0..era /\ sqlConnected = (sqlConn # 0)
    /\ {sqlLock, pageLock} \subseteq Callers \cup {NoCaller}
    /\ \A t \in Callers :
        /\ caller[t].job \in Jobs /\ caller[t].calm \in BOOLEAN
        /\ caller[t].pc \in {"new", "ready", "lock", "batch", "running"}
        /\ caller[t].at \in 1..(Len(Statements(caller[t].job)) + 1)

\* "One failed statement does not fail every statement after it in the same batch":
\* a restart of the service costs at most one statement of all that follow it, on
\* whichever page, and a rejected statement costs the others none.
RestartCostsOneStatement == \A e \in DOMAIN costs : costs[e] <= 1

\* What the client of one connection keeps, whoever sends.
ConsoleSound == ConsoleTypeOK /\ RestartCostsOneStatement

\* t's batch is over, and the service stayed up throughout.
CalmEnd(t, job) ==
    caller[t].pc = "batch" /\ ~More(t) /\ caller[t].calm /\ caller[t].job = job

\* "The only way back to the seeded state": whatever the tables were, a reset that
\* the service stayed up for ends with the seed and nothing else, beside pages that
\* read, explore or are refused; and "let a DROP fail": no other statement did.
ResetRestoresTheSeed ==
    \A t \in Callers : CalmEnd(t, "reset") =>
        /\ \A p \in Register : rows[p] = IF p \in ToSet(Parents) THEN "seeded" ELSE "empty"
        /\ typed /\ caller[t].errors \subseteq {"dropType"}

\* "Re-running the schema is how the page recovers from a half-created one": after
\* a run of it, every table is there and the seeded ones have rows.
SchemaRunCompletes ==
    \A t \in Callers : CalmEnd(t, "schema") =>
        /\ \A p \in Register : rows[p] # "absent"
        /\ \A p \in ToSet(Parents) : rows[p] # "empty"

\* Both batches leave what the page says they leave.
BatchesDoTheirJob == ResetRestoresTheSeed /\ SchemaRunCompletes

=============================================================================
