---------------------------- MODULE CqliteReader ----------------------------
(***************************************************************************)
(* The cqlite reader (backend/app/db/cqlite_client.py) from the start of   *)
(* the stack: the application's startup, the health probes that register   *)
(* what was not there yet, queries, reconnects and a cancel.  Registering  *)
(* goes through the Cassandra client, whose threads it shares.             *)
(***************************************************************************)
EXTENDS CassandraClient

CONSTANTS
    CqliteTables,  \* CQLITE_TABLES
    Work,          \* what the request threads may be doing
    RetryAfter     \* _RETRY_AFTER_S, in ticks

Jobs   == {"probe", "query", "reconnect", "transaction", "force"}
Tables == ToSet(CqliteTables)

ASSUME ReaderAssumption ==
    /\ CqliteTables \in Seq(Tables) /\ IsInjective(CqliteTables)
    /\ Tables \subseteq ToSet(EventTables \o HistoryTables) \ {"keyspace"}
    /\ Work \subseteq [Threads -> Jobs]
    /\ RetryAfter \in Nat

VARIABLES
    flushed,     \* tables of which an SSTable is on disk
    rLock,       \* _connect_lock
    rWait,       \* ticks until ensure_registered tries again
    ctx,         \* _ctx is not None
    providers,   \* _providers: the tables registered
    declined,    \* _declined
    rConnected,  \* connected
    qLock,       \* _query_lock
    aborted,     \* _aborted
    abort        \* the thread that cancels

readerVars == <<flushed, rLock, rWait, ctx, providers, declined, rConnected, qLock, aborted>>
vars       == <<schemaVars, clientVars, readerVars, th, abort>>

Thread == [job  : Jobs \cup {"startup"},
           pc   : {"startup", "idle", "served",
                   "cConnect", "cOpening", "cClearing", "take", "prepare",
                   "rConnect", "rMissing", "rNeeds", "rTables", "rFlag",
                   "asked", "qEnter", "scanning"},
           back : {"idle", "startup", "take", "rNeeds"},
           then : {"idle", "served", "asked"},  \* where the reader's connect returns to
           mine : Session,                      \* the Cassandra session taken
           goal : {"connect", "missing"},
           tab  : 1..(Len(CqliteTables) + 1),   \* the table at hand
           loc  : SUBSET Tables,                \* connect()'s own providers
           same : BOOLEAN,    \* the scan reads a provider that is still registered
           stop : BOOLEAN,    \* its merge was told to give up
           told : BOOLEAN,    \* history: an abort was at work during the scan
           sees : Threads \cup {NoThread}]
                              \* history: the scan under way when it last decided

Fresh(job, pc) ==
    [job |-> job, pc |-> pc, back |-> "idle", then |-> "idle", mine |-> 0,
     goal |-> "connect", tab |-> 1, loc |-> {}, same |-> FALSE, stop |-> FALSE,
     told |-> FALSE, sees |-> NoThread]

\* A reader's connect is over; its caller goes on.
Returns(t) == Becomes(t, Fresh(th[t].job, th[t].then))

Serving == th[Main].pc = "served"
Ready(t, job) == Serving /\ th[t].pc = "idle" /\ th[t].job = job

-----------------------------------------------------------------------------
(* lifespan, health._cqlite_reader_health, query._run, health.reconnect *)

\* Cassandra first, and then the reader.
StartUp ==
    /\ th[Main].pc = "startup"
    /\ Becomes(Main, [th[Main] EXCEPT
                        !.pc   = IF th[Main].back = "idle" THEN "cConnect" ELSE "rConnect",
                        !.back = "startup", !.then = "served"])
    /\ UNCHANGED <<clientVars, readerVars>>

\* Faulty: what was registered once is taken for everything.
ProbeNothing(t) ==
    /\ Ready(t, "probe") /\ rWait = 0
    /\ Becomes(t, [th[t] EXCEPT !.pc = IF providers = {} THEN "rConnect" ELSE "idle",
                                !.then = "idle"])
    /\ UNCHANGED <<clientVars, readerVars>>

\* Faulty: the session is rebuilt for a table that is missing.
ProbeRebuilds(t) ==
    /\ Ready(t, "probe") /\ providers # Tables /\ rWait = 0
    /\ Becomes(t, [th[t] EXCEPT !.pc = "rConnect", !.then = "idle", !.sees = qLock])
    /\ UNCHANGED <<clientVars, readerVars>>

\* ensure_registered: decided without the lock.
Probe(t) ==
    /\ Ready(t, "probe") /\ providers # Tables /\ rWait = 0
    /\ Becomes(t, [th[t] EXCEPT !.pc   = IF providers = {} THEN "rConnect" ELSE "rMissing",
                                !.then = "idle", !.sees = qLock])
    /\ UNCHANGED <<clientVars, readerVars>>

\* Everything is registered, or the last attempt is too recent.
ProbeReturns(t) ==
    /\ Ready(t, "probe") /\ (providers = Tables \/ rWait > 0)
    /\ UNCHANGED <<clientVars, readerVars, th>>

AskQuery(t) ==
    /\ Ready(t, "query")
    /\ Becomes(t, [Fresh("query", IF rConnected THEN "qEnter" ELSE "rConnect")
                        EXCEPT !.then = "asked"])
    /\ UNCHANGED <<clientVars, readerVars>>

\* connected is asked again after connect(), which never raises.
Asked(t) ==
    /\ th[t].pc = "asked"
    /\ Goes(t, IF rConnected THEN "qEnter" ELSE "idle")
    /\ UNCHANGED <<clientVars, readerVars>>

AskReconnect(t) ==
    /\ Ready(t, "reconnect") /\ qLock = NoThread
    /\ Becomes(t, [th[t] EXCEPT !.pc = "rConnect", !.then = "idle"])
    /\ UNCHANGED <<clientVars, readerVars>>

-----------------------------------------------------------------------------
(* connect() and _register_missing() *)

\* The Cassandra client is asked, and made to connect, before the tables.
ThenNeeds(t, goal) ==
    Becomes(t, [th[t] EXCEPT !.pc = IF cConnected THEN "rNeeds" ELSE "cConnect",
                             !.back = "rNeeds", !.goal = goal, !.tab = 1, !.loc = {}])

ConnectEnters(t) ==
    /\ th[t].pc = "rConnect" /\ rLock = NoThread
    /\ rLock' = t /\ rWait' = RetryAfter /\ declined' = {}
    /\ ThenNeeds(t, "connect")
    /\ UNCHANGED <<clientVars, flushed, ctx, providers, rConnected, qLock, aborted>>

\* What is registered is registered in a session: there is one to add to.
MissingEnters(t) ==
    /\ th[t].pc = "rMissing" /\ rLock = NoThread /\ ctx
    /\ rLock' = t /\ rWait' = RetryAfter
    /\ ThenNeeds(t, "missing")
    /\ UNCHANGED <<clientVars, flushed, ctx, providers, declined, rConnected, qLock, aborted>>

Needs(t) ==
    /\ th[t].pc = "rNeeds" /\ cConnected
    /\ Goes(t, "rTables")
    /\ UNCHANGED <<clientVars, readerVars>>

\* Without Cassandra there is no schema.  What was registered stays registered.
NeedsFail(t) ==
    /\ th[t].pc = "rNeeds" /\ ~cConnected
    /\ rConnected' = IF th[t].goal = "connect" THEN FALSE ELSE rConnected
    /\ rLock' = NoThread
    /\ Returns(t)
    /\ UNCHANGED <<clientVars, flushed, rWait, ctx, providers, declined, qLock, aborted>>

\* _table_directory, _create_table_cql and SSTableProvider.open: the session's
\* metadata names the table, its directory is there and holds an SSTable.
Opens(table) == cSession # 0 /\ table \in exists /\ table \in flushed

\* One table: connect() collects it, _register_missing() adds it in place.
RegisterTable(t) ==
    LET table == CqliteTables[th[t].tab]
        next  == [th[t] EXCEPT !.tab = @ + 1]
        late  == th[t].goal = "missing" IN
    /\ th[t].pc = "rTables" /\ th[t].tab <= Len(CqliteTables)
    /\ \/ /\ late /\ table \in providers
          /\ Becomes(t, next)
          /\ UNCHANGED <<providers, declined>>
       \/ /\ ~(late /\ table \in providers) /\ Opens(table)
          /\ providers' = IF late THEN providers \cup {table} ELSE providers
          /\ declined' = IF late THEN declined \ {table} ELSE declined
          /\ Becomes(t, [next EXCEPT !.loc = @ \cup {table}])
       \/ /\ ~(late /\ table \in providers) /\ ~Opens(table)
          /\ declined' = declined \cup {table}
          /\ Becomes(t, next)
          /\ UNCHANGED providers
    /\ UNCHANGED <<clientVars, flushed, rLock, rWait, ctx, rConnected, qLock, aborted>>

MissingEnds(t) ==
    /\ th[t].pc = "rTables" /\ th[t].tab > Len(CqliteTables) /\ th[t].goal = "missing"
    /\ rLock' = NoThread
    /\ Returns(t)
    /\ UNCHANGED <<clientVars, flushed, rWait, ctx, providers, declined, rConnected, qLock, aborted>>

\* The session is rebuilt: a scan under way keeps providers nobody holds.
SwapSession(t) ==
    /\ th[t].pc = "rTables" /\ th[t].tab > Len(CqliteTables) /\ th[t].goal = "connect"
    /\ ctx' = TRUE /\ providers' = th[t].loc
    /\ th' = [u \in AllThreads |->
                IF u = t THEN [th[t] EXCEPT !.pc = "rFlag"]
                         ELSE [th[u] EXCEPT !.same = FALSE]]
    /\ UNCHANGED <<clientVars, flushed, rLock, rWait, declined, rConnected, qLock, aborted>>

ConnectEnds(t) ==
    /\ th[t].pc = "rFlag"
    /\ rConnected' = (th[t].loc # {})
    /\ rLock' = NoThread
    /\ Returns(t)
    /\ UNCHANGED <<clientVars, flushed, rWait, ctx, providers, declined, qLock, aborted>>

-----------------------------------------------------------------------------
(* execute_query and abort *)

BeginScan(t) ==
    th' = [u \in AllThreads |->
            IF u = t THEN [th[t] EXCEPT !.pc = "scanning", !.same = TRUE,
                                        !.told = abort # "idle"]
            ELSE IF th[u].sees = t THEN [th[u] EXCEPT !.sees = NoThread] ELSE th[u]]

\* Faulty: the flag of the statement before is read as this one's.
EnterFlagged(t) ==
    /\ th[t].pc = "qEnter" /\ qLock = NoThread /\ ctx
    /\ \E table \in Tables :
        \/ table \in providers /\ qLock' = t /\ BeginScan(t)
        \/ table \notin providers /\ qLock' = qLock
           /\ Becomes(t, Fresh("query", "idle"))
    /\ UNCHANGED <<clientVars, flushed, rLock, rWait, ctx, providers, declined, rConnected, aborted>>

\* The statement names one table; one that is not registered is an error.
EnterQuery(t) ==
    /\ th[t].pc = "qEnter" /\ qLock = NoThread /\ ctx
    /\ aborted' = FALSE
    /\ \E table \in Tables :
        \/ table \in providers /\ qLock' = t /\ BeginScan(t)
        \/ table \notin providers /\ qLock' = qLock
           /\ Becomes(t, Fresh("query", "idle"))
    /\ UNCHANGED <<clientVars, flushed, rLock, rWait, ctx, providers, declined, rConnected>>

\* What a scan that raises says of itself: cancelled, or the error as it came.
SaysCancelled(t) == aborted \/ th[t].stop

\* With its rows, also when it was told to stop past its last partition, or with
\* an error.
ScanEnds(t) ==
    /\ th[t].pc = "scanning"
    /\ qLock' = NoThread
    /\ Becomes(t, Fresh("query", "idle"))
    /\ UNCHANGED <<clientVars, flushed, rLock, rWait, ctx, providers, declined, rConnected, aborted>>

\* cancel_comparison, while a comparison is under way.
AbortLooks ==
    /\ abort = "idle" /\ \E t \in Threads : th[t].job = "query" /\ th[t].pc # "idle"
    /\ abort' = IF qLock = NoThread THEN "cancel" ELSE "flag"
    /\ th' = [u \in AllThreads |->
                IF th[u].pc = "scanning" THEN [th[u] EXCEPT !.told = TRUE] ELSE th[u]]
    /\ UNCHANGED <<clientVars, readerVars>>

AbortFlags ==
    /\ abort = "flag"
    /\ aborted' = TRUE
    /\ abort' = "cancel"
    /\ UNCHANGED <<clientVars, flushed, rLock, rWait, ctx, providers, declined, rConnected,
                   qLock, th>>

\* Every provider that is registered, busy or not.
AbortCancels ==
    /\ abort = "cancel"
    /\ th' = [u \in AllThreads |->
                IF th[u].pc = "scanning" /\ th[u].same THEN [th[u] EXCEPT !.stop = TRUE]
                ELSE th[u]]
    /\ abort' = "idle"
    /\ UNCHANGED <<clientVars, readerVars>>

-----------------------------------------------------------------------------
(* Around it: flushes and time *)

Flush(table) ==
    /\ up /\ table \in exists \ flushed
    /\ flushed' = flushed \cup {table}
    /\ UNCHANGED <<clientVars, rLock, rWait, ctx, providers, declined, rConnected, qLock,
                   aborted, th>>

Tick ==
    /\ rWait > 0 \/ cWait > 0
    /\ rWait' = IF rWait > 0 THEN rWait - 1 ELSE 0
    /\ cWait' = IF cWait > 0 THEN cWait - 1 ELSE 0
    /\ UNCHANGED <<cLock, cConnected, cSession, prepared, sessions, forced, overlapped,
                   flushed, rLock, ctx, providers, declined, rConnected, qLock, aborted, th>>

-----------------------------------------------------------------------------
Init ==
    /\ SchemaInit /\ ClientInit
    /\ \E jobs \in Work :
        th = [t \in AllThreads |-> IF t = Main THEN Fresh("startup", "startup")
                                               ELSE Fresh(jobs[t], "idle")]
    /\ flushed = {} /\ rLock = NoThread /\ rWait = 0 /\ ctx = FALSE /\ providers = {}
    /\ declined = {} /\ rConnected = FALSE /\ qLock = NoThread /\ aborted = FALSE
    /\ abort = "idle"

Begins(t) ==
    \/ AskQuery(t) \/ AskReconnect(t)
    \/ Serving /\ AskTransaction(t) /\ UNCHANGED readerVars
    \/ Serving /\ AskForced(t) /\ UNCHANGED readerVars

Registering(t) ==
    \/ ConnectEnters(t) \/ MissingEnters(t) \/ Needs(t) \/ NeedsFail(t)
    \/ RegisterTable(t) \/ MissingEnds(t) \/ SwapSession(t) \/ ConnectEnds(t)

Querying(t) == Asked(t) \/ EnterQuery(t) \/ ScanEnds(t)

\* A call that has begun goes on.
GoesOn(t) ==
    \/ t = Main /\ StartUp
    \/ Registering(t) \/ Querying(t)
    \/ Connecting(t) /\ UNCHANGED readerVars
    \/ Transacting(t) /\ UNCHANGED readerVars

Next ==
    \/ SchemaNext /\ UNCHANGED <<clientVars, readerVars, th, abort>>
    \/ /\ UNCHANGED <<schemaVars, abort>>
       /\ \/ \E t \in AllThreads : GoesOn(t)
          \/ \E t \in Threads : Probe(t) \/ ProbeReturns(t) \/ Begins(t)
          \/ \E table \in Tables : Flush(table)
          \/ Tick
    \/ UNCHANGED schemaVars /\ (AbortLooks \/ AbortFlags \/ AbortCancels)

Spec == Init /\ [][Next]_vars

\* What the services around it owe: Cassandra comes back, the sink creates what
\* is missing and Cassandra writes it out.  None of this is done for ever.
WorldGoesOn ==
    /\ \/ (SinkCreates \/ CassandraReturns) /\ UNCHANGED <<clientVars, readerVars, th>>
       \/ (\E table \in Tables : Flush(table)) /\ UNCHANGED schemaVars
    /\ UNCHANGED abort

\* A call that has begun goes on, and the dashboard keeps polling.
FairSpec ==
    /\ Spec /\ WF_vars(WorldGoesOn)
    /\ \A t \in AllThreads : WF_vars(GoesOn(t) /\ UNCHANGED <<schemaVars, abort>>)
    /\ WF_vars((\E t \in Threads : Probe(t)) /\ UNCHANGED <<schemaVars, abort>>)
    /\ WF_vars(Tick /\ UNCHANGED <<schemaVars, abort>>)

-----------------------------------------------------------------------------
(* Properties *)

TypeOK ==
    /\ SchemaTypeOK /\ ClientTypeOK
    /\ th \in [AllThreads -> Thread]
    /\ {flushed, providers, declined} \subseteq SUBSET Tables
    /\ rLock \in AllThreads \cup {NoThread} /\ qLock \in Threads \cup {NoThread}
    /\ rWait \in 0..RetryAfter
    /\ {ctx, rConnected, aborted} \subseteq BOOLEAN
    /\ abort \in {"idle", "flag", "cancel"}

\* The health page reads two lists: once registering is over no table is both
\* readable and declined, and a connected reader has a session.
ReaderIsConsistent ==
    rLock = NoThread => declined \cap providers = {} /\ (rConnected => ctx)

\* What the two clients keep of their sessions, statements and providers whenever
\* no connect is under way.
ClientsSound ==
    TypeOK /\ ConnectedHasSession /\ StaleStatementsOverlapped /\ ReaderIsConsistent

\* "This is how a cancelled scan is told from one that failed": a statement that
\* says it was cancelled had an abort at work while it ran.
ReaderCancelsMetAnAbort ==
    \A t \in Threads : th[t].pc = "scanning" /\ SaysCancelled(t) => th[t].told

\* Scans that lose their provider in this step.
Bereft == {u \in Threads : th[u].pc = "scanning" /\ th[u].same /\ ~th'[u].same
                              /\ th'[u].pc = "scanning"}

\* "A provider another thread is scanning is never replaced": a probe does not
\* replace the providers of a scan that was running when it decided to register.
ProbesSpareScansTheySaw ==
    [][\A t \in Threads :
        th[t].job = "probe" /\ th[t].pc = "rTables" /\ th'[t].pc = "rFlag"
            => th[t].sees \notin Bereft]_vars

\* "So the path recovers on its own": with probes coming in, every table is
\* registered in the end, however early the backend started, whatever the order
\* in which the sink created the tables and Cassandra came and went.
EverythingIsRegistered ==
    (\E t \in Threads : th[t].job = "probe") => <>[](providers = Tables)

=============================================================================
