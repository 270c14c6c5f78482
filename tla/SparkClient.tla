---------------------------- MODULE SparkClient ----------------------------
(***************************************************************************)
(* One Spark Thrift Server client (backend/app/db/spark_client.py): a      *)
(* SparkThriftClient holds one connection behind one lock, abort() cuts    *)
(* that connection without the lock, and a SparkBulkClient prepares a      *)
(* snapshot before each statement and may read an earlier one again.       *)
(*                                                                         *)
(* The connector's client and the bulk reader's are two instances of the   *)
(* class that share nothing: `registers' says which of them this is.       *)
(* Each attribute the threads share is assigned in a step of its own.      *)
(***************************************************************************)
EXTENDS Integers, Sequences, FiniteSets, SequencesExt

CONSTANTS
    Users,        \* requests, each in its thread, that query or reconnect
    Cancels,      \* threads that cancel the comparison
    NoThread,
    SnapshotTTL,  \* SNAPSHOT_TTL_MINUTES, in ticks
    QueryTimeout, \* spark_query_timeout_s, also REUSE_SAFETY_MARGIN_S
    MaxConns,     \* bound: connections opened
    MaxClock      \* bound: ticks

ASSUME SparkAssumption ==
    /\ NoThread \notin Users /\ IsFiniteSet(Users)
    /\ {SnapshotTTL, QueryTimeout, MaxConns, MaxClock} \subseteq Nat
    /\ QueryTimeout > 0 /\ QueryTimeout < SnapshotTTL

VARIABLES
    registers,  \* _register_connector_views: the connector's client
    lock,       \* _lock
    queryLock,  \* _query_lock of the bulk reader
    conn,       \* _conn: the connection's number, 0 for None
    sock,       \* _socket: the number of the connection it belongs to
    aborted,    \* _aborted
    connected,
    opened,     \* connections opened so far
    shut,       \* connections whose socket is closed
    views,      \* per session: the snapshot its view reads (1 for the
                \* connector's own view), 0 if it has none
    jobs,       \* connections for which Spark is working
    last,       \* _last_snapshot, 0 for none
    snaps,      \* the snapshots taken so far
    clock,
    user,       \* each request thread
    cancel,     \* each cancelling thread
    seen        \* history of the cuts and flags

connection == <<registers, opened, conn, sock, aborted, connected>>
spark      == <<shut, views, jobs>>
snapshots  == <<last, snaps, clock>>
vars       == <<connection, lock, queryLock, spark, snapshots, user, cancel, seen>>

Conns == 1..MaxConns
MaxSnapshots == Cardinality(Users)   \* a request takes one at most

User == [pc     : {"new", "done", "connect", "opening", "opened", "kept", "cleared",
                   "register", "recheck", "enter", "choose", "ddl", "ddling",
                   "execute", "running", "blame", "closing"},
         goal   : {"query", "reconnect"},
         reuse  : BOOLEAN,             \* reuse_snapshot
         retry  : BOOLEAN,             \* the views were registered again
         on     : 0..MaxConns,         \* the connection of the statement
         snap   : 0..MaxSnapshots,     \* the snapshot registered
         since  : 0..MaxClock,         \* when the call in flight was sent
         before : 0..MaxSnapshots,     \* history: snapshots there were when it was asked
         chosen : 0..MaxClock,         \* when its snapshot was chosen
         cancelled : BOOLEAN,          \* the flag as execute_query read it
         cut    : BOOLEAN,             \* history: its socket had been cut
         flagged: BOOLEAN,             \* history: a cancel came meanwhile
         out    : {"none", "rows", "cancelled", "quiet", "failed"}]

New == [pc |-> "new", goal |-> "query", reuse |-> FALSE, retry |-> FALSE, on |-> 0,
         snap |-> 0, since |-> 0, before |-> 0, chosen |-> 0, cancelled |-> FALSE,
         cut |-> FALSE, flagged |-> FALSE, out |-> "none"]

Cancel == [pc : {"new", "flag", "disconnect", "shut", "kill", "killed", "done"},
           sock : 0..MaxConns]

Becomes(u, r) == user' = [user EXCEPT ![u] = r]
Goes(u, pc)   == Becomes(u, [user[u] EXCEPT !.pc = pc])

-----------------------------------------------------------------------------
(* query._run and health.reconnect: who connects, and when *)

AskQuery(u, reuse) ==
    /\ user[u].pc = "new"
    /\ reuse => ~registers
    /\ Becomes(u, [New EXCEPT !.pc = IF connected THEN "enter" ELSE "connect",
                               !.reuse = reuse, !.before = Len(snaps)])
    /\ UNCHANGED <<connection, lock, queryLock, spark, snapshots, cancel, seen>>

\* A path that is busy is left alone.
AskReconnect(u) ==
    /\ user[u].pc = "new" /\ lock = NoThread
    /\ Becomes(u, [New EXCEPT !.pc = "connect", !.goal = "reconnect"])
    /\ UNCHANGED <<connection, lock, queryLock, spark, snapshots, cancel, seen>>

\* connected is asked again after connect(), which never raises.
Recheck(u) ==
    /\ user[u].pc = "recheck"
    /\ Becomes(u, IF user[u].goal = "reconnect" THEN [New EXCEPT !.pc = "done"]
                  ELSE IF connected THEN [user[u] EXCEPT !.pc = "enter"]
                  ELSE [New EXCEPT !.pc = "done", !.out = "failed"])
    /\ UNCHANGED <<connection, lock, queryLock, spark, snapshots, cancel, seen>>

-----------------------------------------------------------------------------
(* connect() *)

Acquire(u) ==
    /\ user[u].pc = "connect" /\ lock = NoThread
    /\ lock' = u
    /\ Goes(u, "opening")
    /\ UNCHANGED <<connection, queryLock, spark, snapshots, cancel, seen>>

OpenSession(u) ==
    /\ user[u].pc = "opening" /\ opened < MaxConns
    /\ opened' = opened + 1
    /\ conn' = opened + 1
    /\ Goes(u, "opened")
    /\ UNCHANGED <<registers, sock, aborted, connected, lock, queryLock, spark,
                   snapshots, cancel, seen>>

\* _close_locked: the connection of before goes as well.
CloseLocked ==
    /\ conn' = 0 /\ sock' = 0 /\ connected' = FALSE
    /\ shut' = shut \cup ({conn} \ {0})
    /\ UNCHANGED <<registers, opened, aborted>>

OpenFails(u) ==
    /\ user[u].pc = "opening"
    /\ CloseLocked
    /\ lock' = NoThread
    /\ Goes(u, "recheck")
    /\ UNCHANGED <<queryLock, views, jobs, snapshots, cancel, seen>>

KeepSocket(u) ==
    /\ user[u].pc = "opened"
    /\ sock' = conn
    /\ Goes(u, "kept")
    /\ UNCHANGED <<registers, opened, conn, aborted, connected, lock, queryLock, spark,
                   snapshots, cancel, seen>>

\* Faulty: the flag of an earlier cancel is kept.
ClearAbortedNot(u) ==
    /\ user[u].pc = "kept"
    /\ Goes(u, "cleared")
    /\ UNCHANGED <<connection, lock, queryLock, spark, snapshots, cancel, seen>>

ClearAborted(u) ==
    /\ user[u].pc = "kept"
    /\ aborted' = FALSE
    /\ seen' = [seen EXCEPT !.wiped = @ \cup seen.flagged]
    /\ Goes(u, "cleared")
    /\ UNCHANGED <<registers, opened, conn, sock, connected, lock, queryLock, spark,
                   snapshots, cancel>>

SetConnected(u) ==
    /\ user[u].pc = "cleared"
    /\ connected' = TRUE
    /\ lock' = NoThread
    /\ Goes(u, IF registers THEN "register" ELSE "recheck")
    /\ UNCHANGED <<registers, opened, conn, sock, aborted, queryLock, spark, snapshots,
                   cancel, seen>>

\* _register_views: each DDL takes the lock for itself; a failure is printed.
RegisterViews(u) ==
    /\ user[u].pc = "register" /\ lock = NoThread
    /\ views' \in {views} \cup
            (IF conn # 0 /\ conn \notin shut THEN {[views EXCEPT ![conn] = 1]} ELSE {})
    /\ Goes(u, IF user[u].retry THEN "execute" ELSE "recheck")
    /\ UNCHANGED <<connection, lock, queryLock, shut, jobs, snapshots, cancel, seen>>

-----------------------------------------------------------------------------
(* SparkBulkClient.execute_query: the snapshot and its view *)

\* Faulty: the view is registered and read without _query_lock.
EnterAnyway(u) ==
    /\ user[u].pc = "enter"
    /\ queryLock' = IF registers THEN queryLock ELSE u
    /\ Goes(u, IF registers THEN "execute" ELSE "choose")
    /\ UNCHANGED <<connection, lock, spark, snapshots, cancel, seen>>

Enter(u) ==
    /\ user[u].pc = "enter"
    /\ ~registers => queryLock = NoThread
    /\ queryLock' = IF registers THEN queryLock ELSE u
    /\ Goes(u, IF registers THEN "execute" ELSE "choose")
    /\ UNCHANGED <<connection, lock, spark, snapshots, cancel, seen>>

AgeOf(s) == clock - snaps[s].stamp

\* Faulty: a snapshot is reused for as long as it lives.
ReusableToTheEnd(s) == s # 0 /\ SnapshotTTL - AgeOf(s) > 0 /\ snaps[s].gone = "no"

\* _reusable: taken, old enough life left, and the Sidecar can list it.
Reusable(s) ==
    s # 0 /\ SnapshotTTL - AgeOf(s) > QueryTimeout /\ snaps[s].gone = "no"

ReuseSnapshot(u) ==
    /\ user[u].pc = "choose" /\ user[u].reuse /\ Reusable(last)
    /\ Becomes(u, [user[u] EXCEPT !.pc = "ddl", !.snap = last, !.chosen = clock])
    /\ UNCHANGED <<connection, lock, queryLock, spark, snapshots, cancel, seen>>

\* Also when the Sidecar does not answer: then the snapshot counts as gone.
\* Nothing is taken yet, but the name carries the clock.
NameSnapshot(u) ==
    /\ user[u].pc = "choose"
    /\ Becomes(u, [user[u] EXCEPT !.pc = "ddl", !.chosen = clock])
    /\ UNCHANGED <<connection, lock, queryLock, spark, snapshots, cancel, seen>>

\* The end of a request: what it holds is released.
Ends(u, out) ==
    /\ Becomes(u, [New EXCEPT !.pc = "done", !.out = out])
    /\ queryLock' = IF queryLock = u THEN NoThread ELSE queryLock

\* _thrift.execute_ddl(ddl) and _thrift.execute(sql) without a connection raise.
NoConnection(u) ==
    /\ user[u].pc \in {"ddl", "execute"} /\ lock = NoThread /\ conn = 0
    /\ Ends(u, "failed")
    /\ UNCHANGED <<connection, lock, spark, snapshots, cancel, seen>>

\* A closed socket refuses the call; otherwise Spark begins to work on it.
Send(u) ==
    /\ user[u].pc \in {"ddl", "execute"} /\ lock = NoThread /\ conn # 0
    /\ lock' = u
    /\ jobs' = IF user[u].pc = "execute" /\ conn \notin shut THEN jobs \cup {conn} ELSE jobs
    /\ Becomes(u, [user[u] EXCEPT !.pc = IF @ = "ddl" THEN "ddling" ELSE "running",
                                  !.on = conn, !.since = clock])
    /\ UNCHANGED <<connection, queryLock, shut, views, snapshots, cancel, seen>>

\* The DDL takes the snapshot, unless it is reused, and points the view at it.
ViewRegistered(u) ==
    LET fresh == user[u].snap = 0
        s     == IF fresh THEN Len(snaps) + 1 ELSE user[u].snap IN
    /\ user[u].pc = "ddling" /\ user[u].on \notin shut
    /\ snaps' = IF fresh
                THEN Append(snaps, [stamp |-> user[u].chosen, born |-> clock, gone |-> "no"])
                ELSE snaps
    /\ views' = [views EXCEPT ![user[u].on] = s]
    /\ last' = s
    /\ lock' = NoThread
    /\ Becomes(u, [user[u] EXCEPT !.pc = "execute", !.snap = s, !.since = 0])
    /\ UNCHANGED <<connection, queryLock, shut, jobs, clock, cancel, seen>>

\* The DDL fails, also with its socket cut: nothing translates that error.
ViewFails(u) ==
    /\ user[u].pc = "ddling"
    /\ lock' = NoThread
    /\ Ends(u, "failed")
    /\ UNCHANGED <<connection, spark, snapshots, cancel, seen>>

-----------------------------------------------------------------------------
(* execute, and what execute_query and _run_statement make of its failures *)

Working(u) == user[u].pc = "running" /\ user[u].on \notin shut

\* The view the statement names: the connector's is any, the bulk reader's the
\* one its session holds.
ViewOf(u) == views[user[u].on]

Answer(u) ==
    /\ Working(u) /\ ViewOf(u) # 0
    /\ ~registers => snaps[ViewOf(u)].gone = "no"
    /\ lock' = NoThread
    /\ jobs' = jobs \ {user[u].on}
    /\ Ends(u, "rows")
    /\ UNCHANGED <<connection, shut, views, snapshots, cancel, seen>>

\* A server-side error, a lost snapshot among them.  A missing view is worth registering again, once, on
\* the connector's path; every other error is reported.
StatementFails(u) ==
    /\ Working(u)
    /\ lock' = NoThread
    /\ jobs' = jobs \ {user[u].on}
    /\ IF registers /\ ViewOf(u) = 0 /\ ~user[u].retry
       THEN /\ Becomes(u, [user[u] EXCEPT !.pc = "register", !.since = 0, !.retry = TRUE])
            /\ UNCHANGED queryLock
       ELSE Ends(u, "failed")
    /\ UNCHANGED <<connection, shut, views, snapshots, cancel, seen>>

\* TTransportException: the socket was cut, or nothing came for QueryTimeout.
\* Spark works on, until the job is killed.  A retry's failure is reported as it came.
TransportFails(u) ==
    /\ user[u].pc = "running"
    /\ user[u].on \notin shut /\ ~registers
            => clock \in {user[u].since + QueryTimeout, MaxClock}
    /\ lock' = NoThread
    /\ IF user[u].retry
       THEN Ends(u, "failed")
       ELSE /\ Becomes(u, [user[u] EXCEPT !.pc = "blame", !.since = 0, !.cut = user[u].on \in seen.cut])
            /\ UNCHANGED queryLock
    /\ UNCHANGED <<connection, spark, snapshots, cancel, seen>>

\* The flag is read after the lock was released.  The bulk reader's client
\* keeps its connection.
Blame(u) ==
    /\ user[u].pc = "blame"
    /\ IF registers
       THEN /\ Becomes(u, [user[u] EXCEPT !.pc = "closing", !.cancelled = aborted])
            /\ UNCHANGED queryLock
       ELSE Ends(u, IF aborted THEN "cancelled" ELSE "quiet")
    /\ UNCHANGED <<connection, lock, spark, snapshots, cancel, seen>>

\* The connector's client drops whatever connection there is by now.
Close(u) ==
    /\ user[u].pc = "closing" /\ lock = NoThread
    /\ CloseLocked
    /\ Ends(u, IF user[u].cancelled THEN "cancelled" ELSE "quiet")
    /\ UNCHANGED <<lock, views, jobs, snapshots, cancel, seen>>

-----------------------------------------------------------------------------
(* cancel_comparison's part: abort(), then kill_jobs_for *)

\* Without a socket there is nothing to cut.
ReadSocket(c) ==
    /\ cancel[c].pc = "new"
    /\ cancel' = [cancel EXCEPT ![c] = [pc |-> IF sock = 0 THEN "kill" ELSE "flag",
                                        sock |-> sock]]
    /\ UNCHANGED <<connection, lock, queryLock, spark, snapshots, user, seen>>

SetAborted(c) ==
    /\ cancel[c].pc = "flag"
    /\ aborted' = TRUE
    /\ seen' = [seen EXCEPT !.flagged = @ \cup {cancel[c].sock},
                            !.asked = @ \cup {conn}]
    /\ user' = [u \in Users |->
                    IF user[u].pc \in {"new", "done"} THEN user[u] ELSE [user[u] EXCEPT !.flagged = TRUE]]
    /\ cancel' = [cancel EXCEPT ![c].pc = "disconnect"]
    /\ UNCHANGED <<registers, opened, conn, sock, connected, lock, queryLock, spark,
                   snapshots>>

ClearConnected(c) ==
    /\ cancel[c].pc = "disconnect"
    /\ connected' = FALSE
    /\ cancel' = [cancel EXCEPT ![c].pc = "shut"]
    /\ UNCHANGED <<registers, opened, conn, sock, aborted, lock, queryLock, spark,
                   snapshots, user, seen>>

\* The shutdown wakes the blocked read.
ShutDown(c) ==
    /\ cancel[c].pc = "shut"
    /\ shut' = shut \cup {cancel[c].sock}
    /\ seen' = [seen EXCEPT !.cut = @ \cup {cancel[c].sock}]
    /\ cancel' = [cancel EXCEPT ![c].pc = "kill"]
    /\ UNCHANGED <<connection, lock, queryLock, views, jobs, snapshots, user>>

\* Faulty: jobs are killed only on a connection nobody has cut.
KillOpenJobs(c) ==
    /\ cancel[c].pc = "kill"
    /\ jobs' = jobs \cap shut
    /\ cancel' = [cancel EXCEPT ![c].pc = "killed"]
    /\ UNCHANGED <<connection, lock, queryLock, shut, views, snapshots, user, seen>>

\* Every running job that works on the comparison's statement.
KillJobs(c) ==
    /\ cancel[c].pc = "kill"
    /\ jobs' = {}
    /\ cancel' = [cancel EXCEPT ![c].pc = "killed"]
    /\ UNCHANGED <<connection, lock, queryLock, shut, views, snapshots, user, seen>>

CancelReturns(c) ==
    /\ cancel[c].pc \in {"kill", "killed"}    \* the UI may refuse or not answer
    /\ cancel' = [cancel EXCEPT ![c].pc = "done"]
    /\ UNCHANGED <<connection, lock, queryLock, spark, snapshots, user, seen>>

-----------------------------------------------------------------------------
(* The world outside: Spark, the node and its operator, time *)

\* The session is recycled, or a table behind its views replaced.
ViewsGoStale(n) ==
    /\ registers /\ views[n] # 0
    /\ views' = [views EXCEPT ![n] = 0]
    /\ UNCHANGED <<connection, lock, queryLock, shut, jobs, snapshots, user, cancel, seen>>

\* The node drops a snapshot once its TTL has passed, an operator at any time.
SnapshotGoes(s, why) ==
    /\ snaps[s].gone = "no"
    /\ why = "ttl" => clock >= snaps[s].born + SnapshotTTL
    /\ snaps' = [snaps EXCEPT ![s].gone = why]
    /\ UNCHANGED <<connection, lock, queryLock, spark, last, clock, user, cancel, seen>>

\* The connector's client has no use for the clock, a socket raises when its
\* timeout has passed, and the clock starts with the first snapshot's name.
Tick ==
    /\ ~registers /\ clock < MaxClock
    /\ snaps # <<>> \/ \E u \in Users : user[u].pc \in {"ddl", "ddling"}
    /\ \A u \in Users : user[u].pc \in {"ddling", "running"}
                            => clock < user[u].since + QueryTimeout
    /\ clock' = clock + 1
    /\ UNCHANGED <<connection, lock, queryLock, spark, last, snaps, user, cancel, seen>>

-----------------------------------------------------------------------------
Init ==
    /\ registers \in BOOLEAN
    /\ lock = NoThread /\ queryLock = NoThread
    /\ conn = 0 /\ sock = 0 /\ aborted = FALSE /\ connected = FALSE /\ opened = 0
    /\ shut = {} /\ views = [n \in Conns |-> 0] /\ jobs = {}
    /\ last = 0 /\ snaps = <<>> /\ clock = 0
    /\ user = [u \in Users |-> New]
    /\ cancel = [c \in Cancels |-> [pc |-> "new", sock |-> 0]]
    /\ seen = [flagged |-> {}, cut |-> {}, wiped |-> {}, asked |-> {}]

\* What a request's thread does on its own.
Progress(u) ==
    \/ Recheck(u) \/ Acquire(u) \/ OpenSession(u) \/ OpenFails(u)
    \/ KeepSocket(u) \/ ClearAborted(u) \/ SetConnected(u) \/ RegisterViews(u)
    \/ Enter(u) \/ ReuseSnapshot(u) \/ NameSnapshot(u)
    \/ NoConnection(u) \/ Send(u) \/ ViewRegistered(u) \/ ViewFails(u)
    \/ Answer(u) \/ StatementFails(u) \/ TransportFails(u)
    \/ Blame(u) \/ Close(u)

Cancelling(c) ==
    \/ ReadSocket(c) \/ SetAborted(c) \/ ClearConnected(c) \/ ShutDown(c)
    \/ KillJobs(c) \/ CancelReturns(c)

Next ==
    \/ \E u \in Users : \/ \E reuse \in BOOLEAN : AskQuery(u, reuse)
                        \/ AskReconnect(u)
                        \/ Progress(u)
    \/ \E c \in Cancels : Cancelling(c)
    \/ \E n \in Conns : ViewsGoStale(n)
    \/ \E s \in DOMAIN snaps, why \in {"ttl", "hand"} : SnapshotGoes(s, why)
    \/ Tick

Spec == Init /\ [][Next]_vars

-----------------------------------------------------------------------------
(* Properties *)

TypeOK ==
    /\ registers \in BOOLEAN /\ aborted \in BOOLEAN /\ connected \in BOOLEAN
    /\ lock \in Users \cup {NoThread} /\ queryLock \in Users \cup {NoThread}
    /\ conn \in 0..MaxConns /\ sock \in 0..MaxConns /\ opened \in 0..MaxConns
    /\ shut \subseteq Conns /\ jobs \subseteq Conns
    /\ views \in [Conns -> 0..MaxSnapshots]
    /\ snaps \in Seq([stamp : 0..MaxClock, born : 0..MaxClock, gone : {"no", "ttl", "hand"}])
    /\ Len(snaps) <= MaxSnapshots
    /\ last \in 0..Len(snaps) /\ clock \in 0..MaxClock
    /\ user \in [Users -> User] /\ cancel \in [Cancels -> Cancel]
    /\ seen \in [flagged : SUBSET Conns, cut : SUBSET Conns, wiped : SUBSET Conns,
                 asked : SUBSET (0..MaxConns)]

\* The step in which u's request ends this way.
Reports(u, out) ==
    user[u].pc # "done" /\ user'[u].pc = "done" /\ user'[u].out = out

\* "A cancelled query and a server that stopped answering arrive here as the
\* same transport error": a query that says it was cancelled met a cancel, on its
\* connection or while it ran, and no earlier connection's flag is left over; one
\* whose socket was cut blames the server only if a connect wiped the flag after
\* the cancel had set it.
CancelsAreTold ==
    [][\A u \in Users :
        /\ Reports(u, "cancelled") => user[u].flagged \/ user[u].on \in seen.asked
        /\ Reports(u, "quiet") /\ user[u].cut => user[u].on \in seen.wiped]_vars

\* Taken as of the question, or a snapshot that the caller allowed to be read again
\* and that was young enough when it was chosen.
Current(u) ==
    \/ ViewOf(u) > user[u].before
    \/ /\ user[u].reuse
       /\ user[u].chosen - snaps[ViewOf(u)].stamp < SnapshotTTL - QueryTimeout

\* "Registering the view and running the statement have to be one operation": a
\* bulk query that answers has read the snapshot it registered, whatever queried,
\* reconnected or was cancelled beside it, and that snapshot is current.
AnswersAreCurrent ==
    [][\A u \in Users :
        Reports(u, "rows") /\ ~registers => ViewOf(u) = user[u].snap /\ Current(u)]_vars

\* "A reused snapshot must outlive the read that reuses it": one that its TTL
\* takes away has lasted for more than a query's timeout since it was chosen.
SnapshotsOutliveATimeout ==
    \A u \in Users :
        /\ user[u].pc \in {"ddl", "ddling", "execute", "running"} /\ user[u].snap # 0
        /\ snaps[user[u].snap].gone = "ttl"
        => clock - user[u].chosen > QueryTimeout

\* "Whoever cancels has to kill the job as well": once a cancel has done so, no
\* job is left on the connection it cut, and none can begin there.
CancelLeavesNoOrphan ==
    \A c \in Cancels : cancel[c].pc = "killed" => cancel[c].sock \notin jobs

\* The locks come back from every connect and every statement, however it ends:
\* while a request is under way, one of them can go on or is about to time out.
SomeoneCanGoOn ==
    (\E u \in Users : user[u].pc \notin {"new", "done"})
        => ENABLED (Tick \/ \E u \in Users : Progress(u))

\* What the two locks and the cancel's job kill keep at every moment.
SparkSound == TypeOK /\ CancelLeavesNoOrphan /\ SomeoneCanGoOn

=============================================================================
