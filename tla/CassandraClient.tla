-------------------------- MODULE CassandraClient --------------------------
(***************************************************************************)
(* The backend's Cassandra client (backend/app/db/cassandra_client.py):    *)
(* one session shared by every request thread, opened lazily, at most one  *)
(* attempt per RECONNECT_INTERVAL_S unless forced, and the prepared        *)
(* statements that go with it under a lock of their own.                   *)
(*                                                                         *)
(* A thread is at a program counter and has the caller's to return to.     *)
(* Throttles count down: `cWait' is what is left of the interval.          *)
(***************************************************************************)
EXTENDS SinkSchema, FiniteSets

CONSTANTS
    Threads,            \* request threads
    Main,               \* the thread of the application's startup
    NoThread,
    ReconnectInterval,  \* RECONNECT_INTERVAL_S, in ticks
    MaxForced           \* bound: forced reconnects

ASSUME ClientAssumption ==
    /\ IsFiniteSet(Threads) /\ Main \notin Threads
    /\ NoThread \notin Threads \cup {Main}
    /\ ReconnectInterval \in Nat /\ MaxForced \in Nat

VARIABLES
    th,          \* each thread
    cLock,       \* _lock
    cConnected,  \* connected
    cSession,    \* _session: the number of the session, 0 for None
    cWait,       \* ticks until an unforced attempt is allowed
    prepared,    \* _prepared: the session that prepared the cached statement
    sessions,    \* sessions opened so far
    forced,      \* forced reconnects so far
    overlapped   \* history: sessions that were replaced under a transaction

clientVars == <<cLock, cConnected, cSession, cWait, prepared, sessions, forced, overlapped>>

AllThreads  == Threads \cup {Main}
\* Only a forced reconnect opens a second one, or loses the first.
MaxSessions == 1 + MaxForced
Session     == 0..MaxSessions

Becomes(t, r) == th' = [th EXCEPT ![t] = r]
Goes(t, pc)   == Becomes(t, [th[t] EXCEPT !.pc = pc])

-----------------------------------------------------------------------------
(* connect(force) *)

\* Connected already, or too soon: connect() returns at once.
ConnectNotNeeded(t) ==
    /\ th[t].pc = "cConnect" /\ cLock = NoThread
    /\ th[t].job # "force" /\ (cConnected \/ cWait > 0)
    /\ Goes(t, th[t].back)
    /\ UNCHANGED clientVars

ConnectBegins(t) ==
    /\ th[t].pc = "cConnect" /\ cLock = NoThread
    /\ th[t].job # "force" => ~cConnected /\ cWait = 0
    /\ cLock' = t
    /\ cWait' = ReconnectInterval
    /\ Goes(t, "cOpening")
    /\ UNCHANGED <<cConnected, cSession, prepared, sessions, forced, overlapped>>

Preparing(t) == th[t].pc = "prepare"

\* cluster.connect(keyspace): the session is there before the cache is emptied.
SessionOpens(t) ==
    /\ th[t].pc = "cOpening" /\ up /\ "keyspace" \in exists
    /\ sessions' = sessions + 1
    /\ cSession' = sessions + 1
    /\ overlapped' = overlapped \cup {th[u].mine : u \in {v \in Threads : Preparing(v)}}
    /\ Goes(t, "cClearing")
    /\ UNCHANGED <<cLock, cConnected, cWait, prepared, forced>>

\* Faulty: the statements of the session before stay cached.
KeepPrepared(t) ==
    /\ th[t].pc = "cClearing"
    /\ cConnected' = TRUE
    /\ cLock' = NoThread
    /\ Goes(t, th[t].back)
    /\ UNCHANGED <<cSession, cWait, prepared, sessions, forced, overlapped>>

ClearPrepared(t) ==
    /\ th[t].pc = "cClearing"
    /\ prepared' = 0
    /\ cConnected' = TRUE
    /\ cLock' = NoThread
    /\ Goes(t, th[t].back)
    /\ UNCHANGED <<cSession, cWait, sessions, forced, overlapped>>

\* A forced connect raises; any other leaves it to its caller to ask.
ConnectFails(t) ==
    /\ th[t].pc = "cOpening" /\ ~(up /\ "keyspace" \in exists)
    /\ cConnected' = FALSE /\ cSession' = 0
    /\ cLock' = NoThread
    /\ Goes(t, IF th[t].job = "force" THEN "idle" ELSE th[t].back)
    /\ UNCHANGED <<cWait, prepared, sessions, forced, overlapped>>

-----------------------------------------------------------------------------
(* execute_transaction *)

\* The session property, first half: connect if the flag says so.
AskTransaction(t) ==
    /\ th[t].pc = "idle" /\ th[t].job = "transaction"
    /\ Becomes(t, [th[t] EXCEPT !.pc = IF cConnected THEN "take" ELSE "cConnect",
                                !.back = "take"])
    /\ UNCHANGED clientVars

\* Second half: the session as it is by now, which may be none.
TakeSession(t) ==
    /\ th[t].pc = "take"
    /\ Becomes(t, [th[t] EXCEPT !.pc = IF cSession = 0 THEN "idle" ELSE "prepare",
                                !.mine = cSession])
    /\ UNCHANGED clientVars

\* With _prepare_lock: the cached statement, or one that this session prepares.
Prepare(t) ==
    /\ Preparing(t)
    /\ prepared' = IF prepared = 0 THEN th[t].mine ELSE prepared
    /\ Becomes(t, [th[t] EXCEPT !.pc = "idle", !.mine = 0])
    /\ UNCHANGED <<cLock, cConnected, cSession, cWait, sessions, forced, overlapped>>

\* session.prepare raises: nothing is cached.
PrepareFails(t) ==
    /\ Preparing(t) /\ prepared = 0 /\ ~up
    /\ Becomes(t, [th[t] EXCEPT !.pc = "idle", !.mine = 0])
    /\ UNCHANGED clientVars

\* health.reconnect on this path: it is never busy.
AskForced(t) ==
    /\ th[t].pc = "idle" /\ th[t].job = "force" /\ forced < MaxForced
    /\ forced' = forced + 1
    /\ Becomes(t, [th[t] EXCEPT !.pc = "cConnect", !.back = "idle"])
    /\ UNCHANGED <<cLock, cConnected, cSession, cWait, prepared, sessions, overlapped>>

-----------------------------------------------------------------------------
ClientInit ==
    /\ cLock = NoThread /\ cConnected = FALSE /\ cSession = 0 /\ cWait = 0
    /\ prepared = 0 /\ sessions = 0 /\ forced = 0 /\ overlapped = {}

\* Inside connect().
Connecting(t) ==
    \/ ConnectNotNeeded(t) \/ ConnectBegins(t) \/ SessionOpens(t)
    \/ ClearPrepared(t) \/ ConnectFails(t)

\* Inside execute_transaction.
Transacting(t) == TakeSession(t) \/ Prepare(t) \/ PrepareFails(t)

-----------------------------------------------------------------------------
(* Properties *)

ClientTypeOK ==
    /\ cLock \in AllThreads \cup {NoThread}
    /\ cConnected \in BOOLEAN
    /\ {cSession, prepared} \subseteq Session
    /\ sessions \in 0..(1 + forced)
    /\ cWait \in 0..ReconnectInterval
    /\ forced \in 0..MaxForced
    /\ overlapped \subseteq Session

\* Who finds the client connected finds a session, or has caught a connect at
\* work: no request that saw the flag meets None once the lock is free.
ConnectedHasSession == cLock = NoThread => (cConnected <=> cSession # 0)

\* "Emptied on every connect, because a prepared statement belongs to the session
\* that prepared it": with no connect under way, a cached statement is the current
\* session's, or was cached by a transaction that had taken its session before a
\* reconnect replaced it.
StaleStatementsOverlapped ==
    cLock = NoThread /\ cSession # 0 => prepared \in {0, cSession} \cup overlapped

=============================================================================
