---------------------------- MODULE ClientProofs ----------------------------
(***************************************************************************)
(* TLAPS proofs about the two clients of one connection each: SparkClient, *)
(* for any number of requests and cancels, any number of connections and   *)
(* any clock; and SqlConsole, for any tables, callers and outages.         *)
(***************************************************************************)
EXTENDS SparkClient, SqlConsole, FiniteSetTheorems, SequenceTheorems, TLAPS

-----------------------------------------------------------------------------
(* SparkClient: the invariants *)

Snapshot == [stamp : 0..MaxClock, born : 0..MaxClock, gone : {"no", "ttl", "hand"}]

\* Who is between taking the connection's lock and releasing it.
Holding == {"opening", "opened", "kept", "cleared", "ddling", "running"}

\* Who has taken the bulk reader's lock, and who may hold a snapshot.
Querying == {"choose", "ddl", "ddling", "execute", "running", "blame"}

\* Who is past the step in which a request may take a snapshot.
Past == {u \in Users : user[u].pc \in {"execute", "running", "blame", "closing", "done"}}

\* The locks are held where they are taken, and each client keeps to its own steps.
LocksAreHeld ==
    \A u \in Users :
        /\ user[u].pc \in Holding => lock = u
        /\ ~registers /\ user[u].pc \in Querying => queryLock = u
        /\ registers => user[u].pc \notin {"choose", "ddl", "ddling"}
        /\ ~registers => user[u].pc \notin {"register", "closing"} /\ ~user[u].retry

\* A connection is the newest or none, and has no view before it is opened.
ConnsAreNew ==
    /\ conn \in {0, opened}
    /\ \A n \in Conns : n > opened => views[n] = 0

\* A snapshot is named before it is taken, and lives for its TTL.
SnapshotsAge ==
    /\ registers => Len(snaps) = 0
    /\ ~registers => Len(snaps) <= Cardinality(Past)
    /\ \A s \in 1..Len(snaps) :
        /\ snaps[s].stamp <= snaps[s].born /\ snaps[s].born <= clock
        /\ snaps[s].gone = "ttl" => snaps[s].born + SnapshotTTL <= clock

\* A request's snapshot was young enough when it was chosen, and is its own or one
\* that it was allowed to reuse.
SnapshotsAreChosen ==
    \A u \in Users :
        /\ user[u].before <= Len(snaps) /\ user[u].snap <= Len(snaps) /\ user[u].chosen <= clock
        /\ user[u].snap # 0 =>
            /\ user[u].pc \in {"ddl", "ddling", "execute", "running", "blame"}
            /\ user[u].chosen - snaps[user[u].snap].stamp < SnapshotTTL - QueryTimeout
            /\ user[u].snap > user[u].before \/ user[u].reuse

\* A bulk statement finds its own snapshot behind the view, or no view at all.
ViewsAreOwn ==
    ~registers => \A u \in Users :
        /\ user[u].pc = "ddling" => user[u].on = opened /\ user[u].on # 0
        /\ user[u].pc = "execute" =>
            /\ user[u].on # 0 /\ user[u].snap # 0 /\ views[user[u].on] = user[u].snap
            /\ \A n \in Conns : n > user[u].on => views[n] = 0
        /\ user[u].pc = "running" => user[u].on # 0 /\ views[user[u].on] \in {0, user[u].snap}

\* The flag belongs to the connection there is, unless one is being opened that will
\* clear it.
FlagIsCurrent ==
    /\ aborted => \/ conn \in seen.asked \cup {0}
                  \/ \E w \in Users : user[w].pc \in {"opened", "kept"}
    /\ ~aborted => seen.flagged \subseteq seen.wiped
    /\ seen.cut \subseteq seen.flagged

\* What a request will say of itself is so.
BlameIsDue ==
    \A u \in Users :
        /\ user[u].pc \in {"running", "blame"} /\ aborted
            => user[u].flagged \/ user[u].on \in seen.asked
        /\ user[u].pc = "closing" /\ user[u].cancelled
            => user[u].flagged \/ user[u].on \in seen.asked
        /\ user[u].cut => user[u].pc \in {"blame", "closing"} /\ user[u].on \in seen.cut
        /\ user[u].pc = "closing" /\ user[u].cut /\ ~user[u].cancelled
            => user[u].on \in seen.wiped

\* How far each cancel has come with its socket.
CancelsAdvance ==
    \A c \in Cancels :
        /\ cancel[c].pc \in {"flag", "disconnect", "shut"} => cancel[c].sock # 0
        /\ cancel[c].pc \in {"disconnect", "shut"} => cancel[c].sock \in seen.flagged
        /\ cancel[c].pc \in {"kill", "killed"} => cancel[c].sock \in shut \cup {0}

\* The inductive invariant.
SparkInv ==
    /\ TypeOK
    /\ LocksAreHeld /\ ConnsAreNew /\ SnapshotsAge /\ SnapshotsAreChosen /\ ViewsAreOwn
    /\ FlagIsCurrent /\ BlameIsDue
    /\ CancelsAdvance /\ CancelLeavesNoOrphan

-----------------------------------------------------------------------------
(* SparkClient: small facts *)

\* A request's thread does one of these.
Acts(u) ==
    \/ \E reuse \in BOOLEAN : AskQuery(u, reuse)
    \/ AskReconnect(u)
    \/ Progress(u)

\* The bounds are numbers.
LEMMA SparkBounds ==
  /\ SnapshotTTL \in Nat /\ QueryTimeout \in Nat /\ MaxConns \in Nat /\ MaxClock \in Nat
  /\ QueryTimeout > 0 /\ QueryTimeout < SnapshotTTL /\ NoThread \notin Users
  BY SparkAssumption

\* There is a snapshot for every request, and for each that has yet to take one.
LEMMA RoomForSnapshots ==
  /\ MaxSnapshots \in Nat
  /\ Users # {} => MaxSnapshots >= 1
  /\ Cardinality(Past) \in Nat /\ Cardinality(Past) <= MaxSnapshots
  /\ \A u \in Users \ Past : Cardinality(Past) + 1 <= MaxSnapshots
<1>1. IsFiniteSet(Users) /\ MaxSnapshots = Cardinality(Users) /\ Past \subseteq Users
  BY SparkAssumption DEF MaxSnapshots, Past
<1>2. MaxSnapshots \in Nat /\ IsFiniteSet(Past) /\ Cardinality(Past) \in Nat
      /\ Cardinality(Past) <= MaxSnapshots
  BY <1>1, FS_CardinalityType, FS_Subset
<1>3. Users # {} => MaxSnapshots # 0
  BY <1>1, FS_EmptySet
<1>4. ASSUME NEW u \in Users \ Past PROVE Cardinality(Past) + 1 <= MaxSnapshots
  <2>1. Cardinality(Past \cup {u}) = Cardinality(Past) + 1
    BY <1>2, FS_AddElement
  <2>2. Past \cup {u} \subseteq Users
    BY <1>1
  <2>3. QED
    BY <1>1, <2>1, <2>2, FS_Subset
<1>5. QED
  BY <1>2, <1>3, <1>4

\* What a thread's record becomes is its own affair.
LEMMA BecomesIs ==
  ASSUME TypeOK, NEW u \in Users, NEW r \in User, Becomes(u, r)
  PROVE  /\ user' \in [Users -> User] /\ user'[u] = r
         /\ \A v \in Users : v # u => user'[v] = user[v]
  BY DEF TypeOK, Becomes

\* A request starts with nothing, and ends with nothing but what it says.
LEMMA NewType ==
  /\ New \in User
  /\ \A out \in {"none", "rows", "cancelled", "quiet", "failed"} :
        [New EXCEPT !.pc = "done", !.out = out] \in User
<1>1. 0 \in 0..MaxConns /\ 0 \in 0..MaxSnapshots /\ 0 \in 0..MaxClock
  BY SparkBounds, RoomForSnapshots
<1>2. New \in User
  BY <1>1 DEF New, User
<1>3. QED
  BY <1>2 DEF User

\* Whatever a thread does, only its own record changes, to a record.
LEMMA ActsIsOwn ==
  ASSUME TypeOK, LocksAreHeld, SnapshotsAge, NEW u \in Users, Acts(u)
  PROVE  /\ user' \in [Users -> User]
         /\ \A v \in Users : v # u => user'[v] = user[v]
         /\ cancel' = cancel /\ registers' = registers
<1> DEFINE Does(r) == r \in User /\ Becomes(u, r)
<1>0. user[u] \in User /\ New \in User
  BY NewType DEF TypeOK
<1>a. /\ Len(snaps) \in 0..MaxSnapshots /\ last \in 0..MaxSnapshots /\ clock \in 0..MaxClock
      /\ 0 \in 0..MaxClock /\ conn \in 0..MaxConns /\ connected \in BOOLEAN /\ aborted \in BOOLEAN
  <2>1. Len(snaps) \in Nat /\ Len(snaps) <= MaxSnapshots /\ last \in 0..Len(snaps)
    BY DEF TypeOK
  <2>2. QED
    BY <2>1, SparkBounds, RoomForSnapshots DEF TypeOK
<1>1. cancel' = cancel /\ registers' = registers
  BY DEF Acts, AskQuery, AskReconnect, Progress, Recheck, Acquire, OpenSession, OpenFails,
         KeepSocket, ClearAborted, SetConnected, RegisterViews, Enter, ReuseSnapshot,
         NameSnapshot, NoConnection, Send, ViewRegistered, ViewFails, Answer, StatementFails,
         TransportFails, Blame, Close, CloseLocked, connection
<1>2. \E r : Does(r)
  <2>1. ASSUME NEW reuse \in BOOLEAN, AskQuery(u, reuse) PROVE \E r : Does(r)
    <3> DEFINE r == [New EXCEPT !.pc = IF connected THEN "enter" ELSE "connect",
                               !.reuse = reuse, !.before = Len(snaps)]
    <3>1. r \in User
      BY <1>0, <1>a DEF User
    <3>2. QED
      BY <2>1, <3>1 DEF AskQuery
  <2>2. CASE AskReconnect(u)
    <3> DEFINE r == [New EXCEPT !.pc = "connect", !.goal = "reconnect"]
    <3>1. r \in User
      BY <1>0 DEF User
    <3>2. QED
      BY <2>2, <3>1 DEF AskReconnect
  <2>3. CASE Recheck(u)
    <3> DEFINE r == IF user[u].goal = "reconnect" THEN [New EXCEPT !.pc = "done"]
                    ELSE IF connected THEN [user[u] EXCEPT !.pc = "enter"]
                    ELSE [New EXCEPT !.pc = "done", !.out = "failed"]
    <3>1. r \in User
      BY <1>0 DEF User
    <3>2. QED
      BY <2>3, <3>1 DEF Recheck
  <2>4. ASSUME NEW pc \in {"new", "done", "connect", "opening", "opened", "kept", "cleared",
                           "register", "recheck", "enter", "choose", "ddl", "ddling",
                           "execute", "running", "blame", "closing"}, Goes(u, pc)
        PROVE  \E r : Does(r)
    <3>1. [user[u] EXCEPT !.pc = pc] \in User
      BY <1>0 DEF User
    <3>2. QED
      BY <2>4, <3>1 DEF Goes
  <2>5. ASSUME NEW out \in {"none", "rows", "cancelled", "quiet", "failed"}, Ends(u, out)
        PROVE  \E r : Does(r)
    BY <2>5, NewType DEF Ends
  <2>6. CASE \/ Acquire(u) \/ OpenSession(u) \/ OpenFails(u) \/ KeepSocket(u) \/ ClearAborted(u)
             \/ SetConnected(u) \/ RegisterViews(u) \/ Enter(u)
    <3>1. \E pc \in {"opening", "opened", "recheck", "kept", "cleared", "register", "execute",
                     "choose"} : Goes(u, pc)
      BY <2>6 DEF Acquire, OpenSession, OpenFails, KeepSocket, ClearAborted, SetConnected,
                  RegisterViews, Enter
    <3>2. QED
      BY <2>4, <3>1
  <2>7. CASE ReuseSnapshot(u)
    <3> DEFINE r == [user[u] EXCEPT !.pc = "ddl", !.snap = last, !.chosen = clock]
    <3>1. r \in User
      BY <1>0, <1>a DEF User
    <3>2. QED
      BY <2>7, <3>1 DEF ReuseSnapshot
  <2>8. CASE NameSnapshot(u)
    <3> DEFINE r == [user[u] EXCEPT !.pc = "ddl", !.chosen = clock]
    <3>1. r \in User
      BY <1>0 DEF TypeOK, User
    <3>2. QED
      BY <2>8, <3>1 DEF NameSnapshot
  <2>9. CASE Send(u)
    <3> DEFINE r == [user[u] EXCEPT !.pc = IF user[u].pc = "ddl" THEN "ddling" ELSE "running",
                                    !.on = conn, !.since = clock]
    <3>1. r \in User
      BY <1>0 DEF TypeOK, User
    <3>2. QED
      BY <2>9, <3>1 DEF Send
  <2>10. CASE StatementFails(u) \/ TransportFails(u) \/ Blame(u)
    <3>1. [user[u] EXCEPT !.pc = "register", !.since = 0, !.retry = TRUE] \in User
      BY <1>0, <1>a DEF User
    <3>2. [user[u] EXCEPT !.pc = "blame", !.since = 0, !.cut = user[u].on \in seen.cut] \in User
      <4>1. (user[u].on \in seen.cut) \in BOOLEAN
        OBVIOUS
      <4>2. QED
        BY <1>0, <1>a, <4>1 DEF User
    <3>3. [user[u] EXCEPT !.pc = "closing", !.cancelled = aborted] \in User
      BY <1>0 DEF TypeOK, User
    <3>4. QED
      BY <2>10, <2>5, <3>1, <3>2, <3>3 DEF StatementFails, TransportFails, Blame
  <2>11. CASE NoConnection(u) \/ ViewFails(u) \/ Answer(u) \/ Close(u)
    BY <2>5, <2>11 DEF NoConnection, ViewFails, Answer, Close
  <2>12. CASE ViewRegistered(u)
    <3>1. u \in Users \ Past /\ ~registers
      BY <2>12 DEF ViewRegistered, Past, LocksAreHeld
    <3>2. Len(snaps) + 1 \in 0..MaxSnapshots
      BY <1>a, <3>1, RoomForSnapshots DEF SnapshotsAge
    <3> DEFINE s == IF user[u].snap = 0 THEN Len(snaps) + 1 ELSE user[u].snap
               r == [user[u] EXCEPT !.pc = "execute", !.snap = s, !.since = 0]
    <3>3. s \in 0..MaxSnapshots
      BY <1>0, <3>2 DEF User
    <3>4. Becomes(u, r)
      BY <2>12 DEF ViewRegistered
    <3> HIDE DEF s
    <3>5. r \in User
      BY <1>0, <1>a, <3>3 DEF User
    <3>6. QED
      BY <3>4, <3>5
  <2>13. QED
    BY <2>1, <2>2, <2>3, <2>6, <2>7, <2>8, <2>9, <2>10, <2>11, <2>12 DEF Acts, Progress
<1>3. QED
  BY <1>1, <1>2, BecomesIs

-----------------------------------------------------------------------------
(* SparkClient: what a request's thread keeps *)

\* What Goes does to the record.
LEMMA GoesIs ==
  ASSUME TypeOK, NEW u \in Users, NEW pc, Goes(u, pc)
  PROVE  /\ user'[u].pc = pc
         /\ user'[u].goal = user[u].goal /\ user'[u].reuse = user[u].reuse
         /\ user'[u].retry = user[u].retry /\ user'[u].on = user[u].on
         /\ user'[u].snap = user[u].snap /\ user'[u].before = user[u].before
         /\ user'[u].chosen = user[u].chosen /\ user'[u].cancelled = user[u].cancelled
         /\ user'[u].cut = user[u].cut /\ user'[u].flagged = user[u].flagged
<1>1. user[u] \in User /\ user \in [Users -> User]
  BY DEF TypeOK
<1>2. user'[u] = [user[u] EXCEPT !.pc = pc]
  BY <1>1 DEF Goes, Becomes
<1>3. QED
  BY <1>1, <1>2 DEF User

\* And what Ends does.
LEMMA EndsIs ==
  ASSUME TypeOK, NEW u \in Users, NEW out, Ends(u, out)
  PROVE  /\ user'[u].pc = "done" /\ user'[u].out = out
         /\ user'[u].retry = FALSE /\ user'[u].snap = 0 /\ user'[u].before = 0
         /\ user'[u].chosen = 0 /\ user'[u].cut = FALSE
         /\ queryLock' = IF queryLock = u THEN NoThread ELSE queryLock
<1>1. user \in [Users -> User]
  BY DEF TypeOK
<1>2. user'[u] = [New EXCEPT !.pc = "done", !.out = out]
  BY <1>1 DEF Ends, Becomes
<1>3. queryLock' = IF queryLock = u THEN NoThread ELSE queryLock
  BY DEF Ends
<1>4. QED
  BY <1>2, <1>3 DEF New

\* A request begins, or is over before it has begun.
LEMMA AskIs ==
  ASSUME TypeOK, NEW u \in Users,
         (\E reuse \in BOOLEAN : AskQuery(u, reuse)) \/ AskReconnect(u)
  PROVE  /\ user'[u].pc \in {"enter", "connect"} /\ user[u].pc = "new"
         /\ user'[u].retry = FALSE /\ user'[u].snap = 0 /\ user'[u].before \in {0, Len(snaps)}
         /\ user'[u].chosen = 0 /\ user'[u].cut = FALSE
         /\ UNCHANGED <<connection, lock, queryLock, spark, snapshots, seen>>
<1>1. user \in [Users -> User]
  BY DEF TypeOK
<1>2. ASSUME NEW reuse \in BOOLEAN, AskQuery(u, reuse)
      PROVE  user'[u] = [New EXCEPT !.pc = IF connected THEN "enter" ELSE "connect",
                                    !.reuse = reuse, !.before = Len(snaps)]
  BY <1>1, <1>2 DEF AskQuery, Becomes
<1>3. AskReconnect(u) => user'[u] = [New EXCEPT !.pc = "connect", !.goal = "reconnect"]
  BY <1>1 DEF AskReconnect, Becomes
<1>4. user[u].pc = "new" /\ UNCHANGED <<connection, lock, queryLock, spark, snapshots, seen>>
  BY DEF AskQuery, AskReconnect
<1>5. QED
  BY <1>2, <1>3, <1>4 DEF New

\* A request that has asked for a connection goes on with it or ends.
LEMMA RecheckIs ==
  ASSUME TypeOK, NEW u \in Users, Recheck(u)
  PROVE  /\ user'[u].pc \in {"done", "enter"} /\ user[u].pc = "recheck"
         /\ user'[u].pc = "done" =>
              /\ user'[u].retry = FALSE /\ user'[u].snap = 0 /\ user'[u].before = 0
              /\ user'[u].chosen = 0 /\ user'[u].cut = FALSE
              /\ user'[u].out \in {"none", "failed"}
         /\ user'[u].pc = "enter" => Goes(u, "enter")
         /\ UNCHANGED <<connection, lock, queryLock, spark, snapshots, seen>>
<1>1. user \in [Users -> User] /\ user[u] \in User
  BY DEF TypeOK
<1>2. user[u].pc = "recheck" /\ UNCHANGED <<connection, lock, queryLock, spark, snapshots, seen>>
  BY DEF Recheck
<1>3. \/ user'[u] = [New EXCEPT !.pc = "done"]
      \/ Goes(u, "enter")
      \/ user'[u] = [New EXCEPT !.pc = "done", !.out = "failed"]
  BY <1>1 DEF Recheck, Becomes, Goes
<1>4. Goes(u, "enter") => user'[u].pc = "enter"
  BY GoesIs
<1>5. QED
  BY <1>2, <1>3, <1>4 DEF New

\* A snapshot is reused.
LEMMA ReuseIs ==
  ASSUME TypeOK, NEW u \in Users, ReuseSnapshot(u)
  PROVE  /\ user'[u].pc = "ddl" /\ user'[u].snap = last /\ user'[u].chosen = clock
         /\ user'[u].retry = user[u].retry /\ user'[u].reuse = user[u].reuse
         /\ user'[u].on = user[u].on /\ user'[u].before = user[u].before
         /\ user'[u].cancelled = user[u].cancelled /\ user'[u].cut = user[u].cut
         /\ user'[u].flagged = user[u].flagged
<1>1. user[u] \in User /\ user \in [Users -> User]
  BY DEF TypeOK
<1>2. user'[u] = [user[u] EXCEPT !.pc = "ddl", !.snap = last, !.chosen = clock]
  BY <1>1 DEF ReuseSnapshot, Becomes
<1>3. QED
  BY <1>1, <1>2 DEF User

\* A snapshot is named.
LEMMA NameIs ==
  ASSUME TypeOK, NEW u \in Users, NameSnapshot(u)
  PROVE  /\ user'[u].pc = "ddl" /\ user'[u].chosen = clock
         /\ user'[u].retry = user[u].retry /\ user'[u].reuse = user[u].reuse
         /\ user'[u].on = user[u].on /\ user'[u].snap = user[u].snap
         /\ user'[u].before = user[u].before /\ user'[u].cancelled = user[u].cancelled
         /\ user'[u].cut = user[u].cut /\ user'[u].flagged = user[u].flagged
<1>1. user[u] \in User /\ user \in [Users -> User]
  BY DEF TypeOK
<1>2. user'[u] = [user[u] EXCEPT !.pc = "ddl", !.chosen = clock]
  BY <1>1 DEF NameSnapshot, Becomes
<1>3. QED
  BY <1>1, <1>2 DEF User

\* A statement is sent.
LEMMA SendIs ==
  ASSUME TypeOK, NEW u \in Users, Send(u)
  PROVE  /\ user'[u].pc = (IF user[u].pc = "ddl" THEN "ddling" ELSE "running") /\ user'[u].on = conn
         /\ user'[u].retry = user[u].retry /\ user'[u].reuse = user[u].reuse
         /\ user'[u].snap = user[u].snap /\ user'[u].before = user[u].before
         /\ user'[u].chosen = user[u].chosen /\ user'[u].cancelled = user[u].cancelled
         /\ user'[u].cut = user[u].cut /\ user'[u].flagged = user[u].flagged
<1>1. user[u] \in User /\ user \in [Users -> User]
  BY DEF TypeOK
<1>2. user'[u] = [user[u] EXCEPT !.pc = IF user[u].pc = "ddl" THEN "ddling" ELSE "running",
                                !.on = conn, !.since = clock]
  BY <1>1 DEF Send, Becomes
<1>3. QED
  BY <1>1, <1>2 DEF User

\* A view is registered.
LEMMA RegisteredIs ==
  ASSUME TypeOK, NEW u \in Users, ViewRegistered(u)
  PROVE  /\ user'[u].pc = "execute"
         /\ user'[u].snap = (IF user[u].snap = 0 THEN Len(snaps) + 1 ELSE user[u].snap)
         /\ user'[u].retry = user[u].retry /\ user'[u].reuse = user[u].reuse
         /\ user'[u].on = user[u].on /\ user'[u].before = user[u].before
         /\ user'[u].chosen = user[u].chosen /\ user'[u].cancelled = user[u].cancelled
         /\ user'[u].cut = user[u].cut /\ user'[u].flagged = user[u].flagged
<1>1. user[u] \in User /\ user \in [Users -> User]
  BY DEF TypeOK
<1>2. user'[u] = [user[u] EXCEPT !.pc = "execute",
                 !.snap = (IF user[u].snap = 0 THEN Len(snaps) + 1 ELSE user[u].snap), !.since = 0]
  BY <1>1 DEF ViewRegistered, Becomes
<1>3. QED
  BY <1>1, <1>2 DEF User

\* A failed statement is worth another try.
LEMMA RetryIs ==
  ASSUME TypeOK, NEW u \in Users, StatementFails(u), registers, ViewOf(u) = 0, ~user[u].retry
  PROVE  /\ user'[u].pc = "register" /\ queryLock' = queryLock
         /\ user'[u].reuse = user[u].reuse /\ user'[u].on = user[u].on
         /\ user'[u].snap = user[u].snap /\ user'[u].before = user[u].before
         /\ user'[u].chosen = user[u].chosen /\ user'[u].cancelled = user[u].cancelled
         /\ user'[u].cut = user[u].cut /\ user'[u].flagged = user[u].flagged
<1>1. user[u] \in User /\ user \in [Users -> User]
  BY DEF TypeOK
<1>2. user'[u] = [user[u] EXCEPT !.pc = "register", !.since = 0, !.retry = TRUE]
  BY <1>1 DEF StatementFails, Becomes
<1>3. queryLock' = queryLock
  BY DEF StatementFails
<1>4. QED
  BY <1>1, <1>2, <1>3 DEF User

\* A lost answer is to be blamed on somebody.
LEMMA TransportIs ==
  ASSUME TypeOK, NEW u \in Users, TransportFails(u), ~user[u].retry
  PROVE  /\ user'[u].pc = "blame" /\ queryLock' = queryLock /\ user'[u].cut = (user[u].on \in seen.cut)
         /\ user'[u].retry = user[u].retry /\ user'[u].reuse = user[u].reuse
         /\ user'[u].on = user[u].on /\ user'[u].snap = user[u].snap
         /\ user'[u].before = user[u].before /\ user'[u].chosen = user[u].chosen
         /\ user'[u].cancelled = user[u].cancelled /\ user'[u].flagged = user[u].flagged
<1>1. user[u] \in User /\ user \in [Users -> User]
  BY DEF TypeOK
<1>2. user'[u] = [user[u] EXCEPT !.pc = "blame", !.since = 0, !.cut = user[u].on \in seen.cut]
  BY <1>1 DEF TransportFails, Becomes
<1>3. queryLock' = queryLock
  BY DEF TransportFails
<1>4. QED
  BY <1>1, <1>2, <1>3 DEF User

\* The connector blames before it closes.
LEMMA BlameIs ==
  ASSUME TypeOK, NEW u \in Users, Blame(u), registers
  PROVE  /\ user'[u].pc = "closing" /\ queryLock' = queryLock /\ user'[u].cancelled = aborted
         /\ user'[u].retry = user[u].retry /\ user'[u].reuse = user[u].reuse
         /\ user'[u].on = user[u].on /\ user'[u].snap = user[u].snap
         /\ user'[u].before = user[u].before /\ user'[u].chosen = user[u].chosen
         /\ user'[u].cut = user[u].cut /\ user'[u].flagged = user[u].flagged
<1>1. user[u] \in User /\ user \in [Users -> User]
  BY DEF TypeOK
<1>2. user'[u] = [user[u] EXCEPT !.pc = "closing", !.cancelled = aborted]
  BY <1>1 DEF Blame, Becomes
<1>3. queryLock' = queryLock
  BY DEF Blame
<1>4. QED
  BY <1>1, <1>2, <1>3 DEF User

\* The locks of the others are left alone by a thread that takes a lock only when it
\* is free and releases only its own.
LEMMA LocksFrame ==
  ASSUME TypeOK, LocksAreHeld, NEW u \in Users, registers' = registers,
         \A v \in Users : v # u => user'[v] = user[v],
         lock' = lock \/ lock \in {u, NoThread},
         queryLock' = queryLock \/ queryLock \in {u, NoThread},
         user'[u].pc \in Holding => lock' = u,
         ~registers /\ user'[u].pc \in Querying => queryLock' = u,
         registers => user'[u].pc \notin {"choose", "ddl", "ddling"},
         ~registers => user'[u].pc \notin {"register", "closing"} /\ ~user'[u].retry
  PROVE  LocksAreHeld'
<1> SUFFICES ASSUME NEW v \in Users
             PROVE  /\ user'[v].pc \in Holding => lock' = v
                    /\ ~registers /\ user'[v].pc \in Querying => queryLock' = v
                    /\ registers => user'[v].pc \notin {"choose", "ddl", "ddling"}
                    /\ ~registers => user'[v].pc \notin {"register", "closing"} /\ ~user'[v].retry
  BY DEF LocksAreHeld
<1>1. NoThread # v
  BY SparkBounds
<1>2. CASE v # u
  BY <1>1, <1>2 DEF LocksAreHeld
<1>3. CASE v = u
  BY <1>3
<1>4. QED
  BY <1>2, <1>3

\* A thread that releases a lock held it, and one that takes it found it free.
LEMMA ActsKeepsLocks ==
  ASSUME SparkInv, NEW u \in Users, Acts(u)
  PROVE  LocksAreHeld'
<1>0. TypeOK /\ LocksAreHeld /\ SnapshotsAge
  BY DEF SparkInv
<1>a. /\ registers' = registers /\ \A v \in Users : v # u => user'[v] = user[v]
  BY <1>0, ActsIsOwn
<1>b. /\ user[u].pc \in Holding => lock = u
      /\ ~registers /\ user[u].pc \in Querying => queryLock = u
      /\ registers => user[u].pc \notin {"choose", "ddl", "ddling"}
      /\ ~registers => user[u].pc \notin {"register", "closing"} /\ ~user[u].retry
  BY <1>0 DEF LocksAreHeld
<1>c. user \in [Users -> User] /\ user[u] \in User /\ registers \in BOOLEAN /\ NoThread # u
  BY <1>0, SparkBounds DEF TypeOK
<1> DEFINE Good ==
      /\ lock' = lock \/ lock \in {u, NoThread}
      /\ queryLock' = queryLock \/ queryLock \in {u, NoThread}
      /\ user'[u].pc \in Holding => lock' = u
      /\ ~registers /\ user'[u].pc \in Querying => queryLock' = u
      /\ registers => user'[u].pc \notin {"choose", "ddl", "ddling"}
      /\ ~registers => user'[u].pc \notin {"register", "closing"} /\ ~user'[u].retry
<1> SUFFICES Good
  BY <1>0, <1>a, LocksFrame
<1>1. ASSUME NEW out, Ends(u, out), lock' = lock \/ lock = u PROVE Good
  BY <1>0, <1>1, EndsIs DEF Holding, Querying
<1>2. CASE (\E reuse \in BOOLEAN : AskQuery(u, reuse)) \/ AskReconnect(u)
  <2>1. /\ user'[u].pc \in {"enter", "connect"} /\ user'[u].retry = FALSE
        /\ lock' = lock /\ queryLock' = queryLock
    BY <1>0, <1>2, AskIs
  <2>2. QED
    BY <2>1 DEF Holding, Querying
<1>4. CASE Recheck(u)
  <2>1. user'[u].pc \in {"done", "enter"} /\ lock' = lock /\ queryLock' = queryLock
        /\ user'[u].retry \in {FALSE, user[u].retry}
    BY <1>0, <1>4, RecheckIs, GoesIs
  <2>2. QED
    BY <1>b, <2>1 DEF Holding, Querying
<1>5. CASE Acquire(u)
  <2>1. user'[u].pc = "opening" /\ user'[u].retry = user[u].retry
    BY <1>0, <1>5, GoesIs DEF Acquire
  <2>2. QED
    BY <1>b, <1>5, <2>1 DEF Acquire, Holding, Querying
<1>6. CASE OpenSession(u) \/ KeepSocket(u) \/ ClearAborted(u)
  <2>1. /\ user'[u].pc \in {"opened", "kept", "cleared"} /\ user'[u].retry = user[u].retry
        /\ user[u].pc \in Holding /\ lock' = lock /\ queryLock' = queryLock
    BY <1>0, <1>6, GoesIs DEF OpenSession, KeepSocket, ClearAborted, Holding
  <2>2. QED
    BY <1>b, <2>1 DEF Holding, Querying
<1>7. CASE OpenFails(u) \/ SetConnected(u)
  <2>1. /\ user'[u].pc \in {"recheck", "register"} /\ user'[u].retry = user[u].retry
        /\ (~registers => user'[u].pc = "recheck")
        /\ user[u].pc \in Holding /\ queryLock' = queryLock
    BY <1>0, <1>7, GoesIs DEF OpenFails, SetConnected, Holding
  <2>2. QED
    BY <1>b, <2>1 DEF Holding, Querying
<1>8. CASE RegisterViews(u)
  <2>1. /\ user'[u].pc \in {"execute", "recheck"} /\ user[u].pc = "register"
        /\ lock' = lock /\ queryLock' = queryLock
    BY <1>0, <1>8, GoesIs DEF RegisterViews
  <2>2. QED
    BY <1>b, <2>1 DEF Holding, Querying
<1>9. CASE Enter(u)
  <2>1. /\ user'[u].pc = (IF registers THEN "execute" ELSE "choose") /\ lock' = lock
        /\ user'[u].retry = user[u].retry
        /\ (registers => queryLock' = queryLock)
        /\ (~registers => queryLock' = u /\ queryLock = NoThread)
    BY <1>0, <1>9, GoesIs DEF Enter
  <2>2. QED
    BY <1>b, <2>1 DEF Holding, Querying
<1>10. CASE ReuseSnapshot(u) \/ NameSnapshot(u)
  <2>1. /\ user'[u].pc = "ddl" /\ user'[u].retry = user[u].retry /\ user[u].pc = "choose"
        /\ lock' = lock /\ queryLock' = queryLock
    BY <1>0, <1>10, ReuseIs, NameIs DEF ReuseSnapshot, NameSnapshot
  <2>2. QED
    BY <1>b, <2>1 DEF Holding, Querying
<1>11. CASE Send(u)
  <2>1. /\ user'[u].pc = (IF user[u].pc = "ddl" THEN "ddling" ELSE "running")
        /\ user'[u].retry = user[u].retry
    BY <1>0, <1>11, SendIs
  <2>2. user[u].pc \in {"ddl", "execute"} /\ lock = NoThread /\ lock' = u /\ queryLock' = queryLock
    BY <1>11 DEF Send
  <2>3. QED
    BY <1>b, <2>1, <2>2 DEF Holding, Querying
<1>12. CASE ViewRegistered(u)
  <2>1. /\ user'[u].pc = "execute" /\ user'[u].retry = user[u].retry /\ user[u].pc = "ddling"
        /\ lock' = NoThread /\ queryLock' = queryLock
    BY <1>0, <1>12, RegisteredIs DEF ViewRegistered
  <2>2. QED
    BY <1>b, <2>1 DEF Holding, Querying
<1>13. CASE StatementFails(u)
  <2>1. user[u].pc = "running" /\ lock' = NoThread
    BY <1>13 DEF StatementFails, Working
  <2>2. CASE registers /\ ViewOf(u) = 0 /\ ~user[u].retry
    <3>1. user'[u].pc = "register" /\ queryLock' = queryLock
      BY <1>0, <1>13, <2>2, RetryIs
    <3>2. QED
      BY <1>b, <2>1, <2>2, <3>1 DEF Holding, Querying
  <2>3. CASE ~(registers /\ ViewOf(u) = 0 /\ ~user[u].retry)
    BY <1>1, <1>13, <1>b, <2>1, <2>3 DEF StatementFails, Holding
  <2>4. QED
    BY <2>2, <2>3
<1>14. CASE TransportFails(u)
  <2>1. user[u].pc = "running" /\ lock' = NoThread
    BY <1>14 DEF TransportFails
  <2>2. CASE ~user[u].retry
    <3>1. user'[u].pc = "blame" /\ queryLock' = queryLock /\ user'[u].retry = user[u].retry
      BY <1>0, <1>14, <2>2, TransportIs
    <3>2. QED
      BY <1>b, <2>1, <2>2, <3>1 DEF Holding, Querying
  <2>3. CASE user[u].retry
    BY <1>1, <1>14, <1>b, <2>1, <2>3 DEF TransportFails, Holding
  <2>4. QED
    BY <2>2, <2>3
<1>15. CASE Blame(u)
  <2>1. user[u].pc = "blame" /\ lock' = lock
    BY <1>15 DEF Blame
  <2>2. CASE registers
    <3>1. user'[u].pc = "closing" /\ queryLock' = queryLock
      BY <1>0, <1>15, <2>2, BlameIs
    <3>2. QED
      BY <1>b, <2>1, <2>2, <3>1 DEF Holding, Querying
  <2>3. CASE ~registers
    BY <1>1, <1>15, <2>1, <2>3 DEF Blame
  <2>4. QED
    BY <2>2, <2>3
<1>16. CASE NoConnection(u) \/ ViewFails(u) \/ Answer(u) \/ Close(u)
  <2>1. (\E out : Ends(u, out)) /\ (lock' = lock \/ user[u].pc \in Holding)
    BY <1>16 DEF NoConnection, ViewFails, Answer, Close, Working, Holding
  <2>2. QED
    BY <1>1, <1>b, <2>1
<1>17. QED
  BY <1>2, <1>4, <1>5, <1>6, <1>7, <1>8, <1>9, <1>10, <1>11, <1>12, <1>13, <1>14, <1>15, <1>16
     DEF Acts, Progress

\* The steps that touch the thread's record and the locks only.
Quiet(u) ==
    \/ \E reuse \in BOOLEAN : AskQuery(u, reuse)
    \/ AskReconnect(u) \/ Recheck(u) \/ Acquire(u) \/ Enter(u)
    \/ ReuseSnapshot(u) \/ NameSnapshot(u) \/ NoConnection(u) \/ ViewFails(u)
    \/ TransportFails(u) \/ Blame(u)

\* All the others, by what they touch.
LEMMA ActsSplit ==
  ASSUME NEW u \in Users, Acts(u)
  PROVE  \/ Quiet(u) \/ OpenSession(u) \/ OpenFails(u) \/ Close(u) \/ KeepSocket(u)
         \/ ClearAborted(u) \/ SetConnected(u) \/ RegisterViews(u) \/ Send(u)
         \/ ViewRegistered(u) \/ Answer(u) \/ StatementFails(u)
  BY DEF Acts, Progress, Quiet

\* What a quiet step leaves alone.
LEMMA QuietFrame ==
  ASSUME NEW u \in Users, Quiet(u)
  PROVE  UNCHANGED <<opened, conn, sock, aborted, connected, shut, views, jobs, last, snaps,
                     clock, seen>>
<1>1. UNCHANGED <<connection, spark, snapshots, seen>>
  BY DEF Quiet, AskQuery, AskReconnect, Recheck, Acquire, Enter, ReuseSnapshot, NameSnapshot,
         NoConnection, ViewFails, TransportFails, Blame
<1>2. QED
  BY <1>1 DEF connection, spark, snapshots

\* Types, of everything but the records.
LEMMA ActsKeepsTypes ==
  ASSUME SparkInv, NEW u \in Users, Acts(u)
  PROVE  TypeOK'
<1>0. TypeOK /\ LocksAreHeld /\ SnapshotsAge
  BY DEF SparkInv
<1>a. /\ user' \in [Users -> User] /\ cancel' \in [Cancels -> Cancel] /\ registers' \in BOOLEAN
      /\ registers' = registers
  BY <1>0, ActsIsOwn DEF TypeOK
<1>b. lock' \in Users \cup {NoThread} /\ queryLock' \in Users \cup {NoThread}
  <2>1. lock \in Users \cup {NoThread} /\ queryLock \in Users \cup {NoThread}
    BY <1>0 DEF TypeOK
  <2>2. lock' \in {lock, u, NoThread}
    BY DEF Acts, AskQuery, AskReconnect, Progress, Recheck, Acquire, OpenSession, OpenFails,
           KeepSocket, ClearAborted, SetConnected, RegisterViews, Enter, ReuseSnapshot,
           NameSnapshot, NoConnection, Send, ViewRegistered, ViewFails, Answer, StatementFails,
           TransportFails, Blame, Close
  <2>3. queryLock' \in {queryLock, u, NoThread}
    BY DEF Acts, AskQuery, AskReconnect, Progress, Recheck, Acquire, OpenSession, OpenFails,
           KeepSocket, ClearAborted, SetConnected, RegisterViews, Enter, ReuseSnapshot,
           NameSnapshot, NoConnection, Send, ViewRegistered, ViewFails, Answer, StatementFails,
           TransportFails, Blame, Close, Ends
  <2>4. QED
    BY <2>1, <2>2, <2>3
<1>c. /\ aborted \in BOOLEAN /\ connected \in BOOLEAN
      /\ conn \in 0..MaxConns /\ sock \in 0..MaxConns /\ opened \in 0..MaxConns /\ MaxConns \in Nat
      /\ shut \subseteq Conns /\ jobs \subseteq Conns /\ views \in [Conns -> 0..MaxSnapshots]
      /\ snaps \in Seq(Snapshot) /\ Len(snaps) \in Nat /\ Len(snaps) <= MaxSnapshots
      /\ last \in 0..Len(snaps) /\ clock \in 0..MaxClock
      /\ seen \in [flagged : SUBSET Conns, cut : SUBSET Conns, wiped : SUBSET Conns,
                   asked : SUBSET (0..MaxConns)]
      /\ user[u] \in User /\ MaxSnapshots \in Nat /\ MaxSnapshots >= 1
  BY <1>0, SparkBounds, RoomForSnapshots DEF TypeOK, Snapshot
<1> DEFINE Rest ==
      /\ aborted' \in BOOLEAN /\ connected' \in BOOLEAN
      /\ conn' \in 0..MaxConns /\ sock' \in 0..MaxConns /\ opened' \in 0..MaxConns
      /\ shut' \subseteq Conns /\ jobs' \subseteq Conns /\ views' \in [Conns -> 0..MaxSnapshots]
      /\ snaps' \in Seq(Snapshot) /\ Len(snaps') <= MaxSnapshots
      /\ last' \in 0..Len(snaps') /\ clock' \in 0..MaxClock
      /\ seen' \in [flagged : SUBSET Conns, cut : SUBSET Conns, wiped : SUBSET Conns,
                    asked : SUBSET (0..MaxConns)]
<1> SUFFICES Rest
  BY <1>a, <1>b DEF TypeOK, Snapshot
<1>1. CASE Quiet(u)
  BY <1>1, <1>c, QuietFrame
<1>2. CASE OpenSession(u)
  <2>1. opened' = opened + 1 /\ conn' = opened + 1 /\ opened + 1 \in 0..MaxConns
    BY <1>2, <1>c DEF OpenSession
  <2>2. UNCHANGED <<sock, aborted, connected, shut, views, jobs, last, snaps, clock, seen>>
    BY <1>2 DEF OpenSession, spark, snapshots
  <2>3. QED
    BY <1>c, <2>1, <2>2
<1>3. CASE OpenFails(u) \/ Close(u)
  <2>1. conn' = 0 /\ sock' = 0 /\ connected' = FALSE /\ shut' = shut \cup ({conn} \ {0})
        /\ UNCHANGED <<opened, aborted, views, jobs, last, snaps, clock, seen>>
    BY <1>3 DEF OpenFails, Close, CloseLocked, snapshots
  <2>2. shut' \subseteq Conns
    BY <1>c, <2>1 DEF Conns
  <2>3. 0 \in 0..MaxConns
    BY <1>c
  <2>4. QED
    BY <1>c, <2>1, <2>2, <2>3
<1>4. CASE KeepSocket(u)
  <2>1. sock' = conn
        /\ UNCHANGED <<opened, conn, aborted, connected, shut, views, jobs, last, snaps, clock, seen>>
    BY <1>4 DEF KeepSocket, spark, snapshots
  <2>2. QED
    BY <1>c, <2>1
<1>5. CASE ClearAborted(u)
  <2>1. aborted' = FALSE /\ seen' = [seen EXCEPT !.wiped = seen.wiped \cup seen.flagged]
        /\ UNCHANGED <<opened, conn, sock, connected, shut, views, jobs, last, snaps, clock>>
    BY <1>5 DEF ClearAborted, spark, snapshots
  <2>2. seen' \in [flagged : SUBSET Conns, cut : SUBSET Conns, wiped : SUBSET Conns,
                   asked : SUBSET (0..MaxConns)]
    BY <1>c, <2>1
  <2>3. QED
    BY <1>c, <2>1, <2>2
<1>6. CASE SetConnected(u)
  <2>1. connected' = TRUE
        /\ UNCHANGED <<opened, conn, sock, aborted, shut, views, jobs, last, snaps, clock, seen>>
    BY <1>6 DEF SetConnected, spark, snapshots
  <2>2. QED
    BY <1>c, <2>1
<1>7. CASE RegisterViews(u)
  <2>1. UNCHANGED <<opened, conn, sock, aborted, connected, shut, jobs, last, snaps, clock, seen>>
    BY <1>7 DEF RegisterViews, connection, snapshots
  <2>2. views' = views \/ views' = [views EXCEPT ![conn] = 1]
    BY <1>7 DEF RegisterViews
  <2>3. views' \in [Conns -> 0..MaxSnapshots]
    <3>1. 1 \in 0..MaxSnapshots
      BY <1>c
    <3>2. QED
      BY <1>c, <2>2, <3>1
  <2>4. QED
    BY <1>c, <2>1, <2>3
<1>8. CASE Send(u) \/ Answer(u) \/ StatementFails(u)
  <2>1. UNCHANGED <<opened, conn, sock, aborted, connected, shut, views, last, snaps, clock, seen>>
    BY <1>8 DEF Send, Answer, StatementFails, connection, snapshots
  <2>2. jobs' \subseteq jobs \cup ({conn} \ {0})
    BY <1>8 DEF Send, Answer, StatementFails
  <2>3. jobs' \subseteq Conns
    BY <1>c, <2>2 DEF Conns
  <2>4. QED
    BY <1>c, <2>1, <2>3
<1>9. CASE ViewRegistered(u)
  <2> DEFINE s == IF user[u].snap = 0 THEN Len(snaps) + 1 ELSE user[u].snap
             new == [stamp |-> user[u].chosen, born |-> clock, gone |-> "no"]
  <2>1. UNCHANGED <<opened, conn, sock, aborted, connected, shut, jobs, clock, seen>>
    BY <1>9 DEF ViewRegistered, connection
  <2>2. /\ snaps' = IF user[u].snap = 0 THEN Append(snaps, new) ELSE snaps
        /\ views' = [views EXCEPT ![user[u].on] = s] /\ last' = s
    BY <1>9 DEF ViewRegistered
  <2>3. u \in Users \ Past /\ ~registers
    BY <1>0, <1>9 DEF ViewRegistered, Past, LocksAreHeld
  <2>4. Len(snaps) + 1 <= MaxSnapshots
    BY <1>0, <1>c, <2>3, RoomForSnapshots DEF SnapshotsAge
  <2>5. new \in Snapshot
    BY <1>c DEF Snapshot, User
  <2> HIDE DEF new
  <2>6. /\ snaps' \in Seq(Snapshot) /\ Len(snaps') <= MaxSnapshots /\ s \in 0..MaxSnapshots
        /\ s \in 0..Len(snaps')
    <3>1. CASE user[u].snap = 0
      BY <1>c, <2>2, <2>4, <2>5, <3>1
    <3>2. CASE user[u].snap # 0
      <4>1. user[u].snap <= Len(snaps) /\ user[u].snap \in Nat
        BY <1>c DEF SparkInv, SnapshotsAreChosen, User
      <4>2. QED
        BY <1>c, <2>2, <3>2, <4>1
    <3>3. QED
      BY <3>1, <3>2
  <2> HIDE DEF s
  <2>7. views' \in [Conns -> 0..MaxSnapshots]
    BY <1>c, <2>2, <2>6
  <2>8. QED
    BY <1>c, <2>1, <2>2, <2>6, <2>7
<1>10. QED
  BY <1>1, <1>2, <1>3, <1>4, <1>5, <1>6, <1>7, <1>8, <1>9, ActsSplit

\* Connections are numbered as they are opened.
LEMMA ActsKeepsConns ==
  ASSUME SparkInv, NEW u \in Users, Acts(u)
  PROVE  ConnsAreNew'
<1>0. TypeOK /\ LocksAreHeld /\ ConnsAreNew /\ ViewsAreOwn
  BY DEF SparkInv
<1>c. /\ conn \in 0..MaxConns /\ opened \in 0..MaxConns /\ MaxConns \in Nat
      /\ views \in [Conns -> 0..MaxSnapshots] /\ conn \in {0, opened}
      /\ \A n \in Conns : n > opened => views[n] = 0
      /\ \A n \in Conns : n \in Nat /\ n # 0
  BY <1>0, SparkBounds DEF TypeOK, ConnsAreNew, Conns
<1>1. CASE UNCHANGED <<opened, conn, views>>
  BY <1>1, <1>0 DEF ConnsAreNew
<1>2. CASE Quiet(u) \/ KeepSocket(u) \/ ClearAborted(u) \/ SetConnected(u) \/ Send(u)
           \/ Answer(u) \/ StatementFails(u)
  <2>1. UNCHANGED <<opened, conn, views>>
    BY <1>2, QuietFrame DEF KeepSocket, ClearAborted, SetConnected, Send, Answer, StatementFails,
                            connection, spark
  <2>2. QED
    BY <1>1, <2>1
<1>3. CASE OpenSession(u)
  <2>1. opened' = opened + 1 /\ conn' = opened + 1 /\ views' = views
    BY <1>3 DEF OpenSession, spark
  <2>2. QED
    BY <1>c, <2>1 DEF ConnsAreNew
<1>4. CASE OpenFails(u) \/ Close(u)
  <2>1. conn' = 0 /\ opened' = opened /\ views' = views
    BY <1>4 DEF OpenFails, Close, CloseLocked
  <2>2. QED
    BY <1>c, <2>1 DEF ConnsAreNew
<1>6. CASE RegisterViews(u)
  <2>1. views' \in {views, [views EXCEPT ![conn] = 1]} /\ UNCHANGED <<opened, conn>>
    BY <1>6 DEF RegisterViews, connection
  <2>2. ASSUME NEW m \in Conns, m > opened PROVE views'[m] = 0
    <3>1. m # conn
      BY <1>c, <2>2
    <3>2. QED
      BY <1>c, <2>1, <2>2, <3>1
  <2>3. QED
    BY <1>c, <2>1, <2>2 DEF ConnsAreNew
<1>7. CASE ViewRegistered(u)
  <2>1. user[u].on = opened
    BY <1>0, <1>7 DEF ViewRegistered, ViewsAreOwn, LocksAreHeld
  <2>2. PICK s : views' = [views EXCEPT ![opened] = s] /\ UNCHANGED <<opened, conn>>
    BY <1>7, <2>1 DEF ViewRegistered, connection
  <2>3. ASSUME NEW m \in Conns, m > opened PROVE views'[m] = 0
    <3>1. m # opened
      BY <1>c, <2>3
    <3>2. QED
      BY <1>c, <2>2, <2>3, <3>1
  <2>4. QED
    BY <1>c, <2>2, <2>3 DEF ConnsAreNew
<1>8. QED
  BY <1>2, <1>3, <1>4, <1>6, <1>7, ActsSplit

\* A request that is past taking a snapshot stays past it.
LEMMA PastGrows ==
  ASSUME SparkInv, NEW u \in Users, Acts(u), ~registers
  PROVE  /\ Past \subseteq Past' /\ (ViewRegistered(u) => u \in Past' \ Past)
         /\ IsFiniteSet(Past') /\ IsFiniteSet(Past)
<1>0. TypeOK /\ LocksAreHeld /\ SnapshotsAge
  BY DEF SparkInv
<1>a. /\ user' \in [Users -> User] /\ \A v \in Users : v # u => user'[v] = user[v]
  BY <1>0, ActsIsOwn
<1>b. user[u].pc \notin {"register", "closing"} /\ ~user[u].retry
  BY <1>0 DEF LocksAreHeld
<1> DEFINE Later == {"execute", "running", "blame", "closing", "done"}
<1>1. ViewRegistered(u) => user[u].pc = "ddling" /\ user'[u].pc = "execute"
  BY <1>0, RegisteredIs DEF ViewRegistered
<1>2. user[u].pc \in Later => user'[u].pc \in Later
  <2> SUFFICES ASSUME user[u].pc \in Later PROVE user'[u].pc \in Later
    OBVIOUS
  <2>1. ASSUME NEW out, Ends(u, out) PROVE user'[u].pc \in Later
    BY <1>0, <2>1, EndsIs
  <2>2. CASE NoConnection(u) \/ Answer(u) \/ Close(u) \/ ViewFails(u) \/ StatementFails(u) \/ Blame(u)
    BY <2>1, <2>2 DEF NoConnection, Answer, Close, ViewFails, StatementFails, Blame
  <2>3. CASE Send(u)
    BY <1>0, <2>3, SendIs
  <2>4. CASE TransportFails(u)
    BY <1>0, <1>b, <2>4, TransportIs
  <2>5. CASE \/ \E reuse \in BOOLEAN : AskQuery(u, reuse)
             \/ AskReconnect(u) \/ Recheck(u) \/ Acquire(u) \/ OpenSession(u) \/ OpenFails(u)
             \/ KeepSocket(u) \/ ClearAborted(u) \/ SetConnected(u) \/ RegisterViews(u)
             \/ Enter(u) \/ ReuseSnapshot(u) \/ NameSnapshot(u) \/ ViewRegistered(u)
    <3>1. user[u].pc \in {"new", "recheck", "connect", "opening", "opened", "kept", "cleared",
                          "register", "enter", "choose", "ddling"}
      BY <2>5 DEF AskQuery, AskReconnect, Recheck, Acquire, OpenSession, OpenFails, KeepSocket,
                  ClearAborted, SetConnected, RegisterViews, Enter, ReuseSnapshot, NameSnapshot,
                  ViewRegistered
    <3>2. QED
      BY <3>1
  <2>6. QED
    BY <2>2, <2>3, <2>4, <2>5 DEF Acts, Progress
<1>3. Past \subseteq Past'
  <2> SUFFICES ASSUME NEW v \in Users, user[v].pc \in Later PROVE user'[v].pc \in Later
    BY DEF Past
  <2>1. CASE v = u
    BY <1>2, <2>1
  <2>2. CASE v # u
    BY <1>a, <2>2
  <2>3. QED
    BY <2>1, <2>2
<1>4. ViewRegistered(u) => u \in Past' \ Past
  BY <1>1 DEF Past
<1>5. Past \subseteq Users /\ Past' \subseteq Users /\ IsFiniteSet(Users)
  BY SparkAssumption DEF Past
<1>6. QED
  BY <1>3, <1>4, <1>5, FS_Subset

\* Snapshots are taken under a name from the past.
LEMMA ActsKeepsAges ==
  ASSUME SparkInv, NEW u \in Users, Acts(u)
  PROVE  SnapshotsAge'
<1>0. TypeOK /\ LocksAreHeld /\ SnapshotsAge /\ SnapshotsAreChosen
  BY DEF SparkInv
<1>a. /\ registers' = registers /\ registers \in BOOLEAN /\ Len(snaps) \in Nat
      /\ snaps \in Seq(Snapshot) /\ clock \in 0..MaxClock /\ MaxClock \in Nat
      /\ SnapshotTTL \in Nat /\ user[u] \in User
  BY <1>0, ActsIsOwn, SparkBounds DEF TypeOK, Snapshot
<1>d. user[u].chosen \in 0..MaxClock /\ user[u].chosen <= clock
  BY <1>0, <1>a DEF SnapshotsAreChosen, User
<1>b. ~registers => Cardinality(Past) <= Cardinality(Past') /\ Cardinality(Past) \in Nat
                    /\ Cardinality(Past') \in Nat
  BY PastGrows, FS_Subset, FS_CardinalityType
<1>c. clock' = clock
  BY DEF Acts, AskQuery, AskReconnect, Progress, Recheck, Acquire, OpenSession, OpenFails,
         KeepSocket, ClearAborted, SetConnected, RegisterViews, Enter, ReuseSnapshot,
         NameSnapshot, NoConnection, Send, ViewRegistered, ViewFails, Answer, StatementFails,
         TransportFails, Blame, Close, snapshots
<1>1. CASE snaps' = snaps
  <2>1. ~registers' => Len(snaps') <= Cardinality(Past')
    <3>1. ~registers => Len(snaps) <= Cardinality(Past)
      BY <1>0 DEF SnapshotsAge
    <3>2. QED
      BY <1>1, <1>a, <1>b, <3>1
  <2>2. QED
    BY <1>0, <1>1, <1>a, <1>c, <2>1 DEF SnapshotsAge
<1>2. CASE ViewRegistered(u) /\ snaps' # snaps
  <2>1. ~registers
    BY <1>0, <1>2 DEF ViewRegistered, LocksAreHeld
  <2> DEFINE new == [stamp |-> user[u].chosen, born |-> clock, gone |-> "no"]
  <2>2. snaps' = Append(snaps, new)
    BY <1>2 DEF ViewRegistered
  <2>3. new.stamp = user[u].chosen /\ new.born = clock /\ new.gone = "no"
    OBVIOUS
  <2> HIDE DEF new
  <2>4. /\ Len(snaps') = Len(snaps) + 1 /\ snaps'[Len(snaps) + 1] = new
        /\ \A s \in 1..Len(snaps) : snaps'[s] = snaps[s]
    BY <1>a, <2>2
  <2>5. Len(snaps') <= Cardinality(Past')
    <3>1. u \in Past' \ Past /\ Past \subseteq Past' /\ IsFiniteSet(Past) /\ IsFiniteSet(Past')
      BY <1>2, <2>1, PastGrows
    <3>2. Cardinality(Past \cup {u}) = Cardinality(Past) + 1
      BY <3>1, FS_AddElement
    <3>3. Past \cup {u} \subseteq Past'
      BY <3>1
    <3>4. Cardinality(Past) + 1 <= Cardinality(Past')
      BY <3>1, <3>2, <3>3, FS_Subset
    <3>5. Len(snaps) <= Cardinality(Past)
      BY <1>0, <2>1 DEF SnapshotsAge
    <3>6. QED
      BY <1>a, <1>b, <2>1, <2>4, <3>4, <3>5
  <2>6. \A s \in 1..Len(snaps') :
          /\ snaps'[s].stamp <= snaps'[s].born /\ snaps'[s].born <= clock
          /\ snaps'[s].gone = "ttl" => snaps'[s].born + SnapshotTTL <= clock
    <3> SUFFICES ASSUME NEW s \in 1..Len(snaps')
                 PROVE  /\ snaps'[s].stamp <= snaps'[s].born /\ snaps'[s].born <= clock
                        /\ snaps'[s].gone = "ttl" => snaps'[s].born + SnapshotTTL <= clock
      OBVIOUS
    <3>1. CASE s \in 1..Len(snaps)
      BY <1>0, <2>4, <3>1 DEF SnapshotsAge
    <3>2. CASE s = Len(snaps) + 1
      BY <1>a, <1>d, <2>3, <2>4, <3>2
    <3>3. QED
      BY <1>a, <2>4, <3>1, <3>2
  <2>7. QED
    BY <1>a, <1>c, <2>1, <2>5, <2>6 DEF SnapshotsAge
<1>3. snaps' = snaps \/ ViewRegistered(u)
  BY QuietFrame, ActsSplit DEF OpenSession, OpenFails, KeepSocket, ClearAborted, SetConnected,
         RegisterViews, Send, Answer, StatementFails, Close, snapshots
<1>4. QED
  BY <1>1, <1>2, <1>3

\* A snapshot stays what it was, whatever is taken after it.
LEMMA ActsKeepsStamps ==
  ASSUME SparkInv, NEW u \in Users, Acts(u)
  PROVE  /\ Len(snaps) \in Nat /\ Len(snaps') \in Nat /\ Len(snaps) <= Len(snaps') /\ clock' = clock
         /\ \A s \in 1..Len(snaps) : snaps'[s].stamp = snaps[s].stamp
<1>0. TypeOK /\ snaps \in Seq(Snapshot) /\ Len(snaps) \in Nat
  BY DEF SparkInv, TypeOK, Snapshot
<1>1. clock' = clock
  BY DEF Acts, AskQuery, AskReconnect, Progress, Recheck, Acquire, OpenSession, OpenFails,
         KeepSocket, ClearAborted, SetConnected, RegisterViews, Enter, ReuseSnapshot,
         NameSnapshot, NoConnection, Send, ViewRegistered, ViewFails, Answer, StatementFails,
         TransportFails, Blame, Close, snapshots
<1>2. snaps' = snaps \/ \E new : snaps' = Append(snaps, new)
  BY QuietFrame, ActsSplit DEF OpenSession, OpenFails, KeepSocket, ClearAborted, SetConnected,
         RegisterViews, Send, Answer, StatementFails, Close, ViewRegistered, snapshots
<1>3. QED
  BY <1>0, <1>1, <1>2

\* What a request chose stays chosen.
LEMMA ActsKeepsChoices ==
  ASSUME SparkInv, NEW u \in Users, Acts(u)
  PROVE  SnapshotsAreChosen'
<1>0. TypeOK /\ LocksAreHeld /\ SnapshotsAge /\ SnapshotsAreChosen
  BY DEF SparkInv
<1>a. registers' = registers /\ \A v \in Users : v # u => user'[v] = user[v]
  BY <1>0, ActsIsOwn
<1>b. /\ Len(snaps) \in Nat /\ Len(snaps') \in Nat /\ Len(snaps) <= Len(snaps') /\ clock' = clock
      /\ \A s \in 1..Len(snaps) : snaps'[s].stamp = snaps[s].stamp
  BY ActsKeepsStamps
<1>c. \A v \in Users :
        /\ user[v].before \in Nat /\ user[v].snap \in Nat /\ user[v].chosen \in Nat
        /\ user[v].before <= Len(snaps) /\ user[v].snap <= Len(snaps) /\ user[v].chosen <= clock
  BY <1>0, SparkBounds, RoomForSnapshots DEF TypeOK, User, SnapshotsAreChosen
<1>d. user[u].snap # 0 =>
        /\ user[u].pc \in {"ddl", "ddling", "execute", "running", "blame"}
        /\ user[u].chosen - snaps[user[u].snap].stamp < SnapshotTTL - QueryTimeout
        /\ user[u].snap > user[u].before \/ user[u].reuse
        /\ ~registers
  BY <1>0, <1>c DEF SnapshotsAreChosen, SnapshotsAge
<1>e. clock \in Nat /\ SnapshotTTL \in Nat /\ QueryTimeout \in Nat /\ QueryTimeout < SnapshotTTL
      /\ \A s \in 1..Len(snaps) : snaps[s].stamp \in Nat
  <2>1. snaps \in Seq(Snapshot) /\ clock \in Nat
    BY <1>0, SparkBounds DEF TypeOK, Snapshot
  <2>2. \A s \in 1..Len(snaps) : snaps[s] \in Snapshot
    BY <2>1
  <2>3. QED
    BY <2>1, <2>2, SparkBounds DEF Snapshot
<1> DEFINE Good ==
      /\ user'[u].before <= Len(snaps') /\ user'[u].snap <= Len(snaps') /\ user'[u].chosen <= clock
      /\ user'[u].snap # 0 =>
          /\ user'[u].pc \in {"ddl", "ddling", "execute", "running", "blame"}
          /\ user'[u].chosen - snaps'[user'[u].snap].stamp < SnapshotTTL - QueryTimeout
          /\ user'[u].snap > user'[u].before \/ user'[u].reuse
<1> SUFFICES Good
  <2> SUFFICES ASSUME NEW v \in Users
               PROVE  /\ user'[v].before <= Len(snaps') /\ user'[v].snap <= Len(snaps')
                      /\ user'[v].chosen <= clock
                      /\ user'[v].snap # 0 =>
                          /\ user'[v].pc \in {"ddl", "ddling", "execute", "running", "blame"}
                          /\ user'[v].chosen - snaps'[user'[v].snap].stamp < SnapshotTTL - QueryTimeout
                          /\ user'[v].snap > user'[v].before \/ user'[v].reuse
    BY <1>b DEF SnapshotsAreChosen
  <2>1. CASE v = u
    BY <2>1
  <2>2. CASE v # u
    <3>1. user'[v] = user[v]
      BY <1>a, <2>2
    <3>2. user[v].snap # 0 =>
            /\ user[v].snap \in 1..Len(snaps)
            /\ user[v].pc \in {"ddl", "ddling", "execute", "running", "blame"}
            /\ user[v].chosen - snaps[user[v].snap].stamp < SnapshotTTL - QueryTimeout
            /\ user[v].snap > user[v].before \/ user[v].reuse
      BY <1>0, <1>b, <1>c DEF SnapshotsAreChosen
    <3>3. QED
      BY <1>b, <1>c, <3>1, <3>2
  <2>3. QED
    BY <2>1, <2>2
<1>1. ASSUME user'[u].snap = 0, user'[u].before \in {0, Len(snaps), user[u].before},
             user'[u].chosen \in {0, clock, user[u].chosen}
      PROVE  Good
  BY <1>1, <1>b, <1>c, <1>e
<1>2. ASSUME user'[u].snap = user[u].snap, user'[u].before = user[u].before,
             user'[u].chosen = user[u].chosen, user'[u].reuse = user[u].reuse,
             user[u].snap # 0 => user'[u].pc \in {"ddl", "ddling", "execute", "running", "blame"}
      PROVE  Good
  <2>1. user[u].snap # 0 => snaps'[user[u].snap].stamp = snaps[user[u].snap].stamp
    BY <1>b, <1>c
  <2>2. QED
    BY <1>2, <1>b, <1>c, <1>d, <2>1
<1>3. ASSUME NEW out, Ends(u, out) PROVE Good
  BY <1>0, <1>1, <1>3, EndsIs
<1>4. ASSUME NEW pc, Goes(u, pc), user[u].pc \in {"recheck", "connect", "opening", "opened", "kept",
                                                  "cleared", "register", "enter"}
      PROVE  Good
  <2>1. user[u].snap = 0
    BY <1>4, <1>d
  <2>2. QED
    BY <1>0, <1>1, <1>4, <2>1, GoesIs
<1>5. CASE (\E reuse \in BOOLEAN : AskQuery(u, reuse)) \/ AskReconnect(u)
  BY <1>0, <1>1, <1>5, AskIs
<1>6. CASE Recheck(u)
  BY <1>0, <1>1, <1>4, <1>6, RecheckIs
<1>7. CASE Acquire(u) \/ OpenSession(u) \/ KeepSocket(u) \/ ClearAborted(u) \/ OpenFails(u)
           \/ SetConnected(u) \/ RegisterViews(u) \/ Enter(u)
  BY <1>4, <1>7 DEF Acquire, OpenSession, KeepSocket, ClearAborted, OpenFails, SetConnected,
                    RegisterViews, Enter
<1>8. CASE ReuseSnapshot(u)
  <2>1. /\ user'[u].pc = "ddl" /\ user'[u].snap = last /\ user'[u].chosen = clock
        /\ user'[u].reuse = user[u].reuse /\ user'[u].before = user[u].before
    BY <1>0, <1>8, ReuseIs
  <2>2. last # 0 /\ SnapshotTTL - (clock - snaps[last].stamp) > QueryTimeout /\ user[u].reuse
    BY <1>8 DEF ReuseSnapshot, Reusable, AgeOf
  <2>3. last \in 1..Len(snaps)
    BY <1>0, <2>2 DEF TypeOK
  <2>4. snaps'[last].stamp = snaps[last].stamp /\ snaps[last].stamp \in Nat
    BY <1>b, <1>e, <2>3
  <2>5. QED
    BY <1>b, <1>c, <1>e, <2>1, <2>2, <2>3, <2>4
<1>9. CASE NameSnapshot(u)
  <2>1. user[u].snap = 0
    BY <1>9, <1>d DEF NameSnapshot
  <2>2. QED
    BY <1>0, <1>1, <1>9, <2>1, NameIs
<1>10. CASE Send(u)
  BY <1>0, <1>2, <1>10, SendIs
<1>11. CASE ViewRegistered(u)
  <2>1. CASE user[u].snap # 0
    BY <1>0, <1>2, <1>11, <2>1, RegisteredIs
  <2>2. CASE user[u].snap = 0
    <3>1. /\ user'[u].pc = "execute" /\ user'[u].snap = Len(snaps) + 1
          /\ user'[u].chosen = user[u].chosen /\ user'[u].before = user[u].before
      BY <1>0, <1>11, <2>2, RegisteredIs
    <3>2. snaps' = Append(snaps, [stamp |-> user[u].chosen, born |-> clock, gone |-> "no"])
      BY <1>11, <2>2 DEF ViewRegistered
    <3>3. Len(snaps') = Len(snaps) + 1 /\ snaps'[Len(snaps) + 1].stamp = user[u].chosen
      <4>1. snaps \in Seq(Snapshot)
        BY <1>0 DEF TypeOK, Snapshot
      <4>2. QED
        BY <3>2, <4>1
    <3>4. QED
      BY <1>b, <1>c, <1>e, <3>1, <3>3
  <2>3. QED
    BY <2>1, <2>2
<1>12. CASE StatementFails(u)
  <2>1. CASE registers /\ ViewOf(u) = 0 /\ ~user[u].retry
    BY <1>0, <1>1, <1>12, <1>d, <2>1, RetryIs
  <2>2. CASE ~(registers /\ ViewOf(u) = 0 /\ ~user[u].retry)
    BY <1>3, <1>12, <2>2 DEF StatementFails
  <2>3. QED
    BY <2>1, <2>2
<1>13. CASE TransportFails(u)
  <2>1. CASE user[u].retry
    BY <1>3, <1>13, <2>1 DEF TransportFails
  <2>2. CASE ~user[u].retry
    BY <1>0, <1>2, <1>13, <2>2, TransportIs
  <2>3. QED
    BY <2>1, <2>2
<1>14. CASE Blame(u)
  <2>1. CASE registers
    BY <1>0, <1>1, <1>14, <1>d, <2>1, BlameIs
  <2>2. CASE ~registers
    BY <1>3, <1>14, <2>2 DEF Blame
  <2>3. QED
    BY <2>1, <2>2
<1>15. CASE NoConnection(u) \/ ViewFails(u) \/ Answer(u) \/ Close(u)
  BY <1>3, <1>15 DEF NoConnection, ViewFails, Answer, Close
<1>16. QED
  BY <1>5, <1>6, <1>7, <1>8, <1>9, <1>10, <1>11, <1>12, <1>13, <1>14, <1>15 DEF Acts, Progress

\* Nobody else registers a view between a bulk request's DDL and its statement.
LEMMA ActsKeepsViews ==
  ASSUME SparkInv, NEW u \in Users, Acts(u)
  PROVE  ViewsAreOwn'
<1>0. TypeOK /\ LocksAreHeld /\ SnapshotsAge /\ ConnsAreNew /\ ViewsAreOwn
  BY DEF SparkInv
<1>a. registers' = registers /\ \A v \in Users : v # u => user'[v] = user[v]
  BY <1>0, ActsIsOwn
<1> SUFFICES ASSUME ~registers PROVE ViewsAreOwn'
  BY <1>a DEF ViewsAreOwn
<1>b. /\ conn \in {0, opened} /\ opened \in 0..MaxConns /\ MaxConns \in Nat
      /\ views \in [Conns -> 0..MaxSnapshots] /\ Len(snaps) \in Nat
      /\ \A n \in Conns : n > opened => views[n] = 0
      /\ \A n \in Conns : n \in Nat /\ n # 0
  BY <1>0, SparkBounds DEF TypeOK, ConnsAreNew, Conns
<1>c. \A v \in Users : user[v].on \in 0..MaxConns /\ user[v].on \in Nat
                       /\ (user[v].on # 0 => user[v].on \in Conns)
  <2>1. \A v \in Users : user[v].on \in 0..MaxConns
    BY <1>0 DEF TypeOK, User
  <2>2. QED
    BY <1>b, <2>1 DEF Conns
<1> DEFINE Own(v) ==
      /\ user'[v].pc = "ddling" => user'[v].on = opened' /\ user'[v].on # 0
      /\ user'[v].pc = "execute" =>
          /\ user'[v].on # 0 /\ user'[v].snap # 0 /\ views'[user'[v].on] = user'[v].snap
          /\ \A n \in Conns : n > user'[v].on => views'[n] = 0
      /\ user'[v].pc = "running" =>
          user'[v].on # 0 /\ views'[user'[v].on] \in {0, user'[v].snap}
<1> SUFFICES \A v \in Users : Own(v)
  BY <1>a DEF ViewsAreOwn
<1>1. ASSUME NEW v \in Users, user'[v] = user[v], views' = views,
             opened' = opened \/ user[v].pc # "ddling"
      PROVE  Own(v)
  BY <1>0, <1>1 DEF ViewsAreOwn
<1>2. ASSUME NEW v \in Users, v # u PROVE Own(v)
  <2>0. user'[v] = user[v]
    BY <1>a, <1>2
  <2>1. CASE ViewRegistered(u)
    <3>1. lock = u /\ queryLock = u
      BY <1>0, <2>1 DEF ViewRegistered, LocksAreHeld, Holding, Querying
    <3>2. user[v].pc \notin {"ddling", "execute", "running"}
      BY <1>0, <1>2, <3>1 DEF LocksAreHeld, Querying
    <3>3. QED
      BY <2>0, <3>2
  <2>2. CASE OpenSession(u)
    <3>1. user[v].pc # "ddling"
      BY <1>0, <1>2, <2>2 DEF OpenSession, LocksAreHeld, Holding
    <3>2. views' = views
      BY <2>2 DEF OpenSession, spark
    <3>3. QED
      BY <1>1, <2>0, <3>1, <3>2
  <2>3. CASE ~ViewRegistered(u) /\ ~OpenSession(u)
    <3>1. ~RegisterViews(u)
      BY <1>0 DEF RegisterViews, LocksAreHeld
    <3>2. views' = views /\ opened' = opened
      BY <2>3, <3>1, ActsSplit, QuietFrame DEF OpenFails, KeepSocket, ClearAborted, SetConnected,
             Send, Answer, StatementFails, Close, CloseLocked, connection, spark
    <3>3. QED
      BY <1>1, <2>0, <3>2
  <2>4. QED
    BY <2>1, <2>2, <2>3
<1>3. Own(u)
  <2>1. ASSUME user'[u].pc \notin {"ddling", "execute", "running"} PROVE Own(u)
    BY <2>1
  <2>2. ASSUME NEW out, Ends(u, out) PROVE Own(u)
    BY <1>0, <2>1, <2>2, EndsIs
  <2>3. ASSUME NEW pc \in {"enter", "opening", "opened", "kept", "cleared", "recheck", "choose"},
               Goes(u, pc)
        PROVE  Own(u)
    BY <1>0, <2>1, <2>3, GoesIs
  <2>4. CASE (\E reuse \in BOOLEAN : AskQuery(u, reuse)) \/ AskReconnect(u) \/ Recheck(u)
    BY <1>0, <2>1, <2>4, AskIs, RecheckIs
  <2>5. CASE Acquire(u) \/ OpenSession(u) \/ KeepSocket(u) \/ ClearAborted(u) \/ OpenFails(u)
             \/ SetConnected(u) \/ Enter(u)
    BY <2>3, <2>5 DEF Acquire, OpenSession, KeepSocket, ClearAborted, OpenFails, SetConnected, Enter
  <2>6. CASE ReuseSnapshot(u) \/ NameSnapshot(u)
    BY <1>0, <2>1, <2>6, ReuseIs, NameIs
  <2>7. CASE Send(u)
    <3>1. /\ user'[u].pc = (IF user[u].pc = "ddl" THEN "ddling" ELSE "running")
          /\ user'[u].on = conn /\ user'[u].snap = user[u].snap
      BY <1>0, <2>7, SendIs
    <3>2. conn # 0 /\ opened' = opened /\ views' = views /\ user[u].pc \in {"ddl", "execute"}
      BY <2>7 DEF Send, connection
    <3>3. CASE user[u].pc = "ddl"
      BY <1>b, <3>1, <3>2, <3>3
    <3>4. CASE user[u].pc = "execute"
      <4>1. /\ user[u].on \in Conns /\ views[user[u].on] = user[u].snap
            /\ \A n \in Conns : n > user[u].on => views[n] = 0
        BY <1>0, <1>c, <3>4 DEF ViewsAreOwn
      <4>2. conn = opened /\ conn \in Conns
        BY <1>b, <3>2 DEF Conns
      <4>3. user[u].snap # 0
        BY <1>0, <3>4 DEF ViewsAreOwn
      <4>4. user[u].on <= opened
        BY <1>b, <4>1, <4>3
      <4>5. views[conn] \in {0, user[u].snap}
        BY <1>b, <4>1, <4>2, <4>4
      <4>6. QED
        BY <3>1, <3>2, <3>4, <4>5
    <3>5. QED
      BY <3>2, <3>3, <3>4
  <2>8. CASE ViewRegistered(u)
    <3>1. /\ user'[u].pc = "execute" /\ user'[u].on = user[u].on
          /\ user'[u].snap = (IF user[u].snap = 0 THEN Len(snaps) + 1 ELSE user[u].snap)
      BY <1>0, <2>8, RegisteredIs
    <3>2. user[u].on = opened /\ user[u].on # 0
      BY <1>0, <2>8 DEF ViewRegistered, ViewsAreOwn
    <3>3. views' = [views EXCEPT ![user[u].on] = user'[u].snap]
      BY <2>8, <3>1 DEF ViewRegistered
    <3>4. user'[u].snap # 0 /\ user[u].on \in Conns
      BY <1>b, <1>c, <3>1, <3>2
    <3>5. ASSUME NEW n \in Conns, n > user[u].on PROVE views'[n] = 0
      BY <1>b, <3>2, <3>3, <3>5
    <3>6. views'[user[u].on] = user'[u].snap
      BY <1>b, <3>3, <3>4
    <3>7. QED
      BY <3>1, <3>2, <3>4, <3>5, <3>6
  <2>9. CASE TransportFails(u)
    BY <1>0, <2>1, <2>2, <2>9, TransportIs DEF TransportFails
  <2>10. CASE StatementFails(u) \/ Blame(u) \/ NoConnection(u) \/ ViewFails(u) \/ Answer(u) \/ Close(u)
    BY <2>2, <2>10 DEF StatementFails, Blame, NoConnection, ViewFails, Answer, Close
  <2>11. ~RegisterViews(u)
    BY <1>0 DEF RegisterViews, LocksAreHeld
  <2>12. QED
    BY <2>4, <2>5, <2>6, <2>7, <2>8, <2>9, <2>10, <2>11 DEF Acts, Progress
<1>4. QED
  BY <1>2, <1>3

\* A new connection clears the flag of the one before, and a connection that is
\* given up takes its flag along.
LEMMA ActsKeepsFlag ==
  ASSUME SparkInv, NEW u \in Users, Acts(u)
  PROVE  FlagIsCurrent'
<1>0. TypeOK /\ LocksAreHeld /\ SnapshotsAge /\ FlagIsCurrent
  BY DEF SparkInv
<1>a. \A v \in Users : v # u => user'[v] = user[v]
  BY <1>0, ActsIsOwn
<1>b. seen \in [flagged : SUBSET Conns, cut : SUBSET Conns, wiped : SUBSET Conns,
                asked : SUBSET (0..MaxConns)]
  BY <1>0 DEF TypeOK
<1>1. CASE ClearAborted(u)
  <2>1. aborted' = FALSE /\ seen' = [seen EXCEPT !.wiped = seen.wiped \cup seen.flagged]
    BY <1>1 DEF ClearAborted
  <2>2. QED
    BY <1>0, <1>b, <2>1 DEF FlagIsCurrent
<1>2. CASE ~ClearAborted(u)
  <2>1. aborted' = aborted /\ seen' = seen
    BY <1>2, ActsSplit, QuietFrame DEF OpenSession, OpenFails, KeepSocket, SetConnected, RegisterViews,
           Send, Answer, StatementFails, Close, CloseLocked, ViewRegistered, connection
  <2>2. aborted => \/ conn' \in seen.asked \cup {0}
                   \/ \E w \in Users : user'[w].pc \in {"opened", "kept"}
    <3> SUFFICES ASSUME aborted
                 PROVE  \/ conn' \in seen.asked \cup {0}
                        \/ \E w \in Users : user'[w].pc \in {"opened", "kept"}
      OBVIOUS
    <3>1. CASE OpenSession(u)
      <4>1. user'[u].pc = "opened"
        BY <1>0, <3>1, GoesIs DEF OpenSession
      <4>2. QED
        BY <4>1
    <3>2. CASE KeepSocket(u)
      <4>1. user'[u].pc = "kept"
        BY <1>0, <3>2, GoesIs DEF KeepSocket
      <4>2. QED
        BY <4>1
    <3>3. CASE OpenFails(u) \/ Close(u)
      BY <3>3 DEF OpenFails, Close, CloseLocked
    <3>4. CASE ~(OpenSession(u) \/ KeepSocket(u) \/ OpenFails(u) \/ Close(u))
      <4>1. conn' = conn
        BY <1>2, <3>4, ActsSplit, QuietFrame DEF SetConnected, RegisterViews, Send, Answer,
               StatementFails, ViewRegistered, connection
      <4>2. user[u].pc \notin {"opened", "kept"}
        BY <1>2, <3>4 DEF Acts, AskQuery, AskReconnect, Progress, Recheck, Acquire, SetConnected,
               RegisterViews, Enter, ReuseSnapshot, NameSnapshot, NoConnection, Send,
               ViewRegistered, ViewFails, Answer, StatementFails, TransportFails, Blame, Working
      <4>3. QED
        BY <1>0, <1>a, <4>1, <4>2 DEF FlagIsCurrent
    <3>5. QED
      BY <3>1, <3>2, <3>3, <3>4
  <2>3. QED
    BY <1>0, <2>1, <2>2 DEF FlagIsCurrent
<1>3. QED
  BY <1>1, <1>2

\* A statement that is sent finds the flag of its own connection.
LEMMA ActsKeepsBlame ==
  ASSUME SparkInv, NEW u \in Users, Acts(u)
  PROVE  BlameIsDue'
<1>0. TypeOK /\ LocksAreHeld /\ SnapshotsAge /\ FlagIsCurrent /\ BlameIsDue
  BY DEF SparkInv
<1>a. \A v \in Users : v # u => user'[v] = user[v]
  BY <1>0, ActsIsOwn
<1>b. /\ aborted' => aborted
      /\ seen'.asked = seen.asked /\ seen'.cut = seen.cut /\ seen.wiped \subseteq seen'.wiped
  <2>1. seen \in [flagged : SUBSET Conns, cut : SUBSET Conns, wiped : SUBSET Conns,
                  asked : SUBSET (0..MaxConns)]
    BY <1>0 DEF TypeOK
  <2>2. CASE ClearAborted(u)
    BY <2>1, <2>2 DEF ClearAborted
  <2>3. CASE ~ClearAborted(u)
    <3>1. aborted' = aborted /\ seen' = seen
      BY <2>3, ActsSplit, QuietFrame DEF OpenSession, OpenFails, KeepSocket, SetConnected,
             RegisterViews, Send, Answer, StatementFails, Close, CloseLocked, ViewRegistered,
             connection
    <3>2. QED
      BY <3>1
  <2>4. QED
    BY <2>2, <2>3
<1> DEFINE Due(v) ==
      /\ user'[v].pc \in {"running", "blame"} /\ aborted'
          => user'[v].flagged \/ user'[v].on \in seen'.asked
      /\ user'[v].pc = "closing" /\ user'[v].cancelled
          => user'[v].flagged \/ user'[v].on \in seen'.asked
      /\ user'[v].cut => user'[v].pc \in {"blame", "closing"} /\ user'[v].on \in seen'.cut
      /\ user'[v].pc = "closing" /\ user'[v].cut /\ ~user'[v].cancelled
          => user'[v].on \in seen'.wiped
<1> SUFFICES \A v \in Users : Due(v)
  BY DEF BlameIsDue
<1>1. ASSUME NEW v \in Users, v # u PROVE Due(v)
  <2>1. user'[v] = user[v]
    BY <1>a, <1>1
  <2>2. QED
    BY <1>0, <1>b, <2>1 DEF BlameIsDue
<1>2. Due(u)
  <2>1. ASSUME user'[u].pc \notin {"running", "blame", "closing"}, ~user'[u].cut PROVE Due(u)
    BY <2>1
  <2>2. user[u].cut => user[u].pc \in {"blame", "closing"} /\ user[u].on \in seen.cut
    BY <1>0 DEF BlameIsDue
  <2>3. ASSUME NEW out, Ends(u, out) PROVE Due(u)
    BY <1>0, <2>1, <2>3, EndsIs
  <2>4. ASSUME NEW pc \in {"enter", "opening", "opened", "kept", "cleared", "recheck", "register",
                           "execute", "choose"},
               Goes(u, pc), user[u].pc \notin {"blame", "closing"}
        PROVE  Due(u)
    BY <1>0, <2>1, <2>2, <2>4, GoesIs
  <2>5. CASE (\E reuse \in BOOLEAN : AskQuery(u, reuse)) \/ AskReconnect(u)
    BY <1>0, <2>1, <2>5, AskIs
  <2>6. CASE Recheck(u)
    BY <1>0, <2>1, <2>4, <2>6, RecheckIs
  <2>7. CASE Acquire(u) \/ OpenSession(u) \/ KeepSocket(u) \/ ClearAborted(u) \/ OpenFails(u)
             \/ SetConnected(u) \/ RegisterViews(u) \/ Enter(u)
    BY <2>4, <2>7 DEF Acquire, OpenSession, KeepSocket, ClearAborted, OpenFails, SetConnected,
                      RegisterViews, Enter
  <2>8. CASE ReuseSnapshot(u) \/ NameSnapshot(u) \/ ViewRegistered(u)
    <3>1. user[u].pc \in {"choose", "ddling"}
      BY <2>8 DEF ReuseSnapshot, NameSnapshot, ViewRegistered
    <3>2. user'[u].pc \in {"ddl", "execute"} /\ user'[u].cut = user[u].cut
      BY <1>0, <2>8, ReuseIs, NameIs, RegisteredIs
    <3>3. QED
      BY <2>1, <2>2, <3>1, <3>2
  <2>9. CASE Send(u)
    <3>1. /\ user'[u].pc \in {"ddling", "running"} /\ user'[u].on = conn /\ user'[u].cut = user[u].cut
      BY <1>0, <2>9, SendIs
    <3>2. conn # 0 /\ lock = NoThread /\ user[u].pc \in {"ddl", "execute"}
      BY <2>9 DEF Send
    <3>3. \A w \in Users : user[w].pc \notin {"opened", "kept"}
      BY <1>0, <3>2, SparkBounds DEF LocksAreHeld, Holding
    <3>4. aborted => conn \in seen.asked
      BY <1>0, <3>2, <3>3 DEF FlagIsCurrent
    <3>5. QED
      BY <1>b, <2>2, <3>1, <3>2, <3>4
  <2>10. CASE StatementFails(u)
    <3>1. CASE registers /\ ViewOf(u) = 0 /\ ~user[u].retry
      <4>1. user'[u].pc = "register" /\ user'[u].cut = user[u].cut /\ user[u].pc = "running"
        BY <1>0, <2>10, <3>1, RetryIs DEF StatementFails, Working
      <4>2. QED
        BY <2>1, <2>2, <4>1
    <3>2. CASE ~(registers /\ ViewOf(u) = 0 /\ ~user[u].retry)
      BY <2>3, <2>10, <3>2 DEF StatementFails
    <3>3. QED
      BY <3>1, <3>2
  <2>11. CASE TransportFails(u)
    <3>1. CASE user[u].retry
      BY <2>3, <2>11, <3>1 DEF TransportFails
    <3>2. CASE ~user[u].retry
      <4>1. /\ user'[u].pc = "blame" /\ user'[u].cut = (user[u].on \in seen.cut)
            /\ user'[u].on = user[u].on /\ user'[u].flagged = user[u].flagged
        BY <1>0, <2>11, <3>2, TransportIs
      <4>2. aborted => user[u].flagged \/ user[u].on \in seen.asked
        BY <1>0, <2>11 DEF BlameIsDue, TransportFails
      <4>3. QED
        BY <1>b, <4>1, <4>2
    <3>3. QED
      BY <3>1, <3>2
  <2>12. CASE Blame(u)
    <3>1. CASE registers
      <4>1. /\ user'[u].pc = "closing" /\ user'[u].cancelled = aborted /\ user'[u].cut = user[u].cut
            /\ user'[u].on = user[u].on /\ user'[u].flagged = user[u].flagged
        BY <1>0, <2>12, <3>1, BlameIs
      <4>2. aborted => user[u].flagged \/ user[u].on \in seen.asked
        BY <1>0, <2>12 DEF BlameIsDue, Blame
      <4>3. user[u].cut /\ ~aborted => user[u].on \in seen.wiped
        BY <1>0, <2>2 DEF FlagIsCurrent
      <4>4. QED
        BY <1>b, <2>2, <4>1, <4>2, <4>3
    <3>2. CASE ~registers
      BY <2>3, <2>12, <3>2 DEF Blame
    <3>3. QED
      BY <3>1, <3>2
  <2>13. CASE NoConnection(u) \/ ViewFails(u) \/ Answer(u) \/ Close(u)
    BY <2>3, <2>13 DEF NoConnection, ViewFails, Answer, Close
  <2>14. QED
    BY <2>5, <2>6, <2>7, <2>8, <2>9, <2>10, <2>11, <2>12, <2>13 DEF Acts, Progress
<1>3. QED
  BY <1>1, <1>2

\* No job begins on a connection that was cut.
LEMMA ActsKeepsCancels ==
  ASSUME SparkInv, NEW u \in Users, Acts(u)
  PROVE  CancelsAdvance' /\ CancelLeavesNoOrphan'
<1>0. TypeOK /\ LocksAreHeld /\ SnapshotsAge /\ CancelsAdvance /\ CancelLeavesNoOrphan
  BY DEF SparkInv
<1>a. cancel' = cancel
  BY <1>0, ActsIsOwn
<1>b. seen'.flagged = seen.flagged
  <2>1. seen \in [flagged : SUBSET Conns, cut : SUBSET Conns, wiped : SUBSET Conns,
                  asked : SUBSET (0..MaxConns)]
    BY <1>0 DEF TypeOK
  <2>2. CASE ClearAborted(u)
    BY <2>1, <2>2 DEF ClearAborted
  <2>3. CASE ~ClearAborted(u)
    BY <2>3, ActsSplit, QuietFrame DEF OpenSession, OpenFails, KeepSocket, SetConnected,
           RegisterViews, Send, Answer, StatementFails, Close, ViewRegistered
  <2>4. QED
    BY <2>2, <2>3
<1>c. shut \subseteq shut'
  BY ActsSplit, QuietFrame DEF OpenSession, OpenFails, KeepSocket, ClearAborted, SetConnected,
         RegisterViews, Send, Answer, StatementFails, Close, CloseLocked, ViewRegistered, spark
<1>d. \A n : n \in jobs' => n \in jobs \/ (n \notin shut /\ n # 0)
  BY ActsSplit, QuietFrame DEF OpenSession, OpenFails, KeepSocket, ClearAborted, SetConnected,
         RegisterViews, Send, Answer, StatementFails, Close, CloseLocked, ViewRegistered, spark
<1>1. CancelsAdvance'
  BY <1>0, <1>a, <1>b, <1>c DEF CancelsAdvance
<1>2. CancelLeavesNoOrphan'
  <2> SUFFICES ASSUME NEW c \in Cancels, cancel[c].pc = "killed" PROVE cancel[c].sock \notin jobs'
    BY <1>a DEF CancelLeavesNoOrphan
  <2>1. cancel[c].sock \in shut \cup {0} /\ cancel[c].sock \notin jobs
    BY <1>0 DEF CancelsAdvance, CancelLeavesNoOrphan
  <2>2. QED
    BY <1>d, <2>1
<1>3. QED
  BY <1>1, <1>2

-----------------------------------------------------------------------------
(* SparkClient: what the cancels and the world outside keep *)

\* A cancel goes on: it flags the connection it read, marks it disconnected, cuts it
\* and kills the jobs.
LEMMA CancelKeepsSpark ==
  ASSUME SparkInv, NEW c \in Cancels, Cancelling(c)
  PROVE  SparkInv'
<1>0. /\ TypeOK /\ LocksAreHeld /\ ConnsAreNew /\ SnapshotsAge /\ SnapshotsAreChosen /\ ViewsAreOwn
      /\ FlagIsCurrent /\ BlameIsDue /\ CancelsAdvance /\ CancelLeavesNoOrphan
  BY DEF SparkInv
<1>a. /\ aborted \in BOOLEAN /\ connected \in BOOLEAN /\ conn \in 0..MaxConns /\ sock \in 0..MaxConns
      /\ shut \subseteq Conns /\ jobs \subseteq Conns /\ MaxConns \in Nat
      /\ user \in [Users -> User] /\ cancel \in [Cancels -> Cancel]
      /\ seen \in [flagged : SUBSET Conns, cut : SUBSET Conns, wiped : SUBSET Conns,
                   asked : SUBSET (0..MaxConns)]
      /\ cancel[c] \in Cancel /\ cancel[c].sock \in 0..MaxConns
  BY <1>0, SparkBounds DEF TypeOK, Cancel
<1>b. UNCHANGED <<registers, opened, conn, sock, lock, queryLock, views, last, snaps, clock>>
  BY DEF Cancelling, ReadSocket, SetAborted, ClearConnected, ShutDown, KillJobs, CancelReturns,
         connection, spark, snapshots
<1>c. ConnsAreNew'
  BY <1>0, <1>b DEF ConnsAreNew
<1>d. ASSUME user' = user, aborted' = aborted, seen' = seen
      PROVE  /\ LocksAreHeld' /\ SnapshotsAge' /\ SnapshotsAreChosen' /\ ViewsAreOwn'
             /\ FlagIsCurrent' /\ BlameIsDue'
  <2>1. LocksAreHeld' /\ SnapshotsAreChosen' /\ ViewsAreOwn'
    BY <1>0, <1>b, <1>d DEF LocksAreHeld, SnapshotsAreChosen, ViewsAreOwn
  <2>2. SnapshotsAge'
    BY <1>0, <1>b, <1>d DEF SnapshotsAge, Past
  <2>3. FlagIsCurrent' /\ BlameIsDue'
    BY <1>0, <1>b, <1>d DEF FlagIsCurrent, BlameIsDue
  <2>4. QED
    BY <2>1, <2>2, <2>3
<1>1. CASE ReadSocket(c)
  <2>1. /\ cancel' = [cancel EXCEPT ![c] = [pc |-> IF sock = 0 THEN "kill" ELSE "flag", sock |-> sock]]
        /\ UNCHANGED <<aborted, connected, shut, jobs, user, seen>>
    BY <1>1 DEF ReadSocket, connection, spark
  <2>2. cancel' \in [Cancels -> Cancel]
    BY <1>a, <2>1 DEF Cancel
  <2>3. TypeOK'
    BY <1>0, <1>b, <2>1, <2>2 DEF TypeOK
  <2>4. CancelsAdvance' /\ CancelLeavesNoOrphan'
    BY <1>0, <1>a, <2>1 DEF CancelsAdvance, CancelLeavesNoOrphan
  <2>5. QED
    BY <1>c, <1>d, <2>1, <2>3, <2>4 DEF SparkInv
<1>2. ASSUME NEW pc \in {"shut", "killed", "done"},
             cancel' = [cancel EXCEPT ![c].pc = pc],
             pc = "shut" => cancel[c].sock # 0 /\ cancel[c].sock \in seen.flagged,
             pc = "killed" => cancel[c].sock \in shut \cup {0} /\ jobs' = {},
             jobs' \subseteq jobs, connected' \in BOOLEAN,
             UNCHANGED <<aborted, shut, user, seen>>
      PROVE  SparkInv'
  <2>1. /\ cancel'[c].pc = pc /\ cancel'[c].sock = cancel[c].sock
        /\ \A d \in Cancels : d # c => cancel'[d] = cancel[d]
    BY <1>2, <1>a DEF Cancel
  <2>2. cancel' \in [Cancels -> Cancel]
    BY <1>2, <1>a DEF Cancel
  <2>3. TypeOK'
    BY <1>0, <1>2, <1>b, <2>2 DEF TypeOK
  <2>4. CancelsAdvance'
    BY <1>0, <1>2, <2>1 DEF CancelsAdvance
  <2>5. CancelLeavesNoOrphan'
    BY <1>0, <1>2, <2>1 DEF CancelLeavesNoOrphan
  <2>6. QED
    BY <1>2, <1>c, <1>d, <2>3, <2>4, <2>5 DEF SparkInv
<1>3. CASE SetAborted(c)
  <2>1. /\ aborted' = TRUE /\ UNCHANGED <<connected, shut, jobs>>
        /\ seen' = [seen EXCEPT !.flagged = seen.flagged \cup {cancel[c].sock},
                                !.asked = seen.asked \cup {conn}]
        /\ cancel' = [cancel EXCEPT ![c].pc = "disconnect"] /\ cancel[c].pc = "flag"
    BY <1>3 DEF SetAborted, spark
  <2>2. \A u \in Users : user'[u] = IF user[u].pc \in {"new", "done"} THEN user[u]
                                    ELSE [user[u] EXCEPT !.flagged = TRUE]
    BY <1>3 DEF SetAborted
  <2>3. user' \in [Users -> User]
    <3>1. \A u \in Users : user[u] \in User
      BY <1>a
    <3>2. \A u \in Users : [user[u] EXCEPT !.flagged = TRUE] \in User
      <4> SUFFICES ASSUME NEW u \in Users PROVE [user[u] EXCEPT !.flagged = TRUE] \in User
        OBVIOUS
      <4>1. user[u] \in User
        BY <3>1
      <4>2. QED
        BY <4>1 DEF User
    <3>3. user' = [u \in Users |-> IF user[u].pc \in {"new", "done"} THEN user[u]
                                   ELSE [user[u] EXCEPT !.flagged = TRUE]]
      BY <1>3 DEF SetAborted
    <3>4. QED
      BY <3>1, <3>2, <3>3
  <2>4. \A u \in Users :
          /\ user'[u].pc = user[u].pc /\ user'[u].retry = user[u].retry
          /\ user'[u].on = user[u].on /\ user'[u].snap = user[u].snap
          /\ user'[u].before = user[u].before /\ user'[u].chosen = user[u].chosen
          /\ user'[u].reuse = user[u].reuse /\ user'[u].cut = user[u].cut
          /\ user'[u].cancelled = user[u].cancelled
          /\ (user[u].pc \notin {"new", "done"} => user'[u].flagged = TRUE)
    <3> SUFFICES ASSUME NEW u \in Users
                 PROVE  /\ user'[u].pc = user[u].pc /\ user'[u].retry = user[u].retry
                        /\ user'[u].on = user[u].on /\ user'[u].snap = user[u].snap
                        /\ user'[u].before = user[u].before /\ user'[u].chosen = user[u].chosen
                        /\ user'[u].reuse = user[u].reuse /\ user'[u].cut = user[u].cut
                        /\ user'[u].cancelled = user[u].cancelled
                        /\ (user[u].pc \notin {"new", "done"} => user'[u].flagged = TRUE)
      OBVIOUS
    <3>1. user[u] \in User
      BY <1>a
    <3>2. CASE user[u].pc \in {"new", "done"}
      BY <2>2, <3>2
    <3>3. CASE user[u].pc \notin {"new", "done"}
      <4>1. user'[u] = [user[u] EXCEPT !.flagged = TRUE]
        BY <2>2, <3>3
      <4>2. QED
        BY <3>1, <4>1 DEF User
    <3>4. QED
      BY <3>2, <3>3
  <2>5. cancel[c].sock \in Conns
    BY <1>0, <1>a, <2>1 DEF CancelsAdvance, Conns
  <2>6. /\ seen'.flagged = seen.flagged \cup {cancel[c].sock} /\ seen'.asked = seen.asked \cup {conn}
        /\ seen'.cut = seen.cut /\ seen'.wiped = seen.wiped
    BY <1>a, <2>1
  <2>7. seen' \in [flagged : SUBSET Conns, cut : SUBSET Conns, wiped : SUBSET Conns,
                   asked : SUBSET (0..MaxConns)]
    BY <1>a, <2>1, <2>5
  <2>8. /\ cancel' \in [Cancels -> Cancel]
        /\ cancel'[c].pc = "disconnect" /\ cancel'[c].sock = cancel[c].sock
        /\ \A d \in Cancels : d # c => cancel'[d] = cancel[d]
    BY <1>a, <2>1 DEF Cancel
  <2>9. TypeOK'
    BY <1>0, <1>b, <2>1, <2>3, <2>7, <2>8 DEF TypeOK
  <2>10. LocksAreHeld'
    BY <1>0, <1>b, <2>4 DEF LocksAreHeld
  <2>11. SnapshotsAge'
    <3>1. Past' = Past
      BY <2>4 DEF Past
    <3>2. QED
      BY <1>0, <1>b, <3>1 DEF SnapshotsAge
  <2>12. SnapshotsAreChosen'
    BY <1>0, <1>b, <2>4 DEF SnapshotsAreChosen
  <2>13. ViewsAreOwn'
    BY <1>0, <1>b, <2>4 DEF ViewsAreOwn
  <2>14. FlagIsCurrent'
    BY <1>0, <1>b, <2>1, <2>6 DEF FlagIsCurrent
  <2>15. BlameIsDue'
    <3> SUFFICES ASSUME NEW u \in Users
                 PROVE  /\ user'[u].pc \in {"running", "blame"} /\ aborted'
                            => user'[u].flagged \/ user'[u].on \in seen'.asked
                        /\ user'[u].pc = "closing" /\ user'[u].cancelled
                            => user'[u].flagged \/ user'[u].on \in seen'.asked
                        /\ user'[u].cut => user'[u].pc \in {"blame", "closing"}
                                           /\ user'[u].on \in seen'.cut
                        /\ user'[u].pc = "closing" /\ user'[u].cut /\ ~user'[u].cancelled
                            => user'[u].on \in seen'.wiped
      BY DEF BlameIsDue
    <3>1. /\ user[u].cut => user[u].pc \in {"blame", "closing"} /\ user[u].on \in seen.cut
          /\ user[u].pc = "closing" /\ user[u].cut /\ ~user[u].cancelled
              => user[u].on \in seen.wiped
      BY <1>0 DEF BlameIsDue
    <3>2. QED
      BY <2>4, <2>6, <3>1
  <2>16. CancelsAdvance'
    BY <1>0, <2>1, <2>5, <2>6, <2>8 DEF CancelsAdvance
  <2>17. CancelLeavesNoOrphan'
    BY <1>0, <2>1, <2>8 DEF CancelLeavesNoOrphan
  <2>18. QED
    BY <1>c, <2>9, <2>10, <2>11, <2>12, <2>13, <2>14, <2>15, <2>16, <2>17 DEF SparkInv
<1>4. CASE ClearConnected(c)
  <2>1. /\ connected' = FALSE /\ cancel' = [cancel EXCEPT ![c].pc = "shut"]
        /\ UNCHANGED <<aborted, shut, jobs, user, seen>> /\ cancel[c].pc = "disconnect"
    BY <1>4 DEF ClearConnected, spark
  <2>2. cancel[c].sock # 0 /\ cancel[c].sock \in seen.flagged
    BY <1>0, <2>1 DEF CancelsAdvance
  <2>3. QED
    BY <1>2, <2>1, <2>2
<1>5. CASE ShutDown(c)
  <2>1. /\ shut' = shut \cup {cancel[c].sock} /\ seen' = [seen EXCEPT !.cut = seen.cut \cup {cancel[c].sock}]
        /\ cancel' = [cancel EXCEPT ![c].pc = "kill"] /\ cancel[c].pc = "shut"
        /\ UNCHANGED <<aborted, connected, jobs, user>>
    BY <1>5 DEF ShutDown, connection
  <2>2. cancel[c].sock \in Conns /\ cancel[c].sock \in seen.flagged
    BY <1>0, <1>a, <2>1 DEF CancelsAdvance, Conns
  <2>3. /\ seen'.flagged = seen.flagged /\ seen'.asked = seen.asked /\ seen'.wiped = seen.wiped
        /\ seen'.cut = seen.cut \cup {cancel[c].sock}
        /\ seen' \in [flagged : SUBSET Conns, cut : SUBSET Conns, wiped : SUBSET Conns,
                      asked : SUBSET (0..MaxConns)]
    BY <1>a, <2>1, <2>2
  <2>4. /\ cancel' \in [Cancels -> Cancel]
        /\ cancel'[c].pc = "kill" /\ cancel'[c].sock = cancel[c].sock
        /\ \A d \in Cancels : d # c => cancel'[d] = cancel[d]
    BY <1>a, <2>1 DEF Cancel
  <2>5. TypeOK'
    <3>1. shut' \subseteq Conns
      BY <1>a, <2>1, <2>2
    <3>2. QED
      BY <1>0, <1>b, <2>1, <2>3, <2>4, <3>1 DEF TypeOK
  <2>6. LocksAreHeld' /\ SnapshotsAreChosen' /\ ViewsAreOwn'
    BY <1>0, <1>b, <2>1 DEF LocksAreHeld, SnapshotsAreChosen, ViewsAreOwn
  <2>7. SnapshotsAge'
    BY <1>0, <1>b, <2>1 DEF SnapshotsAge, Past
  <2>8. FlagIsCurrent'
    BY <1>0, <1>b, <2>1, <2>2, <2>3 DEF FlagIsCurrent
  <2>9. BlameIsDue'
    BY <1>0, <2>1, <2>3 DEF BlameIsDue
  <2>10. CancelsAdvance'
    BY <1>0, <2>1, <2>2, <2>3, <2>4 DEF CancelsAdvance
  <2>11. CancelLeavesNoOrphan'
    BY <1>0, <2>1, <2>4 DEF CancelLeavesNoOrphan
  <2>12. QED
    BY <1>c, <2>5, <2>6, <2>7, <2>8, <2>9, <2>10, <2>11 DEF SparkInv
<1>6. CASE KillJobs(c)
  <2>1. /\ jobs' = {} /\ cancel' = [cancel EXCEPT ![c].pc = "killed"] /\ cancel[c].pc = "kill"
        /\ UNCHANGED <<aborted, connected, shut, user, seen>>
    BY <1>6 DEF KillJobs, connection
  <2>2. cancel[c].sock \in shut \cup {0}
    BY <1>0, <2>1 DEF CancelsAdvance
  <2>3. QED
    BY <1>2, <1>a, <2>1, <2>2
<1>7. CASE CancelReturns(c)
  <2>1. /\ cancel' = [cancel EXCEPT ![c].pc = "done"]
        /\ UNCHANGED <<aborted, connected, shut, jobs, user, seen>>
    BY <1>7 DEF CancelReturns, connection, spark
  <2>2. QED
    BY <1>2, <1>a, <2>1
<1>8. QED
  BY <1>1, <1>3, <1>4, <1>5, <1>6, <1>7 DEF Cancelling

\* Views go stale, snapshots go, and time passes.
LEMMA WorldKeepsSpark ==
  ASSUME SparkInv,
         \/ \E n \in Conns : ViewsGoStale(n)
         \/ \E s \in DOMAIN snaps, why \in {"ttl", "hand"} : SnapshotGoes(s, why)
         \/ Tick
  PROVE  SparkInv'
<1>0. /\ TypeOK /\ LocksAreHeld /\ ConnsAreNew /\ SnapshotsAge /\ SnapshotsAreChosen /\ ViewsAreOwn
      /\ FlagIsCurrent /\ BlameIsDue /\ CancelsAdvance /\ CancelLeavesNoOrphan
  BY DEF SparkInv
<1>a. UNCHANGED <<registers, opened, conn, sock, aborted, connected, lock, queryLock, shut, jobs,
                  last, user, cancel, seen>>
  BY DEF ViewsGoStale, SnapshotGoes, Tick, connection, spark, snapshots
<1>b. LocksAreHeld' /\ FlagIsCurrent' /\ BlameIsDue' /\ CancelsAdvance' /\ CancelLeavesNoOrphan'
  BY <1>0, <1>a DEF LocksAreHeld, FlagIsCurrent, BlameIsDue, CancelsAdvance, CancelLeavesNoOrphan
<1>c. /\ views \in [Conns -> 0..MaxSnapshots] /\ clock \in 0..MaxClock /\ MaxClock \in Nat
      /\ snaps \in Seq(Snapshot) /\ Len(snaps) \in Nat /\ Len(snaps) <= MaxSnapshots
      /\ SnapshotTTL \in Nat /\ MaxSnapshots \in Nat /\ Past' = Past
  BY <1>0, <1>a, SparkBounds, RoomForSnapshots DEF TypeOK, Past, Snapshot
<1>d. \A s \in 1..Len(snaps) : snaps[s] \in Snapshot /\ snaps[s].stamp \in Nat /\ snaps[s].born \in Nat
  <2>1. \A s \in 1..Len(snaps) : snaps[s] \in Snapshot
    BY <1>c
  <2>2. QED
    BY <1>c, <2>1 DEF Snapshot
<1>1. ASSUME NEW n \in Conns, ViewsGoStale(n) PROVE SparkInv'
  <2>1. registers /\ views' = [views EXCEPT ![n] = 0] /\ UNCHANGED <<snaps, clock>>
    BY <1>1 DEF ViewsGoStale, snapshots
  <2>2. views' \in [Conns -> 0..MaxSnapshots] /\ \A m \in Conns : views'[m] \in {0, views[m]}
    BY <1>c, <2>1
  <2>3. TypeOK'
    BY <1>0, <1>a, <2>1, <2>2 DEF TypeOK
  <2>4. ConnsAreNew'
    BY <1>0, <1>a, <2>2 DEF ConnsAreNew
  <2>5. SnapshotsAge' /\ SnapshotsAreChosen'
    BY <1>0, <1>a, <1>c, <2>1 DEF SnapshotsAge, SnapshotsAreChosen
  <2>6. ViewsAreOwn'
    BY <1>a, <2>1 DEF ViewsAreOwn
  <2>7. QED
    BY <1>b, <2>3, <2>4, <2>5, <2>6 DEF SparkInv
<1>2. ASSUME NEW s \in DOMAIN snaps, NEW why \in {"ttl", "hand"}, SnapshotGoes(s, why) PROVE SparkInv'
  <2>0. s \in 1..Len(snaps)
    BY <1>c
  <2>1. /\ snaps' = [snaps EXCEPT ![s].gone = why] /\ UNCHANGED <<views, clock>>
        /\ why = "ttl" => clock >= snaps[s].born + SnapshotTTL
    BY <1>2 DEF SnapshotGoes, spark
  <2>2. snaps' = [snaps EXCEPT ![s] = [snaps[s] EXCEPT !.gone = why]]
    BY <2>1
  <2>3. [snaps[s] EXCEPT !.gone = why] \in Snapshot
    BY <1>d, <2>0 DEF Snapshot
  <2>4. /\ snaps' \in Seq(Snapshot) /\ Len(snaps') = Len(snaps)
        /\ snaps'[s] = [snaps[s] EXCEPT !.gone = why]
        /\ \A t \in 1..Len(snaps) : t # s => snaps'[t] = snaps[t]
    BY <1>c, <2>0, <2>2, <2>3
  <2>5. /\ snaps'[s].stamp = snaps[s].stamp /\ snaps'[s].born = snaps[s].born
        /\ snaps'[s].gone = why
    BY <1>d, <2>0, <2>4 DEF Snapshot
  <2>6. TypeOK'
    BY <1>0, <1>a, <2>1, <2>4 DEF TypeOK, Snapshot
  <2>7. ConnsAreNew' /\ ViewsAreOwn'
    BY <1>0, <1>a, <2>1 DEF ConnsAreNew, ViewsAreOwn
  <2>8. SnapshotsAge'
    <3>1. \A t \in 1..Len(snaps) :
            /\ snaps'[t].stamp <= snaps'[t].born /\ snaps'[t].born <= clock
            /\ snaps'[t].gone = "ttl" => snaps'[t].born + SnapshotTTL <= clock
      <4> SUFFICES ASSUME NEW t \in 1..Len(snaps)
                   PROVE  /\ snaps'[t].stamp <= snaps'[t].born /\ snaps'[t].born <= clock
                          /\ snaps'[t].gone = "ttl" => snaps'[t].born + SnapshotTTL <= clock
        OBVIOUS
      <4>1. CASE t # s
        BY <1>0, <2>4, <4>1 DEF SnapshotsAge
      <4>2. CASE t = s
        BY <1>0, <1>c, <1>d, <2>1, <2>5, <4>2 DEF SnapshotsAge
      <4>3. QED
        BY <4>1, <4>2
    <3>2. QED
      BY <1>0, <1>a, <1>c, <2>1, <2>4, <3>1 DEF SnapshotsAge
  <2>9. SnapshotsAreChosen'
    <3>1. \A t \in 1..Len(snaps) : snaps'[t].stamp = snaps[t].stamp
      BY <2>4, <2>5
    <3>2. \A u \in Users : user[u].snap # 0 => user[u].snap \in 1..Len(snaps)
      <4>1. \A u \in Users : user[u].snap \in Nat
        BY <1>0, <1>c DEF TypeOK, User
      <4>2. QED
        BY <1>0, <1>c, <4>1 DEF SnapshotsAreChosen
    <3>3. QED
      BY <1>0, <1>a, <2>1, <2>4, <3>1, <3>2 DEF SnapshotsAreChosen
  <2>10. QED
    BY <1>b, <2>6, <2>7, <2>8, <2>9 DEF SparkInv
<1>3. CASE Tick
  <2>1. clock' = clock + 1 /\ clock' \in 0..MaxClock /\ UNCHANGED <<views, snaps>>
    BY <1>3, <1>c DEF Tick, spark
  <2>2. TypeOK'
    BY <1>0, <1>a, <2>1 DEF TypeOK
  <2>3. ConnsAreNew' /\ ViewsAreOwn'
    BY <1>0, <1>a, <2>1 DEF ConnsAreNew, ViewsAreOwn
  <2>4. SnapshotsAge'
    <3>1. \A s \in 1..Len(snaps) :
            /\ snaps[s].stamp <= snaps[s].born /\ snaps[s].born <= clock + 1
            /\ snaps[s].gone = "ttl" => snaps[s].born + SnapshotTTL <= clock + 1
      BY <1>0, <1>c, <1>d DEF SnapshotsAge
    <3>2. QED
      BY <1>0, <1>a, <1>c, <2>1, <3>1 DEF SnapshotsAge
  <2>5. SnapshotsAreChosen'
    <3>1. \A u \in Users : user[u].chosen <= clock + 1
      <4>1. \A u \in Users : user[u].chosen \in Nat /\ user[u].chosen <= clock
        BY <1>0, <1>c DEF TypeOK, User, SnapshotsAreChosen
      <4>2. QED
        BY <1>c, <4>1
    <3>2. QED
      BY <1>0, <1>a, <2>1, <3>1 DEF SnapshotsAreChosen
  <2>6. QED
    BY <1>b, <2>2, <2>3, <2>4, <2>5 DEF SparkInv
<1>4. QED
  BY <1>1, <1>2, <1>3

-----------------------------------------------------------------------------
(* SparkClient: the invariant *)

\* It holds initially.
LEMMA InitSpark == Init => SparkInv
<1> SUFFICES ASSUME Init PROVE SparkInv
  OBVIOUS
<1>a. /\ registers \in BOOLEAN /\ lock = NoThread /\ queryLock = NoThread
      /\ conn = 0 /\ sock = 0 /\ aborted = FALSE /\ connected = FALSE /\ opened = 0
      /\ shut = {} /\ views = [n \in Conns |-> 0] /\ jobs = {}
      /\ last = 0 /\ snaps = <<>> /\ clock = 0
      /\ user = [u \in Users |-> New]
      /\ cancel = [c \in Cancels |-> [pc |-> "new", sock |-> 0]]
      /\ seen = [flagged |-> {}, cut |-> {}, wiped |-> {}, asked |-> {}]
  BY DEF Init
<1>b. /\ MaxConns \in Nat /\ MaxClock \in Nat /\ MaxSnapshots \in Nat /\ New \in User
      /\ Cardinality(Past) \in Nat
      /\ 0 \in 0..MaxConns /\ 0 \in 0..MaxClock /\ 0 \in 0..MaxSnapshots
  BY SparkBounds, RoomForSnapshots, NewType
<1>c. \A u \in Users : user[u] = New
  BY <1>a
<1>d. /\ New.pc = "new" /\ New.snap = 0 /\ New.before = 0 /\ New.chosen = 0
      /\ New.retry = FALSE /\ New.cut = FALSE
  BY DEF New
<1>e. /\ Len(snaps) = 0 /\ snaps \in Seq(Snapshot)
  BY <1>a
<1>f. \A c \in Cancels : cancel[c].pc = "new"
  BY <1>a
<1>1. TypeOK
  <2>1. user \in [Users -> User] /\ views \in [Conns -> 0..MaxSnapshots]
    BY <1>a, <1>b
  <2>2. cancel \in [Cancels -> Cancel]
    BY <1>a, <1>b DEF Cancel
  <2>3. seen \in [flagged : SUBSET Conns, cut : SUBSET Conns, wiped : SUBSET Conns,
                  asked : SUBSET (0..MaxConns)]
    BY <1>a
  <2>4. /\ registers \in BOOLEAN /\ aborted \in BOOLEAN /\ connected \in BOOLEAN
        /\ lock \in Users \cup {NoThread} /\ queryLock \in Users \cup {NoThread}
    BY <1>a
  <2>5. /\ conn \in 0..MaxConns /\ sock \in 0..MaxConns /\ opened \in 0..MaxConns
        /\ shut \subseteq Conns /\ jobs \subseteq Conns
        /\ Len(snaps) <= MaxSnapshots /\ last \in 0..Len(snaps) /\ clock \in 0..MaxClock
    BY <1>a, <1>b, <1>e
  <2>6. QED
    BY <1>e, <2>1, <2>2, <2>3, <2>4, <2>5 DEF TypeOK, Snapshot
<1>2. LocksAreHeld
  BY <1>c, <1>d DEF LocksAreHeld, Holding, Querying
<1>3. ConnsAreNew
  BY <1>a DEF ConnsAreNew
<1>4. SnapshotsAge
  BY <1>b, <1>e DEF SnapshotsAge
<1>5. SnapshotsAreChosen
  BY <1>a, <1>c, <1>d, <1>e DEF SnapshotsAreChosen
<1>6. ViewsAreOwn
  BY <1>c, <1>d DEF ViewsAreOwn
<1>7. FlagIsCurrent /\ BlameIsDue
  BY <1>a, <1>c, <1>d DEF FlagIsCurrent, BlameIsDue
<1>8. CancelsAdvance /\ CancelLeavesNoOrphan
  BY <1>f DEF CancelsAdvance, CancelLeavesNoOrphan
<1>9. QED
  BY <1>1, <1>2, <1>3, <1>4, <1>5, <1>6, <1>7, <1>8 DEF SparkInv

\* Every step keeps it.
LEMMA SparkStep == SparkInv /\ [Next]_vars => SparkInv'
<1> SUFFICES ASSUME SparkInv, [Next]_vars PROVE SparkInv'
  OBVIOUS
<1>1. ASSUME NEW u \in Users, Acts(u) PROVE SparkInv'
  BY <1>1, ActsKeepsTypes, ActsKeepsLocks, ActsKeepsConns, ActsKeepsAges, ActsKeepsChoices,
     ActsKeepsViews, ActsKeepsFlag, ActsKeepsBlame, ActsKeepsCancels DEF SparkInv
<1>2. ASSUME NEW c \in Cancels, Cancelling(c) PROVE SparkInv'
  BY <1>2, CancelKeepsSpark
<1>3. CASE \/ \E n \in Conns : ViewsGoStale(n)
           \/ \E s \in DOMAIN snaps, why \in {"ttl", "hand"} : SnapshotGoes(s, why)
           \/ Tick
  BY <1>3, WorldKeepsSpark
<1>4. CASE UNCHANGED vars
  <2>1. UNCHANGED <<registers, opened, conn, sock, aborted, connected, lock, queryLock, shut, views,
                    jobs, last, snaps, clock, user, cancel, seen>>
    BY <1>4 DEF vars, connection, spark, snapshots
  <2>2. TypeOK' /\ LocksAreHeld' /\ ConnsAreNew' /\ SnapshotsAreChosen' /\ ViewsAreOwn'
    BY <2>1 DEF SparkInv, TypeOK, LocksAreHeld, ConnsAreNew, SnapshotsAreChosen, ViewsAreOwn
  <2>3. SnapshotsAge' /\ FlagIsCurrent' /\ BlameIsDue' /\ CancelsAdvance' /\ CancelLeavesNoOrphan'
    BY <2>1 DEF SparkInv, SnapshotsAge, Past, FlagIsCurrent, BlameIsDue, CancelsAdvance,
                CancelLeavesNoOrphan
  <2>4. QED
    BY <2>2, <2>3 DEF SparkInv
<1>5. QED
  BY <1>1, <1>2, <1>3, <1>4 DEF Next, Acts

\* So it always holds.
LEMMA SparkInvariant == Spec => []SparkInv
<1>1. Init => SparkInv
  BY InitSpark
<1>2. SparkInv /\ [Next]_vars => SparkInv'
  BY SparkStep
<1>3. QED
  BY <1>1, <1>2, PTL DEF Spec

-----------------------------------------------------------------------------
(* SparkClient: the theorems *)

\* However many requests, reconnects and cancels share the client: everything has its
\* type (a request takes one snapshot at most, so there are no more snapshots than
\* requests), and once a cancel has killed the jobs, none is left or begins on the
\* connection it cut (spark_client.py, abort and kill_jobs_for).
THEOREM NoOrphanIsLeft == Spec => [](TypeOK /\ CancelLeavesNoOrphan)
<1>1. SparkInv => TypeOK /\ CancelLeavesNoOrphan
  BY DEF SparkInv
<1>2. QED
  BY <1>1, SparkInvariant, PTL

\* A snapshot that is reused (_reusable) outlives the statement that reads it: if its
\* TTL takes it away, more than the query's timeout has passed since it was chosen,
\* for every TTL that is longer than the timeout.
THEOREM ReusedSnapshotsLast == Spec => []SnapshotsOutliveATimeout
<1>1. SparkInv => SnapshotsOutliveATimeout
  <2> SUFFICES ASSUME SparkInv, NEW u \in Users, user[u].snap # 0,
                      snaps[user[u].snap].gone = "ttl"
               PROVE  clock - user[u].chosen > QueryTimeout
    BY DEF SnapshotsOutliveATimeout
  <2>0. TypeOK /\ SnapshotsAge /\ SnapshotsAreChosen
    BY DEF SparkInv
  <2>1. user[u] \in User /\ clock \in 0..MaxClock /\ snaps \in Seq(Snapshot) /\ Len(snaps) \in Nat
    BY <2>0 DEF TypeOK, Snapshot
  <2>a. /\ user[u].snap \in Nat /\ user[u].chosen \in Nat /\ clock \in Nat
        /\ SnapshotTTL \in Nat /\ QueryTimeout \in Nat
    BY <2>1, SparkBounds, RoomForSnapshots DEF User
  <2>2. user[u].snap \in 1..Len(snaps)
    BY <2>0, <2>1, <2>a DEF SnapshotsAreChosen
  <2>3. snaps[user[u].snap].stamp \in Nat /\ snaps[user[u].snap].born \in Nat
    <3>1. snaps[user[u].snap] \in Snapshot
      BY <2>1, <2>2
    <3>2. QED
      BY <3>1, SparkBounds DEF Snapshot
  <2>4. /\ snaps[user[u].snap].stamp <= snaps[user[u].snap].born
        /\ snaps[user[u].snap].born + SnapshotTTL <= clock
    BY <2>0, <2>2 DEF SnapshotsAge
  <2>5. user[u].chosen - snaps[user[u].snap].stamp < SnapshotTTL - QueryTimeout
    BY <2>0 DEF SnapshotsAreChosen
  <2>6. QED
    <3>1. PICK stamp \in Nat : stamp = snaps[user[u].snap].stamp
      BY <2>3
    <3>2. PICK born \in Nat : born = snaps[user[u].snap].born
      BY <2>3
    <3>3. PICK chosen \in Nat : chosen = user[u].chosen
      BY <2>a
    <3>4. stamp <= born /\ born + SnapshotTTL <= clock /\ chosen - stamp < SnapshotTTL - QueryTimeout
      BY <2>4, <2>5, <3>1, <3>2, <3>3
    <3>5. clock - chosen > QueryTimeout
      BY <2>a, <3>4
    <3>6. QED
      BY <3>3, <3>5
<1>2. QED
  BY <1>1, SparkInvariant, PTL

\* The steps that end a request, and what each has it say.
LEMMA ReportIs ==
  ASSUME SparkInv, [Next]_vars, NEW u \in Users, user[u].pc # "done", user'[u].pc = "done"
  PROVE  \/ user'[u].out \in {"none", "failed"}
         \/ Answer(u) /\ user'[u].out = "rows"
         \/ Blame(u) /\ user'[u].out = IF aborted THEN "cancelled" ELSE "quiet"
         \/ Close(u) /\ user'[u].out = IF user[u].cancelled THEN "cancelled" ELSE "quiet"
<1>0. TypeOK /\ LocksAreHeld /\ SnapshotsAge
  BY DEF SparkInv
<1>a. user \in [Users -> User] /\ user[u] \in User
  BY <1>0 DEF TypeOK
<1>1. Acts(u)
  <2>1. ASSUME NEW v \in Users, Acts(v), v # u PROVE FALSE
    BY <1>0, <2>1, ActsIsOwn
  <2>2. ASSUME NEW c \in Cancels, Cancelling(c) PROVE FALSE
    <3>1. CASE SetAborted(c)
      <4>1. \/ user'[u] = user[u]
            \/ user'[u] = [user[u] EXCEPT !.flagged = TRUE]
        BY <3>1 DEF SetAborted
      <4>2. user'[u].pc = user[u].pc
        BY <1>a, <4>1 DEF User
      <4>3. QED
        BY <4>2
    <3>2. CASE ~SetAborted(c)
      BY <2>2, <3>2 DEF Cancelling, ReadSocket, ClearConnected, ShutDown, KillJobs, CancelReturns
    <3>3. QED
      BY <3>1, <3>2
  <2>3. user' = user => FALSE
    OBVIOUS
  <2>4. QED
    BY <2>1, <2>2, <2>3 DEF Next, Acts, ViewsGoStale, SnapshotGoes, Tick, vars
<1>2. ASSUME NEW pc \in {"opening", "opened", "recheck", "kept", "cleared", "register", "execute",
                         "choose", "enter"}, Goes(u, pc)
      PROVE  FALSE
  BY <1>0, <1>2, GoesIs
<1>3. CASE Ends(u, "failed")
  BY <1>0, <1>3, EndsIs
<1>4. CASE (\E reuse \in BOOLEAN : AskQuery(u, reuse)) \/ AskReconnect(u)
  BY <1>0, <1>4, AskIs
<1>5. CASE Recheck(u)
  BY <1>0, <1>5, RecheckIs
<1>6. CASE Acquire(u) \/ OpenSession(u) \/ KeepSocket(u) \/ ClearAborted(u) \/ OpenFails(u)
           \/ SetConnected(u) \/ RegisterViews(u) \/ Enter(u)
  BY <1>2, <1>6 DEF Acquire, OpenSession, KeepSocket, ClearAborted, OpenFails, SetConnected,
                    RegisterViews, Enter
<1>7. CASE ReuseSnapshot(u) \/ NameSnapshot(u) \/ ViewRegistered(u) \/ Send(u)
  BY <1>0, <1>7, ReuseIs, NameIs, RegisteredIs, SendIs
<1>8. CASE NoConnection(u) \/ ViewFails(u)
  BY <1>3, <1>8 DEF NoConnection, ViewFails
<1>9. CASE Answer(u)
  BY <1>0, <1>9, EndsIs DEF Answer
<1>10. CASE StatementFails(u)
  <2>1. CASE registers /\ ViewOf(u) = 0 /\ ~user[u].retry
    BY <1>0, <1>10, <2>1, RetryIs
  <2>2. CASE ~(registers /\ ViewOf(u) = 0 /\ ~user[u].retry)
    BY <1>3, <1>10, <2>2 DEF StatementFails
  <2>3. QED
    BY <2>1, <2>2
<1>11. CASE TransportFails(u)
  <2>1. CASE user[u].retry
    BY <1>3, <1>11, <2>1 DEF TransportFails
  <2>2. CASE ~user[u].retry
    BY <1>0, <1>11, <2>2, TransportIs
  <2>3. QED
    BY <2>1, <2>2
<1>12. CASE Blame(u)
  <2>1. CASE registers
    BY <1>0, <1>12, <2>1, BlameIs
  <2>2. CASE ~registers
    <3>1. Ends(u, IF aborted THEN "cancelled" ELSE "quiet")
      BY <1>12, <2>2 DEF Blame
    <3>2. QED
      BY <1>0, <1>12, <3>1, EndsIs
  <2>3. QED
    BY <2>1, <2>2
<1>13. CASE Close(u)
  <2>1. Ends(u, IF user[u].cancelled THEN "cancelled" ELSE "quiet")
    BY <1>13 DEF Close
  <2>2. QED
    BY <1>0, <1>13, <2>1, EndsIs
<1>14. QED
  BY <1>1, <1>4, <1>5, <1>6, <1>7, <1>8, <1>9, <1>10, <1>11, <1>12, <1>13 DEF Acts, Progress

\* execute_query's two explanations of one transport error, for any number of requests,
\* cancels and reconnects in any order: "cancelled" is said only where a cancel came, and
\* a query whose socket was cut blames the server only if a connect wiped the flag.
THEOREM CancelsAreToldRight == Spec => CancelsAreTold
<1>1. ASSUME SparkInv, [Next]_vars
      PROVE  [\A u \in Users :
                /\ Reports(u, "cancelled") => user[u].flagged \/ user[u].on \in seen.asked
                /\ Reports(u, "quiet") /\ user[u].cut => user[u].on \in seen.wiped]_vars
  <2>0. FlagIsCurrent /\ BlameIsDue
    BY <1>1 DEF SparkInv
  <2>1. ASSUME NEW u \in Users, Reports(u, "cancelled")
        PROVE  user[u].flagged \/ user[u].on \in seen.asked
    <3>1. \/ Blame(u) /\ aborted
          \/ Close(u) /\ user[u].cancelled
      BY <1>1, <2>1, ReportIs DEF Reports
    <3>2. QED
      BY <2>0, <3>1 DEF Blame, Close, BlameIsDue
  <2>2. ASSUME NEW u \in Users, Reports(u, "quiet"), user[u].cut
        PROVE  user[u].on \in seen.wiped
    <3>1. \/ Blame(u) /\ ~aborted
          \/ Close(u) /\ ~user[u].cancelled
      BY <1>1, <2>2, ReportIs DEF Reports
    <3>2. CASE Blame(u) /\ ~aborted
      BY <2>0, <2>2, <3>2 DEF BlameIsDue, FlagIsCurrent
    <3>3. CASE Close(u) /\ ~user[u].cancelled
      BY <2>0, <2>2, <3>3 DEF Close, BlameIsDue
    <3>4. QED
      BY <3>1, <3>2, <3>3
  <2>3. QED
    BY <2>1, <2>2
<1>2. QED
  BY <1>1, SparkInvariant, PTL DEF Spec, CancelsAreTold

\* SparkBulkClient.execute_query, whoever queries, reconnects and cancels beside it: the
\* rows of a bulk query come from the snapshot it registered, which was taken after it
\* was asked, or which it was allowed to reuse and was young enough.
THEOREM AnswersStayCurrent == Spec => AnswersAreCurrent
<1>1. ASSUME SparkInv, [Next]_vars
      PROVE  [\A u \in Users :
                Reports(u, "rows") /\ ~registers => ViewOf(u) = user[u].snap /\ Current(u)]_vars
  <2> SUFFICES ASSUME NEW u \in Users, Reports(u, "rows"), ~registers
               PROVE  ViewOf(u) = user[u].snap /\ Current(u)
    OBVIOUS
  <2>0. ViewsAreOwn /\ SnapshotsAreChosen
    BY <1>1 DEF SparkInv
  <2>1. Answer(u)
    BY <1>1, ReportIs DEF Reports
  <2>2. user[u].pc = "running" /\ ViewOf(u) # 0
    BY <2>1 DEF Answer, Working
  <2>3. ViewOf(u) = user[u].snap /\ user[u].snap # 0
    BY <2>0, <2>2 DEF ViewsAreOwn, ViewOf
  <2>4. QED
    BY <2>0, <2>3 DEF SnapshotsAreChosen, Current
<1>2. QED
  BY <1>1, SparkInvariant, PTL DEF Spec, AnswersAreCurrent

-----------------------------------------------------------------------------
(* SqlConsole: the invariants *)

Tables == Parents \o Children
Ops    == {"createType", "create", "seed", "drop", "dropType", "read", "catalog",
           "file", "take", "status"}
Stmt   == {s \in [op : Ops, on : Register] : s.op = "seed" => s.on \in ToSet(Parents)}

Caller == [job : Jobs, pc : {"new", "ready", "lock", "batch", "running"}, at : Nat,
           calm : BOOLEAN, errors : SUBSET Ops]

ConsoleTypes ==
    /\ up \in BOOLEAN /\ typed \in BOOLEAN /\ era \in 0..(MaxOutages + 1)
    /\ up => era >= 1
    /\ ~up => era <= MaxOutages
    /\ rows \in [Register -> {"absent", "empty", "seeded", "changed"}]
    /\ \A t \in Register : t \notin ToSet(Parents) => rows[t] # "seeded"
    /\ sqlConn \in 0..era /\ sqlConnected = (sqlConn # 0)
    /\ sqlLock \in Callers \cup {NoCaller} /\ pageLock \in Callers \cup {NoCaller}
    /\ caller \in [Callers -> Caller]
    /\ costs \in [1..(MaxOutages + 1) -> Nat]

\* Where each request is: a statement is sent under the client's lock on some
\* connection, and all pages but the explorer send theirs under the page's lock.
CallsAdvance ==
    \A t \in Callers :
        /\ caller[t].at >= 1 /\ caller[t].at <= Len(Statements(caller[t].job)) + 1
        /\ caller[t].pc \in {"new", "ready", "lock"} => caller[t].at = 1 /\ caller[t].errors = {}
        /\ caller[t].pc = "running" => sqlLock = t /\ sqlConn # 0 /\ More(t)
        /\ caller[t].pc \in {"batch", "running"} /\ caller[t].job # "explore" => pageLock = t
        /\ caller[t].calm => up /\ sqlConn \in {0, era}

\* An era that has cost a statement costs no other: the connection is of that era.
CostsAreBounded ==
    \A e \in 1..(MaxOutages + 1) :
        /\ costs[e] <= 1
        /\ e > era => costs[e] = 0
        /\ costs[e] = 1 /\ e = era => sqlConn \in {0, era}

\* The tables that a reset has dropped, created and seeded before its k-th statement.
ResetRow(j, k) ==
    IF j <= Len(Parents) /\ k > 2 * Len(Tables) + 2 + j THEN {"seeded"}
    ELSE IF k > Len(Tables) + 2 + j THEN {"empty"}
    ELSE IF k > Len(Tables) - j + 1 THEN {"absent"}
    ELSE {"absent", "empty", "seeded", "changed"}

\* A request in the middle of a batch that the service has been up for.
Calm(t, job) ==
    caller[t].calm /\ caller[t].pc \in {"batch", "running"} /\ caller[t].job = job

ResetGoesOn ==
    \A t \in Callers : Calm(t, "reset") =>
        /\ \A j \in 1..Len(Tables) : rows[Tables[j]] \in ResetRow(j, caller[t].at)
        /\ caller[t].at = Len(Tables) + 2 => ~typed
        /\ caller[t].at > Len(Tables) + 2 => typed
        /\ caller[t].errors \subseteq {"dropType"}

SchemaGoesOn ==
    \A t \in Callers : Calm(t, "schema") =>
        \A j \in 1..Len(Tables) :
            /\ caller[t].at > j + 1 => rows[Tables[j]] # "absent"
            /\ j <= Len(Parents) /\ caller[t].at > Len(Tables) + 1 + j
                => rows[Tables[j]] \notin {"absent", "empty"}

\* The inductive invariant.
ConsoleInv ==
    ConsoleTypes /\ CallsAdvance /\ CostsAreBounded /\ ResetGoesOn /\ SchemaGoesOn

-----------------------------------------------------------------------------
(* SqlConsole: the statements *)

\* The register is the parents and the children, each table once.
LEMMA TablesAre ==
  /\ Parents \in Seq(ToSet(Parents)) /\ Children \in Seq(ToSet(Children))
  /\ Len(Parents) \in Nat /\ Len(Parents) >= 1 /\ Len(Children) \in Nat
  /\ Tables \in Seq(Register) /\ Len(Tables) = Len(Parents) + Len(Children)
  /\ \A i \in 1..Len(Parents) : Tables[i] = Parents[i] /\ Parents[i] \in ToSet(Parents)
  /\ \A i \in 1..Len(Tables) : Tables[i] \in Register
  /\ \A i, j \in 1..Len(Tables) : Tables[i] = Tables[j] => i = j
  /\ \A p \in Register : \E i \in 1..Len(Tables) : p = Tables[i]
  /\ \A p \in ToSet(Parents) : \E i \in 1..Len(Parents) : p = Tables[i]
  /\ \A i \in 1..Len(Tables) : Tables[i] \in ToSet(Parents) => i <= Len(Parents)
  /\ Last(Parents) \in ToSet(Parents) /\ Last(Parents) \in Register
  /\ ToSet(Parents) \subseteq Register
<1>1. /\ Parents \in Seq(ToSet(Parents)) /\ Children \in Seq(ToSet(Children))
      /\ IsInjective(Tables) /\ Parents # <<>>
  BY ConsoleAssumption DEF Tables
<1>2. /\ Len(Parents) \in Nat /\ Len(Children) \in Nat /\ Len(Parents) >= 1
      /\ DOMAIN Parents = 1..Len(Parents)
  BY <1>1
<1>3. /\ Tables \in Seq(ToSet(Parents) \cup ToSet(Children))
      /\ Len(Tables) = Len(Parents) + Len(Children) /\ Len(Tables) \in Nat
      /\ DOMAIN Tables = 1..Len(Tables)
      /\ \A i \in 1..Len(Parents) : Tables[i] = Parents[i]
  BY <1>1, <1>2 DEF Tables
<1>4. \A i, j \in 1..Len(Tables) : Tables[i] = Tables[j] => i = j
  BY <1>1, <1>3 DEF IsInjective
<1>5. /\ \A p \in Register : \E i \in 1..Len(Tables) : p = Tables[i]
      /\ \A i \in 1..Len(Tables) : Tables[i] \in Register
  BY <1>3 DEF Register, ToSet, Tables
<1>6. /\ \A p \in ToSet(Parents) : \E i \in 1..Len(Parents) : p = Tables[i]
      /\ \A i \in 1..Len(Parents) : Parents[i] \in ToSet(Parents)
  BY <1>2, <1>3 DEF ToSet
<1>7. Tables \in Seq(Register)
  BY <1>3, <1>5
<1>8. \A i \in 1..Len(Tables) : Tables[i] \in ToSet(Parents) => i <= Len(Parents)
  <2> SUFFICES ASSUME NEW i \in 1..Len(Tables), Tables[i] \in ToSet(Parents)
               PROVE  i <= Len(Parents)
    OBVIOUS
  <2>1. PICK j \in 1..Len(Parents) : Tables[i] = Tables[j]
    BY <1>6
  <2>2. j \in 1..Len(Tables)
    BY <1>2, <1>3
  <2>3. i = j
    BY <1>4, <2>1, <2>2
  <2>4. QED
    BY <2>3
<1>9. ToSet(Parents) \subseteq Register
  <2> SUFFICES ASSUME NEW p \in ToSet(Parents) PROVE p \in Register
    OBVIOUS
  <2>1. PICK i \in 1..Len(Parents) : p = Tables[i]
    BY <1>6
  <2>2. i \in 1..Len(Tables)
    BY <1>2, <1>3
  <2>3. QED
    BY <1>5, <2>1, <2>2
<1>10. Last(Parents) \in ToSet(Parents)
  BY <1>2, <1>6 DEF Last
<1>11. QED
  BY <1>1, <1>2, <1>3, <1>4, <1>5, <1>6, <1>7, <1>8, <1>9, <1>10

\* What is a statement.
LEMMA StmtIs ==
  /\ \A op \in Ops \ {"seed"}, t \in Register : [op |-> op, on |-> t] \in Stmt
  /\ \A t \in ToSet(Parents) : [op |-> "seed", on |-> t] \in Stmt
  BY TablesAre DEF Stmt, Ops

\* One statement on its own.
LEMMA OneIs ==
  ASSUME NEW op, NEW T, [op |-> op, on |-> Last(Parents)] \in T
  PROVE  /\ One(op) \in Seq(T) /\ Len(One(op)) = 1
         /\ One(op)[1] = [op |-> op, on |-> Last(Parents)]
  BY DEF One

\* The lists that the pages' statements are made of.
LEMMA ListsAre ==
  /\ \A op \in Ops \ {"seed"} :
        /\ One(op) \in Seq(Stmt) /\ Len(One(op)) = 1 /\ One(op)[1].op = op
        /\ Each(op, Tables) \in Seq(Stmt) /\ Len(Each(op, Tables)) = Len(Tables)
        /\ \A i \in 1..Len(Tables) : Each(op, Tables)[i] = [op |-> op, on |-> Tables[i]]
  /\ Each("seed", Parents) \in Seq(Stmt) /\ Len(Each("seed", Parents)) = Len(Parents)
  /\ \A i \in 1..Len(Parents) : Each("seed", Parents)[i] = [op |-> "seed", on |-> Tables[i]]
  /\ Each("drop", Reverse(Tables)) \in Seq(Stmt)
  /\ Len(Each("drop", Reverse(Tables))) = Len(Tables)
  /\ \A i \in 1..Len(Tables) :
        Each("drop", Reverse(Tables))[i] = [op |-> "drop", on |-> Tables[(Len(Tables) - i) + 1]]
<1>1. ASSUME NEW op \in Ops \ {"seed"}
      PROVE  /\ One(op) \in Seq(Stmt) /\ Len(One(op)) = 1 /\ One(op)[1].op = op
             /\ Each(op, Tables) \in Seq(Stmt) /\ Len(Each(op, Tables)) = Len(Tables)
             /\ \A i \in 1..Len(Tables) : Each(op, Tables)[i] = [op |-> op, on |-> Tables[i]]
  <2>1. [op |-> op, on |-> Last(Parents)] \in Stmt /\ \A t \in Register : [op |-> op, on |-> t] \in Stmt
    BY TablesAre, StmtIs
  <2>2. One(op) \in Seq(Stmt) /\ Len(One(op)) = 1 /\ One(op)[1] = [op |-> op, on |-> Last(Parents)]
    BY <2>1, OneIs
  <2>3. Tables \in Seq(Register)
    BY TablesAre
  <2>4. /\ Each(op, Tables) \in Seq(Stmt) /\ Len(Each(op, Tables)) = Len(Tables)
        /\ \A i \in 1..Len(Tables) : Each(op, Tables)[i] = [op |-> op, on |-> Tables[i]]
    <3>1. Each(op, Tables) = [i \in 1..Len(Tables) |-> [op |-> op, on |-> Tables[i]]]
      BY <2>3 DEF Each
    <3>2. \A i \in 1..Len(Tables) : [op |-> op, on |-> Tables[i]] \in Stmt
      BY <2>1, <2>3
    <3>3. Len(Tables) \in Nat
      BY <2>3
    <3>4. QED
      BY <3>1, <3>2, <3>3
  <2>5. QED
    BY <2>2, <2>4
<1>2. /\ Each("seed", Parents) \in Seq(Stmt) /\ Len(Each("seed", Parents)) = Len(Parents)
      /\ \A i \in 1..Len(Parents) : Each("seed", Parents)[i] = [op |-> "seed", on |-> Parents[i]]
  <2>1. Parents \in Seq(ToSet(Parents)) /\ \A t \in ToSet(Parents) : [op |-> "seed", on |-> t] \in Stmt
    BY TablesAre, StmtIs
  <2>2. QED
    <3>1. Each("seed", Parents) = [i \in 1..Len(Parents) |-> [op |-> "seed", on |-> Parents[i]]]
      BY <2>1 DEF Each
    <3>2. \A i \in 1..Len(Parents) : [op |-> "seed", on |-> Parents[i]] \in Stmt
      BY <2>1
    <3>3. Len(Parents) \in Nat
      BY <2>1
    <3>4. QED
      BY <3>1, <3>2, <3>3
<1> DEFINE n == Len(Tables)
<1>3. /\ Reverse(Tables) \in Seq(Register) /\ Len(Reverse(Tables)) = n
      /\ \A i \in 1..n : Reverse(Tables)[i] = Tables[(n - i) + 1]
  <2>a. n \in Nat
    BY TablesAre
  <2>1. \A i \in 1..n : (n - i) + 1 \in 1..n
    BY <2>a
  <2>2. \A i \in 1..n : Tables[(n - i) + 1] \in Register
    BY <2>1, TablesAre
  <2>3. Reverse(Tables) = [i \in 1..n |-> Tables[(n - i) + 1]]
    BY DEF Reverse
  <2> HIDE DEF n
  <2>4. QED
    BY <2>a, <2>2, <2>3
<1>4. \A t \in Register : [op |-> "drop", on |-> t] \in Stmt
  BY StmtIs DEF Ops
<1>5. /\ Each("drop", Reverse(Tables)) \in Seq(Stmt)
      /\ Len(Each("drop", Reverse(Tables))) = Len(Reverse(Tables))
      /\ \A i \in 1..Len(Reverse(Tables)) :
            Each("drop", Reverse(Tables))[i] = [op |-> "drop", on |-> Reverse(Tables)[i]]
  <2>1. PICK rev \in Seq(Register) : rev = Reverse(Tables)
    BY <1>3
  <2>2. Each("drop", rev) = [i \in 1..Len(rev) |-> [op |-> "drop", on |-> rev[i]]]
    BY <2>1 DEF Each
  <2>3. Len(rev) \in Nat /\ \A i \in 1..Len(rev) : [op |-> "drop", on |-> rev[i]] \in Stmt
    BY <1>4
  <2>4. Each("drop", rev) \in Seq(Stmt) /\ Len(Each("drop", rev)) = Len(rev)
    BY <2>2, <2>3
  <2>5. \A i \in 1..Len(rev) : Each("drop", rev)[i] = [op |-> "drop", on |-> rev[i]]
    BY <2>2
  <2>6. QED
    BY <2>1, <2>4, <2>5
<1>6. \A i \in 1..Len(Parents) : Each("seed", Parents)[i] = [op |-> "seed", on |-> Tables[i]]
  BY <1>2, TablesAre
<1>7. \A i \in 1..n : Each("drop", Reverse(Tables))[i] = [op |-> "drop", on |-> Tables[(n - i) + 1]]
  BY <1>3, <1>5
<1>8. QED
  BY <1>1, <1>2, <1>3, <1>5, <1>6, <1>7

\* A schema run: the types, every table, and the seed of the parents.
LEMMA SchemaIs ==
  LET n == Len(Tables) p == Len(Parents) IN
  /\ SchemaStatements \in Seq(Stmt) /\ SeedStatements \in Seq(Stmt)
  /\ Statements("schema") = SchemaStatements \o SeedStatements
  /\ Statements("schema") \in Seq(Stmt) /\ Len(Statements("schema")) = n + 1 + p
  /\ Statements("schema")[1].op = "createType"
  /\ \A j \in 1..n : Statements("schema")[j + 1] = [op |-> "create", on |-> Tables[j]]
  /\ \A j \in 1..p : Statements("schema")[(n + 1) + j] = [op |-> "seed", on |-> Tables[j]]
<1> DEFINE n == Len(Tables)
           p == Len(Parents)
<1>a. n \in Nat /\ p \in Nat
  BY TablesAre
<1>0. "createType" \in Ops \ {"seed"} /\ "create" \in Ops \ {"seed"}
  BY DEF Ops
<1>1. PICK A \in Seq(Stmt) : A = One("createType") /\ Len(A) = 1 /\ A[1].op = "createType"
  BY <1>0, ListsAre
<1>2. PICK B \in Seq(Stmt) : /\ B = Each("create", Tables) /\ Len(B) = n
                             /\ \A i \in 1..n : B[i] = [op |-> "create", on |-> Tables[i]]
  BY <1>0, ListsAre
<1>3. PICK C \in Seq(Stmt) : /\ C = SeedStatements /\ Len(C) = p
                             /\ \A i \in 1..p : C[i] = [op |-> "seed", on |-> Tables[i]]
  BY ListsAre DEF SeedStatements
<1> HIDE DEF n, p
<1>4. PICK D \in Seq(Stmt) : /\ D = SchemaStatements /\ Len(D) = n + 1
                             /\ D[1] = A[1]
                             /\ \A j \in 1..n : D[j + 1] = B[j]
  <2>1. SchemaStatements = A \o B
    BY <1>1, <1>2 DEF SchemaStatements, Tables
  <2>2. /\ A \o B \in Seq(Stmt) /\ Len(A \o B) = 1 + n
        /\ \A i \in 1..(1 + n) : (A \o B)[i] = IF i <= 1 THEN A[i] ELSE B[i - 1]
    <3>1. /\ A \o B \in Seq(Stmt) /\ Len(A \o B) = Len(A) + Len(B)
          /\ \A i \in 1..(Len(A) + Len(B)) :
                (A \o B)[i] = IF i <= Len(A) THEN A[i] ELSE B[i - Len(A)]
      BY ConcatProperties
    <3>2. QED
      BY <1>1, <1>2, <3>1
  <2>3. 1 \in 1..(1 + n) /\ \A j \in 1..n : j + 1 \in 1..(1 + n) /\ (j + 1) - 1 = j /\ ~(j + 1 <= 1)
    BY <1>a
  <2>4. (A \o B)[1] = A[1] /\ \A j \in 1..n : (A \o B)[j + 1] = B[j]
    BY <2>2, <2>3
  <2>5. Len(A \o B) = n + 1
    BY <1>a, <2>2
  <2>6. QED
    BY <2>1, <2>2, <2>4, <2>5
<1>5. /\ D \o C \in Seq(Stmt) /\ Len(D \o C) = n + 1 + p
      /\ \A i \in 1..(n + 1 + p) : (D \o C)[i] = IF i <= n + 1 THEN D[i] ELSE C[i - (n + 1)]
  BY <1>3, <1>4, ConcatProperties
<1>6. (D \o C)[1] = D[1] /\ \A j \in 1..n : (D \o C)[j + 1] = D[j + 1]
  <2>1. 1 \in 1..(n + 1 + p) /\ \A j \in 1..n : j + 1 \in 1..(n + 1 + p) /\ j + 1 <= n + 1
    BY <1>a
  <2>2. 1 <= n + 1
    BY <1>a
  <2>3. QED
    BY <1>5, <2>1, <2>2
<1>7. \A j \in 1..p : (D \o C)[(n + 1) + j] = C[j]
  <2>1. \A j \in 1..p : /\ (n + 1) + j \in 1..(n + 1 + p) /\ ~((n + 1) + j <= n + 1)
                        /\ ((n + 1) + j) - (n + 1) = j
    BY <1>a
  <2>2. QED
    BY <1>5, <2>1
<1>8. Statements("schema") = D \o C
  BY <1>3, <1>4 DEF Statements
<1>9. /\ Statements("schema")[1].op = "createType"
      /\ \A j \in 1..n : Statements("schema")[j + 1] = [op |-> "create", on |-> Tables[j]]
      /\ \A j \in 1..p : Statements("schema")[(n + 1) + j] = [op |-> "seed", on |-> Tables[j]]
  <2>1. Statements("schema")[1].op = "createType"
    BY <1>1, <1>4, <1>6, <1>8
  <2>2. \A j \in 1..n : Statements("schema")[j + 1] = [op |-> "create", on |-> Tables[j]]
    <3>1. \A j \in 1..n : (D \o C)[j + 1] = B[j]
      BY <1>4, <1>6
    <3>2. QED
      BY <1>2, <1>8, <3>1
  <2>3. \A j \in 1..p : Statements("schema")[(n + 1) + j] = [op |-> "seed", on |-> Tables[j]]
    BY <1>3, <1>7, <1>8
  <2>4. QED
    BY <2>1, <2>2, <2>3
<1>10. QED
  BY <1>3, <1>4, <1>5, <1>8, <1>9 DEF n, p

\* A reset: the tables go in reverse, then the types, and a schema run follows.
LEMMA ResetIs ==
  LET n == Len(Tables) p == Len(Parents) IN
  /\ Statements("reset") \in Seq(Stmt) /\ Len(Statements("reset")) = 2 * n + 2 + p
  /\ \A j \in 1..n : Statements("reset")[(n + 1) - j] = [op |-> "drop", on |-> Tables[j]]
  /\ Statements("reset")[n + 1].op = "dropType"
  /\ Statements("reset")[n + 2].op = "createType"
  /\ \A j \in 1..n : Statements("reset")[(n + 2) + j] = [op |-> "create", on |-> Tables[j]]
  /\ \A j \in 1..p : Statements("reset")[(2 * n + 2) + j] = [op |-> "seed", on |-> Tables[j]]
<1> DEFINE n == Len(Tables)
           p == Len(Parents)
<1>a. n \in Nat /\ p \in Nat
  BY TablesAre
<1>0. "dropType" \in Ops \ {"seed"}
  BY DEF Ops
<1>1. PICK A \in Seq(Stmt) :
        /\ A = Each("drop", Reverse(Tables)) /\ Len(A) = n
        /\ \A i \in 1..n : A[i] = [op |-> "drop", on |-> Tables[(n - i) + 1]]
  BY ListsAre
<1>2. PICK B \in Seq(Stmt) : B = One("dropType") /\ Len(B) = 1 /\ B[1].op = "dropType"
  BY <1>0, ListsAre
<1>3. PICK S \in Seq(Stmt) :
        /\ S = SchemaStatements \o SeedStatements /\ Len(S) = n + 1 + p
        /\ S[1].op = "createType"
        /\ \A j \in 1..n : S[j + 1] = [op |-> "create", on |-> Tables[j]]
        /\ \A j \in 1..p : S[(n + 1) + j] = [op |-> "seed", on |-> Tables[j]]
  BY SchemaIs
<1> HIDE DEF n, p
<1>4. PICK E \in Seq(Stmt) :
        /\ E = A \o B /\ Len(E) = n + 1
        /\ \A i \in 1..n : E[i] = A[i]
        /\ E[n + 1] = B[1]
  <2>1. /\ A \o B \in Seq(Stmt) /\ Len(A \o B) = n + 1
        /\ \A i \in 1..(n + 1) : (A \o B)[i] = IF i <= n THEN A[i] ELSE B[i - n]
    <3>1. /\ A \o B \in Seq(Stmt) /\ Len(A \o B) = Len(A) + Len(B)
          /\ \A i \in 1..(Len(A) + Len(B)) :
                (A \o B)[i] = IF i <= Len(A) THEN A[i] ELSE B[i - Len(A)]
      BY ConcatProperties
    <3>2. QED
      BY <1>1, <1>2, <3>1
  <2>2. /\ \A i \in 1..n : i \in 1..(n + 1) /\ i <= n
        /\ n + 1 \in 1..(n + 1) /\ ~(n + 1 <= n) /\ (n + 1) - n = 1
    BY <1>a
  <2>3. (\A i \in 1..n : (A \o B)[i] = A[i]) /\ (A \o B)[n + 1] = B[1]
    BY <2>1, <2>2
  <2>4. QED
    BY <2>1, <2>3
<1>5. Statements("reset") = E \o S
  <2>1. SchemaStatements \in Seq(Stmt) /\ SeedStatements \in Seq(Stmt)
    BY SchemaIs
  <2>2. Statements("reset") = ((A \o B) \o SchemaStatements) \o SeedStatements
    BY <1>1, <1>2 DEF Statements, ResetStatements, Tables
  <2>3. (E \o SchemaStatements) \o SeedStatements = E \o (SchemaStatements \o SeedStatements)
    BY <2>1, ConcatAssociative
  <2>4. QED
    BY <1>3, <1>4, <2>2, <2>3
<1>6. /\ E \o S \in Seq(Stmt) /\ Len(E \o S) = (n + 1) + (n + 1 + p)
      /\ \A i \in 1..((n + 1) + (n + 1 + p)) :
            (E \o S)[i] = IF i <= n + 1 THEN E[i] ELSE S[i - (n + 1)]
  <2>1. /\ E \o S \in Seq(Stmt) /\ Len(E \o S) = Len(E) + Len(S)
        /\ \A i \in 1..(Len(E) + Len(S)) :
              (E \o S)[i] = IF i <= Len(E) THEN E[i] ELSE S[i - Len(E)]
    BY ConcatProperties
  <2>2. QED
    BY <1>3, <1>4, <2>1
<1>7. (n + 1) + (n + 1 + p) = 2 * n + 2 + p
  BY <1>a
<1>8. /\ \A i \in 1..(n + 1) : (E \o S)[i] = E[i]
      /\ \A i \in 1..(n + 1 + p) : (E \o S)[(n + 1) + i] = S[i]
  <2>1. /\ \A i \in 1..(n + 1) : i \in 1..((n + 1) + (n + 1 + p)) /\ i <= n + 1
        /\ \A i \in 1..(n + 1 + p) : /\ (n + 1) + i \in 1..((n + 1) + (n + 1 + p))
                                     /\ ~((n + 1) + i <= n + 1) /\ ((n + 1) + i) - (n + 1) = i
    BY <1>a
  <2>2. QED
    BY <1>6, <2>1
<1>11. \A j \in 1..n : (E \o S)[(n + 1) - j] = [op |-> "drop", on |-> Tables[j]]
  <2> SUFFICES ASSUME NEW j \in 1..n
               PROVE  (E \o S)[(n + 1) - j] = [op |-> "drop", on |-> Tables[j]]
    OBVIOUS
  <2>1. PICK i \in 1..n : i = (n + 1) - j /\ j = (n - i) + 1
    BY <1>a
  <2>2. i \in 1..(n + 1)
    BY <1>a
  <2>3. (E \o S)[i] = A[i]
    BY <1>4, <1>8, <2>2
  <2>4. A[i] = [op |-> "drop", on |-> Tables[j]]
    BY <1>1, <2>1
  <2>5. QED
    BY <2>1, <2>3, <2>4
<1>12. (E \o S)[n + 1].op = "dropType" /\ (E \o S)[n + 2].op = "createType"
  <2>1. /\ n + 1 \in 1..(n + 1) /\ 1 \in 1..(n + 1 + p) /\ (n + 1) + 1 = n + 2
    BY <1>a
  <2>2. (E \o S)[n + 1] = B[1] /\ (E \o S)[(n + 1) + 1] = S[1]
    BY <1>4, <1>8, <2>1
  <2>3. QED
    BY <1>2, <1>3, <2>1, <2>2
<1>13. \A j \in 1..n : (E \o S)[(n + 2) + j] = [op |-> "create", on |-> Tables[j]]
  <2> SUFFICES ASSUME NEW j \in 1..n
               PROVE  (E \o S)[(n + 2) + j] = [op |-> "create", on |-> Tables[j]]
    OBVIOUS
  <2>1. j + 1 \in 1..(n + 1 + p) /\ (n + 1) + (j + 1) = (n + 2) + j
    BY <1>a
  <2>2. QED
    BY <1>3, <1>8, <2>1
<1>14. \A j \in 1..p : (E \o S)[(2 * n + 2) + j] = [op |-> "seed", on |-> Tables[j]]
  <2> SUFFICES ASSUME NEW j \in 1..p
               PROVE  (E \o S)[(2 * n + 2) + j] = [op |-> "seed", on |-> Tables[j]]
    OBVIOUS
  <2>1. (n + 1) + j \in 1..(n + 1 + p) /\ (n + 1) + ((n + 1) + j) = (2 * n + 2) + j
    BY <1>a
  <2>2. QED
    BY <1>3, <1>8, <2>1
<1>15. QED
  BY <1>5, <1>6, <1>7, <1>11, <1>12, <1>13, <1>14 DEF n, p

\* Every page sends statements, and the explorer none that changes anything.
LEMMA StatementsAre ==
  /\ \A job \in Jobs : Statements(job) \in Seq(Stmt) /\ Len(Statements(job)) \in Nat
  /\ \A i \in 1..Len(Statements("explore")) : Statements("explore")[i].op \in {"catalog", "read"}
<1>0. {"catalog", "read", "file", "take", "status"} \subseteq Ops \ {"seed"}
  BY DEF Ops
<1>1. \A job \in {"file", "take", "status"} : Statements(job) \in Seq(Stmt)
  BY <1>0, ListsAre DEF Statements
<1>2. Statements("read") \in Seq(Stmt)
  BY <1>0, ListsAre DEF Statements, Tables
<1>3. PICK A \in Seq(Stmt) : A = One("catalog") /\ Len(A) = 1 /\ A[1].op = "catalog"
  BY <1>0, ListsAre
<1>4. PICK B \in Seq(Stmt) : /\ B = Each("read", Tables) /\ Len(B) = Len(Tables)
                             /\ \A i \in 1..Len(Tables) : B[i] = [op |-> "read", on |-> Tables[i]]
  BY <1>0, ListsAre
<1>5. Statements("explore") = A \o B
  BY <1>3, <1>4 DEF Statements, Tables
<1>6. /\ A \o B \in Seq(Stmt) /\ Len(A \o B) = 1 + Len(Tables)
      /\ \A i \in 1..(1 + Len(Tables)) : (A \o B)[i] = IF i <= 1 THEN A[i] ELSE B[i - 1]
  <2>1. /\ A \o B \in Seq(Stmt) /\ Len(A \o B) = Len(A) + Len(B)
        /\ \A i \in 1..(Len(A) + Len(B)) :
              (A \o B)[i] = IF i <= Len(A) THEN A[i] ELSE B[i - Len(A)]
    BY ConcatProperties
  <2>2. QED
    BY <1>3, <1>4, <2>1
<1>7. \A i \in 1..(1 + Len(Tables)) : (A \o B)[i].op \in {"catalog", "read"}
  <2> SUFFICES ASSUME NEW i \in 1..(1 + Len(Tables)) PROVE (A \o B)[i].op \in {"catalog", "read"}
    OBVIOUS
  <2>a. Len(Tables) \in Nat
    BY TablesAre
  <2>1. CASE i = 1
    BY <1>3, <1>6, <2>1
  <2>2. CASE i # 1
    <3>1. ~(i <= 1) /\ i - 1 \in 1..Len(Tables)
      BY <2>2, <2>a
    <3>2. (A \o B)[i] = B[i - 1]
      BY <1>6, <3>1
    <3>3. QED
      <4>1. B[i - 1] = [op |-> "read", on |-> Tables[i - 1]]
        BY <1>4, <3>1
      <4>2. QED
        BY <3>2, <4>1
  <2>3. QED
    BY <2>1, <2>2
<1>8. \A job \in Jobs : Statements(job) \in Seq(Stmt)
  BY <1>1, <1>2, <1>5, <1>6, SchemaIs, ResetIs DEF Jobs
<1>9. \A job \in Jobs : Len(Statements(job)) \in Nat
  BY <1>8
<1>10. QED
  BY <1>5, <1>6, <1>7, <1>8, <1>9

-----------------------------------------------------------------------------
(* SqlConsole: what a statement does to the tables *)

\* A statement that is applied, by what it is.
LEMMA RowsAre ==
  ASSUME ConsoleTypes, NEW s \in Stmt
  PROVE  /\ RowsAfter(s) \in [Register -> {"absent", "empty", "seeded", "changed"}]
         /\ \A t \in Register : t \notin ToSet(Parents) => RowsAfter(s)[t] # "seeded"
         /\ s.op \notin {"drop", "create", "seed", "take", "file"} => RowsAfter(s) = rows
         /\ s.op \in {"drop", "create", "seed"} =>
              \A t \in Register : t # s.on => RowsAfter(s)[t] = rows[t]
         /\ s.op = "drop" => RowsAfter(s)[s.on] = "absent"
         /\ s.op = "create" => RowsAfter(s)[s.on] = "empty"
         /\ s.op = "seed" => RowsAfter(s)[s.on] = "seeded"
<1>0. /\ rows \in [Register -> {"absent", "empty", "seeded", "changed"}]
      /\ \A t \in Register : t \notin ToSet(Parents) => rows[t] # "seeded"
      /\ s.op \in Ops /\ s.on \in Register /\ (s.op = "seed" => s.on \in ToSet(Parents))
  BY DEF ConsoleTypes, Stmt
<1>1. ASSUME NEW t \in Register
      PROVE  /\ RowsAfter(s)[t] \in {"absent", "empty", "seeded", "changed"}
             /\ t \notin ToSet(Parents) => RowsAfter(s)[t] # "seeded"
             /\ s.op \notin {"drop", "create", "seed", "take", "file"} => RowsAfter(s)[t] = rows[t]
             /\ s.op \in {"drop", "create", "seed"} /\ t # s.on => RowsAfter(s)[t] = rows[t]
  BY <1>0 DEF RowsAfter
<1>2. /\ s.op = "drop" => RowsAfter(s)[s.on] = "absent"
      /\ s.op = "create" => RowsAfter(s)[s.on] = "empty"
      /\ s.op = "seed" => RowsAfter(s)[s.on] = "seeded"
  BY <1>0 DEF RowsAfter
<1>3. RowsAfter(s) \in [Register -> {"absent", "empty", "seeded", "changed"}]
  <2>1. RowsAfter(s) = [t \in Register |-> RowsAfter(s)[t]]
    BY DEF RowsAfter
  <2>2. QED
    BY <1>1, <2>1
<1>4. s.op \notin {"drop", "create", "seed", "take", "file"} => RowsAfter(s) = rows
  BY <1>0, <1>1, <1>3
<1>5. QED
  BY <1>1, <1>2, <1>3, <1>4

\* The k-th statement of a reset is refused only where the types are not there, and
\* takes the tables one step further.
LEMMA ResetStep ==
  ASSUME ConsoleTypes, NEW k \in 1..Len(Statements("reset")),
         \A j \in 1..Len(Tables) : rows[Tables[j]] \in ResetRow(j, k),
         k = Len(Tables) + 2 => ~typed, k > Len(Tables) + 2 => typed,
         NEW s, s = Statements("reset")[k]
  PROVE  /\ Rejects(s) =>
              /\ s.op = "dropType" /\ k = Len(Tables) + 1 /\ ~typed
              /\ \A j \in 1..Len(Tables) : rows[Tables[j]] \in ResetRow(j, k + 1)
         /\ ~Rejects(s) /\ Applies(s) =>
              /\ \A j \in 1..Len(Tables) : rows'[Tables[j]] \in ResetRow(j, k + 1)
              /\ k + 1 = Len(Tables) + 2 => ~typed'
              /\ k + 1 > Len(Tables) + 2 => typed'
<1> DEFINE n == Len(Tables)
           p == Len(Parents)
<1>a. /\ n \in Nat /\ p \in Nat /\ p <= n /\ k \in 1..(2 * n + 2 + p) /\ s \in Stmt
      /\ rows \in [Register -> {"absent", "empty", "seeded", "changed"}]
  <2>1. Len(Statements("reset")) = 2 * n + 2 + p /\ Statements("reset") \in Seq(Stmt)
    BY ResetIs
  <2>2. s \in Stmt
    BY <2>1
  <2>3. n \in Nat /\ p \in Nat /\ p >= 1 /\ p <= n
    BY TablesAre
  <2>4. rows \in [Register -> {"absent", "empty", "seeded", "changed"}]
    BY DEF ConsoleTypes
  <2>5. QED
    BY <2>1, <2>2, <2>3, <2>4
<1>b. \A j \in 1..n : Tables[j] \in Register
  BY TablesAre
<1>c. \A j, i \in 1..n : Tables[i] = Tables[j] => i = j
  BY TablesAre
<1>d. s.op \in {"drop", "dropType", "createType", "create", "seed"} =>
        /\ typed' = (s.op = "createType" \/ (typed /\ s.op # "dropType")) \/ ~Applies(s)
        /\ Applies(s) => rows' = RowsAfter(s)
  BY DEF Applies
<1>1. CASE k <= n
  <2>1. PICK i \in 1..n : i = (n + 1) - k /\ k = (n + 1) - i
    <3>1. (n + 1) - k \in 1..n /\ k = (n + 1) - ((n + 1) - k)
      BY <1>1, <1>a
    <3>2. QED
      BY <3>1
  <2>2. s = [op |-> "drop", on |-> Tables[i]]
    BY <2>1, ResetIs
  <2>3. s.op = "drop" /\ s.on = Tables[i] /\ ~Rejects(s)
    BY <2>2 DEF Rejects
  <2>4. ASSUME Applies(s), NEW j \in 1..n PROVE rows'[Tables[j]] \in ResetRow(j, k + 1)
    <3>1. CASE j = i
      <4>1. rows'[Tables[j]] = "absent"
        BY <1>a, <1>d, <2>3, <2>4, <3>1, RowsAre
      <4>2. ResetRow(j, k + 1) = {"absent"}
        BY <1>1, <1>a, <2>1, <3>1 DEF ResetRow
      <4>3. QED
        BY <4>1, <4>2
    <3>2. CASE j # i
      <4>1. Tables[j] # s.on
        BY <1>c, <2>3, <3>2
      <4>2. rows'[Tables[j]] = rows[Tables[j]]
        BY <1>a, <1>b, <1>d, <2>3, <2>4, <4>1, RowsAre
      <4>3. ResetRow(j, k + 1) = ResetRow(j, k)
        BY <1>1, <1>a, <2>1, <3>2 DEF ResetRow
      <4>4. QED
        BY <4>2, <4>3
    <3>3. QED
      BY <3>1, <3>2
  <2>5. k + 1 # n + 2 /\ ~(k + 1 > n + 2)
    BY <1>1, <1>a
  <2>6. QED
    BY <2>3, <2>4, <2>5
<1>2. CASE k = n + 1
  <2>1. s.op = "dropType"
    BY <1>2, ResetIs
  <2>2. \A j \in 1..n : ResetRow(j, k + 1) = ResetRow(j, k)
    BY <1>2, <1>a DEF ResetRow
  <2>3. Rejects(s) => ~typed
    BY <2>1 DEF Rejects
  <2>4. Applies(s) => rows' = rows /\ ~typed'
    <3>1. Applies(s) => rows' = rows
      BY <1>a, <1>d, <2>1, RowsAre
    <3>2. Applies(s) => ~typed'
      BY <2>1 DEF Applies
    <3>3. QED
      BY <3>1, <3>2
  <2>5. ~(k + 1 > n + 2)
    BY <1>2, <1>a
  <2>6. QED
    BY <1>2, <2>1, <2>2, <2>3, <2>4, <2>5
<1>3. CASE k = n + 2
  <2>1. s.op = "createType"
    BY <1>3, ResetIs
  <2>2. \A j \in 1..n : ResetRow(j, k + 1) = ResetRow(j, k)
    BY <1>3, <1>a DEF ResetRow
  <2>3. ~Rejects(s)
    BY <1>3, <2>1 DEF Rejects
  <2>4. Applies(s) => rows' = rows /\ typed'
    <3>1. Applies(s) => rows' = rows
      BY <1>a, <1>d, <2>1, RowsAre
    <3>2. Applies(s) => typed'
      BY <2>1 DEF Applies
    <3>3. QED
      BY <3>1, <3>2
  <2>5. k + 1 # n + 2
    BY <1>3, <1>a
  <2>6. QED
    BY <2>2, <2>3, <2>4, <2>5
<1>4. CASE k > n + 2 /\ k <= 2 * n + 2
  <2>1. PICK i \in 1..n : k = (n + 2) + i
    <3>1. k - (n + 2) \in 1..n /\ k = (n + 2) + (k - (n + 2))
      BY <1>4, <1>a
    <3>2. QED
      BY <3>1
  <2>2. s = [op |-> "create", on |-> Tables[i]]
    BY <2>1, ResetIs
  <2>3. s.op = "create" /\ s.on = Tables[i]
    BY <2>2
  <2>4. ResetRow(i, k) = {"absent"} /\ ResetRow(i, k + 1) = {"empty"}
    BY <1>4, <1>a, <2>1 DEF ResetRow
  <2>5. ~Rejects(s)
    BY <2>3, <2>4 DEF Rejects
  <2>6. ASSUME Applies(s), NEW j \in 1..n PROVE rows'[Tables[j]] \in ResetRow(j, k + 1)
    <3>1. CASE j = i
      BY <1>a, <1>d, <2>3, <2>4, <2>6, <3>1, RowsAre
    <3>2. CASE j # i
      <4>1. Tables[j] # s.on
        BY <1>c, <2>3, <3>2
      <4>2. rows'[Tables[j]] = rows[Tables[j]]
        BY <1>a, <1>b, <1>d, <2>3, <2>6, <4>1, RowsAre
      <4>3. ResetRow(j, k + 1) = ResetRow(j, k)
        BY <1>4, <1>a, <2>1, <3>2 DEF ResetRow
      <4>4. QED
        BY <4>2, <4>3
    <3>3. QED
      BY <3>1, <3>2
  <2>7. typed /\ (Applies(s) => typed') /\ k + 1 # n + 2
    <3>1. k > n + 2 /\ k + 1 # n + 2
      BY <1>4, <1>a
    <3>2. typed
      BY <3>1
    <3>3. Applies(s) => typed'
      BY <2>3, <3>2 DEF Applies
    <3>4. QED
      BY <3>1, <3>2, <3>3
  <2>8. QED
    BY <2>5, <2>6, <2>7
<1>5. CASE k > 2 * n + 2
  <2>1. PICK i \in 1..p : k = (2 * n + 2) + i
    <3>1. k - (2 * n + 2) \in 1..p /\ k = (2 * n + 2) + (k - (2 * n + 2))
      BY <1>5, <1>a
    <3>2. QED
      BY <3>1
  <2>2. s = [op |-> "seed", on |-> Tables[i]] /\ i \in 1..n
    BY <1>a, <2>1, ResetIs
  <2>3. s.op = "seed" /\ s.on = Tables[i]
    BY <2>2
  <2>4. ResetRow(i, k) = {"empty"} /\ ResetRow(i, k + 1) = {"seeded"}
    BY <1>5, <1>a, <2>1 DEF ResetRow
  <2>5. ~Rejects(s)
    BY <2>2, <2>3, <2>4 DEF Rejects
  <2>6. ASSUME Applies(s), NEW j \in 1..n PROVE rows'[Tables[j]] \in ResetRow(j, k + 1)
    <3>1. CASE j = i
      BY <1>a, <1>d, <2>3, <2>4, <2>6, <3>1, RowsAre
    <3>2. CASE j # i
      <4>1. Tables[j] # s.on
        BY <1>c, <2>2, <2>3, <3>2
      <4>2. rows'[Tables[j]] = rows[Tables[j]]
        BY <1>a, <1>b, <1>d, <2>3, <2>6, <4>1, RowsAre
      <4>3. ResetRow(j, k + 1) = ResetRow(j, k)
        BY <1>5, <1>a, <2>1, <3>2 DEF ResetRow
      <4>4. QED
        BY <4>2, <4>3
    <3>3. QED
      BY <3>1, <3>2
  <2>7. typed /\ (Applies(s) => typed') /\ k + 1 # n + 2
    <3>1. k > n + 2 /\ k + 1 # n + 2
      BY <1>5, <1>a
    <3>2. typed
      BY <3>1
    <3>3. Applies(s) => typed'
      BY <2>3, <3>2 DEF Applies
    <3>4. QED
      BY <3>1, <3>2, <3>3
  <2>8. QED
    BY <2>5, <2>6, <2>7
<1>6. \/ k <= n \/ k = n + 1 \/ k = n + 2 \/ (k > n + 2 /\ k <= 2 * n + 2) \/ k > 2 * n + 2
  BY <1>a
<1>7. QED
  BY <1>1, <1>2, <1>3, <1>4, <1>5, <1>6

\* Steps of one cross no number.
LEMMA NextOver == \A k, m \in Nat : k + 1 > m /\ k # m => k > m
  OBVIOUS

\* The k-th statement of a schema run, refused or applied, leaves its table there.
LEMMA SchemaStep ==
  ASSUME ConsoleTypes, NEW k \in 1..Len(Statements("schema")),
         \A j \in 1..Len(Tables) :
            /\ k > j + 1 => rows[Tables[j]] # "absent"
            /\ j <= Len(Parents) /\ k > Len(Tables) + 1 + j => rows[Tables[j]] \notin {"absent", "empty"},
         NEW s, s = Statements("schema")[k], NEW after,
         \/ Rejects(s) /\ after = rows
         \/ ~Rejects(s) /\ after = RowsAfter(s)
  PROVE  \A j \in 1..Len(Tables) :
            /\ k + 1 > j + 1 => after[Tables[j]] # "absent"
            /\ j <= Len(Parents) /\ k + 1 > Len(Tables) + 1 + j
                => after[Tables[j]] \notin {"absent", "empty"}
<1> DEFINE n == Len(Tables)
           p == Len(Parents)
<1>a. /\ n \in Nat /\ p \in Nat /\ p >= 1 /\ p <= n /\ k \in 1..(n + 1 + p) /\ s \in Stmt
      /\ rows \in [Register -> {"absent", "empty", "seeded", "changed"}]
  <2>1. Len(Statements("schema")) = n + 1 + p /\ Statements("schema") \in Seq(Stmt)
    BY SchemaIs
  <2>2. s \in Stmt
    BY <2>1
  <2>3. n \in Nat /\ p \in Nat /\ p >= 1 /\ p <= n
    BY TablesAre
  <2>4. rows \in [Register -> {"absent", "empty", "seeded", "changed"}]
    BY DEF ConsoleTypes
  <2>5. QED
    BY <2>1, <2>2, <2>3, <2>4
<1> SUFFICES ASSUME NEW j \in 1..n
             PROVE  /\ k + 1 > j + 1 => after[Tables[j]] # "absent"
                    /\ j <= p /\ k + 1 > n + 1 + j => after[Tables[j]] \notin {"absent", "empty"}
  OBVIOUS
<1>b. Tables[j] \in Register /\ \A i \in 1..n : Tables[i] = Tables[j] => i = j
  BY TablesAre
<1>c. CASE after[Tables[j]] = rows[Tables[j]] /\ k # j + 1 /\ k # n + 1 + j
  <2>1. (k + 1 > j + 1 => k > j + 1) /\ (k + 1 > n + 1 + j => k > n + 1 + j)
    <3>1. k \in Nat /\ j + 1 \in Nat /\ n + 1 + j \in Nat
      BY <1>a
    <3>2. k # j + 1 /\ k # n + 1 + j
      BY <1>c
    <3>3. QED
      BY <3>1, <3>2, NextOver
  <2>2. QED
    BY <1>c, <2>1
<1>1. CASE k = 1
  <2>1. s.op = "createType"
    BY <1>1, SchemaIs
  <2>2. after = rows
    BY <1>a, <2>1, RowsAre
  <2>3. k # j + 1 /\ k # n + 1 + j
    BY <1>1, <1>a
  <2>4. QED
    BY <1>c, <2>2, <2>3
<1>2. CASE k > 1 /\ k <= n + 1
  <2>1. PICK i \in 1..n : k = i + 1
    <3>1. k - 1 \in 1..n /\ k = (k - 1) + 1
      BY <1>2, <1>a
    <3>2. QED
      BY <3>1
  <2>2. s = [op |-> "create", on |-> Tables[i]]
    BY <2>1, SchemaIs
  <2>3. s.op = "create" /\ s.on = Tables[i]
    BY <2>2
  <2>4. CASE j = i
    <3>1. after[Tables[j]] # "absent"
      BY <1>a, <2>3, <2>4, RowsAre DEF Rejects
    <3>2. ~(k + 1 > n + 1 + j)
      BY <1>2, <1>a
    <3>3. QED
      BY <3>1, <3>2
  <2>5. CASE j # i
    <3>1. after[Tables[j]] = rows[Tables[j]]
      BY <1>a, <1>b, <2>3, <2>5, RowsAre
    <3>2. k # j + 1 /\ k # n + 1 + j
      BY <1>2, <1>a, <2>1, <2>5
    <3>3. QED
      BY <1>c, <3>1, <3>2
  <2>6. QED
    BY <2>4, <2>5
<1>3. CASE k > n + 1
  <2>1. PICK i \in 1..p : k = (n + 1) + i
    <3>1. k - (n + 1) \in 1..p /\ k = (n + 1) + (k - (n + 1))
      BY <1>3, <1>a
    <3>2. QED
      BY <3>1
  <2>2. s = [op |-> "seed", on |-> Tables[i]] /\ i \in 1..n
    BY <1>a, <2>1, SchemaIs
  <2>3. s.op = "seed" /\ s.on = Tables[i]
    BY <2>2
  <2>4. CASE j = i
    <3>1. rows[Tables[j]] # "absent"
      BY <1>3, <1>a
    <3>2. after[Tables[j]] \notin {"absent", "empty"}
      BY <1>a, <2>3, <2>4, <3>1, RowsAre DEF Rejects
    <3>3. QED
      BY <3>2
  <2>5. CASE j # i
    <3>1. after[Tables[j]] = rows[Tables[j]]
      BY <1>a, <1>b, <2>2, <2>3, <2>5, RowsAre
    <3>2. k # j + 1 /\ k # n + 1 + j
      BY <1>3, <1>a, <2>1, <2>5
    <3>3. QED
      BY <1>c, <3>1, <3>2
  <2>6. QED
    BY <2>4, <2>5
<1>4. QED
  BY <1>1, <1>2, <1>3, <1>a

-----------------------------------------------------------------------------
(* SqlConsole: what a request becomes *)

ConsoleActs(t) ==
    \/ \E job \in Jobs : Ask(t, job)
    \/ EnsureReady(t) \/ AcquirePage(t)
    \/ SendStatement(t) \/ Answered(t) \/ RaisesError(t) \/ Reported(t)

\* A request's record is its own affair.
LEMMA CallIs ==
  ASSUME ConsoleTypes, NEW t \in Callers, NEW r \in Caller, Calls(t, r)
  PROVE  /\ caller' \in [Callers -> Caller] /\ caller'[t] = r
         /\ \A v \in Callers : v # t => caller'[v] = caller[v]
  BY DEF ConsoleTypes, Calls

\* Between two requests.
LEMMA IdleIs ==
  /\ Idle \in Caller /\ Idle.pc = "new" /\ Idle.at = 1 /\ Idle.calm = FALSE
  /\ Idle.errors = {} /\ Idle.job = "status"
  BY DEF Idle, Caller, Jobs

\* What a request is about to send.
LEMMA StatementIs ==
  ASSUME ConsoleTypes, CallsAdvance, NEW t \in Callers, More(t)
  PROVE  /\ caller[t].at \in 1..Len(Statements(caller[t].job))
         /\ Statement(t) \in Stmt /\ Statement(t).op \in Ops
<1>1. caller[t] \in Caller
  BY DEF ConsoleTypes
<1>2. caller[t].job \in Jobs /\ caller[t].at \in Nat /\ caller[t].at >= 1
  BY <1>1 DEF Caller, CallsAdvance
<1>3. Statements(caller[t].job) \in Seq(Stmt) /\ Len(Statements(caller[t].job)) \in Nat
  BY <1>2, StatementsAre
<1>4. caller[t].at \in 1..Len(Statements(caller[t].job))
  BY <1>2, <1>3 DEF More
<1>5. Statement(t) \in Stmt
  BY <1>3, <1>4 DEF Statement
<1>6. QED
  BY <1>4, <1>5 DEF Stmt

\* What a failed statement leaves.
LEMMA FailedIs ==
  ASSUME ConsoleTypes, CallsAdvance, NEW t \in Callers, More(t)
  PROVE  /\ Failed(t) \in Caller
         /\ Failed(t).job = caller[t].job /\ Failed(t).pc = "batch"
         /\ Failed(t).calm = caller[t].calm
         /\ Failed(t).errors = caller[t].errors \cup {Statement(t).op}
         /\ Failed(t).at = IF Statement(t).op = "catalog"
                           THEN Len(Statements(caller[t].job)) + 1 ELSE caller[t].at + 1
         /\ Failed(t).at >= 1 /\ Failed(t).at <= Len(Statements(caller[t].job)) + 1
<1>1. caller[t] \in Caller
  BY DEF ConsoleTypes
<1>2. caller[t].job \in Jobs /\ caller[t].at \in Nat /\ caller[t].errors \in SUBSET Ops
  BY <1>1 DEF Caller
<1>3. /\ Len(Statements(caller[t].job)) \in Nat /\ Statement(t).op \in Ops
      /\ caller[t].at \in 1..Len(Statements(caller[t].job))
  BY <1>2, StatementsAre, StatementIs
<1>4. PICK k \in Nat : /\ k = IF Statement(t).op = "catalog"
                              THEN Len(Statements(caller[t].job)) + 1 ELSE caller[t].at + 1
                       /\ k >= 1 /\ k <= Len(Statements(caller[t].job)) + 1
  BY <1>2, <1>3
<1>5. PICK E \in SUBSET Ops : E = caller[t].errors \cup {Statement(t).op}
  BY <1>2, <1>3
<1>6. Failed(t) = [caller[t] EXCEPT !.pc = "batch", !.at = k, !.errors = E]
  BY <1>1, <1>4, <1>5 DEF Failed, Caller
<1>7. QED
  BY <1>1, <1>4, <1>5, <1>6 DEF Caller

\* Requests are asked.
LEMMA AskedIs ==
  ASSUME ConsoleTypes, NEW t \in Callers, NEW job \in Jobs, Ask(t, job)
  PROVE  /\ caller' \in [Callers -> Caller]
         /\ \A v \in Callers : v # t => caller'[v] = caller[v]
         /\ caller'[t].pc = "ready" /\ caller'[t].at = 1 /\ caller'[t].calm = FALSE
         /\ caller'[t].errors = {} /\ caller'[t].job = job
         /\ UNCHANGED <<up, era, typed, rows, sqlConn, sqlConnected, sqlLock, pageLock, costs>>
<1>1. [Idle EXCEPT !.job = job, !.pc = "ready"] \in Caller
  BY IdleIs DEF Caller
<1>2. Calls(t, [Idle EXCEPT !.job = job, !.pc = "ready"])
  BY DEF Ask
<1>3. /\ caller' \in [Callers -> Caller]
      /\ \A v \in Callers : v # t => caller'[v] = caller[v]
      /\ caller'[t] = [Idle EXCEPT !.job = job, !.pc = "ready"]
  BY <1>1, <1>2, CallIs
<1>4. UNCHANGED <<up, era, typed, rows, sqlConn, sqlConnected, sqlLock, pageLock, costs>>
  BY DEF Ask, service, client
<1>5. QED
  BY <1>3, <1>4, IdleIs DEF Caller

\* The connection is ready, or the request is refused.
LEMMA ReadyIs ==
  ASSUME ConsoleTypes, NEW t \in Callers, EnsureReady(t)
  PROVE  /\ caller' \in [Callers -> Caller]
         /\ \A v \in Callers : v # t => caller'[v] = caller[v]
         /\ \/ caller'[t] = Idle
            \/ /\ up /\ caller'[t].calm = TRUE /\ caller'[t].job = caller[t].job
               /\ caller'[t].at = caller[t].at /\ caller'[t].errors = caller[t].errors
               /\ caller'[t].pc = IF caller[t].job = "explore" THEN "batch" ELSE "lock"
         /\ caller[t].pc = "ready" /\ sqlLock = NoCaller
         /\ sqlConn' = (IF up THEN era ELSE 0) /\ sqlConnected' = up
         /\ UNCHANGED <<up, era, typed, rows, sqlLock, pageLock, costs>>
<1>0. caller[t] \in Caller
  BY DEF ConsoleTypes
<1>1. PICK pc \in {"batch", "lock"} : pc = IF caller[t].job = "explore" THEN "batch" ELSE "lock"
  OBVIOUS
<1>2. [caller[t] EXCEPT !.calm = TRUE, !.pc = pc] \in Caller
  BY <1>0 DEF Caller
<1>3. \/ Calls(t, Idle)
      \/ up /\ Calls(t, [caller[t] EXCEPT !.calm = TRUE, !.pc = pc])
  BY <1>1 DEF EnsureReady
<1>4. /\ caller[t].pc = "ready" /\ sqlLock = NoCaller
      /\ sqlConn' = (IF up THEN era ELSE 0) /\ sqlConnected' = up
      /\ UNCHANGED <<up, era, typed, rows, sqlLock, pageLock, costs>>
  BY DEF EnsureReady, Opened, service
<1>5. CASE Calls(t, Idle)
  BY <1>4, <1>5, CallIs, IdleIs
<1>6. CASE up /\ Calls(t, [caller[t] EXCEPT !.calm = TRUE, !.pc = pc])
  <2>1. /\ caller' \in [Callers -> Caller]
        /\ \A v \in Callers : v # t => caller'[v] = caller[v]
        /\ caller'[t] = [caller[t] EXCEPT !.calm = TRUE, !.pc = pc]
    BY <1>2, <1>6, CallIs
  <2>2. /\ caller'[t].calm = TRUE /\ caller'[t].job = caller[t].job
        /\ caller'[t].at = caller[t].at /\ caller'[t].errors = caller[t].errors
        /\ caller'[t].pc = pc
    BY <1>0, <2>1 DEF Caller
  <2>3. QED
    BY <1>1, <1>4, <1>6, <2>1, <2>2
<1>7. QED
  BY <1>3, <1>5, <1>6

\* A record of which only the place changes.
LEMMA CallGoesIs ==
  ASSUME ConsoleTypes, NEW t \in Callers,
         NEW pc \in {"new", "ready", "lock", "batch", "running"}, CallGoes(t, pc)
  PROVE  /\ caller' \in [Callers -> Caller]
         /\ \A v \in Callers : v # t => caller'[v] = caller[v]
         /\ caller'[t].pc = pc /\ caller'[t].at = caller[t].at
         /\ caller'[t].calm = caller[t].calm /\ caller'[t].errors = caller[t].errors
         /\ caller'[t].job = caller[t].job
<1>0. caller[t] \in Caller
  BY DEF ConsoleTypes
<1>1. [caller[t] EXCEPT !.pc = pc] \in Caller
  BY <1>0 DEF Caller
<1>2. /\ caller' \in [Callers -> Caller]
      /\ \A v \in Callers : v # t => caller'[v] = caller[v]
      /\ caller'[t] = [caller[t] EXCEPT !.pc = pc]
  BY <1>1, CallIs DEF CallGoes
<1>3. QED
  BY <1>0, <1>2 DEF Caller

\* A statement's success.
LEMMA AnsweredIs ==
  ASSUME ConsoleTypes, NEW t \in Callers, Answered(t)
  PROVE  /\ caller' \in [Callers -> Caller]
         /\ \A v \in Callers : v # t => caller'[v] = caller[v]
         /\ caller'[t].pc = "batch" /\ caller'[t].at = caller[t].at + 1
         /\ caller'[t].calm = caller[t].calm /\ caller'[t].errors = caller[t].errors
         /\ caller'[t].job = caller[t].job
         /\ caller[t].pc = "running" /\ Alive /\ ~Rejects(Statement(t)) /\ Applies(Statement(t))
         /\ sqlLock' = NoCaller
         /\ UNCHANGED <<up, era, sqlConn, sqlConnected, pageLock, costs>>
<1>0. caller[t] \in Caller
  BY DEF ConsoleTypes
<1>1. caller[t].at + 1 \in Nat
  BY <1>0 DEF Caller
<1>2. PICK k \in Nat : k = caller[t].at + 1
  BY <1>1
<1>3. [caller[t] EXCEPT !.pc = "batch", !.at = k] \in Caller
  BY <1>0 DEF Caller
<1>4. Calls(t, [caller[t] EXCEPT !.pc = "batch", !.at = k])
  BY <1>0, <1>2 DEF Answered
<1>5. /\ caller' \in [Callers -> Caller]
      /\ \A v \in Callers : v # t => caller'[v] = caller[v]
      /\ caller'[t] = [caller[t] EXCEPT !.pc = "batch", !.at = k]
  BY <1>3, <1>4, CallIs
<1>6. /\ caller'[t].pc = "batch" /\ caller'[t].at = k
      /\ caller'[t].calm = caller[t].calm /\ caller'[t].errors = caller[t].errors
      /\ caller'[t].job = caller[t].job
  BY <1>0, <1>5 DEF Caller
<1>7. QED
  BY <1>2, <1>5, <1>6 DEF Answered

\* And its failure.
LEMMA RaisedIs ==
  ASSUME ConsoleTypes, CallsAdvance, NEW t \in Callers, RaisesError(t)
  PROVE  /\ caller' \in [Callers -> Caller] /\ caller'[t] = Failed(t)
         /\ \A v \in Callers : v # t => caller'[v] = caller[v]
         /\ caller[t].pc = "running" /\ (Alive => Rejects(Statement(t)))
         /\ sqlConn' = 0 /\ sqlConnected' = FALSE /\ sqlLock' = NoCaller
         /\ costs' = IF Alive THEN costs ELSE Charged
         /\ UNCHANGED <<up, era, typed, rows, pageLock>>
<1>1. caller[t].pc = "running" /\ Calls(t, Failed(t))
  BY DEF RaisesError
<1>2. Failed(t) \in Caller
  BY <1>1, FailedIs DEF CallsAdvance
<1>3. QED
  BY <1>1, <1>2, CallIs DEF RaisesError, service

\* A statement is sent, or cannot be.
LEMMA SentIs ==
  ASSUME ConsoleTypes, CallsAdvance, NEW t \in Callers, SendStatement(t)
  PROVE  /\ caller' \in [Callers -> Caller]
         /\ \A v \in Callers : v # t => caller'[v] = caller[v]
         /\ caller[t].pc = "batch" /\ More(t) /\ sqlLock = NoCaller
         /\ \/ /\ CallGoes(t, "running") /\ sqlLock' = t
               /\ \/ sqlConn # 0 /\ UNCHANGED <<sqlConn, sqlConnected>>
                  \/ up /\ sqlConn = 0 /\ sqlConn' = era /\ sqlConnected' = TRUE
            \/ /\ ~up /\ caller'[t] = Failed(t)
               /\ UNCHANGED <<sqlConn, sqlConnected, sqlLock>>
         /\ UNCHANGED <<up, era, typed, rows, pageLock, costs>>
<1>1. /\ caller[t].pc = "batch" /\ More(t) /\ sqlLock = NoCaller
      /\ UNCHANGED <<up, era, typed, rows, pageLock, costs>>
  BY DEF SendStatement, service
<1>2. CASE sqlConn # 0 \/ up
  <2>1. CallGoes(t, "running") /\ sqlLock' = t
    BY <1>2 DEF SendStatement
  <2>2. \/ sqlConn # 0 /\ UNCHANGED <<sqlConn, sqlConnected>>
        \/ up /\ sqlConn = 0 /\ sqlConn' = era /\ sqlConnected' = TRUE
    BY <1>2 DEF SendStatement, Opened, ConsoleTypes
  <2>3. QED
    BY <1>1, <2>1, <2>2, CallGoesIs
<1>3. CASE ~(sqlConn # 0 \/ up)
  <2>1. Calls(t, Failed(t)) /\ UNCHANGED <<sqlConn, sqlConnected, sqlLock>> /\ ~up
    BY <1>3 DEF SendStatement, client
  <2>2. Failed(t) \in Caller
    BY <1>1, FailedIs
  <2>3. QED
    BY <1>1, <2>1, <2>2, CallIs
<1>4. QED
  BY <1>2, <1>3

\* The page's lock is taken, or the request is refused.
LEMMA PageIs ==
  ASSUME ConsoleTypes, NEW t \in Callers, AcquirePage(t)
  PROVE  /\ caller' \in [Callers -> Caller]
         /\ \A v \in Callers : v # t => caller'[v] = caller[v]
         /\ caller[t].pc = "lock"
         /\ \/ pageLock = NoCaller /\ pageLock' = t /\ CallGoes(t, "batch")
            \/ UNCHANGED pageLock /\ caller'[t] = Idle
         /\ UNCHANGED <<up, era, typed, rows, sqlConn, sqlConnected, sqlLock, costs>>
<1>1. /\ caller[t].pc = "lock"
      /\ UNCHANGED <<up, era, typed, rows, sqlConn, sqlConnected, sqlLock, costs>>
      /\ \/ pageLock = NoCaller /\ pageLock' = t /\ CallGoes(t, "batch")
         \/ UNCHANGED pageLock /\ Calls(t, Idle)
  BY DEF AcquirePage, service, client
<1>2. CASE pageLock = NoCaller /\ pageLock' = t /\ CallGoes(t, "batch")
  BY <1>1, <1>2, CallGoesIs
<1>3. CASE UNCHANGED pageLock /\ Calls(t, Idle)
  BY <1>1, <1>3, CallIs, IdleIs
<1>4. QED
  BY <1>1, <1>2, <1>3

\* A batch is over.
LEMMA ReportedIs ==
  ASSUME ConsoleTypes, NEW t \in Callers, Reported(t)
  PROVE  /\ caller' \in [Callers -> Caller] /\ caller'[t] = Idle
         /\ \A v \in Callers : v # t => caller'[v] = caller[v]
         /\ pageLock' = (IF pageLock = t THEN NoCaller ELSE pageLock)
         /\ UNCHANGED <<up, era, typed, rows, sqlConn, sqlConnected, sqlLock, costs>>
  BY CallIs, IdleIs DEF Reported, service, client

-----------------------------------------------------------------------------
(* SqlConsole: what a request keeps *)

\* Whatever a request does, only its own record changes.
LEMMA ConsoleOwn ==
  ASSUME ConsoleTypes, CallsAdvance, NEW t \in Callers, ConsoleActs(t)
  PROVE  /\ caller' \in [Callers -> Caller] /\ up' = up /\ era' = era
         /\ \A v \in Callers : v # t => caller'[v] = caller[v]
<1>1. ASSUME NEW job \in Jobs, Ask(t, job)
      PROVE  /\ caller' \in [Callers -> Caller] /\ up' = up /\ era' = era
             /\ \A v \in Callers : v # t => caller'[v] = caller[v]
  BY <1>1, AskedIs
<1>2. CASE EnsureReady(t)
  BY <1>2, ReadyIs
<1>3. CASE AcquirePage(t)
  BY <1>3, PageIs
<1>4. CASE SendStatement(t)
  BY <1>4, SentIs
<1>5. CASE Answered(t)
  BY <1>5, AnsweredIs
<1>6. CASE RaisesError(t)
  BY <1>6, RaisedIs
<1>7. CASE Reported(t)
  BY <1>7, ReportedIs
<1>8. QED
  BY <1>1, <1>2, <1>3, <1>4, <1>5, <1>6, <1>7 DEF ConsoleActs

\* Types.
LEMMA ConsoleKeepsTypes ==
  ASSUME ConsoleTypes, CallsAdvance, NEW t \in Callers, ConsoleActs(t)
  PROVE  ConsoleTypes'
<1>0. /\ up \in BOOLEAN /\ typed \in BOOLEAN /\ era \in 0..(MaxOutages + 1)
      /\ up => era >= 1
      /\ ~up => era <= MaxOutages
      /\ rows \in [Register -> {"absent", "empty", "seeded", "changed"}]
      /\ \A p \in Register : p \notin ToSet(Parents) => rows[p] # "seeded"
      /\ sqlConn \in 0..era /\ sqlConnected = (sqlConn # 0)
      /\ sqlLock \in Callers \cup {NoCaller} /\ pageLock \in Callers \cup {NoCaller}
      /\ costs \in [1..(MaxOutages + 1) -> Nat]
  BY DEF ConsoleTypes
<1>a. era \in Nat /\ MaxOutages \in Nat
  BY <1>0, ConsoleAssumption
<1>1. caller' \in [Callers -> Caller] /\ up' = up /\ era' = era
  BY ConsoleOwn
<1>2. \/ UNCHANGED <<typed, rows>>
      \/ Answered(t)
  <2>1. (\E job \in Jobs : Ask(t, job)) => UNCHANGED <<typed, rows>>
    BY AskedIs
  <2>2. QED
    BY <2>1, ReadyIs, PageIs, SentIs, RaisedIs, ReportedIs DEF ConsoleActs
<1>3. /\ typed' \in BOOLEAN
      /\ rows' \in [Register -> {"absent", "empty", "seeded", "changed"}]
      /\ \A p \in Register : p \notin ToSet(Parents) => rows'[p] # "seeded"
  <2>1. CASE UNCHANGED <<typed, rows>>
    BY <1>0, <2>1
  <2>2. CASE Answered(t)
    <3>1. Applies(Statement(t)) /\ caller[t].pc = "running"
      BY <2>2, AnsweredIs
    <3>2. Statement(t) \in Stmt
      BY <3>1, StatementIs DEF CallsAdvance
    <3>3. typed' \in BOOLEAN
      BY <3>1 DEF Applies
    <3>4. rows' = RowsAfter(Statement(t))
      BY <3>1 DEF Applies
    <3>5. QED
      BY <3>2, <3>3, <3>4, RowsAre
  <2>3. QED
    BY <1>2, <2>1, <2>2
<1>4. sqlConn' \in 0..era /\ sqlConnected' = (sqlConn' # 0)
  <2>1. \/ UNCHANGED <<sqlConn, sqlConnected>>
        \/ sqlConn' = (IF up THEN era ELSE 0) /\ sqlConnected' = up
        \/ up /\ sqlConn' = era /\ sqlConnected' = TRUE
        \/ sqlConn' = 0 /\ sqlConnected' = FALSE
    <3>1. (\E job \in Jobs : Ask(t, job)) => UNCHANGED <<sqlConn, sqlConnected>>
      BY AskedIs
    <3>2. QED
      BY <3>1, ReadyIs, PageIs, SentIs, AnsweredIs, RaisedIs, ReportedIs DEF ConsoleActs
  <2>2. CASE UNCHANGED <<sqlConn, sqlConnected>>
    BY <1>0, <2>2
  <2>3. CASE sqlConn' = (IF up THEN era ELSE 0) /\ sqlConnected' = up
    <3>1. CASE up
      <4>1. era \in 0..era /\ era # 0
        BY <1>0, <1>a, <3>1
      <4>2. sqlConn' = era /\ sqlConnected' = up /\ up = TRUE
        BY <1>0, <2>3, <3>1
      <4>3. QED
        BY <4>1, <4>2, Zenon
    <3>2. CASE ~up
      BY <1>0, <1>a, <2>3, <3>2
    <3>3. QED
      BY <3>1, <3>2
  <2>4. CASE up /\ sqlConn' = era /\ sqlConnected' = TRUE
    <3>1. era \in 0..era /\ era # 0
      BY <1>0, <1>a, <2>4
    <3>2. QED
      BY <2>4, <3>1, Zenon
  <2>5. CASE sqlConn' = 0 /\ sqlConnected' = FALSE
    <3>1. 0 \in 0..era
      BY <1>a
    <3>2. QED
      BY <2>5, <3>1, Zenon
  <2>6. QED
    BY <2>1, <2>2, <2>3, <2>4, <2>5
<1>5. sqlLock' \in Callers \cup {NoCaller} /\ pageLock' \in Callers \cup {NoCaller}
  <2>1. (\E job \in Jobs : Ask(t, job)) => UNCHANGED <<sqlLock, pageLock>>
    BY AskedIs
  <2>2. QED
    BY <1>0, <2>1, ReadyIs, PageIs, SentIs, AnsweredIs, RaisedIs, ReportedIs DEF ConsoleActs
<1>6. costs' \in [1..(MaxOutages + 1) -> Nat]
  <2>1. costs' = costs \/ costs' = Charged
    <3>1. (\E job \in Jobs : Ask(t, job)) => costs' = costs
      BY AskedIs
    <3>2. QED
      BY <3>1, ReadyIs, PageIs, SentIs, AnsweredIs, RaisedIs, ReportedIs DEF ConsoleActs
  <2>2. Charged \in [1..(MaxOutages + 1) -> Nat]
    BY <1>0, <1>a DEF Charged
  <2>3. QED
    BY <1>0, <2>1, <2>2
<1>7. QED
  BY <1>0, <1>1, <1>3, <1>4, <1>5, <1>6 DEF ConsoleTypes

\* Where each request is.
LEMMA ConsoleKeepsCalls ==
  ASSUME ConsoleTypes, CallsAdvance, NEW t \in Callers, ConsoleActs(t)
  PROVE  CallsAdvance'
<1>a. /\ caller' \in [Callers -> Caller] /\ up' = up /\ era' = era
      /\ \A v \in Callers : v # t => caller'[v] = caller[v]
  BY ConsoleOwn
<1>b. /\ up \in BOOLEAN /\ era \in Nat /\ (up => era # 0) /\ sqlConn \in 0..era
      /\ NoCaller \notin Callers
  BY ConsoleAssumption DEF ConsoleTypes
<1>c. caller[t] \in Caller /\ caller[t].job \in Jobs
  BY DEF ConsoleTypes, Caller
<1>d. Len(Statements(caller[t].job)) \in Nat /\ caller[t].at \in Nat /\ caller[t].errors \subseteq Ops
  BY <1>c, StatementsAre DEF Caller
<1> DEFINE Good(v) ==
      /\ caller'[v].at >= 1 /\ caller'[v].at <= Len(Statements(caller'[v].job)) + 1
      /\ caller'[v].pc \in {"new", "ready", "lock"} => caller'[v].at = 1 /\ caller'[v].errors = {}
      /\ caller'[v].pc = "running" =>
            sqlLock' = v /\ sqlConn' # 0 /\ caller'[v].at <= Len(Statements(caller'[v].job))
      /\ caller'[v].pc \in {"batch", "running"} /\ caller'[v].job # "explore" => pageLock' = v
      /\ caller'[v].calm => up' /\ sqlConn' \in {0, era'}
<1> SUFFICES \A v \in Callers : Good(v)
  BY DEF CallsAdvance, More
<1>1. ASSUME NEW v \in Callers, v # t PROVE Good(v)
  <2>0. /\ caller'[v] = caller[v]
        /\ caller[v].at >= 1 /\ caller[v].at <= Len(Statements(caller[v].job)) + 1
        /\ caller[v].pc \in {"new", "ready", "lock"} => caller[v].at = 1 /\ caller[v].errors = {}
        /\ caller[v].pc = "running" =>
              sqlLock = v /\ sqlConn # 0 /\ caller[v].at <= Len(Statements(caller[v].job))
        /\ caller[v].pc \in {"batch", "running"} /\ caller[v].job # "explore" => pageLock = v
        /\ caller[v].calm => up /\ sqlConn \in {0, era}
    BY <1>1, <1>a DEF CallsAdvance, More
  <2>1. sqlLock = v => sqlLock' = v /\ sqlConn' = sqlConn
    <3>1. (\E job \in Jobs : Ask(t, job)) => UNCHANGED <<sqlLock, sqlConn>>
      BY AskedIs
    <3>2. caller[t].pc = "running" => sqlLock = t
      BY DEF CallsAdvance
    <3>3. QED
      BY <1>1, <1>b, <3>1, <3>2, ReadyIs, PageIs, SentIs, AnsweredIs, RaisedIs, ReportedIs DEF ConsoleActs
  <2>2. pageLock = v => pageLock' = v
    <3>1. (\E job \in Jobs : Ask(t, job)) => UNCHANGED pageLock
      BY AskedIs
    <3>2. QED
      BY <1>1, <1>b, <3>1, ReadyIs, PageIs, SentIs, AnsweredIs, RaisedIs, ReportedIs DEF ConsoleActs
  <2>3. up /\ sqlConn \in {0, era} => sqlConn' \in {0, era}
    <3>1. (\E job \in Jobs : Ask(t, job)) => UNCHANGED sqlConn
      BY AskedIs
    <3>2. QED
      BY <3>1, ReadyIs, PageIs, SentIs, AnsweredIs, RaisedIs, ReportedIs DEF ConsoleActs
  <2>4. QED
    BY <1>a, <2>0, <2>1, <2>2, <2>3
<1>2. Good(t)
  <2>0. /\ caller[t].at >= 1 /\ caller[t].at <= Len(Statements(caller[t].job)) + 1
        /\ caller[t].pc \in {"new", "ready", "lock"} => caller[t].at = 1 /\ caller[t].errors = {}
        /\ caller[t].pc = "running" =>
              sqlLock = t /\ sqlConn # 0 /\ caller[t].at <= Len(Statements(caller[t].job))
        /\ caller[t].pc \in {"batch", "running"} /\ caller[t].job # "explore" => pageLock = t
        /\ caller[t].calm => up /\ sqlConn \in {0, era}
    BY DEF CallsAdvance, More
  <2>i. \A job \in Jobs : Len(Statements(job)) \in Nat /\ 1 <= Len(Statements(job)) + 1
    BY StatementsAre
  <2>j. caller'[t] = Idle => Good(t)
    <3>1. "status" \in Jobs
      BY DEF Jobs
    <3>2. QED
      BY <2>i, <3>1, IdleIs
  <2>1. ASSUME NEW job \in Jobs, Ask(t, job) PROVE Good(t)
    <3>1. /\ caller'[t].pc = "ready" /\ caller'[t].at = 1 /\ caller'[t].calm = FALSE
          /\ caller'[t].errors = {} /\ caller'[t].job = job
      BY <2>1, AskedIs
    <3>2. 1 <= Len(Statements(job)) + 1
      BY <2>i
    <3>3. QED
      BY <3>1, <3>2
  <2>2. CASE EnsureReady(t)
    BY <1>a, <1>b, <2>0, <2>2, <2>j, ReadyIs
  <2>3. CASE AcquirePage(t)
    BY <1>a, <2>0, <2>3, <2>j, PageIs, CallGoesIs
  <2>4. CASE SendStatement(t)
    <3>1. CASE CallGoes(t, "running") /\ sqlLock' = t
      <4>1. /\ caller'[t].pc = "running" /\ caller'[t].at = caller[t].at
            /\ caller'[t].calm = caller[t].calm /\ caller'[t].job = caller[t].job
        BY <3>1, CallGoesIs
      <4>2. /\ caller[t].pc = "batch" /\ More(t)
            /\ pageLock' = pageLock
            /\ \/ sqlConn' = sqlConn /\ sqlConn # 0
               \/ up /\ sqlConn' = era
        <5>1. t # NoCaller
          BY <1>b
        <5>2. caller[t].pc = "batch" /\ More(t) /\ sqlLock = NoCaller /\ pageLock' = pageLock
          BY <2>4, SentIs
        <5>3. \/ sqlConn # 0 /\ sqlConn' = sqlConn
              \/ up /\ sqlConn' = era
              \/ sqlLock' = sqlLock
          BY <2>4, SentIs
        <5>4. QED
          BY <3>1, <5>1, <5>2, <5>3
      <4>3. QED
        BY <1>a, <1>b, <2>0, <3>1, <4>1, <4>2 DEF More
    <3>2. CASE ~up /\ caller'[t] = Failed(t) /\ UNCHANGED <<sqlConn, sqlLock, pageLock>>
      <4>1. caller[t].pc = "batch" /\ More(t)
        BY <2>4, SentIs
      <4>2. QED
        BY <1>a, <2>0, <3>2, <4>1, FailedIs
    <3>3. QED
      BY <2>4, <3>1, <3>2, SentIs
  <2>5. CASE Answered(t)
    <3>1. /\ caller'[t].pc = "batch" /\ caller'[t].at = caller[t].at + 1
          /\ caller'[t].calm = caller[t].calm /\ caller'[t].job = caller[t].job
          /\ caller[t].pc = "running" /\ UNCHANGED <<sqlConn, pageLock>>
      BY <2>5, AnsweredIs
    <3>2. caller[t].at + 1 >= 1 /\ caller[t].at + 1 <= Len(Statements(caller[t].job)) + 1
      BY <1>d, <2>0, <3>1
    <3>3. QED
      BY <1>a, <2>0, <3>1, <3>2
  <2>6. CASE RaisesError(t)
    <3>1. /\ caller'[t] = Failed(t) /\ sqlConn' = 0 /\ caller[t].pc = "running" /\ pageLock' = pageLock
      BY <2>6, RaisedIs
    <3>2. More(t)
      BY <3>1 DEF CallsAdvance
    <3>3. QED
      BY <1>a, <2>0, <3>1, <3>2, FailedIs
  <2>7. CASE Reported(t)
    BY <2>7, <2>j, ReportedIs
  <2>8. QED
    BY <2>1, <2>2, <2>3, <2>4, <2>5, <2>6, <2>7 DEF ConsoleActs
<1>3. QED
  BY <1>1, <1>2

\* A statement is lost to a restart only on a connection of an earlier era, which is
\* dropped with it.
LEMMA ConsoleKeepsCosts ==
  ASSUME ConsoleTypes, CallsAdvance, CostsAreBounded, NEW t \in Callers, ConsoleActs(t)
  PROVE  CostsAreBounded'
<1>a. era' = era /\ up' = up
  BY ConsoleOwn
<1>b. /\ up \in BOOLEAN /\ era \in 0..(MaxOutages + 1) /\ MaxOutages \in Nat
      /\ costs \in [1..(MaxOutages + 1) -> Nat]
  BY ConsoleAssumption DEF ConsoleTypes
<1>1. CASE costs' = costs
  <2>1. sqlConn \in {0, era} => sqlConn' \in {0, era}
    <3>1. (\E job \in Jobs : Ask(t, job)) => UNCHANGED sqlConn
      BY AskedIs
    <3>2. QED
      BY <3>1, ReadyIs, PageIs, SentIs, AnsweredIs, RaisedIs, ReportedIs DEF ConsoleActs
  <2>2. QED
    BY <1>1, <1>a, <2>1 DEF CostsAreBounded
<1>2. CASE costs' # costs
  <2>1. RaisesError(t)
    <3>1. (\E job \in Jobs : Ask(t, job)) => costs' = costs
      BY AskedIs
    <3>2. QED
      BY <1>2, <3>1, ReadyIs, PageIs, SentIs, AnsweredIs, ReportedIs DEF ConsoleActs
  <2>2. /\ ~Alive /\ costs' = Charged /\ up /\ sqlConn' = 0 /\ caller[t].pc = "running"
    BY <1>2, <2>1, RaisedIs DEF Charged
  <2>3. sqlConn # era /\ sqlConn # 0
    BY <2>2 DEF Alive, CallsAdvance
  <2>4. costs' = [costs EXCEPT ![era] = costs[era] + 1]
    BY <2>2 DEF Charged
  <2>5. ASSUME NEW e \in 1..(MaxOutages + 1)
        PROVE  /\ costs'[e] <= 1
               /\ e > era => costs'[e] = 0
    <3>0. costs[e] \in Nat /\ costs[e] <= 1 /\ (e > era => costs[e] = 0)
          /\ (costs[e] = 1 /\ e = era => sqlConn \in {0, era})
      BY <1>b DEF CostsAreBounded
    <3>1. CASE e = era
      <4>1. costs[e] = 0
        BY <2>3, <3>0, <3>1
      <4>2. costs'[e] = 1
        BY <1>b, <2>4, <3>1, <4>1
      <4>3. QED
        BY <1>b, <3>1, <4>2
    <3>2. CASE e # era
      <4>1. costs'[e] = costs[e]
        BY <1>b, <2>4, <3>2
      <4>2. QED
        BY <3>0, <4>1
    <3>3. QED
      BY <3>1, <3>2
  <2>6. QED
    BY <1>a, <2>2, <2>5 DEF CostsAreBounded
<1>3. QED
  BY <1>1, <1>2

\* Nobody else changes the tables while a request holds the page's lock.
LEMMA OthersLeaveTheTables ==
  ASSUME ConsoleTypes, CallsAdvance, NEW t \in Callers, ConsoleActs(t),
         NEW v \in Callers, v # t, pageLock = v
  PROVE  rows' = rows /\ typed' = typed
<1>1. CASE ~Answered(t)
  <2>1. (\E job \in Jobs : Ask(t, job)) => UNCHANGED <<typed, rows>>
    BY AskedIs
  <2>2. QED
    BY <1>1, <2>1, ReadyIs, PageIs, SentIs, RaisedIs, ReportedIs DEF ConsoleActs
<1>2. CASE Answered(t)
  <2>1. caller[t].pc = "running" /\ Applies(Statement(t))
    BY <1>2, AnsweredIs
  <2>2. caller[t].job = "explore" /\ More(t)
    BY <2>1 DEF CallsAdvance
  <2>3. Statement(t) \in Stmt /\ Statement(t).op \in {"catalog", "read"}
    BY <2>2, StatementIs, StatementsAre DEF Statement
  <2>4. rows' = rows
    BY <2>1, <2>3, RowsAre DEF Applies
  <2>5. typed \in BOOLEAN
    BY DEF ConsoleTypes
  <2>6. typed' = typed
    BY <2>1, <2>3, <2>5 DEF Applies
  <2>7. QED
    BY <2>4, <2>6
<1>3. QED
  BY <1>1, <1>2

\* A calm request that sends a statement is answered, or refused for what the tables are.
LEMMA CalmIsAlive ==
  ASSUME ConsoleTypes, CallsAdvance, NEW t \in Callers, caller[t].calm, caller[t].pc = "running"
  PROVE  Alive /\ up /\ More(t)
  BY DEF CallsAdvance, Alive

\* How a batch that is under way came to be where it is.
LEMMA BatchIs ==
  ASSUME ConsoleTypes, CallsAdvance, NEW t \in Callers, ConsoleActs(t),
         caller'[t].calm, caller'[t].pc \in {"batch", "running"}
  PROVE  \/ /\ caller'[t].at = 1 /\ caller'[t].errors = {}
         \/ /\ caller[t].calm /\ caller[t].pc \in {"batch", "running"}
            /\ caller'[t].job = caller[t].job
            /\ caller'[t].at = caller[t].at /\ caller'[t].errors = caller[t].errors
            /\ rows' = rows /\ typed' = typed
         \/ /\ caller[t].calm /\ caller[t].pc = "running" /\ More(t)
            /\ caller'[t].job = caller[t].job
            /\ caller'[t].at = caller[t].at + 1 /\ caller'[t].errors = caller[t].errors
            /\ ~Rejects(Statement(t)) /\ Applies(Statement(t))
         \/ /\ caller[t].calm /\ caller[t].pc = "running" /\ More(t)
            /\ caller'[t].job = caller[t].job /\ caller'[t] = Failed(t)
            /\ Rejects(Statement(t)) /\ rows' = rows /\ typed' = typed
<1>0. caller[t].pc \in {"new", "ready", "lock"} => caller[t].at = 1 /\ caller[t].errors = {}
  BY DEF CallsAdvance
<1>i. caller'[t] # Idle
  BY IdleIs
<1>1. ASSUME NEW job \in Jobs, Ask(t, job) PROVE FALSE
  BY <1>1, AskedIs
<1>2. CASE EnsureReady(t)
  BY <1>0, <1>2, <1>i, ReadyIs
<1>3. CASE AcquirePage(t)
  BY <1>0, <1>3, <1>i, PageIs, CallGoesIs
<1>4. CASE SendStatement(t)
  <2>1. CASE CallGoes(t, "running")
    BY <1>4, <2>1, SentIs, CallGoesIs
  <2>2. CASE ~up /\ caller'[t] = Failed(t)
    <3>1. More(t)
      BY <1>4, SentIs
    <3>2. caller[t].calm
      BY <2>2, <3>1, FailedIs
    <3>3. QED
      BY <2>2, <3>2 DEF CallsAdvance
  <2>3. QED
    BY <1>4, <2>1, <2>2, SentIs
<1>5. CASE Answered(t)
  BY <1>5, AnsweredIs, CalmIsAlive
<1>6. CASE RaisesError(t)
  <2>1. /\ caller'[t] = Failed(t) /\ caller[t].pc = "running" /\ (Alive => Rejects(Statement(t)))
        /\ rows' = rows /\ typed' = typed
    BY <1>6, RaisedIs
  <2>2. More(t)
    BY <2>1 DEF CallsAdvance
  <2>3. caller[t].calm /\ Failed(t).job = caller[t].job
    BY <2>1, <2>2, FailedIs
  <2>4. Alive
    BY <2>1, <2>3, CalmIsAlive
  <2>5. QED
    BY <2>1, <2>2, <2>3, <2>4
<1>7. CASE Reported(t)
  BY <1>7, <1>i, ReportedIs
<1>8. QED
  BY <1>1, <1>2, <1>3, <1>4, <1>5, <1>6, <1>7 DEF ConsoleActs

\* A reset goes on.
LEMMA ConsoleKeepsReset ==
  ASSUME ConsoleTypes, CallsAdvance, ResetGoesOn, NEW t \in Callers, ConsoleActs(t)
  PROVE  ResetGoesOn'
<1> DEFINE n == Len(Tables)
           Good(v) ==
             /\ \A j \in 1..n : rows'[Tables[j]] \in ResetRow(j, caller'[v].at)
             /\ caller'[v].at = n + 2 => ~typed'
             /\ caller'[v].at > n + 2 => typed'
             /\ caller'[v].errors \subseteq {"dropType"}
<1> SUFFICES ASSUME NEW v \in Callers, caller'[v].calm, caller'[v].pc \in {"batch", "running"},
                    caller'[v].job = "reset"
             PROVE  Good(v)
  BY DEF ResetGoesOn, Calm
<1>a. n \in Nat /\ Len(Parents) \in Nat /\ Len(Parents) <= n
  BY TablesAre
<1>1. CASE v # t
  <2>1. caller'[v] = caller[v]
    BY <1>1, ConsoleOwn
  <2>2. pageLock = v
    BY <2>1 DEF CallsAdvance
  <2>3. rows' = rows /\ typed' = typed
    BY <1>1, <2>2, OthersLeaveTheTables
  <2>4. QED
    BY <2>1, <2>3 DEF ResetGoesOn, Calm
<1>2. CASE v = t
  <2>1. CASE caller'[t].at = 1 /\ caller'[t].errors = {}
    <3>1. \A j \in 1..n : ResetRow(j, 1) = {"absent", "empty", "seeded", "changed"}
      BY <1>a DEF ResetRow
    <3>2. ConsoleTypes'
      BY ConsoleKeepsTypes
    <3>3. rows' \in [Register -> {"absent", "empty", "seeded", "changed"}]
      BY <3>2 DEF ConsoleTypes
    <3>4. \A j \in 1..n : rows'[Tables[j]] \in {"absent", "empty", "seeded", "changed"}
      BY <3>3, TablesAre
    <3>5. 1 # n + 2 /\ ~(1 > n + 2)
      BY <1>a
    <3>6. QED
      BY <1>2, <2>1, <3>1, <3>4, <3>5
  <2>2. CASE /\ caller[t].calm /\ caller[t].pc \in {"batch", "running"} /\ caller'[t].job = caller[t].job
             /\ caller'[t].at = caller[t].at /\ caller'[t].errors = caller[t].errors
             /\ rows' = rows /\ typed' = typed
    BY <1>2, <2>2 DEF ResetGoesOn, Calm
  <2>3. ASSUME caller[t].calm, caller[t].pc = "running", More(t), caller'[t].job = caller[t].job
        PROVE  \E k \in 1..Len(Statements("reset")) :
                 /\ k = caller[t].at /\ Statement(t) = Statements("reset")[k]
                 /\ \A j \in 1..n : rows[Tables[j]] \in ResetRow(j, k)
                 /\ k = n + 2 => ~typed
                 /\ k > n + 2 => typed
                 /\ caller[t].errors \subseteq {"dropType"}
    <3>1. Calm(t, "reset")
      BY <1>2, <2>3 DEF Calm
    <3>2. caller[t].at \in 1..Len(Statements("reset")) /\ Statement(t) = Statements("reset")[caller[t].at]
      BY <1>2, <2>3, StatementIs DEF Statement
    <3>3. QED
      BY <3>1, <3>2 DEF ResetGoesOn
  <2>4. CASE /\ caller[t].calm /\ caller[t].pc = "running" /\ More(t) /\ caller'[t].job = caller[t].job
             /\ caller'[t].at = caller[t].at + 1 /\ caller'[t].errors = caller[t].errors
             /\ ~Rejects(Statement(t)) /\ Applies(Statement(t))
    <3>1. PICK k \in 1..Len(Statements("reset")) :
                 /\ k = caller[t].at /\ Statement(t) = Statements("reset")[k]
                 /\ \A j \in 1..n : rows[Tables[j]] \in ResetRow(j, k)
                 /\ k = n + 2 => ~typed
                 /\ k > n + 2 => typed
                 /\ caller[t].errors \subseteq {"dropType"}
      BY <2>3, <2>4
    <3>2. /\ \A j \in 1..n : rows'[Tables[j]] \in ResetRow(j, k + 1)
          /\ k + 1 = n + 2 => ~typed'
          /\ k + 1 > n + 2 => typed'
      BY <2>4, <3>1, ResetStep
    <3>3. QED
      BY <1>2, <2>4, <3>1, <3>2
  <2>5. CASE /\ caller[t].calm /\ caller[t].pc = "running" /\ More(t) /\ caller'[t].job = caller[t].job
             /\ caller'[t] = Failed(t)
             /\ Rejects(Statement(t)) /\ rows' = rows /\ typed' = typed
    <3>1. PICK k \in 1..Len(Statements("reset")) :
                 /\ k = caller[t].at /\ Statement(t) = Statements("reset")[k]
                 /\ \A j \in 1..n : rows[Tables[j]] \in ResetRow(j, k)
                 /\ k = n + 2 => ~typed
                 /\ k > n + 2 => typed
                 /\ caller[t].errors \subseteq {"dropType"}
      BY <2>3, <2>5
    <3>2. /\ Statement(t).op = "dropType" /\ k = n + 1 /\ ~typed
          /\ \A j \in 1..n : rows[Tables[j]] \in ResetRow(j, k + 1)
      BY <2>5, <3>1, ResetStep
    <3>3. /\ caller'[t].at = k + 1 /\ caller'[t].errors = caller[t].errors \cup {"dropType"}
      BY <2>5, <3>1, <3>2, FailedIs
    <3>4. ~(k + 1 > n + 2)
      BY <1>a, <3>2
    <3>5. QED
      BY <1>2, <2>5, <3>1, <3>2, <3>3, <3>4
  <2>6. QED
    BY <1>2, <2>1, <2>2, <2>4, <2>5, BatchIs
<1>3. QED
  BY <1>1, <1>2

\* A schema run goes on.
LEMMA ConsoleKeepsSchema ==
  ASSUME ConsoleTypes, CallsAdvance, SchemaGoesOn, NEW t \in Callers, ConsoleActs(t)
  PROVE  SchemaGoesOn'
<1> DEFINE n == Len(Tables)
           p == Len(Parents)
           Good(after, k) ==
             \A j \in 1..n :
                /\ k > j + 1 => after[Tables[j]] # "absent"
                /\ j <= p /\ k > n + 1 + j => after[Tables[j]] \notin {"absent", "empty"}
<1> SUFFICES ASSUME NEW v \in Callers, caller'[v].calm, caller'[v].pc \in {"batch", "running"},
                    caller'[v].job = "schema"
             PROVE  Good(rows', caller'[v].at)
  BY DEF SchemaGoesOn, Calm
<1>a. n \in Nat /\ p \in Nat
  BY TablesAre
<1>b. \A u \in Callers : Calm(u, "schema") => Good(rows, caller[u].at)
  BY DEF SchemaGoesOn
<1>1. CASE v # t
  <2>1. caller'[v] = caller[v]
    BY <1>1, ConsoleOwn
  <2>2. pageLock = v
    BY <2>1 DEF CallsAdvance
  <2>3. rows' = rows
    BY <1>1, <2>2, OthersLeaveTheTables
  <2>4. QED
    BY <1>b, <2>1, <2>3 DEF Calm
<1>2. CASE v = t
  <2>1. CASE caller'[t].at = 1 /\ caller'[t].errors = {}
    <3>1. \A j \in 1..n : ~(1 > j + 1) /\ ~(1 > n + 1 + j)
      BY <1>a
    <3>2. QED
      BY <1>2, <2>1, <3>1
  <2>2. CASE /\ caller[t].calm /\ caller[t].pc \in {"batch", "running"} /\ caller'[t].job = caller[t].job
             /\ caller'[t].at = caller[t].at /\ rows' = rows
    BY <1>2, <1>b, <2>2 DEF Calm
  <2>3. ASSUME caller[t].calm, caller[t].pc = "running", More(t), caller'[t].job = caller[t].job
        PROVE  \E k \in 1..Len(Statements("schema")) :
                 k = caller[t].at /\ Statement(t) = Statements("schema")[k] /\ Good(rows, k)
    <3>1. Calm(t, "schema")
      BY <1>2, <2>3 DEF Calm
    <3>2. caller[t].at \in 1..Len(Statements("schema")) /\ Statement(t) = Statements("schema")[caller[t].at]
      BY <1>2, <2>3, StatementIs DEF Statement
    <3>3. QED
      BY <1>b, <3>1, <3>2
  <2>4. CASE /\ caller[t].calm /\ caller[t].pc = "running" /\ More(t) /\ caller'[t].job = caller[t].job
             /\ caller'[t].at = caller[t].at + 1
             /\ ~Rejects(Statement(t)) /\ Applies(Statement(t))
    <3>1. PICK k \in 1..Len(Statements("schema")) :
            k = caller[t].at /\ Statement(t) = Statements("schema")[k] /\ Good(rows, k)
      BY <2>3, <2>4
    <3>2. PICK after : after = RowsAfter(Statement(t)) /\ after = rows'
      BY <2>4 DEF Applies
    <3>3. Good(after, k + 1)
      BY <2>4, <3>1, <3>2, SchemaStep
    <3>4. QED
      BY <1>2, <2>4, <3>1, <3>2, <3>3
  <2>5. CASE /\ caller[t].calm /\ caller[t].pc = "running" /\ More(t) /\ caller'[t].job = caller[t].job
             /\ caller'[t] = Failed(t)
             /\ Rejects(Statement(t)) /\ rows' = rows
    <3>1. PICK k \in 1..Len(Statements("schema")) :
            k = caller[t].at /\ Statement(t) = Statements("schema")[k] /\ Good(rows, k)
      BY <2>3, <2>5
    <3>2. Good(rows, k + 1)
      BY <2>5, <3>1, SchemaStep
    <3>3. Statement(t).op # "catalog"
      BY <2>5 DEF Rejects
    <3>4. caller'[t].at = k + 1
      BY <2>5, <3>1, <3>3, FailedIs
    <3>5. QED
      BY <1>2, <2>5, <3>2, <3>4
  <2>6. QED
    BY <1>2, <2>1, <2>2, <2>4, <2>5, BatchIs
<1>3. QED
  BY <1>1, <1>2

-----------------------------------------------------------------------------
(* SqlConsole: the service, and the theorems *)

\* The service goes: no batch is calm any more.
LEMMA GoingKeepsConsole ==
  ASSUME ConsoleInv, ServiceGoes
  PROVE  ConsoleInv'
<1>0. ConsoleTypes /\ CallsAdvance /\ CostsAreBounded
  BY DEF ConsoleInv
<1>1. /\ up /\ up' = FALSE /\ typed' = FALSE /\ era <= MaxOutages
      /\ caller' = [t \in Callers |-> [caller[t] EXCEPT !.calm = FALSE]]
      /\ UNCHANGED <<era, sqlConn, sqlConnected, sqlLock, pageLock, costs>>
  BY DEF ServiceGoes, client
<1>2. /\ caller' \in [Callers -> Caller]
      /\ \A t \in Callers :
            /\ caller'[t].job = caller[t].job /\ caller'[t].pc = caller[t].pc
            /\ caller'[t].at = caller[t].at /\ caller'[t].errors = caller[t].errors
            /\ caller'[t].calm = FALSE
  <2>1. \A t \in Callers : caller[t] \in Caller
    BY <1>0 DEF ConsoleTypes
  <2>2. \A t \in Callers : [caller[t] EXCEPT !.calm = FALSE] \in Caller
    BY <2>1 DEF Caller
  <2>3. \A t \in Callers : caller'[t] = [caller[t] EXCEPT !.calm = FALSE]
    BY <1>1
  <2>4. caller' \in [Callers -> Caller]
    BY <1>1, <2>2
  <2>5. QED
    BY <2>1, <2>3, <2>4 DEF Caller
<1>3. /\ rows' \in [Register -> {"absent", "empty", "seeded", "changed"}]
      /\ \A p \in Register : p \notin ToSet(Parents) => rows'[p] # "seeded"
  <2>1. \/ rows' = rows
        \/ \E t \in Callers : caller[t].pc = "running" /\ rows' = RowsAfter(Statement(t))
    BY DEF ServiceGoes
  <2>2. CASE rows' = rows
    BY <1>0, <2>2 DEF ConsoleTypes
  <2>3. ASSUME NEW t \in Callers, caller[t].pc = "running", rows' = RowsAfter(Statement(t))
        PROVE  /\ rows' \in [Register -> {"absent", "empty", "seeded", "changed"}]
               /\ \A p \in Register : p \notin ToSet(Parents) => rows'[p] # "seeded"
    <3>1. Statement(t) \in Stmt
      BY <1>0, <2>3, StatementIs DEF CallsAdvance
    <3>2. QED
      BY <1>0, <2>3, <3>1, RowsAre
  <2>4. QED
    BY <2>1, <2>2, <2>3
<1>4. ConsoleTypes'
  BY <1>0, <1>1, <1>2, <1>3 DEF ConsoleTypes
<1>5. CallsAdvance'
  BY <1>0, <1>1, <1>2 DEF CallsAdvance, More
<1>6. CostsAreBounded'
  BY <1>0, <1>1 DEF CostsAreBounded
<1>7. ResetGoesOn' /\ SchemaGoesOn'
  BY <1>2 DEF ResetGoesOn, SchemaGoesOn, Calm
<1>8. QED
  BY <1>4, <1>5, <1>6, <1>7 DEF ConsoleInv

\* It returns, in a new era.
LEMMA ReturnKeepsConsole ==
  ASSUME ConsoleInv, ServiceReturns
  PROVE  ConsoleInv'
<1>0. ConsoleTypes /\ CallsAdvance /\ CostsAreBounded
  BY DEF ConsoleInv
<1>1. /\ ~up /\ up' = TRUE /\ era' = era + 1
      /\ UNCHANGED <<typed, rows, sqlConn, sqlConnected, sqlLock, pageLock, caller, costs>>
  BY DEF ServiceReturns, client
<1>2. /\ era \in Nat /\ era <= MaxOutages /\ MaxOutages \in Nat /\ sqlConn \in 0..era
      /\ costs \in [1..(MaxOutages + 1) -> Nat]
  BY <1>0, <1>1, ConsoleAssumption DEF ConsoleTypes
<1>3. /\ era + 1 \in 0..(MaxOutages + 1) /\ era + 1 >= 1 /\ sqlConn \in 0..(era + 1)
  BY <1>2
<1>4. ConsoleTypes'
  BY <1>0, <1>1, <1>3 DEF ConsoleTypes
<1>5. \A t \in Callers : ~caller[t].calm
  BY <1>0, <1>1 DEF CallsAdvance
<1>6. CallsAdvance'
  BY <1>0, <1>1, <1>5 DEF CallsAdvance, More
<1>7. CostsAreBounded'
  <2>1. ASSUME NEW e \in 1..(MaxOutages + 1)
        PROVE  /\ costs[e] <= 1
               /\ e > era + 1 => costs[e] = 0
               /\ e = era + 1 => costs[e] # 1
    BY <1>0, <1>2 DEF CostsAreBounded
  <2>2. QED
    BY <1>1, <2>1 DEF CostsAreBounded
<1>8. ResetGoesOn' /\ SchemaGoesOn'
  BY <1>1, <1>5 DEF ResetGoesOn, SchemaGoesOn, Calm
<1>9. QED
  BY <1>4, <1>6, <1>7, <1>8 DEF ConsoleInv

\* It holds initially.
LEMMA InitConsole == ConsoleInit => ConsoleInv
<1> SUFFICES ASSUME ConsoleInit PROVE ConsoleInv
  OBVIOUS
<1>1. /\ up \in BOOLEAN /\ era = (IF up THEN 1 ELSE 0) /\ typed = FALSE
      /\ sqlConn = era /\ sqlConnected = up /\ sqlLock = NoCaller /\ pageLock = NoCaller
      /\ caller = [t \in Callers |-> Idle]
      /\ costs = [e \in 1..(MaxOutages + 1) |-> 0]
  BY DEF ConsoleInit
<1>2. PICK old \in {"absent", "changed"} : rows = [t \in Register |-> old]
  BY DEF ConsoleInit
<1>3. MaxOutages \in Nat
  BY ConsoleAssumption
<1>4. ConsoleTypes
  <2>1. caller \in [Callers -> Caller]
    BY <1>1, IdleIs
  <2>2. /\ rows \in [Register -> {"absent", "empty", "seeded", "changed"}]
        /\ \A t \in Register : rows[t] # "seeded"
    BY <1>2
  <2>3. era \in 0..(MaxOutages + 1) /\ (up => era >= 1) /\ (~up => era <= MaxOutages)
    BY <1>1, <1>3
  <2>4. sqlConn \in 0..era /\ sqlConnected = (sqlConn # 0)
    <3>1. CASE up
      <4>1. sqlConn = 1 /\ era = 1 /\ sqlConnected = TRUE
        BY <1>1, <3>1
      <4>2. 1 \in 0..1 /\ 1 # 0
        OBVIOUS
      <4>3. QED
        BY <4>1, <4>2, Zenon
    <3>2. CASE ~up
      <4>1. sqlConn = 0 /\ era = 0 /\ sqlConnected = FALSE
        BY <1>1, <3>2
      <4>2. 0 \in 0..0
        OBVIOUS
      <4>3. QED
        BY <4>1, <4>2, Zenon
    <3>3. QED
      BY <3>1, <3>2
  <2>5. costs \in [1..(MaxOutages + 1) -> Nat]
    BY <1>1
  <2>6. QED
    BY <1>1, <2>1, <2>2, <2>3, <2>4, <2>5 DEF ConsoleTypes
<1>5. \A t \in Callers : caller[t] = Idle
  BY <1>1
<1>6. CallsAdvance
  <2>1. "status" \in Jobs
    BY DEF Jobs
  <2>2. Len(Statements("status")) \in Nat
    BY <2>1, StatementsAre
  <2>3. 1 <= Len(Statements("status")) + 1
    BY <2>2
  <2>4. QED
    BY <1>5, <2>3, IdleIs DEF CallsAdvance
<1>7. CostsAreBounded
  BY <1>1 DEF CostsAreBounded
<1>8. ResetGoesOn /\ SchemaGoesOn
  BY <1>5, IdleIs DEF ResetGoesOn, SchemaGoesOn, Calm
<1>9. QED
  BY <1>4, <1>6, <1>7, <1>8 DEF ConsoleInv

\* So it always holds.
LEMMA ConsoleInvariant == ConsoleSpec => []ConsoleInv
<1>1. ConsoleInit => ConsoleInv
  BY InitConsole
<1>2. ConsoleInv /\ [ConsoleNext]_consoleVars => ConsoleInv'
  <2> SUFFICES ASSUME ConsoleInv, [ConsoleNext]_consoleVars PROVE ConsoleInv'
    OBVIOUS
  <2>1. ASSUME NEW t \in Callers, ConsoleActs(t) PROVE ConsoleInv'
    BY <2>1, ConsoleKeepsTypes, ConsoleKeepsCalls, ConsoleKeepsCosts, ConsoleKeepsReset,
       ConsoleKeepsSchema DEF ConsoleInv
  <2>2. CASE ServiceGoes
    BY <2>2, GoingKeepsConsole
  <2>3. CASE ServiceReturns
    BY <2>3, ReturnKeepsConsole
  <2>4. CASE UNCHANGED consoleVars
    <3>1. UNCHANGED <<up, era, typed, rows, sqlConn, sqlConnected, sqlLock, pageLock, caller, costs>>
      BY <2>4 DEF consoleVars, service, client
    <3>2. ConsoleTypes' /\ CallsAdvance' /\ CostsAreBounded'
      BY <3>1 DEF ConsoleInv, ConsoleTypes, CallsAdvance, CostsAreBounded, More
    <3>3. ResetGoesOn' /\ SchemaGoesOn'
      BY <3>1 DEF ConsoleInv, ResetGoesOn, SchemaGoesOn, Calm
    <3>4. QED
      BY <3>2, <3>3 DEF ConsoleInv
  <2>5. QED
    BY <2>1, <2>2, <2>3, <2>4 DEF ConsoleNext, ConsoleActs
<1>3. QED
  BY <1>1, <1>2, PTL DEF ConsoleSpec

\* The children are not among the parents.
LEMMA ChildrenAre == \A c \in ToSet(Children) : c \in Register /\ c \notin ToSet(Parents)
<1> SUFFICES ASSUME NEW c \in ToSet(Children) PROVE c \in Register /\ c \notin ToSet(Parents)
  OBVIOUS
<1>1. /\ Parents \in Seq(ToSet(Parents)) /\ Children \in Seq(ToSet(Children))
      /\ Len(Parents) \in Nat /\ Len(Children) \in Nat /\ Len(Tables) = Len(Parents) + Len(Children)
  BY TablesAre
<1>2. PICK i \in 1..Len(Children) : c = Children[i]
  <2>1. DOMAIN Children = 1..Len(Children)
    BY <1>1
  <2>2. QED
    BY <2>1 DEF ToSet
<1>3. Len(Parents) + i \in 1..Len(Tables) /\ ~(Len(Parents) + i <= Len(Parents))
  BY <1>1
<1>4. Tables[Len(Parents) + i] = c
  BY <1>1, <1>2 DEF Tables
<1>5. QED
  BY <1>3, <1>4, TablesAre

\* accord_sql_client.py, execute: whoever sends, and however often the service goes and
\* comes back, a restart costs one statement at most of all that follow it, and
\* everything has its type, for any tables and any number of callers.
THEOREM RestartsStayCheap == ConsoleSpec => []ConsoleSound
<1>1. ConsoleInv => ConsoleSound
  <2> SUFFICES ASSUME ConsoleInv PROVE ConsoleTypeOK /\ RestartCostsOneStatement
    BY DEF ConsoleSound
  <2>0. ConsoleTypes /\ CallsAdvance /\ CostsAreBounded
    BY DEF ConsoleInv
  <2>1. RestartCostsOneStatement
    BY <2>0 DEF ConsoleTypes, CostsAreBounded, RestartCostsOneStatement
  <2>2. /\ \A t \in ToSet(Parents) : rows[t] \in {"absent", "empty", "seeded", "changed"}
        /\ \A t \in ToSet(Children) : rows[t] \in {"absent", "empty", "changed"}
    BY <2>0, TablesAre, ChildrenAre DEF ConsoleTypes
  <2>3. {up, typed, sqlConnected} \subseteq BOOLEAN /\ sqlConnected = (sqlConn # 0)
    <3>1. (sqlConn # 0) \in BOOLEAN
      OBVIOUS
    <3>2. up \in BOOLEAN /\ typed \in BOOLEAN /\ sqlConnected = (sqlConn # 0)
      BY <2>0 DEF ConsoleTypes
    <3>3. sqlConnected \in BOOLEAN
      BY <3>1, <3>2
    <3>4. QED
      BY <3>2, <3>3
  <2>4. \A t \in Callers :
          /\ caller[t].job \in Jobs /\ caller[t].calm \in BOOLEAN
          /\ caller[t].pc \in {"new", "ready", "lock", "batch", "running"}
          /\ caller[t].at \in 1..(Len(Statements(caller[t].job)) + 1)
    <3> SUFFICES ASSUME NEW t \in Callers
                 PROVE  /\ caller[t].job \in Jobs /\ caller[t].calm \in BOOLEAN
                        /\ caller[t].pc \in {"new", "ready", "lock", "batch", "running"}
                        /\ caller[t].at \in 1..(Len(Statements(caller[t].job)) + 1)
      OBVIOUS
    <3>1. caller[t] \in Caller
      BY <2>0 DEF ConsoleTypes
    <3>2. /\ caller[t].job \in Jobs /\ caller[t].calm \in BOOLEAN /\ caller[t].at \in Nat
          /\ caller[t].pc \in {"new", "ready", "lock", "batch", "running"}
      BY <3>1 DEF Caller
    <3>3. caller[t].at >= 1 /\ caller[t].at <= Len(Statements(caller[t].job)) + 1
      BY <2>0 DEF CallsAdvance
    <3>4. Len(Statements(caller[t].job)) \in Nat
      BY <3>2, StatementsAre
    <3>5. QED
      BY <3>2, <3>3, <3>4
  <2>5. /\ era \in 0..(MaxOutages + 1) /\ sqlConn \in 0..era
        /\ {sqlLock, pageLock} \subseteq Callers \cup {NoCaller}
    BY <2>0 DEF ConsoleTypes
  <2>6. QED
    BY <2>1, <2>2, <2>3, <2>4, <2>5 DEF ConsoleTypeOK
<1>2. QED
  BY <1>1, ConsoleInvariant, PTL

\* sql_console.py, the reset and the schema run, for any tables, beside any other pages:
\* a reset that the service stayed up for ends with the seed and nothing else, no
\* statement but DROP TYPE having failed, and a schema run leaves every table there and
\* the seeded ones with rows.
THEOREM BatchesEndRight == ConsoleSpec => []BatchesDoTheirJob
<1>1. ConsoleInv => BatchesDoTheirJob
  <2> SUFFICES ASSUME ConsoleInv PROVE ResetRestoresTheSeed /\ SchemaRunCompletes
    BY DEF BatchesDoTheirJob
  <2> DEFINE n == Len(Tables)
             p == Len(Parents)
  <2>0. ConsoleTypes /\ CallsAdvance /\ ResetGoesOn /\ SchemaGoesOn
    BY DEF ConsoleInv
  <2>a. n \in Nat /\ p \in Nat /\ p >= 1 /\ p <= n
    BY TablesAre
  <2>b. ASSUME NEW t \in Callers, ~More(t)
        PROVE  caller[t].at = Len(Statements(caller[t].job)) + 1
    <3>1. caller[t] \in Caller
      BY <2>0 DEF ConsoleTypes
    <3>2. caller[t].at \in Nat /\ caller[t].job \in Jobs
      BY <3>1 DEF Caller
    <3>3. Len(Statements(caller[t].job)) \in Nat
      BY <3>2, StatementsAre
    <3>4. caller[t].at <= Len(Statements(caller[t].job)) + 1
      BY <2>0 DEF CallsAdvance
    <3>5. QED
      BY <2>b, <3>2, <3>3, <3>4 DEF More
  <2>1. ASSUME NEW t \in Callers, CalmEnd(t, "reset")
        PROVE  /\ \A q \in Register : rows[q] = IF q \in ToSet(Parents) THEN "seeded" ELSE "empty"
               /\ typed /\ caller[t].errors \subseteq {"dropType"}
    <3>1. caller[t].at = (2 * n + 2 + p) + 1 /\ Calm(t, "reset")
      BY <2>1, <2>b, ResetIs DEF CalmEnd, Calm
    <3>2. PICK k \in Nat : k = caller[t].at /\ k = (2 * n + 2 + p) + 1
      BY <2>a, <3>1
    <3>3. /\ \A j \in 1..n : rows[Tables[j]] \in ResetRow(j, k)
          /\ k > n + 2 => typed
          /\ caller[t].errors \subseteq {"dropType"}
      BY <2>0, <3>1, <3>2 DEF ResetGoesOn
    <3>4. k > n + 2
      BY <2>a, <3>2
    <3>5. \A j \in 1..n : ResetRow(j, k) = IF j <= p THEN {"seeded"} ELSE {"empty"}
      BY <2>a, <3>2 DEF ResetRow
    <3>6. ASSUME NEW q \in Register
          PROVE  rows[q] = IF q \in ToSet(Parents) THEN "seeded" ELSE "empty"
      <4>1. PICK j \in 1..n : q = Tables[j]
        BY TablesAre
      <4>2. q \in ToSet(Parents) => j <= p
        BY <4>1, TablesAre
      <4>3. j <= p => q \in ToSet(Parents)
        <5>1. j <= p => j \in 1..p
          BY <2>a
        <5>2. QED
          BY <4>1, <5>1, TablesAre
      <4>4. QED
        BY <3>3, <3>5, <4>1, <4>2, <4>3
    <3>7. QED
      BY <3>3, <3>4, <3>6
  <2>2. ASSUME NEW t \in Callers, CalmEnd(t, "schema")
        PROVE  /\ \A q \in Register : rows[q] # "absent"
               /\ \A q \in ToSet(Parents) : rows[q] # "empty"
    <3>1. caller[t].at = (n + 1 + p) + 1 /\ Calm(t, "schema")
      BY <2>2, <2>b, SchemaIs DEF CalmEnd, Calm
    <3>2. PICK k \in Nat : k = caller[t].at /\ k = (n + 1 + p) + 1
      BY <2>a, <3>1
    <3>3. \A j \in 1..n :
            /\ k > j + 1 => rows[Tables[j]] # "absent"
            /\ j <= p /\ k > n + 1 + j => rows[Tables[j]] \notin {"absent", "empty"}
      BY <2>0, <3>1, <3>2 DEF SchemaGoesOn
    <3>4. \A j \in 1..n : k > j + 1 /\ (j <= p => k > n + 1 + j)
      BY <2>a, <3>2
    <3>5. \A q \in Register : rows[q] # "absent"
      <4>1. \A q \in Register : \E j \in 1..n : q = Tables[j]
        BY TablesAre
      <4>2. QED
        BY <3>3, <3>4, <4>1
    <3>6. ASSUME NEW q \in ToSet(Parents) PROVE rows[q] # "empty"
      <4>1. PICK j \in 1..p : q = Tables[j]
        BY TablesAre
      <4>2. j \in 1..n /\ j <= p
        BY <2>a
      <4>3. QED
        BY <3>3, <3>4, <4>1, <4>2
    <3>7. QED
      BY <3>5, <3>6
  <2>3. QED
    BY <2>1, <2>2 DEF ResetRestoresTheSeed, SchemaRunCompletes
<1>2. QED
  BY <1>1, ConsoleInvariant, PTL

=============================================================================
