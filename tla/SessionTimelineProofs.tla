----------------------- MODULE SessionTimelineProofs -----------------------
(***************************************************************************)
(* TLAPS proofs about SessionTimeline, for every set of sessions, requests *)
(* and lost answers and every largest sequence number.                     *)
(***************************************************************************)
EXTENDS SessionTimeline, FiniteSetTheorems, SequenceTheorems, TLAPS

\* The types of the three tables, apart from the requests'.
TablesTypeOK ==
    /\ sessionsOpen \subseteq Sessions
    /\ seqApplied \in [Sessions -> SUBSET Seqs]
    /\ timeline \in [Sessions -> [Seqs -> Events \cup {NoEvent}]]

\* A request about to count rows has the call it counts for in front of it,
\* and the log entry to complete.
CountsFollowACall ==
    \A r \in Requests : job[r].pc = "rows" =>
        job[r].script # <<>> /\ job[r].log # <<>>

\* A transaction that may land late carries the event_id it was given.
LateCallsCarryEvents ==
    \A o \in Lost : orphan[o] # NoCall /\ orphan[o].call.kind = "apply" =>
        orphan[o].event \in Events

\* The part of the invariant that speaks of the tables alone.
TablesInv == TablesTypeOK /\ NoGaps /\ TablesAgree

\* The inductive invariant.
TimelineInv == TypeOK /\ CountsFollowACall /\ LateCallsCarryEvents /\ TablesInv

-----------------------------------------------------------------------------
(* Types of the values a step writes *)

\* An idle request's local state is well typed.
LEMMA IdleJobType == IdleJob \in Job
<1>1. <<>> \in Seq(Calls) /\ <<>> \in Seq(LogEntry)
  OBVIOUS
<1>2. QED
  BY <1>1 DEF IdleJob, Job

\* The calls the routes build are well typed.
LEMMA CallType ==
  ASSUME NEW s \in Sessions, NEW n \in Seqs
  PROVE  OpenCall(s) \in Calls /\ ApplyCall(s, n) \in Calls
  BY BoundsAssumption DEF OpenCall, ApplyCall, Calls, Seqs

\* The number of rows a session has is a natural number.
LEMMA RowCountType == ASSUME NEW s PROVE RowCount(s) \in Nat
<1>1. IsFiniteSet(Seqs)
  BY BoundsAssumption, FS_Interval DEF Seqs
<1>2. IsFiniteSet({n \in Seqs : timeline[s][n] # NoEvent})
  BY <1>1, FS_Subset
<1>3. QED
  BY <1>2, FS_CardinalityType DEF RowCount

\* The demo's script names sequence numbers in bounds.
LEMMA DemoScriptType ==
  ASSUME NEW s \in Sessions, NEW m \in Sessions, "demo" \in Ops
  PROVE  DemoScript(s, m) \in Seq(Calls)
<1>1. 0 \in Seqs /\ 1 \in Seqs /\ 2 \in Seqs
  BY BoundsAssumption, DemoAssumption DEF Seqs
<1>2. <<OpenCall(s), ApplyCall(s, 0), ApplyCall(s, 0), ApplyCall(s, 2),
        ApplyCall(s, 1), ApplyCall(s, 2)>> \in Seq(Calls)
  BY <1>1, CallType
<1>3. \A i \in 1..(Repeats + 1) : ApplyCall(m, i - 1) \in Calls
  BY BoundsAssumption, CallType DEF Seqs
<1>4. [i \in 1..(Repeats + 1) |-> ApplyCall(m, i - 1)] \in Seq(Calls)
  BY <1>3, BoundsAssumption, IsASeq
<1>5. <<OpenCall(m)>> \in Seq(Calls) /\ <<>> \in Seq(Calls)
  BY <1>1, CallType
<1>6. QED
  BY <1>2, <1>4, <1>5, ConcatProperties DEF DemoScript, RepeatApplied

-----------------------------------------------------------------------------
(* Types of the states *)

\* A call leaves the tables well typed, whether or not its IF fired.
LEMMA ExecuteType ==
  ASSUME TablesTypeOK, NEW c \in Calls, NEW e \in Events \cup {NoEvent}, Execute(c, e)
  PROVE  TablesTypeOK'
<1>1. c.session \in Sessions /\ c.seq \in Seqs
  BY DEF Calls
<1>2. CASE Open(c.session)
  BY <1>1, <1>2 DEF Open, TablesTypeOK
<1>3. CASE Apply(c.session, c.seq, e)
  BY <1>1, <1>3 DEF Apply, TablesTypeOK
<1>4. CASE UNCHANGED tables
  BY <1>4 DEF tables, TablesTypeOK
<1>5. QED
  BY <1>2, <1>3, <1>4 DEF Execute

\* Replacing one request's local state by a well-typed one keeps the type.
LEMMA BecomesType ==
  ASSUME TypeOK, NEW r \in Requests, NEW j \in Job, Becomes(r, j)
  PROVE  job' \in [Requests -> Job]
  BY DEF TypeOK, Becomes

\* ... and the same for what requests about to count rows rely on.
LEMMA BecomesCounts ==
  ASSUME TypeOK, CountsFollowACall, NEW r \in Requests, NEW j \in Job, Becomes(r, j),
         j.pc = "rows" => j.script # <<>> /\ j.log # <<>>
  PROVE  CountsFollowACall'
<1>1. \A q \in Requests : job'[q] = IF q = r THEN j ELSE job[q]
  BY DEF Becomes, TypeOK
<1>2. QED
  BY <1>1 DEF CountsFollowACall

\* What the local and in-flight state of a request must satisfy.
LocalInv == TypeOK /\ CountsFollowACall /\ LateCallsCarryEvents

\* Starting a request keeps the local invariant.
LEMMA StartLocal ==
  ASSUME LocalInv, NEW r \in Requests, Start(r)
  PROVE  LocalInv'
<1> USE IdleJobType DEF LocalInv
<1>a. SomeOrphan \in BOOLEAN
  BY DEF SomeOrphan
<1>b. ASSUME NEW j \in Job, j.pc = "call", Becomes(r, j), Acquire(r), minted' \subseteq Sessions
      PROVE  LocalInv'
  <2>1. job' \in [Requests -> Job]
    BY <1>b, BecomesType
  <2>2. CountsFollowACall'
    BY <1>b, BecomesCounts
  <2>3. QED
    BY <1>b, <2>1, <2>2 DEF Acquire, TypeOK, tables, LateCallsCarryEvents
<1>1. ASSUME NEW s \in Sessions, NEW n \in Seqs, StartStep(r, s, n) PROVE LocalInv'
  <2> DEFINE j == [IdleJob EXCEPT !.op = "step", !.pc = "call",
                                  !.script = <<ApplyCall(s, n)>>, !.tainted = SomeOrphan]
  <2>1. <<ApplyCall(s, n)>> \in Seq(Calls)
    BY CallType
  <2>2. j \in Job /\ j.pc = "call"
    BY <1>1, <1>a, <2>1, Zenon DEF Job, StartStep, IdleJob
  <2>3. QED
    BY <1>1, <1>b, <2>2 DEF StartStep, TypeOK
<1>2. ASSUME NEW s \in Sessions, NEW m \in Sessions, StartDemo(r, s, m) PROVE LocalInv'
  <2> DEFINE j == [IdleJob EXCEPT !.op = "demo", !.pc = "call",
                                  !.script = DemoScript(s, m), !.tainted = SomeOrphan]
  <2>1. DemoScript(s, m) \in Seq(Calls)
    BY <1>2, DemoScriptType DEF StartDemo
  <2>2. j \in Job /\ j.pc = "call"
    BY <1>2, <1>a, <2>1, Zenon DEF Job, StartDemo, IdleJob
  <2>3. QED
    BY <1>2, <1>b, <2>2 DEF StartDemo, TypeOK
<1>3. QED
  BY <1>1, <1>2 DEF Start

\* A request that goes on keeps the local invariant.
LEMMA ProgressLocal ==
  ASSUME LocalInv, NEW r \in Requests, Progress(r)
  PROVE  LocalInv'
<1> USE IdleJobType DEF LocalInv
<1>a. TablesTypeOK /\ job[r] \in Job
  BY DEF TypeOK, TablesTypeOK
<1>b. ASSUME NEW j \in Job, j.pc = "rows" => j.script # <<>> /\ j.log # <<>>,
             Becomes(r, j), UNCHANGED <<minted, orphan>>, lock' \in {lock, Free},
             TablesTypeOK'
      PROVE  LocalInv'
  <2>1. job' \in [Requests -> Job]
    BY <1>b, BecomesType
  <2>2. CountsFollowACall'
    BY <1>b, BecomesCounts
  <2>3. QED
    BY <1>b, <2>1, <2>2 DEF TablesTypeOK, TypeOK, LateCallsCarryEvents
<1>c. Calling(r) => NextCall(r) \in Calls /\ Tail(job[r].script) \in Seq(Calls)
  BY <1>a DEF Calling, NextCall, Job
<1>1. CASE CallOpen(r)
  <2> DEFINE j == [job[r] EXCEPT !.script = Tail(@)]
  <2>1. j \in Job /\ j.pc = job[r].pc
    BY <1>1, <1>a, <1>c, Zenon DEF Job, CallOpen
  <2>2. TablesTypeOK'
    BY <1>1, <1>a, <1>c DEF CallOpen, Open, TablesTypeOK, Calls
  <2>3. QED
    BY <1>1, <1>b, <2>1, <2>2 DEF CallOpen, Calling
<1>2. ASSUME NEW e \in Events, CallApply(r, e) PROVE LocalInv'
  <2> DEFINE entry == [seq |-> NextCall(r).seq, answer |-> Answer(NextCall(r)), rows |-> 0]
             l == Append(job[r].log, entry)
             j == [job[r] EXCEPT !.pc = "rows", !.log = Append(@, entry)]
  <2>1. entry \in LogEntry
    BY <1>2, <1>c DEF CallApply, Calls, Answer, LogEntry
  <2>2. l \in Seq(LogEntry) /\ l # <<>>
    BY <1>a, <2>1, AppendProperties DEF Job
  <2> HIDE DEF entry
  <2>3. j \in Job /\ j.pc = "rows" /\ j.script = job[r].script /\ j.log = l
    BY <1>a, <2>2, Zenon DEF Job
  <2>4. TablesTypeOK'
    BY <1>2, <1>a, <1>c, ExecuteType DEF CallApply
  <2>5. Becomes(r, j) /\ job[r].script # <<>>
    BY <1>2 DEF CallApply, Calling, entry
  <2>6. QED
    BY <1>2, <1>b, <2>2, <2>3, <2>4, <2>5 DEF CallApply
<1>3. CASE CountRows(r)
  <2> DEFINE n == RowCount(NextCall(r).session)
             l == Counted(job[r].log, n)
             j == [job[r] EXCEPT !.pc = "call", !.script = Tail(@),
                      !.log = Counted(@, n)]
  <2>1. job[r].script # <<>> /\ job[r].log # <<>> /\ job[r].log \in Seq(LogEntry)
    BY <1>3, <1>a DEF CountRows, CountsFollowACall, Job
  <2>2. Len(job[r].log) \in 1..Len(job[r].log)
    BY <2>1
  <2>3. job[r].log[Len(job[r].log)] \in LogEntry
    BY <2>1, <2>2, ElementOfSeq
  <2>4. [job[r].log[Len(job[r].log)] EXCEPT !.rows = n] \in LogEntry
    BY <2>3, RowCountType, Zenon DEF LogEntry
  <2>5. l \in Seq(LogEntry)
    BY <2>1, <2>2, <2>4, ExceptSeq DEF Counted
  <2>6. Tail(job[r].script) \in Seq(Calls)
    BY <1>a, <2>1 DEF Job
  <2>7. j \in Job /\ j.pc = "call"
    BY <1>a, <2>5, <2>6, Zenon DEF Job
  <2>8. TablesTypeOK' /\ Becomes(r, j) /\ UNCHANGED <<minted, orphan, lock>>
    BY <1>3, <1>a DEF CountRows, tables, TablesTypeOK
  <2>9. QED
    BY <1>b, <2>7, <2>8
<1>4. CASE Finish(r)
  BY <1>4, <1>a, <1>b DEF Finish, tables, TablesTypeOK, IdleJob
<1>5. QED
  BY <1>1, <1>2, <1>3, <1>4 DEF Progress

\* A request that meets a fault keeps the local invariant.
LEMMA FaultLocal ==
  ASSUME LocalInv, NEW r \in Requests, Fault(r)
  PROVE  LocalInv'
<1> USE IdleJobType DEF LocalInv
<1>a. job[r] \in Job
  BY DEF TypeOK
<1>b. ASSUME NEW j \in Job, j.pc = "rows" => j.script # <<>> /\ j.log # <<>>,
             Becomes(r, j), UNCHANGED <<tables, minted>>, lock' \in {lock, Free},
             orphan' \in [Lost -> Pending \cup {NoCall}], LateCallsCarryEvents'
      PROVE  LocalInv'
  <2>1. job' \in [Requests -> Job]
    BY <1>b, BecomesType
  <2>2. CountsFollowACall'
    BY <1>b, BecomesCounts
  <2>3. QED
    BY <1>b, <2>1, <2>2 DEF TypeOK, tables
<1>c. Calling(r) => NextCall(r) \in Calls
  BY <1>a DEF Calling, NextCall, Job
<1>1. CASE CountFails(r)
  BY <1>1, <1>b DEF CountFails, IdleJob, TypeOK, LateCallsCarryEvents
<1>2. ASSUME NEW o \in Lost, CallOpenLost(r, o) PROVE LocalInv'
  <2>1. [call |-> NextCall(r), event |-> NoEvent] \in Pending
    BY <1>2, <1>c DEF CallOpenLost, Pending
  <2>2. orphan' \in [Lost -> Pending \cup {NoCall}]
    BY <1>2, <2>1 DEF CallOpenLost, TypeOK
  <2>3. LateCallsCarryEvents'
    BY <1>2 DEF CallOpenLost, TypeOK, LateCallsCarryEvents
  <2>4. QED
    BY <1>2, <1>b, <2>2, <2>3 DEF CallOpenLost, IdleJob
<1>3. ASSUME NEW o \in Lost, NEW e \in Events, CallApplyLost(r, e, o) PROVE LocalInv'
  <2> DEFINE entry == [seq |-> NextCall(r).seq, answer |-> "error", rows |-> 0]
             l == Append(job[r].log, entry)
             j == [job[r] EXCEPT !.pc = "rows", !.log = Append(@, entry), !.tainted = TRUE]
  <2>1. [call |-> NextCall(r), event |-> e] \in Pending
    BY <1>3, <1>c DEF CallApplyLost, Pending
  <2>2. orphan' \in [Lost -> Pending \cup {NoCall}]
    BY <1>3, <2>1 DEF CallApplyLost, TypeOK
  <2>3. LateCallsCarryEvents'
    BY <1>3 DEF CallApplyLost, TypeOK, LateCallsCarryEvents
  <2>4. entry \in LogEntry
    BY <1>3, <1>c DEF CallApplyLost, Calls, LogEntry
  <2>5. l \in Seq(LogEntry) /\ l # <<>>
    BY <1>a, <2>4, AppendProperties DEF Job
  <2> HIDE DEF entry
  <2>6. j \in Job /\ j.pc = "rows" /\ j.script = job[r].script /\ j.log = l
    BY <1>a, <2>5, Zenon DEF Job
  <2>7. Becomes(r, j) /\ job[r].script # <<>>
    BY <1>3 DEF CallApplyLost, Calling, entry
  <2>8. QED
    BY <1>3, <1>b, <2>2, <2>3, <2>5, <2>6, <2>7 DEF CallApplyLost
<1>4. QED
  BY <1>1, <1>2, <1>3 DEF Fault

\* Every step keeps the local invariant.
LEMMA LocalStep ==
  ASSUME LocalInv, [Next]_vars
  PROVE  LocalInv'
<1> USE DEF LocalInv
<1>1. ASSUME NEW s \in Sessions, SessionOpen(s) PROVE LocalInv'
  BY <1>1 DEF SessionOpen, Open, TypeOK, CountsFollowACall, LateCallsCarryEvents
<1>2. ASSUME NEW s \in Sessions, NEW o \in Lost, SessionOpenLost(s, o) PROVE LocalInv'
  <2>1. 0 \in Seqs
    BY BoundsAssumption DEF Seqs
  <2>2. OpenCall(s) \in Calls /\ OpenCall(s).kind = "open"
    BY <2>1, CallType DEF OpenCall
  <2>3. [call |-> OpenCall(s), event |-> NoEvent] \in Pending
    BY <2>2 DEF Pending
  <2>4. TypeOK'
    BY <1>2, <2>3 DEF SessionOpenLost, TypeOK, tables
  <2>5. LateCallsCarryEvents'
    BY <1>2, <2>2 DEF SessionOpenLost, TypeOK, LateCallsCarryEvents
  <2>6. QED
    BY <1>2, <2>4, <2>5 DEF SessionOpenLost, CountsFollowACall
<1>3. ASSUME NEW r \in Requests, Start(r) \/ Progress(r) \/ Fault(r) PROVE LocalInv'
  BY <1>3, StartLocal, ProgressLocal, FaultLocal
<1>4. ASSUME NEW o \in Lost, Land(o) PROVE LocalInv'
  <2>1. TablesTypeOK /\ orphan[o] \in Pending
    BY <1>4 DEF Land, TypeOK, TablesTypeOK
  <2>2. TablesTypeOK'
    BY <1>4, <2>1, ExecuteType DEF Land, Pending
  <2>3. QED
    BY <1>4, <2>2 DEF Land, TypeOK, TablesTypeOK, CountsFollowACall, LateCallsCarryEvents
<1>5. ASSUME NEW o \in Lost, Vanish(o) PROVE LocalInv'
  BY <1>5 DEF Vanish, tables, TypeOK, CountsFollowACall, LateCallsCarryEvents
<1>6. CASE UNCHANGED vars
  BY <1>6 DEF vars, TypeOK, CountsFollowACall, LateCallsCarryEvents
<1>7. QED
  BY <1>1, <1>2, <1>3, <1>4, <1>5, <1>6 DEF Next

-----------------------------------------------------------------------------
(* The tables *)

\* Opening a session adds no row.
LEMMA OpenKeeps ==
  ASSUME TablesInv, NEW s \in Sessions, Open(s)
  PROVE  TablesInv'
  BY DEF TablesInv, TablesTypeOK, NoGaps, TablesAgree, Open

\* The transaction appends right after the rows that are there, in both tables.
LEMMA ApplyKeeps ==
  ASSUME TablesInv, NEW s \in Sessions, NEW n \in Seqs, NEW e \in Events, Apply(s, n, e)
  PROVE  TablesInv'
<1> USE DEF TablesInv
<1>1. TablesTypeOK'
  BY DEF TablesTypeOK, Apply
<1>2. /\ seqApplied'[s] = seqApplied[s] \cup {n}
      /\ \A q \in Sessions \ {s} : seqApplied'[q] = seqApplied[q]
  BY DEF TablesTypeOK, Apply
<1>3. /\ timeline'[s][n] = e
      /\ \A m \in Seqs \ {n} : timeline'[s][m] = timeline[s][m]
      /\ \A q \in Sessions \ {s} : timeline'[q] = timeline[q]
  BY DEF TablesTypeOK, Apply
<1>4. NoGaps'
  <2>1. \A m \in 0..n : m \in seqApplied'[s]
    <3>1. n \in Nat /\ (n > 0 => n - 1 \in seqApplied[s])
      BY BoundsAssumption DEF Apply, ApplyGuard, Seqs
    <3>2. \A m \in 0..(n - 1) : n > 0 => m \in seqApplied[s]
      BY <3>1 DEF NoGaps
    <3>3. QED
      BY <1>2, <3>1, <3>2
  <2>2. \A q \in Sessions : \A k \in seqApplied[q] : \A m \in 0..k : m \in seqApplied'[q]
    BY <1>2 DEF NoGaps
  <2>3. QED
    BY <1>2, <2>1, <2>2 DEF NoGaps
<1>5. TablesAgree'
  <2>1. sessionsOpen' = sessionsOpen /\ s \in sessionsOpen /\ e # NoEvent
    BY NoEventAssumption DEF Apply, ApplyGuard
  <2>2. \A q \in Sessions, m \in Seqs :
           m \in seqApplied'[q] <=> timeline'[q][m] # NoEvent
    BY <1>2, <1>3, <2>1 DEF TablesAgree
  <2>3. QED
    BY <1>2, <2>1, <2>2 DEF TablesAgree
<1>6. QED
  BY <1>1, <1>4, <1>5

\* Whatever a step does to the tables is one opening or one transaction.
LEMMA StepExecutes ==
  ASSUME LocalInv, [Next]_vars
  PROVE  \/ UNCHANGED tables
         \/ \E s \in Sessions : Open(s)
         \/ \E s \in Sessions, n \in Seqs, e \in Events : Apply(s, n, e)
<1> DEFINE Goal == \/ UNCHANGED tables
                   \/ \E s \in Sessions : Open(s)
                   \/ \E s \in Sessions, n \in Seqs, e \in Events : Apply(s, n, e)
<1>a. ASSUME NEW c \in Calls, NEW e, Execute(c, e), c.kind = "apply" => e \in Events
      PROVE  Goal
  <2>1. c.session \in Sessions /\ c.seq \in Seqs
    BY DEF Calls
  <2>2. QED
    BY <1>a, <2>1 DEF Execute
<1>b. ASSUME NEW r \in Requests, Calling(r) PROVE NextCall(r) \in Calls
  BY <1>b DEF LocalInv, TypeOK, Job, Calling, NextCall
<1>1. ASSUME NEW s \in Sessions, SessionOpen(s) \/ \E o \in Lost : SessionOpenLost(s, o)
      PROVE  Goal
  BY <1>1 DEF SessionOpen, SessionOpenLost
<1>2. ASSUME NEW r \in Requests, Start(r) PROVE Goal
  BY <1>2 DEF Start, StartStep, StartDemo, Acquire
<1>3. ASSUME NEW r \in Requests, Fault(r) PROVE Goal
  BY <1>3 DEF Fault, CountFails, CallApplyLost, CallOpenLost
<1>4. ASSUME NEW r \in Requests, Progress(r) PROVE Goal
  <2>1. CASE CallOpen(r)
    BY <2>1, <1>b DEF CallOpen, Calls
  <2>2. ASSUME NEW e \in Events, CallApply(r, e) PROVE Goal
    BY <2>2, <1>a, <1>b DEF CallApply
  <2>3. CASE CountRows(r) \/ Finish(r)
    BY <2>3 DEF CountRows, Finish
  <2>4. QED
    BY <1>4, <2>1, <2>2, <2>3 DEF Progress
<1>5. ASSUME NEW o \in Lost, Land(o) \/ Vanish(o) PROVE Goal
  <2>1. CASE Land(o)
    <3>1. orphan[o].call \in Calls
      BY <2>1 DEF LocalInv, TypeOK, Land, Pending
    <3>2. orphan[o].call.kind = "apply" => orphan[o].event \in Events
      BY <2>1 DEF LocalInv, LateCallsCarryEvents, Land
    <3>3. QED
      BY <2>1, <3>1, <3>2, <1>a DEF Land
  <2>2. QED
    BY <1>5, <2>1 DEF Vanish
<1>6. CASE UNCHANGED vars
  BY <1>6 DEF vars, tables
<1>7. QED
  BY <1>1, <1>2, <1>3, <1>4, <1>5, <1>6 DEF Next

\* The invariant holds initially.
LEMMA InitInv == Init => TimelineInv
<1> SUFFICES ASSUME Init PROVE TimelineInv
  OBVIOUS
<1>1. TypeOK /\ CountsFollowACall /\ LateCallsCarryEvents
  BY IdleJobType DEF Init, TypeOK, CountsFollowACall, LateCallsCarryEvents, IdleJob
<1>2. TablesInv
  BY DEF Init, TablesInv, TablesTypeOK, NoGaps, TablesAgree
<1>3. QED
  BY <1>1, <1>2 DEF TimelineInv

\* Every step keeps the invariant.
LEMMA InvStep == TimelineInv /\ [Next]_vars => TimelineInv'
<1> SUFFICES ASSUME TimelineInv, [Next]_vars PROVE TimelineInv'
  OBVIOUS
<1>1. LocalInv'
  BY LocalStep DEF TimelineInv, LocalInv
<1>2. TablesInv'
  <2>1. CASE UNCHANGED tables
    BY <2>1 DEF TimelineInv, TablesInv, TablesTypeOK, NoGaps, TablesAgree, tables
  <2>2. QED
    BY <2>1, StepExecutes, OpenKeeps, ApplyKeeps DEF TimelineInv, LocalInv
<1>3. QED
  BY <1>1, <1>2 DEF TimelineInv, LocalInv

\* Every variable keeps its type in every reachable state.
THEOREM TypeCorrect == Spec => []TypeOK
<1>1. TimelineInv => TypeOK
  BY DEF TimelineInv
<1>2. QED
  BY <1>1, InitInv, InvStep, PTL DEF Spec

\* In every reachable state the sequence numbers applied to a session have no
\* gap, for any number of retries, replays and late transactions.
THEOREM TimelineHasNoGaps == Spec => []NoGaps
<1>1. TimelineInv => NoGaps
  BY DEF TimelineInv, TablesInv
<1>2. QED
  BY <1>1, InitInv, InvStep, PTL DEF Spec

\* In every reachable state session_timeline and session_seq_applied agree.
THEOREM BothTablesAgree == Spec => []TablesAgree
<1>1. TimelineInv => TablesAgree
  BY DEF TimelineInv, TablesInv
<1>2. QED
  BY <1>1, InitInv, InvStep, PTL DEF Spec

\* All that the guard promises of the two tables: what the run of two callers checks.
THEOREM TablesAreSound == Spec => []TablesSound
<1>1. TypeOK /\ NoGaps /\ TablesAgree => TablesSound
  BY DEF TablesSound
<1>2. QED
  BY <1>1, TypeCorrect, TimelineHasNoGaps, BothTablesAgree, PTL

-----------------------------------------------------------------------------
(* Rows are final, and the tables implement an append-only log *)

\* The transaction writes only where no row is.
LEMMA StepKeepsRows ==
  ASSUME TimelineInv, [Next]_vars, NEW s \in Sessions, NEW n \in Seqs,
         timeline[s][n] # NoEvent
  PROVE  timeline'[s][n] = timeline[s][n]
<1>1. TablesInv /\ n \in seqApplied[s]
  BY DEF TimelineInv, TablesInv, TablesAgree
<1>2. ASSUME NEW q \in Sessions, NEW m \in Seqs, NEW e \in Events, Apply(q, m, e)
      PROVE  timeline'[s][n] = timeline[s][n]
  BY <1>1, <1>2 DEF Apply, ApplyGuard, TablesInv, TablesTypeOK
<1>3. QED
  BY <1>2, StepExecutes DEF TimelineInv, LocalInv, Open, tables

\* An event, once in the timeline, is never overwritten.
THEOREM AppliedRowsAreFinal == Spec => RowsAreFinal
<1>1. TimelineInv /\ [Next]_vars =>
        [\A s \in Sessions, n \in Seqs :
           timeline[s][n] # NoEvent => timeline'[s][n] = timeline[s][n]]_vars
  BY StepKeepsRows
<1>2. QED
  BY <1>1, InitInv, InvStep, PTL DEF Spec, RowsAreFinal

\* The transaction at seq n finds exactly the rows 0 .. n - 1.
LEMMA ApplyIsNext ==
  ASSUME TablesInv, NEW s \in Sessions, NEW n \in Seqs, ApplyGuard(s, n)
  PROVE  seqApplied[s] = 0..(n - 1) /\ Cardinality(seqApplied[s]) = n
<1>1. n \in Nat /\ seqApplied[s] \subseteq Nat
  BY BoundsAssumption DEF TablesInv, TablesTypeOK, Seqs
<1>2. \A m \in seqApplied[s] : m < n
  BY <1>1 DEF ApplyGuard, TablesInv, NoGaps
<1>3. \A m \in 0..(n - 1) : m \in seqApplied[s]
  BY <1>1 DEF ApplyGuard, TablesInv, NoGaps
<1>4. seqApplied[s] = 0..(n - 1)
  <2>1. \A m \in seqApplied[s] : m \in 0..(n - 1)
    BY <1>1, <1>2
  <2>2. QED
    BY <1>3, <2>1
<1>5. QED
  BY <1>1, <1>4, FS_Interval

\* A transaction appends its event to its own session's log.
LEMMA ApplyExtends ==
  ASSUME TablesInv, NEW s \in Sessions, NEW n \in Seqs, NEW e \in Events, Apply(s, n, e)
  PROVE  Log!Next
<1> DEFINE logs == [q \in Sessions |-> LogOf(q)]
<1>a. n \in Nat /\ n <= MaxSeq /\ MaxSeq \in Nat
  BY BoundsAssumption DEF Seqs
<1>b. \A i \in 1..(n + 1) : i - 1 \in Seqs /\ (i - 1 = n <=> i = n + 1)
  BY <1>a DEF Seqs
<1>1. seqApplied[s] = 0..(n - 1) /\ Cardinality(seqApplied[s]) = n
  BY ApplyIsNext DEF Apply
<1>2. seqApplied'[s] = 0..n
  BY <1>a, <1>1 DEF Apply, TablesInv, TablesTypeOK
<1>3. Cardinality(seqApplied'[s]) = n + 1
  BY <1>a, <1>2, FS_Interval
<1>4. LogOf(s) = [i \in 1..n |-> timeline[s][i - 1]]
  BY <1>1 DEF LogOf
<1>5. LogOf(s)' = [i \in 1..(n + 1) |-> timeline'[s][i - 1]]
  BY <1>3 DEF LogOf
<1>6. \A i \in 1..n : timeline[s][i - 1] \in Events \cup {NoEvent}
  BY <1>a, <1>b DEF TablesInv, TablesTypeOK
<1>7. LogOf(s) \in Seq(Events \cup {NoEvent}) /\ Len(LogOf(s)) = n
  BY <1>a, <1>4, <1>6, IsASeq
<1>8. LogOf(s)' = Append(LogOf(s), e)
  <2> DEFINE E == Events \cup {NoEvent}
  <2>1. /\ timeline'[s][n] = e
        /\ \A m \in Seqs \ {n} : timeline'[s][m] = timeline[s][m]
    BY DEF Apply, TablesInv, TablesTypeOK
  <2>2. \A i \in 1..(n + 1) :
           timeline'[s][i - 1] = IF i = n + 1 THEN e ELSE timeline[s][i - 1]
    BY <1>b, <2>1
  <2>3. \A i \in 1..n : timeline'[s][i - 1] = LogOf(s)[i]
    BY <1>a, <1>4, <2>2
  <2>4. timeline'[s][(n + 1) - 1] = e
    BY <1>a, <2>2
  <2>5. \A i \in 1..(n + 1) : timeline'[s][i - 1] \in E
    BY <1>a, <1>6, <2>2
  <2>6. LogOf(s)' \in Seq(E) /\ Len(LogOf(s)') = n + 1
    BY <1>a, <1>5, <2>5, IsASeq
  <2>7. /\ Append(LogOf(s), e) \in Seq(E)
        /\ Len(Append(LogOf(s), e)) = n + 1
        /\ \A i \in 1..n : Append(LogOf(s), e)[i] = LogOf(s)[i]
        /\ Append(LogOf(s), e)[n + 1] = e
    BY <1>7, AppendProperties
  <2>8. \A i \in 1..(n + 1) : LogOf(s)'[i] = Append(LogOf(s), e)[i]
    <3>1. \A i \in 1..(n + 1) : LogOf(s)'[i] = timeline'[s][i - 1]
      BY <1>5
    <3>2. \A i \in 1..(n + 1) : i \in 1..n \/ i = n + 1
      BY <1>a
    <3>3. QED
      BY <2>3, <2>4, <2>7, <3>1, <3>2
  <2>9. QED
    BY <2>6, <2>7, <2>8, SeqEqual
<1>9. \A q \in Sessions \ {s} : LogOf(q)' = LogOf(q)
  BY DEF Apply, LogOf, TablesInv, TablesTypeOK
<1>10. logs' = [logs EXCEPT ![s] = Append(@, e)]
  BY <1>8, <1>9
<1>11. QED
  BY <1>10 DEF Log!Next, Log!Extend

\* Every step appends one event to one session's log, or is a stutter.
LEMMA StepExtends ==
  ASSUME TimelineInv, [Next]_vars
  PROVE  [Log!Next]_([s \in Sessions |-> LogOf(s)])
<1>1. CASE UNCHANGED <<seqApplied, timeline>>
  BY <1>1 DEF LogOf
<1>2. ASSUME NEW s \in Sessions, NEW n \in Seqs, NEW e \in Events, Apply(s, n, e)
      PROVE  Log!Next
  BY <1>2, ApplyExtends DEF TimelineInv
<1>3. QED
  BY <1>1, <1>2, StepExecutes DEF TimelineInv, LocalInv, Open, tables

\* The two tables, their transactions, retries and late arrivals implement an
\* append-only log per session.
THEOREM ImplementsAppendOnlyLog == Spec => TimelineIsALog
<1>1. Init => Log!Init
  <2> SUFFICES ASSUME Init PROVE [s \in Sessions |-> LogOf(s)] = [s \in Sessions |-> <<>>]
    BY DEF Log!Init
  <2>1. \A s \in Sessions : Cardinality(seqApplied[s]) = 0
    BY FS_EmptySet DEF Init
  <2>2. \A s \in Sessions : LogOf(s) = <<>>
    BY <2>1 DEF LogOf
  <2>3. QED
    BY <2>2
<1>2. TimelineInv /\ [Next]_vars => [Log!Next]_([s \in Sessions |-> LogOf(s)])
  BY StepExtends
<1>3. QED
  BY <1>1, <1>2, InitInv, InvStep, PTL DEF Spec, TimelineIsALog, Log!Spec

-----------------------------------------------------------------------------
(* What the callers are told: the invariants *)

\* Only the request that holds the lock is under way.
OneAtATime ==
    \A r \in Requests : job[r].pc # "idle" \/ job[r].op # "none" => lock = r

\* The call whose rows are about to be counted is the last one logged, and if it was
\* applied its row is there.
LastIsStored ==
    \A r \in Requests : job[r].pc = "rows" =>
        LET last == job[r].log[Len(job[r].log)] IN
        /\ last.seq = NextCall(r).seq
        /\ last.answer = "applied" => last.seq \in seqApplied[NextCall(r).session]

\* A session is opened, now or later, only under an id that was handed out.
OpenedIsMinted ==
    /\ sessionsOpen \subseteq minted
    /\ \A o \in Lost : orphan[o] # NoCall /\ orphan[o].call.kind = "open" =>
        orphan[o].call.session \in minted
    /\ \A r \in Requests : \A i \in 1..Len(job[r].script) :
        job[r].script[i].kind = "open" => job[r].script[i].session \in minted

\* The demo's six calls on its scripted session, and what is told of the last five.
StoryCall(s, k) == IF k = 1 THEN OpenCall(s)
                   ELSE ApplyCall(s, CASE k = 2 -> 0 [] k = 3 -> 0 [] k = 4 -> 2
                                       [] k = 5 -> 1 [] OTHER -> 2)

StoryEntry(k) ==
    CASE k = 2 -> [seq |-> 0, answer |-> "applied", rows |-> 1]
      [] k = 3 -> [seq |-> 0, answer |-> "refused", rows |-> 1]
      [] k = 4 -> [seq |-> 2, answer |-> "refused", rows |-> 1]
      [] k = 5 -> [seq |-> 1, answer |-> "applied", rows |-> 2]
      [] OTHER -> [seq |-> 2, answer |-> "applied", rows |-> 3]

\* The sequence numbers applied before the k-th call.
Before(k) == CASE k = 1 -> {} [] k = 2 -> {} [] k = 3 -> {0} [] k = 4 -> {0}
               [] k = 5 -> {0} [] k = 6 -> {0, 1} [] OTHER -> {0, 1, 2}

\* The demo j is at its k-th call on s.
ScriptFrom(j, s, k) ==
    /\ Len(j.script) >= 7 - k
    /\ \A i \in k..6 : j.script[i - k + 1] = StoryCall(s, i)

\* The log of j tells the story up to call k.
ToldUpTo(j, k) == \A i \in 2..k : i - 1 <= Len(j.log) /\ j.log[i - 1] = StoryEntry(i)

\* The k-th call has not been made ...
AtCall(j, s, k) ==
    /\ j.pc = "call" /\ ScriptFrom(j, s, k)
    /\ Len(j.log) = (IF k = 1 THEN 0 ELSE k - 2) /\ ToldUpTo(j, k - 1)
    /\ seqApplied[s] = Before(k)
    /\ k > 1 => s \in sessionsOpen

\* ... or was answered, and its rows are still to be counted.
AtRows(j, s, k) ==
    /\ j.pc = "rows" /\ k > 1 /\ ScriptFrom(j, s, k)
    /\ Len(j.log) = k - 1 /\ ToldUpTo(j, k - 1)
    /\ j.log[k - 1].seq = StoryEntry(k).seq
    /\ j.log[k - 1].answer = StoryEntry(k).answer
    /\ seqApplied[s] = Before(k + 1) /\ s \in sessionsOpen

\* All six were made, and the log goes on.
StoryTold(j) ==
    /\ j.pc \in {"call", "rows"}
    /\ ToldUpTo(j, 6)
    /\ j.pc = "rows" => Len(j.log) > 5

\* An undisturbed demo goes along its story, and whatever may still land then is the
\* opening of a session.
StoryGoesOn ==
    \A r \in Requests : job[r].op = "demo" /\ ~job[r].tainted =>
        /\ \A o \in Lost : orphan[o] # NoCall => orphan[o].call.kind = "open"
        /\ \/ \E s \in Sessions, k \in 1..6 : AtCall(job[r], s, k) \/ AtRows(job[r], s, k)
           \/ StoryTold(job[r])

\* The inductive invariant of the answers, on top of the tables'.
ReportInv ==
    /\ OneAtATime
    /\ LastIsStored
    /\ OpenedIsMinted
    /\ AppliedStepsAreCounted
    /\ StoryGoesOn

-----------------------------------------------------------------------------
(* What the steps do to a request *)

\* Only the request that takes a step changes.
LEMMA BecomesIs ==
  ASSUME TypeOK, NEW r \in Requests, NEW j, Becomes(r, j)
  PROVE  job'[r] = j /\ \A q \in Requests \ {r} : job'[q] = job[q]
  BY DEF TypeOK, Becomes

\* A log's new entry comes last.
LEMMA AppendIs ==
  ASSUME NEW l \in Seq(LogEntry), NEW x \in LogEntry
  PROVE  /\ Len(Append(l, x)) = Len(l) + 1
         /\ Append(l, x)[Len(l) + 1] = x
         /\ \A i \in 1..Len(l) : Append(l, x)[i] = l[i]
  BY AppendProperties

\* Counting completes the last entry of a log.
LEMMA CountedIs ==
  ASSUME NEW l \in Seq(LogEntry), l # <<>>, NEW n \in Nat
  PROVE  /\ Len(Counted(l, n)) = Len(l)
         /\ \A i \in 1..(Len(l) - 1) : Counted(l, n)[i] = l[i]
         /\ Counted(l, n)[Len(l)].seq = l[Len(l)].seq
         /\ Counted(l, n)[Len(l)].answer = l[Len(l)].answer
         /\ Counted(l, n)[Len(l)].rows = n
<1>1. Len(l) \in Nat /\ Len(l) \in 1..Len(l) /\ DOMAIN l = 1..Len(l)
  OBVIOUS
<1>2. l[Len(l)] \in LogEntry
  BY <1>1, ElementOfSeq
<1>3. [l[Len(l)] EXCEPT !.rows = n] \in LogEntry
  BY <1>2, Zenon DEF LogEntry
<1>4. Counted(l, n) \in Seq(LogEntry) /\ Len(Counted(l, n)) = Len(l)
  BY <1>1, <1>3, ExceptSeq DEF Counted
<1>5. \A i \in 1..(Len(l) - 1) : Counted(l, n)[i] = l[i]
  BY <1>1 DEF Counted
<1>6. Counted(l, n)[Len(l)] = [l[Len(l)] EXCEPT !.rows = n]
  BY <1>1 DEF Counted
<1>7. QED
  BY <1>2, <1>4, <1>5, <1>6 DEF LogEntry

\* A request that starts has an empty log.
LEMMA StartIs ==
  ASSUME LocalInv, NEW r \in Requests, Start(r)
  PROVE  /\ job[r].pc = "idle" /\ lock = Free /\ lock' = r
         /\ UNCHANGED <<tables, orphan>> /\ minted \subseteq minted'
         /\ \A q \in Requests \ {r} : job'[q] = job[q]
         /\ job'[r].pc = "call" /\ job'[r].log = <<>>
         /\ job'[r].tainted = SomeOrphan
         /\ \/ /\ job'[r].op = "step"
               /\ \E s \in Sessions, n \in Seqs : job'[r].script = <<ApplyCall(s, n)>>
            \/ /\ job'[r].op = "demo" /\ "demo" \in Ops
               /\ \E s, m \in Sessions : /\ {s, m} \cap minted = {}
                                         /\ minted' = minted \cup {s, m}
                                         /\ job'[r].script = DemoScript(s, m)
<1> USE DEF LocalInv
<1>1. ASSUME NEW s \in Sessions, NEW n \in Seqs, StartStep(r, s, n)
      PROVE  /\ job'[r].pc = "call" /\ job'[r].log = <<>> /\ job'[r].op = "step"
             /\ job'[r].tainted = SomeOrphan
             /\ job'[r].script = <<ApplyCall(s, n)>>
             /\ \A q \in Requests \ {r} : job'[q] = job[q]
  <2> DEFINE c == <<ApplyCall(s, n)>>
  <2>1. Becomes(r, [IdleJob EXCEPT !.op = "step", !.pc = "call", !.script = c,
                                   !.tainted = SomeOrphan])
    BY <1>1 DEF StartStep
  <2> HIDE DEF c
  <2>2. /\ job'[r] = [IdleJob EXCEPT !.op = "step", !.pc = "call", !.script = c,
                                    !.tainted = SomeOrphan]
        /\ \A q \in Requests \ {r} : job'[q] = job[q]
    BY <2>1, BecomesIs
  <2>3. /\ job'[r].pc = "call" /\ job'[r].log = <<>> /\ job'[r].op = "step"
        /\ job'[r].tainted = SomeOrphan /\ job'[r].script = c
    BY <2>2, Zenon DEF IdleJob
  <2>4. QED
    BY <2>2, <2>3 DEF c
<1>2. ASSUME NEW s \in Sessions, NEW m \in Sessions, StartDemo(r, s, m)
      PROVE  /\ job'[r].pc = "call" /\ job'[r].log = <<>> /\ job'[r].op = "demo"
             /\ job'[r].tainted = SomeOrphan
             /\ job'[r].script = DemoScript(s, m)
             /\ \A q \in Requests \ {r} : job'[q] = job[q]
  <2> DEFINE c == DemoScript(s, m)
  <2>1. Becomes(r, [IdleJob EXCEPT !.op = "demo", !.pc = "call", !.script = c,
                                   !.tainted = SomeOrphan])
    BY <1>2 DEF StartDemo
  <2> HIDE DEF c
  <2>2. /\ job'[r] = [IdleJob EXCEPT !.op = "demo", !.pc = "call", !.script = c,
                                    !.tainted = SomeOrphan]
        /\ \A q \in Requests \ {r} : job'[q] = job[q]
    BY <2>1, BecomesIs
  <2>3. /\ job'[r].pc = "call" /\ job'[r].log = <<>> /\ job'[r].op = "demo"
        /\ job'[r].tainted = SomeOrphan /\ job'[r].script = c
    BY <2>2, Zenon DEF IdleJob
  <2>4. QED
    BY <2>2, <2>3 DEF c
<1>3. CASE \E s \in Sessions, n \in Seqs : StartStep(r, s, n)
  BY <1>1, <1>3 DEF StartStep, Acquire
<1>4. CASE \E s, m \in Sessions : StartDemo(r, s, m)
  BY <1>2, <1>4 DEF StartDemo, Acquire
<1>5. QED
  BY <1>3, <1>4 DEF Start

\* A request that ends is idle, and gives the lock back.
Ends(r) ==
    /\ job[r].pc # "idle" /\ lock' = Free /\ job'[r] = IdleJob
    /\ \A q \in Requests \ {r} : job'[q] = job[q]
    /\ UNCHANGED <<tables, minted>>

LEMMA EndIs ==
  ASSUME LocalInv, NEW r \in Requests,
         Finish(r) \/ CountFails(r) \/ \E o \in Lost : CallOpenLost(r, o)
  PROVE  Ends(r)
  BY BecomesIs DEF LocalInv, Finish, CountFails, CallOpenLost, Calling, Ends

\* The demo's opening of a session.
LEMMA CallOpenIs ==
  ASSUME LocalInv, NEW r \in Requests, CallOpen(r)
  PROVE  /\ \A q \in Requests \ {r} : job'[q] = job[q]
         /\ job[r].pc = "call" /\ job'[r].pc = "call"
         /\ job'[r].op = job[r].op /\ job'[r].tainted = job[r].tainted
         /\ job'[r].script = Tail(job[r].script) /\ job[r].script # <<>>
         /\ job'[r].log = job[r].log
         /\ job[r].script \in Seq(Calls)
         /\ NextCall(r).kind = "open" /\ Open(NextCall(r).session)
         /\ UNCHANGED <<minted, lock, orphan>>
<1>1. job[r] \in Job
  BY DEF LocalInv, TypeOK
<1>2. Becomes(r, [job[r] EXCEPT !.script = Tail(@)])
  BY DEF CallOpen
<1>3. /\ job'[r] = [job[r] EXCEPT !.script = Tail(@)]
      /\ \A q \in Requests \ {r} : job'[q] = job[q]
  BY <1>2, BecomesIs DEF LocalInv
<1>4. /\ job'[r].pc = job[r].pc /\ job'[r].op = job[r].op /\ job'[r].log = job[r].log
      /\ job'[r].tainted = job[r].tainted /\ job'[r].script = Tail(job[r].script)
  BY <1>1, <1>3 DEF Job
<1>5. /\ job[r].pc = "call" /\ job[r].script # <<>> /\ job[r].script \in Seq(Calls)
      /\ NextCall(r).kind = "open" /\ Open(NextCall(r).session)
      /\ UNCHANGED <<minted, lock, orphan>>
  BY <1>1 DEF CallOpen, Calling, Job
<1>6. QED
  BY <1>3, <1>4, <1>5

\* A transaction, answered or lost, leaves the script and adds x to the log.
Logs(r, e, x) ==
    /\ \A q \in Requests \ {r} : job'[q] = job[q]
    /\ job[r].pc = "call" /\ job'[r].pc = "rows"
    /\ job'[r].op = job[r].op
    /\ job'[r].script = job[r].script /\ job[r].script # <<>>
    /\ job'[r].log = Append(job[r].log, x) /\ job[r].log \in Seq(LogEntry)
    /\ x.seq = NextCall(r).seq
    /\ NextCall(r) \in Calls /\ NextCall(r).kind = "apply"
    /\ \/ /\ Execute(NextCall(r), e) /\ x.answer = Answer(NextCall(r))
          /\ job'[r].tainted = job[r].tainted /\ UNCHANGED orphan
       \/ /\ UNCHANGED tables /\ x.answer = "error" /\ job'[r].tainted
          /\ \E o \in Lost : orphan' = [orphan EXCEPT ![o] = [call |-> NextCall(r), event |-> e]]
    /\ UNCHANGED <<lock, minted>>

LEMMA CallApplyIs ==
  ASSUME LocalInv, NEW r \in Requests, NEW e \in Events,
         CallApply(r, e) \/ \E o \in Lost : CallApplyLost(r, e, o)
  PROVE  \E x \in LogEntry : Logs(r, e, x)
<1>1. job[r] \in Job
  BY DEF LocalInv, TypeOK
<1>2. /\ job[r].pc = "call" /\ job[r].script # <<>> /\ job[r].log \in Seq(LogEntry)
      /\ NextCall(r) \in Calls /\ NextCall(r).kind = "apply"
  BY <1>1 DEF CallApply, CallApplyLost, Calling, NextCall, Job
<1>3. CASE CallApply(r, e)
  <2> DEFINE x == [seq |-> NextCall(r).seq, answer |-> Answer(NextCall(r)), rows |-> 0]
  <2>1. x \in LogEntry /\ x.seq = NextCall(r).seq /\ x.answer = Answer(NextCall(r))
    BY <1>2 DEF Calls, Answer, LogEntry
  <2>2. Becomes(r, [job[r] EXCEPT !.pc = "rows", !.log = Append(@, x)])
    BY <1>3 DEF CallApply
  <2> HIDE DEF x
  <2>3. job'[r] = [job[r] EXCEPT !.pc = "rows", !.log = Append(@, x)]
    BY <2>2, BecomesIs DEF LocalInv
  <2>4. /\ job'[r].pc = "rows" /\ job'[r].op = job[r].op
        /\ job'[r].script = job[r].script /\ job'[r].tainted = job[r].tainted
        /\ job'[r].log = Append(job[r].log, x)
    BY <1>1, <2>3 DEF Job
  <2>5. \A q \in Requests \ {r} : job'[q] = job[q]
    BY <2>2, BecomesIs DEF LocalInv
  <2>6. Execute(NextCall(r), e) /\ UNCHANGED <<minted, lock, orphan>>
    BY <1>3 DEF CallApply
  <2>7. QED
    BY <1>2, <2>1, <2>4, <2>5, <2>6 DEF Logs
<1>4. ASSUME NEW o \in Lost, CallApplyLost(r, e, o) PROVE \E x \in LogEntry : Logs(r, e, x)
  <2> DEFINE x == [seq |-> NextCall(r).seq, answer |-> "error", rows |-> 0]
  <2>1. x \in LogEntry /\ x.seq = NextCall(r).seq /\ x.answer = "error"
    BY <1>2 DEF Calls, LogEntry
  <2>2. Becomes(r, [job[r] EXCEPT !.pc = "rows", !.log = Append(@, x), !.tainted = TRUE])
    BY <1>4 DEF CallApplyLost
  <2> HIDE DEF x
  <2>3. job'[r] = [job[r] EXCEPT !.pc = "rows", !.log = Append(@, x), !.tainted = TRUE]
    BY <2>2, BecomesIs DEF LocalInv
  <2>4. /\ job'[r].pc = "rows" /\ job'[r].op = job[r].op
        /\ job'[r].script = job[r].script /\ job'[r].tainted
        /\ job'[r].log = Append(job[r].log, x)
    BY <1>1, <2>3 DEF Job
  <2>5. \A q \in Requests \ {r} : job'[q] = job[q]
    BY <2>2, BecomesIs DEF LocalInv
  <2>6. /\ UNCHANGED <<tables, minted, lock>>
        /\ orphan' = [orphan EXCEPT ![o] = [call |-> NextCall(r), event |-> e]]
    BY <1>4 DEF CallApplyLost
  <2>7. QED
    BY <1>2, <2>1, <2>4, <2>5, <2>6 DEF Logs
<1>5. QED
  BY <1>3, <1>4

\* Counting completes the log's last entry and drops the call.
LEMMA CountRowsIs ==
  ASSUME LocalInv, NEW r \in Requests, CountRows(r)
  PROVE  /\ \A q \in Requests \ {r} : job'[q] = job[q]
         /\ job[r].pc = "rows" /\ job'[r].pc = "call"
         /\ job'[r].op = job[r].op /\ job'[r].tainted = job[r].tainted
         /\ job'[r].script = Tail(job[r].script) /\ job[r].script # <<>>
         /\ job[r].script \in Seq(Calls)
         /\ job[r].log \in Seq(LogEntry) /\ job[r].log # <<>>
         /\ job'[r].log = Counted(job[r].log, RowCount(NextCall(r).session))
         /\ UNCHANGED <<tables, minted, lock, orphan>>
<1> DEFINE n == RowCount(NextCall(r).session)
<1>1. job[r] \in Job
  BY DEF LocalInv, TypeOK
<1>2. Becomes(r, [job[r] EXCEPT !.pc = "call", !.script = Tail(@), !.log = Counted(@, n)])
  BY DEF CountRows
<1> HIDE DEF n
<1>3. job'[r] = [job[r] EXCEPT !.pc = "call", !.script = Tail(@), !.log = Counted(@, n)]
  BY <1>2, BecomesIs DEF LocalInv
<1>4. /\ job'[r].pc = "call" /\ job'[r].op = job[r].op
      /\ job'[r].tainted = job[r].tainted /\ job'[r].script = Tail(job[r].script)
      /\ job'[r].log = Counted(job[r].log, n)
  BY <1>1, <1>3 DEF Job
<1>5. \A q \in Requests \ {r} : job'[q] = job[q]
  BY <1>2, BecomesIs DEF LocalInv
<1>6. job[r].pc = "rows" /\ UNCHANGED <<tables, minted, lock, orphan>>
  BY DEF CountRows
<1>7. job[r].script # <<>> /\ job[r].log # <<>>
  BY <1>6 DEF LocalInv, CountsFollowACall
<1>8. job[r].script \in Seq(Calls) /\ job[r].log \in Seq(LogEntry)
  BY <1>1 DEF Job
<1>9. QED
  BY <1>4, <1>5, <1>6, <1>7, <1>8 DEF n

\* Every step is of one of these kinds.
LEMMA StepKinds ==
  ASSUME LocalInv, [Next]_vars
  PROVE  \/ UNCHANGED <<job, lock>>
         \/ \E r \in Requests : \/ Start(r) \/ Ends(r) \/ CallOpen(r) \/ CountRows(r)
                                \/ \E e \in Events, x \in LogEntry : Logs(r, e, x)
<1> DEFINE Goal ==
      \/ UNCHANGED <<job, lock>>
      \/ \E r \in Requests : \/ Start(r) \/ Ends(r) \/ CallOpen(r) \/ CountRows(r)
                             \/ \E e \in Events, x \in LogEntry : Logs(r, e, x)
<1>1. ASSUME NEW r \in Requests, Progress(r) PROVE Goal
  <2>1. ASSUME NEW e \in Events, CallApply(r, e) PROVE Goal
    BY <2>1, CallApplyIs
  <2>2. CASE Finish(r)
    BY <2>2, EndIs
  <2>3. QED
    BY <1>1, <2>1, <2>2 DEF Progress
<1>2. ASSUME NEW r \in Requests, Fault(r) PROVE Goal
  <2>1. ASSUME NEW e \in Events, NEW o \in Lost, CallApplyLost(r, e, o) PROVE Goal
    BY <2>1, CallApplyIs
  <2>2. CASE CountFails(r) \/ \E o \in Lost : CallOpenLost(r, o)
    BY <2>2, EndIs
  <2>3. QED
    BY <1>2, <2>1, <2>2 DEF Fault
<1>3. CASE \E r \in Requests : Start(r)
  BY <1>3
<1>4. CASE \E s \in Sessions : SessionOpen(s) \/ \E o \in Lost : SessionOpenLost(s, o)
  BY <1>4 DEF SessionOpen, SessionOpenLost
<1>5. CASE \E o \in Lost : Land(o) \/ Vanish(o)
  BY <1>5 DEF Land, Vanish
<1>6. CASE UNCHANGED vars
  BY <1>6 DEF vars
<1>7. QED
  BY <1>1, <1>2, <1>3, <1>4, <1>5, <1>6 DEF Next

\* Nothing is taken out of the tables.
LEMMA TablesGrow ==
  ASSUME TimelineInv, [Next]_vars
  PROVE  /\ sessionsOpen \subseteq sessionsOpen'
         /\ \A s \in Sessions : seqApplied[s] \subseteq seqApplied'[s]
<1>1. TablesTypeOK
  BY DEF TimelineInv, TablesInv
<1>2. ASSUME NEW s \in Sessions, NEW n \in Seqs, NEW e \in Events, Apply(s, n, e)
      PROVE  /\ sessionsOpen \subseteq sessionsOpen'
             /\ \A q \in Sessions : seqApplied[q] \subseteq seqApplied'[q]
  BY <1>1, <1>2 DEF Apply, TablesTypeOK
<1>3. QED
  BY <1>2, StepExecutes DEF TimelineInv, LocalInv, Open, tables

\* A transaction answers "applied" exactly when it stores its row.
LEMMA AnswerIs ==
  ASSUME TablesTypeOK, NEW c \in Calls, c.kind = "apply", NEW e, Execute(c, e)
  PROVE  /\ sessionsOpen' = sessionsOpen
         /\ ApplyGuard(c.session, c.seq) =>
              /\ Answer(c) = "applied"
              /\ seqApplied' = [seqApplied EXCEPT ![c.session] = @ \cup {c.seq}]
         /\ ~ApplyGuard(c.session, c.seq) =>
              Answer(c) = "refused" /\ seqApplied' = seqApplied
  BY DEF Execute, Apply, ApplyGuard, Answer, Reason, tables

\* The lock is handed from one request to the next.
LEMMA OneAtATimeKept ==
  ASSUME LocalInv, OneAtATime, [Next]_vars
  PROVE  OneAtATime'
<1>1. CASE UNCHANGED <<job, lock>>
  BY <1>1 DEF OneAtATime
<1>2. ASSUME NEW r \in Requests, Start(r) PROVE OneAtATime'
  BY <1>2, StartIs, FreeAssumption DEF OneAtATime
<1>3. ASSUME NEW r \in Requests, Ends(r) PROVE OneAtATime'
  BY <1>3 DEF Ends, OneAtATime, IdleJob
<1>4. ASSUME NEW r \in Requests, CallOpen(r) PROVE OneAtATime'
  BY <1>4, CallOpenIs DEF OneAtATime
<1>5. ASSUME NEW r \in Requests, CountRows(r) PROVE OneAtATime'
  BY <1>5, CountRowsIs DEF OneAtATime
<1>6. ASSUME NEW r \in Requests, NEW e \in Events, NEW x \in LogEntry, Logs(r, e, x)
      PROVE  OneAtATime'
  BY <1>6 DEF Logs, OneAtATime
<1>7. QED
  BY <1>1, <1>2, <1>3, <1>4, <1>5, <1>6, StepKinds

\* The row of an applied call is there while its rows are about to be counted.
LEMMA LastIsStoredKept ==
  ASSUME TimelineInv, LastIsStored, [Next]_vars
  PROVE  LastIsStored'
<1>a. LocalInv /\ TablesTypeOK
  BY DEF TimelineInv, LocalInv, TablesInv
<1>b. ASSUME NEW r \in Requests, job[r].pc = "rows" PROVE NextCall(r) \in Calls
  BY <1>a, <1>b DEF LocalInv, CountsFollowACall, TypeOK, Job, NextCall
<1>c. ASSUME NEW q \in Requests, job'[q] = job[q], job'[q].pc = "rows"
      PROVE  LET last == job'[q].log[Len(job'[q].log)] IN
             /\ last.seq = NextCall(q)'.seq
             /\ last.answer = "applied" => last.seq \in seqApplied'[NextCall(q)'.session]
  <2>1. NextCall(q)' = NextCall(q) /\ NextCall(q).session \in Sessions
    BY <1>b, <1>c DEF NextCall, Calls
  <2>2. seqApplied[NextCall(q).session] \subseteq seqApplied'[NextCall(q).session]
    BY <2>1, TablesGrow
  <2>3. QED
    BY <1>c, <2>1, <2>2 DEF LastIsStored
<1>1. CASE UNCHANGED <<job, lock>>
  BY <1>1, <1>c DEF LastIsStored
<1>2. ASSUME NEW r \in Requests, job'[r].pc # "rows",
             \A q \in Requests \ {r} : job'[q] = job[q]
      PROVE  LastIsStored'
  BY <1>2, <1>c DEF LastIsStored
<1>3. ASSUME NEW r \in Requests, Start(r) \/ Ends(r) \/ CallOpen(r) \/ CountRows(r)
      PROVE  LastIsStored'
  BY <1>3, <1>2, <1>a, StartIs, CallOpenIs, CountRowsIs DEF Ends, IdleJob
<1>4. ASSUME NEW r \in Requests, NEW e \in Events, NEW x \in LogEntry, Logs(r, e, x)
      PROVE  LastIsStored'
  <2>1. /\ job'[r].script = job[r].script /\ job'[r].log = Append(job[r].log, x)
        /\ job[r].log \in Seq(LogEntry) /\ x.seq = NextCall(r).seq
        /\ NextCall(r) \in Calls /\ NextCall(r).kind = "apply"
        /\ \A q \in Requests \ {r} : job'[q] = job[q]
    BY <1>4 DEF Logs
  <2>2. job'[r].log[Len(job'[r].log)] = x
    BY <2>1, AppendIs
  <2>3. NextCall(r)' = NextCall(r)
    BY <2>1 DEF NextCall
  <2>4. x.answer = "applied" => x.seq \in seqApplied'[NextCall(r).session]
    <3>1. CASE Execute(NextCall(r), e) /\ x.answer = Answer(NextCall(r))
      <4>1. NextCall(r).session \in Sessions
        BY <2>1 DEF Calls
      <4>2. x.answer = "applied" =>
              seqApplied' = [seqApplied EXCEPT ![NextCall(r).session] = @ \cup {NextCall(r).seq}]
        BY <3>1, <2>1, <1>a, AnswerIs
      <4>3. QED
        BY <4>1, <4>2, <2>1, <1>a DEF TablesTypeOK
    <3>2. QED
      BY <1>4, <3>1 DEF Logs
  <2>5. QED
    BY <1>c, <2>1, <2>2, <2>3, <2>4 DEF LastIsStored
<1>5. QED
  BY <1>1, <1>3, <1>4, <1>a, StepKinds

\* Whoever has applied n sees at least n + 1 rows.
LEMMA RowsAreThere ==
  ASSUME TablesInv, NEW s \in Sessions, NEW n \in seqApplied[s]
  PROVE  RowCount(s) >= n + 1
<1> DEFINE rows == {m \in Seqs : timeline[s][m] # NoEvent}
<1>1. n \in Nat /\ n \in Seqs
  BY BoundsAssumption DEF TablesInv, TablesTypeOK, Seqs
<1>2. IsFiniteSet(rows)
  <2>1. IsFiniteSet(Seqs)
    BY BoundsAssumption, FS_Interval DEF Seqs
  <2>2. QED
    BY <2>1, FS_Subset
<1>3. 0..n \subseteq rows
  <2>1. \A m \in 0..n : m \in seqApplied[s] /\ m \in Seqs
    BY <1>1 DEF TablesInv, NoGaps, TablesTypeOK
  <2>2. QED
    BY <2>1 DEF TablesInv, TablesAgree
<1>4. Cardinality(0..n) = n + 1
  <2>1. 0 \in Int /\ n \in Int /\ ~(0 > n) /\ n - 0 + 1 = n + 1
    BY <1>1
  <2>2. Cardinality(0..n) = IF 0 > n THEN 0 ELSE n - 0 + 1
    BY <2>1, FS_Interval
  <2>3. QED
    BY <2>1, <2>2
<1>5. Cardinality(0..n) <= Cardinality(rows)
  BY <1>2, <1>3, FS_Subset
<1>6. QED
  BY <1>4, <1>5 DEF RowCount

\* What was counted stays counted, and counting finds the rows.
LEMMA CountsKept ==
  ASSUME TimelineInv, LastIsStored, AppliedStepsAreCounted, [Next]_vars
  PROVE  AppliedStepsAreCounted'
<1>a. LocalInv /\ TablesInv
  BY DEF TimelineInv, LocalInv
<1>b. ASSUME NEW r \in Requests, \A q \in Requests \ {r} : job'[q] = job[q],
             \A i \in 1..Len(job'[r].log) :
               job'[r].log[i].answer = "applied" /\ (job'[r].pc = "call" \/ i < Len(job'[r].log))
                 => job'[r].log[i].rows >= job'[r].log[i].seq + 1
      PROVE  AppliedStepsAreCounted'
  BY <1>b DEF AppliedStepsAreCounted
<1>1. CASE UNCHANGED <<job, lock>>
  BY <1>1 DEF AppliedStepsAreCounted
<1>2. ASSUME NEW r \in Requests, Start(r) \/ Ends(r) PROVE AppliedStepsAreCounted'
  <2>1. job'[r].log = <<>> /\ \A q \in Requests \ {r} : job'[q] = job[q]
    BY <1>2, <1>a, StartIs DEF Ends, IdleJob
  <2>2. QED
    BY <2>1, <1>b
<1>3. ASSUME NEW r \in Requests, CallOpen(r) PROVE AppliedStepsAreCounted'
  <2>1. /\ job'[r].log = job[r].log /\ job[r].pc = "call"
        /\ \A q \in Requests \ {r} : job'[q] = job[q]
    BY <1>3, <1>a, CallOpenIs
  <2>2. QED
    BY <2>1, <1>b DEF AppliedStepsAreCounted
<1>4. ASSUME NEW r \in Requests, CountRows(r) PROVE AppliedStepsAreCounted'
  <2> DEFINE l == job[r].log
             n == RowCount(NextCall(r).session)
  <2>1. /\ l \in Seq(LogEntry) /\ l # <<>> /\ job'[r].log = Counted(l, n)
        /\ \A q \in Requests \ {r} : job'[q] = job[q]
        /\ job[r].pc = "rows" /\ job[r].script # <<>> /\ job[r].script \in Seq(Calls)
    BY <1>4, <1>a, CountRowsIs
  <2>2. n \in Nat
    BY RowCountType
  <2>3. NextCall(r).session \in Sessions
    <3>1. NextCall(r) \in Calls
      BY <2>1 DEF NextCall
    <3>2. QED
      BY <3>1 DEF Calls
  <2>4. l[Len(l)].answer = "applied" => n >= l[Len(l)].seq + 1
    BY <2>1, <2>3, <1>a, RowsAreThere DEF LastIsStored
  <2>5. \A i \in 1..(Len(l) - 1) : l[i].answer = "applied" => l[i].rows >= l[i].seq + 1
    BY <2>1 DEF AppliedStepsAreCounted
  <2> HIDE DEF n, l
  <2>6. /\ Len(Counted(l, n)) = Len(l)
        /\ \A i \in 1..(Len(l) - 1) : Counted(l, n)[i] = l[i]
        /\ Counted(l, n)[Len(l)].seq = l[Len(l)].seq
        /\ Counted(l, n)[Len(l)].answer = l[Len(l)].answer
        /\ Counted(l, n)[Len(l)].rows = n
    BY <2>1, <2>2, CountedIs
  <2>7. \A i \in 1..Len(l) : i \in 1..(Len(l) - 1) \/ i = Len(l)
    BY <2>1
  <2>8. \A i \in 1..Len(l) : Counted(l, n)[i].answer = "applied"
                               => Counted(l, n)[i].rows >= Counted(l, n)[i].seq + 1
    BY <2>4, <2>5, <2>6, <2>7
  <2>9. QED
    BY <1>b, <2>1, <2>6, <2>8
<1>5. ASSUME NEW r \in Requests, NEW e \in Events, NEW x \in LogEntry, Logs(r, e, x)
      PROVE  AppliedStepsAreCounted'
  <2> DEFINE l == job[r].log
  <2>1. /\ job'[r].log = Append(l, x) /\ l \in Seq(LogEntry)
        /\ job[r].pc = "call" /\ job'[r].pc = "rows"
        /\ \A q \in Requests \ {r} : job'[q] = job[q]
    BY <1>5 DEF Logs
  <2>2. \A i \in 1..Len(l) : l[i].answer = "applied" => l[i].rows >= l[i].seq + 1
    BY <2>1 DEF AppliedStepsAreCounted
  <2> HIDE DEF l
  <2>3. Len(Append(l, x)) = Len(l) + 1 /\ \A i \in 1..Len(l) : Append(l, x)[i] = l[i]
    BY <2>1, AppendIs
  <2>4. \A i \in 1..Len(Append(l, x)) : i < Len(Append(l, x)) => i \in 1..Len(l)
    BY <2>1, <2>3
  <2>5. QED
    BY <1>b, <2>1, <2>2, <2>3, <2>4
<1>6. QED
  BY <1>1, <1>2, <1>3, <1>4, <1>5, <1>a, StepKinds

\* The calls of the demo that open a session open one of its own.
LEMMA DemoOpens ==
  ASSUME NEW s \in Sessions, NEW m \in Sessions, "demo" \in Ops
  PROVE  /\ Len(DemoScript(s, m)) >= 6
         /\ \A k \in 1..6 : DemoScript(s, m)[k] = StoryCall(s, k)
         /\ \A i \in 1..Len(DemoScript(s, m)) : DemoScript(s, m)[i].kind = "open" =>
              DemoScript(s, m)[i].session \in {s, m}
<1> DEFINE first == <<OpenCall(s), ApplyCall(s, 0), ApplyCall(s, 0), ApplyCall(s, 2),
                      ApplyCall(s, 1), ApplyCall(s, 2)>>
           then == RepeatApplied(m)
<1>1. 0 \in Seqs /\ 1 \in Seqs /\ 2 \in Seqs
  BY BoundsAssumption, DemoAssumption DEF Seqs
<1>2. first \in Seq(Calls) /\ Len(first) = 6
  BY <1>1, CallType
<1>3. \A k \in 1..6 : first[k] = StoryCall(s, k)
  BY DEF StoryCall
<1>4. \A k \in 1..6 : first[k].session = s
  BY DEF OpenCall, ApplyCall
<1>5. then \in Seq(Calls) /\ \A i \in 1..Len(then) : then[i].session = m
  <2> DEFINE rest == [i \in 1..(Repeats + 1) |-> ApplyCall(m, i - 1)]
  <2>1. Repeats \in Nat /\ \A i \in 1..(Repeats + 1) : ApplyCall(m, i - 1) \in Calls
    BY BoundsAssumption, CallType DEF Seqs
  <2>2. rest \in Seq(Calls) /\ Len(rest) = Repeats + 1
    BY <2>1, IsASeq
  <2>3. \A i \in 1..(Repeats + 1) : rest[i].session = m
    BY DEF ApplyCall
  <2> HIDE DEF rest
  <2>4. <<OpenCall(m)>> \in Seq(Calls) /\ Len(<<OpenCall(m)>>) = 1
    BY <1>1, CallType
  <2>5. /\ <<OpenCall(m)>> \o rest \in Seq(Calls)
        /\ Len(<<OpenCall(m)>> \o rest) = 1 + Len(rest)
        /\ \A i \in 1..(1 + Len(rest)) : (<<OpenCall(m)>> \o rest)[i] =
              IF i <= 1 THEN <<OpenCall(m)>>[i] ELSE rest[i - 1]
    BY <2>2, <2>4, ConcatProperties
  <2>6. \A i \in 1..Len(<<OpenCall(m)>> \o rest) : (<<OpenCall(m)>> \o rest)[i].session = m
    <3>1. OpenCall(m).session = m /\ <<OpenCall(m)>>[1] = OpenCall(m)
      BY DEF OpenCall
    <3>2. \A i \in 1..(1 + Len(rest)) : i = 1 \/ (~(i <= 1) /\ i - 1 \in 1..(Repeats + 1))
      BY <2>1, <2>2
    <3>3. QED
      BY <2>3, <2>5, <3>1, <3>2
  <2>7. CASE Repeats = 0
    BY <2>7 DEF RepeatApplied
  <2>8. CASE Repeats # 0
    BY <2>8, <2>5, <2>6 DEF RepeatApplied, rest
  <2>9. QED
    BY <2>7, <2>8
<1>6. DemoScript(s, m) = first \o then
  BY DEF DemoScript
<1> HIDE DEF first, then
<1>7. /\ Len(first \o then) = 6 + Len(then) /\ Len(then) \in Nat
      /\ \A i \in 1..(6 + Len(then)) :
           (first \o then)[i] = IF i <= 6 THEN first[i] ELSE then[i - 6]
  <2>1. /\ Len(first \o then) = Len(first) + Len(then)
        /\ \A i \in 1..(Len(first) + Len(then)) :
             (first \o then)[i] = IF i <= Len(first) THEN first[i] ELSE then[i - Len(first)]
    BY <1>2, <1>5, ConcatProperties
  <2>2. Len(then) \in Nat
    BY <1>5
  <2>3. QED
    BY <1>2, <2>1, <2>2
<1>8. \A i \in 1..(6 + Len(then)) : i \in 1..6 \/ (~(i <= 6) /\ i - 6 \in 1..Len(then))
  BY <1>7
<1>9. \A i \in 1..6 : i \in 1..(6 + Len(then)) /\ i <= 6
  BY <1>7
<1>10. QED
  BY <1>3, <1>4, <1>5, <1>6, <1>7, <1>8, <1>9

\* No id is taken back.
LEMMA MintedGrows == ASSUME LocalInv, [Next]_vars PROVE minted \subseteq minted'
<1>1. ASSUME NEW r \in Requests, Start(r) \/ Progress(r) \/ Fault(r)
      PROVE  minted \subseteq minted'
  BY <1>1, StartIs DEF Progress, Fault, CallOpen, CallApply, CountRows, Finish, CountFails,
     CallOpenLost, CallApplyLost
<1>2. QED
  BY <1>1 DEF Next, vars, SessionOpen, SessionOpenLost, Land, Vanish

\* What a request is about to open is in its script.
LEMMA NextIsMinted ==
  ASSUME LocalInv, OpenedIsMinted, NEW r \in Requests, Calling(r)
  PROVE  /\ NextCall(r) \in Calls
         /\ NextCall(r).kind = "open" => NextCall(r).session \in minted
<1>1. job[r].script \in Seq(Calls) /\ job[r].script # <<>>
  BY DEF LocalInv, TypeOK, Job, Calling
<1>2. 1 \in 1..Len(job[r].script) /\ Head(job[r].script) = job[r].script[1]
  BY <1>1
<1>3. QED
  BY <1>1, <1>2 DEF OpenedIsMinted, NextCall

\* A session is opened, now or later, only under an id that was handed out.
LEMMA MintedKept ==
  ASSUME LocalInv, OpenedIsMinted, [Next]_vars
  PROVE  OpenedIsMinted'
<1> DEFINE Opened == sessionsOpen' \subseteq minted'
           Late == \A o \in Lost : orphan'[o] # NoCall /\ orphan'[o].call.kind = "open" =>
                     orphan'[o].call.session \in minted'
           Ready(r) == \A i \in 1..Len(job'[r].script) :
                         job'[r].script[i].kind = "open" => job'[r].script[i].session \in minted'
<1>a. minted \subseteq minted'
  BY MintedGrows
<1>b. orphan \in [Lost -> Pending \cup {NoCall}]
  BY DEF LocalInv, TypeOK
<1>c. UNCHANGED sessionsOpen => Opened
  BY <1>a DEF OpenedIsMinted
<1>d. UNCHANGED orphan => Late
  BY <1>a DEF OpenedIsMinted
<1>1. Opened /\ Late
  <2>1. ASSUME NEW s \in Sessions, SessionOpen(s) PROVE Opened /\ Late
    BY <2>1, <1>d DEF SessionOpen, Open, OpenedIsMinted
  <2>2. ASSUME NEW s \in Sessions, NEW o \in Lost, SessionOpenLost(s, o) PROVE Opened /\ Late
    <3>1. /\ orphan' = [orphan EXCEPT ![o] = [call |-> OpenCall(s), event |-> NoEvent]]
          /\ s \in minted' /\ UNCHANGED sessionsOpen
      BY <2>2 DEF SessionOpenLost, tables
    <3>2. OpenCall(s).session = s
      BY DEF OpenCall
    <3>3. QED
      BY <1>a, <1>b, <1>c, <3>1, <3>2 DEF OpenedIsMinted
  <2>3. ASSUME NEW r \in Requests, Start(r) PROVE Opened /\ Late
    BY <2>3, <1>c, <1>d, StartIs DEF tables
  <2>4. ASSUME NEW r \in Requests, Progress(r) PROVE Opened /\ Late
    <3>1. CASE CallOpen(r)
      BY <3>1, <1>a, <1>d, NextIsMinted DEF CallOpen, Open, OpenedIsMinted
    <3>2. ASSUME NEW e \in Events, CallApply(r, e) PROVE Opened /\ Late
      BY <3>2, <1>c, <1>d DEF CallApply, Execute, Apply, tables
    <3>3. CASE CountRows(r) \/ Finish(r)
      BY <3>3, <1>c, <1>d DEF CountRows, Finish, tables
    <3>4. QED
      BY <2>4, <3>1, <3>2, <3>3 DEF Progress
  <2>5. ASSUME NEW r \in Requests, Fault(r) PROVE Opened /\ Late
    <3>1. CASE CountFails(r)
      BY <3>1, <1>c, <1>d DEF CountFails, tables
    <3>2. ASSUME NEW o \in Lost, NEW e,
                 orphan' = [orphan EXCEPT ![o] = [call |-> NextCall(r), event |-> e]],
                 Calling(r), UNCHANGED sessionsOpen
          PROVE  Opened /\ Late
      BY <3>2, <1>a, <1>b, <1>c, NextIsMinted DEF OpenedIsMinted
    <3>3. QED
      BY <2>5, <3>1, <3>2 DEF Fault, CallOpenLost, CallApplyLost, tables
  <2>6. ASSUME NEW o \in Lost, Land(o) PROVE Opened /\ Late
    <3>1. Late
      BY <2>6, <1>a, <1>b DEF Land, OpenedIsMinted
    <3>2. Opened
      BY <2>6, <1>a DEF Land, Execute, Open, Apply, tables, OpenedIsMinted
    <3>3. QED
      BY <3>1, <3>2
  <2>7. ASSUME NEW o \in Lost, Vanish(o) PROVE Opened /\ Late
    BY <2>7, <1>a, <1>b, <1>c DEF Vanish, tables, OpenedIsMinted
  <2>8. CASE UNCHANGED vars
    BY <2>8, <1>c, <1>d DEF vars
  <2>9. QED
    BY <2>1, <2>2, <2>3, <2>4, <2>5, <2>6, <2>7, <2>8 DEF Next
<1>2. \A r \in Requests : Ready(r)
  <2>a. ASSUME NEW q \in Requests, job'[q].script = job[q].script PROVE Ready(q)
    BY <2>a, <1>a DEF OpenedIsMinted
  <2>b. ASSUME NEW q \in Requests, job[q].script \in Seq(Calls), job[q].script # <<>>,
               job'[q].script = Tail(job[q].script)
        PROVE  Ready(q)
    <3>1. /\ Len(Tail(job[q].script)) = Len(job[q].script) - 1
          /\ \A i \in 1..(Len(job[q].script) - 1) : Tail(job[q].script)[i] = job[q].script[i + 1]
      BY <2>b
    <3>2. \A i \in 1..(Len(job[q].script) - 1) : i + 1 \in 1..Len(job[q].script)
      BY <2>b
    <3>3. QED
      BY <2>b, <3>1, <3>2, <1>a DEF OpenedIsMinted
  <2>1. CASE UNCHANGED <<job, lock>>
    BY <2>1, <2>a
  <2>2. ASSUME NEW r \in Requests, \A q \in Requests \ {r} : job'[q] = job[q], Ready(r)
        PROVE  \A q \in Requests : Ready(q)
    BY <2>2, <2>a
  <2>3. ASSUME NEW r \in Requests, Start(r) PROVE \A q \in Requests : Ready(q)
    <3>1. ASSUME NEW s \in Sessions, NEW n \in Seqs, job'[r].script = <<ApplyCall(s, n)>>
          PROVE  Ready(r)
      BY <3>1 DEF ApplyCall
    <3>2. ASSUME NEW s \in Sessions, NEW m \in Sessions, "demo" \in Ops,
                 minted' = minted \cup {s, m}, job'[r].script = DemoScript(s, m)
          PROVE  Ready(r)
      BY <3>2, DemoOpens
    <3>3. Ready(r)
      BY <2>3, <3>1, <3>2, StartIs
    <3>4. QED
      BY <2>2, <2>3, <3>3, StartIs
  <2>4. ASSUME NEW r \in Requests, Ends(r) PROVE \A q \in Requests : Ready(q)
    <3>1. Ready(r)
      BY <2>4 DEF Ends, IdleJob
    <3>2. QED
      BY <2>2, <2>4, <3>1 DEF Ends
  <2>5. ASSUME NEW r \in Requests, CallOpen(r) \/ CountRows(r)
        PROVE  \A q \in Requests : Ready(q)
    <3>1. /\ job[r].script \in Seq(Calls) /\ job[r].script # <<>>
          /\ job'[r].script = Tail(job[r].script)
          /\ \A q \in Requests \ {r} : job'[q] = job[q]
      BY <2>5, CallOpenIs, CountRowsIs
    <3>2. QED
      BY <2>2, <2>b, <3>1
  <2>6. ASSUME NEW r \in Requests, NEW e \in Events, NEW x \in LogEntry, Logs(r, e, x)
        PROVE  \A q \in Requests : Ready(q)
    BY <2>2, <2>6, <2>a DEF Logs
  <2>7. QED
    BY <2>1, <2>3, <2>4, <2>5, <2>6, StepKinds
<1>3. QED
  BY <1>1, <1>2 DEF OpenedIsMinted

-----------------------------------------------------------------------------
(* The demo *)

\* Each transaction of the demo finds what the story says, and leaves it so.
LEMMA StoryStep ==
  ASSUME TablesTypeOK, "demo" \in Ops, NEW s \in Sessions, NEW k \in 2..6, NEW e,
         s \in sessionsOpen, seqApplied[s] = Before(k), Execute(StoryCall(s, k), e)
  PROVE  /\ Answer(StoryCall(s, k)) = StoryEntry(k).answer
         /\ StoryCall(s, k).seq = StoryEntry(k).seq
         /\ seqApplied'[s] = Before(k + 1) /\ sessionsOpen' = sessionsOpen
<1> DEFINE n == CASE k = 2 -> 0 [] k = 3 -> 0 [] k = 4 -> 2 [] k = 5 -> 1 [] OTHER -> 2
           c == StoryCall(s, k)
<1>1. n \in Seqs
  BY BoundsAssumption, DemoAssumption DEF Seqs
<1>2. c = ApplyCall(s, n)
  BY DEF StoryCall
<1> HIDE DEF c
<1>3. c \in Calls /\ c.kind = "apply" /\ c.session = s /\ c.seq = n
  <2> HIDE DEF n
  <2>1. QED
    BY <1>1, <1>2, CallType DEF ApplyCall
<1>4. /\ sessionsOpen' = sessionsOpen
      /\ ApplyGuard(s, n) => Answer(c) = "applied" /\ seqApplied'[s] = seqApplied[s] \cup {n}
      /\ ~ApplyGuard(s, n) => Answer(c) = "refused" /\ seqApplied'[s] = seqApplied[s]
  <2> HIDE DEF n
  <2>1. Execute(c, e)
    BY DEF c
  <2>2. /\ sessionsOpen' = sessionsOpen
        /\ ApplyGuard(c.session, c.seq) =>
              /\ Answer(c) = "applied"
              /\ seqApplied' = [seqApplied EXCEPT ![c.session] = @ \cup {c.seq}]
        /\ ~ApplyGuard(c.session, c.seq) =>
              Answer(c) = "refused" /\ seqApplied' = seqApplied
    BY <1>3, <2>1, AnswerIs
  <2>3. QED
    BY <1>3, <2>2 DEF TablesTypeOK
<1>5. ApplyGuard(s, n) <=> n \notin Before(k) /\ (n > 0 => n - 1 \in Before(k))
  BY DEF ApplyGuard
<1>6. CASE k = 2
  <2>1. n = 0 /\ Before(k) = {} /\ Before(k + 1) = {0}
        /\ StoryEntry(k) = [seq |-> 0, answer |-> "applied", rows |-> 1]
    BY <1>6 DEF Before, StoryEntry
  <2>2. QED
    BY <1>3, <1>4, <1>5, <2>1 DEF c
<1>7. CASE k = 3
  <2>1. n = 0 /\ Before(k) = {0} /\ Before(k + 1) = {0}
        /\ StoryEntry(k) = [seq |-> 0, answer |-> "refused", rows |-> 1]
    BY <1>7 DEF Before, StoryEntry
  <2>2. QED
    BY <1>3, <1>4, <1>5, <2>1 DEF c
<1>8. CASE k = 4
  <2>1. n = 2 /\ Before(k) = {0} /\ Before(k + 1) = {0}
        /\ StoryEntry(k) = [seq |-> 2, answer |-> "refused", rows |-> 1]
    BY <1>8 DEF Before, StoryEntry
  <2>2. QED
    BY <1>3, <1>4, <1>5, <2>1 DEF c
<1>9. CASE k = 5
  <2>1. n = 1 /\ Before(k) = {0} /\ Before(k + 1) = {0, 1}
        /\ StoryEntry(k) = [seq |-> 1, answer |-> "applied", rows |-> 2]
    BY <1>9 DEF Before, StoryEntry
  <2>2. QED
    BY <1>3, <1>4, <1>5, <2>1 DEF c
<1>10. CASE k = 6
  <2>1. n = 2 /\ Before(k) = {0, 1} /\ Before(k + 1) = {0, 1, 2}
        /\ StoryEntry(k) = [seq |-> 2, answer |-> "applied", rows |-> 3]
    BY <1>10 DEF Before, StoryEntry
  <2>2. QED
    BY <1>3, <1>4, <1>5, <2>1 DEF c
<1>11. QED
  BY <1>6, <1>7, <1>8, <1>9, <1>10

\* The count after the k-th call is the one the story tells.
LEMMA StoryRows ==
  ASSUME TablesInv, NEW s \in Sessions, NEW k \in 2..6, seqApplied[s] = Before(k + 1)
  PROVE  RowCount(s) = StoryEntry(k).rows
<1>1. {n \in Seqs : timeline[s][n] # NoEvent} = seqApplied[s]
  BY DEF TablesInv, TablesTypeOK, TablesAgree
<1>2. RowCount(s) = Cardinality(Before(k + 1))
  BY <1>1 DEF RowCount
<1>3. Before(k + 1) = 0..(StoryEntry(k).rows - 1) /\ StoryEntry(k).rows \in 1..3
  <2>1. CASE k \in 2..4
    <3>1. Before(k + 1) = {0} /\ StoryEntry(k).rows = 1
      BY <2>1 DEF Before, StoryEntry
    <3>2. QED
      BY <3>1
  <2>2. CASE k = 5
    <3>1. Before(k + 1) = {0, 1} /\ StoryEntry(k).rows = 2
      BY <2>2 DEF Before, StoryEntry
    <3>2. QED
      BY <3>1
  <2>3. CASE k = 6
    <3>1. Before(k + 1) = {0, 1, 2} /\ StoryEntry(k).rows = 3
      BY <2>3 DEF Before, StoryEntry
    <3>2. QED
      BY <3>1
  <2>4. QED
    BY <2>1, <2>2, <2>3
<1> DEFINE w == StoryEntry(k).rows
<1> HIDE DEF w
<1>4. Before(k + 1) = 0..(w - 1) /\ w \in 1..3
  BY <1>3 DEF w
<1>5. 0 \in Int /\ w - 1 \in Int /\ ~(0 > w - 1) /\ (w - 1) - 0 + 1 = w
  BY <1>4
<1>6. Cardinality(0..(w - 1)) = w
  <2>1. Cardinality(0..(w - 1)) = IF 0 > w - 1 THEN 0 ELSE (w - 1) - 0 + 1
    BY <1>5, FS_Interval
  <2>2. QED
    BY <1>5, <2>1
<1>7. QED
  BY <1>2, <1>4, <1>6 DEF w

\* A demo starts with a session nobody has touched.
LEMMA StoryStarts ==
  ASSUME TimelineInv, OpenedIsMinted, NEW r \in Requests, Start(r), job'[r].op = "demo"
  PROVE  \E s \in Sessions : AtCall(job[r], s, 1)'
<1>a. LocalInv /\ TablesInv
  BY DEF TimelineInv, LocalInv
<1>1. PICK s \in Sessions, m \in Sessions :
        s \notin minted /\ job'[r].script = DemoScript(s, m) /\ "demo" \in Ops
  BY <1>a, StartIs
<1>2. job'[r].pc = "call" /\ job'[r].log = <<>> /\ UNCHANGED tables
  BY <1>a, StartIs
<1>3. s \notin sessionsOpen
  BY <1>1 DEF OpenedIsMinted
<1>4. seqApplied'[s] = Before(1)
  BY <1>a, <1>2, <1>3 DEF TablesInv, TablesAgree, tables, Before
<1>5. ScriptFrom(job'[r], s, 1)
  BY <1>1, DemoOpens DEF ScriptFrom
<1>6. ToldUpTo(job'[r], 0) /\ Len(job'[r].log) = 0
  BY <1>2 DEF ToldUpTo
<1>7. AtCall(job[r], s, 1)'
  BY <1>2, <1>4, <1>5, <1>6 DEF AtCall
<1>8. QED
  BY <1>7

\* The opening takes the demo to its first transaction.
LEMMA StoryOpens ==
  ASSUME LocalInv, NEW r \in Requests, CallOpen(r), NEW s \in Sessions, NEW k \in 1..6,
         AtCall(job[r], s, k)
  PROVE  AtCall(job[r], s, 2)'
<1>1. /\ job'[r].pc = "call" /\ job'[r].log = job[r].log
      /\ job[r].script \in Seq(Calls) /\ job[r].script # <<>>
      /\ job'[r].script = Tail(job[r].script)
      /\ NextCall(r).kind = "open" /\ Open(NextCall(r).session)
  BY CallOpenIs
<1>2. NextCall(r) = StoryCall(s, k)
  <2>1. job[r].script[1] = StoryCall(s, k)
    <3>1. k \in k..6 /\ k - k + 1 = 1
      OBVIOUS
    <3>2. QED
      BY <3>1 DEF AtCall, ScriptFrom
  <2>2. QED
    BY <1>1, <2>1 DEF NextCall
<1>3. k = 1 /\ NextCall(r).session = s
  BY <1>1, <1>2 DEF StoryCall, OpenCall, ApplyCall
<1>4. ScriptFrom(job'[r], s, 2)
  <2>1. /\ Len(job[r].script) >= 6 /\ Len(job[r].script) \in Nat
        /\ \A i \in 1..6 : job[r].script[i] = StoryCall(s, i)
    <3>1. /\ Len(job[r].script) >= 7 - 1
          /\ \A i \in 1..6 : job[r].script[i - 1 + 1] = StoryCall(s, i)
      BY <1>3 DEF AtCall, ScriptFrom
    <3>2. \A i \in 1..6 : i - 1 + 1 = i
      OBVIOUS
    <3>3. QED
      BY <1>1, <3>1, <3>2
  <2>2. /\ Len(Tail(job[r].script)) = Len(job[r].script) - 1
        /\ \A i \in 1..(Len(job[r].script) - 1) : Tail(job[r].script)[i] = job[r].script[i + 1]
    BY <1>1
  <2>3. \A i \in 2..6 : Tail(job[r].script)[i - 2 + 1] = job[r].script[i]
    <3>1. \A i \in 2..6 : i - 2 + 1 \in 1..(Len(job[r].script) - 1) /\ (i - 2 + 1) + 1 = i
      BY <2>1
    <3>2. QED
      BY <2>2, <3>1
  <2>4. QED
    BY <1>1, <2>1, <2>2, <2>3 DEF ScriptFrom
<1>5. Len(job'[r].log) = 0 /\ ToldUpTo(job'[r], 1)
  BY <1>1, <1>3 DEF AtCall, ToldUpTo
<1>6. seqApplied'[s] = Before(2) /\ s \in sessionsOpen'
  BY <1>1, <1>3 DEF AtCall, Before, Open
<1>7. QED
  BY <1>1, <1>4, <1>5, <1>6 DEF AtCall

\* A transaction of the demo is answered as the story says.
LEMMA StoryApplies ==
  ASSUME TimelineInv, NEW r \in Requests, NEW e \in Events, NEW x \in LogEntry,
         Logs(r, e, x), ~job'[r].tainted, job[r].op = "demo",
         NEW s \in Sessions, NEW k \in 1..6, AtCall(job[r], s, k)
  PROVE  AtRows(job[r], s, k)'
<1>a. LocalInv /\ TablesTypeOK /\ "demo" \in Ops
  BY DEF TimelineInv, LocalInv, TablesInv, TypeOK, Job
<1> DEFINE l == job[r].log
<1>1. /\ job'[r].pc = "rows" /\ job'[r].script = job[r].script /\ job[r].script # <<>>
      /\ job'[r].log = Append(l, x) /\ l \in Seq(LogEntry)
      /\ x.seq = NextCall(r).seq /\ NextCall(r).kind = "apply"
      /\ Execute(NextCall(r), e) /\ x.answer = Answer(NextCall(r))
  BY DEF Logs
<1>2. NextCall(r) = StoryCall(s, k)
  <2>1. job[r].script \in Seq(Calls)
    BY <1>a DEF LocalInv, TypeOK, Job
  <2>2. k \in k..6 /\ k - k + 1 = 1
    OBVIOUS
  <2>3. job[r].script[1] = StoryCall(s, k)
    BY <2>2 DEF AtCall, ScriptFrom
  <2>4. QED
    BY <1>1, <2>1, <2>3 DEF NextCall
<1>3. k > 1
  BY <1>1, <1>2 DEF StoryCall, OpenCall
<1>4. /\ x.answer = StoryEntry(k).answer /\ x.seq = StoryEntry(k).seq
      /\ seqApplied'[s] = Before(k + 1) /\ s \in sessionsOpen'
  <2>1. k \in 2..6 /\ s \in sessionsOpen /\ seqApplied[s] = Before(k)
    BY <1>3 DEF AtCall
  <2>2. QED
    BY <1>a, <1>1, <1>2, <2>1, StoryStep
<1>5. Len(l) = k - 2 /\ ToldUpTo(job[r], k - 1)
  BY <1>3 DEF AtCall
<1>6. /\ Len(Append(l, x)) = Len(l) + 1 /\ Append(l, x)[Len(l) + 1] = x
      /\ \A i \in 1..Len(l) : Append(l, x)[i] = l[i]
  BY <1>1, AppendIs
<1>7. Len(job'[r].log) = k - 1 /\ job'[r].log[k - 1] = x
  <2>1. Len(l) + 1 = k - 1
    BY <1>5
  <2>2. QED
    BY <1>1, <1>6, <2>1
<1>8. ToldUpTo(job'[r], k - 1)
  <2>1. \A i \in 2..(k - 1) : i - 1 \in 1..Len(l) /\ i - 1 <= k - 1
    BY <1>5
  <2>2. QED
    BY <1>1, <1>5, <1>6, <1>7, <2>1 DEF ToldUpTo
<1>9. ScriptFrom(job'[r], s, k)
  BY <1>1 DEF AtCall, ScriptFrom
<1>10. QED
  BY <1>1, <1>3, <1>4, <1>7, <1>8, <1>9 DEF AtRows

\* Counting takes the demo to its next transaction, or past the sixth.
LEMMA StoryCounts ==
  ASSUME TimelineInv, NEW r \in Requests, CountRows(r),
         NEW s \in Sessions, NEW k \in 1..6, AtRows(job[r], s, k)
  PROVE  (k < 6 /\ AtCall(job[r], s, k + 1)') \/ StoryTold(job'[r])
<1>a. LocalInv /\ TablesInv
  BY DEF TimelineInv, LocalInv
<1> DEFINE l == job[r].log
           n == RowCount(NextCall(r).session)
<1>1. /\ job'[r].pc = "call" /\ job[r].script # <<>> /\ job[r].script \in Seq(Calls)
      /\ job'[r].script = Tail(job[r].script)
      /\ job'[r].log = Counted(l, n) /\ l \in Seq(LogEntry) /\ l # <<>>
      /\ UNCHANGED tables
  BY <1>a, CountRowsIs
<1>2. /\ k \in 2..6 /\ Len(l) = k - 1 /\ ToldUpTo(job[r], k - 1)
      /\ l[k - 1].seq = StoryEntry(k).seq /\ l[k - 1].answer = StoryEntry(k).answer
      /\ seqApplied[s] = Before(k + 1) /\ s \in sessionsOpen
      /\ ScriptFrom(job[r], s, k)
  BY DEF AtRows
<1>3. n = StoryEntry(k).rows
  <2>1. k \in k..6 /\ k - k + 1 = 1
    OBVIOUS
  <2>2. job[r].script[1] = StoryCall(s, k)
    BY <1>2, <2>1 DEF ScriptFrom
  <2>3. NextCall(r).session = s
    BY <1>1, <2>2 DEF NextCall, StoryCall, OpenCall, ApplyCall
  <2>4. QED
    BY <1>a, <1>2, <2>3, StoryRows
<1>4. n \in Nat
  BY RowCountType
<1> HIDE DEF n
<1>5. /\ Len(Counted(l, n)) = Len(l)
      /\ \A i \in 1..(Len(l) - 1) : Counted(l, n)[i] = l[i]
      /\ Counted(l, n)[Len(l)] = StoryEntry(k)
  <2>1. /\ Len(Counted(l, n)) = Len(l)
        /\ \A i \in 1..(Len(l) - 1) : Counted(l, n)[i] = l[i]
        /\ Counted(l, n)[Len(l)].seq = l[Len(l)].seq
        /\ Counted(l, n)[Len(l)].answer = l[Len(l)].answer
        /\ Counted(l, n)[Len(l)].rows = n
    BY <1>1, <1>4, CountedIs
  <2>2. Counted(l, n)[Len(l)] \in LogEntry
    <3>1. job'[r].log \in Seq(LogEntry)
      <4>1. LocalInv'
        BY <1>a, ProgressLocal DEF Progress
      <4>2. QED
        BY <4>1 DEF LocalInv, TypeOK, Job
    <3>2. Len(l) \in 1..Len(Counted(l, n))
      BY <1>1, <2>1
    <3>3. QED
      BY <1>1, <3>1, <3>2, ElementOfSeq
  <2>3. StoryEntry(k) \in [seq : Nat, answer : {"applied", "refused"}, rows : Nat]
    <3>1. ASSUME NEW a \in Nat, NEW b \in {"applied", "refused"}, NEW c \in Nat
          PROVE  [seq |-> a, answer |-> b, rows |-> c] \in
                   [seq : Nat, answer : {"applied", "refused"}, rows : Nat]
      OBVIOUS
    <3>2. \/ StoryEntry(k) = [seq |-> 0, answer |-> "applied", rows |-> 1]
          \/ StoryEntry(k) = [seq |-> 0, answer |-> "refused", rows |-> 1]
          \/ StoryEntry(k) = [seq |-> 2, answer |-> "refused", rows |-> 1]
          \/ StoryEntry(k) = [seq |-> 1, answer |-> "applied", rows |-> 2]
          \/ StoryEntry(k) = [seq |-> 2, answer |-> "applied", rows |-> 3]
      BY DEF StoryEntry
    <3>3. QED
      BY <3>1, <3>2
  <2>4. QED
    BY <1>2, <1>3, <2>1, <2>2, <2>3 DEF LogEntry
<1>6. ToldUpTo(job'[r], k)
  <2>1. \A i \in 2..k : i - 1 <= Len(job'[r].log)
    BY <1>1, <1>2, <1>5
  <2>2. job'[r].log[k - 1] = StoryEntry(k)
    BY <1>1, <1>2, <1>5
  <2>3. ASSUME NEW i \in 2..(k - 1) PROVE job'[r].log[i - 1] = StoryEntry(i)
    <3>1. i - 1 \in 1..(Len(l) - 1)
      BY <1>2
    <3>2. QED
      BY <1>1, <1>2, <1>5, <3>1 DEF ToldUpTo
  <2>4. \A i \in 2..k : i = k \/ i \in 2..(k - 1)
    OBVIOUS
  <2>5. QED
    BY <2>1, <2>2, <2>3, <2>4 DEF ToldUpTo
<1>7. CASE k = 6
  BY <1>1, <1>6, <1>7 DEF StoryTold
<1>8. CASE k < 6
  <2>1. ScriptFrom(job'[r], s, k + 1)
    <3>1. /\ Len(Tail(job[r].script)) = Len(job[r].script) - 1 /\ Len(job[r].script) \in Nat
          /\ \A i \in 1..(Len(job[r].script) - 1) : Tail(job[r].script)[i] = job[r].script[i + 1]
      BY <1>1
    <3>2. ASSUME NEW i \in (k + 1)..6
          PROVE  Tail(job[r].script)[i - (k + 1) + 1] = StoryCall(s, i)
      <4>1. /\ i - (k + 1) + 1 \in 1..(Len(job[r].script) - 1)
            /\ (i - (k + 1) + 1) + 1 = i - k + 1 /\ i \in k..6
        BY <1>2, <3>1 DEF ScriptFrom
      <4>2. QED
        BY <1>2, <3>1, <4>1 DEF ScriptFrom
    <3>3. Len(Tail(job[r].script)) >= 7 - (k + 1)
      BY <1>2, <3>1 DEF ScriptFrom
    <3>4. QED
      BY <1>1, <3>2, <3>3 DEF ScriptFrom
  <2>2. seqApplied'[s] = Before(k + 1) /\ s \in sessionsOpen'
    BY <1>1, <1>2 DEF tables
  <2>3. Len(job'[r].log) = (k + 1) - 2 /\ k + 1 # 1 /\ (k + 1) - 1 = k
    BY <1>1, <1>2, <1>5
  <2>4. QED
    BY <1>1, <1>6, <1>8, <2>1, <2>2, <2>3 DEF AtCall
<1>9. QED
  BY <1>2, <1>7, <1>8

\* Once told, the story stays told.
LEMMA ToldStaysTold ==
  ASSUME LocalInv, NEW r \in Requests, StoryTold(job[r]),
         CallOpen(r) \/ CountRows(r) \/ \E e \in Events, x \in LogEntry : Logs(r, e, x)
  PROVE  StoryTold(job'[r])
<1> DEFINE l == job[r].log
<1>1. l \in Seq(LogEntry) /\ Len(l) >= 5
  <2>1. 6 \in 2..6 /\ 6 - 1 <= Len(l)
    BY DEF StoryTold, ToldUpTo
  <2>2. QED
    BY <2>1 DEF LocalInv, TypeOK, Job
<1>2. \A i \in 2..6 : i - 1 \in 1..5 /\ l[i - 1] = StoryEntry(i)
  BY DEF StoryTold, ToldUpTo
<1>3. CASE CallOpen(r)
  <2>1. job'[r].log = l /\ job'[r].pc = "call"
    BY <1>3, CallOpenIs
  <2>2. QED
    BY <2>1 DEF StoryTold, ToldUpTo
<1>4. CASE CountRows(r)
  <2> DEFINE n == RowCount(NextCall(r).session)
  <2>1. job'[r].log = Counted(l, n) /\ job'[r].pc = "call" /\ job[r].pc = "rows" /\ l # <<>>
    BY <1>4, CountRowsIs
  <2>2. n \in Nat
    BY RowCountType
  <2> HIDE DEF n
  <2>3. Len(Counted(l, n)) = Len(l) /\ \A i \in 1..(Len(l) - 1) : Counted(l, n)[i] = l[i]
    BY <1>1, <2>1, <2>2, CountedIs
  <2>4. Len(l) > 5
    BY <2>1 DEF StoryTold
  <2>5. \A i \in 2..6 : i - 1 \in 1..(Len(l) - 1) /\ i - 1 <= Len(l)
    BY <1>1, <2>4
  <2>6. QED
    BY <1>2, <2>1, <2>3, <2>5 DEF StoryTold, ToldUpTo
<1>5. ASSUME NEW e \in Events, NEW x \in LogEntry, Logs(r, e, x) PROVE StoryTold(job'[r])
  <2>1. job'[r].log = Append(l, x) /\ job'[r].pc = "rows"
    BY <1>5 DEF Logs
  <2>2. Len(Append(l, x)) = Len(l) + 1 /\ \A i \in 1..Len(l) : Append(l, x)[i] = l[i]
    BY <1>1, AppendIs
  <2>3. /\ \A i \in 2..6 : i - 1 \in 1..Len(l) /\ i - 1 <= Len(l) + 1
        /\ Len(l) + 1 > 5
    BY <1>1
  <2>4. QED
    BY <1>2, <2>1, <2>2, <2>3 DEF StoryTold, ToldUpTo
<1>6. QED
  BY <1>3, <1>4, <1>5

\* While nothing but an opening may land, a step that leaves the requests alone leaves
\* the rows alone too.
LEMMA OpeningsSpareRows ==
  ASSUME LocalInv, [Next]_vars, UNCHANGED <<job, lock>>, NEW q \in Requests, lock = q,
         \A o \in Lost : orphan[o] # NoCall => orphan[o].call.kind = "open"
  PROVE  /\ seqApplied' = seqApplied /\ sessionsOpen \subseteq sessionsOpen'
         /\ \A o \in Lost : orphan'[o] # NoCall => orphan'[o].call.kind = "open"
<1> DEFINE Goal == /\ seqApplied' = seqApplied /\ sessionsOpen \subseteq sessionsOpen'
                   /\ \A o \in Lost : orphan'[o] # NoCall => orphan'[o].call.kind = "open"
<1>a. orphan \in [Lost -> Pending \cup {NoCall}] /\ job \in [Requests -> Job]
  BY DEF LocalInv, TypeOK
<1>1. ASSUME NEW s \in Sessions, SessionOpen(s) PROVE Goal
  BY <1>1 DEF SessionOpen, Open
<1>2. ASSUME NEW s \in Sessions, NEW o \in Lost, SessionOpenLost(s, o) PROVE Goal
  <2>1. orphan' = [orphan EXCEPT ![o] = [call |-> OpenCall(s), event |-> NoEvent]]
    BY <1>2 DEF SessionOpenLost
  <2>2. OpenCall(s).kind = "open"
    BY DEF OpenCall
  <2>3. QED
    BY <1>a, <1>2, <2>1, <2>2 DEF SessionOpenLost, tables
<1>3. ASSUME NEW r \in Requests, Start(r) \/ Progress(r) \/ Fault(r) PROVE FALSE
  <2>1. CASE Start(r)
    BY <2>1, StartIs
  <2>2. CASE CallOpen(r)
    <3>1. job[r].script \in Seq(Calls) /\ job[r].script # <<>>
          /\ job'[r].script = Tail(job[r].script)
      BY <2>2, CallOpenIs
    <3>2. Len(Tail(job[r].script)) = Len(job[r].script) - 1 /\ Len(job[r].script) \in Nat
      BY <3>1
    <3>3. job'[r].script = job[r].script
      OBVIOUS
    <3>4. Len(job[r].script) = Len(job[r].script) - 1
      BY <3>1, <3>2, <3>3, Zenon
    <3>5. QED
      BY <3>2, <3>4
  <2>3. CASE CountRows(r)
    BY <2>3, CountRowsIs
  <2>4. CASE Finish(r) \/ CountFails(r) \/ \E o \in Lost : CallOpenLost(r, o)
    BY <2>4, EndIs DEF Ends, IdleJob
  <2>5. ASSUME NEW e \in Events, CallApply(r, e) \/ \E o \in Lost : CallApplyLost(r, e, o)
        PROVE  FALSE
    BY <2>5, CallApplyIs DEF Logs
  <2>6. QED
    BY <1>3, <2>1, <2>2, <2>3, <2>4, <2>5 DEF Progress, Fault
<1>4. ASSUME NEW o \in Lost, Land(o) PROVE Goal
  <2>1. Open(orphan[o].call.session)
    BY <1>4 DEF Land, Execute
  <2>2. QED
    BY <1>a, <1>4, <2>1 DEF Land, Open
<1>5. ASSUME NEW o \in Lost, Vanish(o) PROVE Goal
  BY <1>a, <1>5 DEF Vanish, tables
<1>6. CASE UNCHANGED vars
  BY <1>6 DEF vars
<1>7. QED
  BY <1>1, <1>2, <1>3, <1>4, <1>5, <1>6 DEF Next

\* An undisturbed demo goes along its story.
LEMMA StoryKept ==
  ASSUME TimelineInv, OneAtATime, OpenedIsMinted, StoryGoesOn, [Next]_vars
  PROVE  StoryGoesOn'
<1>a. LocalInv
  BY DEF TimelineInv, LocalInv
<1> SUFFICES ASSUME NEW q \in Requests, job'[q].op = "demo", ~job'[q].tainted
             PROVE  /\ \A o \in Lost : orphan'[o] # NoCall => orphan'[o].call.kind = "open"
                    /\ \/ \E s \in Sessions, k \in 1..6 : \/ AtCall(job[q], s, k)'
                                                          \/ AtRows(job[q], s, k)'
                       \/ StoryTold(job'[q])
  BY DEF StoryGoesOn
<1> DEFINE Calm == \A o \in Lost : orphan'[o] # NoCall => orphan'[o].call.kind = "open"
           Goes == \/ \E s \in Sessions, k \in 1..6 : \/ AtCall(job[q], s, k)'
                                                      \/ AtRows(job[q], s, k)'
                   \/ StoryTold(job'[q])
<1>b. ASSUME job[q].op = "demo", ~job[q].tainted
      PROVE  /\ lock = q
             /\ \A o \in Lost : orphan[o] # NoCall => orphan[o].call.kind = "open"
             /\ \/ \E s \in Sessions, k \in 1..6 : AtCall(job[q], s, k) \/ AtRows(job[q], s, k)
                \/ StoryTold(job[q])
  BY <1>b DEF OneAtATime, StoryGoesOn
<1>1. CASE UNCHANGED <<job, lock>>
  <2>1. job'[q] = job[q] /\ job[q].op = "demo" /\ ~job[q].tainted
    BY <1>1
  <2>2. seqApplied' = seqApplied /\ sessionsOpen \subseteq sessionsOpen' /\ Calm
    BY <1>1, <1>a, <1>b, <2>1, OpeningsSpareRows
  <2>3. ASSUME NEW s \in Sessions, NEW k \in 1..6, AtCall(job[q], s, k)
        PROVE  AtCall(job[q], s, k)'
    BY <2>1, <2>2, <2>3 DEF AtCall
  <2>4. ASSUME NEW s \in Sessions, NEW k \in 1..6, AtRows(job[q], s, k)
        PROVE  AtRows(job[q], s, k)'
    BY <2>1, <2>2, <2>4 DEF AtRows
  <2>5. QED
    BY <1>b, <2>1, <2>2, <2>3, <2>4
<1>2. ASSUME NEW r \in Requests, Start(r) PROVE Calm /\ Goes
  <2>1. CASE r = q
    <3>1. \A o \in Lost : orphan[o] = NoCall
      BY <1>2, <1>a, <2>1, StartIs DEF SomeOrphan
    <3>2. Calm
      BY <1>2, <1>a, <3>1, StartIs
    <3>3. \E s \in Sessions : AtCall(job[q], s, 1)'
      BY <1>2, <2>1, StoryStarts
    <3>4. QED
      BY <3>2, <3>3
  <2>2. CASE r # q
    <3>1. job'[q] = job[q] /\ lock = Free
      BY <1>2, <1>a, <2>2, StartIs
    <3>2. QED
      BY <1>b, <3>1, FreeAssumption
  <2>3. QED
    BY <2>1, <2>2
<1>3. ASSUME NEW r \in Requests, job[r].pc # "idle", \A p \in Requests \ {r} : job'[p] = job[p]
      PROVE  r = q
  <2>1. lock = r
    BY <1>3 DEF OneAtATime
  <2>2. QED
    BY <1>3, <1>b, <2>1
<1>4. ASSUME NEW r \in Requests, Ends(r) PROVE Calm /\ Goes
  BY <1>3, <1>4 DEF Ends, IdleJob
<1>5. ASSUME NEW r \in Requests, CallOpen(r) PROVE Calm /\ Goes
  <2>1. /\ r = q /\ job[q].op = "demo" /\ ~job[q].tainted /\ orphan' = orphan
        /\ job[q].pc = "call"
    BY <1>3, <1>5, <1>a, CallOpenIs
  <2>2. ASSUME NEW s \in Sessions, NEW k \in 1..6, AtCall(job[q], s, k) PROVE Goes
    BY <1>5, <1>a, <2>1, <2>2, StoryOpens
  <2>3. ASSUME StoryTold(job[q]) PROVE Goes
    BY <1>5, <1>a, <2>1, <2>3, ToldStaysTold
  <2>4. QED
    BY <1>b, <2>1, <2>2, <2>3 DEF AtRows
<1>6. ASSUME NEW r \in Requests, CountRows(r) PROVE Calm /\ Goes
  <2>1. /\ r = q /\ job[q].op = "demo" /\ ~job[q].tainted /\ orphan' = orphan
        /\ job[q].pc = "rows"
    BY <1>3, <1>6, <1>a, CountRowsIs
  <2>2. ASSUME NEW s \in Sessions, NEW k \in 1..6, AtRows(job[q], s, k) PROVE Goes
    <3>1. k < 6 => k + 1 \in 1..6
      OBVIOUS
    <3>2. QED
      BY <1>6, <2>1, <2>2, <3>1, StoryCounts
  <2>3. ASSUME StoryTold(job[q]) PROVE Goes
    BY <1>6, <1>a, <2>1, <2>3, ToldStaysTold
  <2>4. QED
    BY <1>b, <2>1, <2>2, <2>3 DEF AtCall
<1>7. ASSUME NEW r \in Requests, NEW e \in Events, NEW x \in LogEntry, Logs(r, e, x)
      PROVE  Calm /\ Goes
  <2>1. r = q /\ job[q].pc = "call"
    BY <1>3, <1>7 DEF Logs
  <2>2. job[q].op = "demo" /\ ~job[q].tainted /\ orphan' = orphan
    BY <1>7, <2>1 DEF Logs
  <2>3. ASSUME NEW s \in Sessions, NEW k \in 1..6, AtCall(job[q], s, k) PROVE Goes
    BY <1>7, <2>1, <2>2, <2>3, StoryApplies
  <2>4. ASSUME StoryTold(job[q]) PROVE Goes
    BY <1>7, <1>a, <2>1, <2>4, ToldStaysTold
  <2>5. QED
    BY <1>b, <2>1, <2>2, <2>3, <2>4 DEF AtRows
<1>8. QED
  BY <1>1, <1>2, <1>4, <1>5, <1>6, <1>7, <1>a, StepKinds

\* An untainted demo that is through its script has told its story.
LEMMA ToldIsTheStory == TimelineInv /\ StoryGoesOn => DemoTellsItsStory
<1> SUFFICES ASSUME TimelineInv, StoryGoesOn, NEW r \in Requests,
                    job[r].op = "demo", job[r].script = <<>>, ~job[r].tainted
             PROVE  SubSeq(job[r].log, 1, 5) =
                      <<[seq |-> 0, answer |-> "applied", rows |-> 1],
                        [seq |-> 0, answer |-> "refused", rows |-> 1],
                        [seq |-> 2, answer |-> "refused", rows |-> 1],
                        [seq |-> 1, answer |-> "applied", rows |-> 2],
                        [seq |-> 2, answer |-> "applied", rows |-> 3]>>
  BY DEF DemoTellsItsStory
<1> DEFINE l == job[r].log
<1>1. l \in Seq(LogEntry)
  BY DEF TimelineInv, TypeOK, Job
<1>2. StoryTold(job[r])
  <2>1. ASSUME NEW s, NEW k \in 1..6, ScriptFrom(job[r], s, k) PROVE FALSE
    <3>1. Len(job[r].script) = 0
      OBVIOUS
    <3>2. QED
      BY <2>1, <3>1 DEF ScriptFrom
  <2>2. QED
    BY <2>1 DEF StoryGoesOn, AtCall, AtRows
<1>3. Len(l) >= 5 /\ \A i \in 2..6 : l[i - 1] = StoryEntry(i)
  <2>1. 6 \in 2..6 /\ 6 - 1 = 5
    OBVIOUS
  <2>2. QED
    BY <1>2, <2>1 DEF StoryTold, ToldUpTo
<1>4. /\ l[1] = StoryEntry(2) /\ l[2] = StoryEntry(3) /\ l[3] = StoryEntry(4)
      /\ l[4] = StoryEntry(5) /\ l[5] = StoryEntry(6)
  BY <1>3
<1>5. /\ l[1] = [seq |-> 0, answer |-> "applied", rows |-> 1]
      /\ l[2] = [seq |-> 0, answer |-> "refused", rows |-> 1]
      /\ l[3] = [seq |-> 2, answer |-> "refused", rows |-> 1]
      /\ l[4] = [seq |-> 1, answer |-> "applied", rows |-> 2]
      /\ l[5] = [seq |-> 2, answer |-> "applied", rows |-> 3]
  BY <1>4 DEF StoryEntry
<1>6. SubSeq(l, 1, 5) = <<l[1], l[2], l[3], l[4], l[5]>>
  <2> DEFINE t == <<l[1], l[2], l[3], l[4], l[5]>>
  <2>1. \A i \in 1..5 : l[i] \in LogEntry
    BY <1>1, <1>3, ElementOfSeq
  <2>2. t \in Seq(LogEntry) /\ Len(t) = 5
    BY <2>1
  <2>3. \A i \in 1..5 : t[i] = l[i]
    OBVIOUS
  <2>4. /\ SubSeq(l, 1, 5) \in Seq(LogEntry) /\ Len(SubSeq(l, 1, 5)) = 5
        /\ \A i \in 1..5 : SubSeq(l, 1, 5)[i] = l[i]
    BY <1>1, <1>3, <2>1
  <2> HIDE DEF t
  <2>5. SubSeq(l, 1, 5) = t
    BY <2>2, <2>3, <2>4, SeqEqual
  <2>6. QED
    BY <2>5 DEF t
<1>7. QED
  BY <1>5, <1>6

\* The invariant of the answers holds initially.
LEMMA InitReport == Init => ReportInv
<1> SUFFICES ASSUME Init PROVE ReportInv
  OBVIOUS
<1>1. \A r \in Requests : /\ job[r].op = "none" /\ job[r].pc = "idle"
                          /\ job[r].script = <<>> /\ job[r].log = <<>>
  BY DEF Init, IdleJob
<1>2. QED
  BY <1>1 DEF Init, ReportInv, OneAtATime, LastIsStored, OpenedIsMinted,
     AppliedStepsAreCounted, StoryGoesOn

\* Every step keeps it.
LEMMA ReportStep == TimelineInv /\ ReportInv /\ [Next]_vars => ReportInv'
<1> SUFFICES ASSUME TimelineInv, ReportInv, [Next]_vars PROVE ReportInv'
  OBVIOUS
<1>1. LocalInv
  BY DEF TimelineInv, LocalInv
<1>2. QED
  BY <1>1, OneAtATimeKept, LastIsStoredKept, MintedKept, CountsKept, StoryKept DEF ReportInv

\* In every reachable state an applied step is reported with its row and all before it,
\* and a demo nothing disturbed has told the story of its docstring, for any number of
\* concurrent requests, lost answers and late arrivals.
THEOREM StepsStayReported == Spec => []StepsAreReported
<1>1. TimelineInv /\ ReportInv => StepsAreReported
  BY ToldIsTheStory DEF ReportInv, StepsAreReported
<1>2. QED
  BY <1>1, InitInv, InvStep, InitReport, ReportStep, PTL DEF Spec
=============================================================================
