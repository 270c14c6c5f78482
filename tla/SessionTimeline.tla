-------------------------- MODULE SessionTimeline --------------------------
(***************************************************************************)
(* The session-timeline transactions (backend/app/routes/transactions.py): *)
(* an Accord transaction appends event seq to a session only if the        *)
(* session is open, seq was not applied before and seq - 1 was.  It writes *)
(* session_timeline and session_seq_applied together.                      *)
(*                                                                         *)
(* A call whose answer was lost is parked in a slot of Lost and may still  *)
(* land later; callers may retry, and every attempt mints a new event_id.  *)
(* An event_id is stored and overwritten only at its own (session, seq), so *)
(* a new one need only differ from the ids alive at that row.              *)
(***************************************************************************)
EXTENDS Integers, Sequences, FiniteSets

CONSTANTS
    Sessions,     \* session ids; uuid4 never repeats one
    MaxSeq,       \* the largest sequence number a caller attempts (bound)
    Events,       \* event_ids: two more than Lost never run out
    Repeats,      \* /session/demo's repeats parameter
    Requests,     \* concurrent HTTP requests
    Ops,          \* the locked routes this instance exercises
    Lost,         \* slots for calls with a lost answer (bound)
    NoEvent,      \* no row
    Free          \* the lock, not held

ASSUME BoundsAssumption == MaxSeq \in Nat /\ Repeats \in 0..MaxSeq
ASSUME DemoAssumption == "demo" \in Ops => MaxSeq >= 2
ASSUME NoEventAssumption == NoEvent \notin Events
ASSUME FreeAssumption == Free \notin Requests

Seqs == 0..MaxSeq

\* An "open" inserts into sessions_open; an "apply" is the transaction.
Calls == [kind : {"open", "apply"}, session : Sessions, seq : Seqs]

NoCall == [kind |-> "none"]

VARIABLES
    sessionsOpen,   \* sessions_open
    seqApplied,     \* session_seq_applied: the seqs under each session
    timeline,       \* session_timeline: timeline[s][n] is the event_id, or NoEvent
    minted,         \* session ids handed out so far
    lock,           \* transactions.py:_lock
    job,            \* each request's local state
    orphan          \* calls in flight that no handler waits for

tables == <<sessionsOpen, seqApplied, timeline>>
vars   == <<sessionsOpen, seqApplied, timeline, minted, lock, job, orphan>>

-----------------------------------------------------------------------------
(* The transaction *)

\* Faulty: prev_ok is not in the IF.
ApplyGuardUnordered(s, n) == s \in sessionsOpen /\ n \notin seqApplied[s]

\* Faulty: already is not in the IF.
ApplyGuardRepeatable(s, n) == s \in sessionsOpen /\ (n > 0 => n - 1 \in seqApplied[s])

\* _apply_cql: prev_ok is left out for seq = 0, which has no predecessor.
ApplyGuard(s, n) ==
    /\ s \in sessionsOpen
    /\ n \notin seqApplied[s]
    /\ n > 0 => n - 1 \in seqApplied[s]

Apply(s, n, e) ==
    /\ ApplyGuard(s, n)
    /\ timeline' = [timeline EXCEPT ![s] = [@ EXCEPT ![n] = e]]
    /\ seqApplied' = [seqApplied EXCEPT ![s] = @ \cup {n}]
    /\ UNCHANGED sessionsOpen

\* _open_session: a plain INSERT, which a retry or a late copy repeats.
Open(s) ==
    /\ sessionsOpen' = sessionsOpen \cup {s}
    /\ UNCHANGED <<seqApplied, timeline>>

\* A call runs, with e the event_id bound into it.
Execute(c, e) ==
    \/ c.kind = "open"  /\ Open(c.session)
    \/ c.kind = "apply" /\ Apply(c.session, c.seq, e)
    \/ c.kind = "apply" /\ ~ApplyGuard(c.session, c.seq) /\ UNCHANGED tables

\* _reason: why the IF did not fire, read from the projected guards in the
\* order a caller wants to hear them.
Reason(s, n) ==
    CASE s \notin sessionsOpen                    -> "not open"
      [] n \in seqApplied[s]                      -> "already applied"
      [] n > 0 /\ n - 1 \notin seqApplied[s]      -> "would leave a gap"
      [] OTHER                                    -> ""

Answer(c) == IF Reason(c.session, c.seq) = "" THEN "applied" ELSE "refused"

\* Faulty: the first row is not counted.
RowCountFromOne(s) == Cardinality({n \in Seqs \ {0} : timeline[s][n] # NoEvent})

\* _timeline_rows: the length the response reports.
RowCount(s) == Cardinality({n \in Seqs : timeline[s][n] # NoEvent})

-----------------------------------------------------------------------------
(* Requests *)

LogEntry == [seq : Seqs, answer : {"applied", "refused", "error"}, rows : Nat]

Job == [op      : Ops \cup {"none"},
        pc      : {"idle", "call", "rows"},
        script  : Seq(Calls),       \* calls still to make, in order
        log     : Seq(LogEntry),    \* one entry per transaction answered
        tainted : BOOLEAN]          \* history: an answer was missing or lost

IdleJob == [op |-> "none", pc |-> "idle", script |-> <<>>, log |-> <<>>,
            tainted |-> FALSE]

\* The request's local state changes, and no other request's.
Becomes(r, j) == job' = [job EXCEPT ![r] = j]

SomeOrphan == \E o \in Lost : orphan[o] # NoCall

OpenCall(s)     == [kind |-> "open",  session |-> s, seq |-> 0]
ApplyCall(s, n) == [kind |-> "apply", session |-> s, seq |-> n]

\* _repeat_applied: a session of its own, one apply and then Repeats more.
RepeatApplied(m) ==
    IF Repeats = 0 THEN <<>>
    ELSE <<OpenCall(m)>> \o [i \in 1..(Repeats + 1) |-> ApplyCall(m, i - 1)]

\* session_demo: the scripted session s, then the measured session m.
DemoScript(s, m) ==
    <<OpenCall(s), ApplyCall(s, 0), ApplyCall(s, 0), ApplyCall(s, 2),
      ApplyCall(s, 1), ApplyCall(s, 2)>>
    \o RepeatApplied(m)

\* POST /session/open, outside the lock.
SessionOpen(s) ==
    /\ s \notin minted
    /\ minted' = minted \cup {s}
    /\ Open(s)
    /\ UNCHANGED <<lock, job, orphan>>

SessionOpenLost(s, o) ==
    /\ s \notin minted
    /\ minted' = minted \cup {s}
    /\ orphan[o] = NoCall
    /\ orphan' = [orphan EXCEPT ![o] = [call |-> OpenCall(s), event |-> NoEvent]]
    /\ UNCHANGED <<tables, lock, job>>

Acquire(r) ==
    /\ job[r].pc = "idle"
    /\ lock = Free
    /\ lock' = r
    /\ UNCHANGED <<tables, orphan>>

\* POST /session/step: any session id, opened or not, and any seq.
StartStep(r, s, n) ==
    /\ "step" \in Ops
    /\ Acquire(r)
    /\ Becomes(r, [IdleJob EXCEPT !.op = "step", !.pc = "call",
                                  !.script = <<ApplyCall(s, n)>>,
                                  !.tainted = SomeOrphan])
    /\ UNCHANGED minted

\* POST /session/demo: two session ids of its own.
StartDemo(r, s, m) ==
    /\ "demo" \in Ops /\ s # m /\ {s, m} \cap minted = {}
    /\ Acquire(r)
    /\ minted' = minted \cup {s, m}
    /\ Becomes(r, [IdleJob EXCEPT !.op = "demo", !.pc = "call",
                                  !.script = DemoScript(s, m),
                                  !.tainted = SomeOrphan])

NextCall(r) == Head(job[r].script)

Calling(r) == job[r].pc = "call" /\ job[r].script # <<>>

\* _apply_params: uuid_from_time never repeats an event_id.
IsNew(c, e) ==
    /\ timeline[c.session][c.seq] # e
    /\ \A o \in Lost : orphan[o] # NoCall /\ orphan[o].call = c => orphan[o].event # e

\* _open_session inside the demo.
CallOpen(r) ==
    /\ Calling(r) /\ NextCall(r).kind = "open"
    /\ Open(NextCall(r).session)
    /\ Becomes(r, [job[r] EXCEPT !.script = Tail(@)])
    /\ UNCHANGED <<minted, lock, orphan>>

\* _run_step: bind a new event_id, run the transaction, read the reason; the
\* timeline is counted by a second read.
CallApply(r, e) ==
    /\ Calling(r) /\ NextCall(r).kind = "apply"
    /\ IsNew(NextCall(r), e)
    /\ Execute(NextCall(r), e)
    /\ Becomes(r, [job[r] EXCEPT
                    !.pc = "rows",
                    !.log = Append(@, [seq |-> NextCall(r).seq,
                                       answer |-> Answer(NextCall(r)),
                                       rows |-> 0])])
    /\ UNCHANGED <<minted, lock, orphan>>

\* The driver raised: an error step, and the transaction may land later.
CallApplyLost(r, e, o) ==
    /\ Calling(r) /\ NextCall(r).kind = "apply"
    /\ IsNew(NextCall(r), e)
    /\ orphan[o] = NoCall
    /\ orphan' = [orphan EXCEPT ![o] = [call |-> NextCall(r), event |-> e]]
    /\ Becomes(r, [job[r] EXCEPT
                    !.pc = "rows",
                    !.log = Append(@, [seq |-> NextCall(r).seq,
                                       answer |-> "error", rows |-> 0]),
                    !.tainted = TRUE])
    /\ UNCHANGED <<tables, minted, lock>>

\* _open_session raised inside the demo: the route answers 503.
CallOpenLost(r, o) ==
    /\ Calling(r) /\ NextCall(r).kind = "open"
    /\ orphan[o] = NoCall
    /\ orphan' = [orphan EXCEPT ![o] = [call |-> NextCall(r), event |-> NoEvent]]
    /\ Becomes(r, IdleJob)
    /\ lock' = Free
    /\ UNCHANGED <<tables, minted>>

\* The last entry of a log, with the row count filled in.
Counted(log, n) == [log EXCEPT ![Len(log)] = [log[Len(log)] EXCEPT !.rows = n]]

\* len(_timeline_rows(...)), after the transaction or after its error.
CountRows(r) ==
    /\ job[r].pc = "rows"
    /\ Becomes(r, [job[r] EXCEPT
                    !.pc = "call",
                    !.script = Tail(@),
                    !.log = Counted(@, RowCount(NextCall(r).session))])
    /\ UNCHANGED <<tables, minted, lock, orphan>>

\* That read raised: 503 from the demo, 500 from the step, the lock released.
CountFails(r) ==
    /\ job[r].pc = "rows"
    /\ Becomes(r, IdleJob)
    /\ lock' = Free
    /\ UNCHANGED <<tables, minted, orphan>>

Finish(r) ==
    /\ job[r].pc = "call" /\ job[r].script = <<>>
    /\ Becomes(r, IdleJob)
    /\ lock' = Free
    /\ UNCHANGED <<tables, minted, orphan>>

Land(o) ==
    /\ orphan[o] # NoCall
    /\ Execute(orphan[o].call, orphan[o].event)
    /\ orphan' = [orphan EXCEPT ![o] = NoCall]
    /\ UNCHANGED <<minted, lock, job>>

Vanish(o) ==
    /\ orphan[o] # NoCall
    /\ orphan' = [orphan EXCEPT ![o] = NoCall]
    /\ UNCHANGED <<tables, minted, lock, job>>

-----------------------------------------------------------------------------
Init ==
    /\ sessionsOpen = {}
    /\ seqApplied = [s \in Sessions |-> {}]
    /\ timeline = [s \in Sessions |-> [n \in Seqs |-> NoEvent]]
    /\ minted = {}
    /\ lock = Free
    /\ job = [r \in Requests |-> IdleJob]
    /\ orphan = [o \in Lost |-> NoCall]

Start(r) ==
    \/ \E s \in Sessions, n \in Seqs : StartStep(r, s, n)
    \/ \E s, m \in Sessions : StartDemo(r, s, m)

Progress(r) ==
    \/ CallOpen(r)
    \/ \E e \in Events : CallApply(r, e)
    \/ CountRows(r)
    \/ Finish(r)

Fault(r) ==
    \/ CountFails(r)
    \/ \E o \in Lost : CallOpenLost(r, o) \/ \E e \in Events : CallApplyLost(r, e, o)

Next ==
    \/ \E s \in Sessions : SessionOpen(s) \/ \E o \in Lost : SessionOpenLost(s, o)
    \/ \E r \in Requests : Start(r) \/ Progress(r) \/ Fault(r)
    \/ \E o \in Lost : Land(o) \/ Vanish(o)

Spec == Init /\ [][Next]_vars

-----------------------------------------------------------------------------
(* Properties *)

Pending == [call : Calls, event : Events \cup {NoEvent}]

TypeOK ==
    /\ sessionsOpen \subseteq Sessions
    /\ seqApplied \in [Sessions -> SUBSET Seqs]
    /\ timeline \in [Sessions -> [Seqs -> Events \cup {NoEvent}]]
    /\ minted \subseteq Sessions
    /\ lock \in Requests \cup {Free}
    /\ job \in [Requests -> Job]
    /\ orphan \in [Lost -> Pending \cup {NoCall}]

\* No sequence number is ever missing below one that was applied, however
\* calls are retried, replayed out of order or land late.
NoGaps ==
    \A s \in Sessions : \A n \in seqApplied[s] : \A m \in 0..n : m \in seqApplied[s]

\* The two tables one transaction writes agree on every sequence number, and
\* only an open session has rows.
TablesAgree ==
    \A s \in Sessions :
        /\ \A n \in Seqs : n \in seqApplied[s] <=> timeline[s][n] # NoEvent
        /\ seqApplied[s] # {} => s \in sessionsOpen

\* What the transaction's guard promises of the two tables at every moment.
TablesSound == TypeOK /\ NoGaps /\ TablesAgree

\* An event, once in the timeline, is never overwritten: a retry of a call
\* that had been applied carries a new event_id and must change nothing.
RowsAreFinal ==
    [][\A s \in Sessions, n \in Seqs :
         timeline[s][n] # NoEvent => timeline'[s][n] = timeline[s][n]]_vars

\* An applied step at seq n is reported with at least n + 1 timeline rows: the
\* count is a later read, and it sees the step and all its predecessors.
AppliedStepsAreCounted ==
    \A r \in Requests : \A i \in 1..Len(job[r].log) :
        job[r].log[i].answer = "applied" /\ (job[r].pc = "call" \/ i < Len(job[r].log))
            => job[r].log[i].rows >= job[r].log[i].seq + 1

\* session_demo's docstring: "Steps two and three must leave the timeline
\* exactly as they found it, and step five must succeed only once its
\* predecessor exists".
DemoTellsItsStory ==
    \A r \in Requests :
        job[r].op = "demo" /\ job[r].script = <<>> /\ ~job[r].tainted =>
           SubSeq(job[r].log, 1, 5) =
             <<[seq |-> 0, answer |-> "applied", rows |-> 1],
               [seq |-> 0, answer |-> "refused", rows |-> 1],
               [seq |-> 2, answer |-> "refused", rows |-> 1],
               [seq |-> 1, answer |-> "applied", rows |-> 2],
               [seq |-> 2, answer |-> "applied", rows |-> 3]>>

\* What the callers are told of their steps is what the tables hold.
StepsAreReported == AppliedStepsAreCounted /\ DemoTellsItsStory

\* A session's timeline read as a log, oldest event first.
LogOf(s) == [i \in 1..Cardinality(seqApplied[s]) |-> timeline[s][i - 1]]

Log == INSTANCE AppendOnlyLog WITH log <- [s \in Sessions |-> LogOf(s)]

\* The tables implement an append-only log per session.
TimelineIsALog == Log!Spec

=============================================================================
