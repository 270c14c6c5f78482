----------------------------- MODULE Comparison -----------------------------
(***************************************************************************)
(* One comparison at a time (backend/app/routes/query.py): POST /benchmark *)
(* and POST /benchmark/stream take _comparison_lock, record the run in     *)
(* _in_flight and send one statement down several engines; a cancel from   *)
(* the Health page runs beside them, on a thread of its own and without    *)
(* the lock.                                                               *)
(*                                                                         *)
(* Each assignment to a global is a step of its own: the threads share the *)
(* three globals with no other synchronisation.                            *)
(***************************************************************************)
EXTENDS Integers, Sequences, FiniteSets, SequencesExt

CONSTANTS
    Runs,         \* comparison requests
    Cancels,      \* cancel requests
    Engines,      \* the paths asked for, a sequence in run order
    Killable,     \* engines a cancel can stop at work: all but Cassandra
    Modes,        \* the kinds of request this instance exercises
    NoRun         \* _in_flight is None, or the lock is free

ASSUME EnginesAssumption ==
    /\ Engines \in Seq(ToSet(Engines)) /\ IsInjective(Engines)
    /\ Killable \subseteq ToSet(Engines) /\ NoRun \notin Runs
ASSUME ModesAssumption == Modes \subseteq {"sequential", "parallel", "stream"}

VARIABLES
    lock,       \* _comparison_lock: the run holding it
    inFlight,   \* _in_flight: the run it records
    flag,       \* _cancel_requested
    run,        \* each comparison request's thread
    cancel      \* each cancel request's thread

vars == <<lock, inFlight, flag, run, cancel>>

Names == ToSet(Engines)

Run == [pc        : {"idle", "acquired", "cleared", "unstarted", "baseline", "check",
                     "start", "leg", "report", "ending", "forgotten", "ended",
                     "refused", "lost"},
        mode      : Modes \cup {"none"},
        working   : SUBSET Names,    \* engines at work on this run's statement
        answered  : SUBSET Names,    \* run["results"]
        late      : Nat,             \* history: legs started after a cancel
        aimed     : BOOLEAN,         \* history: a cancel has read this run
        overlapped: BOOLEAN,         \* history: when the run cleared the flag, a
                                     \* cancel that had read another was to set it
        cancelled : {"none", "no", "yes"}]   \* the response's flag

NewRun == [pc |-> "idle", mode |-> "none", working |-> {}, answered |-> {},
           late |-> 0, aimed |-> FALSE, overlapped |-> FALSE, cancelled |-> "none"]

Cancel == [pc : {"idle", "read", "abort"}, left : SUBSET Names]

NewCancel == [pc |-> "idle", left |-> {}]

Becomes(r, j) == run' = [run EXCEPT ![r] = j]

-----------------------------------------------------------------------------
(* _begin_run and _end_run *)

Acquire(r, m) ==
    /\ run[r].pc = "idle"
    /\ lock = NoRun
    /\ lock' = r
    /\ Becomes(r, [run[r] EXCEPT !.pc = "acquired", !.mode = m])
    /\ UNCHANGED <<inFlight, flag, cancel>>

\* 409: somebody is already running.
Refused(r) ==
    /\ run[r].pc = "idle"
    /\ lock # NoRun
    /\ Becomes(r, [run[r] EXCEPT !.pc = "refused"])
    /\ UNCHANGED <<lock, inFlight, flag, cancel>>

\* A cancel that has read _in_flight and not yet set the flag.
SomeCancelToSet == \E c \in Cancels : cancel[c].pc = "read"

\* Faulty: a run leaves the flag as it found it.
ClearFlagNot(r) ==
    /\ run[r].pc = "acquired"
    /\ Becomes(r, [run[r] EXCEPT !.pc = "cleared", !.overlapped = SomeCancelToSet])
    /\ UNCHANGED <<lock, inFlight, flag, cancel>>

ClearFlag(r) ==
    /\ run[r].pc = "acquired"
    /\ flag' = FALSE
    /\ Becomes(r, [run[r] EXCEPT !.pc = "cleared", !.overlapped = SomeCancelToSet])
    /\ UNCHANGED <<lock, inFlight, cancel>>

\* A stream's generator has not begun when the route returns.
Record(r) ==
    /\ run[r].pc = "cleared"
    /\ inFlight' = r
    /\ Becomes(r, [run[r] EXCEPT
                    !.pc = IF run[r].mode = "stream" THEN "unstarted" ELSE "baseline"])
    /\ UNCHANGED <<lock, flag, cancel>>

Forget(r) ==
    /\ run[r].pc = "ending"
    /\ inFlight' = NoRun
    /\ Becomes(r, [run[r] EXCEPT !.pc = "forgotten"])
    /\ UNCHANGED <<lock, flag, cancel>>

\* The flag is cleared and the lock released; nobody else clears in between.
Release(r) ==
    /\ run[r].pc = "forgotten"
    /\ flag' = FALSE
    /\ lock' = NoRun
    /\ Becomes(r, [run[r] EXCEPT !.pc = "ended"])
    /\ UNCHANGED <<inFlight, cancel>>

-----------------------------------------------------------------------------
(* The run *)

\* The response object is iterated for the first time.
StreamBegins(r) ==
    /\ run[r].pc = "unstarted"
    /\ Becomes(r, [run[r] EXCEPT !.pc = "baseline"])
    /\ UNCHANGED <<lock, inFlight, flag, cancel>>

\* The client went away first: a generator that was never entered is dropped
\* without running its finally.
StreamNeverBegins(r) ==
    /\ run[r].pc = "unstarted"
    /\ Becomes(r, [run[r] EXCEPT !.pc = "lost"])
    /\ UNCHANGED <<lock, inFlight, flag, cancel>>

\* The reference probe, then the legs: all at once, or one after another.
Baseline(r) ==
    /\ run[r].pc = "baseline"
    /\ Becomes(r, IF run[r].mode = "parallel"
                  THEN [run[r] EXCEPT !.pc = "leg", !.working = Names]
                  ELSE [run[r] EXCEPT !.pc = "check"])
    /\ UNCHANGED <<lock, inFlight, flag, cancel>>

\* Faulty: the flag is not read between two paths.
CheckNothing(r) ==
    /\ run[r].pc = "check"
    /\ Becomes(r, [run[r] EXCEPT !.pc = IF run[r].answered = Names
                                        THEN "report" ELSE "start"])
    /\ UNCHANGED <<lock, inFlight, flag, cancel>>

\* _run_sequence: the flag is read before each path ...
Check(r) ==
    /\ run[r].pc = "check"
    /\ Becomes(r, [run[r] EXCEPT !.pc = IF flag \/ run[r].answered = Names
                                        THEN "report" ELSE "start"])
    /\ UNCHANGED <<lock, inFlight, flag, cancel>>

NextEngine(r) == Engines[Cardinality(run[r].answered) + 1]

\* ... and the path begins afterwards.
StartLeg(r) ==
    /\ run[r].pc = "start"
    /\ Becomes(r, [run[r] EXCEPT !.pc = "leg", !.working = {NextEngine(r)},
                                 !.late = IF flag THEN @ + 1 ELSE @])
    /\ UNCHANGED <<lock, inFlight, flag, cancel>>

\* An engine answers, or fails: either way the result is recorded.
Answer(r, e) ==
    /\ run[r].pc = "leg" /\ e \in run[r].working
    /\ Becomes(r, [run[r] EXCEPT !.working = @ \ {e}, !.answered = @ \cup {e}])
    /\ UNCHANGED <<lock, inFlight, flag, cancel>>

\* Parallel legs are joined; the others go on to the next path.
LegsDone(r) ==
    /\ run[r].pc = "leg" /\ run[r].working = {}
    /\ Becomes(r, [run[r] EXCEPT !.pc = IF run[r].mode = "parallel" THEN "report"
                                                                  ELSE "check"])
    /\ UNCHANGED <<lock, inFlight, flag, cancel>>

\* Faulty: the generator ends its run on the way out, not in a finally.
StreamClosesUnended(r) ==
    /\ run[r].mode = "stream" /\ run[r].pc \in {"baseline", "check"}
    /\ Becomes(r, [run[r] EXCEPT !.pc = "ended"])
    /\ UNCHANGED <<lock, inFlight, flag, cancel>>

\* A stream is suspended at a yield before the baseline and before each path.
\* The client has gone: closing the generator raises GeneratorExit in it.
StreamCloses(r) ==
    /\ run[r].mode = "stream" /\ run[r].pc \in {"baseline", "check"}
    /\ Becomes(r, [run[r] EXCEPT !.pc = "ending"])
    /\ UNCHANGED <<lock, inFlight, flag, cancel>>

\* cancelled=_cancel_requested.is_set(), then the finally.
Report(r) ==
    /\ run[r].pc = "report"
    /\ Becomes(r, [run[r] EXCEPT !.pc = "ending",
                                 !.cancelled = IF flag THEN "yes" ELSE "no"])
    /\ UNCHANGED <<lock, inFlight, flag, cancel>>

-----------------------------------------------------------------------------
(* cancel_comparison *)

\* run = _in_flight; with nothing in flight the route answers so and does
\* nothing.
CancelReads(c) ==
    /\ cancel[c].pc = "idle" /\ inFlight # NoRun
    /\ cancel' = [cancel EXCEPT ![c] = [pc |-> "read", left |-> Killable]]
    /\ run' = [run EXCEPT ![inFlight].aimed = TRUE]
    /\ UNCHANGED <<lock, inFlight, flag>>

CancelSets(c) ==
    /\ cancel[c].pc = "read"
    /\ flag' = TRUE
    /\ cancel' = [cancel EXCEPT ![c].pc = "abort"]
    /\ UNCHANGED <<lock, inFlight, run>>

\* The runs after engine e was stopped at its work: the leg fails, and its
\* failure is recorded as its result.
Stopped(e) ==
    [r \in Runs |-> IF e \in run[r].working
                    THEN [run[r] EXCEPT !.working = @ \ {e}, !.answered = @ \cup {e}]
                    ELSE run[r]]

\* Each killable client is stopped, whichever run is using it by now; an abort
\* that raises stops nothing.
CancelAborts(c, e) ==
    /\ cancel[c].pc = "abort" /\ e \in cancel[c].left
    /\ run' \in {run, Stopped(e)}
    /\ cancel' = [cancel EXCEPT ![c].left = @ \ {e}]
    /\ UNCHANGED <<lock, inFlight, flag>>

\* The response; this client's next cancel is a new one.
CancelReturns(c) ==
    /\ cancel[c].pc = "abort" /\ cancel[c].left = {}
    /\ cancel' = [cancel EXCEPT ![c] = NewCancel]
    /\ UNCHANGED <<lock, inFlight, flag, run>>

\* The requests of one thread come and go: its next one is a new one.
NextRun(r) ==
    /\ run[r].pc \in {"ended", "refused"}
    /\ Becomes(r, NewRun)
    /\ UNCHANGED <<lock, inFlight, flag, cancel>>

-----------------------------------------------------------------------------
Init ==
    /\ lock = NoRun
    /\ inFlight = NoRun
    /\ flag = FALSE
    /\ run = [r \in Runs |-> NewRun]
    /\ cancel = [c \in Cancels |-> NewCancel]

\* What a comparison's thread does once it has the lock.
Progress(r) ==
    \/ ClearFlag(r) \/ Record(r) \/ StreamBegins(r)
    \/ Baseline(r) \/ Check(r) \/ StartLeg(r)
    \/ \E e \in Names : Answer(r, e)
    \/ LegsDone(r) \/ Report(r)
    \/ Forget(r) \/ Release(r)

ClientGone(r) == StreamCloses(r) \/ StreamNeverBegins(r)

Cancelling(c) ==
    \/ CancelReads(c)
    \/ CancelSets(c)
    \/ \E e \in Names : CancelAborts(c, e)
    \/ CancelReturns(c)

Next ==
    \/ \E r \in Runs : \/ \E m \in Modes : Acquire(r, m)
                       \/ Refused(r)
                       \/ Progress(r)
                       \/ ClientGone(r)
                       \/ NextRun(r)
    \/ \E c \in Cancels : Cancelling(c)

Spec == Init /\ [][Next]_vars

\* A request thread goes on: every engine call answers or times out, and a
\* stream's client takes its lines or goes away.
FairSpec == Spec /\ \A r \in Runs : WF_vars(Progress(r) \/ ClientGone(r))

-----------------------------------------------------------------------------
(* Properties *)

TypeOK ==
    /\ lock \in Runs \cup {NoRun}
    /\ inFlight \in Runs \cup {NoRun}
    /\ flag \in BOOLEAN
    /\ run \in [Runs -> Run]
    /\ cancel \in [Cancels -> Cancel]

\* "One comparison at a time": no engine works for two runs at once, and what
\* is recorded as in flight is the run that holds the lock.
OneAtATime ==
    /\ \A r, q \in Runs : run[r].working # {} /\ run[q].working # {} => r = q
    /\ inFlight # NoRun => lock = inFlight

\* A cancelled run "stops before its next path": at most the one path that had
\* already been checked still starts after the cancel.
AtMostOneLateLeg == \A r \in Runs : run[r].late <= 1

\* What the lock, the flag and _in_flight keep at every moment.
ComparisonSound == TypeOK /\ OneAtATime /\ AtMostOneLateLeg

\* A path missing from a response is explained by it: the response says that
\* the run was cancelled, and no end or beginning of a run can hide the flag.
MissingPathsAreExplained ==
    \A r \in Runs : run[r].cancelled = "no" => run[r].answered = Names

\* A run whose body has begun gives the lock back on every path out of it: its
\* report, a cancel, and a client that goes away between two lines.
BegunRunsEnd == \A r \in Runs : run[r].pc = "baseline" ~> lock = NoRun

\* Whoever takes the lock gives it back, also on a client that has gone away:
\* "the lock is released rather than held until the process restarts".
LockIsReturned == \A r \in Runs : lock = r ~> lock = NoRun

\* "Set by a cancel request, cleared when the run it stopped has returned": a
\* run that reports itself cancelled was read by a cancel, or began while a
\* cancel that had read its predecessor was about to set the flag.  Nothing an
\* earlier cancel left behind stops a run.
CancelsMetTheirRun ==
    \A r \in Runs : run[r].cancelled = "yes" => run[r].aimed \/ run[r].overlapped

\* A response says that the run was cancelled if paths are missing, and only if a
\* cancel met it: a client may rely on the word in both directions.
CancelledMeansCancelled == MissingPathsAreExplained /\ CancelsMetTheirRun

=============================================================================
