-------------------------- MODULE ComparisonProofs --------------------------
(***************************************************************************)
(* Proofs about Comparison, for any number of runs, cancels and engines:   *)
(* one run at a time, at most one late path, and what the word "cancelled" *)
(* of a response means.                                                    *)
(***************************************************************************)
EXTENDS Comparison, FiniteSetTheorems, TLAPS

\* Where a run holds the lock, and where it is the one recorded in _in_flight.
Recorded == {"unstarted", "baseline", "check", "start", "leg", "report", "ending", "lost"}
Holding  == Recorded \cup {"acquired", "cleared", "forgotten"}

\* Where the flag can still be about this run.
Listening == {"cleared", "unstarted", "baseline", "check", "start", "leg", "report"}

\* The lock belongs to the run that is at work, and only legs work.
RunIsAlone(r) ==
    /\ run[r].pc \in Holding => lock = r
    /\ run[r].working # {} => run[r].pc = "leg"

\* A leg starts late only once, because the flag that made it late stays up for
\* the next check: only the run itself clears it.
RunStopsInTime(r) ==
    /\ run[r].late \in {0, 1}
    /\ run[r].pc \in {"idle", "acquired", "cleared", "unstarted", "baseline", "start"}
            => run[r].late = 0
    /\ run[r].pc \in {"leg", "check"} /\ run[r].late = 1 => flag

\* What is missing is missing because of the flag.
RunIsComplete(r) ==
    /\ run[r].pc \in {"check", "start"} => run[r].mode # "parallel"
    /\ run[r].pc = "start" => run[r].answered # Names
    /\ run[r].pc = "leg" /\ run[r].mode = "parallel"
            => run[r].answered \cup run[r].working = Names
    /\ run[r].pc = "report" => flag \/ run[r].answered = Names
    /\ run[r].cancelled # "none" => run[r].pc \in {"ending", "forgotten", "ended"}
    /\ run[r].cancelled = "no" => run[r].answered = Names

\* A flag that is up, or about to be, was meant for the run that holds the lock,
\* or its cancel was there when the run cleared the flag.
RunWasAimedAt(r) ==
    /\ run[r].pc \in Listening /\ (flag \/ SomeCancelToSet)
            => run[r].aimed \/ run[r].overlapped
    /\ run[r].cancelled = "yes" => run[r].aimed \/ run[r].overlapped

RunInv(r) == RunIsAlone(r) /\ RunStopsInTime(r) /\ RunIsComplete(r) /\ RunWasAimedAt(r)

RecordIsHeld == inFlight # NoRun => run[inFlight].pc \in Recorded

ComparisonInv == TypeOK /\ RecordIsHeld /\ \A r \in Runs : RunInv(r)

-----------------------------------------------------------------------------
(* Paths and their types *)

\* A run that has not answered for every engine has a next one.
LEMMA NextEngineType ==
  ASSUME NEW S \in SUBSET Names, S # Names
  PROVE  Engines[Cardinality(S) + 1] \in Names
<1>1. Engines \in [1..Len(Engines) -> Names] /\ Len(Engines) \in Nat
  BY EnginesAssumption DEF Names
<1>2. Names = {Engines[i] : i \in 1..Len(Engines)}
  BY <1>1 DEF Names, ToSet
<1>3. /\ IsFiniteSet(1..Len(Engines))
      /\ Cardinality(1..Len(Engines)) = Len(Engines)
  <2>1. 1 \in Int /\ Len(Engines) \in Int
    BY <1>1
  <2>2. /\ IsFiniteSet(1..Len(Engines))
        /\ Cardinality(1..Len(Engines)) =
              IF 1 > Len(Engines) THEN 0 ELSE Len(Engines) - 1 + 1
    BY <2>1, FS_Interval, Zenon
  <2>3. QED
    BY <1>1, <2>2
<1>4. IsFiniteSet(Names) /\ Cardinality(Names) <= Len(Engines)
  <2>1. Engines \in Surjection(1..Len(Engines), Names)
    BY <1>1, <1>2 DEF Surjection
  <2>2. QED
    BY <2>1, <1>3, FS_Surjection
<1>5. Cardinality(S) \in Nat /\ Cardinality(Names) \in Nat /\ Cardinality(S) < Cardinality(Names)
  BY <1>4, FS_Subset, FS_CardinalityType
<1>6. Cardinality(S) + 1 \in 1..Len(Engines)
  BY <1>1, <1>4, <1>5
<1>7. QED
  BY <1>1, <1>6

-----------------------------------------------------------------------------
(* The steps *)

\* A step of r's thread changes r's state and nobody else's.
LEMMA OnlyOwnState ==
  ASSUME TypeOK, NEW r \in Runs, NEW j \in Run, Becomes(r, j)
  PROVE  /\ run' \in [Runs -> Run] /\ run'[r] = j
         /\ \A q \in Runs : q # r => run'[q] = run[q]
  BY DEF Becomes, TypeOK

\* A run that does not hold the lock does not care for the flag, the lock or a
\* cancel.
LEMMA OthersRest ==
  ASSUME ComparisonInv, NEW q \in Runs, run[q].pc \notin Holding, run'[q] = run[q]
  PROVE  RunInv(q)'
  BY DEF ComparisonInv, RunInv, RunIsAlone, RunStopsInTime, RunIsComplete, RunWasAimedAt,
         Holding, Recorded, Listening

\* Whoever is at work excludes the others.
LEMMA OneHolds ==
  ASSUME ComparisonInv, NEW r \in Runs, lock \in {r, NoRun}, NEW q \in Runs, q # r
  PROVE  run[q].pc \notin Holding
  BY EnginesAssumption DEF ComparisonInv, RunInv, RunIsAlone

\* With these, a step of r's thread is judged by what becomes of r.
LEMMA OwnStep ==
  ASSUME ComparisonInv, NEW r \in Runs, lock \in {r, NoRun},
         NEW j \in Run, Becomes(r, j)
  PROVE  /\ run' \in [Runs -> Run] /\ run'[r] = j
         /\ \A q \in Runs : q # r => run'[q] = run[q] /\ RunInv(q)'
<1>1. /\ run' \in [Runs -> Run] /\ run'[r] = j
      /\ \A q \in Runs : q # r => run'[q] = run[q]
  BY OnlyOwnState DEF ComparisonInv
<1>2. QED
  BY <1>1, OneHolds, OthersRest

\* _begin_run: acquire, clear, record.
LEMMA BeginKeeps ==
  ASSUME ComparisonInv, NEW r \in Runs,
         (\E m \in Modes : Acquire(r, m)) \/ ClearFlag(r) \/ Record(r)
  PROVE  ComparisonInv'
<1>a. TypeOK /\ RunInv(r) /\ run[r] \in Run /\ RecordIsHeld
  BY DEF ComparisonInv, TypeOK
<1>1. ASSUME NEW m \in Modes, Acquire(r, m) PROVE ComparisonInv'
  <2> DEFINE j == [run[r] EXCEPT !.pc = "acquired", !.mode = m]
  <2>1. j \in Run /\ Becomes(r, j) /\ lock = NoRun
    BY <1>1, <1>a DEF Acquire, Run
  <2>2. /\ run' \in [Runs -> Run] /\ run'[r] = j
        /\ \A q \in Runs : q # r => run'[q] = run[q] /\ RunInv(q)'
    BY <2>1, OwnStep
  <2>3. RunInv(r)'
    BY <1>1, <1>a, <2>2 DEF Acquire, RunInv, RunIsAlone, RunStopsInTime, RunIsComplete,
       RunWasAimedAt, Listening, Run
  <2>4. TypeOK' /\ RecordIsHeld'
    BY <1>1, <1>a, <2>2 DEF Acquire, TypeOK, RecordIsHeld, Recorded
  <2>5. QED
    BY <2>2, <2>3, <2>4 DEF ComparisonInv
<1>2. CASE ClearFlag(r)
  <2> DEFINE j == [run[r] EXCEPT !.pc = "cleared", !.overlapped = SomeCancelToSet]
  <2>1. j \in Run /\ Becomes(r, j) /\ lock = r
    BY <1>2, <1>a DEF ClearFlag, Run, SomeCancelToSet, RunInv, RunIsAlone, Holding
  <2>2. /\ run' \in [Runs -> Run] /\ run'[r] = j
        /\ \A q \in Runs : q # r => run'[q] = run[q] /\ RunInv(q)'
    BY <2>1, OwnStep
  <2>3. RunInv(r)'
    <3>1. RunIsAlone(r)' /\ RunStopsInTime(r)' /\ RunIsComplete(r)'
      BY <1>2, <1>a, <2>1, <2>2 DEF ClearFlag, RunInv, RunIsAlone, RunStopsInTime,
         RunIsComplete, Run
    <3>2. ~flag' /\ (SomeCancelToSet' <=> SomeCancelToSet)
      BY <1>2 DEF ClearFlag, SomeCancelToSet
    <3>3. run'[r].overlapped = SomeCancelToSet /\ run'[r].cancelled # "yes"
      BY <1>2, <1>a, <2>2 DEF ClearFlag, RunInv, RunIsComplete, Run
    <3>4. RunWasAimedAt(r)'
      BY <3>2, <3>3, Zenon DEF RunWasAimedAt
    <3>5. QED
      BY <3>1, <3>4 DEF RunInv
  <2>4. TypeOK' /\ RecordIsHeld'
    BY <1>2, <1>a, <2>2 DEF ClearFlag, TypeOK, RecordIsHeld, Recorded
  <2>5. QED
    BY <2>2, <2>3, <2>4 DEF ComparisonInv
<1>3. CASE Record(r)
  <2> DEFINE j == [run[r] EXCEPT
                     !.pc = IF run[r].mode = "stream" THEN "unstarted" ELSE "baseline"]
  <2>1. j \in Run /\ Becomes(r, j) /\ lock = r
    BY <1>3, <1>a DEF Record, Run, RunInv, RunIsAlone, Holding
  <2>2. /\ run' \in [Runs -> Run] /\ run'[r] = j
        /\ \A q \in Runs : q # r => run'[q] = run[q] /\ RunInv(q)'
    BY <2>1, OwnStep
  <2>3. RunInv(r)'
    BY <1>3, <1>a, <2>1, <2>2 DEF Record, RunInv, RunIsAlone, RunStopsInTime,
       RunIsComplete, RunWasAimedAt, SomeCancelToSet, Listening, Run
  <2>4. TypeOK' /\ RecordIsHeld'
    BY <1>3, <1>a, <2>2 DEF Record, TypeOK, RecordIsHeld, Recorded
  <2>5. QED
    BY <2>2, <2>3, <2>4 DEF ComparisonInv
<1>4. QED
  BY <1>1, <1>2, <1>3

\* A step of the run's body moves none of the globals.
LEMMA BodyStep ==
  ASSUME ComparisonInv, NEW r \in Runs, NEW j \in Run, Becomes(r, j),
         run[r].pc \in Recorded, j.pc \in Recorded, RunInv(r)',
         UNCHANGED <<lock, inFlight, flag, cancel>>
  PROVE  ComparisonInv'
<1>1. lock = r
  BY DEF ComparisonInv, RunInv, RunIsAlone, Holding
<1>2. /\ run' \in [Runs -> Run] /\ run'[r] = j
      /\ \A q \in Runs : q # r => run'[q] = run[q] /\ RunInv(q)'
  BY <1>1, OwnStep
<1>3. TypeOK' /\ RecordIsHeld'
  BY <1>2 DEF ComparisonInv, TypeOK, RecordIsHeld
<1>4. QED
  BY <1>2, <1>3 DEF ComparisonInv

\* An answer, or a failure, recorded for an engine at work: also what an abort does.
LEMMA LegAnswers ==
  ASSUME NEW r \in Runs, NEW e \in Names, run[r] \in Run, RunInv(r), e \in run[r].working,
         run'[r] = [run[r] EXCEPT !.working = @ \ {e}, !.answered = @ \cup {e}],
         lock' = lock, flag' = flag, SomeCancelToSet' => SomeCancelToSet
  PROVE  RunInv(r)'
<1>1. /\ run'[r].pc = run[r].pc /\ run[r].pc = "leg"
      /\ run'[r].mode = run[r].mode /\ run'[r].late = run[r].late
      /\ run'[r].working = run[r].working \ {e}
      /\ run'[r].answered = run[r].answered \cup {e}
      /\ run'[r].aimed = run[r].aimed /\ run'[r].overlapped = run[r].overlapped
      /\ run'[r].cancelled = run[r].cancelled
  BY DEF Run, RunInv, RunIsAlone
<1>2. RunIsAlone(r)'
  BY <1>1 DEF RunInv, RunIsAlone
<1>3. RunStopsInTime(r)'
  BY <1>1 DEF RunInv, RunStopsInTime
<1>4. RunIsComplete(r)'
  <2>1. run'[r].answered \cup run'[r].working = run[r].answered \cup run[r].working
    BY <1>1
  <2>2. QED
    BY <1>1, <2>1 DEF RunInv, RunIsComplete
<1>5. RunWasAimedAt(r)'
  BY <1>1, Zenon DEF RunInv, RunWasAimedAt, Listening
<1>6. QED
  BY <1>2, <1>3, <1>4, <1>5 DEF RunInv

\* The paths, one after another or all at once, and the report.
LEMMA BodyKeeps ==
  ASSUME ComparisonInv, NEW r \in Runs,
         \/ StreamBegins(r) \/ Baseline(r) \/ Check(r) \/ StartLeg(r)
         \/ \E e \in Names : Answer(r, e)
         \/ LegsDone(r) \/ Report(r) \/ StreamCloses(r) \/ StreamNeverBegins(r)
  PROVE  ComparisonInv'
<1>a. TypeOK /\ RunInv(r) /\ run[r] \in Run
  BY DEF ComparisonInv, TypeOK
<1>1. CASE StreamBegins(r)
  <2> DEFINE j == [run[r] EXCEPT !.pc = "baseline"]
  <2>1. j \in Run /\ j.pc \in Recorded /\ run[r].pc \in Recorded /\ Becomes(r, j)
        /\ UNCHANGED <<lock, inFlight, flag, cancel>>
    BY <1>1, <1>a DEF StreamBegins, Run, Recorded
  <2>2. run'[r] = j /\ lock = r
    BY <1>a, <2>1, OnlyOwnState DEF RunInv, RunIsAlone, Holding
  <2>3. RunInv(r)'
    BY <1>1, <1>a, <2>1, <2>2 DEF StreamBegins, RunInv, RunIsAlone, RunStopsInTime,
       RunIsComplete, RunWasAimedAt, SomeCancelToSet, Listening, Holding, Recorded, Run
  <2>4. QED
    BY <2>1, <2>3, BodyStep
<1>2. CASE Baseline(r)
  <2> DEFINE j == IF run[r].mode = "parallel"
                   THEN [run[r] EXCEPT !.pc = "leg", !.working = Names]
                   ELSE [run[r] EXCEPT !.pc = "check"]
  <2>1. j \in Run /\ j.pc \in Recorded /\ run[r].pc \in Recorded /\ Becomes(r, j)
        /\ UNCHANGED <<lock, inFlight, flag, cancel>>
    BY <1>2, <1>a DEF Baseline, Run, Recorded
  <2>2. run'[r] = j /\ lock = r
    BY <1>a, <2>1, OnlyOwnState DEF RunInv, RunIsAlone, Holding
  <2>3. RunInv(r)'
    BY <1>2, <1>a, <2>1, <2>2 DEF Baseline, RunInv, RunIsAlone, RunStopsInTime,
       RunIsComplete, RunWasAimedAt, SomeCancelToSet, Listening, Holding, Recorded, Run
  <2>4. QED
    BY <2>1, <2>3, BodyStep
<1>3. CASE Check(r)
  <2> DEFINE j == [run[r] EXCEPT !.pc = IF flag \/ run[r].answered = Names
                                         THEN "report" ELSE "start"]
  <2>1. j \in Run /\ j.pc \in Recorded /\ run[r].pc \in Recorded /\ Becomes(r, j)
        /\ UNCHANGED <<lock, inFlight, flag, cancel>>
    BY <1>3, <1>a DEF Check, Run, Recorded
  <2>2. run'[r] = j /\ lock = r
    BY <1>a, <2>1, OnlyOwnState DEF RunInv, RunIsAlone, Holding
  <2>3. RunInv(r)'
    BY <1>3, <1>a, <2>1, <2>2 DEF Check, RunInv, RunIsAlone, RunStopsInTime,
       RunIsComplete, RunWasAimedAt, SomeCancelToSet, Listening, Holding, Recorded, Run
  <2>4. QED
    BY <2>1, <2>3, BodyStep
<1>4. CASE StartLeg(r)
  <2> DEFINE j == [run[r] EXCEPT !.pc = "leg", !.working = {NextEngine(r)},
                                   !.late = IF flag THEN @ + 1 ELSE @]
  <2>1. j \in Run /\ j.pc \in Recorded /\ run[r].pc \in Recorded /\ Becomes(r, j)
        /\ UNCHANGED <<lock, inFlight, flag, cancel>>
    <3>1. run[r].answered \in SUBSET Names /\ run[r].answered # Names
      BY <1>4, <1>a DEF StartLeg, Run, RunInv, RunIsComplete
    <3>2. NextEngine(r) \in Names
      BY <3>1, NextEngineType DEF NextEngine
    <3>3. (IF flag THEN run[r].late + 1 ELSE run[r].late) \in Nat
      BY <1>a DEF Run
    <3>4. QED
      BY <1>4, <1>a, <3>2, <3>3 DEF StartLeg, Run, Recorded
  <2>2. run'[r] = j /\ lock = r
    BY <1>a, <2>1, OnlyOwnState DEF RunInv, RunIsAlone, Holding
  <2>3. RunInv(r)'
    <3>1. /\ run'[r].pc = "leg"
          /\ run'[r].mode = run[r].mode /\ run'[r].answered = run[r].answered
          /\ run'[r].late = (IF flag THEN run[r].late + 1 ELSE run[r].late)
          /\ run'[r].aimed = run[r].aimed /\ run'[r].overlapped = run[r].overlapped
          /\ run'[r].cancelled = run[r].cancelled
      BY <1>4, <1>a, <2>2 DEF StartLeg, Run
    <3>2. RunIsAlone(r)'
      BY <2>1, <2>2, <3>1 DEF RunIsAlone
    <3>3. RunStopsInTime(r)'
      BY <1>4, <1>a, <2>1, <3>1 DEF StartLeg, RunInv, RunStopsInTime
    <3>4. RunIsComplete(r)'
      BY <1>4, <1>a, <3>1 DEF StartLeg, RunInv, RunIsComplete
    <3>5. RunWasAimedAt(r)'
      BY <1>4, <1>a, <2>1, <3>1 DEF StartLeg, RunInv, RunWasAimedAt, SomeCancelToSet, Listening
    <3>6. QED
      BY <3>2, <3>3, <3>4, <3>5 DEF RunInv
  <2>4. QED
    BY <2>1, <2>3, BodyStep
<1>5. ASSUME NEW e \in Names, Answer(r, e) PROVE ComparisonInv'
  <2> DEFINE j == [run[r] EXCEPT !.working = @ \ {e}, !.answered = @ \cup {e}]
  <2>1. j \in Run /\ j.pc \in Recorded /\ run[r].pc \in Recorded /\ Becomes(r, j)
        /\ UNCHANGED <<lock, inFlight, flag, cancel>>
    <3>1. run[r].working \ {e} \in SUBSET Names /\ run[r].answered \cup {e} \in SUBSET Names
      BY <1>a DEF Run
    <3>2. QED
      BY <1>5, <1>a, <3>1 DEF Answer, Run, Recorded
  <2>2. run'[r] = j /\ lock = r
    BY <1>a, <2>1, OnlyOwnState DEF RunInv, RunIsAlone, Holding
  <2>3. RunInv(r)'
    <3>1. e \in run[r].working /\ lock' = lock /\ flag' = flag
      BY <1>5, <2>1 DEF Answer
    <3>2. SomeCancelToSet' => SomeCancelToSet
      BY <2>1 DEF SomeCancelToSet
    <3>3. QED
      BY <1>a, <2>2, <3>1, <3>2, LegAnswers
  <2>4. QED
    BY <2>1, <2>3, BodyStep
<1>6. CASE LegsDone(r)
  <2> DEFINE j == [run[r] EXCEPT !.pc = IF run[r].mode = "parallel" THEN "report"
                                                                   ELSE "check"]
  <2>1. j \in Run /\ j.pc \in Recorded /\ run[r].pc \in Recorded /\ Becomes(r, j)
        /\ UNCHANGED <<lock, inFlight, flag, cancel>>
    BY <1>6, <1>a DEF LegsDone, Run, Recorded
  <2>2. run'[r] = j /\ lock = r
    BY <1>a, <2>1, OnlyOwnState DEF RunInv, RunIsAlone, Holding
  <2>3. RunInv(r)'
    <3>1. /\ run[r].pc = "leg" /\ run[r].working = {} /\ run'[r].working = {}
          /\ run'[r].pc = IF run[r].mode = "parallel" THEN "report" ELSE "check"
          /\ run'[r].mode = run[r].mode /\ run'[r].answered = run[r].answered
          /\ run'[r].late = run[r].late /\ run'[r].cancelled = run[r].cancelled
          /\ run'[r].aimed = run[r].aimed /\ run'[r].overlapped = run[r].overlapped
      BY <1>6, <1>a, <2>2 DEF LegsDone, Run
    <3>2. RunIsAlone(r)'
      BY <2>1, <2>2, <3>1 DEF RunIsAlone
    <3>3. RunStopsInTime(r)'
      BY <1>a, <2>1, <3>1 DEF RunInv, RunStopsInTime
    <3>4. RunIsComplete(r)'
      BY <1>a, <2>1, <3>1 DEF RunInv, RunIsComplete
    <3>5. RunWasAimedAt(r)'
      BY <1>a, <2>1, <3>1 DEF RunInv, RunWasAimedAt, SomeCancelToSet, Listening
    <3>6. QED
      BY <3>2, <3>3, <3>4, <3>5 DEF RunInv
  <2>4. QED
    BY <2>1, <2>3, BodyStep
<1>7. CASE Report(r)
  <2> DEFINE j == [run[r] EXCEPT !.pc = "ending",
                                   !.cancelled = IF flag THEN "yes" ELSE "no"]
  <2>1. j \in Run /\ j.pc \in Recorded /\ run[r].pc \in Recorded /\ Becomes(r, j)
        /\ UNCHANGED <<lock, inFlight, flag, cancel>>
    BY <1>7, <1>a DEF Report, Run, Recorded
  <2>2. run'[r] = j /\ lock = r
    BY <1>a, <2>1, OnlyOwnState DEF RunInv, RunIsAlone, Holding
  <2>3. RunInv(r)'
    BY <1>7, <1>a, <2>1, <2>2 DEF Report, RunInv, RunIsAlone, RunStopsInTime,
       RunIsComplete, RunWasAimedAt, SomeCancelToSet, Listening, Holding, Recorded, Run
  <2>4. QED
    BY <2>1, <2>3, BodyStep
<1>8. CASE StreamCloses(r)
  <2> DEFINE j == [run[r] EXCEPT !.pc = "ending"]
  <2>1. j \in Run /\ j.pc \in Recorded /\ run[r].pc \in Recorded /\ Becomes(r, j)
        /\ UNCHANGED <<lock, inFlight, flag, cancel>>
    BY <1>8, <1>a DEF StreamCloses, Run, Recorded
  <2>2. run'[r] = j /\ lock = r
    BY <1>a, <2>1, OnlyOwnState DEF RunInv, RunIsAlone, Holding
  <2>3. RunInv(r)'
    BY <1>8, <1>a, <2>1, <2>2 DEF StreamCloses, RunInv, RunIsAlone, RunStopsInTime,
       RunIsComplete, RunWasAimedAt, SomeCancelToSet, Listening, Holding, Recorded, Run
  <2>4. QED
    BY <2>1, <2>3, BodyStep
<1>9. CASE StreamNeverBegins(r)
  <2> DEFINE j == [run[r] EXCEPT !.pc = "lost"]
  <2>1. j \in Run /\ j.pc \in Recorded /\ run[r].pc \in Recorded /\ Becomes(r, j)
        /\ UNCHANGED <<lock, inFlight, flag, cancel>>
    BY <1>9, <1>a DEF StreamNeverBegins, Run, Recorded
  <2>2. run'[r] = j /\ lock = r
    BY <1>a, <2>1, OnlyOwnState DEF RunInv, RunIsAlone, Holding
  <2>3. RunInv(r)'
    BY <1>9, <1>a, <2>1, <2>2 DEF StreamNeverBegins, RunInv, RunIsAlone, RunStopsInTime,
       RunIsComplete, RunWasAimedAt, SomeCancelToSet, Listening, Holding, Recorded, Run
  <2>4. QED
    BY <2>1, <2>3, BodyStep
<1>10. QED
  BY <1>1, <1>2, <1>3, <1>4, <1>5, <1>6, <1>7, <1>8, <1>9

\* _end_run: forget, then clear and release.
LEMMA EndKeeps ==
  ASSUME ComparisonInv, NEW r \in Runs, Forget(r) \/ Release(r)
  PROVE  ComparisonInv'
<1>a. TypeOK /\ RunInv(r) /\ run[r] \in Run /\ RecordIsHeld
  BY DEF ComparisonInv, TypeOK
<1>1. CASE Forget(r)
  <2> DEFINE j == [run[r] EXCEPT !.pc = "forgotten"]
  <2>1. j \in Run /\ Becomes(r, j) /\ lock = r
    BY <1>1, <1>a DEF Forget, Run, RunInv, RunIsAlone, Holding, Recorded
  <2>2. /\ run' \in [Runs -> Run] /\ run'[r] = j
        /\ \A q \in Runs : q # r => run'[q] = run[q] /\ RunInv(q)'
    BY <2>1, OwnStep
  <2>3. RunInv(r)'
    BY <1>1, <1>a, <2>1, <2>2 DEF Forget, RunInv, RunIsAlone, RunStopsInTime,
       RunIsComplete, RunWasAimedAt, SomeCancelToSet, Listening, Run
  <2>4. TypeOK' /\ RecordIsHeld'
    BY <1>1, <1>a, <2>2 DEF Forget, TypeOK, RecordIsHeld
  <2>5. QED
    BY <2>2, <2>3, <2>4 DEF ComparisonInv
<1>2. CASE Release(r)
  <2> DEFINE j == [run[r] EXCEPT !.pc = "ended"]
  <2>1. j \in Run /\ Becomes(r, j) /\ lock = r
    BY <1>2, <1>a DEF Release, Run, RunInv, RunIsAlone, Holding
  <2>2. /\ run' \in [Runs -> Run] /\ run'[r] = j
        /\ \A q \in Runs : q # r => run'[q] = run[q] /\ RunInv(q)'
    BY <2>1, OwnStep
  <2>3. RunInv(r)'
    BY <1>2, <1>a, <2>1, <2>2 DEF Release, RunInv, RunIsAlone, RunStopsInTime,
       RunIsComplete, RunWasAimedAt, Listening, Holding, Recorded, Run
  <2>4. TypeOK'
    BY <1>2, <1>a, <2>2 DEF Release, TypeOK
  <2>5. inFlight # NoRun => inFlight \in Runs \ {r}
    BY <1>2, <1>a DEF Release, TypeOK, RecordIsHeld, Recorded
  <2>6. \A q \in Runs \ {r} : run[q].pc \notin Holding
    BY <2>1, OneHolds
  <2>7. RecordIsHeld'
    BY <1>2, <1>a, <2>5, <2>6 DEF Release, RecordIsHeld, Holding
  <2>8. QED
    BY <2>2, <2>3, <2>4, <2>7 DEF ComparisonInv
<1>3. QED
  BY <1>1, <1>2

\* A request that is turned away, and the thread's next request.
LEMMA OutsideKeeps ==
  ASSUME ComparisonInv, NEW r \in Runs, Refused(r) \/ NextRun(r)
  PROVE  ComparisonInv'
<1>a. TypeOK /\ RunInv(r) /\ run[r] \in Run /\ RecordIsHeld
  BY DEF ComparisonInv, TypeOK
<1>b. UNCHANGED <<lock, inFlight, flag, cancel>> /\ run[r].pc \in {"idle", "ended", "refused"}
  BY DEF Refused, NextRun
<1>1. PICK j \in Run : Becomes(r, j) /\ (j = NewRun \/ j = [run[r] EXCEPT !.pc = "refused"])
  <2>1. NewRun \in Run
    BY DEF NewRun, Run
  <2>2. [run[r] EXCEPT !.pc = "refused"] \in Run
    BY <1>a DEF Run
  <2>3. QED
    BY <2>1, <2>2 DEF Refused, NextRun
<1>2. /\ run' \in [Runs -> Run] /\ run'[r] = j
      /\ \A q \in Runs : q # r => run'[q] = run[q]
  BY <1>a, <1>1, OnlyOwnState
<1>3. ASSUME NEW q \in Runs, q # r PROVE RunInv(q)'
  <2>1. RunInv(q) /\ run'[q] = run[q]
    BY <1>2, <1>3 DEF ComparisonInv
  <2>2. QED
    BY <2>1, <1>b DEF RunInv, RunIsAlone, RunStopsInTime, RunIsComplete, RunWasAimedAt,
       SomeCancelToSet
<1>4. RunInv(r)'
  <2>1. CASE j = NewRun
    BY <2>1, <1>2 DEF NewRun, RunInv, RunIsAlone, RunStopsInTime, RunIsComplete,
       RunWasAimedAt, Holding, Recorded, Listening
  <2>2. CASE j = [run[r] EXCEPT !.pc = "refused"] /\ Refused(r)
    BY <2>2, <1>a, <1>2 DEF Refused, RunInv, RunIsAlone, RunStopsInTime, RunIsComplete,
       RunWasAimedAt, Holding, Recorded, Listening, Run
  <2>3. CASE NextRun(r)
    <3>1. run'[r] = NewRun
      BY <2>3, <1>a DEF NextRun, Becomes, TypeOK
    <3>2. QED
      BY <3>1, <1>2, <2>1
  <2>4. QED
    BY <1>1, <2>1, <2>2, <2>3
<1>5. TypeOK' /\ RecordIsHeld'
  BY <1>a, <1>b, <1>2 DEF TypeOK, RecordIsHeld, Recorded
<1>6. QED
  BY <1>3, <1>4, <1>5, <1>2 DEF ComparisonInv

-----------------------------------------------------------------------------
(* Cancels *)

\* A cancel reads the run in flight, and marks it.
LEMMA CancelReadsKeeps ==
  ASSUME ComparisonInv, NEW c \in Cancels, CancelReads(c)
  PROVE  ComparisonInv'
<1>a. TypeOK /\ RecordIsHeld /\ inFlight \in Runs /\ UNCHANGED <<lock, inFlight, flag>>
  BY DEF ComparisonInv, TypeOK, CancelReads
<1> DEFINE r == inFlight
           j == [run[r] EXCEPT !.aimed = TRUE]
<1>1. run[r] \in Run /\ RunInv(r) /\ run[r].pc \in Recorded /\ j \in Run
  BY <1>a DEF ComparisonInv, TypeOK, RecordIsHeld, CancelReads, Run
<1>2. Becomes(r, j) /\ lock = r
  BY <1>1 DEF CancelReads, Becomes, RunInv, RunIsAlone, Holding
<1>3. /\ run' \in [Runs -> Run] /\ run'[r] = j
      /\ \A q \in Runs : q # r => run'[q] = run[q] /\ RunInv(q)'
  BY <1>a, <1>1, <1>2, OwnStep
<1>4. RunInv(r)'
  <2>1. /\ run'[r].pc = run[r].pc /\ run'[r].mode = run[r].mode
        /\ run'[r].working = run[r].working /\ run'[r].answered = run[r].answered
        /\ run'[r].late = run[r].late /\ run'[r].aimed
        /\ run'[r].cancelled = run[r].cancelled
    BY <1>1, <1>3 DEF Run
  <2>2. RunIsAlone(r)' /\ RunStopsInTime(r)' /\ RunIsComplete(r)'
    BY <1>a, <1>1, <2>1 DEF RunInv, RunIsAlone, RunStopsInTime, RunIsComplete
  <2>3. RunWasAimedAt(r)'
    BY <1>a, <2>1 DEF RunWasAimedAt
  <2>4. QED
    BY <1>a, <2>2, <2>3 DEF RunInv
<1>5. cancel' \in [Cancels -> Cancel]
  <2>1. [pc |-> "read", left |-> Killable] \in Cancel
    BY EnginesAssumption DEF Cancel, Names
  <2>2. QED
    BY <1>a, <2>1 DEF CancelReads, TypeOK
<1>6. TypeOK' /\ RecordIsHeld'
  BY <1>a, <1>1, <1>3, <1>5 DEF TypeOK, RecordIsHeld, Run
<1>7. QED
  BY <1>a, <1>3, <1>4, <1>6 DEF ComparisonInv

\* The flag goes up: the runs that hear it were meant.
LEMMA CancelSetsKeeps ==
  ASSUME ComparisonInv, NEW c \in Cancels, CancelSets(c)
  PROVE  ComparisonInv'
<1>a. TypeOK /\ RecordIsHeld /\ UNCHANGED <<lock, inFlight, run>> /\ flag' = TRUE
  BY DEF ComparisonInv, CancelSets
<1>1. SomeCancelToSet
  BY DEF CancelSets, SomeCancelToSet
<1>2. ASSUME NEW r \in Runs PROVE RunInv(r)'
  <2>1. RunInv(r)
    BY DEF ComparisonInv
  <2>2. RunIsAlone(r)' /\ RunStopsInTime(r)' /\ RunIsComplete(r)'
    BY <1>a, <2>1 DEF RunInv, RunIsAlone, RunStopsInTime, RunIsComplete
  <2>3. RunWasAimedAt(r)'
    BY <1>a, <1>1, <2>1 DEF RunInv, RunWasAimedAt
  <2>4. QED
    BY <2>2, <2>3 DEF RunInv
<1>3. TypeOK' /\ RecordIsHeld'
  BY <1>a DEF CancelSets, TypeOK, Cancel, RecordIsHeld
<1>4. QED
  BY <1>2, <1>3 DEF ComparisonInv

\* An engine is stopped at its work, whoever it works for.
LEMMA CancelAbortsKeeps ==
  ASSUME ComparisonInv, NEW c \in Cancels, NEW e \in Names, CancelAborts(c, e)
  PROVE  ComparisonInv'
<1>a. /\ TypeOK /\ RecordIsHeld /\ UNCHANGED <<lock, inFlight, flag>>
      /\ run' \in {run, Stopped(e)}
      /\ cancel[c].pc = "abort"
      /\ cancel' = [cancel EXCEPT ![c].left = @ \ {e}]
  BY DEF ComparisonInv, CancelAborts
<1>b. cancel' \in [Cancels -> Cancel] /\ \A d \in Cancels : cancel'[d].pc = cancel[d].pc
  <2> DEFINE k == [cancel[c] EXCEPT !.left = @ \ {e}]
  <2>1. cancel[c] \in Cancel /\ cancel[c].left \ {e} \in SUBSET Names
    BY <1>a DEF TypeOK, Cancel
  <2>2. k \in Cancel /\ k.pc = cancel[c].pc
    BY <2>1 DEF Cancel
  <2>3. cancel' = [cancel EXCEPT ![c] = k]
    BY <1>a
  <2>4. QED
    BY <1>a, <2>2, <2>3 DEF TypeOK
<1>c. SomeCancelToSet' => SomeCancelToSet
  BY <1>b DEF SomeCancelToSet
<1>1. ASSUME NEW r \in Runs
      PROVE  RunInv(r)' /\ run'[r] \in Run /\ run'[r].pc = run[r].pc
  <2>1. RunInv(r) /\ run[r] \in Run
    BY DEF ComparisonInv, TypeOK
  <2> DEFINE j == [run[r] EXCEPT !.working = @ \ {e}, !.answered = @ \cup {e}]
  <2>2. run'[r] = run[r] \/ (e \in run[r].working /\ run'[r] = j)
    BY <1>a DEF Stopped
  <2>3. CASE run'[r] = run[r]
    BY <2>1, <2>3, <1>a, <1>c DEF RunInv, RunIsAlone, RunStopsInTime, RunIsComplete,
       RunWasAimedAt
  <2>4. CASE e \in run[r].working /\ run'[r] = j
    <3>1. RunInv(r)'
      BY <2>1, <2>4, <1>a, <1>c, LegAnswers
    <3>2. run[r].working \ {e} \in SUBSET Names /\ run[r].answered \cup {e} \in SUBSET Names
      BY <2>1 DEF Run
    <3>3. QED
      BY <2>1, <2>4, <3>1, <3>2 DEF Run
  <2>5. QED
    BY <2>2, <2>3, <2>4
<1>2. run' \in [Runs -> Run]
  <2>1. run' = [r \in Runs |-> run'[r]]
    BY <1>a DEF TypeOK, Stopped
  <2>2. QED
    BY <1>1, <2>1
<1>3. TypeOK' /\ RecordIsHeld'
  BY <1>a, <1>b, <1>1, <1>2 DEF TypeOK, RecordIsHeld
<1>4. QED
  BY <1>1, <1>3 DEF ComparisonInv

\* A cancel's response changes no run.
LEMMA CancelReturnsKeeps ==
  ASSUME ComparisonInv, NEW c \in Cancels, CancelReturns(c)
  PROVE  ComparisonInv'
<1>a. TypeOK /\ RecordIsHeld /\ UNCHANGED <<lock, inFlight, flag, run>>
  BY DEF ComparisonInv, CancelReturns
<1>1. cancel' \in [Cancels -> Cancel] /\ (SomeCancelToSet' => SomeCancelToSet)
  BY <1>a DEF CancelReturns, TypeOK, Cancel, NewCancel, SomeCancelToSet
<1>2. ASSUME NEW r \in Runs PROVE RunInv(r)'
  <2>1. RunInv(r)
    BY DEF ComparisonInv
  <2>2. QED
    BY <2>1, <1>a, <1>1 DEF RunInv, RunIsAlone, RunStopsInTime, RunIsComplete, RunWasAimedAt
<1>3. QED
  BY <1>a, <1>1, <1>2 DEF ComparisonInv, TypeOK, RecordIsHeld

-----------------------------------------------------------------------------
(* The invariant *)

\* A backend that has just started has no run and no cancel.
LEMMA InitInv == Init => ComparisonInv
<1> SUFFICES ASSUME Init PROVE ComparisonInv
  OBVIOUS
<1>1. NewRun \in Run /\ NewCancel \in Cancel
  BY DEF NewRun, Run, NewCancel, Cancel
<1>2. TypeOK /\ RecordIsHeld
  BY <1>1 DEF Init, TypeOK, RecordIsHeld
<1>3. ASSUME NEW r \in Runs PROVE RunInv(r)
  BY <1>3 DEF Init, NewRun, RunInv, RunIsAlone, RunStopsInTime, RunIsComplete,
     RunWasAimedAt, Holding, Recorded, Listening
<1>4. QED
  BY <1>2, <1>3 DEF ComparisonInv

\* Nothing happens to the comparison.
LEMMA StutterKeeps ==
  ASSUME ComparisonInv, UNCHANGED vars
  PROVE  ComparisonInv'
<1>1. UNCHANGED <<lock, inFlight, flag, run, cancel>>
  BY DEF vars
<1>2. ASSUME NEW r \in Runs PROVE RunInv(r)'
  <2>1. RunInv(r)
    BY DEF ComparisonInv
  <2>2. QED
    BY <2>1, <1>1 DEF RunInv, RunIsAlone, RunStopsInTime, RunIsComplete, RunWasAimedAt,
       SomeCancelToSet
<1>3. QED
  BY <1>1, <1>2 DEF ComparisonInv, TypeOK, RecordIsHeld

\* Every step keeps the invariant.
LEMMA InvStep == ComparisonInv /\ [Next]_vars => ComparisonInv'
<1> SUFFICES ASSUME ComparisonInv, [Next]_vars PROVE ComparisonInv'
  OBVIOUS
<1>1. CASE UNCHANGED vars
  BY <1>1, StutterKeeps
<1>2. ASSUME NEW r \in Runs,
             \/ \E m \in Modes : Acquire(r, m)
             \/ Refused(r) \/ Progress(r) \/ ClientGone(r) \/ NextRun(r)
      PROVE  ComparisonInv'
  BY <1>2, BeginKeeps, BodyKeeps, EndKeeps, OutsideKeeps DEF Progress, ClientGone
<1>3. ASSUME NEW c \in Cancels, Cancelling(c) PROVE ComparisonInv'
  BY <1>3, CancelReadsKeeps, CancelSetsKeeps, CancelAbortsKeeps, CancelReturnsKeeps
     DEF Cancelling
<1>4. QED
  BY <1>1, <1>2, <1>3 DEF Next

\* The lock, the flag and the record of the run agree at every moment, for any
\* number of runs, cancels and engines: no engine works for two runs, what is in
\* flight holds the lock, and a cancelled run starts at most one more path.
THEOREM ComparisonIsSound == Spec => []ComparisonSound
<1>1. ComparisonInv => ComparisonSound
  <2> SUFFICES ASSUME ComparisonInv PROVE ComparisonSound
    OBVIOUS
  <2>1. TypeOK /\ RecordIsHeld /\ \A r \in Runs : RunInv(r)
    BY DEF ComparisonInv
  <2>2. ASSUME NEW r \in Runs, NEW q \in Runs, run[r].working # {}, run[q].working # {}
        PROVE  r = q
    BY <2>1, <2>2 DEF RunInv, RunIsAlone, Holding, Recorded
  <2>3. inFlight # NoRun => lock = inFlight
    BY <2>1 DEF TypeOK, RecordIsHeld, RunInv, RunIsAlone, Holding
  <2>4. AtMostOneLateLeg
    BY <2>1 DEF AtMostOneLateLeg, RunInv, RunStopsInTime
  <2>5. QED
    BY <2>1, <2>2, <2>3, <2>4 DEF ComparisonSound, OneAtATime
<1>2. QED
  BY <1>1, InitInv, InvStep, PTL DEF Spec

\* The word "cancelled" of a response can be relied on in both directions, for any
\* number of runs, cancels and engines: without it no path is missing, and with it
\* a cancel met the run.
THEOREM CancelledIsTrue == Spec => []CancelledMeansCancelled
<1>1. ComparisonInv => CancelledMeansCancelled
  BY DEF ComparisonInv, RunInv, RunIsComplete, RunWasAimedAt, CancelledMeansCancelled,
     MissingPathsAreExplained, CancelsMetTheirRun
<1>2. QED
  BY <1>1, InitInv, InvStep, PTL DEF Spec

=============================================================================
