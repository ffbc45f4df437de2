--------------------------- MODULE JobQueueProofs ---------------------------
(***************************************************************************)
(* Proofs about JobQueue for every set of jobs and workers and every value *)
(* of the bounds.  Queue invariants that need no assumption on how workers *)
(* start come first; the claims are exclusive only where no two execd      *)
(* overlap.                                                                *)
(***************************************************************************)
EXTENDS JobQueue, TLAPS

USE DEF Statuses, Live, Finished, Rows, InStatus

-----------------------------------------------------------------------------
(* Type correctness. *)

LEMMA InitType == Init => TypeOK
  BY FaultAssumption DEF Init, TypeOK, NoRow

LEMMA FailedRowType ==
  ASSUME NEW row \in Rows, NEW delayed \in BOOLEAN
  PROVE  FailedRow(row, delayed) \in Rows
<1>1. row.attempts + 1 \in Nat /\ MaxAttempts \in Nat
  BY AttemptsAssumption
<1>2. CASE row.attempts + 1 >= MaxAttempts
  BY <1>1, <1>2 DEF FailedRow
<1>3. CASE ~(row.attempts + 1 >= MaxAttempts)
  BY <1>1, <1>3 DEF FailedRow
<1> QED BY <1>2, <1>3

LEMMA StepType == TypeOK /\ [Next]_vars => TypeOK'
<1> SUFFICES ASSUME TypeOK, [Next]_vars PROVE TypeOK'
  OBVIOUS
<1> USE FaultAssumption DEF TypeOK
<1>1. ASSUME NEW j \in Jobs, NEW delayed \in BOOLEAN, Enqueue(j, delayed)
      PROVE  TypeOK'
  BY <1>1 DEF Enqueue
<1>2. ASSUME NEW j \in Jobs, BecomeDue(j)
      PROVE  TypeOK'
  BY <1>2 DEF BecomeDue
<1>3. ASSUME NEW w \in Workers, Start(w)
      PROVE  TypeOK'
  BY <1>3 DEF Start, MayStart, ResetRunning
<1>4. ASSUME NEW w \in Workers, NEW S \in SUBSET Jobs, Claim(w, S)
      PROVE  TypeOK'
  BY <1>4 DEF Claim
<1>5. ASSUME NEW w \in Workers, NEW j \in held[w], Complete(w, j)
      PROVE  TypeOK'
  BY <1>5 DEF Complete, LetGo
<1>6. ASSUME NEW w \in Workers, NEW j \in held[w], NEW delayed \in BOOLEAN, Fail(w, j, delayed)
      PROVE  TypeOK'
  <2>1. j \in Jobs /\ FailedRow(jobs[j], delayed) \in Rows
    BY FailedRowType
  <2> QED BY <1>6, <2>1 DEF Fail, LetGo
<1>7. ASSUME NEW w \in Workers, NEW j \in held[w], LoseReport(w, j)
      PROVE  TypeOK'
  BY <1>7 DEF LoseReport, LetGo
<1>8. ASSUME NEW w \in Workers, Crash(w)
      PROVE  TypeOK'
  BY <1>8 DEF Crash
<1>9. CASE UNCHANGED vars
  BY <1>9 DEF vars
<1> QED
  BY <1>1, <1>2, <1>3, <1>4, <1>5, <1>6, <1>7, <1>8, <1>9 DEF Next, ClaimSome, Report

\* Every row of the table and every worker's memory keeps its type.
THEOREM TypeCorrect == Spec => []TypeOK
<1>1. Init => TypeOK BY InitType
<1>2. TypeOK /\ [Next]_vars => TypeOK' BY StepType
<1> QED BY <1>1, <1>2, PTL DEF Spec

-----------------------------------------------------------------------------
(* The table's own promises: they hold however workers start. *)

LEMMA StepAttempts ==
  TypeOK /\ LiveJobsHaveAttemptsLeft /\ [Next]_vars => LiveJobsHaveAttemptsLeft'
<1> SUFFICES ASSUME TypeOK, LiveJobsHaveAttemptsLeft, [Next]_vars
             PROVE  LiveJobsHaveAttemptsLeft'
  OBVIOUS
<1> USE AttemptsAssumption DEF LiveJobsHaveAttemptsLeft, TypeOK
<1>1. ASSUME NEW j \in Jobs, NEW delayed \in BOOLEAN, Enqueue(j, delayed)
      PROVE  LiveJobsHaveAttemptsLeft'
  BY <1>1 DEF Enqueue
<1>2. ASSUME NEW j \in Jobs, BecomeDue(j)
      PROVE  LiveJobsHaveAttemptsLeft'
  BY <1>2 DEF BecomeDue
<1>3. ASSUME NEW w \in Workers, Start(w)
      PROVE  LiveJobsHaveAttemptsLeft'
  BY <1>3 DEF Start, MayStart, ResetRunning
<1>4. ASSUME NEW w \in Workers, NEW S \in SUBSET Jobs, Claim(w, S)
      PROVE  LiveJobsHaveAttemptsLeft'
  BY <1>4 DEF Claim, Claimable, Due
<1>5. ASSUME NEW w \in Workers, NEW j \in held[w], Complete(w, j)
      PROVE  LiveJobsHaveAttemptsLeft'
  BY <1>5 DEF Complete
<1>6. ASSUME NEW w \in Workers, NEW j \in held[w], NEW delayed \in BOOLEAN, Fail(w, j, delayed)
      PROVE  LiveJobsHaveAttemptsLeft'
  \* A retried row has attempts left, whatever its status was.
  <2>1. j \in Jobs /\ jobs[j] \in Rows
    OBVIOUS
  <2>2. FailedRow(jobs[j], delayed).status \in Live =>
          FailedRow(jobs[j], delayed).attempts < MaxAttempts
    BY <2>1 DEF FailedRow
  <2> QED BY <1>6, <2>1, <2>2 DEF Fail
<1>7. ASSUME NEW w \in Workers, NEW j \in held[w], LoseReport(w, j)
      PROVE  LiveJobsHaveAttemptsLeft'
  BY <1>7 DEF LoseReport
<1>8. ASSUME NEW w \in Workers, Crash(w)
      PROVE  LiveJobsHaveAttemptsLeft'
  BY <1>8 DEF Crash
<1>9. CASE UNCHANGED vars
  BY <1>9 DEF vars
<1> QED
  BY <1>1, <1>2, <1>3, <1>4, <1>5, <1>6, <1>7, <1>8, <1>9 DEF Next, ClaimSome, Report

\* A job that has used up its attempts is never queued or handed out again.
THEOREM AttemptsBounded == Spec => []LiveJobsHaveAttemptsLeft
<1>1. Init => LiveJobsHaveAttemptsLeft
  BY DEF Init, NoRow, LiveJobsHaveAttemptsLeft
<1> QED BY <1>1, TypeCorrect, StepAttempts, PTL DEF Spec

LEMMA StepKeys == TypeOK /\ OneLiveJobPerKey /\ [Next]_vars => OneLiveJobPerKey'
<1> SUFFICES ASSUME TypeOK, OneLiveJobPerKey, [Next]_vars
             PROVE  OneLiveJobPerKey'
  OBVIOUS
<1> USE DEF OneLiveJobPerKey, TypeOK
<1>1. ASSUME NEW j \in Jobs, NEW delayed \in BOOLEAN, Enqueue(j, delayed)
      PROVE  OneLiveJobPerKey'
  BY <1>1 DEF Enqueue, DedupeAllows
<1>2. ASSUME NEW j \in Jobs, BecomeDue(j)
      PROVE  OneLiveJobPerKey'
  BY <1>2 DEF BecomeDue
<1>3. ASSUME NEW w \in Workers, Start(w)
      PROVE  OneLiveJobPerKey'
  BY <1>3 DEF Start, MayStart, ResetRunning
<1>4. ASSUME NEW w \in Workers, NEW S \in SUBSET Jobs, Claim(w, S)
      PROVE  OneLiveJobPerKey'
  BY <1>4 DEF Claim, Claimable, Due
<1>5. ASSUME NEW w \in Workers, NEW j \in held[w], Complete(w, j)
      PROVE  OneLiveJobPerKey'
  BY <1>5 DEF Complete
<1>6. ASSUME NEW w \in Workers, NEW j \in held[w], NEW delayed \in BOOLEAN, Fail(w, j, delayed)
      PROVE  OneLiveJobPerKey'
  \* The index lets the row return to pending, or the row is over.
  <2>1. j \in Jobs
    OBVIOUS
  <2>2. FailedRow(jobs[j], delayed).status \in Live => DedupeAllows(j)
    <3>1. CASE jobs[j].attempts + 1 < MaxAttempts
      BY <1>6, <3>1 DEF Fail, Rejected
    <3>2. CASE ~(jobs[j].attempts + 1 < MaxAttempts)
      <4>1. jobs[j].attempts + 1 >= MaxAttempts
        BY <2>1, <3>2, AttemptsAssumption
      <4> QED BY <2>1, <4>1 DEF FailedRow
    <3> QED BY <3>1, <3>2
  <2> QED BY <1>6, <2>1, <2>2 DEF Fail, DedupeAllows
<1>7. ASSUME NEW w \in Workers, NEW j \in held[w], LoseReport(w, j)
      PROVE  OneLiveJobPerKey'
  BY <1>7 DEF LoseReport
<1>8. ASSUME NEW w \in Workers, Crash(w)
      PROVE  OneLiveJobPerKey'
  BY <1>8 DEF Crash
<1>9. CASE UNCHANGED vars
  BY <1>9 DEF vars
<1> QED
  BY <1>1, <1>2, <1>3, <1>4, <1>5, <1>6, <1>7, <1>8, <1>9 DEF Next, ClaimSome, Report

\* No two live jobs carry one dedupe key, through retries, resets and late
\* reports.
THEOREM KeysUnique == Spec => []OneLiveJobPerKey
<1>1. Init => OneLiveJobPerKey
  BY DEF Init, NoRow, OneLiveJobPerKey
<1> QED BY <1>1, TypeCorrect, StepKeys, PTL DEF Spec
-----------------------------------------------------------------------------
(* Claims.  The inductive invariant adds what the code leaves implicit: a    *)
(* worker that is down holds nothing, and a startup alone means that at most *)
(* one worker is up.                                                         *)

DownHoldsNothing == \A w \in Workers : ~up[w] => held[w] = {}

OneIsUp == startup = "reset_alone" => \A v, w \in Workers : up[v] /\ up[w] => v = w

ClaimInv ==
    /\ TypeOK
    /\ DownHoldsNothing
    /\ OneIsUp
    /\ ExclusiveClaims
    /\ NoStrandedJob

LEMMA InitClaims == Init => ClaimInv
  BY InitType DEF Init, NoRow, ClaimInv, DownHoldsNothing, OneIsUp, ExclusiveClaims, NoStrandedJob

LEMMA StepClaims == ClaimInv /\ [Next]_vars => ClaimInv'
<1> SUFFICES ASSUME ClaimInv, [Next]_vars PROVE ClaimInv'
  OBVIOUS
<1>t. TypeOK /\ TypeOK'
  BY StepType DEF ClaimInv
<1> DEFINE Rest == /\ DownHoldsNothing'
                   /\ OneIsUp'
                   /\ ExclusiveClaims'
                   /\ NoStrandedJob'
<1>s. startup' = startup
  BY DEF Next, Enqueue, BecomeDue, Start, ClaimSome, Claim, Report, Complete, Fail, LoseReport,
         Crash, vars
<1> USE <1>t, <1>s DEF ClaimInv, DownHoldsNothing, OneIsUp, ExclusiveClaims, NoStrandedJob, TypeOK
<1>1. ASSUME NEW j \in Jobs, NEW delayed \in BOOLEAN, Enqueue(j, delayed)
      PROVE  Rest
  BY <1>1 DEF Enqueue
<1>2. ASSUME NEW j \in Jobs, BecomeDue(j)
      PROVE  Rest
  BY <1>2 DEF BecomeDue
<1>3. ASSUME NEW w \in Workers, Start(w)
      PROVE  Rest
  <2>1. DownHoldsNothing' /\ OneIsUp'
    BY <1>3 DEF Start, MayStart
  <2>2. CASE startup = "reset_alone"
    \* Everybody is down and holds nothing; the reset leaves nothing running.
    <3>1. \A v \in Workers : held'[v] = {}
      BY <1>3, <2>2 DEF Start, MayStart
    <3>2. InStatus({"running"})' = {}
      BY <1>3, <2>2 DEF Start, ResetRunning
    <3> QED BY <2>1, <3>1, <3>2
  <2>3. CASE startup = "no_reset"
    BY <1>3, <2>1, <2>3 DEF Start
  <2>4. CASE startup = "reset_overlapping"
    BY <2>1, <2>4
  <2> QED BY <2>2, <2>3, <2>4, ModesAssumption DEF StartupModes
<1>4. ASSUME NEW w \in Workers, NEW S \in SUBSET Jobs, Claim(w, S)
      PROVE  Rest
  <2>1. S \subseteq InStatus({"pending"})
    BY <1>4 DEF Claim, Claimable, Due
  <2>2. DownHoldsNothing' /\ OneIsUp'
    BY <1>4 DEF Claim
  <2>3. InStatus({"running"})' = InStatus({"running"}) \cup S
    BY <1>4 DEF Claim
  <2>4. ExclusiveClaims'
    BY <1>4, <2>1, <2>3 DEF Claim
  <2>5. NoStrandedJob'
    BY <1>4, <2>3 DEF Claim
  <2> QED BY <2>2, <2>4, <2>5
<1>5. ASSUME NEW w \in Workers, NEW j \in held[w], Complete(w, j)
      PROVE  Rest
  <2>1. InStatus({"running"})' = InStatus({"running"}) \ {j}
    BY <1>5 DEF Complete
  <2>2. DownHoldsNothing' /\ OneIsUp'
    BY <1>5 DEF Complete, LetGo
  <2> QED BY <1>5, <2>1, <2>2 DEF Complete, LetGo
<1>6. ASSUME NEW w \in Workers, NEW j \in held[w], NEW delayed \in BOOLEAN, Fail(w, j, delayed)
      PROVE  Rest
  <2>1. FailedRow(jobs[j], delayed).status \in {"pending", "failed"}
    BY DEF FailedRow
  <2>2. InStatus({"running"})' = InStatus({"running"}) \ {j}
    BY <1>6, <2>1 DEF Fail
  <2>3. DownHoldsNothing' /\ OneIsUp'
    BY <1>6 DEF Fail, LetGo
  <2> QED BY <1>6, <2>2, <2>3 DEF Fail, LetGo
<1>7. ASSUME NEW w \in Workers, NEW j \in held[w], LoseReport(w, j)
      PROVE  Rest
  BY <1>7 DEF LoseReport, LetGo
<1>8. ASSUME NEW w \in Workers, Crash(w)
      PROVE  Rest
  BY <1>8 DEF Crash
<1>9. CASE UNCHANGED vars
  BY <1>9 DEF vars
<1>10. Rest
  BY <1>1, <1>2, <1>3, <1>4, <1>5, <1>6, <1>7, <1>8, <1>9 DEF Next, ClaimSome, Report
<1> QED BY <1>t, <1>10 DEF ClaimInv

LEMMA ClaimsInvariant == Spec => []ClaimInv
<1> QED BY InitClaims, StepClaims, PTL DEF Spec

\* Where no two execd overlap, a claimed job is in one worker's hands and the
\* table says that it is running, however many agents claim.
THEOREM ClaimsExclusive == Spec => []ExclusiveClaims
<1>1. ClaimInv => ExclusiveClaims
  BY DEF ClaimInv
<1> QED BY <1>1, ClaimsInvariant, PTL

\* An execd that starts alone leaves no job behind.
THEOREM NothingStranded == Spec => []NoStrandedJob
<1>1. ClaimInv => NoStrandedJob
  BY DEF ClaimInv
<1> QED BY <1>1, ClaimsInvariant, PTL

LEMMA StepFinished ==
  ASSUME ClaimInv, startup # "reset_overlapping", [Next]_vars, NEW k \in InStatus(Finished)
  PROVE  jobs'[k] = jobs[k]
<1> USE DEF ClaimInv, TypeOK, ExclusiveClaims
<1>1. ASSUME NEW j \in Jobs, NEW delayed \in BOOLEAN, Enqueue(j, delayed)
      PROVE  jobs'[k] = jobs[k]
  BY <1>1 DEF Enqueue
<1>2. ASSUME NEW j \in Jobs, BecomeDue(j)
      PROVE  jobs'[k] = jobs[k]
  BY <1>2 DEF BecomeDue
<1>3. ASSUME NEW w \in Workers, Start(w)
      PROVE  jobs'[k] = jobs[k]
  BY <1>3 DEF Start, ResetRunning
<1>4. ASSUME NEW w \in Workers, NEW S \in SUBSET Jobs, Claim(w, S)
      PROVE  jobs'[k] = jobs[k]
  BY <1>4 DEF Claim, Claimable, Due
<1>5. ASSUME NEW w \in Workers, NEW j \in held[w], Report(w)
      PROVE  jobs'[k] = jobs[k]
  \* The table says running of every held job, so k is not one of them.
  <2>1. k \notin held[w]
    OBVIOUS
  <2> QED BY <1>5, <2>1 DEF Report, Complete, Fail, LoseReport
<1>6. ASSUME NEW w \in Workers, Crash(w)
      PROVE  jobs'[k] = jobs[k]
  BY <1>6 DEF Crash
<1>7. CASE UNCHANGED vars
  BY <1>7 DEF vars
<1> QED
  BY <1>1, <1>2, <1>3, <1>4, <1>5, <1>6, <1>7 DEF Next, ClaimSome, Report

\* A job that is over keeps its outcome where no two execd overlap.
THEOREM OutcomeFinal == Spec => FinishedIsFinal
<1>1. ClaimInv /\ [Next]_vars =>
        [startup # "reset_overlapping" => \A j \in InStatus(Finished) : jobs'[j] = jobs[j]]_vars
  BY StepFinished
<1> QED BY <1>1, ClaimsInvariant, PTL DEF Spec, FinishedIsFinal

\* The history forgets what a reset takes back; nothing else is forgotten
\* while an execd that started alone is up and its reports succeed.
NothingForgotten ==
    startup = "reset_alone" => \A w \in Workers : up[w] => forgotten = {}

LEMMA ResetForgetsNothing ==
  ASSUME ~ReportsFail, \A j \in Jobs : DedupeOf[j] = NoKey,
         ClaimInv, NothingForgotten, [Next]_vars
  PROVE  NothingForgotten'
<1> USE DEF NothingForgotten, ClaimInv, TypeOK
<1>1. ASSUME NEW w \in Workers, Crash(w) PROVE NothingForgotten'
  \* Nobody else is up, and a process that is down holds nothing.
  BY <1>1 DEF Crash, DownHoldsNothing, OneIsUp
<1>2. ASSUME NEW w \in Workers, NEW j \in held[w], LoseReport(w, j) PROVE NothingForgotten'
  BY <1>2 DEF LoseReport, LetGo, Rejected, DedupeAllows
<1>3. ASSUME NEW w \in Workers, Start(w) PROVE NothingForgotten'
  BY <1>3 DEF Start
<1>4. CASE \/ \E j \in Jobs, delayed \in BOOLEAN : Enqueue(j, delayed)
           \/ \E j \in Jobs : BecomeDue(j)
           \/ \E w \in Workers : ClaimSome(w)
           \/ \E w \in Workers : \E j \in held[w] :
                  Complete(w, j) \/ \E delayed \in BOOLEAN : Fail(w, j, delayed)
           \/ UNCHANGED vars
  BY <1>4 DEF Enqueue, BecomeDue, ClaimSome, Claim, Complete, Fail, vars
<1> QED BY <1>1, <1>2, <1>3, <1>4 DEF Next, Report

\* Where execd starts alone and the statements of its reports succeed, the
\* table calls running exactly what the execd that is up can name: whatever a
\* crash left running, in the loop or during a start, the reset took back, and
\* no later step lets a job go.  Jobs have no dedupe key, so that no report is
\* refused by the index.
THEOREM ResetTakesAllBack ==
  ASSUME ~ReportsFail, \A j \in Jobs : DedupeOf[j] = NoKey
  PROVE  Spec => []OnlyHeldJobsRun
<1>1. Init => NothingForgotten
  BY DEF Init, NothingForgotten
<1>2. ClaimInv /\ NothingForgotten /\ [Next]_vars => NothingForgotten'
  BY ResetForgetsNothing
<1>3. ClaimInv /\ NothingForgotten => OnlyHeldJobsRun
  BY DEF ClaimInv, NoStrandedJob, NothingForgotten, OnlyHeldJobsRun
<1> QED BY <1>1, <1>2, <1>3, ClaimsInvariant, PTL DEF Spec
=============================================================================
