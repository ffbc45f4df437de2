------------------------------ MODULE JobQueue ------------------------------
(***************************************************************************)
(* The runtime job queue: the table runtime_jobs and the five statements   *)
(* of RuntimeService that touch it, with the workers that call them.       *)
(*                                                                         *)
(* A worker is one process that claims jobs: execd (which resets running   *)
(* jobs when it starts) or an agent behind the HTTP job endpoints (which   *)
(* never resets).  What a worker holds is its own memory: the table only   *)
(* records that a job is running, and neither CompleteJob nor FailJob      *)
(* looks at the status or the owner of the row it updates.                 *)
(***************************************************************************)
EXTENDS Naturals, FiniteSets

CONSTANTS
    Jobs,         \* job ids
    Workers,      \* processes that claim jobs
    PriorityOf,   \* the priority column, fixed when the job is inserted
    DedupeOf,     \* the dedupe_key column, NoKey when null
    NoKey,
    ClaimLimit,   \* the limit of ClaimJobs
    MaxAttempts,  \* the max_attempts column
    Modes,        \* the deployments considered, see Start
    MaxCrashes,   \* bound on worker crashes
    ReportsFail   \* may the statement of a report fail?

\* How the workers of a queue are deployed: one execd at a time, execd with an
\* overlap (a rolling update), any number of agents behind the HTTP API.
StartupModes == {"reset_alone", "reset_overlapping", "no_reset"}

ASSUME PriorityAssumption == PriorityOf \in [Jobs -> Nat]
ASSUME LimitAssumption == ClaimLimit \in Nat \ {0}
ASSUME AttemptsAssumption == MaxAttempts \in Nat \ {0}
ASSUME FaultAssumption == MaxCrashes \in Nat /\ ReportsFail \in BOOLEAN
ASSUME ModesAssumption == Modes \subseteq StartupModes

VARIABLES
    startup,  \* the deployment: chosen at first and kept
    jobs,     \* the table: job id -> row
    held,     \* worker memory: the claimed jobs it has not reported yet
    up,       \* is the worker process running its loop?
    crashes,  \* how many worker crashes have happened
    forgotten \* history: jobs let go without a report and not reset since

vars == <<startup, jobs, held, up, crashes, forgotten>>

Statuses == {"absent", "pending", "running", "completed", "failed"}
Live     == {"pending", "running"}
Finished == {"completed", "failed"}

\* due abstracts run_at <= now().
Rows == [status : Statuses, attempts : Nat, due : BOOLEAN]

TypeOK ==
    /\ startup \in Modes
    /\ jobs \in [Jobs -> Rows]
    /\ held \in [Workers -> SUBSET Jobs]
    /\ up \in [Workers -> BOOLEAN]
    /\ crashes \in 0 .. MaxCrashes
    /\ forgotten \subseteq Jobs

NoRow == [status |-> "absent", attempts |-> 0, due |-> FALSE]

Init ==
    /\ startup \in Modes
    /\ jobs = [j \in Jobs |-> NoRow]
    /\ held = [w \in Workers |-> {}]
    /\ up = [w \in Workers |-> FALSE]
    /\ crashes = 0
    /\ forgotten = {}

-----------------------------------------------------------------------------
(* The table. *)

InStatus(S) == {j \in Jobs : jobs[j].status \in S}

\* Mutant: an index over pending rows only.
DedupeAgainstPending(j) ==
    DedupeOf[j] = NoKey \/ \A k \in InStatus({"pending"}) \ {j} : DedupeOf[k] # DedupeOf[j]

\* The partial unique index runtime_jobs_dedupe_idx lets j be live.
DedupeAllows(j) ==
    DedupeOf[j] = NoKey \/ \A k \in InStatus(Live) \ {j} : DedupeOf[k] # DedupeOf[j]

\* Mutant: a claim that does not look at the status, as without FOR UPDATE
\* SKIP LOCKED, where the row is another claim's by the time it is updated.
DueUnlocked == {j \in InStatus(Live) : jobs[j].due}

\* A claim takes pending due rows, the highest priorities first; rows of
\* equal priority are ordered by run_at, which callers stamp from their own
\* clocks, so any order among them is possible.
Due == {j \in InStatus({"pending"}) : jobs[j].due}

Claimable(S) ==
    /\ S \subseteq Due
    /\ Cardinality(S) <= ClaimLimit
    /\ \A j \in S, k \in Due \ S : PriorityOf[j] >= PriorityOf[k]

\* Mutants: a status nobody reads; one attempt too many; attempts not counted.
RetryingRow(row, delayed) == [row EXCEPT !.status = "retrying"]
GenerousRow(row, delayed) ==
    [row EXCEPT !.status = IF row.attempts >= MaxAttempts THEN "failed" ELSE "pending",
                !.attempts = @ + 1]
TirelessRow(row, delayed) == [row EXCEPT !.status = "pending"]

\* What FailJob makes of a row.
FailedRow(row, delayed) ==
    IF row.attempts + 1 >= MaxAttempts
    THEN [row EXCEPT !.status = "failed", !.attempts = @ + 1]
    ELSE [status |-> "pending", attempts |-> row.attempts + 1, due |-> ~delayed]

-----------------------------------------------------------------------------
(* The operations. *)

\* EnqueueJob.  A run_at in the future makes the row pending but not yet due.
Enqueue(j, delayed) ==
    /\ jobs[j].status = "absent"
    /\ DedupeAllows(j)
    /\ jobs' = [jobs EXCEPT ![j] = [status |-> "pending", attempts |-> 0, due |-> ~delayed]]
    /\ UNCHANGED <<startup, held, up, crashes, forgotten>>

\* run_at passes.
BecomeDue(j) ==
    /\ jobs[j].status = "pending"
    /\ ~jobs[j].due
    /\ jobs' = [jobs EXCEPT ![j].due = TRUE]
    /\ UNCHANGED <<startup, held, up, crashes, forgotten>>

\* Mutants: the reset does nothing; it also revives failed jobs.
ResetNothing == jobs
ResetFailedToo ==
    [j \in Jobs |-> IF jobs[j].status \in {"running", "failed"}
                    THEN [jobs[j] EXCEPT !.status = "pending"] ELSE jobs[j]]

\* ResetRunningJobs: every running row of the queue, whoever holds it.
ResetRunning ==
    [j \in Jobs |-> IF jobs[j].status = "running"
                    THEN [jobs[j] EXCEPT !.status = "pending"] ELSE jobs[j]]

\* What the deployment ensures: nothing in execd looks for another execd.
MayStart(w) == ~up[w] /\ (startup = "reset_alone" => \A v \in Workers : ~up[v])

\* A worker process starts.  execd first resets its queue, whoever else is
\* running; an agent resets nothing.
Start(w) ==
    /\ MayStart(w)
    /\ up' = [up EXCEPT ![w] = TRUE]
    /\ jobs' = IF startup = "no_reset" THEN jobs ELSE ResetRunning
    /\ forgotten' = IF startup = "no_reset" THEN forgotten ELSE {}
    /\ UNCHANGED <<startup, held, crashes>>

\* ClaimJobs: one statement, FOR UPDATE SKIP LOCKED.  A loop claims again
\* only when it has reported the batch it holds.
Claim(w, S) ==
    /\ up[w]
    /\ held[w] = {}
    /\ S # {}
    /\ Claimable(S)
    /\ jobs' = [j \in Jobs |-> IF j \in S THEN [jobs[j] EXCEPT !.status = "running"]
                                          ELSE jobs[j]]
    /\ held' = [held EXCEPT ![w] = S]
    /\ UNCHANGED <<startup, up, crashes, forgotten>>

LetGo(w, j) == j \in held[w] /\ held' = [held EXCEPT ![w] = @ \ {j}]

\* CompleteJob by the worker that holds j.
Complete(w, j) ==
    /\ LetGo(w, j)
    /\ jobs' = [jobs EXCEPT ![j].status = "completed"]
    /\ UNCHANGED <<startup, up, crashes, forgotten>>

\* The unique index may reject the return of a failed row to pending.
Rejected(j) == jobs[j].attempts + 1 < MaxAttempts /\ ~DedupeAllows(j)

\* FailJob by the worker that holds j.
Fail(w, j, delayed) ==
    /\ LetGo(w, j)
    /\ ~Rejected(j)
    /\ jobs' = [jobs EXCEPT ![j] = FailedRow(@, delayed)]
    /\ UNCHANGED <<startup, up, crashes, forgotten>>

\* The statement of the report fails, and the worker drops the error.
LoseReport(w, j) ==
    /\ LetGo(w, j)
    /\ ReportsFail \/ Rejected(j)
    /\ forgotten' = forgotten \cup {j}
    /\ UNCHANGED <<startup, jobs, up, crashes>>

\* The process dies, in its loop or while it starts: what it held is
\* forgotten, the table keeps its rows.
Crash(w) ==
    /\ crashes < MaxCrashes
    /\ crashes' = crashes + 1
    /\ up' = [up EXCEPT ![w] = FALSE]
    /\ held' = [held EXCEPT ![w] = {}]
    /\ forgotten' = forgotten \cup held[w]
    /\ UNCHANGED <<startup, jobs>>

Report(w) ==
    \E j \in held[w] :
        Complete(w, j) \/ LoseReport(w, j) \/ \E delayed \in BOOLEAN : Fail(w, j, delayed)

ClaimSome(w) == \E S \in SUBSET Jobs : Claim(w, S)

Next ==
    \/ \E j \in Jobs, delayed \in BOOLEAN : Enqueue(j, delayed)
    \/ \E j \in Jobs : BecomeDue(j)
    \/ \E w \in Workers : Start(w) \/ ClaimSome(w) \/ Report(w) \/ Crash(w)

Spec == Init /\ [][Next]_vars

\* A supervisor restarts a dead worker, a running worker polls every half
\* second and reports each job it has handled, and time passes.
Fairness ==
    /\ \A j \in Jobs : WF_vars(BecomeDue(j))
    /\ \A w \in Workers : WF_vars(Start(w)) /\ WF_vars(ClaimSome(w)) /\ WF_vars(Report(w))

FairSpec == Spec /\ Fairness

-----------------------------------------------------------------------------
(* Properties. *)

\* A claimed job is in the hands of one worker only, and the table says so:
\* nobody is working on a job that the table offers to somebody else, however
\* the claims of several agents interleave.  Only an execd that starts beside
\* another breaks this, for its reset asks nobody.
ExclusiveClaims ==
    startup # "reset_overlapping" =>
        /\ \A v, w \in Workers : v # w => held[v] \cap held[w] = {}
        /\ \A w \in Workers : held[w] \subseteq InStatus({"running"})

\* When execd starts alone, its startup reset leaves no job behind: every
\* running job is in the hands of the execd that is up, or is one whose report
\* it lost itself.
NoStrandedJob ==
    startup = "reset_alone" =>
        \A w \in Workers : up[w] => InStatus({"running"}) \subseteq held[w] \cup forgotten

\* The same without the excuse: while an execd that started alone is up, the
\* table calls nothing running but what that execd holds, so its reset has
\* taken back every job that its predecessors left running.
OnlyHeldJobsRun ==
    startup = "reset_alone" =>
        \A w \in Workers : up[w] => InStatus({"running"}) \subseteq held[w]

\* A job that has used up its attempts is never queued or handed out again,
\* even when a worker that lost its claim to a reset reports late.
LiveJobsHaveAttemptsLeft ==
    \A j \in InStatus(Live) : jobs[j].attempts < MaxAttempts

\* No two live jobs carry one dedupe key, through retries and resets too, and
\* through the late reports of workers that lost their claim to a reset.
OneLiveJobPerKey ==
    \A j, k \in InStatus(Live) : (j # k /\ DedupeOf[j] # NoKey) => DedupeOf[j] # DedupeOf[k]

\* A job that is over stays over, with the outcome it was given, unless an
\* execd that started beside another let two workers report it.
FinishedIsFinal ==
    [][startup # "reset_overlapping" => \A j \in InStatus(Finished) : jobs'[j] = jobs[j]]_vars

\* Every enqueued job is eventually completed or out of attempts, whatever
\* crashes and failures happen on the way.  Only a report that is lost while
\* the worker lives on leaves a job behind, until the next reset.
EveryJobFinishes ==
    \A j \in Jobs :
        jobs[j].status = "pending" ~> (jobs[j].status \in Finished \/ [](j \in forgotten))
=============================================================================
