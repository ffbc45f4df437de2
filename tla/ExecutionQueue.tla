--------------------------- MODULE ExecutionQueue ---------------------------
(***************************************************************************)
(* execd's handlers are one worker of the job queue: Execution implements  *)
(* JobQueue with the single worker execd, which resets the queue when it   *)
(* starts.  The queue's promises therefore hold for launches and stops,    *)
(* whatever the handlers do in between and wherever a crash interrupts.    *)
(***************************************************************************)
EXTENDS Execution

CONSTANTS
    execd,   \* the worker
    NoKey    \* execution jobs carry no dedupe key

\* What stands for an empty hand is not a job.
ASSUME HandAssumption == None \notin Jobs

LaunchPriority == 120
StopPriority   == 140

JobRow(j) ==
    [status |-> jobs[j].status, attempts |-> jobs[j].attempts,
     due |-> jobs[j].status # "absent"]

Queue == INSTANCE JobQueue WITH
    Workers     <- {execd},
    PriorityOf  <- [j \in Jobs |-> IF j \in StopJobs THEN StopPriority ELSE LaunchPriority],
    DedupeOf    <- [j \in Jobs |-> NoKey],
    ClaimLimit  <- 1,
    Modes       <- {"reset_alone"},
    startup     <- "reset_alone",
    ReportsFail <- MaxErrors > 0,
    jobs        <- [j \in Jobs |-> JobRow(j)],
    held        <- [w \in {execd} |-> {job} \ {None}],
    up          <- [w \in {execd} |-> pc \notin StartupSteps],
    forgotten   <- {j \in Jobs : jobs[j].status = "running"} \ {job}

\* Every step of execd and of the HTTP commands is one statement of the job
\* queue or leaves it alone; a handler never touches a job it does not hold.
ImplementsJobQueue == Queue!Spec

\* What the queue promises, in the words of Execution.  A launch or a stop
\* that has used up its attempts is not tried again.
LiveJobsHaveAttemptsLeft ==
    \A j \in Jobs : jobs[j].status \in {"pending", "running"} => jobs[j].attempts < MaxAttempts

\* No launch or stop is done again once it is completed or has failed.
OutcomesAreFinal ==
    [][\A j \in Jobs : jobs[j].status \in {"completed", "failed"} => jobs'[j] = jobs[j]]_vars

\* Once the loop runs, the only job that the table calls running is the one
\* in its hand: a crash at any statement leaves nothing behind for good.
OnlyTheHandRuns ==
    pc \notin StartupSteps => \A j \in Jobs : jobs[j].status = "running" => j = job
=============================================================================
