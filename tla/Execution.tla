------------------------------ MODULE Execution ------------------------------
(***************************************************************************)
(* The execution subsystem of the kernel: execd's worker loop, the         *)
(* goroutine that waits for each launched process, the three HTTP commands *)
(* (launch, stop, activate) and the runtime tables they share.             *)
(*                                                                         *)
(* One action is one database statement or transaction, or one step on     *)
(* execd's memory or on a process: nothing in the code holds a lock across *)
(* two of them, so every interleaving of the actions can happen.           *)
(*                                                                         *)
(* Each launch attempt that starts a process is numbered; the number also  *)
(* stands for the loopback address reserved for that process.  Events and  *)
(* logs are append-only records that no step reads and are left out.       *)
(***************************************************************************)
EXTENDS Naturals, FiniteSets

CONSTANTS
    Execs,         \* execution ids
    Refs,          \* realization references
    RefOf,         \* the reference of each execution
    None,          \* no execution, no job
    Activators,    \* concurrent realizations.activate requests
    MaxLaunches,   \* bound on processes ever started
    MaxAttempts,   \* max_attempts of a job
    Strikes,       \* Budgets.ConsecutiveBreaches
    BudgetsSet,    \* is some execution budget configured?
    MaxCrashes,    \* bound on crashes of execd
    MaxErrors      \* bound on database statements of execd that fail

ASSUME RefAssumption == RefOf \in [Execs -> Refs]
ASSUME NoneAssumption == None \notin Execs
ASSUME BoundAssumption ==
    /\ MaxLaunches \in Nat /\ MaxAttempts \in Nat \ {0}
    /\ Strikes \in Nat \ {0} /\ MaxCrashes \in Nat /\ MaxErrors \in Nat
    /\ BudgetsSet \in BOOLEAN

Launches == 1 .. MaxLaunches
NoAddr   == 0                      \* a null upstream_addr
Addrs    == {NoAddr} \cup Launches
LaunchJobs == {"launch"} \X Execs
StopJobs   == {"stop"} \X Execs
Jobs       == LaunchJobs \cup StopJobs

VARIABLES
    (* runtime tables *)
    status,      \* runtime_realization_executions.status, "absent" before insert
    upstream,    \* runtime_realization_executions.upstream_addr
    activation,  \* runtime_realization_activation: reference -> execution
    bindings,    \* runtime_realization_route_bindings
    suspension,  \* the active row of runtime_realization_suspensions
    jobs,        \* the realization-execution queue of runtime_jobs
    (* memory of execd *)
    pc,          \* where the worker loop is
    job,         \* the job it handles
    target,      \* the execution it handles
    fresh,       \* the process started by the current handleLaunch
    todo,        \* the rest of the RunningProcesses snapshot
    processes,   \* LocalExecutor.processes: execution -> process
    breaches,    \* LocalWorker.breachCounts
    waiter,      \* where the goroutine waiting for each process is
    (* operating system *)
    owner,       \* the execution each process was started for
    alive,       \* is the process running?
    (* HTTP *)
    request,     \* realizations.activate requests
    (* history *)
    crashes,     \* crashes of execd so far: its current incarnation
    errors,      \* failed statements so far
    born,        \* the incarnation that started each process
    passed,      \* processes that passed their health check
    streak       \* over-budget samples of each execution since one within budget

tables  == <<status, upstream, activation, bindings, suspension, jobs>>
hand    == <<job, target, fresh, todo>>
local   == <<processes, breaches, waiter>>
memory  == <<pc, hand, local>>
system  == <<owner, alive>>
history == <<crashes, errors, born, passed, streak>>
vars    == <<tables, memory, system, request, history>>

ExecStatuses == {"absent", "launch_requested", "starting", "healthy",
                 "failed", "stopped", "terminated"}
JobStatuses == {"absent", "pending", "running", "completed", "failed"}
JobRows  == [status : JobStatuses, attempts : Nat]
Bindings == [exec : Execs, kind : {"preview", "stable"}, addr : Addrs]

StartupSteps == {"down", "reset_jobs"}
LaunchSteps == {"launch", "prepare", "record", "probe", "healthy", "auto",
                "auto_activate", "bind", "drop_stable", "bind_stable",
                "bind_preview", "clear", "kill_unhealthy", "unbind_unhealthy"}
StopSteps == {"stop", "stop_mark", "stop_check", "stop_deactivate",
              "stop_unpublish", "stop_unbind"}
BudgetSteps == {"kill", "mark", "suspend", "check", "deactivate", "unpublish", "unbind"}
JobSteps == LaunchSteps \cup StopSteps \cup {"complete", "fail"}
WorkerSteps == StartupSteps \cup JobSteps \cup {"idle", "sample", "sampling"} \cup BudgetSteps
WaiterSteps == {"none", "wait", "look", "mark", "unbind", "check", "deactivate",
                "unpublish", "suspend", "done", "lost"}
RequestSteps == {"new", "activate", "unpublish", "bind", "done"}

TablesOK ==
    /\ status \in [Execs -> ExecStatuses]
    /\ upstream \in [Execs -> Addrs]
    /\ activation \in [Refs -> Execs \cup {None}]
    /\ bindings \subseteq Bindings
    /\ suspension \in [Refs -> Execs \cup {None}]
    /\ jobs \in [Jobs -> JobRows]

LoopOK ==
    /\ pc \in WorkerSteps
    /\ job \in Jobs \cup {None}
    /\ target \in Execs \cup {None}
    /\ fresh \in Addrs
    /\ todo \subseteq Launches

LocalOK ==
    /\ processes \in [Execs -> Addrs]
    /\ breaches \in [Execs -> Nat]
    /\ waiter \in [Launches -> WaiterSteps]

SystemOK ==
    /\ owner \in [Launches -> Execs \cup {None}]
    /\ alive \in [Launches -> BOOLEAN]

RequestOK ==
    request \in [Activators -> [pc : RequestSteps, exec : Execs \cup {None}, addr : Addrs]]

HistoryOK ==
    /\ crashes \in 0 .. MaxCrashes
    /\ errors \in 0 .. MaxErrors
    /\ born \in [Launches -> 0 .. MaxCrashes]
    /\ passed \subseteq Launches
    /\ streak \in [Execs -> 0 .. Strikes]

TypeOK == TablesOK /\ LoopOK /\ LocalOK /\ SystemOK /\ RequestOK /\ HistoryOK

Init ==
    /\ status = [e \in Execs |-> "absent"]
    /\ upstream = [e \in Execs |-> NoAddr]
    /\ activation = [r \in Refs |-> None]
    /\ bindings = {}
    /\ suspension = [r \in Refs |-> None]
    /\ jobs = [j \in Jobs |-> [status |-> "absent", attempts |-> 0]]
    /\ pc = "down" /\ job = None /\ target = None /\ fresh = NoAddr /\ todo = {}
    /\ processes = [e \in Execs |-> NoAddr]
    /\ breaches = [e \in Execs |-> 0]
    /\ waiter = [p \in Launches |-> "none"]
    /\ owner = [p \in Launches |-> None]
    /\ alive = [p \in Launches |-> FALSE]
    /\ request = [a \in Activators |-> [pc |-> "new", exec |-> None, addr |-> NoAddr]]
    /\ crashes = 0 /\ errors = 0
    /\ born = [p \in Launches |-> 0]
    /\ passed = {}
    /\ streak = [e \in Execs |-> 0]

-----------------------------------------------------------------------------
(* Statements of RuntimeService.  Each changes one thing in the tables and  *)
(* nothing else in them.                                                    *)

\* UpdateRealizationExecution: no guard on the old status; without an address
\* the row keeps the one it has.
SetRow(e, s, addr) ==
    /\ status' = [status EXCEPT ![e] = s]
    /\ upstream' = [upstream EXCEPT ![e] = addr]
    /\ UNCHANGED <<activation, bindings, suspension, jobs>>

SetStatus(e, s) == SetRow(e, s, upstream[e])

\* ActivateRealization and DeleteRealizationActivation, keyed by reference.
SetActivation(ref, e) ==
    /\ activation' = [activation EXCEPT ![ref] = e]
    /\ UNCHANGED <<status, upstream, bindings, suspension, jobs>>

Activate(e)           == SetActivation(RefOf[e], e)
DeleteActivation(ref) == SetActivation(ref, None)

SetBindings(rows) ==
    /\ bindings' = rows
    /\ UNCHANGED <<status, upstream, activation, suspension, jobs>>

\* Mutants: routes are not dropped; only stable ones are.
DeleteNoStable(ref) == UNCHANGED tables
DeleteOnlyStable(e) == SetBindings({b \in bindings : b.exec # e \/ b.kind = "preview"})

\* DeleteStableRouteBindingsForReference.
DeleteStable(ref) ==
    SetBindings({b \in bindings : ~(b.kind = "stable" /\ RefOf[b.exec] = ref)})

\* DeleteRealizationRouteBindings.
DeleteBindings(e) == SetBindings({b \in bindings : b.exec # e})

\* ReplaceRealizationRouteBindings: delete and insert in one transaction.
ReplaceBindings(e, kinds, addr) ==
    SetBindings({b \in bindings : b.exec # e}
                \cup {[exec |-> e, kind |-> k, addr |-> addr] : k \in kinds})

\* UpsertRealizationSuspension and ClearRealizationSuspension: at most one
\* active row per reference.
SetSuspension(ref, e) ==
    /\ suspension' = [suspension EXCEPT ![ref] = e]
    /\ UNCHANGED <<status, upstream, activation, bindings, jobs>>

Suspend(e)           == SetSuspension(RefOf[e], e)

\* Mutant: a launch that is done leaves the suspension.
LeaveSuspension(ref) == UNCHANGED tables

ClearSuspension(ref) == SetSuspension(ref, None)

\* A statement on the queue.
SetJobs(rows) ==
    /\ jobs' = rows
    /\ UNCHANGED <<status, upstream, activation, bindings, suspension>>

SetJob(j, s) == SetJobs([jobs EXCEPT ![j] = [status |-> s, attempts |-> @.attempts]])

InsertJob(j) == jobs[j].status = "absent" /\ SetJob(j, "pending")

\* LocalExecutor.Stop kills the process registered for e, if there is one.
Kill(e) ==
    /\ alive' = [p \in Launches |-> alive[p] /\ p # processes[e]]
    /\ UNCHANGED owner

-----------------------------------------------------------------------------
(* HTTP commands. *)

\* handleLaunch, first half: the execution row.
RequestLaunch(e) ==
    /\ status[e] = "absent"
    /\ SetStatus(e, "launch_requested")
    /\ UNCHANGED <<memory, system, request, history>>

\* handleLaunch, second half: the launch job, a statement of its own.
EnqueueLaunch(e) ==
    /\ status[e] # "absent"
    /\ InsertJob(<<"launch", e>>)
    /\ UNCHANGED <<memory, system, request, history>>

\* handleStop: only a job, whatever state the execution is in.  One stop per
\* execution is modelled.
RequestStop(e) ==
    /\ status[e] # "absent"
    /\ InsertJob(<<"stop", e>>)
    /\ UNCHANGED <<memory, system, request, history>>

\* Mutants: an execution that is still starting, or was ever requested.
ActivateStarting(e) == status[e] \in {"starting", "healthy"}
ActivateAny(e)      == status[e] # "absent"

MayActivate(e) == status[e] = "healthy"

\* A request runs a statement and goes on.
RequestStep(a, here, next) ==
    /\ request[a].pc = here
    /\ request' = [request EXCEPT ![a] = [pc |-> next, exec |-> @.exec, addr |-> @.addr]]
    /\ UNCHANGED <<memory, system, history>>

\* handleActivate reads the row and requires it to be healthy ...
ReadHealthy(a, e) ==
    /\ request[a].pc = "new"
    /\ MayActivate(e)
    /\ request' = [request EXCEPT ![a] = [pc |-> "activate", exec |-> e, addr |-> upstream[e]]]
    /\ UNCHANGED <<tables, memory, system, history>>

\* ... points the activation at it ...
ActivateRequested(a) ==
    /\ RequestStep(a, "activate", "unpublish")
    /\ Activate(request[a].exec)

\* ... and syncActiveRouteBindings publishes routes from the row read above.
UnpublishRequested(a) ==
    /\ RequestStep(a, "unpublish", "bind")
    /\ DeleteStable(RefOf[request[a].exec])

BindRequested(a) ==
    /\ RequestStep(a, "bind", "done")
    /\ ReplaceBindings(request[a].exec, {"preview", "stable"}, request[a].addr)

\* The request's context ends (the client hangs up) between two statements.
AbandonRequest(a) ==
    /\ \E here \in {"activate", "unpublish", "bind"} : RequestStep(a, here, "done")
    /\ UNCHANGED tables

ActivateCommand(a) ==
    \/ \E e \in Execs : ReadHealthy(a, e)
    \/ ActivateRequested(a) \/ UnpublishRequested(a) \/ BindRequested(a)
    \/ AbandonRequest(a)

-----------------------------------------------------------------------------
(* The worker loop.  It alone moves pc; Step moves it and keeps the rest    *)
(* of what the loop holds.                                                  *)

Step(here, next) == pc = here /\ pc' = next /\ UNCHANGED hand

\* A step that runs a statement, and one that runs none or only reads.
Outside == <<local, system, request, history>>
Run(here, next)  == Step(here, next) /\ UNCHANGED Outside
Read(here, next) == Run(here, next) /\ UNCHANGED tables

Ref == RefOf[target]

\* Mutant: the count of an execution is kept.
KeepStrikes(e) == UNCHANGED local

\* delete(w.breachCounts, e), or its entry set to 0.
ResetStrikes(e) ==
    /\ breaches' = [breaches EXCEPT ![e] = 0]
    /\ UNCHANGED <<processes, waiter>>

\* Mutant: only the routes of executions that are reset go.
DropLiveRoutes == {b \in bindings : status[b.exec] \notin {"starting", "healthy"}}

\* ResetBackendExecutions deletes the routes of every execution.
RoutesAfterReset == {}

\* ReconcileStartup, first transaction: ResetBackendExecutions.
ResetExecutions ==
    /\ Run("down", "reset_jobs")
    /\ status' = [e \in Execs |->
                    IF status[e] \in {"launch_requested", "starting", "healthy"}
                    THEN "stopped" ELSE status[e]]
    /\ bindings' = RoutesAfterReset
    /\ activation' = [r \in Refs |-> None]
    /\ UNCHANGED <<upstream, suspension, jobs>>

\* ReconcileStartup, second statement: ResetRunningJobs.
ResetJobs ==
    /\ Run("reset_jobs", "idle")
    /\ SetJobs([j \in Jobs |-> IF jobs[j].status = "running"
                               THEN [status |-> "pending", attempts |-> jobs[j].attempts]
                               ELSE jobs[j]])

\* ClaimJobs with limit 1: stops (priority 140) go before launches (120).
Pending == {j \in Jobs : jobs[j].status = "pending"}

\* Mutant: priorities are ignored.
ClaimAnyPending == Pending

Claimable == IF Pending \cap StopJobs # {} THEN Pending \cap StopJobs ELSE Pending

ClaimJob(j) ==
    /\ pc = "idle"
    /\ j \in Claimable
    /\ SetJob(j, "running")
    /\ pc' = j[1] /\ job' = j /\ target' = j[2]
    /\ UNCHANGED <<fresh, todo, Outside>>

\* The end of handleJob: CompleteJob, then sampling; or FailJob, then Tick
\* returns the error.
LetGo(next) == pc' = next /\ job' = None /\ target' = None /\ fresh' = NoAddr /\ UNCHANGED todo

CompleteJob ==
    /\ pc = "complete"
    /\ SetJob(job, "completed")
    /\ LetGo("sample")
    /\ UNCHANGED Outside

\* Mutants: attempts are not counted; a status nobody reads.
TirelessRow(row) == [row EXCEPT !.status = "pending"]
RetryingRow(row) == [row EXCEPT !.status = "retrying"]

FailedRow(row) ==
    [attempts |-> row.attempts + 1,
     status |-> IF row.attempts + 1 >= MaxAttempts THEN "failed" ELSE "pending"]

FailJob ==
    /\ pc = "fail"
    /\ SetJobs([jobs EXCEPT ![job] = FailedRow(@)])
    /\ LetGo("idle")
    /\ UNCHANGED Outside

(* handleLaunch *)

LaunchStarting == Run("launch", "prepare") /\ SetStatus(target, "starting")

\* BuildLocalSpec or LocalExecutor.Launch fails.
PrepareFails == Run("prepare", "fail") /\ SetStatus(target, "failed")

\* LocalExecutor.Launch starts process p, registers it under its execution
\* and leaves a goroutine waiting for it.
StartProcess(p) ==
    /\ pc = "prepare" /\ pc' = "record"
    /\ owner[p] = None
    /\ \A q \in Launches : owner[q] = None => p <= q
    /\ fresh' = p
    /\ owner' = [owner EXCEPT ![p] = target]
    /\ alive' = [alive EXCEPT ![p] = TRUE]
    /\ waiter' = [waiter EXCEPT ![p] = "wait"]
    /\ processes' = [processes EXCEPT ![target] = p]
    /\ born' = [born EXCEPT ![p] = crashes]
    /\ UNCHANGED <<job, target, todo, breaches, tables, request, crashes, errors, passed, streak>>

RecordUpstream == Run("record", "probe") /\ SetRow(target, "starting", fresh)

\* WaitForHealthy gets an answer from the process ...
HealthPasses ==
    /\ Step("probe", "healthy")
    /\ alive[fresh]
    /\ passed' = passed \cup {fresh}
    /\ UNCHANGED <<tables, local, system, request, crashes, errors, born, streak>>

\* ... or times out: failed, killed, unrouted.
HealthTimesOut == Run("probe", "kill_unhealthy") /\ SetStatus(target, "failed")

KillUnhealthy ==
    /\ Step("kill_unhealthy", "unbind_unhealthy")
    /\ Kill(target)
    /\ UNCHANGED <<tables, local, request, history>>

UnbindUnhealthy == Run("unbind_unhealthy", "fail") /\ DeleteBindings(target)

\* The row becomes healthy whatever happened to it since the probe.
MarkHealthy == Run("healthy", "auto") /\ SetRow(target, "healthy", fresh)

\* AutoActivate: the first healthy execution of a reference becomes active.
CheckActivation == Read("auto", IF activation[Ref] = None THEN "auto_activate" ELSE "bind")
AutoActivate    == Run("auto_activate", "bind") /\ Activate(target)

\* syncBindings publishes stable routes only for the active execution.
ReadActivation == Read("bind", IF activation[Ref] = target THEN "drop_stable" ELSE "bind_preview")
DropStable     == Run("drop_stable", "bind_stable") /\ DeleteStable(Ref)
BindStable     == Run("bind_stable", "clear") /\ ReplaceBindings(target, {"preview", "stable"}, fresh)
BindPreview    == Run("bind_preview", "clear") /\ ReplaceBindings(target, {"preview"}, fresh)

ClearSuspensions == Run("clear", "complete") /\ ClearSuspension(Ref)

HandleLaunch ==
    \/ LaunchStarting \/ PrepareFails \/ (\E p \in Launches : StartProcess(p))
    \/ RecordUpstream \/ HealthPasses \/ HealthTimesOut
    \/ KillUnhealthy \/ UnbindUnhealthy \/ MarkHealthy
    \/ CheckActivation \/ AutoActivate \/ ReadActivation
    \/ DropStable \/ BindStable \/ BindPreview \/ ClearSuspensions

(* handleStop *)

StopKill ==
    /\ Step("stop", "stop_mark")
    /\ Kill(target)
    /\ UNCHANGED <<tables, local, request, history>>

StopMark == Run("stop_mark", "stop_check") /\ SetStatus(target, "stopped")

StopCheck == Read("stop_check", IF activation[Ref] = target THEN "stop_deactivate"
                                ELSE "stop_unpublish")
StopDeactivate == Run("stop_deactivate", "stop_unpublish") /\ DeleteActivation(Ref)

\* The stable routes of the reference go, even when another execution of the
\* reference is the active one.
StopUnpublish == Run("stop_unpublish", "stop_unbind") /\ DeleteStable(Ref)

StopUnbind ==
    /\ Step("stop_unbind", "complete")
    /\ DeleteBindings(target)
    /\ ResetStrikes(target)
    /\ UNCHANGED <<system, request, history>>

HandleStop ==
    StopKill \/ StopMark \/ StopCheck \/ StopDeactivate \/ StopUnpublish \/ StopUnbind

(* sampleAndEnforce *)

\* Every five seconds the loop samples the processes of one snapshot.  Where
\* no budget is set the samples have no effect on anything modelled here.
BeginSampling ==
    /\ BudgetsSet
    /\ pc = "sample" \/ (pc = "idle" /\ Pending = {})
    /\ pc' = "sampling"
    /\ todo' = {processes[e] : e \in Execs} \ {NoAddr}
    /\ UNCHANGED <<job, target, fresh, tables, Outside>>

SkipSampling == Read("sample", "idle")

\* The next process of the snapshot.
Sample(p) ==
    /\ pc = "sampling" /\ p \in todo
    /\ todo' = todo \ {p}
    /\ UNCHANGED <<job, fresh, tables, system, request, crashes, errors, born, passed>>

\* The row cannot be read or ps fails.
SampleFails(p) == Sample(p) /\ UNCHANGED <<pc, target, local, streak>>

\* A process can be sampled until it is reaped, even after it has exited.
WithinBudget(p) ==
    /\ Sample(p) /\ waiter[p] = "wait"
    /\ ResetStrikes(owner[p])
    /\ streak' = [streak EXCEPT ![owner[p]] = 0]
    /\ UNCHANGED <<pc, target>>

\* One more strike; the process goes when it has had all of them in a row.
OverBudget(p) ==
    /\ BudgetsSet
    /\ Sample(p) /\ waiter[p] = "wait"
    /\ LET strikes == breaches[owner[p]] + 1
       IN /\ breaches' = [breaches EXCEPT ![owner[p]] = strikes]
          /\ IF strikes < Strikes
             THEN UNCHANGED <<pc, target>>
             ELSE pc' = "kill" /\ target' = owner[p]
    /\ streak' = [streak EXCEPT ![owner[p]] = IF @ < Strikes THEN @ + 1 ELSE @]
    /\ UNCHANGED <<processes, waiter>>

EndSampling == todo = {} /\ Read("sampling", "idle")

(* terminateExecution *)

BudgetKill ==
    /\ Step("kill", "mark")
    /\ Kill(target)
    /\ UNCHANGED <<tables, local, request, history>>

BudgetMark       == Run("mark", "suspend") /\ SetStatus(target, "terminated")
BudgetSuspend    == Run("suspend", "check") /\ Suspend(target)
BudgetCheck      == Read("check", IF activation[Ref] = target THEN "deactivate" ELSE "unbind")
BudgetDeactivate == Run("deactivate", "unpublish") /\ DeleteActivation(Ref)
BudgetUnpublish  == Run("unpublish", "unbind") /\ DeleteStable(Ref)

\* Back to the rest of the snapshot.
Resume == pc' = "sampling" /\ target' = None /\ UNCHANGED <<job, fresh, todo>>

BudgetUnbind ==
    /\ pc = "unbind" /\ Resume
    /\ DeleteBindings(target)
    /\ ResetStrikes(target)
    /\ UNCHANGED <<system, request, history>>

SampleAndEnforce ==
    \/ BeginSampling \/ SkipSampling \/ EndSampling
    \/ \E p \in Launches : SampleFails(p) \/ WithinBudget(p) \/ OverBudget(p)
    \/ BudgetKill \/ BudgetMark \/ BudgetSuspend \/ BudgetCheck
    \/ BudgetDeactivate \/ BudgetUnpublish \/ BudgetUnbind

(* Failing statements *)

\* Most errors are dropped and the worker goes on, the others fail the job.
StatementFails ==
    /\ \/ \E s \in {"launch", "prepare", "record", "unbind_unhealthy", "healthy", "bind",
                    "bind_stable", "bind_preview", "clear", "stop", "stop_mark"} : Step(s, "fail")
       \/ \E s \in {"auto", "auto_activate"} : Step(s, "bind")
       \/ \E s \in {"stop_check", "stop_deactivate"} : Step(s, "stop_unpublish")
       \/ \E s \in {"check", "unpublish"} : Step(s, "unbind")
       \/ Step("probe", "kill_unhealthy") \/ Step("drop_stable", "bind_stable")
       \/ Step("stop_unpublish", "stop_unbind")
       \/ Step("suspend", "check") \/ Step("deactivate", "unpublish")
    /\ UNCHANGED <<tables, local>>

\* The last statement of a stop or of a termination fails.
UnbindFails ==
    /\ Step("stop_unbind", "complete") \/ (pc = "unbind" /\ Resume)
    /\ ResetStrikes(target)
    /\ UNCHANGED tables

\* terminateExecution gives up, and Tick with it.
BudgetMarkFails ==
    /\ pc = "mark" /\ pc' = "idle"
    /\ target' = None /\ todo' = {}
    /\ UNCHANGED <<job, fresh, tables, local>>

\* Tick drops the errors of CompleteJob and FailJob.
ReportFails ==
    /\ \/ pc = "complete" /\ LetGo("sample")
       \/ pc = "fail" /\ LetGo("idle")
    /\ UNCHANGED <<tables, local>>

WorkerError ==
    /\ errors < MaxErrors
    /\ errors' = errors + 1
    /\ StatementFails \/ UnbindFails \/ BudgetMarkFails \/ ReportFails
    /\ UNCHANGED <<system, request, crashes, born, passed, streak>>

-----------------------------------------------------------------------------
(* The goroutine LocalExecutor.Launch leaves behind for process p: it waits  *)
(* for the exit, unregisters whatever process its execution has by then, and *)
(* runs handleProcessExit.                                                   *)

Await(p, here, next) ==
    /\ waiter[p] = here
    /\ waiter' = [waiter EXCEPT ![p] = next]
    /\ UNCHANGED <<pc, hand, system, request>>

\* A step that runs a statement or reads.
RunExit(p, here, next) == Await(p, here, next) /\ UNCHANGED <<processes, breaches, history>>

\* A process exits by itself.
Exit(p) ==
    /\ alive[p]
    /\ alive' = [alive EXCEPT ![p] = FALSE]
    /\ UNCHANGED <<owner, tables, memory, request, history>>

Unregister(p) ==
    /\ ~alive[p]
    /\ Await(p, "wait", "look")
    /\ processes' = [processes EXCEPT ![owner[p]] = NoAddr]
    /\ UNCHANGED <<breaches, tables, history>>

\* A stopped, failed or terminated execution needs nothing more.
ExitLook(p) ==
    /\ RunExit(p, "look", IF status[owner[p]] \in {"stopped", "failed", "terminated"}
                          THEN "done" ELSE "mark")
    /\ UNCHANGED tables

ExitMark(p)   == RunExit(p, "mark", "unbind") /\ SetStatus(owner[p], "terminated")
ExitUnbind(p) == RunExit(p, "unbind", "check") /\ DeleteBindings(owner[p])

ExitCheck(p) ==
    /\ RunExit(p, "check", IF activation[RefOf[owner[p]]] = owner[p]
                           THEN "deactivate" ELSE "suspend")
    /\ UNCHANGED tables

ExitDeactivate(p) == RunExit(p, "deactivate", "unpublish") /\ DeleteActivation(RefOf[owner[p]])
ExitUnpublish(p)  == RunExit(p, "unpublish", "suspend") /\ DeleteStable(RefOf[owner[p]])

\* The deletion from breachCounts runs on this goroutine, unsynchronised.
ForgetStrikes(p) == breaches' = [breaches EXCEPT ![owner[p]] = 0] /\ UNCHANGED processes

ExitSuspend(p) ==
    /\ Await(p, "suspend", "done")
    /\ Suspend(owner[p])
    /\ ForgetStrikes(p)
    /\ UNCHANGED history

\* A failing statement: without the row the goroutine gives up, any other
\* error is dropped.
ExitError(p) ==
    /\ errors < MaxErrors
    /\ errors' = errors + 1
    /\ \/ /\ \/ Await(p, "look", "done") \/ Await(p, "mark", "unbind")
             \/ Await(p, "unbind", "check") \/ Await(p, "check", "suspend")
             \/ Await(p, "deactivate", "unpublish") \/ Await(p, "unpublish", "suspend")
          /\ UNCHANGED <<processes, breaches>>
       \/ Await(p, "suspend", "done") /\ ForgetStrikes(p)
    /\ UNCHANGED <<tables, crashes, born, passed, streak>>

HandleExit(p) ==
    \/ Unregister(p) \/ ExitLook(p) \/ ExitMark(p) \/ ExitUnbind(p) \/ ExitCheck(p)
    \/ ExitDeactivate(p) \/ ExitUnpublish(p) \/ ExitSuspend(p)
    \/ ExitError(p)

-----------------------------------------------------------------------------
\* execd dies.  Its memory and goroutines are gone; a child may outlive it.
Crash ==
    /\ pc # "down"
    /\ crashes < MaxCrashes
    /\ crashes' = crashes + 1
    /\ pc' = "down" /\ job' = None /\ target' = None /\ fresh' = NoAddr /\ todo' = {}
    /\ processes' = [e \in Execs |-> NoAddr]
    /\ breaches' = [e \in Execs |-> 0]
    /\ waiter' = [p \in Launches |-> IF waiter[p] \in {"none", "done"} THEN waiter[p] ELSE "lost"]
    /\ \E survivors \in SUBSET Launches :
          alive' = [p \in Launches |-> alive[p] /\ p \in survivors]
    /\ UNCHANGED <<tables, owner, request, errors, born, passed, streak>>

Worker ==
    \/ ResetExecutions \/ ResetJobs
    \/ \E j \in Jobs : ClaimJob(j)
    \/ CompleteJob \/ FailJob
    \/ HandleLaunch \/ HandleStop \/ SampleAndEnforce
    \/ WorkerError

Commands ==
    \/ \E e \in Execs : RequestLaunch(e) \/ EnqueueLaunch(e) \/ RequestStop(e)
    \/ \E a \in Activators : ActivateCommand(a)

Next ==
    \/ Worker
    \/ Commands
    \/ \E p \in Launches : Exit(p) \/ HandleExit(p)
    \/ Crash

Spec == Init /\ [][Next]_vars

\* execd is restarted by its supervisor and its loop never stops ticking.
\* Nobody has to send a command, no process has to exit, no exit has to be
\* handled, and a crash may never come.
Fairness == WF_vars(Worker)
FairSpec == Spec /\ Fairness

-----------------------------------------------------------------------------
(* Properties. *)

\* Traffic only ever goes to an address whose process answered the health
\* check, and only under the execution that process was started for: the
\* worker, a stale activate request and a relaunch all respect it.
RoutesPassedHealthCheck ==
    \A b \in bindings : b.addr \in passed /\ owner[b.addr] = b.exec

\* An execution is only ever active after one of its processes was healthy.
ActiveOncePassed ==
    \A r \in Refs : activation[r] # None =>
        \E p \in passed : owner[p] = activation[r] /\ RefOf[owner[p]] = r

\* While execd serves, every route leads to a process of this incarnation,
\* unless an activate request that read the row before the restart wrote it.
RestartDropsRoutes ==
    pc \notin StartupSteps =>
        \A b \in bindings : born[b.addr] = crashes \/ \E a \in Activators : request[a].addr = b.addr

\* The budget kills an execution only for breaches in consecutive samples of
\* that execution, across relaunches, restarts and exit handlers that reset
\* the count on another goroutine.
BudgetKillsRepeatOffenders == pc = "kill" => streak[target] = Strikes

\* A reference is only ever suspended for an execution that has lost a
\* process.  One that was relaunched since may run again by then, see below.
SuspendedAfterDeath ==
    \A r \in Refs : suspension[r] # None =>
        \E p \in Launches : owner[p] = suspension[r] /\ ~alive[p]

\* Once the worker is done with an execution that runs, and while no statement
\* fails, its reference is not suspended for it: neither the budget nor a
\* suspension from before a restart outlasts the launch.  Only the goroutine
\* of an earlier process that the same execd started for the execution may
\* come late and suspend it again.
RunningIsNotSuspended ==
    \A p \in Launches :
        (/\ errors = 0 /\ pc # "down"
         /\ alive[p] /\ born[p] = crashes /\ target # owner[p]
         /\ suspension[RefOf[owner[p]]] = owner[p])
        => \E q \in Launches : q < p /\ owner[q] = owner[p] /\ born[q] = crashes

\* The worker and its exit goroutines never give the stable routes of a
\* reference two owners; concurrent activate requests do.
StableOwners(ref) == {b.exec : b \in {c \in bindings : c.kind = "stable" /\ RefOf[c.exec] = ref}}
OneStableOwner == \A r \in Refs : Cardinality(StableOwners(r)) <= 1

\* While execd is up, a stopped execution has no routes and is not the active
\* one, once the worker is done with it: no exit goroutine, no other
\* execution's launch and no restart in the middle of the stop brings it back.
StoppedIsUnpublished ==
    \A e \in Execs : (status[e] = "stopped" /\ target # e /\ pc # "down") =>
        /\ activation[RefOf[e]] # e
        /\ \A b \in bindings : b.exec # e

\* Every launch or stop that was queued is eventually carried out or has used
\* up its attempts, whatever exits and crashes meanwhile.
JobsFinish ==
    \A j \in Jobs : jobs[j].status = "pending" ~> jobs[j].status \in {"completed", "failed"}
=============================================================================
