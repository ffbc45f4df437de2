--------------------------- MODULE ExecutionProofs ---------------------------
(***************************************************************************)
(* Proofs about Execution for every set of executions, references and      *)
(* requests and every bound.  TypeInv is inductive: it adds to TypeOK that *)
(* each actor that is in the middle of something knows its execution.      *)
(* There is one lemma per statement of the tables and one per kind of      *)
(* step; an action combines the two.  The last part proves that execd and  *)
(* the commands implement the job queue.                                   *)
(***************************************************************************)
EXTENDS ExecutionQueue, FiniteSetTheorems, TLAPS

\* The actors that are in the middle of something.
RequestBusy == {"activate", "unpublish", "bind"}
Started     == LaunchSteps \ {"launch", "prepare"}

HandsKnown ==
    /\ pc \in JobSteps => job \in Jobs /\ target \in Execs
    /\ pc \in BudgetSteps => target \in Execs
    /\ pc \in Started => fresh \in Launches
    /\ \A p \in Launches : waiter[p] # "none" => owner[p] \in Execs
    /\ \A a \in Activators : request[a].pc \in RequestBusy => request[a].exec \in Execs

TypeInv == TypeOK /\ HandsKnown

\* A move of the worker loop that enters neither a job nor a termination.
Legal(here, next) ==
    /\ next \in WorkerSteps
    /\ next \in JobSteps => here \in JobSteps
    /\ next \in BudgetSteps => here \in BudgetSteps
    /\ next \in Started => here \in Started

LEMMA InitType == Init => TypeInv
<1> SUFFICES ASSUME Init PROVE TypeInv
  OBVIOUS
<1> USE BoundAssumption DEF Init
<1>1. TablesOK
  BY DEF TablesOK, ExecStatuses, Addrs, JobRows, JobStatuses
<1>2. LoopOK /\ LocalOK /\ SystemOK
  BY DEF LoopOK, LocalOK, SystemOK, WorkerSteps, StartupSteps, Addrs, WaiterSteps
<1>3. RequestOK
  BY DEF RequestOK, RequestSteps, Addrs
<1>4. HistoryOK
  BY DEF HistoryOK
<1>5. HandsKnown
  BY DEF HandsKnown, JobSteps, LaunchSteps, StopSteps, BudgetSteps, Started, RequestBusy
<1> QED BY <1>1, <1>2, <1>3, <1>4, <1>5 DEF TypeInv, TypeOK

-----------------------------------------------------------------------------
(* The statements keep the types of the tables. *)

LEMMA TablesFrame ==
  ASSUME TablesOK, UNCHANGED tables
  PROVE  TablesOK'
BY DEF TablesOK, tables

LEMMA SetRowType ==
  ASSUME TablesOK, NEW e \in Execs, NEW s \in ExecStatuses, NEW addr \in Addrs, SetRow(e, s, addr)
  PROVE  TablesOK'
BY DEF TablesOK, SetRow

LEMMA SetStatusType ==
  ASSUME TablesOK, NEW e \in Execs, NEW s \in ExecStatuses, SetStatus(e, s)
  PROVE  TablesOK'
BY SetRowType DEF TablesOK, SetStatus

LEMMA SetActivationType ==
  ASSUME TablesOK, NEW ref \in Refs, NEW e \in Execs \cup {None}, SetActivation(ref, e)
  PROVE  TablesOK'
BY DEF TablesOK, SetActivation

LEMMA ActivateType ==
  ASSUME TablesOK, NEW e \in Execs, Activate(e)
  PROVE  TablesOK'
BY RefAssumption, SetActivationType DEF Activate

LEMMA DeleteActivationType ==
  ASSUME TablesOK, NEW ref \in Refs, DeleteActivation(ref)
  PROVE  TablesOK'
BY SetActivationType DEF DeleteActivation

LEMMA SetBindingsType ==
  ASSUME TablesOK, NEW rows \in SUBSET Bindings, SetBindings(rows)
  PROVE  TablesOK'
BY DEF TablesOK, SetBindings

LEMMA DeleteStableType ==
  ASSUME TablesOK, NEW ref, DeleteStable(ref)
  PROVE  TablesOK'
BY SetBindingsType DEF DeleteStable, TablesOK

LEMMA DeleteBindingsType ==
  ASSUME TablesOK, NEW e, DeleteBindings(e)
  PROVE  TablesOK'
BY SetBindingsType DEF DeleteBindings, TablesOK

LEMMA ReplaceBindingsType ==
  ASSUME TablesOK, NEW e \in Execs, NEW kinds \in SUBSET {"preview", "stable"}, NEW addr \in Addrs,
         ReplaceBindings(e, kinds, addr)
  PROVE  TablesOK'
<1>1. ASSUME NEW k \in kinds PROVE [exec |-> e, kind |-> k, addr |-> addr] \in Bindings
  BY DEF Bindings
<1>2. {[exec |-> e, kind |-> k, addr |-> addr] : k \in kinds} \subseteq Bindings
  BY <1>1
<1> QED BY <1>2, SetBindingsType DEF ReplaceBindings, TablesOK

LEMMA SetSuspensionType ==
  ASSUME TablesOK, NEW ref \in Refs, NEW e \in Execs \cup {None}, SetSuspension(ref, e)
  PROVE  TablesOK'
BY DEF TablesOK, SetSuspension

LEMMA SuspendType ==
  ASSUME TablesOK, NEW e \in Execs, Suspend(e)
  PROVE  TablesOK'
BY RefAssumption, SetSuspensionType DEF Suspend

LEMMA ClearSuspensionType ==
  ASSUME TablesOK, NEW ref \in Refs, ClearSuspension(ref)
  PROVE  TablesOK'
BY SetSuspensionType DEF ClearSuspension

LEMMA SetJobsType ==
  ASSUME TablesOK, NEW rows \in [Jobs -> JobRows], SetJobs(rows)
  PROVE  TablesOK'
BY DEF TablesOK, SetJobs

LEMMA SetJobType ==
  ASSUME TablesOK, NEW j \in Jobs, NEW s \in JobStatuses, SetJob(j, s)
  PROVE  TablesOK'
<1>1. [jobs EXCEPT ![j] = [status |-> s, attempts |-> @.attempts]] \in [Jobs -> JobRows]
  BY DEF TablesOK, JobRows
<1> QED BY <1>1, SetJobsType DEF SetJob

-----------------------------------------------------------------------------
(* The kinds of steps keep the rest. *)

LEMMA LocalFrame == LocalOK /\ UNCHANGED local => LocalOK'
  BY DEF LocalOK, local
LEMMA SystemFrame == SystemOK /\ UNCHANGED system => SystemOK'
  BY DEF SystemOK, system
LEMMA RequestFrame == RequestOK /\ UNCHANGED request => RequestOK'
  BY DEF RequestOK
LEMMA HistoryFrame == HistoryOK /\ UNCHANGED history => HistoryOK'
  BY DEF HistoryOK, history
LEMMA LoopFrame == LoopOK /\ UNCHANGED <<pc, hand>> => LoopOK'
  BY DEF LoopOK, hand

LEMMA KillType == SystemOK /\ (\E e \in Execs : Kill(e)) => SystemOK'
  BY DEF SystemOK, Kill

\* A move of the loop.
LEMMA StepLoop ==
  ASSUME TypeInv, NEW here, NEW next, Step(here, next), Legal(here, next),
         UNCHANGED <<waiter, owner, request>>
  PROVE  LoopOK' /\ HandsKnown'
<1>1. LoopOK'
  BY DEF TypeInv, TypeOK, LoopOK, Step, hand, Legal
<1>2. HandsKnown'
  BY DEF TypeInv, HandsKnown, Step, hand, Legal
<1> QED BY <1>1, <1>2

\* A step of the loop that runs one statement.
LEMMA RunType ==
  ASSUME TypeInv, NEW here, NEW next, Run(here, next), Legal(here, next), TablesOK'
  PROVE  TypeInv'
<1>1. Step(here, next) /\ UNCHANGED <<local, system, request, history>>
  BY DEF Run, Outside
<1>2. UNCHANGED <<waiter, owner>>
  BY <1>1 DEF local, system
<1>3. LoopOK' /\ HandsKnown'
  BY <1>1, <1>2, StepLoop
<1>4. LocalOK' /\ SystemOK' /\ RequestOK' /\ HistoryOK'
  BY <1>1, LocalFrame, SystemFrame, RequestFrame, HistoryFrame DEF TypeInv, TypeOK
<1> QED BY <1>3, <1>4 DEF TypeInv, TypeOK

LEMMA ReadType ==
  ASSUME TypeInv, NEW here, NEW next, Read(here, next), Legal(here, next)
  PROVE  TypeInv'
BY RunType, TablesFrame DEF Read, TypeInv, TypeOK

\* A step of the loop that kills a process.
LEMMA KillStepType ==
  ASSUME TypeInv, NEW here, NEW next, Step(here, next), Legal(here, next),
         target \in Execs, Kill(target), UNCHANGED <<tables, local, request, history>>
  PROVE  TypeInv'
<1>1. UNCHANGED <<waiter, owner>>
  BY DEF local, Kill
<1>2. LoopOK' /\ HandsKnown'
  BY <1>1, StepLoop
<1>3. TablesOK' /\ LocalOK' /\ RequestOK' /\ HistoryOK' /\ SystemOK'
  BY TablesFrame, LocalFrame, RequestFrame, HistoryFrame, KillType DEF TypeInv, TypeOK
<1> QED BY <1>2, <1>3 DEF TypeInv, TypeOK

\* A step of an exit goroutine: its own register moves.
LEMMA AwaitType ==
  ASSUME TypeInv, NEW p \in Launches, NEW here, NEW next \in WaiterSteps,
         Await(p, here, next), here # "none"
  PROVE  /\ LoopOK' /\ SystemOK' /\ RequestOK' /\ HandsKnown'
         /\ waiter' \in [Launches -> WaiterSteps]
<1>1. LoopOK' /\ SystemOK' /\ RequestOK'
  BY LoopFrame, SystemFrame, RequestFrame DEF TypeInv, TypeOK, Await
<1>2. waiter' \in [Launches -> WaiterSteps]
  BY DEF TypeInv, TypeOK, LocalOK, Await
<1>3. UNCHANGED <<pc, job, target, fresh, owner, request>>
  BY DEF Await, hand, system
<1>4. \A q \in Launches : waiter'[q] # "none" => waiter[q] # "none"
  BY DEF TypeInv, TypeOK, LocalOK, Await
<1>5. HandsKnown'
  BY <1>3, <1>4 DEF TypeInv, HandsKnown
<1> QED BY <1>1, <1>2, <1>5

LEMMA RunExitType ==
  ASSUME TypeInv, NEW p \in Launches, NEW here, NEW next \in WaiterSteps,
         RunExit(p, here, next), here # "none", TablesOK'
  PROVE  TypeInv'
<1>1. Await(p, here, next) /\ UNCHANGED <<processes, breaches, history>>
  BY DEF RunExit
<1>2. LocalOK'
  BY <1>1, AwaitType DEF TypeInv, TypeOK, LocalOK
<1> QED BY <1>1, <1>2, AwaitType, HistoryFrame DEF TypeInv, TypeOK

\* A step of an activate request.
LEMMA RequestStepType ==
  ASSUME TypeInv, NEW a \in Activators, NEW here \in RequestBusy, NEW next \in RequestSteps,
         RequestStep(a, here, next), TablesOK'
  PROVE  TypeInv'
<1>1. UNCHANGED <<pc, hand, local, system, history>>
  BY DEF RequestStep, memory
<1>2. RequestOK'
  BY DEF TypeInv, TypeOK, RequestOK, RequestStep
<1>3. \A b \in Activators : request'[b].pc \in RequestBusy =>
        request[b].pc \in RequestBusy /\ request'[b].exec = request[b].exec
  BY DEF TypeInv, TypeOK, RequestOK, RequestStep
<1>4. HandsKnown'
  BY <1>1, <1>3 DEF TypeInv, HandsKnown, hand, local, system
<1>5. LoopOK' /\ LocalOK' /\ SystemOK' /\ HistoryOK'
  BY <1>1, LoopFrame, LocalFrame, SystemFrame, HistoryFrame DEF TypeInv, TypeOK
<1> QED BY <1>2, <1>4, <1>5 DEF TypeInv, TypeOK

\* A step outside execd.
LEMMA CommandType ==
  ASSUME TypeInv, UNCHANGED <<memory, system, request, history>>, TablesOK'
  PROVE  TypeInv'
<1>1. UNCHANGED <<pc, hand, local>>
  BY DEF memory
<1>2. HandsKnown'
  BY <1>1 DEF TypeInv, HandsKnown, hand, local, system
<1> QED
  BY <1>1, <1>2, LoopFrame, LocalFrame, SystemFrame, RequestFrame, HistoryFrame DEF TypeInv, TypeOK

\* A statement of a job's handler, and one of a termination.
LEMMA Moves ==
  ASSUME NEW here, NEW next,
         \/ here \in JobSteps /\ next \in JobSteps /\ (next \in Started => here \in Started)
         \/ here \in BudgetSteps /\ next \in BudgetSteps
  PROVE  Legal(here, next)
BY DEF Legal, WorkerSteps, JobSteps, LaunchSteps, StopSteps, BudgetSteps, Started

LEMMA Busy ==
  ASSUME TypeInv, pc \in JobSteps \cup BudgetSteps
  PROVE  target \in Execs /\ Ref \in Refs
BY RefAssumption DEF TypeInv, HandsKnown, Ref

LEMMA JobRun ==
  ASSUME TypeInv, NEW here \in JobSteps, NEW next \in JobSteps, Run(here, next),
         next \in Started => here \in Started
  PROVE  /\ target \in Execs /\ Ref \in Refs
         /\ TablesOK' => TypeInv'
<1>1. pc = here
  BY DEF Run, Step
<1> QED BY <1>1, Busy, Moves, RunType

LEMMA BudgetRun ==
  ASSUME TypeInv, NEW here \in BudgetSteps, NEW next \in BudgetSteps, Run(here, next)
  PROVE  /\ target \in Execs /\ Ref \in Refs
         /\ TablesOK' => TypeInv'
<1>1. pc = here
  BY DEF Run, Step
<1> QED BY <1>1, Busy, Moves, RunType

-----------------------------------------------------------------------------
(* handleLaunch. *)

LEMMA LaunchType == TypeInv /\ HandleLaunch => TypeInv'
<1> SUFFICES ASSUME TypeInv, HandleLaunch PROVE TypeInv'
  OBVIOUS
<1>a. TablesOK /\ fresh \in Addrs
  BY DEF TypeInv, TypeOK, LoopOK
<1>b. LaunchSteps \subseteq JobSteps /\ {"complete", "fail"} \subseteq JobSteps
  BY DEF JobSteps
<1>1. CASE LaunchStarting
  BY <1>1, <1>a, <1>b, JobRun, SetStatusType DEF LaunchStarting, LaunchSteps, Started, ExecStatuses
<1>2. CASE PrepareFails
  BY <1>2, <1>a, <1>b, JobRun, SetStatusType DEF PrepareFails, LaunchSteps, Started, ExecStatuses
<1>3. ASSUME NEW p \in Launches, StartProcess(p) PROVE TypeInv'
  <2>1. pc \in JobSteps /\ pc' \in JobSteps /\ pc' \notin BudgetSteps
    BY <1>3 DEF StartProcess, JobSteps, LaunchSteps, BudgetSteps
  <2>2. target \in Execs /\ job \in Jobs
    BY <2>1 DEF TypeInv, HandsKnown
  <2>3. LoopOK'
    BY <1>3, <2>1 DEF StartProcess, TypeInv, TypeOK, LoopOK, WorkerSteps, Addrs
  <2>4. LocalOK'
    BY <1>3, <2>2 DEF StartProcess, TypeInv, TypeOK, LocalOK, WaiterSteps, Addrs
  <2>5. SystemOK'
    BY <1>3, <2>2 DEF StartProcess, TypeInv, TypeOK, SystemOK
  <2>6. HistoryOK'
    BY <1>3 DEF StartProcess, TypeInv, TypeOK, HistoryOK
  <2>7. TablesOK' /\ RequestOK'
    BY <1>3, TablesFrame, RequestFrame DEF StartProcess, TypeInv, TypeOK
  <2>8. \A q \in Launches : waiter'[q] # "none" => owner'[q] \in Execs
    BY <1>3, <2>2 DEF StartProcess, TypeInv, TypeOK, LocalOK, SystemOK, HandsKnown
  <2>9. HandsKnown'
    BY <1>3, <2>1, <2>2, <2>8 DEF StartProcess, TypeInv, HandsKnown, Started
  <2> QED BY <2>3, <2>4, <2>5, <2>6, <2>7, <2>9 DEF TypeInv, TypeOK
<1>4. CASE RecordUpstream
  BY <1>4, <1>a, <1>b, JobRun, SetRowType DEF RecordUpstream, LaunchSteps, Started, ExecStatuses
<1>5. CASE HealthPasses
  <2>1. Step("probe", "healthy") /\ Legal("probe", "healthy") /\ UNCHANGED <<waiter, owner, request>>
    BY <1>5, <1>b, Moves DEF HealthPasses, LaunchSteps, Started, local, system
  <2>2. LoopOK' /\ HandsKnown'
    BY <2>1, StepLoop
  <2>3. fresh \in Launches
    BY <2>1, <1>b DEF TypeInv, HandsKnown, Step, LaunchSteps, Started
  <2>4. HistoryOK'
    BY <1>5, <2>3 DEF HealthPasses, TypeInv, TypeOK, HistoryOK
  <2> QED
    BY <1>5, <2>2, <2>4, TablesFrame, LocalFrame, SystemFrame, RequestFrame
    DEF HealthPasses, TypeInv, TypeOK
<1>6. CASE HealthTimesOut
  BY <1>6, <1>a, <1>b, JobRun, SetStatusType DEF HealthTimesOut, LaunchSteps, Started, ExecStatuses
<1>7. CASE KillUnhealthy
  <2>1. pc \in JobSteps
    BY <1>7, <1>b DEF KillUnhealthy, Step, LaunchSteps, Started
  <2> QED BY <1>7, <1>b, <2>1, Busy, Moves, KillStepType DEF KillUnhealthy, LaunchSteps, Started
<1>8. CASE UnbindUnhealthy
  BY <1>8, <1>a, <1>b, JobRun, DeleteBindingsType DEF UnbindUnhealthy, LaunchSteps, Started
<1>9. CASE MarkHealthy
  BY <1>9, <1>a, <1>b, JobRun, SetRowType DEF MarkHealthy, LaunchSteps, Started, ExecStatuses
<1>10. CASE CheckActivation
  BY <1>10, <1>b, Moves, ReadType DEF CheckActivation, LaunchSteps, Started
<1>11. CASE AutoActivate
  BY <1>11, <1>a, <1>b, JobRun, ActivateType DEF AutoActivate, LaunchSteps, Started
<1>12. CASE ReadActivation
  BY <1>12, <1>b, Moves, ReadType DEF ReadActivation, LaunchSteps, Started
<1>13. CASE DropStable
  BY <1>13, <1>a, <1>b, JobRun, DeleteStableType DEF DropStable, LaunchSteps, Started
<1>14. CASE BindStable
  BY <1>14, <1>a, <1>b, JobRun, ReplaceBindingsType DEF BindStable, LaunchSteps, Started
<1>15. CASE BindPreview
  BY <1>15, <1>a, <1>b, JobRun, ReplaceBindingsType DEF BindPreview, LaunchSteps, Started
<1>16. CASE ClearSuspensions
  BY <1>16, <1>a, <1>b, JobRun, ClearSuspensionType DEF ClearSuspensions, LaunchSteps, Started
<1> QED
  BY <1>1, <1>2, <1>3, <1>4, <1>5, <1>6, <1>7, <1>8, <1>9, <1>10, <1>11, <1>12, <1>13,
     <1>14, <1>15, <1>16 DEF HandleLaunch

-----------------------------------------------------------------------------
(* handleStop. *)

LEMMA StopType == TypeInv /\ HandleStop => TypeInv'
<1> SUFFICES ASSUME TypeInv, HandleStop PROVE TypeInv'
  OBVIOUS
<1>a. TablesOK
  BY DEF TypeInv, TypeOK
<1>b. StopSteps \subseteq JobSteps /\ "complete" \in JobSteps /\ StopSteps \cap Started = {}
      /\ "complete" \notin Started
  BY DEF JobSteps, StopSteps, Started, LaunchSteps
<1>1. CASE StopKill
  <2>1. pc \in JobSteps
    BY <1>1, <1>b DEF StopKill, Step, StopSteps
  <2> QED BY <1>1, <1>b, <2>1, Busy, Moves, KillStepType DEF StopKill, StopSteps
<1>2. CASE StopMark
  BY <1>2, <1>a, <1>b, JobRun, SetStatusType DEF StopMark, StopSteps, ExecStatuses
<1>3. CASE StopCheck
  BY <1>3, <1>b, Moves, ReadType DEF StopCheck, StopSteps
<1>4. CASE StopDeactivate
  BY <1>4, <1>a, <1>b, JobRun, DeleteActivationType DEF StopDeactivate, StopSteps
<1>5. CASE StopUnpublish
  BY <1>5, <1>a, <1>b, JobRun, DeleteStableType DEF StopUnpublish, StopSteps
<1>6. CASE StopUnbind
  <2>1. Step("stop_unbind", "complete") /\ Legal("stop_unbind", "complete")
        /\ UNCHANGED <<waiter, owner, request>>
    BY <1>6, <1>b, Moves DEF StopUnbind, StopSteps, ResetStrikes, system
  <2>2. LoopOK' /\ HandsKnown'
    BY <2>1, StepLoop
  <2>3. LocalOK'
    BY <1>6 DEF StopUnbind, ResetStrikes, TypeInv, TypeOK, LocalOK
  <2> QED
    BY <1>6, <1>a, <2>2, <2>3, DeleteBindingsType, SystemFrame, RequestFrame, HistoryFrame
    DEF StopUnbind, TypeInv, TypeOK
<1> QED
  BY <1>1, <1>2, <1>3, <1>4, <1>5, <1>6 DEF HandleStop

-----------------------------------------------------------------------------
(* Sampling and terminateExecution. *)

\* Whatever leaves the jobs alone keeps what the loop holds.
LEMMA ResetStrikesType ==
  ASSUME LocalOK, NEW e, ResetStrikes(e)
  PROVE  LocalOK'
BY DEF LocalOK, ResetStrikes

LEMMA ResumeType ==
  ASSUME TypeInv, Resume, UNCHANGED <<waiter, owner, request>>
  PROVE  LoopOK' /\ HandsKnown'
BY DEF TypeInv, TypeOK, LoopOK, HandsKnown, Resume, WorkerSteps, JobSteps, LaunchSteps, StopSteps,
       BudgetSteps, Started

LEMMA SampleType ==
  ASSUME TypeInv, NEW p \in Launches, Sample(p),
         \/ UNCHANGED <<pc, target>>
         \/ pc' = "kill" /\ target' = owner[p] /\ owner[p] \in Execs,
         UNCHANGED waiter
  PROVE  LoopOK' /\ HandsKnown'
<1>1. LoopOK'
  BY DEF TypeInv, TypeOK, LoopOK, Sample, WorkerSteps, BudgetSteps
<1>2. UNCHANGED <<owner, request>> /\ pc \notin JobSteps \cup Started
      /\ "kill" \notin JobSteps \cup Started
  BY DEF Sample, system, JobSteps, LaunchSteps, StopSteps, Started
<1>3. HandsKnown'
  BY <1>2 DEF TypeInv, HandsKnown
<1> QED BY <1>1, <1>3

LEMMA OverBudgetType ==
  ASSUME TypeInv, NEW p \in Launches, OverBudget(p)
  PROVE  TypeInv'
<1> DEFINE strikes == breaches[owner[p]] + 1
<1>1. owner[p] \in Execs /\ Sample(p) /\ UNCHANGED <<processes, waiter>>
  BY DEF OverBudget, TypeInv, HandsKnown
<1>2. strikes \in Nat /\ breaches' = [breaches EXCEPT ![owner[p]] = strikes]
  BY <1>1 DEF OverBudget, TypeInv, TypeOK, LocalOK
<1>3. LocalOK'
  BY <1>1, <1>2 DEF TypeInv, TypeOK, LocalOK
<1>4. LoopOK' /\ HandsKnown'
  <2>1. CASE strikes < Strikes
    <3>1. UNCHANGED <<pc, target>>
      BY <2>1 DEF OverBudget
    <3> QED BY <1>1, <3>1, SampleType
  <2>2. CASE ~(strikes < Strikes)
    <3>1. pc' = "kill" /\ target' = owner[p]
      BY <2>2 DEF OverBudget
    <3> QED BY <1>1, <3>1, SampleType
  <2> QED BY <2>1, <2>2
<1>5. HistoryOK'
  <2>1. streak[owner[p]] \in 0 .. Strikes
    BY <1>1 DEF TypeInv, TypeOK, HistoryOK
  <2>2. (IF streak[owner[p]] < Strikes THEN streak[owner[p]] + 1 ELSE streak[owner[p]])
          \in 0 .. Strikes
    BY <2>1, BoundAssumption
  <2>3. streak' \in [Execs -> 0 .. Strikes]
    BY <2>2 DEF OverBudget, TypeInv, TypeOK, HistoryOK
  <2> QED BY <1>1, <2>3 DEF Sample, TypeInv, TypeOK, HistoryOK
<1>6. TablesOK' /\ SystemOK' /\ RequestOK'
  BY <1>1, TablesFrame, SystemFrame, RequestFrame DEF Sample, TypeInv, TypeOK
<1> QED BY <1>3, <1>4, <1>5, <1>6 DEF TypeInv, TypeOK

LEMMA SamplingType == TypeInv /\ SampleAndEnforce => TypeInv'
<1> SUFFICES ASSUME TypeInv, SampleAndEnforce PROVE TypeInv'
  OBVIOUS
<1>a. TablesOK
  BY DEF TypeInv, TypeOK
<1>1. CASE BeginSampling
  <2>1. pc' = "sampling" /\ pc' \notin JobSteps \cup BudgetSteps \cup Started
    BY <1>1 DEF BeginSampling, JobSteps, LaunchSteps, StopSteps, BudgetSteps, Started
  <2>2. LoopOK'
    BY <1>1, <2>1 DEF BeginSampling, TypeInv, TypeOK, LoopOK, LocalOK, WorkerSteps, Addrs, NoAddr
  <2>3. UNCHANGED <<tables, local, system, request, history>>
    BY <1>1 DEF BeginSampling, Outside
  <2>4. HandsKnown'
    BY <2>1, <2>3 DEF TypeInv, HandsKnown, local, system
  <2> QED
    BY <2>2, <2>3, <2>4, TablesFrame, LocalFrame, SystemFrame, RequestFrame, HistoryFrame
    DEF TypeInv, TypeOK
<1>b. \A here : Legal(here, "idle")
  BY DEF Legal, WorkerSteps, JobSteps, LaunchSteps, StopSteps, BudgetSteps, Started
<1>2. CASE SkipSampling
  BY <1>2, <1>b, ReadType DEF SkipSampling
<1>3. CASE EndSampling
  BY <1>3, <1>b, ReadType DEF EndSampling
<1>4. ASSUME NEW p \in Launches, SampleFails(p) PROVE TypeInv'
  <2>1. Sample(p) /\ UNCHANGED <<pc, target, local, streak>>
    BY <1>4 DEF SampleFails
  <2>2. LoopOK' /\ HandsKnown'
    BY <2>1, SampleType DEF local
  <2>3. UNCHANGED <<tables, system, request, history>>
    BY <2>1 DEF Sample, history
  <2> QED
    BY <2>1, <2>2, <2>3, TablesFrame, LocalFrame, SystemFrame, RequestFrame, HistoryFrame
    DEF TypeInv, TypeOK
<1>5. ASSUME NEW p \in Launches, WithinBudget(p) PROVE TypeInv'
  <2>1. Sample(p) /\ UNCHANGED <<pc, target, waiter>> /\ ResetStrikes(owner[p])
    BY <1>5 DEF WithinBudget, ResetStrikes
  <2>2. LoopOK' /\ HandsKnown'
    BY <2>1, SampleType
  <2>3. HistoryOK'
    <3>1. 0 \in 0 .. Strikes
      BY BoundAssumption
    <3>2. streak' \in [Execs -> 0 .. Strikes]
      BY <1>5, <3>1 DEF WithinBudget, TypeInv, TypeOK, HistoryOK
    <3> QED BY <2>1, <3>2 DEF Sample, TypeInv, TypeOK, HistoryOK
  <2>4. UNCHANGED <<tables, system, request>>
    BY <2>1 DEF Sample
  <2> QED
    BY <2>1, <2>2, <2>3, <2>4, ResetStrikesType, TablesFrame, SystemFrame, RequestFrame
    DEF TypeInv, TypeOK
<1>6. ASSUME NEW p \in Launches, OverBudget(p) PROVE TypeInv'
  BY <1>6, OverBudgetType
<1>7. CASE BudgetKill
  <2>1. pc \in BudgetSteps
    BY <1>7 DEF BudgetKill, Step, BudgetSteps
  <2> QED BY <1>7, <2>1, Busy, Moves, KillStepType DEF BudgetKill, BudgetSteps
<1>8. CASE BudgetMark
  BY <1>8, <1>a, BudgetRun, SetStatusType DEF BudgetMark, BudgetSteps, ExecStatuses
<1>9. CASE BudgetSuspend
  BY <1>9, <1>a, BudgetRun, SuspendType DEF BudgetSuspend, BudgetSteps
<1>10. CASE BudgetCheck
  BY <1>10, Moves, ReadType DEF BudgetCheck, BudgetSteps
<1>11. CASE BudgetDeactivate
  BY <1>11, <1>a, BudgetRun, DeleteActivationType DEF BudgetDeactivate, BudgetSteps
<1>12. CASE BudgetUnpublish
  BY <1>12, <1>a, BudgetRun, DeleteStableType DEF BudgetUnpublish, BudgetSteps
<1>13. CASE BudgetUnbind
  <2>1. Resume /\ DeleteBindings(target) /\ ResetStrikes(target)
        /\ UNCHANGED <<waiter, owner, system, request, history>>
    BY <1>13 DEF BudgetUnbind, ResetStrikes, system
  <2>2. LoopOK' /\ HandsKnown'
    BY <2>1, ResumeType
  <2> QED
    BY <1>a, <2>1, <2>2, ResetStrikesType, DeleteBindingsType, SystemFrame, RequestFrame, HistoryFrame
    DEF TypeInv, TypeOK
<1> QED
  BY <1>1, <1>2, <1>3, <1>4, <1>5, <1>6, <1>7, <1>8, <1>9, <1>10, <1>11, <1>12, <1>13
  DEF SampleAndEnforce

-----------------------------------------------------------------------------
(* Failing statements of the loop. *)

LEMMA ErrorsCount ==
  ASSUME TypeInv, errors < MaxErrors, errors' = errors + 1, UNCHANGED <<crashes, born, passed, streak>>
  PROVE  HistoryOK'
BY BoundAssumption DEF TypeInv, TypeOK, HistoryOK

LEMMA WorkerErrorType == TypeInv /\ WorkerError => TypeInv'
<1> SUFFICES ASSUME TypeInv, WorkerError PROVE TypeInv'
  OBVIOUS
<1>1. TablesOK /\ HistoryOK' /\ SystemOK' /\ RequestOK' /\ UNCHANGED <<owner, request>>
  BY ErrorsCount, SystemFrame, RequestFrame DEF WorkerError, TypeInv, TypeOK, system
<1>2. ASSUME StatementFails \/ BudgetMarkFails \/ ReportFails
      PROVE  TablesOK' /\ LocalOK' /\ UNCHANGED waiter
  BY <1>2, <1>1, TablesFrame, LocalFrame
  DEF StatementFails, BudgetMarkFails, ReportFails, TypeInv, TypeOK, local
<1>3. CASE StatementFails
  <2>1. \E here \in WorkerSteps, next \in WorkerSteps :
          Step(here, next) /\ Legal(here, next)
    <3> USE DEF Legal, WorkerSteps, JobSteps, LaunchSteps, StopSteps, BudgetSteps, Started
    <3>1. ASSUME NEW s \in {"launch", "prepare", "record", "unbind_unhealthy", "healthy", "bind",
                            "bind_stable", "bind_preview", "clear", "stop", "stop_mark"},
                 Step(s, "fail")
          PROVE  Step(s, "fail") /\ Legal(s, "fail") /\ s \in WorkerSteps /\ "fail" \in WorkerSteps
      BY <3>1
    <3>2. ASSUME NEW s \in {"auto", "auto_activate"}, Step(s, "bind")
          PROVE  Step(s, "bind") /\ Legal(s, "bind") /\ s \in WorkerSteps /\ "bind" \in WorkerSteps
      BY <3>2
    <3>3. ASSUME NEW s \in {"stop_check", "stop_deactivate"}, Step(s, "stop_unpublish")
          PROVE  /\ Step(s, "stop_unpublish") /\ Legal(s, "stop_unpublish")
                 /\ s \in WorkerSteps /\ "stop_unpublish" \in WorkerSteps
      BY <3>3
    <3>4. ASSUME NEW s \in {"check", "unpublish"}, Step(s, "unbind")
          PROVE  Step(s, "unbind") /\ Legal(s, "unbind") /\ s \in WorkerSteps /\ "unbind" \in WorkerSteps
      BY <3>4
    <3>5. /\ Legal("probe", "kill_unhealthy") /\ Legal("drop_stable", "bind_stable")
          /\ Legal("stop_unpublish", "stop_unbind")
          /\ Legal("suspend", "check") /\ Legal("deactivate", "unpublish")
          /\ {"probe", "kill_unhealthy", "drop_stable", "bind_stable", "stop_unpublish", "stop_unbind",
              "suspend", "check", "deactivate", "unpublish"} \subseteq WorkerSteps
      OBVIOUS
    <3> HIDE DEF Legal, WorkerSteps, JobSteps, LaunchSteps, StopSteps, BudgetSteps, Started
    <3> QED BY <1>3, <3>1, <3>2, <3>3, <3>4, <3>5 DEF StatementFails
  <2>2. LoopOK' /\ HandsKnown'
    BY <1>1, <1>2, <1>3, <2>1, StepLoop
  <2> QED BY <1>1, <1>2, <1>3, <2>2 DEF TypeInv, TypeOK
<1>4. CASE UnbindFails
  <2>1. ResetStrikes(target) /\ TablesOK' /\ UNCHANGED waiter
    BY <1>1, <1>4, TablesFrame DEF UnbindFails, ResetStrikes
  <2>2. LocalOK'
    BY <2>1, ResetStrikesType DEF TypeInv, TypeOK
  <2>3. Legal("stop_unbind", "complete")
    BY Moves DEF JobSteps, StopSteps, LaunchSteps, Started
  <2>4. LoopOK' /\ HandsKnown'
    BY <1>1, <1>4, <2>1, <2>3, StepLoop, ResumeType DEF UnbindFails
  <2> QED BY <1>1, <2>1, <2>2, <2>4 DEF TypeInv, TypeOK
<1>5. CASE BudgetMarkFails \/ ReportFails
  <2>1. LoopOK' /\ pc' \in {"idle", "sample"}
    BY <1>5 DEF BudgetMarkFails, ReportFails, LetGo, TypeInv, TypeOK, LoopOK, WorkerSteps, Addrs
  <2>2. HandsKnown'
    BY <1>1, <1>2, <1>5, <2>1
    DEF TypeInv, HandsKnown, JobSteps, LaunchSteps, StopSteps, BudgetSteps, Started
  <2> QED BY <1>1, <1>2, <1>5, <2>1, <2>2 DEF TypeInv, TypeOK
<1> QED BY <1>3, <1>4, <1>5 DEF WorkerError

-----------------------------------------------------------------------------
(* The exit goroutines. *)

LEMMA ExitType == \A p \in Launches : TypeInv /\ HandleExit(p) => TypeInv'
<1> SUFFICES ASSUME NEW p \in Launches, TypeInv, HandleExit(p) PROVE TypeInv'
  OBVIOUS
<1>a. TablesOK
  BY DEF TypeInv, TypeOK
<1>b. ASSUME waiter[p] # "none" PROVE owner[p] \in Execs /\ RefOf[owner[p]] \in Refs
  BY <1>b, RefAssumption DEF TypeInv, HandsKnown
<1>c. ASSUME NEW here, NEW next, RunExit(p, here, next) PROVE waiter[p] = here
  BY <1>c DEF RunExit, Await
<1>1. CASE Unregister(p)
  <2>1. Await(p, "wait", "look") /\ UNCHANGED <<breaches, tables, history>>
    BY <1>1 DEF Unregister
  <2>2. LoopOK' /\ SystemOK' /\ RequestOK' /\ HandsKnown' /\ waiter' \in [Launches -> WaiterSteps]
    BY <2>1, AwaitType DEF WaiterSteps
  <2>3. LocalOK'
    BY <1>1, <2>1, <2>2 DEF Unregister, TypeInv, TypeOK, LocalOK, Addrs
  <2> QED BY <2>1, <2>2, <2>3, TablesFrame, HistoryFrame DEF TypeInv, TypeOK
<1>2. CASE ExitLook(p)
  BY <1>2, <1>a, TablesFrame, RunExitType DEF ExitLook, WaiterSteps
<1>3. CASE ExitMark(p)
  BY <1>3, <1>a, <1>b, <1>c, SetStatusType, RunExitType DEF ExitMark, WaiterSteps, ExecStatuses
<1>4. CASE ExitUnbind(p)
  BY <1>4, <1>a, DeleteBindingsType, RunExitType DEF ExitUnbind, WaiterSteps
<1>5. CASE ExitCheck(p)
  BY <1>5, <1>a, TablesFrame, RunExitType DEF ExitCheck, WaiterSteps
<1>6. CASE ExitDeactivate(p)
  BY <1>6, <1>a, <1>b, <1>c, DeleteActivationType, RunExitType DEF ExitDeactivate, WaiterSteps
<1>7. CASE ExitUnpublish(p)
  BY <1>7, <1>a, DeleteStableType, RunExitType DEF ExitUnpublish, WaiterSteps
<1>d. ASSUME ForgetStrikes(p), waiter' \in [Launches -> WaiterSteps] PROVE LocalOK'
  BY <1>d DEF ForgetStrikes, TypeInv, TypeOK, LocalOK
<1>8. CASE ExitSuspend(p)
  <2>1. Await(p, "suspend", "done") /\ Suspend(owner[p]) /\ ForgetStrikes(p) /\ UNCHANGED history
        /\ waiter[p] # "none"
    BY <1>8 DEF ExitSuspend, Await
  <2>2. LoopOK' /\ SystemOK' /\ RequestOK' /\ HandsKnown' /\ waiter' \in [Launches -> WaiterSteps]
    BY <2>1, AwaitType DEF WaiterSteps
  <2> QED
    BY <1>a, <1>b, <1>d, <2>1, <2>2, SuspendType, HistoryFrame DEF TypeInv, TypeOK
<1>9. CASE ExitError(p)
  <2>1. HistoryOK' /\ TablesOK'
    BY <1>9, <1>a, ErrorsCount, TablesFrame DEF ExitError
  <2>2. \E here, next \in WaiterSteps : Await(p, here, next) /\ here # "none"
    BY <1>9 DEF ExitError, WaiterSteps
  <2>3. LoopOK' /\ SystemOK' /\ RequestOK' /\ HandsKnown' /\ waiter' \in [Launches -> WaiterSteps]
    BY <2>2, AwaitType
  <2>4. UNCHANGED <<processes, breaches>> \/ ForgetStrikes(p)
    BY <1>9 DEF ExitError
  <2>5. LocalOK'
    BY <1>d, <2>3, <2>4 DEF TypeInv, TypeOK, LocalOK
  <2> QED BY <2>1, <2>3, <2>5 DEF TypeInv, TypeOK
<1> QED
  BY <1>1, <1>2, <1>3, <1>4, <1>5, <1>6, <1>7, <1>8, <1>9 DEF HandleExit

-----------------------------------------------------------------------------
(* The HTTP commands. *)

LEMMA CommandsType == TypeInv /\ Commands => TypeInv'
<1> SUFFICES ASSUME TypeInv, Commands PROVE TypeInv'
  OBVIOUS
<1>a. TablesOK
  BY DEF TypeInv, TypeOK
<1>1. ASSUME NEW e \in Execs, RequestLaunch(e) PROVE TypeInv'
  BY <1>1, <1>a, SetStatusType, CommandType DEF RequestLaunch, ExecStatuses
<1>2. ASSUME NEW e \in Execs, EnqueueLaunch(e) \/ RequestStop(e) PROVE TypeInv'
  <2>1. <<"launch", e>> \in Jobs /\ <<"stop", e>> \in Jobs /\ "pending" \in JobStatuses
    BY DEF Jobs, LaunchJobs, StopJobs, JobStatuses
  <2>2. \E j \in Jobs : SetJob(j, "pending")
    BY <1>2, <2>1 DEF EnqueueLaunch, RequestStop, InsertJob
  <2>3. TablesOK'
    BY <1>a, <2>1, <2>2, SetJobType
  <2> QED BY <1>2, <2>3, CommandType DEF EnqueueLaunch, RequestStop
<1>3. ASSUME NEW a \in Activators, ActivateCommand(a) PROVE TypeInv'
  <2>b. request[a].pc \in RequestBusy =>
          request[a].exec \in Execs /\ request[a].addr \in Addrs
    BY DEF TypeInv, TypeOK, RequestOK, HandsKnown
  <2>c. ASSUME NEW here, NEW next, RequestStep(a, here, next) PROVE request[a].pc = here
    BY <2>c DEF RequestStep
  <2>1. ASSUME NEW e \in Execs, ReadHealthy(a, e) PROVE TypeInv'
    <3>1. UNCHANGED <<tables, pc, hand, local, system, history>>
      BY <2>1 DEF ReadHealthy, memory
    <3>2. request' \in [Activators -> [pc : RequestSteps, exec : Execs \cup {None}, addr : Addrs]]
      BY <2>1, <1>a DEF ReadHealthy, TypeInv, TypeOK, RequestOK, TablesOK, RequestSteps
    <3>3. \A b \in Activators : request'[b].pc \in RequestBusy => request'[b].exec \in Execs
      BY <2>1 DEF ReadHealthy, TypeInv, TypeOK, RequestOK, HandsKnown
    <3>4. HandsKnown'
      BY <3>1, <3>3 DEF TypeInv, HandsKnown, hand, local, system
    <3> QED
      BY <3>1, <3>2, <3>4, TablesFrame, LoopFrame, LocalFrame, SystemFrame, HistoryFrame
      DEF TypeInv, TypeOK, RequestOK
  <2>2. CASE ActivateRequested(a)
    BY <2>2, <1>a, <2>b, <2>c, ActivateType, RequestStepType
    DEF ActivateRequested, RequestBusy, RequestSteps
  <2>3. CASE UnpublishRequested(a)
    BY <2>3, <1>a, DeleteStableType, RequestStepType
    DEF UnpublishRequested, RequestBusy, RequestSteps
  <2>4. CASE BindRequested(a)
    BY <2>4, <1>a, <2>b, <2>c, ReplaceBindingsType, RequestStepType
    DEF BindRequested, RequestBusy, RequestSteps
  <2>5. CASE AbandonRequest(a)
    BY <2>5, <1>a, TablesFrame, RequestStepType DEF AbandonRequest, RequestBusy, RequestSteps
  <2> QED BY <1>3, <2>1, <2>2, <2>3, <2>4, <2>5 DEF ActivateCommand
<1> QED BY <1>1, <1>2, <1>3 DEF Commands

-----------------------------------------------------------------------------
(* Startup, claims and reports, the exit of a process, a crash of execd. *)

LEMMA FailedRowType == \A row \in JobRows : FailedRow(row) \in JobRows
  BY DEF FailedRow, JobRows, JobStatuses

LEMMA IdleMoves ==
  /\ Legal("down", "reset_jobs") /\ Legal("reset_jobs", "idle")
  /\ \A next \in {"down", "idle", "sample"} :
        next \in WorkerSteps /\ next \notin JobSteps \cup BudgetSteps \cup Started
BY DEF Legal, WorkerSteps, StartupSteps, JobSteps, LaunchSteps, StopSteps, BudgetSteps, Started

LEMMA ReportType ==
  ASSUME TypeInv, UNCHANGED Outside, TablesOK', LetGo("sample") \/ LetGo("idle")
  PROVE  TypeInv'
<1>1. LoopOK' /\ pc' \in {"sample", "idle"}
  BY IdleMoves DEF LetGo, TypeInv, TypeOK, LoopOK, Addrs
<1>2. UNCHANGED <<local, system, request, history>>
  BY DEF Outside
<1>3. HandsKnown'
  BY <1>1, <1>2, IdleMoves DEF TypeInv, HandsKnown, local, system
<1> QED
  BY <1>1, <1>2, <1>3, LocalFrame, SystemFrame, RequestFrame, HistoryFrame DEF TypeInv, TypeOK

LEMMA CrashType == TypeInv /\ Crash => TypeInv'
<1> SUFFICES ASSUME TypeInv, Crash PROVE TypeInv'
  OBVIOUS
<1>1. TablesOK' /\ RequestOK' /\ UNCHANGED <<owner, request>>
  BY TablesFrame, RequestFrame DEF Crash, TypeInv, TypeOK
<1>2. LoopOK' /\ pc' = "down"
  BY DEF Crash, LoopOK, WorkerSteps, StartupSteps, Addrs
<1>3. waiter' \in [Launches -> WaiterSteps]
      /\ \A p \in Launches : waiter'[p] # "none" => waiter[p] # "none"
  BY DEF Crash, TypeInv, TypeOK, LocalOK, WaiterSteps
<1>4. LocalOK'
  BY <1>3 DEF Crash, LocalOK, Addrs
<1>5. SystemOK'
  BY <1>1 DEF Crash, SystemOK, TypeInv, TypeOK
<1>6. HistoryOK'
  BY BoundAssumption DEF Crash, HistoryOK, TypeInv, TypeOK
<1>7. HandsKnown'
  BY <1>1, <1>2, <1>3, IdleMoves DEF TypeInv, HandsKnown
<1> QED BY <1>1, <1>2, <1>4, <1>5, <1>6, <1>7 DEF TypeInv, TypeOK

LEMMA WorkerType == TypeInv /\ Worker => TypeInv'
<1> SUFFICES ASSUME TypeInv, Worker PROVE TypeInv'
  OBVIOUS
<1>a. TablesOK /\ jobs \in [Jobs -> JobRows]
  BY DEF TypeInv, TypeOK, TablesOK
<1>1. CASE ResetExecutions
  <2>1. TablesOK'
    BY <1>1, <1>a DEF ResetExecutions, RoutesAfterReset, TablesOK, ExecStatuses
  <2> QED BY <1>1, <2>1, IdleMoves, RunType DEF ResetExecutions
<1>2. CASE ResetJobs
  <2>1. [j \in Jobs |-> IF jobs[j].status = "running"
                        THEN [status |-> "pending", attempts |-> jobs[j].attempts]
                        ELSE jobs[j]] \in [Jobs -> JobRows]
    BY <1>a DEF JobRows, JobStatuses
  <2> QED BY <1>2, <1>a, <2>1, SetJobsType, IdleMoves, RunType DEF ResetJobs
<1>3. ASSUME NEW j \in Jobs, ClaimJob(j) PROVE TypeInv'
  <2>1. j[1] \in {"launch", "stop"} /\ j[2] \in Execs
    BY DEF Jobs, LaunchJobs, StopJobs
  <2>2. pc' = j[1] /\ job' = j /\ target' = j[2] /\ SetJob(j, "running")
        /\ UNCHANGED <<fresh, todo, local, system, request, history>>
    BY <1>3 DEF ClaimJob, Outside
  <2>3. pc' \in WorkerSteps /\ pc' \notin BudgetSteps \cup Started
    BY <2>1, <2>2 DEF WorkerSteps, JobSteps, LaunchSteps, StopSteps, BudgetSteps, Started
  <2>4. TablesOK' /\ LoopOK'
    BY <1>a, <2>1, <2>2, <2>3, SetJobType DEF TypeInv, TypeOK, LoopOK, JobStatuses
  <2>5. HandsKnown'
    BY <2>1, <2>2, <2>3 DEF TypeInv, HandsKnown, local, system
  <2> QED
    BY <2>2, <2>4, <2>5, LocalFrame, SystemFrame, RequestFrame, HistoryFrame DEF TypeInv, TypeOK
<1>4. CASE CompleteJob
  <2>1. job \in Jobs /\ "completed" \in JobStatuses
    BY <1>4 DEF CompleteJob, TypeInv, HandsKnown, JobSteps, JobStatuses
  <2> QED BY <1>4, <1>a, <2>1, SetJobType, ReportType DEF CompleteJob
<1>5. CASE FailJob
  <2>1. job \in Jobs
    BY <1>5 DEF FailJob, TypeInv, HandsKnown, JobSteps
  <2>2. [jobs EXCEPT ![job] = FailedRow(@)] \in [Jobs -> JobRows]
    BY <1>a, <2>1, FailedRowType
  <2> QED BY <1>5, <1>a, <2>2, SetJobsType, ReportType DEF FailJob
<1> QED
  BY <1>1, <1>2, <1>3, <1>4, <1>5, LaunchType, StopType, SamplingType, WorkerErrorType DEF Worker

LEMMA StepType == TypeInv /\ [Next]_vars => TypeInv'
<1> SUFFICES ASSUME TypeInv, [Next]_vars PROVE TypeInv'
  OBVIOUS
<1>1. ASSUME NEW p \in Launches, Exit(p) PROVE TypeInv'
  <2>1. UNCHANGED <<owner, memory, tables, request, history>> /\ SystemOK'
    BY <1>1 DEF Exit, TypeInv, TypeOK, SystemOK
  <2>2. UNCHANGED <<pc, hand, local>>
    BY <2>1 DEF memory
  <2>3. HandsKnown'
    BY <2>1, <2>2 DEF TypeInv, HandsKnown, hand, local
  <2> QED
    BY <2>1, <2>2, <2>3, TablesFrame, LoopFrame, LocalFrame, RequestFrame, HistoryFrame
    DEF TypeInv, TypeOK
<1>2. CASE UNCHANGED vars
  BY <1>2, TablesFrame, CommandType DEF vars, TypeInv, TypeOK
<1> QED
  BY <1>1, <1>2, WorkerType, CommandsType, ExitType, CrashType DEF Next

LEMMA TypeInvariant == Spec => []TypeInv
BY InitType, StepType, PTL DEF Spec

\* Every table, every register of the worker and every process keeps its type.
THEOREM TypeCorrect == Spec => []TypeOK
<1>1. TypeInv => TypeOK
  BY DEF TypeInv
<1> QED BY <1>1, TypeInvariant, PTL

-----------------------------------------------------------------------------
(* The worker loop and the commands implement the job queue. *)

\* The loop holds a job exactly while a handler runs, and the table says so.
HandMatchesTable ==
    /\ pc \notin JobSteps => job = None
    /\ job # None => jobs[job].status = "running"
    /\ \A j \in Jobs : jobs[j].status = "absent" => jobs[j].attempts = 0

QueueInv == TypeInv /\ HandMatchesTable

\* The steps that are no business of the queue ...
OffQueue ==
    /\ UNCHANGED <<jobs, job, crashes>>
    /\ pc \in StartupSteps <=> pc' \in StartupSteps
    /\ pc \in JobSteps <=> pc' \in JobSteps

\* ... and the others.
ReportLost == ReportFails /\ errors < MaxErrors /\ UNCHANGED crashes
QueueStep ==
    \/ ResetJobs \/ CompleteJob \/ FailJob \/ ReportLost \/ Crash
    \/ \E j \in Jobs : ClaimJob(j)
    \/ \E e \in Execs : EnqueueLaunch(e) \/ RequestStop(e)

LEMMA StatementsOffQueue ==
  /\ \A e, s, addr : SetRow(e, s, addr) => UNCHANGED jobs
  /\ \A e, s : SetStatus(e, s) => UNCHANGED jobs
  /\ \A e : Activate(e) \/ DeleteBindings(e) \/ Suspend(e) => UNCHANGED jobs
  /\ \A r : DeleteActivation(r) \/ DeleteStable(r) \/ ClearSuspension(r) => UNCHANGED jobs
  /\ \A e, kinds, addr : ReplaceBindings(e, kinds, addr) => UNCHANGED jobs
  /\ UNCHANGED tables => UNCHANGED jobs
BY DEF SetRow, SetStatus, Activate, SetActivation, DeleteActivation, DeleteStable, SetBindings,
       DeleteBindings, ReplaceBindings, SetSuspension, Suspend, ClearSuspension, tables

\* A move inside a handler, or outside of any.
LEMMA MoveOffQueue ==
  ASSUME NEW here, NEW next, Step(here, next), UNCHANGED <<jobs, crashes>>,
         \/ here \in JobSteps /\ next \in JobSteps
         \/ here \in BudgetSteps /\ next \in BudgetSteps
         \/ here = "down" /\ next = "reset_jobs"
         \/ here \in {"sample", "sampling"} /\ next = "idle"
  PROVE  OffQueue
BY DEF OffQueue, Step, hand, StartupSteps, JobSteps, LaunchSteps, StopSteps, BudgetSteps

LEMMA RunOffQueue ==
  ASSUME NEW here, NEW next, Run(here, next), UNCHANGED jobs,
         \/ here \in JobSteps /\ next \in JobSteps
         \/ here \in BudgetSteps /\ next \in BudgetSteps
         \/ here = "down" /\ next = "reset_jobs"
         \/ here \in {"sample", "sampling"} /\ next = "idle"
  PROVE  OffQueue
<1>1. Step(here, next) /\ UNCHANGED crashes
  BY DEF Run, Outside, history
<1> QED BY <1>1, MoveOffQueue

LEMMA LaunchOffQueue == HandleLaunch => OffQueue
<1> SUFFICES ASSUME HandleLaunch PROVE OffQueue
  OBVIOUS
<1> USE StatementsOffQueue DEF JobSteps, LaunchSteps
<1>1. CASE LaunchStarting
  BY <1>1, RunOffQueue DEF LaunchStarting
<1>2. CASE PrepareFails
  BY <1>2, RunOffQueue DEF PrepareFails
<1>3. ASSUME NEW p \in Launches, StartProcess(p) PROVE OffQueue
  BY <1>3 DEF StartProcess, OffQueue, StartupSteps, tables
<1>4. CASE RecordUpstream
  BY <1>4, RunOffQueue DEF RecordUpstream
<1>5. CASE HealthPasses
  BY <1>5, MoveOffQueue DEF HealthPasses
<1>6. CASE HealthTimesOut
  BY <1>6, RunOffQueue DEF HealthTimesOut
<1>7. CASE KillUnhealthy
  BY <1>7, MoveOffQueue DEF KillUnhealthy, history
<1>8. CASE UnbindUnhealthy
  BY <1>8, RunOffQueue DEF UnbindUnhealthy
<1>9. CASE MarkHealthy
  BY <1>9, RunOffQueue DEF MarkHealthy
<1>10. CASE CheckActivation
  BY <1>10, RunOffQueue DEF CheckActivation, Read
<1>11. CASE AutoActivate
  BY <1>11, RunOffQueue DEF AutoActivate
<1>12. CASE ReadActivation
  BY <1>12, RunOffQueue DEF ReadActivation, Read
<1>13. CASE DropStable
  BY <1>13, RunOffQueue DEF DropStable
<1>14. CASE BindStable
  BY <1>14, RunOffQueue DEF BindStable
<1>15. CASE BindPreview
  BY <1>15, RunOffQueue DEF BindPreview
<1>16. CASE ClearSuspensions
  BY <1>16, RunOffQueue DEF ClearSuspensions
<1> QED
  BY <1>1, <1>2, <1>3, <1>4, <1>5, <1>6, <1>7, <1>8, <1>9, <1>10, <1>11, <1>12, <1>13, <1>14,
     <1>15, <1>16 DEF HandleLaunch

LEMMA StopOffQueue == HandleStop => OffQueue
<1> SUFFICES ASSUME HandleStop PROVE OffQueue
  OBVIOUS
<1> USE StatementsOffQueue DEF JobSteps, StopSteps
<1>1. CASE StopKill
  BY <1>1, MoveOffQueue DEF StopKill, history
<1>2. CASE StopMark
  BY <1>2, RunOffQueue DEF StopMark
<1>3. CASE StopCheck
  BY <1>3, RunOffQueue DEF StopCheck, Read
<1>4. CASE StopDeactivate
  BY <1>4, RunOffQueue DEF StopDeactivate
<1>5. CASE StopUnpublish
  BY <1>5, RunOffQueue DEF StopUnpublish
<1>6. CASE StopUnbind
  BY <1>6, MoveOffQueue DEF StopUnbind, history
<1> QED BY <1>1, <1>2, <1>3, <1>4, <1>5, <1>6 DEF HandleStop

LEMMA SamplingOffQueue == SampleAndEnforce => OffQueue
<1> SUFFICES ASSUME SampleAndEnforce PROVE OffQueue
  OBVIOUS
<1> USE StatementsOffQueue
<1> DEFINE Outer == {"idle", "sample", "sampling"} \cup BudgetSteps
<1>a. \A s \in Outer : s \notin StartupSteps \cup JobSteps
  BY DEF StartupSteps, JobSteps, LaunchSteps, StopSteps, BudgetSteps
<1>b. ASSUME pc \in Outer, pc' \in Outer, UNCHANGED <<jobs, job, crashes>> PROVE OffQueue
  BY <1>a, <1>b DEF OffQueue
<1> USE DEF BudgetSteps
<1>1. CASE BeginSampling
  BY <1>1, <1>b DEF BeginSampling, Outside, history
<1>2. CASE SkipSampling \/ EndSampling
  BY <1>2, RunOffQueue DEF SkipSampling, EndSampling, Read
<1>3. ASSUME NEW p \in Launches, SampleFails(p) PROVE OffQueue
  BY <1>3, <1>b DEF SampleFails, Sample
<1>4. ASSUME NEW p \in Launches, WithinBudget(p) PROVE OffQueue
  BY <1>4, <1>b DEF WithinBudget, Sample
<1>5. ASSUME NEW p \in Launches, OverBudget(p) PROVE OffQueue
  BY <1>5, <1>b DEF OverBudget, Sample
<1>6. CASE BudgetKill
  BY <1>6, MoveOffQueue DEF BudgetKill, history
<1>7. CASE BudgetMark
  BY <1>7, RunOffQueue DEF BudgetMark
<1>8. CASE BudgetSuspend
  BY <1>8, RunOffQueue DEF BudgetSuspend
<1>9. CASE BudgetCheck
  BY <1>9, RunOffQueue DEF BudgetCheck, Read
<1>10. CASE BudgetDeactivate
  BY <1>10, RunOffQueue DEF BudgetDeactivate
<1>11. CASE BudgetUnpublish
  BY <1>11, RunOffQueue DEF BudgetUnpublish
<1>12. CASE BudgetUnbind
  BY <1>12, <1>b DEF BudgetUnbind, Resume, history
<1> QED
  BY <1>1, <1>2, <1>3, <1>4, <1>5, <1>6, <1>7, <1>8, <1>9, <1>10, <1>11, <1>12
  DEF SampleAndEnforce

LEMMA ErrorOffQueue == WorkerError => OffQueue \/ ReportLost
<1> SUFFICES ASSUME WorkerError PROVE OffQueue \/ ReportLost
  OBVIOUS
<1>a. UNCHANGED crashes /\ errors < MaxErrors
  BY DEF WorkerError
<1>1. CASE StatementFails
  <2>1. UNCHANGED <<jobs, crashes>>
    BY <1>1, <1>a DEF StatementFails, tables
  <2>2. PICK here \in JobSteps \cup BudgetSteps, next \in JobSteps \cup BudgetSteps :
          Step(here, next) /\ (here \in JobSteps <=> next \in JobSteps)
    BY <1>1 DEF StatementFails, JobSteps, LaunchSteps, StopSteps, BudgetSteps
  <2> QED BY <2>1, <2>2, MoveOffQueue
<1>2. CASE UnbindFails
  <2>1. UNCHANGED <<jobs, crashes>>
    BY <1>2, <1>a DEF UnbindFails, tables
  <2>2. CASE Step("stop_unbind", "complete")
    BY <2>1, <2>2, MoveOffQueue DEF JobSteps, StopSteps
  <2>3. CASE pc = "unbind" /\ Resume
    BY <2>1, <2>3 DEF OffQueue, Resume, StartupSteps, JobSteps, LaunchSteps, StopSteps
  <2> QED BY <1>2, <2>2, <2>3 DEF UnbindFails
<1>3. CASE BudgetMarkFails
  BY <1>3, <1>a
  DEF BudgetMarkFails, OffQueue, tables, StartupSteps, JobSteps, LaunchSteps, StopSteps
<1>4. CASE ReportFails
  BY <1>4, <1>a DEF ReportLost
<1> QED BY <1>1, <1>2, <1>3, <1>4 DEF WorkerError

\* What happens outside the worker loop.
LEMMA ElsewhereOffQueue ==
  ASSUME UNCHANGED <<jobs, pc, hand, crashes>>
  PROVE  OffQueue
BY DEF OffQueue, hand

LEMMA CommandsOffQueue ==
  Commands => OffQueue \/ \E e \in Execs : EnqueueLaunch(e) \/ RequestStop(e)
<1> SUFFICES ASSUME Commands, ~ \E e \in Execs : EnqueueLaunch(e) \/ RequestStop(e)
             PROVE  OffQueue
  OBVIOUS
<1> USE StatementsOffQueue, ElsewhereOffQueue DEF memory, history
<1>1. ASSUME NEW e \in Execs, RequestLaunch(e) PROVE OffQueue
  BY <1>1 DEF RequestLaunch
<1>2. ASSUME NEW a \in Activators, ActivateCommand(a) PROVE OffQueue
  <2>1. CASE \E e \in Execs : ReadHealthy(a, e)
    BY <2>1 DEF ReadHealthy
  <2>2. CASE ActivateRequested(a)
    BY <2>2 DEF ActivateRequested, RequestStep
  <2>3. CASE UnpublishRequested(a)
    BY <2>3 DEF UnpublishRequested, RequestStep
  <2>4. CASE BindRequested(a)
    BY <2>4 DEF BindRequested, RequestStep
  <2>5. CASE AbandonRequest(a)
    BY <2>5 DEF AbandonRequest, RequestStep
  <2> QED BY <1>2, <2>1, <2>2, <2>3, <2>4, <2>5 DEF ActivateCommand
<1> QED BY <1>1, <1>2 DEF Commands

LEMMA ExitOffQueue ==
  ASSUME NEW p \in Launches, Exit(p) \/ HandleExit(p)
  PROVE  OffQueue
<1> USE StatementsOffQueue, ElsewhereOffQueue DEF history
<1>1. CASE Exit(p)
  BY <1>1 DEF Exit, memory
<1>2. CASE Unregister(p)
  BY <1>2 DEF Unregister, Await
<1>3. CASE ExitLook(p) \/ ExitCheck(p)
  BY <1>3 DEF ExitLook, ExitCheck, RunExit, Await
<1>4. CASE ExitMark(p) \/ ExitUnbind(p)
  BY <1>4 DEF ExitMark, ExitUnbind, RunExit, Await
<1>5. CASE ExitDeactivate(p) \/ ExitUnpublish(p)
  BY <1>5 DEF ExitDeactivate, ExitUnpublish, RunExit, Await
<1>6. CASE ExitSuspend(p)
  BY <1>6 DEF ExitSuspend, Await
<1>7. CASE ExitError(p)
  BY <1>7 DEF ExitError, Await
<1> QED BY <1>1, <1>2, <1>3, <1>4, <1>5, <1>6, <1>7 DEF HandleExit

\* Every step is one of the queue's or none of its business.
LEMMA OnOrOffQueue == [Next]_vars => OffQueue \/ QueueStep
<1> SUFFICES ASSUME [Next]_vars, ~QueueStep PROVE OffQueue
  OBVIOUS
<1>1. CASE ResetExecutions
  BY <1>1, RunOffQueue DEF ResetExecutions
<1>2. CASE UNCHANGED vars
  BY <1>2, ElsewhereOffQueue DEF vars, tables, memory, history
<1>3. CASE Worker
  BY <1>1, <1>3, LaunchOffQueue, StopOffQueue, SamplingOffQueue, ErrorOffQueue DEF Worker, QueueStep
<1> QED BY <1>2, <1>3, CommandsOffQueue, ExitOffQueue DEF Next, QueueStep
-----------------------------------------------------------------------------
(* HandMatchesTable is inductive. *)

LEMMA InitHand == Init => HandMatchesTable
BY DEF Init, HandMatchesTable

LEMMA SetJobRow ==
  ASSUME TypeInv, NEW j \in Jobs, NEW s, SetJob(j, s)
  PROVE  \A k \in Jobs : /\ jobs'[k].status = IF k = j THEN s ELSE jobs[k].status
                         /\ jobs'[k].attempts = jobs[k].attempts
BY DEF SetJob, SetJobs, TypeInv, TypeOK, TablesOK, JobRows

\* What the loop holds is one of the jobs, or nothing.
LEMMA HeldJob ==
  ASSUME TypeInv
  PROVE  job \in Jobs \cup {None} /\ jobs \in [Jobs -> JobRows]
BY DEF TypeInv, TypeOK, TablesOK, LoopOK

LEMMA QueueStepHand == QueueInv /\ QueueStep => HandMatchesTable'
<1> SUFFICES ASSUME QueueInv, QueueStep PROVE HandMatchesTable'
  OBVIOUS
<1> USE HandAssumption, HeldJob DEF QueueInv
<1>a. /\ "idle" \notin JobSteps /\ "reset_jobs" \notin JobSteps
      /\ "launch" \in JobSteps /\ "stop" \in JobSteps
  BY DEF JobSteps, LaunchSteps, StopSteps
<1>1. CASE ResetJobs
  <2>1. job = None /\ job' = None
    BY <1>1, <1>a DEF ResetJobs, Run, Step, hand, HandMatchesTable
  <2>2. \A j \in Jobs : jobs'[j].status = "absent" => jobs[j].status = "absent" /\ jobs'[j] = jobs[j]
    BY <1>1 DEF ResetJobs, SetJobs
  <2> QED BY <2>1, <2>2 DEF HandMatchesTable
<1>2. CASE CompleteJob
  <2>1. job \in Jobs /\ job' = None /\ SetJob(job, "completed")
    BY <1>2 DEF CompleteJob, LetGo, TypeInv, HandsKnown, JobSteps
  <2> QED BY <2>1, SetJobRow DEF HandMatchesTable
<1>3. CASE FailJob
  <2>1. job \in Jobs /\ job' = None
    BY <1>3 DEF FailJob, LetGo, TypeInv, HandsKnown, JobSteps
  <2>2. jobs'[job].status # "absent" /\ \A j \in Jobs \ {job} : jobs'[j] = jobs[j]
    BY <1>3, <2>1 DEF FailJob, SetJobs, FailedRow
  <2> QED BY <2>1, <2>2 DEF HandMatchesTable
<1>4. CASE ReportLost \/ Crash
  BY <1>4 DEF ReportLost, ReportFails, Crash, LetGo, tables, HandMatchesTable
<1>5. ASSUME NEW j \in Jobs, ClaimJob(j) PROVE HandMatchesTable'
  <2>1. job' = j /\ pc' \in JobSteps /\ SetJob(j, "running")
    BY <1>5, <1>a DEF ClaimJob, Jobs, LaunchJobs, StopJobs
  <2> QED BY <2>1, SetJobRow DEF HandMatchesTable
<1>6. ASSUME NEW j \in Jobs, InsertJob(j), UNCHANGED memory PROVE HandMatchesTable'
  <2>1. SetJob(j, "pending") /\ jobs[j].status = "absent" /\ UNCHANGED <<pc, job>>
    BY <1>6 DEF InsertJob, memory, hand
  <2> QED BY <2>1, SetJobRow DEF HandMatchesTable
<1>7. ASSUME NEW e \in Execs, EnqueueLaunch(e) \/ RequestStop(e) PROVE HandMatchesTable'
  BY <1>6, <1>7 DEF EnqueueLaunch, RequestStop, Jobs, LaunchJobs, StopJobs
<1> QED BY <1>1, <1>2, <1>3, <1>4, <1>5, <1>7 DEF QueueStep

LEMMA QueueInvStep == QueueInv /\ [Next]_vars => QueueInv'
<1> SUFFICES ASSUME QueueInv, [Next]_vars PROVE HandMatchesTable'
  BY StepType DEF QueueInv
<1>1. CASE OffQueue
  BY <1>1 DEF OffQueue, QueueInv, HandMatchesTable
<1> QED BY <1>1, OnOrOffQueue, QueueStepHand

LEMMA QueueInvariant == Spec => []QueueInv
<1>1. Init => QueueInv
  BY InitType, InitHand DEF QueueInv
<1> QED BY <1>1, QueueInvStep, PTL DEF Spec

-----------------------------------------------------------------------------
(* The refinement mapping, step by step.  Rows stands for the mapped table  *)
(* and Away for what the mapping says is forgotten.                         *)

MappedRows == [j \in Jobs |-> JobRow(j)]
Away       == {j \in Jobs : jobs[j].status = "running"} \ {job}

LEMMA RowPresent ==
  ASSUME NEW j, jobs[j].status # "absent"
  PROVE  JobRow(j) = [status |-> jobs[j].status, attempts |-> jobs[j].attempts, due |-> TRUE]
<1>1. (jobs[j].status # "absent") = TRUE
  OBVIOUS
<1> QED BY <1>1, Zenon DEF JobRow

LEMMA RowPresentNext ==
  ASSUME NEW j, (jobs[j].status # "absent")'
  PROVE  JobRow(j)' = [status |-> jobs'[j].status, attempts |-> jobs'[j].attempts, due |-> TRUE]
<1>1. (jobs[j].status # "absent")' = TRUE
  OBVIOUS
<1> QED BY <1>1, Zenon DEF JobRow

LEMMA RowKept ==
  ASSUME NEW j, jobs'[j].status = jobs[j].status, jobs'[j].attempts = jobs[j].attempts
  PROVE  JobRow(j)' = JobRow(j)
BY Zenon DEF JobRow

\* What the queue makes of the row of a running job.
Running(a) == [status |-> "running", attempts |-> a, due |-> TRUE]

LEMMA RunningCompletes ==
  ASSUME NEW a
  PROVE  [Running(a) EXCEPT !.status = "completed"]
           = [status |-> "completed", attempts |-> a, due |-> TRUE]
<1>1. \A d : [[status |-> "running", attempts |-> a, due |-> d] EXCEPT !.status = "completed"]
               = [status |-> "completed", attempts |-> a, due |-> d]
  OBVIOUS
<1> QED BY <1>1, Zenon DEF Running

LEMMA RunningFails ==
  ASSUME NEW a
  PROVE  Queue!FailedRow(Running(a), FALSE) =
            IF a + 1 >= MaxAttempts
            THEN [status |-> "failed", attempts |-> a + 1, due |-> TRUE]
            ELSE [status |-> "pending", attempts |-> a + 1, due |-> TRUE]
<1>1. (~FALSE) = TRUE
  OBVIOUS
<1>2. CASE a + 1 >= MaxAttempts
  <2>1. PICK row : row = [Running(a) EXCEPT !.status = "failed"]
    OBVIOUS
  <2>2. row = [status |-> "failed", attempts |-> a, due |-> TRUE]
    BY <2>1 DEF Running
  <2>3. [row EXCEPT !.attempts = a + 1] = [status |-> "failed", attempts |-> a + 1, due |-> TRUE]
    <3>1. ASSUME NEW d, NEW b, row = [status |-> "failed", attempts |-> a, due |-> d]
          PROVE  [row EXCEPT !.attempts = b] = [status |-> "failed", attempts |-> b, due |-> d]
      BY <3>1
    <3> QED BY <2>2, <3>1
  <2>4. Running(a).attempts = a
    BY DEF Running
  <2>5. [Running(a) EXCEPT !.status = "failed", !.attempts = @ + 1] = [row EXCEPT !.attempts = a + 1]
    BY <2>1, <2>4, Zenon DEF Running
  <2> QED BY <1>2, <2>3, <2>5 DEF Queue!FailedRow
<1>3. CASE ~ (a + 1 >= MaxAttempts)
  BY <1>1, <1>3 DEF Queue!FailedRow, Running
<1> QED BY <1>2, <1>3

\* A step that changes one row of the table changes that row of the mapped one.
LEMMA OneRow ==
  ASSUME NEW j \in Jobs, NEW row, JobRow(j)' = row,
         \A k \in Jobs \ {j} : JobRow(k)' = JobRow(k)
  PROVE  MappedRows' = [MappedRows EXCEPT ![j] = row]
BY DEF MappedRows

LEMMA OneHand ==
  \A S, T : [[w \in {execd} |-> S] EXCEPT ![execd] = T] = [w \in {execd} |-> T]
OBVIOUS

LEMMA OffQueueStutters == OffQueue => UNCHANGED Queue!vars
BY DEF OffQueue, Queue!vars, JobRow

LEMMA InitRefines == Init => Queue!Init
<1> SUFFICES ASSUME Init PROVE Queue!Init
  OBVIOUS
<1>1. MappedRows = [j \in Jobs |-> Queue!NoRow] /\ Away = {}
  BY DEF Init, MappedRows, Away, JobRow, Queue!NoRow
<1>2. {job} \ {None} = {} /\ pc \in StartupSteps /\ crashes = 0
  BY DEF Init, StartupSteps
<1> QED BY <1>1, <1>2 DEF Queue!Init, MappedRows, Away

LEMMA StartRefines == QueueInv /\ ResetJobs => Queue!Start(execd)
<1> SUFFICES ASSUME QueueInv, ResetJobs PROVE Queue!Start(execd)
  OBVIOUS
<1>1. pc = "reset_jobs" /\ pc' = "idle" /\ job = None /\ job' = None /\ UNCHANGED crashes
  BY DEF ResetJobs, Run, Step, hand, Outside, history, QueueInv, HandMatchesTable, JobSteps, LaunchSteps,
         StopSteps
<1>2. MappedRows' = Queue!ResetRunning
  BY DEF MappedRows, ResetJobs, SetJobs, JobRow, Queue!ResetRunning
<1>3. Away' = {}
  BY DEF Away, ResetJobs, SetJobs
<1>4. pc \in StartupSteps /\ pc' \notin StartupSteps
  BY <1>1 DEF StartupSteps
<1> QED
  BY <1>1, <1>2, <1>3, <1>4, OneHand DEF Queue!Start, Queue!MayStart, MappedRows, Away

LEMMA QueueCardinality == \A S : Queue!Cardinality(S) = Cardinality(S)
BY Zenon DEF Queue!Cardinality, Cardinality

LEMMA ClaimRefines ==
  ASSUME QueueInv, NEW j \in Jobs, ClaimJob(j)
  PROVE  Queue!Claim(execd, {j})
<1> USE HandAssumption, HeldJob DEF QueueInv
<1>1. /\ pc = "idle" /\ job = None /\ job' = j /\ jobs[j].status = "pending"
      /\ SetJob(j, "running") /\ UNCHANGED crashes
  BY DEF ClaimJob, Claimable, Pending, Outside, history, HandMatchesTable, JobSteps, LaunchSteps,
         StopSteps
<1>2. pc \notin StartupSteps /\ pc' \notin StartupSteps
  BY <1>1 DEF ClaimJob, Jobs, LaunchJobs, StopJobs, StartupSteps
<1>3. Queue!Due = Pending
  BY DEF Queue!Due, Queue!InStatus, JobRow, Pending
<1>4. Queue!Claimable({j})
  <2>1. {j} \subseteq Queue!Due
    BY <1>1, <1>3 DEF Pending
  <2>2. Cardinality({j}) <= 1
    <3>1. Cardinality({j}) = 1
      BY FS_Singleton
    <3> QED BY <3>1
  <2>3. \A k \in Pending : k \in StopJobs => j \in StopJobs
    BY DEF ClaimJob, Claimable
  <2>4. \A k \in Pending : (IF j \in StopJobs THEN StopPriority ELSE LaunchPriority)
                        >= (IF k \in StopJobs THEN StopPriority ELSE LaunchPriority)
    BY <2>3 DEF StopPriority, LaunchPriority
  <2>5. Pending \subseteq Jobs
    BY DEF Pending
  <2> QED BY <1>3, <2>1, <2>2, <2>4, <2>5, QueueCardinality DEF Queue!Claimable
<1>5. MappedRows' = [k \in Jobs |-> IF k \in {j} THEN [MappedRows[k] EXCEPT !.status = "running"]
                                                ELSE MappedRows[k]]
  BY <1>1, SetJobRow DEF MappedRows, JobRow
<1>6. Away' = Away
  BY <1>1, SetJobRow DEF Away
<1>7. {job} \ {None} = {} /\ ({job} \ {None})' = {j}
  BY <1>1
<1> QED
  BY <1>1, <1>2, <1>4, <1>5, <1>6, <1>7, OneHand DEF Queue!Claim, MappedRows, Away

\* The loop lets its job go: the mapped hand is empty.
LEMMA HandEmptied ==
  ASSUME QueueInv, pc \in {"complete", "fail"}, LetGo("sample") \/ LetGo("idle"), NEW j, j = job
  PROVE  /\ j \in Jobs /\ jobs[j].status = "running"
         /\ Queue!LetGo(execd, j)
         /\ pc \notin StartupSteps /\ pc' \notin StartupSteps
         /\ job' = None /\ job' # j
<1>1. j \in Jobs /\ j # None /\ job' = None
  BY HandAssumption DEF QueueInv, TypeInv, HandsKnown, JobSteps, LetGo
<1>2. {job} \ {None} = {j} /\ ({job} \ {None})' = {}
  BY <1>1
<1>3. Queue!LetGo(execd, j)
  BY <1>2, OneHand DEF Queue!LetGo
<1> QED BY <1>1, <1>3 DEF QueueInv, HandMatchesTable, LetGo, StartupSteps

LEMMA CompleteRefines ==
  ASSUME QueueInv, CompleteJob, NEW j, j = job
  PROVE  Queue!Complete(execd, j)
<1>1. SetJob(j, "completed") /\ UNCHANGED crashes
  BY DEF CompleteJob, Outside, history
<1>2. j \in Jobs /\ job' # j /\ jobs[j].status = "running" /\ Queue!LetGo(execd, j)
      /\ pc \notin StartupSteps /\ pc' \notin StartupSteps /\ job' = None
  BY HandEmptied DEF CompleteJob
<1>3. jobs'[j].status = "completed" /\ jobs'[j].attempts = jobs[j].attempts
      /\ \A k \in Jobs \ {j} : JobRow(k)' = JobRow(k)
  BY <1>1, <1>2, SetJobRow, RowKept DEF QueueInv
<1>4. JobRow(j)' = [JobRow(j) EXCEPT !.status = "completed"]
  <2>1. JobRow(j) = Running(jobs[j].attempts)
    BY <1>2, RowPresent DEF Running
  <2>2. JobRow(j)' = [status |-> "completed", attempts |-> jobs[j].attempts, due |-> TRUE]
    BY <1>3, RowPresentNext
  <2> QED BY <2>1, <2>2, RunningCompletes, Zenon
<1>5. MappedRows' = [MappedRows EXCEPT ![j] = [JobRow(j) EXCEPT !.status = "completed"]]
  BY <1>2, <1>3, <1>4, OneRow
<1>6. MappedRows' = [MappedRows EXCEPT ![j].status = "completed"]
  BY <1>2, <1>5 DEF MappedRows
<1>7. Away' = Away
  BY <1>1, <1>2, HandAssumption, SetJobRow DEF Away, QueueInv
<1> QED BY <1>1, <1>2, <1>6, <1>7 DEF Queue!Complete, MappedRows, Away

LEMMA FailRefines ==
  ASSUME QueueInv, FailJob, NEW j, j = job
  PROVE  Queue!Fail(execd, j, FALSE)
<1>1. jobs' = [jobs EXCEPT ![j] = FailedRow(@)] /\ UNCHANGED crashes
  BY DEF FailJob, SetJobs, Outside, history
<1>2. j \in Jobs /\ job' # j /\ jobs[j].status = "running" /\ Queue!LetGo(execd, j)
      /\ pc \notin StartupSteps /\ pc' \notin StartupSteps /\ job' = None
  BY HandEmptied DEF FailJob
<1>3. jobs \in [Jobs -> JobRows]
  BY HeldJob DEF QueueInv
<1>4. jobs'[j] = FailedRow(jobs[j]) /\ \A k \in Jobs \ {j} : jobs'[k] = jobs[k]
  BY <1>1, <1>2, <1>3
<1>5. JobRow(j)' = Queue!FailedRow(JobRow(j), FALSE)
  <2>1. JobRow(j) = Running(jobs[j].attempts)
    BY <1>2, RowPresent DEF Running
  <2>2. jobs'[j].attempts = jobs[j].attempts + 1
        /\ jobs'[j].status = IF jobs[j].attempts + 1 >= MaxAttempts THEN "failed" ELSE "pending"
    BY <1>4 DEF FailedRow
  <2>3. JobRow(j)' = [status |-> jobs'[j].status, attempts |-> jobs'[j].attempts, due |-> TRUE]
    BY <2>2, RowPresentNext
  <2>4. Queue!FailedRow(JobRow(j), FALSE) =
            IF jobs[j].attempts + 1 >= MaxAttempts
            THEN [status |-> "failed", attempts |-> jobs[j].attempts + 1, due |-> TRUE]
            ELSE [status |-> "pending", attempts |-> jobs[j].attempts + 1, due |-> TRUE]
    BY <2>1, RunningFails, Zenon
  <2>5. JobRow(j)' = IF jobs[j].attempts + 1 >= MaxAttempts
            THEN [status |-> "failed", attempts |-> jobs[j].attempts + 1, due |-> TRUE]
            ELSE [status |-> "pending", attempts |-> jobs[j].attempts + 1, due |-> TRUE]
    BY <2>2, <2>3, Zenon
  <2> QED BY <2>4, <2>5
<1>6. \A k \in Jobs \ {j} : JobRow(k)' = JobRow(k)
  BY <1>4, RowKept
<1>7. MappedRows' = [MappedRows EXCEPT ![j] = Queue!FailedRow(JobRow(j), FALSE)]
  BY <1>2, <1>5, <1>6, OneRow
<1>8. MappedRows' = [MappedRows EXCEPT ![j] = Queue!FailedRow(@, FALSE)]
  BY <1>2, <1>7 DEF MappedRows
<1>9. Away' = Away
  BY <1>2, <1>4, HandAssumption DEF Away, FailedRow
<1>10. ~Queue!Rejected(j)
  BY <1>2 DEF Queue!Rejected, Queue!DedupeAllows
<1> QED BY <1>1, <1>2, <1>8, <1>9, <1>10 DEF Queue!Fail, MappedRows, Away

LEMMA LoseRefines ==
  ASSUME QueueInv, ReportLost, NEW j, j = job
  PROVE  Queue!LoseReport(execd, j)
<1>1. UNCHANGED <<jobs, crashes>> /\ MaxErrors > 0
  BY BoundAssumption DEF ReportLost, ReportFails, tables, QueueInv, TypeInv, TypeOK, HistoryOK
<1>2. j \in Jobs /\ job' # j /\ jobs[j].status = "running" /\ Queue!LetGo(execd, j)
      /\ pc \notin StartupSteps /\ pc' \notin StartupSteps /\ job' = None
  BY HandEmptied DEF ReportLost, ReportFails
<1>3. MappedRows' = MappedRows
  BY <1>1 DEF MappedRows, JobRow
<1>4. Away' = Away \cup {j}
  BY <1>1, <1>2, HandAssumption DEF Away
<1> QED BY <1>1, <1>2, <1>3, <1>4 DEF Queue!LoseReport, MappedRows, Away

LEMMA CrashRefines ==
  ASSUME QueueInv, Crash
  PROVE  Queue!Crash(execd)
<1>1. UNCHANGED jobs /\ job' = None /\ pc' \in StartupSteps
      /\ crashes < MaxCrashes /\ crashes' = crashes + 1
  BY DEF Crash, tables, StartupSteps
<1>2. MappedRows' = MappedRows
  BY <1>1 DEF MappedRows, JobRow
<1>3. Away' = Away \cup ({job} \ {None})
  BY <1>1, HandAssumption, HeldJob DEF Away, QueueInv, HandMatchesTable
<1>4. ({job} \ {None})' = {}
  BY <1>1
<1> QED BY <1>1, <1>2, <1>3, <1>4, OneHand DEF Queue!Crash, MappedRows, Away

LEMMA EnqueueRefines ==
  ASSUME QueueInv, NEW e \in Execs, EnqueueLaunch(e) \/ RequestStop(e)
  PROVE  \E j \in Jobs : Queue!Enqueue(j, FALSE)
<1>1. PICK j \in Jobs : InsertJob(j) /\ UNCHANGED <<pc, job, crashes>>
  BY DEF EnqueueLaunch, RequestStop, Jobs, LaunchJobs, StopJobs, memory, hand, history
<1>2. jobs[j].status = "absent" /\ jobs[j].attempts = 0 /\ SetJob(j, "pending")
  BY <1>1 DEF InsertJob, QueueInv, HandMatchesTable
<1>a. jobs'[j].status = "pending" /\ jobs'[j].attempts = 0
      /\ \A k \in Jobs \ {j} : JobRow(k)' = JobRow(k)
  BY <1>2, SetJobRow, RowKept DEF QueueInv
<1>b. JobRow(j)' = [status |-> "pending", attempts |-> 0, due |-> TRUE]
  BY <1>a, RowPresentNext
<1>c. (~FALSE) = TRUE
  OBVIOUS
<1>3. MappedRows' = [MappedRows EXCEPT ![j] = [status |-> "pending", attempts |-> 0, due |-> ~FALSE]]
  BY <1>a, <1>b, <1>c, OneRow
<1>4. Away' = Away
  BY <1>1, <1>2, SetJobRow DEF Away, QueueInv
<1>5. MappedRows[j].status = "absent" /\ Queue!DedupeAllows(j)
  BY <1>2 DEF MappedRows, JobRow, Queue!DedupeAllows
<1> QED
  BY <1>1, <1>3, <1>4, <1>5 DEF Queue!Enqueue, MappedRows, Away

LEMMA StepRefines == QueueInv /\ [Next]_vars => [Queue!Next]_(Queue!vars)
<1> SUFFICES ASSUME QueueInv, [Next]_vars PROVE [Queue!Next]_(Queue!vars)
  OBVIOUS
<1>1. CASE OffQueue
  BY <1>1, OffQueueStutters
<1>2. CASE ResetJobs
  BY <1>2, StartRefines DEF Queue!Next
<1>3. ASSUME NEW j \in Jobs, ClaimJob(j) PROVE Queue!Next
  BY <1>3, ClaimRefines DEF Queue!Next, Queue!ClaimSome
<1>4. CASE CompleteJob \/ FailJob \/ ReportLost
  <2>1. PICK j : j = job
    OBVIOUS
  <2>2. j \in {job} \ {None}
    BY <1>4, <2>1, HandAssumption
    DEF QueueInv, TypeInv, HandsKnown, CompleteJob, FailJob, ReportLost, ReportFails, JobSteps
  <2>3. Queue!Complete(execd, j) \/ Queue!LoseReport(execd, j) \/ Queue!Fail(execd, j, FALSE)
    BY <1>4, <2>1, CompleteRefines, FailRefines, LoseRefines
  <2>4. Queue!Report(execd)
    BY <2>2, <2>3 DEF Queue!Report
  <2> QED BY <2>4 DEF Queue!Next
<1>5. CASE Crash
  BY <1>5, CrashRefines DEF Queue!Next
<1>6. CASE \E e \in Execs : EnqueueLaunch(e) \/ RequestStop(e)
  BY <1>6, EnqueueRefines DEF Queue!Next
<1> QED BY <1>1, <1>2, <1>3, <1>4, <1>5, <1>6, OnOrOffQueue DEF QueueStep

\* execd and the HTTP commands implement the job queue: whatever a handler
\* does, fails to do or is interrupted in, the queue only ever sees an
\* enqueue, a claim of the best pending job by an idle loop, a report of the
\* job in hand, the loss of one, a crash, or a reset before the loop starts.
THEOREM ExecutionImplementsQueue == Spec => ImplementsJobQueue
<1>1. Init => Queue!Init
  BY InitRefines
<1>2. QueueInv /\ [Next]_vars => [Queue!Next]_(Queue!vars)
  BY StepRefines
<1> QED BY <1>1, <1>2, QueueInvariant, PTL DEF Spec, ImplementsJobQueue, Queue!Spec

-----------------------------------------------------------------------------
(* What JobQueueProofs proves of every queue holds of launches and stops.   *)

Facts == INSTANCE JobQueueProofs WITH
    Workers     <- {execd},
    PriorityOf  <- [j \in Jobs |-> IF j \in StopJobs THEN StopPriority ELSE LaunchPriority],
    DedupeOf    <- [j \in Jobs |-> NoKey],
    ClaimLimit  <- 1,
    Modes       <- {"reset_alone"},
    startup     <- "reset_alone",
    ReportsFail <- MaxErrors > 0,
    jobs        <- [j \in Jobs |-> JobRow(j)],
    held        <- [w \in {execd} |-> {job} \ {None}],
    up          <- [w \in {execd} |-> pc \notin StartupSteps],
    forgotten   <- {j \in Jobs : jobs[j].status = "running"} \ {job}


\* Facts is Queue with the theorems.
LEMMA SameOperators ==
  /\ Queue!vars = Facts!vars /\ (Queue!Init <=> Facts!Init)
  /\ \A j : Queue!DedupeAllows(j) <=> Facts!DedupeAllows(j)
  /\ Queue!Due = Facts!Due /\ Queue!ResetRunning = Facts!ResetRunning
  /\ \A row, delayed : Queue!FailedRow(row, delayed) = Facts!FailedRow(row, delayed)
BY Zenon DEF Queue!vars, Facts!vars, Queue!Init, Facts!Init, Queue!NoRow, Facts!NoRow,
   Queue!DedupeAllows, Facts!DedupeAllows, Queue!Live, Facts!Live, Queue!InStatus, Facts!InStatus,
   Queue!Due, Facts!Due, Queue!ResetRunning, Facts!ResetRunning, Queue!FailedRow, Facts!FailedRow
LEMMA SameQueue == Queue!Spec => Facts!Spec
<1>1. ASSUME NEW j, NEW delayed, Queue!Enqueue(j, delayed) PROVE Facts!Enqueue(j, delayed)
  BY <1>1, SameOperators, Zenon DEF Queue!Enqueue, Facts!Enqueue
<1>2. ASSUME NEW j, Queue!BecomeDue(j) PROVE Facts!BecomeDue(j)
  BY <1>2, Zenon DEF Queue!BecomeDue, Facts!BecomeDue
<1>3. ASSUME NEW w, Queue!Start(w) PROVE Facts!Start(w)
  BY <1>3, SameOperators, Zenon DEF Queue!Start, Facts!Start, Queue!MayStart, Facts!MayStart
<1>4. ASSUME NEW w, Queue!ClaimSome(w) PROVE Facts!ClaimSome(w)
  <2>1. \A S : Queue!Claimable(S) => Facts!Claimable(S)
    <3>1. \A S : Queue!Cardinality(S) = Facts!Cardinality(S)
      BY Zenon DEF Queue!Cardinality, Facts!Cardinality
    <3> QED BY <3>1, SameOperators, Zenon DEF Queue!Claimable, Facts!Claimable
  <2>2. \A S : Queue!Claim(w, S) => Facts!Claim(w, S)
    BY <2>1, Zenon DEF Queue!Claim, Facts!Claim
  <2> QED BY <1>4, <2>2, Zenon DEF Queue!ClaimSome, Facts!ClaimSome
<1>5. ASSUME NEW w, Queue!Report(w) PROVE Facts!Report(w)
  <2>1. \A j : Queue!LetGo(w, j) => Facts!LetGo(w, j)
    BY Zenon DEF Queue!LetGo, Facts!LetGo
  <2>2. \A j : Queue!Rejected(j) <=> Facts!Rejected(j)
    BY SameOperators, Zenon DEF Queue!Rejected, Facts!Rejected
  <2>3. \A j : Queue!Complete(w, j) => Facts!Complete(w, j)
    BY <2>1, Zenon DEF Queue!Complete, Facts!Complete
  <2>4. \A j, delayed : Queue!Fail(w, j, delayed) => Facts!Fail(w, j, delayed)
    BY <2>1, <2>2, SameOperators, Zenon DEF Queue!Fail, Facts!Fail
  <2>5. \A j : Queue!LoseReport(w, j) => Facts!LoseReport(w, j)
    BY <2>1, <2>2, Zenon DEF Queue!LoseReport, Facts!LoseReport
  <2> QED BY <1>5, <2>3, <2>4, <2>5, Zenon DEF Queue!Report, Facts!Report
<1>6. ASSUME NEW w, Queue!Crash(w) PROVE Facts!Crash(w)
  BY <1>6, Zenon DEF Queue!Crash, Facts!Crash
<1>7. Queue!Next => Facts!Next
  BY <1>1, <1>2, <1>3, <1>4, <1>5, <1>6, Zenon DEF Queue!Next, Facts!Next
<1>8. [Queue!Next]_(Queue!vars) => [Facts!Next]_(Facts!vars)
  BY <1>7, SameOperators, Zenon DEF Queue!vars, Facts!vars
<1>9. Queue!Init => Facts!Init
  BY SameOperators
<1> QED BY <1>8, <1>9, PTL DEF Queue!Spec, Facts!Spec

LEMMA QueueAssumptions ==
  /\ Facts!PriorityAssumption /\ Facts!LimitAssumption /\ Facts!AttemptsAssumption
  /\ Facts!FaultAssumption /\ Facts!ModesAssumption
BY BoundAssumption
   DEF Facts!PriorityAssumption, Facts!LimitAssumption, Facts!AttemptsAssumption, Facts!FaultAssumption,
       Facts!ModesAssumption, Facts!StartupModes, StopPriority, LaunchPriority

LEMMA IsAQueue == Spec => Facts!Spec
<1> QED BY ExecutionImplementsQueue, SameQueue, PTL DEF ImplementsJobQueue

\* LiveJobsHaveAttemptsLeft: a launch that keeps failing, or whose process dies
\* again and again, is tried MaxAttempts times, across crashes of execd.
THEOREM LaunchesAreBounded == Spec => []LiveJobsHaveAttemptsLeft
<1>1. Facts!LiveJobsHaveAttemptsLeft => LiveJobsHaveAttemptsLeft
  BY DEF Facts!LiveJobsHaveAttemptsLeft, LiveJobsHaveAttemptsLeft, Facts!InStatus, Facts!Live, JobRow
<1> QED BY <1>1, QueueAssumptions, IsAQueue, Facts!AttemptsBounded, PTL

\* OutcomesAreFinal: neither a crash between the last statement of a handler
\* and its report nor the reset that follows has a finished job done again.
THEOREM OutcomesStayFinal == Spec => OutcomesAreFinal
<1>1. Facts!Spec => Facts!FinishedIsFinal
  BY QueueAssumptions, Facts!OutcomeFinal
<1>2. TypeInv /\ TypeInv' /\
        ["reset_alone" # "reset_overlapping" =>
            \A j \in Facts!InStatus(Facts!Finished) : MappedRows'[j] = MappedRows[j]]_(Facts!vars)
          => [\A j \in Jobs : jobs[j].status \in {"completed", "failed"} => jobs'[j] = jobs[j]]_vars
  <2> SUFFICES ASSUME TypeInv, TypeInv', NEW j \in Jobs, jobs[j].status \in {"completed", "failed"},
                      ["reset_alone" # "reset_overlapping" =>
                          \A k \in Facts!InStatus(Facts!Finished) : MappedRows'[k] = MappedRows[k]]_(Facts!vars)
               PROVE  jobs'[j] = jobs[j]
    OBVIOUS
  <2>1. jobs \in [Jobs -> JobRows] /\ jobs' \in [Jobs -> JobRows]
    BY DEF TypeInv, TypeOK, TablesOK
  <2>2. MappedRows'[j] = MappedRows[j]
    BY DEF Facts!InStatus, Facts!Finished, Facts!vars, MappedRows, JobRow
  <2>3. jobs'[j].status = jobs[j].status /\ jobs'[j].attempts = jobs[j].attempts
    BY <2>2 DEF MappedRows, JobRow
  <2> QED BY <2>1, <2>3 DEF JobRows
<1> QED BY <1>1, <1>2, IsAQueue, TypeInvariant, PTL DEF Facts!FinishedIsFinal, OutcomesAreFinal, MappedRows

\* OnlyTheHandRuns: while statements succeed, no launch or stop stays running
\* in the table without execd working on it, wherever execd was interrupted.
THEOREM NothingLeftRunning ==
  ASSUME MaxErrors = 0
  PROVE  Spec => []OnlyTheHandRuns
<1>1. Facts!Spec => []Facts!OnlyHeldJobsRun
  BY QueueAssumptions, Facts!ResetTakesAllBack
<1>2. Facts!OnlyHeldJobsRun => OnlyTheHandRuns
  BY DEF Facts!OnlyHeldJobsRun, Facts!InStatus, OnlyTheHandRuns, JobRow
<1> QED BY <1>1, <1>2, IsAQueue, PTL
=============================================================================
