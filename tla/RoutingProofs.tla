---------------------------- MODULE RoutingProofs ----------------------------
(***************************************************************************)
(* Why traffic only reaches processes that passed their health check.      *)
(* RouteInv is the inductive invariant: the health check is remembered by  *)
(* the worker loop (fresh), by the execution's row (upstream) and by an    *)
(* activate request (addr), and every statement that writes a route or an  *)
(* activation takes it from one of the three.  No order of the statements  *)
(* and no lock is needed, which is why failures and crashes do no harm.    *)
(***************************************************************************)
EXTENDS ExecutionProofs, FiniteSetTheorems

\* The process of the launch at hand, from its start to the end of handleLaunch.
FreshStarted ==
    pc \in Started => /\ fresh \in Launches
                      /\ owner[fresh] = target
                      /\ born[fresh] = crashes

\* Past the probe that process has passed the health check.
Probed == {"healthy", "auto", "auto_activate", "bind", "drop_stable", "bind_stable",
           "bind_preview", "clear"}

FreshPassed == pc \in Probed => fresh \in passed

\* A healthy row names a process that passed, and so does an activate request
\* that has read one.
HealthyPassed ==
    \A e \in Execs : status[e] = "healthy" => upstream[e] \in passed /\ owner[upstream[e]] = e

RequestPassed ==
    \A a \in Activators :
        /\ request[a].pc = "new" => request[a].addr = NoAddr
        /\ request[a].pc \in RequestBusy =>
              request[a].addr \in passed /\ owner[request[a].addr] = request[a].exec

PassedOwned == \A p \in passed : owner[p] \in Execs

\* Routes of this incarnation, or written by an activate request.
Covered(addr) == born[addr] = crashes \/ \E a \in Activators : request[a].addr = addr

\* RestartDropsRoutes holds from the first reset on.
RoutesOfThisRun == pc # "down" => \A b \in bindings : Covered(b.addr)

TableRoutes == HealthyPassed /\ RoutesPassedHealthCheck /\ ActiveOncePassed

RouteInv ==
    /\ FreshStarted /\ FreshPassed
    /\ TableRoutes
    /\ RequestPassed /\ PassedOwned
    /\ RoutesOfThisRun

LEMMA InitRoutes == Init => RouteInv
BY DEF Init, RouteInv, FreshStarted, FreshPassed, TableRoutes, HealthyPassed,
       RoutesPassedHealthCheck, ActiveOncePassed, RequestPassed, PassedOwned, RoutesOfThisRun,
       Started, LaunchSteps, Probed, RequestBusy

-----------------------------------------------------------------------------
(* The statements keep what the tables say about routes. *)

LEMMA FrameRoutes ==
  ASSUME TableRoutes, UNCHANGED <<passed, owner, status, upstream, activation, bindings>>
  PROVE  TableRoutes'
BY DEF TableRoutes, HealthyPassed, RoutesPassedHealthCheck, ActiveOncePassed

LEMMA SetRowRoutes ==
  ASSUME TypeInv, TableRoutes, UNCHANGED <<passed, owner>>,
         NEW e \in Execs, NEW s, NEW addr, SetRow(e, s, addr),
         s = "healthy" => addr \in passed /\ owner[addr] = e
  PROVE  TableRoutes' /\ bindings' = bindings
<1>1. status' = [status EXCEPT ![e] = s] /\ upstream' = [upstream EXCEPT ![e] = addr]
      /\ UNCHANGED <<activation, bindings>>
  BY DEF SetRow
<1>2. HealthyPassed'
  BY <1>1 DEF TypeInv, TypeOK, TablesOK, TableRoutes, HealthyPassed
<1> QED BY <1>1, <1>2 DEF TableRoutes, RoutesPassedHealthCheck, ActiveOncePassed

LEMMA SetStatusRoutes ==
  ASSUME TypeInv, TableRoutes, UNCHANGED <<passed, owner>>,
         NEW e \in Execs, NEW s, SetStatus(e, s), s # "healthy"
  PROVE  TableRoutes' /\ bindings' = bindings
BY SetRowRoutes DEF SetStatus

LEMMA ActivateRoutes ==
  ASSUME TypeInv, TableRoutes, UNCHANGED <<passed, owner>>,
         NEW e \in Execs, Activate(e), NEW p \in passed, owner[p] = e
  PROVE  TableRoutes' /\ bindings' = bindings
<1>1. activation' = [activation EXCEPT ![RefOf[e]] = e] /\ UNCHANGED <<status, upstream, bindings>>
  BY DEF Activate, SetActivation
<1>2. ActiveOncePassed'
  BY <1>1 DEF TypeInv, TypeOK, TablesOK, TableRoutes, ActiveOncePassed
<1> QED BY <1>1, <1>2 DEF TableRoutes, RoutesPassedHealthCheck, HealthyPassed

LEMMA DeleteActivationRoutes ==
  ASSUME TypeInv, TableRoutes, UNCHANGED <<passed, owner>>, NEW ref, DeleteActivation(ref)
  PROVE  TableRoutes' /\ bindings' = bindings
<1>1. activation' = [activation EXCEPT ![ref] = None] /\ UNCHANGED <<status, upstream, bindings>>
  BY DEF DeleteActivation, SetActivation
<1>2. ActiveOncePassed'
  BY <1>1 DEF TypeInv, TypeOK, TablesOK, TableRoutes, ActiveOncePassed
<1> QED BY <1>1, <1>2 DEF TableRoutes, RoutesPassedHealthCheck, HealthyPassed

LEMMA SetBindingsRoutes ==
  ASSUME TableRoutes, UNCHANGED <<passed, owner>>, NEW rows, SetBindings(rows),
         \A b \in rows : b \in bindings \/ (b.addr \in passed /\ owner[b.addr] = b.exec)
  PROVE  TableRoutes' /\ bindings' = rows
BY DEF SetBindings, TableRoutes, HealthyPassed, RoutesPassedHealthCheck, ActiveOncePassed

LEMMA DeleteStableRoutes ==
  ASSUME TableRoutes, UNCHANGED <<passed, owner>>, NEW ref, DeleteStable(ref)
  PROVE  TableRoutes' /\ bindings' \subseteq bindings
BY SetBindingsRoutes DEF DeleteStable

LEMMA DeleteBindingsRoutes ==
  ASSUME TableRoutes, UNCHANGED <<passed, owner>>, NEW e, DeleteBindings(e)
  PROVE  TableRoutes' /\ bindings' \subseteq bindings
BY SetBindingsRoutes DEF DeleteBindings

LEMMA ReplaceBindingsRoutes ==
  ASSUME TableRoutes, UNCHANGED <<passed, owner>>,
         NEW e, NEW kinds, NEW addr \in passed, owner[addr] = e, ReplaceBindings(e, kinds, addr)
  PROVE  TableRoutes' /\ \A b \in bindings' : b \in bindings \/ b.addr = addr
<1> DEFINE new == {[exec |-> e, kind |-> k, addr |-> addr] : k \in kinds}
           rows == {b \in bindings : b.exec # e} \cup new
<1>1. \A b \in new : b.addr = addr /\ b.exec = e
  OBVIOUS
<1>2. SetBindings(rows)
  BY DEF ReplaceBindings
<1>3. \A b \in rows : b \in bindings \/ b \in new
  OBVIOUS
<1> HIDE DEF new, rows
<1>4. TableRoutes' /\ bindings' = rows
  BY <1>1, <1>2, <1>3, SetBindingsRoutes
<1> QED BY <1>1, <1>3, <1>4

-----------------------------------------------------------------------------
(* A step of anybody, as far as routes are concerned. *)

LEMMA RouteStep ==
  ASSUME TypeInv, RouteInv,
         pc' \in Started => pc \in Started /\ UNCHANGED <<target, fresh>>,
         pc' \in Probed => pc \in Probed,
         pc' # "down" => pc # "down",
         UNCHANGED <<owner, born, crashes, passed>>,
         \A a \in Activators :
            /\ request'[a].addr = request[a].addr
            /\ request'[a].pc \in RequestBusy =>
                  request[a].pc \in RequestBusy /\ request'[a].exec = request[a].exec
            /\ request'[a].pc = "new" => request[a].pc = "new",
         TableRoutes',
         \A b \in bindings' : b \in bindings \/ Covered(b.addr)
  PROVE  RouteInv'
<1>1. Probed \subseteq Started
  BY DEF Probed, Started, LaunchSteps
<1>2. FreshStarted' /\ FreshPassed'
  BY <1>1 DEF RouteInv, FreshStarted, FreshPassed
<1>3. RequestPassed' /\ PassedOwned'
  BY DEF RouteInv, RequestPassed, PassedOwned
<1>4. \A addr : Covered(addr) => Covered(addr)'
  BY DEF Covered
<1>5. RoutesOfThisRun'
  BY <1>4 DEF RouteInv, RoutesOfThisRun
<1> QED BY <1>2, <1>3, <1>5 DEF RouteInv

\* A move of the loop between two steps of the same handler, or out of one.
Onward(here, next) ==
    /\ Legal(here, next)
    /\ next \in Probed => here \in Probed
    /\ here # "down"

LEMMA RunRoutes ==
  ASSUME TypeInv, RouteInv, NEW here, NEW next, Run(here, next), Onward(here, next), TableRoutes',
         \A b \in bindings' : b \in bindings \/ Covered(b.addr)
  PROVE  RouteInv'
<1>1. pc = here /\ pc' = next /\ UNCHANGED <<target, fresh, owner, born, crashes, passed, request>>
  BY DEF Run, Step, hand, Outside, system, history
<1> QED BY <1>1, RouteStep DEF Onward, Legal

LEMMA RunKeeps ==
  \A here, next : Run(here, next) => pc = here /\ UNCHANGED <<passed, owner>>
BY DEF Run, Step, Outside, system, history

\* What a handler may count on between its steps.
LEMMA HandlerKnows ==
  ASSUME TypeInv, RouteInv
  PROVE  /\ pc \in JobSteps \cup BudgetSteps => target \in Execs
         /\ pc \in Probed => fresh \in passed /\ owner[fresh] = target /\ Covered(fresh)
         /\ TableRoutes
<1>1. Probed \subseteq Started
  BY DEF Probed, Started, LaunchSteps
<1> QED BY <1>1, Busy DEF RouteInv, FreshStarted, FreshPassed, Covered

-----------------------------------------------------------------------------
(* handleLaunch. *)

LEMMA LaunchMoves ==
  /\ Onward("launch", "prepare") /\ Onward("prepare", "fail") /\ Onward("record", "probe")
  /\ Onward("probe", "kill_unhealthy") /\ Onward("kill_unhealthy", "unbind_unhealthy")
  /\ Onward("unbind_unhealthy", "fail") /\ Onward("healthy", "auto")
  /\ Onward("auto", "auto_activate") /\ Onward("auto", "bind") /\ Onward("auto_activate", "bind")
  /\ Onward("bind", "drop_stable") /\ Onward("bind", "bind_preview")
  /\ Onward("drop_stable", "bind_stable") /\ Onward("bind_stable", "clear")
  /\ Onward("bind_preview", "clear") /\ Onward("clear", "complete")
  /\ LaunchSteps \subseteq JobSteps
BY DEF Onward, Legal, WorkerSteps, JobSteps, LaunchSteps, StopSteps, BudgetSteps, Started, Probed

LEMMA LaunchRoutes == TypeInv /\ RouteInv /\ HandleLaunch => RouteInv'
<1> SUFFICES ASSUME TypeInv, RouteInv, HandleLaunch PROVE RouteInv'
  OBVIOUS
<1>a. TableRoutes /\ (pc \in LaunchSteps => target \in Execs)
      /\ (pc \in Probed => fresh \in passed /\ owner[fresh] = target /\ Covered(fresh))
  BY HandlerKnows, LaunchMoves
<1>1. CASE LaunchStarting
  BY <1>1, <1>a, LaunchMoves, RunKeeps, SetStatusRoutes, RunRoutes DEF LaunchStarting, LaunchSteps
<1>2. CASE PrepareFails
  BY <1>2, <1>a, LaunchMoves, RunKeeps, SetStatusRoutes, RunRoutes DEF PrepareFails, LaunchSteps
<1>3. ASSUME NEW p \in Launches, StartProcess(p) PROVE RouteInv'
  \* The process is new: nobody has checked it or routes to it.
  <2>1. target \in Execs /\ pc' = "record" /\ target' = target /\ fresh' = p /\ owner[p] = None
    BY <1>3, <1>a DEF StartProcess, LaunchSteps
  <2>2. p \notin passed
    BY <2>1, NoneAssumption DEF RouteInv, PassedOwned
  <2>3. owner'[p] = target /\ born'[p] = crashes
    BY <1>3 DEF StartProcess, TypeInv, TypeOK, SystemOK, HistoryOK
  <2>4. \A q \in passed : owner'[q] = owner[q] /\ born'[q] = born[q]
    BY <1>3, <2>2 DEF StartProcess, TypeInv, TypeOK, SystemOK, HistoryOK
  <2>5. UNCHANGED <<status, upstream, activation, bindings, request, crashes, passed>>
    BY <1>3 DEF StartProcess, tables
  <2>6. FreshStarted' /\ FreshPassed'
    BY <2>1, <2>3, <2>5 DEF FreshStarted, FreshPassed, Probed
  <2>7. TableRoutes'
    BY <2>4, <2>5 DEF RouteInv, TableRoutes, HealthyPassed, RoutesPassedHealthCheck, ActiveOncePassed
  <2>8. RequestPassed' /\ PassedOwned'
    BY <2>4, <2>5 DEF RouteInv, RequestPassed, PassedOwned
  <2>9. RoutesOfThisRun'
    <3>1. \A b \in bindings : b.addr \in passed /\ Covered(b.addr)
      BY <1>3 DEF RouteInv, TableRoutes, RoutesPassedHealthCheck, RoutesOfThisRun, StartProcess
    <3> QED BY <2>4, <2>5, <3>1 DEF RoutesOfThisRun, Covered
  <2> QED BY <2>6, <2>7, <2>8, <2>9 DEF RouteInv
<1>4. CASE RecordUpstream
  BY <1>4, <1>a, LaunchMoves, RunKeeps, SetRowRoutes, RunRoutes DEF RecordUpstream, LaunchSteps
<1>5. CASE HealthPasses
  <2>1. pc = "probe" /\ pc' = "healthy" /\ passed' = passed \cup {fresh}
        /\ UNCHANGED <<target, fresh, owner, born, crashes, request>>
        /\ UNCHANGED <<status, upstream, activation, bindings>>
    BY <1>5 DEF HealthPasses, Step, hand, tables, system
  <2>2. target \in Execs /\ fresh \in Launches /\ owner[fresh] = target /\ born[fresh] = crashes
    BY <1>a, <2>1 DEF RouteInv, FreshStarted, Started, LaunchSteps
  <2>3. FreshStarted' /\ FreshPassed'
    BY <2>1, <2>2 DEF FreshStarted, FreshPassed
  <2>4. TableRoutes'
    BY <1>a, <2>1 DEF TableRoutes, HealthyPassed, RoutesPassedHealthCheck, ActiveOncePassed
  <2>5. RequestPassed' /\ PassedOwned' /\ RoutesOfThisRun'
    BY <2>1, <2>2 DEF RouteInv, RequestPassed, PassedOwned, RoutesOfThisRun, Covered
  <2> QED BY <2>3, <2>4, <2>5 DEF RouteInv
<1>6. CASE HealthTimesOut
  BY <1>6, <1>a, LaunchMoves, RunKeeps, SetStatusRoutes, RunRoutes DEF HealthTimesOut, LaunchSteps
<1>7. CASE KillUnhealthy
  <2>1. pc = "kill_unhealthy" /\ pc' = "unbind_unhealthy"
        /\ UNCHANGED <<target, fresh, owner, born, crashes, passed, request>>
        /\ UNCHANGED <<status, upstream, activation, bindings>>
    BY <1>7 DEF KillUnhealthy, Step, hand, tables, Kill, history
  <2> QED BY <1>a, <2>1, FrameRoutes, LaunchMoves, RouteStep DEF Onward, Legal
<1>8. CASE UnbindUnhealthy
  BY <1>8, <1>a, LaunchMoves, RunKeeps, DeleteBindingsRoutes, RunRoutes DEF UnbindUnhealthy
<1>9. CASE MarkHealthy
  BY <1>9, <1>a, LaunchMoves, RunKeeps, SetRowRoutes, RunRoutes DEF MarkHealthy, LaunchSteps, Probed
<1>10. CASE CheckActivation
  BY <1>10, <1>a, LaunchMoves, RunKeeps, FrameRoutes, RunRoutes DEF CheckActivation, Read, tables
<1>11. CASE AutoActivate
  BY <1>11, <1>a, LaunchMoves, RunKeeps, ActivateRoutes, RunRoutes DEF AutoActivate, LaunchSteps, Probed
<1>12. CASE ReadActivation
  BY <1>12, <1>a, LaunchMoves, RunKeeps, FrameRoutes, RunRoutes DEF ReadActivation, Read, tables
<1>13. CASE DropStable
  BY <1>13, <1>a, LaunchMoves, RunKeeps, DeleteStableRoutes, RunRoutes DEF DropStable
<1>14. CASE BindStable
  BY <1>14, <1>a, LaunchMoves, RunKeeps, ReplaceBindingsRoutes, RunRoutes DEF BindStable, Probed
<1>15. CASE BindPreview
  BY <1>15, <1>a, LaunchMoves, RunKeeps, ReplaceBindingsRoutes, RunRoutes DEF BindPreview, Probed
<1>16. CASE ClearSuspensions
  BY <1>16, <1>a, LaunchMoves, RunKeeps, FrameRoutes, RunRoutes
  DEF ClearSuspensions, ClearSuspension, SetSuspension
<1> QED
  BY <1>1, <1>2, <1>3, <1>4, <1>5, <1>6, <1>7, <1>8, <1>9, <1>10, <1>11, <1>12, <1>13,
     <1>14, <1>15, <1>16 DEF HandleLaunch

-----------------------------------------------------------------------------
(* The worker's other steps: they publish nothing. *)

LEMMA Leaves ==
  \A next \in StopSteps \cup BudgetSteps \cup {"complete", "fail", "idle", "sample", "sampling",
                                               "reset_jobs", "stop", "launch"} :
     next \notin Started /\ next \notin Probed /\ next # "down"
BY DEF StopSteps, BudgetSteps, Started, LaunchSteps, Probed

LEMMA Entered ==
  \A here \in StopSteps \cup BudgetSteps \cup {"complete", "fail", "idle", "sample", "sampling"} :
     here # "down"
BY DEF StopSteps, BudgetSteps

\* A step of the loop into a place where it holds no process.
LEMMA LeaveRoutes ==
  ASSUME TypeInv, RouteInv, pc' \notin Started, pc' \notin Probed, pc # "down",
         UNCHANGED <<owner, born, crashes, passed, request>>,
         TableRoutes', bindings' \subseteq bindings
  PROVE  RouteInv'
BY RouteStep

LEMMA RunLeaves ==
  ASSUME TypeInv, RouteInv, NEW here, NEW next, Run(here, next), here # "down",
         next \notin Started, next \notin Probed, TableRoutes', bindings' \subseteq bindings
  PROVE  RouteInv'
<1>1. pc = here /\ pc' = next /\ UNCHANGED <<owner, born, crashes, passed, request>>
  BY DEF Run, Step, Outside, system, history
<1> QED BY <1>1, LeaveRoutes

LEMMA StopRoutes == TypeInv /\ RouteInv /\ HandleStop => RouteInv'
<1> SUFFICES ASSUME TypeInv, RouteInv, HandleStop PROVE RouteInv'
  OBVIOUS
<1>a. TableRoutes /\ (pc \in StopSteps => target \in Execs)
  BY HandlerKnows DEF JobSteps
<1>1. CASE StopKill
  <2>1. pc = "stop" /\ pc' = "stop_mark"
        /\ UNCHANGED <<owner, born, crashes, passed, request, status, upstream, activation, bindings>>
    BY <1>1 DEF StopKill, Step, Kill, tables, history
  <2> QED BY <1>a, <2>1, Leaves, FrameRoutes, LeaveRoutes DEF StopSteps
<1>2. CASE StopMark
  BY <1>2, <1>a, Leaves, RunKeeps, SetStatusRoutes, RunLeaves DEF StopMark, StopSteps
<1>3. CASE StopCheck
  BY <1>3, <1>a, Leaves, RunKeeps, FrameRoutes, RunLeaves DEF StopCheck, Read, StopSteps, tables
<1>4. CASE StopDeactivate
  BY <1>4, <1>a, Leaves, RunKeeps, DeleteActivationRoutes, RunLeaves DEF StopDeactivate, StopSteps
<1>5. CASE StopUnpublish
  BY <1>5, <1>a, Leaves, RunKeeps, DeleteStableRoutes, RunLeaves DEF StopUnpublish, StopSteps
<1>6. CASE StopUnbind
  <2>1. pc = "stop_unbind" /\ pc' = "complete" /\ DeleteBindings(target)
        /\ UNCHANGED <<owner, born, crashes, passed, request>>
    BY <1>6 DEF StopUnbind, Step, system, history
  <2> QED BY <1>a, <2>1, Leaves, DeleteBindingsRoutes, LeaveRoutes
<1> QED
  BY <1>1, <1>2, <1>3, <1>4, <1>5, <1>6 DEF HandleStop

LEMMA SamplingRoutes == TypeInv /\ RouteInv /\ SampleAndEnforce => RouteInv'
<1> SUFFICES ASSUME TypeInv, RouteInv, SampleAndEnforce PROVE RouteInv'
  OBVIOUS
<1>a. TableRoutes /\ (pc \in BudgetSteps => target \in Execs)
  BY HandlerKnows
<1>b. BudgetSteps = {"kill", "mark", "suspend", "check", "deactivate", "unpublish", "unbind"}
  BY DEF BudgetSteps
<1>1. CASE BeginSampling
  <2>1. pc' = "sampling" /\ pc # "down"
        /\ UNCHANGED <<owner, born, crashes, passed, request, status, upstream, activation, bindings>>
    BY <1>1 DEF BeginSampling, Outside, tables, system, history
  <2> QED BY <1>a, <2>1, Leaves, FrameRoutes, LeaveRoutes
<1>2. CASE SkipSampling \/ EndSampling
  BY <1>2, <1>a, Leaves, RunKeeps, FrameRoutes, RunLeaves DEF SkipSampling, EndSampling, Read, tables
<1>3. ASSUME NEW p \in Launches, SampleFails(p) \/ WithinBudget(p) \/ OverBudget(p) PROVE RouteInv'
  <2>1. pc = "sampling" /\ pc' \in {"sampling", "kill"}
        /\ UNCHANGED <<owner, born, crashes, passed, request, status, upstream, activation, bindings>>
    BY <1>3 DEF SampleFails, WithinBudget, OverBudget, Sample, tables, system
  <2> QED BY <1>a, <1>b, <2>1, Leaves, FrameRoutes, LeaveRoutes
<1>4. CASE BudgetKill
  <2>1. pc = "kill" /\ pc' = "mark"
        /\ UNCHANGED <<owner, born, crashes, passed, request, status, upstream, activation, bindings>>
    BY <1>4 DEF BudgetKill, Step, Kill, tables, history
  <2> QED BY <1>a, <1>b, <2>1, Leaves, FrameRoutes, LeaveRoutes
<1>5. CASE BudgetMark
  BY <1>5, <1>a, <1>b, Leaves, RunKeeps, SetStatusRoutes, RunLeaves DEF BudgetMark
<1>6. CASE BudgetSuspend
  BY <1>6, <1>a, <1>b, Leaves, RunKeeps, FrameRoutes, RunLeaves DEF BudgetSuspend, Suspend, SetSuspension
<1>7. CASE BudgetCheck
  BY <1>7, <1>a, <1>b, Leaves, RunKeeps, FrameRoutes, RunLeaves DEF BudgetCheck, Read, tables
<1>8. CASE BudgetDeactivate
  BY <1>8, <1>a, <1>b, Leaves, RunKeeps, DeleteActivationRoutes, RunLeaves DEF BudgetDeactivate
<1>9. CASE BudgetUnpublish
  BY <1>9, <1>a, <1>b, Leaves, RunKeeps, DeleteStableRoutes, RunLeaves DEF BudgetUnpublish
<1>10. CASE BudgetUnbind
  <2>1. pc = "unbind" /\ pc' = "sampling" /\ DeleteBindings(target)
        /\ UNCHANGED <<owner, born, crashes, passed, request>>
    BY <1>10 DEF BudgetUnbind, Resume, system, history
  <2> QED BY <1>a, <2>1, Leaves, DeleteBindingsRoutes, LeaveRoutes
<1> QED
  BY <1>1, <1>2, <1>3, <1>4, <1>5, <1>6, <1>7, <1>8, <1>9, <1>10 DEF SampleAndEnforce

LEMMA WorkerErrorRoutes == TypeInv /\ RouteInv /\ WorkerError => RouteInv'
<1> SUFFICES ASSUME TypeInv, RouteInv, WorkerError PROVE RouteInv'
  OBVIOUS
<1>1. UNCHANGED <<owner, born, crashes, passed, request, status, upstream, activation, bindings>>
  BY DEF WorkerError, StatementFails, UnbindFails, BudgetMarkFails, ReportFails, system, tables
<1>2. TableRoutes'
  BY <1>1, FrameRoutes DEF RouteInv
<1>3. CASE StatementFails
  \* An error inside handleLaunch leaves the launch or skips a statement that
  \* writes nothing later steps rely on.
  <2>1. /\ pc' \in Started => pc \in Started
        /\ pc' \in Probed => pc \in Probed
        /\ pc # "down" /\ pc' # "down" /\ UNCHANGED <<target, fresh>>
    BY <1>3 DEF StatementFails, Step, hand, Started, LaunchSteps, Probed
  <2> QED BY <1>1, <1>2, <2>1, RouteStep
<1>4. CASE UnbindFails \/ BudgetMarkFails \/ ReportFails
  <2>1. pc # "down" /\ pc' \in {"complete", "sampling", "idle", "sample"}
    BY <1>4 DEF UnbindFails, Step, Resume, BudgetMarkFails, ReportFails, LetGo
  <2> QED BY <1>1, <1>2, <2>1, Leaves, LeaveRoutes
<1> QED BY <1>3, <1>4 DEF WorkerError

-----------------------------------------------------------------------------
(* Exit goroutines, commands, restarts. *)

LEMMA ExitRoutes == \A p \in Launches : TypeInv /\ RouteInv /\ HandleExit(p) => RouteInv'
<1> SUFFICES ASSUME NEW p \in Launches, TypeInv, RouteInv, HandleExit(p) PROVE RouteInv'
  OBVIOUS
<1>a. TableRoutes /\ UNCHANGED <<pc, target, fresh, owner, request, born, crashes, passed>>
  BY DEF RouteInv, HandleExit, Unregister, ExitLook, ExitMark, ExitUnbind, ExitCheck, ExitDeactivate,
         ExitUnpublish, ExitSuspend, ExitError, RunExit, Await, hand, system, history
<1>b. waiter[p] # "none" => owner[p] \in Execs
  BY DEF TypeInv, HandsKnown
<1>1. TableRoutes' /\ bindings' \subseteq bindings
  <2>1. CASE Unregister(p) \/ ExitLook(p) \/ ExitCheck(p) \/ ExitSuspend(p) \/ ExitError(p)
    <3>1. UNCHANGED <<status, upstream, activation, bindings>>
      BY <2>1 DEF Unregister, ExitLook, ExitCheck, ExitSuspend, ExitError, Suspend, SetSuspension, tables
    <3> QED BY <1>a, <3>1, FrameRoutes
  <2>2. CASE ExitMark(p)
    BY <2>2, <1>a, <1>b, SetStatusRoutes DEF ExitMark, RunExit, Await
  <2>3. CASE ExitUnbind(p)
    BY <2>3, <1>a, DeleteBindingsRoutes DEF ExitUnbind
  <2>4. CASE ExitDeactivate(p)
    BY <2>4, <1>a, DeleteActivationRoutes DEF ExitDeactivate
  <2>5. CASE ExitUnpublish(p)
    BY <2>5, <1>a, DeleteStableRoutes DEF ExitUnpublish
  <2> QED BY <2>1, <2>2, <2>3, <2>4, <2>5 DEF HandleExit
<1> QED BY <1>a, <1>1, RouteStep

LEMMA CommandRoutes == TypeInv /\ RouteInv /\ Commands => RouteInv'
<1> SUFFICES ASSUME TypeInv, RouteInv, Commands PROVE RouteInv'
  OBVIOUS
<1>a. TableRoutes
  BY DEF RouteInv
<1>b. UNCHANGED <<pc, target, fresh, owner, born, crashes, passed>>
  BY DEF Commands, RequestLaunch, EnqueueLaunch, RequestStop, ActivateCommand, ReadHealthy,
         ActivateRequested, UnpublishRequested, BindRequested, AbandonRequest, RequestStep,
         memory, hand, system, history
<1>1. ASSUME NEW e \in Execs, RequestLaunch(e) PROVE RouteInv'
  BY <1>1, <1>a, <1>b, SetStatusRoutes, RouteStep DEF RequestLaunch
<1>2. ASSUME NEW e \in Execs, EnqueueLaunch(e) \/ RequestStop(e) PROVE RouteInv'
  <2>1. UNCHANGED <<status, upstream, activation, bindings, request>>
    BY <1>2 DEF EnqueueLaunch, RequestStop, InsertJob, SetJob, SetJobs
  <2> QED BY <1>a, <1>b, <2>1, FrameRoutes, RouteStep
<1>3. ASSUME NEW a \in Activators, ActivateCommand(a) PROVE RouteInv'
  <2>r. request \in [Activators -> [pc : RequestSteps, exec : Execs \cup {None}, addr : Addrs]]
    BY DEF TypeInv, TypeOK, RequestOK
  <2>1. ASSUME NEW e \in Execs, ReadHealthy(a, e) PROVE RouteInv'
    \* The row says healthy, so the address it holds has passed.
    <3>1. upstream[e] \in passed /\ owner[upstream[e]] = e
      BY <2>1, <1>a DEF ReadHealthy, MayActivate, TableRoutes, HealthyPassed
    <3>2. UNCHANGED <<status, upstream, activation, bindings>> /\ request[a].addr = NoAddr
          /\ request' = [request EXCEPT ![a] = [pc |-> "activate", exec |-> e, addr |-> upstream[e]]]
      BY <2>1 DEF ReadHealthy, tables, RouteInv, RequestPassed
    <3>3. RequestPassed' /\ PassedOwned'
      BY <1>b, <2>r, <3>1, <3>2 DEF RouteInv, RequestPassed, PassedOwned
    <3>4. TableRoutes' /\ FreshStarted' /\ FreshPassed'
      BY <1>a, <1>b, <3>2, FrameRoutes DEF RouteInv, FreshStarted, FreshPassed
    <3>5. \A b \in bindings : b.addr # NoAddr
      BY <1>a DEF TableRoutes, RoutesPassedHealthCheck, TypeInv, TypeOK, HistoryOK, Launches, NoAddr
    <3>6. RoutesOfThisRun'
      BY <1>b, <2>r, <3>2, <3>5 DEF RouteInv, RoutesOfThisRun, Covered
    <3> QED BY <3>3, <3>4, <3>6 DEF RouteInv
  <2>2. ASSUME NEW here \in RequestBusy, NEW next \in {"unpublish", "bind", "done"},
               RequestStep(a, here, next)
        PROVE  /\ request[a].pc = here
               /\ request[a].exec \in Execs /\ request[a].addr \in passed
               /\ owner[request[a].addr] = request[a].exec /\ Covered(request[a].addr)
               /\ \A c \in Activators :
                    /\ request'[c].addr = request[c].addr
                    /\ request'[c].pc \in RequestBusy =>
                          request[c].pc \in RequestBusy /\ request'[c].exec = request[c].exec
                    /\ request'[c].pc = "new" => request[c].pc = "new"
    <3>1. request[a].pc = here
          /\ request' = [request EXCEPT ![a] = [pc |-> next, exec |-> @.exec, addr |-> @.addr]]
      BY <2>2 DEF RequestStep
    <3>2. request[a].exec \in Execs /\ request[a].addr \in passed
          /\ owner[request[a].addr] = request[a].exec
      BY <3>1 DEF TypeInv, HandsKnown, RouteInv, RequestPassed
    <3> QED BY <2>r, <3>1, <3>2 DEF Covered
  <2>3. CASE ActivateRequested(a)
    <3>1. RequestStep(a, "activate", "unpublish") /\ "activate" \in RequestBusy
      BY <2>3 DEF ActivateRequested, RequestBusy
    <3>2. TableRoutes' /\ bindings' = bindings
      BY <1>a, <1>b, <2>2, <2>3, <3>1, ActivateRoutes DEF ActivateRequested
    <3> QED BY <1>b, <2>2, <3>1, <3>2, RouteStep
  <2>4. CASE UnpublishRequested(a)
    <3>1. RequestStep(a, "unpublish", "bind") /\ "unpublish" \in RequestBusy
      BY <2>4 DEF UnpublishRequested, RequestBusy
    <3>2. TableRoutes' /\ bindings' \subseteq bindings
      BY <1>a, <1>b, <2>4, DeleteStableRoutes DEF UnpublishRequested
    <3> QED BY <1>b, <2>2, <3>1, <3>2, RouteStep
  <2>5. CASE BindRequested(a)
    <3>1. RequestStep(a, "bind", "done") /\ "bind" \in RequestBusy
      BY <2>5 DEF BindRequested, RequestBusy
    <3>2. TableRoutes' /\ \A b \in bindings' : b \in bindings \/ b.addr = request[a].addr
      BY <1>a, <1>b, <2>2, <2>5, <3>1, ReplaceBindingsRoutes DEF BindRequested
    <3> QED BY <1>b, <2>2, <3>1, <3>2, RouteStep
  <2>6. CASE AbandonRequest(a)
    <3>1. \E here \in RequestBusy : RequestStep(a, here, "done")
      BY <2>6 DEF AbandonRequest, RequestBusy
    <3>2. UNCHANGED <<status, upstream, activation, bindings>>
      BY <2>6 DEF AbandonRequest, tables
    <3> QED BY <1>a, <1>b, <2>2, <3>1, <3>2, FrameRoutes, RouteStep
  <2> QED BY <1>3, <2>1, <2>3, <2>4, <2>5, <2>6 DEF ActivateCommand
<1> QED BY <1>1, <1>2, <1>3 DEF Commands

\* A restart drops all routes and clears the health of every row.
LEMMA ResetRoutes == TypeInv /\ RouteInv /\ ResetExecutions => RouteInv'
<1> SUFFICES ASSUME TypeInv, RouteInv, ResetExecutions PROVE RouteInv'
  OBVIOUS
<1>1. pc' = "reset_jobs" /\ UNCHANGED <<owner, born, crashes, passed, request, upstream>>
  BY DEF ResetExecutions, Run, Step, Outside, system, history
<1>2. bindings' = {} /\ activation' = [r \in Refs |-> None]
  BY DEF ResetExecutions, RoutesAfterReset
<1>3. \A e \in Execs : status'[e] = "healthy" => status[e] = "healthy"
  BY DEF ResetExecutions
<1>4. TableRoutes'
  BY <1>1, <1>2, <1>3
  DEF RouteInv, TableRoutes, HealthyPassed, RoutesPassedHealthCheck, ActiveOncePassed
<1>5. FreshStarted' /\ FreshPassed'
  BY <1>1, Leaves DEF FreshStarted, FreshPassed
<1>6. RequestPassed' /\ PassedOwned'
  BY <1>1 DEF RouteInv, RequestPassed, PassedOwned
<1>7. RoutesOfThisRun'
  BY <1>2 DEF RoutesOfThisRun
<1> QED BY <1>4, <1>5, <1>6, <1>7 DEF RouteInv

LEMMA CrashRoutes == TypeInv /\ RouteInv /\ Crash => RouteInv'
<1> SUFFICES ASSUME TypeInv, RouteInv, Crash PROVE RouteInv'
  OBVIOUS
<1>1. pc' = "down" /\ UNCHANGED <<owner, passed, request, status, upstream, activation, bindings>>
  BY DEF Crash, tables
<1>2. FreshStarted' /\ FreshPassed' /\ RoutesOfThisRun'
  BY <1>1 DEF FreshStarted, FreshPassed, RoutesOfThisRun, Started, LaunchSteps, Probed
<1>3. TableRoutes' /\ RequestPassed' /\ PassedOwned'
  BY <1>1, FrameRoutes DEF RouteInv, RequestPassed, PassedOwned
<1> QED BY <1>2, <1>3 DEF RouteInv

LEMMA StepRoutes == TypeInv /\ RouteInv /\ [Next]_vars => RouteInv'
<1> SUFFICES ASSUME TypeInv, RouteInv, [Next]_vars PROVE RouteInv'
  OBVIOUS
<1>a. TableRoutes
  BY DEF RouteInv
<1>1. CASE ResetJobs
  BY <1>1, <1>a, Leaves, RunKeeps, FrameRoutes, RunLeaves DEF ResetJobs, SetJobs
<1>2. ASSUME NEW j \in Jobs, ClaimJob(j) PROVE RouteInv'
  <2>1. pc' \in {"launch", "stop"} /\ pc # "down"
        /\ UNCHANGED <<owner, born, crashes, passed, request, status, upstream, activation, bindings>>
    BY <1>2 DEF ClaimJob, SetJob, SetJobs, Outside, system, history, Jobs, LaunchJobs, StopJobs
  <2> QED BY <1>a, <2>1, Leaves, FrameRoutes, LeaveRoutes
<1>3. CASE CompleteJob \/ FailJob
  <2>1. pc' \in {"sample", "idle"} /\ pc # "down"
        /\ UNCHANGED <<owner, born, crashes, passed, request, status, upstream, activation, bindings>>
    BY <1>3 DEF CompleteJob, FailJob, LetGo, SetJob, SetJobs, Outside, system, history
  <2> QED BY <1>a, <2>1, Leaves, FrameRoutes, LeaveRoutes
<1>4. CASE (\E p \in Launches : Exit(p)) \/ UNCHANGED vars
  <2>1. UNCHANGED <<pc, target, fresh, owner, born, crashes, passed, request>>
        /\ UNCHANGED <<status, upstream, activation, bindings>>
    BY <1>4 DEF Exit, vars, memory, hand, tables, system, history
  <2> QED BY <1>a, <2>1, FrameRoutes, RouteStep
<1> QED
  BY <1>1, <1>2, <1>3, <1>4, ResetRoutes, LaunchRoutes, StopRoutes, SamplingRoutes, WorkerErrorRoutes,
     CommandRoutes, ExitRoutes, CrashRoutes DEF Next, Worker

LEMMA RouteInvariant == Spec => []RouteInv
BY InitRoutes, StepRoutes, TypeInvariant, PTL DEF Spec

\* Traffic only goes to an address whose process passed the health check, and
\* under the execution that process was started for.
THEOREM RoutesAreChecked == Spec => []RoutesPassedHealthCheck
<1>1. RouteInv => RoutesPassedHealthCheck
  BY DEF RouteInv, TableRoutes
<1> QED BY <1>1, RouteInvariant, PTL

\* An execution is only active after one of its processes was healthy.
THEOREM ActivationsAreChecked == Spec => []ActiveOncePassed
<1>1. RouteInv => ActiveOncePassed
  BY DEF RouteInv, TableRoutes
<1> QED BY <1>1, RouteInvariant, PTL

\* While execd serves, every route is of this incarnation or was written by an
\* activate request.
THEOREM RestartsDropRoutes == Spec => []RestartDropsRoutes
<1>1. RouteInv => RestartDropsRoutes
  BY DEF RouteInv, RoutesOfThisRun, Covered, RestartDropsRoutes, StartupSteps
<1> QED BY <1>1, RouteInvariant, PTL

-----------------------------------------------------------------------------
(* One owner of the stable routes.  Without activate requests and failing   *)
(* statements only syncBindings publishes stable routes, and it has deleted *)
(* those of the whole reference before; nobody else adds one in between.    *)

OneOwner ==
    \A b, c \in bindings :
        (b.kind = "stable" /\ c.kind = "stable" /\ RefOf[b.exec] = RefOf[c.exec]) => b.exec = c.exec

NoneLeft == pc = "bind_stable" => \A b \in bindings : b.kind = "stable" => RefOf[b.exec] # Ref

StableInv == OneOwner /\ NoneLeft

\* A step that publishes no stable route.
LEMMA StableStep ==
  ASSUME StableInv,
         \A b \in bindings' : b.kind = "stable" => b \in bindings,
         pc' = "bind_stable" => pc = "bind_stable" /\ target' = target
  PROVE  StableInv'
BY DEF StableInv, OneOwner, NoneLeft, Ref

LEMMA ShrinkStable ==
  \A e, ref, s, addr :
     /\ DeleteStable(ref) => bindings' \subseteq bindings
     /\ DeleteBindings(e) => bindings' \subseteq bindings
     /\ SetRow(e, s, addr) => UNCHANGED bindings
     /\ SetStatus(e, s) => UNCHANGED bindings
     /\ Activate(e) => UNCHANGED bindings
     /\ DeleteActivation(ref) => UNCHANGED bindings
     /\ Suspend(e) => UNCHANGED bindings
     /\ ClearSuspension(ref) => UNCHANGED bindings
     /\ SetJobs(s) => UNCHANGED bindings
     /\ ReplaceBindings(e, {"preview"}, addr) => \A b \in bindings' : b.kind = "stable" => b \in bindings
BY DEF DeleteStable, DeleteBindings, SetRow, SetStatus, Activate, DeleteActivation, SetActivation,
       Suspend, ClearSuspension, SetSuspension, SetJobs, ReplaceBindings, SetBindings

LEMMA DropStableOwner ==
  ASSUME TypeInv, StableInv, DropStable
  PROVE  StableInv'
<1>1. UNCHANGED target
      /\ bindings' = {b \in bindings : ~(b.kind = "stable" /\ RefOf[b.exec] = Ref)}
  BY DEF DropStable, Run, Step, hand, DeleteStable, SetBindings
<1> QED BY <1>1 DEF StableInv, OneOwner, NoneLeft, Ref

LEMMA BindStableOwner ==
  ASSUME TypeInv, StableInv, BindStable
  PROVE  StableInv'
<1> DEFINE new == {[exec |-> target, kind |-> k, addr |-> fresh] : k \in {"preview", "stable"}}
<1>1. pc = "bind_stable" /\ pc' = "clear" /\ bindings' = {b \in bindings : b.exec # target} \cup new
  BY DEF BindStable, Run, Step, ReplaceBindings, SetBindings
<1>2. \A b \in new : b.exec = target
  OBVIOUS
<1>3. \A b \in bindings : b.kind = "stable" => RefOf[b.exec] # RefOf[target]
  BY <1>1 DEF StableInv, NoneLeft, Ref
<1> HIDE DEF new
<1>4. OneOwner'
  BY <1>1, <1>2, <1>3 DEF StableInv, OneOwner
<1> QED BY <1>1, <1>4 DEF StableInv, NoneLeft

LEMMA StepStable ==
  ASSUME Activators = {}, MaxErrors = 0, TypeInv, StableInv, [Next]_vars
  PROVE  StableInv'
<1>e. ~(errors < MaxErrors)
  BY DEF TypeInv, TypeOK, HistoryOK
<1>r. \A here, next : Run(here, next) => pc' = next
  BY DEF Run, Step
<1>1. CASE Worker
  <2>1. CASE HandleLaunch
    <3>1. CASE LaunchStarting \/ PrepareFails \/ (\E p \in Launches : StartProcess(p))
               \/ RecordUpstream \/ HealthPasses \/ HealthTimesOut
               \/ KillUnhealthy \/ UnbindUnhealthy \/ MarkHealthy
               \/ CheckActivation \/ AutoActivate \/ ReadActivation \/ BindPreview \/ ClearSuspensions
      <4>1. pc' # "bind_stable" /\ \A b \in bindings' : b.kind = "stable" => b \in bindings
        BY <1>r, <3>1, ShrinkStable
        DEF LaunchStarting, PrepareFails, StartProcess, RecordUpstream, HealthPasses, HealthTimesOut,
            KillUnhealthy, UnbindUnhealthy, MarkHealthy, CheckActivation, AutoActivate, ReadActivation,
            BindPreview, ClearSuspensions, Read, Step, tables
      <4> QED BY <4>1, StableStep
    <3> QED BY <2>1, <3>1, DropStableOwner, BindStableOwner DEF HandleLaunch
  <2>2. CASE ~HandleLaunch
    <3>1. pc' # "bind_stable" /\ bindings' \subseteq bindings
      <4>1. CASE ResetExecutions \/ ResetJobs \/ (\E j \in Jobs : ClaimJob(j)) \/ CompleteJob \/ FailJob
        BY <1>r, <4>1, ShrinkStable
        DEF ResetExecutions, RoutesAfterReset, ResetJobs, ClaimJob, CompleteJob, FailJob, SetJob, LetGo,
            Jobs, LaunchJobs, StopJobs
      <4>2. CASE HandleStop
        BY <1>r, <4>2, ShrinkStable
        DEF HandleStop, StopKill, StopMark, StopCheck, StopDeactivate, StopUnpublish, StopUnbind,
            Read, Step, tables
      <4>3. CASE SampleAndEnforce
        BY <1>r, <4>3, ShrinkStable
        DEF SampleAndEnforce, BeginSampling, SkipSampling, EndSampling, SampleFails, WithinBudget,
            OverBudget, Sample, BudgetKill, BudgetMark, BudgetSuspend, BudgetCheck, BudgetDeactivate,
            BudgetUnpublish, BudgetUnbind, Resume, Read, Step, tables
      <4> QED BY <1>1, <1>e, <2>2, <4>1, <4>2, <4>3 DEF Worker, WorkerError
    <3> QED BY <3>1, StableStep
  <2> QED BY <2>1, <2>2
<1>2. CASE ~Worker
  <2>1. (pc' = pc /\ target' = target) \/ pc' = "down"
    BY <1>2 DEF Next, Commands, RequestLaunch, EnqueueLaunch, RequestStop, ActivateCommand, ReadHealthy,
         ActivateRequested, UnpublishRequested, BindRequested, AbandonRequest, RequestStep, Exit,
         HandleExit, Unregister, ExitLook, ExitMark, ExitUnbind, ExitCheck, ExitDeactivate,
         ExitUnpublish, ExitSuspend, ExitError, RunExit, Await, Crash, memory, hand, vars
  <2>2. bindings' \subseteq bindings
    <3>1. ASSUME NEW p \in Launches, HandleExit(p) PROVE bindings' \subseteq bindings
      BY <1>e, <3>1, ShrinkStable
      DEF HandleExit, Unregister, ExitLook, ExitMark, ExitUnbind, ExitCheck, ExitDeactivate,
          ExitUnpublish, ExitSuspend, ExitError, tables
    <3>2. ASSUME NEW e \in Execs, RequestLaunch(e) \/ EnqueueLaunch(e) \/ RequestStop(e)
          PROVE  bindings' \subseteq bindings
      BY <3>2, ShrinkStable DEF RequestLaunch, EnqueueLaunch, RequestStop, InsertJob, SetJob
    <3> QED BY <1>2, <3>1, <3>2 DEF Next, Commands, Exit, Crash, tables, vars
  <2> QED BY <2>1, <2>2, StableStep
<1> QED BY <1>1, <1>2

LEMMA OneOwnerCounts == OneOwner => OneStableOwner
<1> SUFFICES ASSUME OneOwner, NEW r \in Refs PROVE Cardinality(StableOwners(r)) <= 1
  BY DEF OneStableOwner
<1>1. CASE StableOwners(r) = {}
  BY <1>1, FS_EmptySet
<1>2. CASE StableOwners(r) # {}
  <2>1. PICK e : e \in StableOwners(r)
    BY <1>2
  <2>2. StableOwners(r) = {e}
    BY <2>1 DEF OneOwner, StableOwners
  <2>3. Cardinality({e}) = 1
    BY FS_Singleton
  <2> QED BY <2>2, <2>3
<1> QED BY <1>1, <1>2

\* Without activate requests and failing statements the stable routes of a
\* reference never have two owners, whatever exits, retries and restarts.
THEOREM StableRoutesHaveOneOwner ==
  ASSUME Activators = {}, MaxErrors = 0
  PROVE  Spec => []OneStableOwner
<1>1. Init => StableInv
  BY DEF Init, StableInv, OneOwner, NoneLeft
<1>2. TypeInv /\ StableInv /\ [Next]_vars => StableInv'
  BY StepStable
<1>3. StableInv => OneStableOwner
  BY OneOwnerCounts DEF StableInv
<1> QED BY <1>1, <1>2, <1>3, TypeInvariant, PTL DEF Spec

-----------------------------------------------------------------------------
(* Stopped executions stay unpublished.  A stop is done piecemeal, and a     *)
(* launch of the same execution may start from a stopped row; between the    *)
(* two the worker alone could publish the execution, and it does not.        *)

Unpublished(e) == activation[RefOf[e]] # e /\ \A b \in bindings : b.exec # e

Stopping  == {"stop_check", "stop_deactivate", "stop_unpublish", "stop_unbind"}
Launching == LaunchSteps \ {"launch"}

StoppedInv ==
    /\ \A e \in Execs : (status[e] = "stopped" /\ pc # "down" /\ ~(target = e /\ pc \in Stopping)) =>
          Unpublished(e)
    /\ pc \in Launching => status[target] # "stopped"
    /\ pc \in {"stop_unpublish", "stop_unbind"} => activation[Ref] # target

\* A step that stops and publishes nothing.
LEMMA StoppedStep ==
  ASSUME TypeInv, StoppedInv,
         \A e \in Execs : status'[e] = "stopped" => status[e] = "stopped",
         \A r \in Refs : activation'[r] \in {activation[r], None},
         bindings' \subseteq bindings,
         pc' # "down" => pc # "down",
         pc \in Stopping /\ pc' # "down" => pc' \in Stopping /\ target' = target,
         pc' \in Launching =>
            target' = target /\ (pc \in Launching \/ status'[target] # "stopped"),
         pc' \in {"stop_unpublish", "stop_unbind"} =>
            \/ target' = target /\ pc \in {"stop_unpublish", "stop_unbind"}
            \/ activation'[Ref'] # target'
  PROVE  StoppedInv'
<1>1. \A e \in Execs : Unpublished(e) => activation'[RefOf[e]] # e /\ \A b \in bindings' : b.exec # e
  BY RefAssumption, NoneAssumption DEF Unpublished
<1>2. \A e \in Execs : (status'[e] = "stopped" /\ pc' # "down" /\ ~(target' = e /\ pc' \in Stopping)) =>
        activation'[RefOf[e]] # e /\ \A b \in bindings' : b.exec # e
  BY <1>1 DEF StoppedInv
<1>3. pc' \in Launching => status'[target'] # "stopped"
  <2>1. Launching \subseteq JobSteps
    BY DEF Launching, JobSteps
  <2> QED BY <2>1 DEF StoppedInv, TypeInv, HandsKnown
<1>4. pc' \in {"stop_unpublish", "stop_unbind"} => activation'[Ref'] # target'
  <2>1. pc \in {"stop_unpublish", "stop_unbind"} => target \in Execs /\ Ref \in Refs
    BY Busy DEF JobSteps, StopSteps
  <2> QED BY <2>1, NoneAssumption DEF StoppedInv, Ref
<1> QED BY <1>2, <1>3, <1>4 DEF StoppedInv, Unpublished, Ref

\* What each statement does to the columns StoppedInv is about.
LEMMA StatementEffects ==
  ASSUME TypeInv
  PROVE  \A e, s, addr, ref :
     /\ SetRow(e, s, addr) =>
          UNCHANGED <<activation, bindings>> /\ \A d \in Execs : status'[d] = IF d = e THEN s ELSE status[d]
     /\ SetStatus(e, s) =>
          UNCHANGED <<activation, bindings>> /\ \A d \in Execs : status'[d] = IF d = e THEN s ELSE status[d]
     /\ DeleteActivation(ref) =>
          UNCHANGED <<status, bindings>>
          /\ \A r \in Refs : activation'[r] = IF r = ref THEN None ELSE activation[r]
     /\ DeleteStable(ref) => UNCHANGED <<status, activation>> /\ bindings' \subseteq bindings
     /\ DeleteBindings(e) => UNCHANGED <<status, activation>> /\ bindings' \subseteq bindings
                             /\ \A b \in bindings' : b.exec # e
     /\ Suspend(e) => UNCHANGED <<status, activation, bindings>>
     /\ ClearSuspension(ref) => UNCHANGED <<status, activation, bindings>>
     /\ SetJobs(s) => UNCHANGED <<status, activation, bindings>>
BY DEF TypeInv, TypeOK, TablesOK, SetStatus, SetRow, DeleteActivation, SetActivation, DeleteStable,
       DeleteBindings, SetBindings, Suspend, ClearSuspension, SetSuspension, SetJobs

LEMMA PublishStopped ==
  ASSUME TypeInv, StoppedInv, AutoActivate \/ BindStable \/ BindPreview
  PROVE  StoppedInv'
<1>1. pc \in Launching /\ pc' \in {"bind", "clear"} /\ UNCHANGED <<target, status>>
      /\ target \in Execs /\ status[target] # "stopped"
  BY DEF AutoActivate, BindStable, BindPreview, Run, Step, hand, Activate, SetActivation,
         ReplaceBindings, SetBindings, Launching, LaunchSteps, StoppedInv, TypeInv, HandsKnown, JobSteps
<1>2. \A e \in Execs \ {target} : Unpublished(e) =>
        activation'[RefOf[e]] # e /\ \A b \in bindings' : b.exec # e
  <2>1. CASE AutoActivate
    BY <2>1 DEF AutoActivate, Activate, SetActivation, Unpublished, TypeInv, TypeOK, TablesOK
  <2>2. CASE BindStable \/ BindPreview
    BY <2>2 DEF BindStable, BindPreview, ReplaceBindings, SetBindings, Unpublished
  <2> QED BY <2>1, <2>2
<1>3. \A e \in Execs : status'[e] = "stopped" =>
        activation'[RefOf[e]] # e /\ \A b \in bindings' : b.exec # e
  BY <1>1, <1>2 DEF StoppedInv, Launching, LaunchSteps, Stopping
<1>4. pc' \notin {"stop_unpublish", "stop_unbind"}
  BY <1>1
<1> QED BY <1>1, <1>3, <1>4 DEF StoppedInv, Unpublished

LEMMA ResetStopped ==
  ASSUME TypeInv, StoppedInv, ResetExecutions
  PROVE  StoppedInv'
<1>1. pc' = "reset_jobs" /\ bindings' = {} /\ activation' = [r \in Refs |-> None]
  BY DEF ResetExecutions, Run, Step, RoutesAfterReset
<1>2. \A e \in Execs : activation'[RefOf[e]] # e
  BY <1>1, RefAssumption, NoneAssumption
<1> QED BY <1>1, <1>2 DEF StoppedInv, Unpublished, Launching, LaunchSteps

LEMMA StopStopped ==
  ASSUME TypeInv, StoppedInv, HandleStop
  PROVE  StoppedInv'
<1>a. target \in Execs /\ Ref \in Refs /\ Ref = RefOf[target] /\ UNCHANGED target /\ pc # "down"
  BY Busy DEF HandleStop, StopKill, StopMark, StopCheck, StopDeactivate, StopUnpublish, StopUnbind,
              Run, Read, Step, hand, JobSteps, StopSteps, Ref
<1>b. \A e \in Execs : Unpublished(e) \/ status[e] # "stopped" \/ (target = e /\ pc \in Stopping)
  BY <1>a DEF StoppedInv
<1>n. {"stop", "stop_mark", "complete"} \cap (Launching \cup Stopping) = {}
      /\ Stopping \cap Launching = {}
  BY DEF Launching, LaunchSteps, Stopping
<1>1. CASE StopKill
  BY <1>1, <1>a, <1>n, StoppedStep DEF StopKill, Step, tables
<1>2. CASE StopMark
  <2>1. pc = "stop_mark" /\ pc' = "stop_check" /\ SetStatus(target, "stopped")
    BY <1>2 DEF StopMark, Run, Step
  <2>2. \A e \in Execs \ {target} : status'[e] = "stopped" => Unpublished(e)
    BY <1>b, <2>1, StatementEffects
  <2>3. UNCHANGED <<activation, bindings>>
    BY <2>1, StatementEffects
  <2> QED BY <1>a, <1>n, <2>1, <2>2, <2>3 DEF StoppedInv, Unpublished, Stopping
<1>3. CASE StopCheck
  <2>1. pc = "stop_check" /\ pc' \in {"stop_deactivate", "stop_unpublish"}
        /\ (pc' = "stop_unpublish" => activation[Ref] # target)
        /\ UNCHANGED <<status, activation, bindings>>
    BY <1>3 DEF StopCheck, Read, Run, Step, tables
  <2> QED BY <1>a, <1>b, <1>n, <2>1 DEF StoppedInv, Unpublished, Stopping, Ref
<1>4. CASE StopDeactivate
  <2>1. pc = "stop_deactivate" /\ pc' = "stop_unpublish" /\ DeleteActivation(Ref)
    BY <1>4 DEF StopDeactivate, Run, Step
  <2>2. UNCHANGED <<status, bindings>> /\ activation'[Ref] # target
        /\ \A r \in Refs : activation'[r] \in {activation[r], None}
    BY <1>a, <2>1, StatementEffects, NoneAssumption
  <2>3. \A e \in Execs : activation[RefOf[e]] # e => activation'[RefOf[e]] # e
    BY <2>2, RefAssumption, NoneAssumption
  <2> QED BY <1>a, <1>b, <1>n, <2>1, <2>2, <2>3 DEF StoppedInv, Unpublished, Stopping, Ref
<1>5. CASE StopUnpublish
  <2>1. pc = "stop_unpublish" /\ pc' = "stop_unbind" /\ DeleteStable(Ref)
    BY <1>5 DEF StopUnpublish, Run, Step
  <2>2. UNCHANGED <<status, activation>> /\ bindings' \subseteq bindings
    BY <2>1, StatementEffects
  <2> QED BY <1>a, <1>n, <2>1, <2>2, StoppedStep DEF Stopping
<1>6. CASE StopUnbind
  <2>1. pc = "stop_unbind" /\ pc' = "complete" /\ DeleteBindings(target)
    BY <1>6 DEF StopUnbind, Step
  <2>2. UNCHANGED <<status, activation>> /\ bindings' \subseteq bindings
        /\ \A b \in bindings' : b.exec # target
    BY <2>1, StatementEffects
  <2>3. activation[RefOf[target]] # target
    BY <1>a, <2>1 DEF StoppedInv
  <2> QED BY <1>a, <1>b, <1>n, <2>1, <2>2, <2>3 DEF StoppedInv, Unpublished
<1> QED BY <1>1, <1>2, <1>3, <1>4, <1>5, <1>6 DEF HandleStop

\* A statement that publishes nothing and stops nobody.
Keeps ==
    /\ \A e \in Execs : status'[e] = "stopped" => status[e] = "stopped"
    /\ \A r \in Refs : activation'[r] \in {activation[r], None}
    /\ bindings' \subseteq bindings

LEMMA StatementKeeps ==
  ASSUME TypeInv
  PROVE  \A e, s, addr, ref :
     /\ SetRow(e, s, addr) /\ s # "stopped" => Keeps
     /\ SetStatus(e, s) /\ s # "stopped" => Keeps
     /\ DeleteActivation(ref) => Keeps
     /\ DeleteStable(ref) => Keeps
     /\ DeleteBindings(e) => Keeps
     /\ Suspend(e) => Keeps
     /\ ClearSuspension(ref) => Keeps
     /\ SetJobs(s) => Keeps
     /\ UNCHANGED tables => Keeps
<1> TAKE e, s, addr, ref
<1>1. SetRow(e, s, addr) /\ s # "stopped" => Keeps
  BY StatementEffects DEF Keeps
<1>2. SetStatus(e, s) /\ s # "stopped" => Keeps
  BY StatementEffects DEF Keeps
<1>3. DeleteActivation(ref) => Keeps
  BY StatementEffects DEF Keeps
<1>4. DeleteStable(ref) \/ DeleteBindings(e) => Keeps
  BY StatementEffects DEF Keeps
<1>5. Suspend(e) \/ ClearSuspension(ref) \/ SetJobs(s) => Keeps
  BY StatementEffects DEF Keeps
<1>6. UNCHANGED tables => Keeps
  BY DEF Keeps, tables
<1> QED BY <1>1, <1>2, <1>3, <1>4, <1>5, <1>6

LEMMA StepStopped ==
  ASSUME Activators = {}, MaxErrors = 0, TypeInv, StoppedInv, [Next]_vars
  PROVE  StoppedInv'
<1>e. ~(errors < MaxErrors)
  BY DEF TypeInv, TypeOK, HistoryOK
<1>r. \A here, next : Run(here, next) => pc = here /\ pc' = next /\ UNCHANGED target
  BY DEF Run, Step, hand
<1>n. Launching = {"prepare", "record", "probe", "healthy", "auto", "auto_activate", "bind", "drop_stable",
                   "bind_stable", "bind_preview", "clear", "kill_unhealthy", "unbind_unhealthy"}
      /\ Stopping = {"stop_check", "stop_deactivate", "stop_unpublish", "stop_unbind"}
  BY DEF Launching, LaunchSteps, Stopping
<1>1. CASE HandleLaunch
  <2>1. CASE LaunchStarting \/ PrepareFails \/ RecordUpstream \/ HealthTimesOut \/ UnbindUnhealthy
             \/ MarkHealthy \/ DropStable \/ ClearSuspensions
    <3>1. Keeps
      BY <2>1, StatementKeeps
      DEF LaunchStarting, PrepareFails, RecordUpstream, HealthTimesOut, UnbindUnhealthy,
          MarkHealthy, DropStable, ClearSuspensions
    <3>2. pc \in LaunchSteps /\ target \in Execs /\ UNCHANGED target /\ pc # "down"
          /\ pc' \notin {"stop_unpublish", "stop_unbind"} /\ pc \notin Stopping
      BY <1>n, <1>r, <2>1
      DEF LaunchStarting, PrepareFails, RecordUpstream, HealthTimesOut, UnbindUnhealthy,
          MarkHealthy, DropStable, ClearSuspensions, LaunchSteps, JobSteps, TypeInv, HandsKnown
    <3>3. pc \in Launching \/ status'[target] # "stopped"
      <4>1. CASE LaunchStarting
        <5>1. SetStatus(target, "starting")
          BY <4>1 DEF LaunchStarting
        <5>2. status'[target] = "starting"
          BY <3>2, <5>1 DEF SetStatus, SetRow, TypeInv, TypeOK, TablesOK
        <5> QED BY <5>2
      <4>2. CASE ~LaunchStarting
        BY <1>n, <1>r, <2>1, <4>2
        DEF PrepareFails, RecordUpstream, HealthTimesOut, UnbindUnhealthy, MarkHealthy, DropStable,
            ClearSuspensions
      <4> QED BY <4>1, <4>2
    <3> QED BY <3>1, <3>2, <3>3, StoppedStep DEF Keeps
  <2>2. CASE (\E p \in Launches : StartProcess(p)) \/ HealthPasses \/ KillUnhealthy \/ CheckActivation
             \/ ReadActivation
    <3>1. UNCHANGED <<tables, target>> /\ pc \in Launching /\ pc' \in Launching
      BY <1>n, <1>r, <2>2
      DEF StartProcess, HealthPasses, KillUnhealthy, CheckActivation, ReadActivation, Read, Step, hand
    <3> QED BY <1>n, <3>1, StatementKeeps, StoppedStep DEF Keeps
  <2> QED BY <1>1, <2>1, <2>2, PublishStopped DEF HandleLaunch
<1>2. CASE SampleAndEnforce
  <2>1. CASE BeginSampling \/ SkipSampling \/ EndSampling \/ BudgetKill \/ BudgetCheck
             \/ \E p \in Launches : SampleFails(p) \/ WithinBudget(p) \/ OverBudget(p)
    <3>1. UNCHANGED tables /\ pc \notin Stopping /\ pc # "down" /\ pc' \notin Launching \cup Stopping
      BY <1>n, <1>r, <2>1
      DEF BeginSampling, SkipSampling, EndSampling, BudgetKill, BudgetCheck, SampleFails, WithinBudget,
          OverBudget, Sample, Read, Step
    <3> QED BY <1>n, <3>1, StatementKeeps, StoppedStep DEF Keeps
  <2>2. CASE BudgetMark \/ BudgetSuspend \/ BudgetDeactivate \/ BudgetUnpublish \/ BudgetUnbind
    <3>1. Keeps
      BY <2>2, StatementKeeps
      DEF BudgetMark, BudgetSuspend, BudgetDeactivate, BudgetUnpublish, BudgetUnbind
    <3>2. pc \notin Stopping /\ pc # "down" /\ pc' \notin Launching \cup Stopping
      BY <1>n, <1>r, <2>2
      DEF BudgetMark, BudgetSuspend, BudgetDeactivate, BudgetUnpublish, BudgetUnbind, Resume
    <3> QED BY <1>n, <3>1, <3>2, StoppedStep DEF Keeps
  <2> QED BY <1>2, <2>1, <2>2 DEF SampleAndEnforce
<1>3. CASE ResetJobs \/ (\E j \in Jobs : ClaimJob(j)) \/ CompleteJob \/ FailJob
  <2>1. Keeps
    BY <1>3, StatementKeeps DEF ResetJobs, ClaimJob, SetJob, CompleteJob, FailJob
  <2>2. pc \notin Stopping /\ pc # "down" /\ pc' \notin Launching \cup Stopping
    BY <1>n, <1>r, <1>3
    DEF ResetJobs, ClaimJob, CompleteJob, FailJob, LetGo, Jobs, LaunchJobs, StopJobs
  <2> QED BY <1>n, <2>1, <2>2, StoppedStep DEF Keeps
<1>4. CASE Crash
  <2>1. UNCHANGED tables /\ pc' = "down"
    BY <1>4 DEF Crash
  <2> QED BY <1>n, <2>1, StatementKeeps, StoppedStep DEF Keeps
<1>5. CASE Commands \/ UNCHANGED vars \/ \E p \in Launches : Exit(p) \/ HandleExit(p)
  <2>1. UNCHANGED <<pc, target>>
    BY <1>5 DEF Commands, RequestLaunch, EnqueueLaunch, RequestStop, ActivateCommand, ReadHealthy,
         ActivateRequested, UnpublishRequested, BindRequested, AbandonRequest, RequestStep, Exit,
         HandleExit, Unregister, ExitLook, ExitMark, ExitUnbind, ExitCheck, ExitDeactivate,
         ExitUnpublish, ExitSuspend, ExitError, RunExit, Await, memory, hand, vars
  <2>2. Keeps
    <3>1. ASSUME NEW p \in Launches, HandleExit(p) PROVE Keeps
      BY <1>e, <3>1, StatementKeeps
      DEF HandleExit, Unregister, ExitLook, ExitMark, ExitUnbind, ExitCheck, ExitDeactivate,
          ExitUnpublish, ExitSuspend, ExitError
    <3>2. ASSUME NEW e \in Execs, RequestLaunch(e) \/ EnqueueLaunch(e) \/ RequestStop(e) PROVE Keeps
      BY <3>2, StatementKeeps DEF RequestLaunch, EnqueueLaunch, RequestStop, InsertJob, SetJob
    <3>3. CASE UNCHANGED vars \/ \E p \in Launches : Exit(p)
      BY <3>3, StatementKeeps DEF Exit, vars
    <3> QED BY <1>5, <3>1, <3>2, <3>3 DEF Commands
  <2>3. pc \in Launching => status'[target] # "stopped"
    BY <2>2 DEF Keeps, StoppedInv, TypeInv, HandsKnown, Launching, JobSteps
  <2> QED BY <2>1, <2>2, <2>3, StoppedStep DEF Keeps
<1>6. CASE Worker
  BY <1>1, <1>2, <1>3, <1>6, <1>e, ResetStopped, StopStopped DEF Worker, WorkerError
<1> QED BY <1>4, <1>5, <1>6 DEF Next

\* Without activate requests and failing statements, a stop that is over is
\* never undone by an exit goroutine, another launch or a restart.
THEOREM StoppedStaysUnpublished ==
  ASSUME Activators = {}, MaxErrors = 0
  PROVE  Spec => []StoppedIsUnpublished
<1>1. Init => StoppedInv
  BY DEF Init, StoppedInv, Launching, LaunchSteps
<1>2. TypeInv /\ StoppedInv /\ [Next]_vars => StoppedInv'
  BY StepStopped
<1>3. StoppedInv => StoppedIsUnpublished
  BY DEF StoppedInv, Unpublished, StoppedIsUnpublished
<1> QED BY <1>1, <1>2, <1>3, TypeInvariant, PTL DEF Spec

-----------------------------------------------------------------------------
(***************************************************************************)
(* Why the budget is fair: it kills only for breaches in a row, although   *)
(* the count is reset on other goroutines, and nobody is suspended for an  *)
(* execution whose processes all run.                                      *)
(***************************************************************************)

(* Breaches in a row. *)

\* The worker's count never gets ahead of the breaches in a row.
CountBehind == \A e \in Execs : breaches[e] <= streak[e] \/ streak[e] = Strikes

StrikesInv == CountBehind /\ BudgetKillsRepeatOffenders

\* A step that counts nothing: counts may be reset.
LEMMA StrikesStep ==
  ASSUME TypeInv, StrikesInv,
         UNCHANGED streak,
         \A e \in Execs : breaches'[e] \in {breaches[e], 0},
         pc' = "kill" => pc = "kill" /\ target' = target
  PROVE  StrikesInv'
<1>1. CountBehind'
  <2> SUFFICES ASSUME NEW e \in Execs PROVE breaches'[e] <= streak[e] \/ streak[e] = Strikes
    BY DEF CountBehind
  <2>1. streak[e] \in Nat
    BY BoundAssumption DEF TypeInv, TypeOK, HistoryOK
  <2>2. CASE breaches'[e] = 0
    BY <2>1, <2>2
  <2>3. CASE breaches'[e] = breaches[e]
    BY <2>3 DEF StrikesInv, CountBehind
  <2> QED BY <2>2, <2>3
<1> QED BY <1>1 DEF StrikesInv, BudgetKillsRepeatOffenders

LEMMA ResetStrikesKeeps ==
  ASSUME TypeInv, NEW e, ResetStrikes(e)
  PROVE  \A d \in Execs : breaches'[d] \in {breaches[d], 0}
BY DEF ResetStrikes, TypeInv, TypeOK, LocalOK

LEMMA WithinBudgetStrikes ==
  ASSUME TypeInv, StrikesInv, NEW p \in Launches, WithinBudget(p)
  PROVE  StrikesInv'
<1>1. pc # "kill" /\ pc' = pc
  BY DEF WithinBudget, Sample
<1>2. breaches' = [breaches EXCEPT ![owner[p]] = 0] /\ streak' = [streak EXCEPT ![owner[p]] = 0]
  BY DEF WithinBudget, ResetStrikes
<1>3. CountBehind'
  BY <1>2 DEF StrikesInv, CountBehind, TypeInv, TypeOK, LocalOK, HistoryOK
<1> QED BY <1>1, <1>3 DEF StrikesInv, BudgetKillsRepeatOffenders

LEMMA OverBudgetStrikes ==
  ASSUME TypeInv, StrikesInv, NEW p \in Launches, OverBudget(p)
  PROVE  StrikesInv'
<1> DEFINE e == owner[p]
           strikes == breaches[e] + 1
           run == IF streak[e] < Strikes THEN streak[e] + 1 ELSE streak[e]
<1>1. e \in Execs /\ pc = "sampling"
  BY DEF OverBudget, Sample, TypeInv, HandsKnown
<1>2. breaches[e] \in Nat /\ streak[e] \in 0 .. Strikes /\ Strikes \in Nat
  BY <1>1, BoundAssumption DEF TypeInv, TypeOK, LocalOK, HistoryOK
<1>3. breaches' = [breaches EXCEPT ![e] = strikes] /\ streak' = [streak EXCEPT ![e] = run]
  BY DEF OverBudget
<1>4. breaches[e] <= streak[e] \/ streak[e] = Strikes
  BY <1>1 DEF StrikesInv, CountBehind
<1>5. strikes <= run \/ run = Strikes
  BY <1>2, <1>4
<1>6. ~(strikes < Strikes) => run = Strikes
  BY <1>2, <1>4
<1>7. breaches'[e] = strikes /\ streak'[e] = run
  BY <1>1, <1>3 DEF TypeInv, TypeOK, LocalOK, HistoryOK
<1>8. \A d \in Execs \ {e} : breaches'[d] = breaches[d] /\ streak'[d] = streak[d]
  BY <1>3 DEF TypeInv, TypeOK, LocalOK, HistoryOK
<1>9. CountBehind'
  BY <1>5, <1>7, <1>8 DEF StrikesInv, CountBehind
<1>10. pc' = "kill" => target' = e /\ ~(strikes < Strikes)
  BY <1>1 DEF OverBudget
<1> QED BY <1>6, <1>7, <1>9, <1>10 DEF StrikesInv, BudgetKillsRepeatOffenders

LEMMA StepStrikes == TypeInv /\ StrikesInv /\ [Next]_vars => StrikesInv'
<1> SUFFICES ASSUME TypeInv, StrikesInv, [Next]_vars PROVE StrikesInv'
  OBVIOUS
<1>r. \A here, next : Run(here, next) =>
        pc' = next /\ UNCHANGED <<target, breaches, streak>>
  BY DEF Run, Step, hand, Outside, local, history
<1>1. CASE ResetExecutions \/ ResetJobs
  BY <1>1, <1>r, StrikesStep DEF ResetExecutions, ResetJobs
<1>2. ASSUME NEW j \in Jobs, ClaimJob(j) PROVE StrikesInv'
  BY <1>2, StrikesStep DEF ClaimJob, Outside, local, history, Jobs, LaunchJobs, StopJobs
<1>3. CASE CompleteJob \/ FailJob
  BY <1>3, StrikesStep DEF CompleteJob, FailJob, LetGo, Outside, local, history
<1>4. CASE HandleLaunch
  <2>1. pc' # "kill" /\ UNCHANGED <<breaches, streak>>
    BY <1>4, <1>r
    DEF HandleLaunch, LaunchStarting, PrepareFails, StartProcess, RecordUpstream, HealthPasses,
        HealthTimesOut, KillUnhealthy, UnbindUnhealthy, MarkHealthy, CheckActivation, AutoActivate,
        ReadActivation, DropStable, BindStable, BindPreview, ClearSuspensions, Read, Step, local, history
  <2> QED BY <2>1, StrikesStep
<1>5. CASE HandleStop
  <2>1. CASE StopUnbind
    BY <2>1, ResetStrikesKeeps, StrikesStep DEF StopUnbind, Step, history
  <2>2. CASE ~StopUnbind
    <3>1. pc' # "kill" /\ UNCHANGED <<breaches, streak>>
      BY <1>5, <1>r, <2>2
      DEF HandleStop, StopKill, StopMark, StopCheck, StopDeactivate, StopUnpublish, Read, Step,
          local, history
    <3> QED BY <3>1, StrikesStep
  <2> QED BY <2>1, <2>2
<1>6. CASE SampleAndEnforce
  <2>1. CASE BudgetUnbind
    BY <2>1, ResetStrikesKeeps, StrikesStep DEF BudgetUnbind, Resume, history
  <2>2. CASE BeginSampling \/ SkipSampling \/ EndSampling \/ BudgetKill \/ BudgetMark \/ BudgetSuspend
             \/ BudgetCheck \/ BudgetDeactivate \/ BudgetUnpublish
    <3>1. pc' # "kill" /\ UNCHANGED <<breaches, streak>>
      BY <1>r, <2>2
      DEF BeginSampling, SkipSampling, EndSampling, BudgetKill, BudgetMark, BudgetSuspend, BudgetCheck,
          BudgetDeactivate, BudgetUnpublish, Read, Step, Outside, local, history
    <3> QED BY <3>1, StrikesStep
  <2>3. ASSUME NEW p \in Launches, SampleFails(p) PROVE StrikesInv'
    BY <2>3, StrikesStep DEF SampleFails, Sample, local
  <2> QED
    BY <1>6, <2>1, <2>2, <2>3, WithinBudgetStrikes, OverBudgetStrikes DEF SampleAndEnforce
<1>7. CASE WorkerError
  <2>1. pc' # "kill" /\ UNCHANGED streak
    BY <1>7 DEF WorkerError, StatementFails, UnbindFails, BudgetMarkFails, ReportFails, LetGo, Resume, Step
  <2>2. \A e \in Execs : breaches'[e] \in {breaches[e], 0}
    <3>1. CASE UnbindFails
      BY <3>1, ResetStrikesKeeps DEF UnbindFails
    <3>2. CASE ~UnbindFails
      BY <1>7, <3>2 DEF WorkerError, StatementFails, BudgetMarkFails, ReportFails, local
    <3> QED BY <3>1, <3>2
  <2> QED BY <2>1, <2>2, StrikesStep
<1>8. CASE Commands
  <2>1. UNCHANGED <<pc, target, breaches, streak>>
    BY <1>8 DEF Commands, RequestLaunch, EnqueueLaunch, RequestStop, ActivateCommand, ReadHealthy,
                ActivateRequested, UnpublishRequested, BindRequested, AbandonRequest, RequestStep,
                memory, hand, local, history
  <2> QED BY <2>1, StrikesStep
<1>9. ASSUME NEW p \in Launches, Exit(p) \/ HandleExit(p) PROVE StrikesInv'
  <2>1. UNCHANGED <<pc, target, streak>>
    BY <1>9 DEF Exit, HandleExit, Unregister, ExitLook, ExitMark, ExitUnbind, ExitCheck, ExitDeactivate,
                ExitUnpublish, ExitSuspend, ExitError, RunExit, Await, memory, hand, history
  <2>2. UNCHANGED breaches \/ ForgetStrikes(p)
    BY <1>9 DEF Exit, HandleExit, Unregister, ExitLook, ExitMark, ExitUnbind, ExitCheck, ExitDeactivate,
                ExitUnpublish, ExitSuspend, ExitError, RunExit, memory, local
  <2>3. \A e \in Execs : breaches'[e] \in {breaches[e], 0}
    BY <2>2 DEF ForgetStrikes, TypeInv, TypeOK, LocalOK
  <2> QED BY <2>1, <2>3, StrikesStep
<1>10. CASE Crash
  BY <1>10, StrikesStep DEF Crash
<1>11. CASE UNCHANGED vars
  BY <1>11, StrikesStep DEF vars, memory, hand, local, history
<1> QED
  BY <1>1, <1>2, <1>3, <1>4, <1>5, <1>6, <1>7, <1>8, <1>9, <1>10, <1>11 DEF Next, Worker

\* The budget kills an execution only when it was over budget in that many
\* samples in a row.
THEOREM KillsAreEarned == Spec => []BudgetKillsRepeatOffenders
<1>1. Init => StrikesInv
  BY DEF Init, StrikesInv, CountBehind, BudgetKillsRepeatOffenders
<1>2. StrikesInv => BudgetKillsRepeatOffenders
  BY DEF StrikesInv
<1> QED BY <1>1, <1>2, StepStrikes, TypeInvariant, PTL DEF Spec

-----------------------------------------------------------------------------
(* Suspensions. *)

\* A process of e has exited.
Dead(e) == \E p \in Launches : owner[p] = e /\ ~alive[p]

ExitSteps == {"look", "mark", "unbind", "check", "deactivate", "unpublish", "suspend", "done"}

\* A process is registered, or something of its execution has exited.
Accounted(e) == processes[e] # NoAddr \/ Dead(e)

SuspensionsDead == \A r \in Refs : suspension[r] # None => Dead(suspension[r])
ExitersDead     == \A p \in Launches : waiter[p] \in ExitSteps => ~alive[p]
RegisteredOwned == \A e \in Execs : processes[e] # NoAddr => owner[processes[e]] = e
WaitersKnown    == \A p \in Launches : waiter[p] = "wait" => Accounted(owner[p])
KillKnown       == /\ pc = "kill" => Accounted(target)
                   /\ pc \in {"mark", "suspend"} => Dead(target)

DeathInv == SuspensionsDead /\ ExitersDead /\ RegisteredOwned /\ WaitersKnown /\ KillKnown

\* A step that starts no process and begins no termination.
LEMMA DeathStep ==
  ASSUME TypeInv, DeathInv,
         UNCHANGED owner,
         \A p \in Launches : alive'[p] => alive[p],
         \A p \in Launches : waiter'[p] = "wait" => waiter[p] = "wait",
         \A p \in Launches : waiter'[p] \in ExitSteps => ~alive[p],
         \A e \in Execs : processes'[e] = processes[e] \/ (processes'[e] = NoAddr /\ Dead(e)),
         \A r \in Refs : suspension'[r] \in {suspension[r], None} \/ Dead(suspension'[r]),
         pc' = "kill" => pc = "kill" /\ target' = target,
         pc' \in {"mark", "suspend"} =>
            (pc \in {"mark", "suspend"} /\ target' = target) \/ Dead(target)'
  PROVE  DeathInv'
<1>1. \A e : Dead(e) => Dead(e)'
  BY DEF Dead
<1>2. \A e \in Execs : Accounted(e) => Accounted(e)'
  BY <1>1 DEF Accounted
<1>3. SuspensionsDead' /\ ExitersDead' /\ RegisteredOwned'
  BY <1>1 DEF DeathInv, SuspensionsDead, ExitersDead, RegisteredOwned
<1>4. WaitersKnown'
  BY <1>2 DEF DeathInv, WaitersKnown, TypeInv, HandsKnown
<1>5. pc = "kill" => target \in Execs
  BY DEF TypeInv, HandsKnown, BudgetSteps
<1>6. KillKnown'
  BY <1>1, <1>2, <1>5 DEF DeathInv, KillKnown
<1> QED BY <1>3, <1>4, <1>6 DEF DeathInv

\* A step that touches no process and no goroutine.
LEMMA QuietStep ==
  ASSUME TypeInv, DeathInv,
         UNCHANGED <<owner, alive, waiter, processes>>,
         UNCHANGED suspension,
         pc' \notin {"kill", "mark", "suspend"}
  PROVE  DeathInv'
BY DeathStep DEF DeathInv, ExitersDead

\* LocalExecutor.Stop leaves a dead process behind, or there already was one.
LEMMA KillDeath ==
  ASSUME TypeInv, DeathInv, Kill(target), target \in Execs, UNCHANGED target
  PROVE  /\ \A p \in Launches : alive'[p] => alive[p]
         /\ UNCHANGED owner
         /\ Accounted(target) => Dead(target)'
<1>1. alive' = [p \in Launches |-> alive[p] /\ p # processes[target]] /\ UNCHANGED owner
  BY DEF Kill
<1>2. \A p \in Launches : alive'[p] => alive[p]
  BY <1>1
<1>3. CASE processes[target] # NoAddr
  <2>1. processes[target] \in Launches /\ owner[processes[target]] = target
    BY <1>3 DEF DeathInv, RegisteredOwned, TypeInv, TypeOK, LocalOK, Addrs
  <2> QED BY <1>1, <1>2, <2>1 DEF Dead
<1>4. CASE processes[target] = NoAddr
  BY <1>1, <1>2, <1>4 DEF Dead, Accounted
<1> QED BY <1>1, <1>2, <1>3, <1>4

LEMMA StartDeath ==
  ASSUME TypeInv, DeathInv, NEW p \in Launches, StartProcess(p)
  PROVE  DeathInv'
<1>1. target \in Execs
  BY DEF StartProcess, TypeInv, HandsKnown, JobSteps, LaunchSteps
<1>2. /\ owner[p] = None /\ owner' = [owner EXCEPT ![p] = target]
      /\ alive' = [alive EXCEPT ![p] = TRUE]
      /\ waiter' = [waiter EXCEPT ![p] = "wait"]
      /\ processes' = [processes EXCEPT ![target] = p]
      /\ pc' = "record" /\ UNCHANGED <<suspension, target>>
  BY DEF StartProcess, tables
<1>3. ASSUME NEW e \in Execs, Dead(e) PROVE Dead(e)'
  <2>1. PICK q \in Launches : owner[q] = e /\ ~alive[q]
    BY <1>3 DEF Dead
  <2>2. q # p
    BY <1>2, <2>1, NoneAssumption
  <2> QED BY <1>2, <2>1, <2>2 DEF Dead, TypeInv, TypeOK, SystemOK
<1>4. p # NoAddr
  BY DEF Launches, NoAddr
<1>5. ASSUME NEW e \in Execs, Accounted(e) PROVE Accounted(e)'
  BY <1>2, <1>3, <1>4, <1>5 DEF Accounted, TypeInv, TypeOK, LocalOK
<1>6. Accounted(target)'
  BY <1>1, <1>2, <1>4 DEF Accounted, TypeInv, TypeOK, LocalOK
<1>7. SuspensionsDead'
  BY <1>2, <1>3 DEF DeathInv, SuspensionsDead, TypeInv, TypeOK, TablesOK
<1>8. ExitersDead'
  BY <1>2 DEF DeathInv, ExitersDead, ExitSteps, TypeInv, TypeOK, LocalOK, SystemOK
<1>9. RegisteredOwned'
  <2> SUFFICES ASSUME NEW e \in Execs, processes'[e] # NoAddr PROVE owner'[processes'[e]] = e
    BY DEF RegisteredOwned
  <2>1. CASE e = target
    BY <1>1, <1>2, <2>1 DEF TypeInv, TypeOK, LocalOK, SystemOK
  <2>2. CASE e # target
    <3>1. processes'[e] = processes[e] /\ processes[e] \in Launches /\ owner[processes[e]] = e
      BY <1>2, <2>2 DEF DeathInv, RegisteredOwned, TypeInv, TypeOK, LocalOK, Addrs
    <3>2. processes[e] # p
      BY <1>2, <3>1, NoneAssumption
    <3> QED BY <1>2, <3>1, <3>2 DEF TypeInv, TypeOK, SystemOK
  <2> QED BY <2>1, <2>2
<1>10. WaitersKnown'
  <2> SUFFICES ASSUME NEW q \in Launches, waiter'[q] = "wait" PROVE Accounted(owner[q])'
    BY DEF WaitersKnown
  <2>1. CASE q = p
    BY <1>2, <1>6, <2>1 DEF TypeInv, TypeOK, SystemOK
  <2>2. CASE q # p
    <3>1. waiter[q] = "wait" /\ owner'[q] = owner[q]
      BY <1>2, <2>2 DEF TypeInv, TypeOK, LocalOK, SystemOK
    <3>2. owner[q] \in Execs /\ Accounted(owner[q])
      BY <3>1 DEF DeathInv, WaitersKnown, TypeInv, HandsKnown
    <3> QED BY <1>5, <3>1, <3>2
  <2> QED BY <2>1, <2>2
<1>11. KillKnown'
  BY <1>2 DEF KillKnown
<1> QED BY <1>7, <1>8, <1>9, <1>10, <1>11 DEF DeathInv

LEMMA CrashDeath == TypeInv /\ DeathInv /\ Crash => DeathInv'
<1> SUFFICES ASSUME TypeInv, DeathInv, Crash PROVE DeathInv'
  OBVIOUS
<1>1. UNCHANGED <<owner, suspension>> /\ pc' = "down" /\ (\A p \in Launches : alive'[p] => alive[p])
  BY DEF Crash, tables
<1>2. \A p \in Launches : waiter'[p] \in {"none", "done", "lost"}
                          /\ (waiter'[p] = "done" => waiter[p] = "done")
  BY DEF Crash
<1>3. \A e : Dead(e) => Dead(e)'
  BY <1>1 DEF Dead
<1>4. SuspensionsDead' /\ WaitersKnown' /\ KillKnown'
  BY <1>1, <1>2, <1>3 DEF DeathInv, SuspensionsDead, WaitersKnown, KillKnown
<1>5. ExitersDead'
  BY <1>1, <1>2 DEF DeathInv, ExitersDead, ExitSteps
<1>6. RegisteredOwned'
  BY DEF Crash, RegisteredOwned
<1> QED BY <1>4, <1>5, <1>6 DEF DeathInv

LEMMA ExitDeath ==
  ASSUME TypeInv, DeathInv, NEW p \in Launches, HandleExit(p)
  PROVE  DeathInv'
<1>1. PICK here \in WaiterSteps \ {"none"}, next \in ExitSteps :
        Await(p, here, next) /\ (here = "wait" => ~alive[p] /\ Unregister(p))
  BY DEF HandleExit, Unregister, ExitLook, ExitMark, ExitUnbind, ExitCheck, ExitDeactivate,
         ExitUnpublish, ExitSuspend, ExitError, RunExit, WaiterSteps, ExitSteps
<1>2. UNCHANGED <<pc, target, owner, alive>> /\ waiter[p] = here
      /\ waiter' = [waiter EXCEPT ![p] = next]
  BY <1>1 DEF Await, hand, system
<1>3. owner[p] \in Execs
  BY <1>1, <1>2 DEF TypeInv, HandsKnown
<1>4. here # "lost"
  BY <1>1, <1>2 DEF HandleExit, Unregister, ExitLook, ExitMark, ExitUnbind, ExitCheck, ExitDeactivate,
         ExitUnpublish, ExitSuspend, ExitError, RunExit, Await
<1>5. ~alive[p]
  BY <1>1, <1>2, <1>4 DEF DeathInv, ExitersDead, WaiterSteps, ExitSteps
<1>6. Dead(owner[p])
  BY <1>5 DEF Dead
<1>7. \A e \in Execs : processes'[e] = processes[e] \/ (processes'[e] = NoAddr /\ Dead(e))
  <2>1. CASE Unregister(p)
    BY <1>6, <2>1 DEF Unregister, TypeInv, TypeOK, LocalOK
  <2>2. CASE ~Unregister(p)
    BY <2>2 DEF HandleExit, ExitLook, ExitMark, ExitUnbind, ExitCheck, ExitDeactivate,
                ExitUnpublish, ExitSuspend, ExitError, RunExit, ForgetStrikes
  <2> QED BY <2>1, <2>2
<1>8. \A r \in Refs : suspension'[r] \in {suspension[r], None} \/ Dead(suspension'[r])
  <2>1. CASE ExitSuspend(p)
    BY <1>6, <2>1 DEF ExitSuspend, Suspend, SetSuspension, TypeInv, TypeOK, TablesOK
  <2>2. CASE ~ExitSuspend(p)
    BY <2>2 DEF HandleExit, Unregister, ExitLook, ExitMark, ExitUnbind, ExitCheck, ExitDeactivate,
                ExitUnpublish, ExitError, SetStatus, SetRow, DeleteBindings, DeleteStable,
                SetBindings, DeleteActivation, SetActivation, tables
  <2> QED BY <2>1, <2>2
<1>9. \A q \in Launches : /\ waiter'[q] = "wait" => waiter[q] = "wait"
                          /\ waiter'[q] \in ExitSteps => ~alive[q]
  BY <1>1, <1>2, <1>5 DEF DeathInv, ExitersDead, ExitSteps, TypeInv, TypeOK, LocalOK
<1>10. pc' \in {"mark", "suspend"} => target' = target /\ pc \in {"mark", "suspend"}
  BY <1>2
<1> QED BY <1>2, <1>7, <1>8, <1>9, <1>10, DeathStep

LEMMA OverBudgetDeath ==
  ASSUME TypeInv, DeathInv, NEW p \in Launches, OverBudget(p)
  PROVE  DeathInv'
<1>1. UNCHANGED <<owner, alive, waiter, processes, suspension>> /\ waiter[p] = "wait"
  BY DEF OverBudget, Sample, system, tables
<1>2. pc' \in {"sampling", "kill"} /\ (pc' = "kill" => target' = owner[p])
  BY DEF OverBudget, Sample
<1>3. \A e : (Dead(e) => Dead(e)') /\ (Accounted(e) => Accounted(e)')
  BY <1>1 DEF Dead, Accounted
<1>4. SuspensionsDead' /\ ExitersDead' /\ RegisteredOwned' /\ WaitersKnown'
  BY <1>1, <1>3 DEF DeathInv, SuspensionsDead, ExitersDead, RegisteredOwned, WaitersKnown
<1>5. Accounted(owner[p])
  BY <1>1 DEF DeathInv, WaitersKnown
<1>6. KillKnown'
  BY <1>1, <1>2, <1>5 DEF KillKnown, Accounted, Dead
<1> QED BY <1>4, <1>6 DEF DeathInv

\* The three kills of the worker.
LEMMA KillStepDeath ==
  ASSUME TypeInv, DeathInv, Kill(target), UNCHANGED <<target, tables, local>>,
         \/ pc = "kill" /\ pc' = "mark"
         \/ pc \in JobSteps /\ pc' \notin {"kill", "mark", "suspend"}
  PROVE  DeathInv'
<1>1. target \in Execs
  BY DEF TypeInv, HandsKnown, BudgetSteps
<1>2. (\A p \in Launches : alive'[p] => alive[p]) /\ UNCHANGED owner
      /\ (Accounted(target) => Dead(target)')
  BY <1>1, KillDeath
<1>3. pc = "kill" => Accounted(target)
  BY DEF DeathInv, KillKnown
<1>4. UNCHANGED <<waiter, processes, suspension>>
  BY DEF tables, local
<1>5. \A p \in Launches : waiter'[p] \in ExitSteps => ~alive[p]
  BY <1>4 DEF DeathInv, ExitersDead
<1> QED BY <1>2, <1>3, <1>4, <1>5, DeathStep

LEMMA WorkerDeath == TypeInv /\ DeathInv /\ Worker => DeathInv'
<1> SUFFICES ASSUME TypeInv, DeathInv, Worker PROVE DeathInv'
  OBVIOUS
<1>r. \A here, next : Run(here, next) => pc' = next /\ UNCHANGED <<target, owner, alive, waiter, processes>>
  BY DEF Run, Step, hand, Outside, local, system
<1>t. \A e, s, rows, ref : /\ SetRow(e, s, rows) => UNCHANGED suspension
                           /\ SetStatus(e, s) => UNCHANGED suspension
                           /\ Activate(e) => UNCHANGED suspension
                           /\ DeleteActivation(ref) => UNCHANGED suspension
                           /\ DeleteStable(ref) => UNCHANGED suspension
                           /\ DeleteBindings(e) => UNCHANGED suspension
                           /\ ReplaceBindings(e, s, rows) => UNCHANGED suspension
                           /\ SetJobs(rows) => UNCHANGED suspension
  BY DEF SetStatus, SetRow, Activate, DeleteActivation, SetActivation, DeleteStable, DeleteBindings,
         ReplaceBindings, SetBindings, SetJobs
<1>1. CASE ResetExecutions \/ ResetJobs
  BY <1>1, <1>r, <1>t, QuietStep DEF ResetExecutions, ResetJobs
<1>2. ASSUME NEW j \in Jobs, ClaimJob(j) PROVE DeathInv'
  BY <1>2, <1>t, QuietStep DEF ClaimJob, SetJob, Outside, local, system, Jobs, LaunchJobs, StopJobs
<1>3. CASE CompleteJob \/ FailJob
  BY <1>3, <1>t, QuietStep DEF CompleteJob, FailJob, LetGo, SetJob, Outside, local, system
<1>4. CASE HandleLaunch
  <2>1. CASE KillUnhealthy
    BY <2>1, KillStepDeath DEF KillUnhealthy, Step, hand, JobSteps, LaunchSteps
  <2>2. CASE ClearSuspensions
    <3>1. pc' = "complete" /\ UNCHANGED <<owner, alive, waiter, processes>>
          /\ suspension' = [suspension EXCEPT ![Ref] = None]
      BY <1>r, <2>2 DEF ClearSuspensions, ClearSuspension, SetSuspension
    <3>2. \A r \in Refs : suspension'[r] \in {suspension[r], None}
      BY <3>1 DEF TypeInv, TypeOK, TablesOK
    <3>3. \A p \in Launches : waiter'[p] \in ExitSteps => ~alive[p]
      BY <3>1 DEF DeathInv, ExitersDead
    <3> QED BY <3>1, <3>2, <3>3, DeathStep
  <2>3. CASE LaunchStarting \/ PrepareFails \/ RecordUpstream \/ HealthPasses \/ HealthTimesOut
             \/ UnbindUnhealthy \/ MarkHealthy \/ CheckActivation \/ AutoActivate \/ ReadActivation
             \/ DropStable \/ BindStable \/ BindPreview
    <3>1. pc' \notin {"kill", "mark", "suspend"} /\ UNCHANGED <<owner, alive, waiter, processes, suspension>>
      BY <1>r, <1>t, <2>3
      DEF LaunchStarting, PrepareFails, RecordUpstream, HealthPasses, HealthTimesOut,
          UnbindUnhealthy, MarkHealthy, CheckActivation, AutoActivate, ReadActivation,
          DropStable, BindStable, BindPreview, Read, Step, tables, local, system
    <3> QED BY <3>1, QuietStep
  <2> QED BY <1>4, <2>1, <2>2, <2>3, StartDeath DEF HandleLaunch
<1>5. CASE HandleStop
  <2>1. CASE StopKill
    BY <2>1, KillStepDeath DEF StopKill, Step, hand, JobSteps, StopSteps
  <2>2. CASE StopMark \/ StopCheck \/ StopDeactivate \/ StopUnpublish \/ StopUnbind
    <3>1. pc' \notin {"kill", "mark", "suspend"} /\ UNCHANGED <<owner, alive, waiter, processes, suspension>>
      BY <1>r, <1>t, <2>2
      DEF StopMark, StopCheck, StopDeactivate, StopUnpublish, StopUnbind, ResetStrikes,
          Read, Step, tables, system
    <3> QED BY <3>1, QuietStep
  <2> QED BY <1>5, <2>1, <2>2 DEF HandleStop
<1>6. CASE SampleAndEnforce
  <2>1. CASE BudgetKill
    BY <2>1, KillStepDeath DEF BudgetKill, Step, hand
  <2>2. CASE BudgetMark
    <3>1. pc = "mark" /\ pc' = "suspend" /\ UNCHANGED <<target, owner, alive, waiter, processes, suspension>>
      BY <1>r, <1>t, <2>2 DEF BudgetMark, Run, Step
    <3>2. \A p \in Launches : waiter'[p] \in ExitSteps => ~alive[p]
      BY <3>1 DEF DeathInv, ExitersDead
    <3> QED BY <3>1, <3>2, DeathStep
  <2>3. CASE BudgetSuspend
    <3>1. pc = "suspend" /\ pc' = "check" /\ UNCHANGED <<owner, alive, waiter, processes>>
          /\ suspension' = [suspension EXCEPT ![RefOf[target]] = target]
      BY <1>r, <2>3 DEF BudgetSuspend, Run, Step, Suspend, SetSuspension
    <3>2. \A r \in Refs : suspension'[r] = suspension[r] \/ Dead(suspension'[r])
      BY <3>1 DEF DeathInv, KillKnown, TypeInv, TypeOK, TablesOK
    <3>3. \A p \in Launches : waiter'[p] \in ExitSteps => ~alive[p]
      BY <3>1 DEF DeathInv, ExitersDead
    <3> QED BY <3>1, <3>2, <3>3, DeathStep
  <2>4. CASE BeginSampling \/ SkipSampling \/ EndSampling \/ BudgetCheck \/ BudgetDeactivate
             \/ BudgetUnpublish \/ BudgetUnbind
    <3>1. pc' \notin {"kill", "mark", "suspend"} /\ UNCHANGED <<owner, alive, waiter, processes, suspension>>
      BY <1>r, <1>t, <2>4
      DEF BeginSampling, SkipSampling, EndSampling, BudgetCheck, BudgetDeactivate,
          BudgetUnpublish, BudgetUnbind, Resume, ResetStrikes, Read, Step, Outside, tables, local, system
    <3> QED BY <3>1, QuietStep
  <2>5. ASSUME NEW p \in Launches, SampleFails(p) \/ WithinBudget(p) PROVE DeathInv'
    BY <2>5, QuietStep DEF SampleFails, WithinBudget, ResetStrikes, Sample, tables, local, system
  <2> QED BY <1>6, <2>1, <2>2, <2>3, <2>4, <2>5, OverBudgetDeath DEF SampleAndEnforce
<1>7. CASE WorkerError
  <2>1. pc' \notin {"kill", "mark", "suspend"} /\ UNCHANGED <<owner, alive, waiter, processes, suspension>>
    BY <1>7 DEF WorkerError, StatementFails, UnbindFails, BudgetMarkFails, ReportFails, LetGo, Resume,
                ResetStrikes, Step, tables, local, system
  <2> QED BY <2>1, QuietStep
<1> QED BY <1>1, <1>2, <1>3, <1>4, <1>5, <1>6, <1>7 DEF Worker

LEMMA StepDeath == TypeInv /\ DeathInv /\ [Next]_vars => DeathInv'
<1> SUFFICES ASSUME TypeInv, DeathInv, [Next]_vars PROVE DeathInv'
  OBVIOUS
<1>1. CASE Commands \/ (\E p \in Launches : Exit(p)) \/ UNCHANGED vars
  <2>1. UNCHANGED <<pc, target, owner, waiter, processes, suspension>>
        /\ \A p \in Launches : alive'[p] => alive[p]
    BY <1>1
    DEF Commands, RequestLaunch, EnqueueLaunch, RequestStop, ActivateCommand, ReadHealthy,
        ActivateRequested, UnpublishRequested, BindRequested, AbandonRequest, RequestStep, Exit, vars,
        SetStatus, SetRow, InsertJob, SetJob, SetJobs, Activate, SetActivation, DeleteStable,
        ReplaceBindings, SetBindings, memory, hand, local, system, tables, TypeInv, TypeOK, SystemOK
  <2>2. \A p \in Launches : waiter'[p] \in ExitSteps => ~alive[p]
    BY <2>1 DEF DeathInv, ExitersDead
  <2> QED BY <2>1, <2>2, DeathStep
<1> QED BY <1>1, WorkerDeath, ExitDeath, CrashDeath DEF Next

\* A reference is only suspended for an execution that lost a process.
THEOREM SuspensionsAreEarned == Spec => []SuspendedAfterDeath
<1>1. Init => DeathInv
  BY DEF Init, DeathInv, SuspensionsDead, ExitersDead, RegisteredOwned, WaitersKnown, KillKnown, ExitSteps
<1>2. DeathInv => SuspendedAfterDeath
  BY DEF DeathInv, SuspensionsDead, Dead, SuspendedAfterDeath
<1> QED BY <1>1, <1>2, StepDeath, TypeInvariant, PTL DEF Spec
=============================================================================
