--------------------------- MODULE LaunchOnDemand ---------------------------
(***************************************************************************)
(* webd in front of one realization.  A request for its stable path is     *)
(* routed by route bindings and suspensions that webd caches for half a    *)
(* second; if nothing routes it, webd looks for a launch in progress,      *)
(* shows a page that waits for it, or launches the realization itself.     *)
(* Requests run concurrently: the caches are read and written under a lock *)
(* but filled outside of it, and the lookup, the new row and the new job   *)
(* are separate statements.  Execution models what execd does with the     *)
(* job; here a launch has the few steps that webd can see, and each of      *)
(* them may fail, leave its work half done, and be tried again.            *)
(***************************************************************************)
EXTENDS Integers, FiniteSets, FiniteSetsExt

CONSTANTS
    Visitors,       \* browsers that may come to the stable path of the realization
    MaxExecutions,  \* bound on the executions of the realization
    Limit,          \* executions that webd looks at, the newest (20)
    CacheAge,       \* ticks for which a cache is served (500 ms)
    MaxQuery,       \* ticks that a query may take
    MaxFailures,    \* bound on statements that fail or are cancelled, for each set
                    \* of visitors that come in one behaviour
    MaxAttempts,    \* attempts at a launch job (10)
    Ban,            \* the suspension of the realization
    None

Executions == 1..MaxExecutions   \* in the order in which they are created

ASSUME WebAssumption ==
    /\ MaxExecutions \in Nat /\ Limit \in Nat \ {0}
    /\ CacheAge \in Nat \ {0} /\ MaxQuery \in Nat
    /\ MaxFailures \in [DOMAIN MaxFailures -> Nat]
    /\ DOMAIN MaxFailures \subseteq SUBSET Visitors /\ MaxAttempts \in Nat \ {0}
    /\ None \notin Nat /\ Ban # None
    /\ None \notin {"launch_requested", "starting", "healthy"}

VARIABLES
    rows,       \* status of each execution
    job,        \* state of its launch job
    attempts,   \* attempts at that job that have failed, until it is over
    stable,     \* the execution that the stable routes lead to
    previews,   \* executions with a preview route
    activated,  \* the execution that may have the stable routes
    suspended,  \* the suspension of the realization, if it has one
    routes,     \* webd's cache of the stable route and its age
    bans,       \* webd's cache of the suspension and its age
    pc,         \* where each visitor's request is
    result,     \* the answer of the request's query, not yet in a cache
    slow,       \* ticks since that query
    routed,     \* has the request found a stable route?
    found,      \* executions in progress that the request has listed
    target,     \* the execution that the visitor waits for
    lost,       \* history: ticks since an execution that webd still knows as
                \* the stable one lost the stable route
    beside,     \* history: executions in progress at the request's lookup and since
    banned,     \* history: suspended long before the request came, and still
    banFor,     \* history: ticks since the realization was suspended
    failures,   \* statements of webd that have failed
    faults      \* outages in which statements of execd have failed

execd == <<rows, job, attempts, stable, previews, activated, suspended, faults>>
caches == <<routes, bans>>
request == <<pc, result, slow, routed, found, target>>
history == <<lost, beside, banned, banFor>>
vars == <<execd, caches, request, history, failures>>

Terminal == {"ended"}   \* failed, stopped or terminated: webd sees no difference
Pending  == {"launch_requested", "starting", "healthy"}
Cap == CacheAge + MaxQuery       \* where the model stops counting ticks

TypeOK ==
    /\ rows \in [Executions -> {"absent"} \cup Pending \cup Terminal]
    /\ job \in [Executions -> {"none", "pending", "running", "passed", "over"}]
    /\ attempts \in [Executions -> 0..MaxAttempts - 1] /\ faults \in Nat
    /\ stable \in Executions \cup {None} /\ previews \subseteq Executions
    /\ activated \in Executions \cup {None} /\ suspended \in {Ban, None}
    /\ routes \in [value : Executions \cup {None}, age : 0..CacheAge]
    /\ bans \in [value : {Ban, None}, age : 0..CacheAge]
    /\ pc \in [Visitors -> {"never", "away", "routes", "routes_read", "bans", "bans_read",
                            "list", "paths", "create", "enqueue", "waiting"}]
    /\ result \in [Visitors -> Executions \cup {Ban, None}]
    /\ slow \in [Visitors -> 0..MaxQuery] /\ routed \in [Visitors -> BOOLEAN]
    /\ found \in [Visitors -> [Executions -> Pending \cup {None}]]
    /\ target \in [Visitors -> Executions \cup {None}]
    /\ lost \in [Executions -> 0..Cap] /\ banFor \in 0..Cap
    /\ beside \in [Visitors -> SUBSET Executions] /\ banned \subseteq Visitors
    /\ failures \in Nat

Nothing == [e \in Executions |-> None]
Init ==
    /\ rows = [e \in Executions |-> "absent"] /\ job = [e \in Executions |-> "none"]
    /\ attempts = [e \in Executions |-> 0] /\ faults = 0
    /\ stable = None /\ previews = {} /\ activated = None /\ suspended = None
    /\ routes = [value |-> None, age |-> CacheAge]
    /\ bans = [value |-> None, age |-> CacheAge]
    /\ \E crowd \in DOMAIN MaxFailures :
         pc = [v \in Visitors |-> IF v \in crowd THEN "away" ELSE "never"]
    /\ result = [v \in Visitors |-> None]
    /\ slow = [v \in Visitors |-> 0] /\ routed = [v \in Visitors |-> FALSE]
    /\ found = [v \in Visitors |-> Nothing] /\ target = [v \in Visitors |-> None]
    /\ lost = [e \in Executions |-> Cap] /\ banFor = 0
    /\ beside = [v \in Visitors |-> {}] /\ banned = {}
    /\ failures = 0

-----------------------------------------------------------------------------
(* Requests.                                                               *)
Crowd == {v \in Visitors : pc[v] # "never"}
Failures(n) == failures + faults + n <= MaxFailures[Crowd]
Fail == Failures(1) /\ failures' = failures + 1
NoFailure == UNCHANGED failures

Goto(v, step) == pc' = [pc EXCEPT ![v] = step]
InProgress == {e \in Executions : rows[e] \in Pending}
Existing == {e \in Executions : rows[e] # "absent"}
Newest == {e \in Existing : Cardinality({d \in Existing : d > e}) < Limit}

\* A request comes in, the first one or a reload.
Ask(v) ==
    /\ Goto(v, "routes")
    /\ beside' = [beside EXCEPT ![v] = {}]
    /\ banned' = IF banFor = Cap THEN banned \cup {v} ELSE banned \ {v}
    /\ routed' = [routed EXCEPT ![v] = FALSE]
    /\ found' = [found EXCEPT ![v] = Nothing]
    /\ target' = [target EXCEPT ![v] = None]
Come(v) ==
    /\ pc[v] = "away" /\ Ask(v)
    /\ UNCHANGED <<execd, caches, result, slow, lost, banFor, failures>>

\* The visitor has an answer to leave with: the realization, or a page that
\* does not wait.
Forget(v) == beside' = [beside EXCEPT ![v] = {}] /\ banned' = banned \ {v}
Leave(v) ==
    /\ Goto(v, "away") /\ Forget(v)
    /\ routed' = [routed EXCEPT ![v] = FALSE]
    /\ found' = [found EXCEPT ![v] = Nothing] /\ target' = [target EXCEPT ![v] = None]
Wait(v, e) ==
    /\ Goto(v, "waiting") /\ Forget(v) /\ target' = [target EXCEPT ![v] = e]
    /\ found' = [found EXCEPT ![v] = Nothing]
    /\ UNCHANGED routed

(* runtimeRouteSource.routes and runtimeSuspensionSource.suspensions: the   *)
(* cache while it is young (and, in the code, not empty: other realizations *)
(* have routes and suspensions), else a query outside of the lock, whose   *)
(* result replaces whatever the cache holds by then.                       *)
Young(cache) == cache.age < CacheAge
Query(v, value, step) ==
    /\ result' = [result EXCEPT ![v] = value] /\ slow' = [slow EXCEPT ![v] = 0]
    /\ Goto(v, step)
\* Mutant: the cache is served for one more period.
StoredLonger(value) == [value |-> value, age |-> -1]
Stored(value) == [value |-> value, age |-> 0]
Settle(v) == result' = [result EXCEPT ![v] = None] /\ slow' = [slow EXCEPT ![v] = 0]

GetRoutes(v) ==
    /\ pc[v] = "routes"
    /\ \/ /\ Young(routes) /\ Goto(v, "bans")
          /\ routed' = [routed EXCEPT ![v] = routes.value # None]
          /\ NoFailure /\ UNCHANGED <<result, slow, found, target, beside, banned>>
       \/ /\ ~Young(routes) /\ Query(v, stable, "routes_read")
          /\ NoFailure /\ UNCHANGED <<routed, found, target, beside, banned>>
       \/ ~Young(routes) /\ Fail /\ Leave(v) /\ UNCHANGED <<result, slow>>
    /\ UNCHANGED <<execd, caches, lost, banFor>>
StoreRoutes(v) ==
    /\ pc[v] = "routes_read" /\ Goto(v, "bans") /\ Settle(v)
    /\ routes' = Stored(result[v])
    /\ routed' = [routed EXCEPT ![v] = result[v] # None]
    /\ UNCHANGED <<execd, bans, found, target, history, failures>>

(* realizationRoutingMiddleware: a route goes before a suspension, and a    *)
(* suspension before a launch.  A failed query counts as no suspension.    *)
asked == <<routed, found, target, beside, banned>>
\* Mutant: suspensions are only looked at for executions by name.
LaunchAnyway(v, ban) ==
    IF routed[v] THEN Leave(v) ELSE Goto(v, "list") /\ UNCHANGED asked
Route(v, ban) ==
    IF routed[v] \/ ban # None THEN Leave(v) ELSE Goto(v, "list") /\ UNCHANGED asked
GetBans(v) ==
    /\ pc[v] = "bans"
    /\ \/ Young(bans) /\ Route(v, bans.value) /\ NoFailure /\ UNCHANGED <<result, slow>>
       \/ /\ ~Young(bans) /\ Query(v, suspended, "bans_read")
          /\ NoFailure /\ UNCHANGED asked
       \/ ~Young(bans) /\ Fail /\ Route(v, None) /\ UNCHANGED <<result, slow>>
    /\ UNCHANGED <<execd, caches, lost, banFor>>
StoreBans(v) ==
    /\ pc[v] = "bans_read" /\ Route(v, result[v]) /\ Settle(v)
    /\ bans' = Stored(result[v])
    /\ UNCHANGED <<execd, routes, lost, banFor, failures>>

(* preferredLaunchTarget: the executions first, their routes afterwards.    *)
\* Mutant: an execution whose launch has not begun is not in progress.
Begun == {e \in InProgress \cap Newest : rows[e] # "launch_requested"}
Listed == InProgress \cap Newest
ListExecutions(v) ==
    /\ pc[v] = "list"
    /\ \/ /\ found' = [found EXCEPT ![v] = [e \in Executions |->
                         IF e \in Listed THEN rows[e] ELSE None]]
          /\ beside' = [beside EXCEPT ![v] = InProgress \cap Newest]
          /\ Goto(v, IF Existing = {} THEN "create" ELSE "paths") /\ NoFailure
       \/ Fail /\ Goto(v, "create") /\ UNCHANGED <<found, beside>>
    /\ UNCHANGED <<execd, caches, result, slow, routed, target, lost, banned, banFor>>

(* selectLaunchTarget: the most advanced execution with a route, or else    *)
(* the most advanced one; the newest among equals.                         *)
launchStatusPriority(status) ==
    CASE status = "healthy" -> 30 [] status = "starting" -> 20 [] OTHER -> 10
Best(items, candidates) ==
    LET highest == Max({launchStatusPriority(items[e]) : e \in candidates})
    IN  Max({e \in candidates : launchStatusPriority(items[e]) = highest})
SelectLaunchTarget(items, open) ==
    LET candidates == {e \in Executions : items[e] # None}
    IN  IF candidates = {} THEN None
        ELSE IF candidates \cap open # {} THEN Best(items, candidates \cap open)
        ELSE Best(items, candidates)

\* A target with a stable route is redirected to, which is where the visitor
\* has been; one with a preview route or none is waited for.
ListPaths(v) ==
    /\ pc[v] = "paths"
    /\ \E open \in {previews \cup ({stable} \cap Executions), {}} :
         /\ open = {} => IF previews = {} /\ stable = None THEN NoFailure ELSE Fail
         /\ open # {} => NoFailure
         /\ LET e == SelectLaunchTarget(found[v], open)
            IN  IF e = None THEN /\ Goto(v, "create") /\ found' = [found EXCEPT ![v] = Nothing]
                                 /\ UNCHANGED <<routed, target, beside, banned>>
                ELSE IF e \in open /\ e = stable THEN Ask(v)
                ELSE Wait(v, e)
    /\ UNCHANGED <<execd, caches, result, slow, lost, banFor>>

(* enqueueLaunchForMissingPath: a row, then a job for it.  A failure, like   *)
(* the bound on executions, sends the request to the catalogue's page.      *)
Fresh == {e \in Executions : rows[e] = "absent"}
CreateRow(v) ==
    /\ pc[v] = "create"
    /\ \/ /\ Fresh # {} /\ NoFailure
          /\ rows' = [rows EXCEPT ![Min(Fresh)] = "launch_requested"]
          /\ target' = [target EXCEPT ![v] = Min(Fresh)]
          /\ Goto(v, "enqueue") /\ Forget(v) /\ UNCHANGED <<routed, found>>
       \/ (IF Fresh = {} THEN NoFailure ELSE Fail) /\ Leave(v) /\ UNCHANGED rows
    /\ UNCHANGED <<job, attempts, stable, previews, activated, suspended, faults>>
    /\ UNCHANGED <<caches, result, slow, lost, banFor>>
EnqueueJob(v) ==
    /\ pc[v] = "enqueue"
    /\ \/ /\ job' = [job EXCEPT ![target[v]] = "pending"]
          /\ Wait(v, target[v]) /\ NoFailure
       \/ Fail /\ Leave(v) /\ UNCHANGED job
    /\ UNCHANGED <<rows, attempts, stable, previews, activated, suspended, faults>>
    /\ UNCHANGED <<caches, result, slow, lost, banFor>>

(* The page that waits polls the execution.  It opens the stable path when  *)
(* the execution is healthy and has it, or has no route at all, waits on   *)
(* when it only has a preview route, and gives up when it is over.         *)
Opens(e) == e = stable \/ e \notin previews
\* Mutant: only the success of a launch ends the wait.
PollForSuccess(v) ==
    /\ pc[v] = "waiting" /\ rows[target[v]] = "healthy" /\ Opens(target[v]) /\ Ask(v)
    /\ UNCHANGED <<execd, caches, result, slow, lost, banFor, failures>>
Poll(v) ==
    /\ pc[v] = "waiting"
    /\ LET e == target[v]
       IN  \/ rows[e] = "healthy" /\ Opens(e) /\ Ask(v)
           \/ rows[e] \in Terminal /\ Leave(v)
    /\ UNCHANGED <<execd, caches, result, slow, lost, banFor, failures>>

-----------------------------------------------------------------------------
(* execd: one job at a time, and each launch as the few steps that webd can *)
(* see.  The order of the statements inside of a step, and what overtakes   *)
(* it, is the subject of Execution.                                         *)
Remember ==
    /\ lost' = [e \in Executions |-> IF e = stable' THEN 0 ELSE lost[e]]
    /\ beside' = [v \in Visitors |-> {e \in beside[v] : rows'[e] \in Pending}]
    /\ IF suspended' = None THEN banned' = {} /\ banFor' = 0 ELSE UNCHANGED <<banned, banFor>>
Work == Remember /\ UNCHANGED <<caches, request, failures>>

Sound == UNCHANGED faults
Faulty(n) == Failures(n) /\ faults' = faults + n

Row(e, status) == rows' = [rows EXCEPT ![e] = status]
Job(e, state)  == job' = [job EXCEPT ![e] = state]
JobOver(e) == Job(e, "over") /\ attempts' = [attempts EXCEPT ![e] = 0]
Without(e, owner) == IF owner = e THEN None ELSE owner
Idle == \A e \in Executions : job[e] \notin {"running", "passed"}

\* A failed attempt is followed by another one until they are used up.  If the
\* report of it is lost, in the same outage as a statement of the launch or in
\* one of its own, the job stays as if it were running, in nobody's hands.
FailJob(e, outages) ==
    \/ /\ attempts[e] + 1 < MaxAttempts /\ Faulty(outages)
       /\ Job(e, "pending") /\ attempts' = [attempts EXCEPT ![e] = @ + 1]
    \/ attempts[e] + 1 = MaxAttempts /\ Faulty(outages) /\ JobOver(e)
    \/ Faulty(1) /\ JobOver(e)

Start(e) ==
    /\ Idle /\ job[e] = "pending" /\ Job(e, "running") /\ Row(e, "starting")
    /\ Sound /\ UNCHANGED <<attempts, stable, previews, activated, suspended>> /\ Work
StartFails(e) ==
    /\ Idle /\ job[e] = "pending" /\ FailJob(e, 1)
    /\ UNCHANGED <<rows, stable, previews, activated, suspended>> /\ Work
\* The activation of the first healthy execution may fail: nobody is told.
Healthy(e) ==
    /\ job[e] = "running" /\ Job(e, "passed") /\ Row(e, "healthy")
    /\ \/ Sound /\ activated' = IF activated = None THEN e ELSE activated
       \/ activated = None /\ Faulty(1) /\ UNCHANGED activated
    /\ UNCHANGED <<attempts, stable, previews, suspended>> /\ Work

Bound(e) ==
    /\ previews' = previews \cup {e}
    /\ stable' = IF activated = e THEN e ELSE Without(e, stable)
Bind(e) ==
    /\ job[e] = "passed" /\ JobOver(e) /\ Bound(e) /\ suspended' = None
    /\ Sound /\ UNCHANGED <<rows, activated>> /\ Work
\* The activation cannot be read, the new routes cannot be written after the
\* stable ones are gone, or the suspension cannot be cleared.
BindFails(e) ==
    /\ job[e] = "passed" /\ FailJob(e, 1)
    /\ \/ UNCHANGED <<previews, stable>>
       \/ activated = e /\ stable' = None /\ UNCHANGED previews
       \/ Bound(e)
    /\ UNCHANGED <<rows, activated, suspended>> /\ Work

\* The build, the process or its probe fails: the row says so, unless that fails
\* as well, and a process that has exited suspends the realization.  Or a row
\* cannot be written on the way: it keeps saying that the execution starts.
LaunchFails(e) ==
    /\ job[e] = "running"
    /\ \/ FailJob(e, 0) /\ Row(e, "ended") /\ suspended' \in {suspended, Ban}
       \/ FailJob(e, 1) /\ UNCHANGED <<rows, suspended>>
    /\ \/ previews' = previews \ {e} /\ stable' = Without(e, stable)
       \/ UNCHANGED <<previews, stable>>
    /\ UNCHANGED activated /\ Work

\* What a handler whose errors are dropped leaves undone, one thing at most.
Dropping(failing) == IF failing = "nothing" THEN Sound ELSE Faulty(1)
Exits(e) ==
    /\ rows[e] \in {"starting", "healthy"} /\ job[e] \notin {"running", "passed"}
    /\ \E failing \in {"nothing", "row", "routes", "activation", "suspension"} :
         /\ Dropping(failing)
         /\ IF failing = "row" THEN UNCHANGED rows ELSE Row(e, "ended")
         /\ previews' = IF failing = "routes" THEN previews ELSE previews \ {e}
         /\ stable' = IF activated = e /\ failing # "activation" THEN None
                      ELSE IF failing = "routes" THEN stable ELSE Without(e, stable)
         /\ activated' = IF failing = "activation" THEN activated ELSE Without(e, activated)
         /\ suspended' = IF failing = "suspension" THEN suspended ELSE Ban
    /\ UNCHANGED <<job, attempts>> /\ Work
\* Only of an execution that is up; a launch that is stopped while it is queued
\* starts all the same, in Execution.
Stop(e) ==
    /\ Idle /\ rows[e] \in {"starting", "healthy"} /\ Row(e, "ended")
    /\ \E failing \in {"nothing", "activation", "stable", "routes"} :
         /\ Dropping(failing)
         /\ activated' = IF failing = "activation" THEN activated ELSE Without(e, activated)
         /\ stable' = IF failing = "stable" THEN Without(e, stable) ELSE None
         /\ previews' = IF failing = "routes" THEN previews ELSE previews \ {e}
    /\ UNCHANGED <<job, attempts, suspended>> /\ Work

-----------------------------------------------------------------------------
(* Time passes, no further than the queries under way allow.                *)
Reading == {v \in Visitors : pc[v] \in {"routes_read", "bans_read"}}
Known == {routes.value} \cup {result[v] : v \in Reading}
Later(t, bound) == IF t < bound THEN t + 1 ELSE bound
\* A cache that is out of date is never served: the model forgets its value.
Older(cache) == [value |-> IF cache.age + 1 < CacheAge THEN cache.value ELSE None,
                 age |-> Later(cache.age, CacheAge)]
Tick ==
    /\ \A v \in Reading : slow[v] < MaxQuery
    /\ slow' = [v \in Visitors |-> IF v \in Reading THEN slow[v] + 1 ELSE slow[v]]
    /\ routes' = Older(routes) /\ bans' = Older(bans)
    /\ lost' = [e \in Executions |->
                  IF e = stable THEN 0
                  ELSE IF e \in Known THEN Later(lost[e], Cap) ELSE Cap]
    /\ banFor' = IF suspended = None THEN 0 ELSE Later(banFor, Cap)
    /\ UNCHANGED <<execd, pc, result, routed, found, target, beside, banned, failures>>

Visit(v) == \/ GetRoutes(v) \/ StoreRoutes(v) \/ GetBans(v) \/ StoreBans(v)
            \/ ListExecutions(v) \/ ListPaths(v) \/ CreateRow(v) \/ EnqueueJob(v) \/ Poll(v)
Launching(e) == \/ Start(e) \/ Healthy(e) \/ Bind(e)
                \/ StartFails(e) \/ LaunchFails(e) \/ BindFails(e)
Next ==
    \/ \E v \in Visitors : Come(v) \/ Visit(v)
    \/ \E e \in Executions : Launching(e) \/ Exits(e) \/ Stop(e)
    \/ Tick
Spec == Init /\ [][Next]_vars
Fairness ==
    /\ \A v \in Visitors : WF_vars(Visit(v))
    /\ WF_vars(\E e \in Executions : Launching(e))
    /\ WF_vars(Tick)
LiveSpec == Spec /\ Fairness

-----------------------------------------------------------------------------
(* A route that webd serves from its cache was a stable route a moment ago:  *)
(* no interleaving of requests that fill the cache, however slow their      *)
(* queries, keeps a deleted route alive for longer than one cache period    *)
(* and one query (runtimeRouteSource.routes).                               *)
RoutesAgeOut ==
    Young(routes) /\ routes.value # None => lost[routes.value] <= CacheAge - 1 + MaxQuery

(* webd never launches beside an execution that was in progress, among the  *)
(* newest, when the request looked for one, and still is                    *)
(* (preferredLaunchTarget).  Two requests that look before either has       *)
(* written its row do launch twice.                                         *)
NoSecondLaunch ==
    failures = 0 => \A v \in Visitors : pc[v] = "create" => beside[v] \cap Newest = {}

(* A realization that has been suspended for longer than the cache can hide *)
(* is not launched by a visit: the request ends on the suspension page, or  *)
(* at a route (realizationRoutingMiddleware).                               *)
SuspendedIsNotLaunched ==
    failures = 0 => \A v \in banned : pc[v] \notin {"list", "paths", "create", "enqueue"}

(* Every visitor gets an answer that does not wait, the realization or a    *)
(* page that says why not, unless it waits again and again for one          *)
(* execution that never comes.  If every statement succeeds, that is a      *)
(* healthy one that only has a preview route, which the page does not open  *)
(* (completionTarget), and nothing else.  After a failure it may also be    *)
(* one whose job was not enqueued, or is used up or lost while its row      *)
(* still says that it is on its way, or one left without routes             *)
(* (LocalWorker.Tick, handleLaunch and handleProcessExit).  No retry, no    *)
(* stop, no exit and no other visitor may keep a visitor waiting otherwise. *)
Enqueued(e) == \E v \in Visitors : pc[v] = "enqueue" /\ target[v] = e
Open(e) == rows[e] = "healthy" /\ e = stable
NeverComes(e) ==
    /\ rows[e] \in Pending /\ ~Open(e) /\ job[e] \in {"none", "over"} /\ ~Enqueued(e)
    /\ (rows[e] = "healthy" /\ e \in previews) \/ failures + faults > 0
VisitorsGetThere ==
    \A v \in Visitors :
      \/ []<>(pc[v] \in {"never", "away"})
      \/ \E e \in Executions : <>[]NeverComes(e) /\ []<>(pc[v] = "waiting" /\ target[v] = e)
=============================================================================
