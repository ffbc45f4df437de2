---------------------------- MODULE LaunchProofs ----------------------------
(***************************************************************************)
(* What webd may believe of routes, suspensions and launches in progress,  *)
(* for any number of visitors and executions, any age of its caches, any   *)
(* delay of its queries and any failures.                                  *)
(***************************************************************************)
EXTENDS LaunchOnDemand, FiniteSetTheorems, WellFoundedInduction, TLAPS

-----------------------------------------------------------------------------
(* Least and greatest executions.                                          *)

LEMMA LeastNumber ==
  ASSUME NEW S \in SUBSET Nat, S # {}
  PROVE  Min(S) \in S
<1>1. PICK t \in S : \A y \in S : ~ (<<y, t>> \in OpToRel(<, Nat))
  BY NatLessThanWellFounded, WFMin
<1>2. \A y \in S : t <= y
  <2> SUFFICES ASSUME NEW y \in S PROVE ~ (y < t)
    OBVIOUS
  <2>1. <<y, t>> \in Nat \X Nat
    OBVIOUS
  <2> QED BY <1>1, <2>1 DEF OpToRel
<1> QED BY <1>2 DEF Min

LEMMA GreatestNumber ==
  ASSUME NEW n \in Nat, NEW S \in SUBSET (0..n), S # {}
  PROVE  Max(S) \in S
<1> DEFINE T == {n - x : x \in S}
<1>1. T \in SUBSET Nat /\ T # {}
  <2>1. \A x \in S : n - x \in Nat
    OBVIOUS
  <2> QED BY <2>1
<1>2. PICK t \in T : \A y \in T : ~ (<<y, t>> \in OpToRel(<, Nat))
  <2> HIDE DEF T
  <2> QED BY <1>1, NatLessThanWellFounded, WFMin
<1>3. PICK x \in S : t = n - x
  OBVIOUS
<1>4. \A y \in S : x >= y
  <2> SUFFICES ASSUME NEW y \in S PROVE ~ (x < y)
    OBVIOUS
  <2>1. n - y \in T /\ <<n - y, t>> \in Nat \X Nat
    BY <1>1
  <2> QED BY <1>2, <1>3, <2>1 DEF OpToRel
<1> QED BY <1>4 DEF Max

LEMMA FreshType == ASSUME Fresh # {} PROVE Min(Fresh) \in Executions
<1>1. Fresh \in SUBSET Nat /\ Fresh \subseteq Executions
  BY DEF Fresh, Executions
<1> QED BY <1>1, LeastNumber

\* The target is one of the executions that were found, if there are any.
LEMMA TargetType ==
  ASSUME NEW items, NEW open
  PROVE  LET found_ == {e \in Executions : items[e] # None}
         IN  /\ found_ = {} => SelectLaunchTarget(items, open) = None
             /\ found_ # {} => SelectLaunchTarget(items, open) \in Executions
<1> DEFINE candidates == {e \in Executions : items[e] # None}
<1>1. ASSUME NEW C \in SUBSET Executions, C # {}
      PROVE  Best(items, C) \in Executions
  <2> DEFINE P == {launchStatusPriority(items[e]) : e \in C}
             S == {e \in C : launchStatusPriority(items[e]) = Max(P)}
  <2>1. P \in SUBSET (0..30) /\ P # {}
    BY <1>1 DEF launchStatusPriority
  <2>2. Max(P) \in P
    <3> HIDE DEF P
    <3> QED BY <2>1, GreatestNumber
  <2>3. S # {}
    BY <2>2
  <2>4. S \in SUBSET (0..MaxExecutions)
    <3>1. \A e \in Executions : e \in 0..MaxExecutions
      BY WebAssumption DEF Executions
    <3> QED BY <3>1
  <2>5. Max(S) \in S
    <3> HIDE DEF S
    <3> QED BY <2>3, <2>4, GreatestNumber, WebAssumption
  <2>6. Best(items, C) = Max(S)
    BY DEF Best
  <2> QED BY <2>5, <2>6
<1>2. candidates = {} => SelectLaunchTarget(items, open) = None
  BY DEF SelectLaunchTarget
<1>3. CASE candidates # {} /\ candidates \cap open # {}
  BY <1>1, <1>3 DEF SelectLaunchTarget
<1>4. CASE candidates # {} /\ candidates \cap open = {}
  BY <1>1, <1>4 DEF SelectLaunchTarget
<1> QED BY <1>2, <1>3, <1>4

-----------------------------------------------------------------------------
(* Types.                                                                  *)

\* What a query of routes, or of suspensions, has read.
Answers ==
    \A v \in Visitors :
      /\ pc[v] = "routes_read" => result[v] \in Executions \cup {None}
      /\ pc[v] = "bans_read" => result[v] \in {Ban, None}
TypeInv == TypeOK /\ Answers

LEMMA InitType == Init => TypeInv
<1> SUFFICES ASSUME Init PROVE TypeInv
  OBVIOUS
<1>1. PICK crowd : pc = [v \in Visitors |-> IF v \in crowd THEN "away" ELSE "never"]
  BY DEF Init
<1>2. attempts \in [Executions -> 0..MaxAttempts - 1]
  BY WebAssumption DEF Init
<1> QED BY <1>1, <1>2, WebAssumption DEF Init, TypeInv, TypeOK, Answers, Executions, Nothing, Cap

\* What a request's end, its beginning and its wait leave well typed.
AskedTypes ==
    /\ beside \in [Visitors -> SUBSET Executions] /\ banned \subseteq Visitors
    /\ routed \in [Visitors -> BOOLEAN]
    /\ found \in [Visitors -> [Executions -> Pending \cup {None}]]
    /\ target \in [Visitors -> Executions \cup {None}]

LEMMA NothingType == Nothing \in [Executions -> Pending \cup {None}]
BY DEF Nothing

LEMMA LeaveType ==
  ASSUME TypeOK, NEW v \in Visitors, Leave(v)
  PROVE  AskedTypes' /\ pc' = [pc EXCEPT ![v] = "away"]
BY NothingType DEF TypeOK, Leave, Forget, Goto, AskedTypes

LEMMA AskType ==
  ASSUME TypeOK, NEW v \in Visitors, Ask(v)
  PROVE  AskedTypes' /\ pc' = [pc EXCEPT ![v] = "routes"]
<1>1. banned' \subseteq Visitors
  BY DEF TypeOK, Ask
<1> QED BY <1>1, NothingType DEF TypeOK, Ask, Goto, AskedTypes

LEMMA WaitType ==
  ASSUME TypeOK, NEW v \in Visitors, NEW e \in Executions, Wait(v, e)
  PROVE  AskedTypes' /\ pc' = [pc EXCEPT ![v] = "waiting"]
BY NothingType DEF TypeOK, Wait, Forget, Goto, AskedTypes

LEMMA ComeType == ASSUME TypeInv, NEW v \in Visitors, Come(v) PROVE TypeInv'
<1>1. AskedTypes' /\ pc' = [pc EXCEPT ![v] = "routes"]
  BY AskType DEF Come, TypeInv
<1> QED BY <1>1 DEF Come, TypeInv, TypeOK, Answers, AskedTypes, execd, caches

LEMMA CacheTypes ==
  ASSUME TypeOK
  PROVE  /\ \A value \in Executions \cup {None} :
              Stored(value) \in [value : Executions \cup {None}, age : 0..CacheAge]
         /\ \A value \in {Ban, None} :
              Stored(value) \in [value : {Ban, None}, age : 0..CacheAge]
BY WebAssumption DEF Stored

LEMMA RoutesType ==
  ASSUME TypeInv, NEW v \in Visitors, GetRoutes(v) \/ StoreRoutes(v)
  PROVE  TypeInv'
<1>1. CASE GetRoutes(v) /\ Young(routes)
  <2>1. /\ pc' = [pc EXCEPT ![v] = "bans"] /\ routed' = [routed EXCEPT ![v] = routes.value # None]
        /\ UNCHANGED <<execd, caches, lost, banFor, failures, result, slow, found, target, beside, banned>>
    BY <1>1 DEF GetRoutes, Goto, NoFailure
  <2> QED BY <2>1 DEF TypeInv, TypeOK, Answers, execd, caches
<1>2. CASE GetRoutes(v) /\ ~Young(routes)
  <2>1. CASE Query(v, stable, "routes_read") /\ NoFailure
                /\ UNCHANGED <<execd, caches, lost, banFor, routed, found, target, beside, banned>>
    BY <2>1, WebAssumption DEF TypeInv, TypeOK, Answers, execd, caches, Query, Goto, NoFailure
  <2>2. CASE Fail /\ Leave(v) /\ UNCHANGED <<execd, caches, lost, banFor, result, slow>>
    <3>1. AskedTypes' /\ pc' = [pc EXCEPT ![v] = "away"]
      BY <2>2, LeaveType DEF TypeInv
    <3>2. failures' \in Nat
      BY <2>2, WebAssumption DEF Fail, TypeInv, TypeOK
    <3> QED BY <2>2, <3>1, <3>2 DEF TypeInv, TypeOK, Answers, AskedTypes, execd, caches
  <2> QED BY <1>2, <2>1, <2>2 DEF GetRoutes
<1>3. CASE StoreRoutes(v)
  <2>1. routes' \in [value : Executions \cup {None}, age : 0..CacheAge]
    BY <1>3, CacheTypes DEF StoreRoutes, TypeInv, Answers
  <2> QED BY <1>3, <2>1, WebAssumption
          DEF StoreRoutes, Goto, Settle, TypeInv, TypeOK, Answers, execd, history
<1> QED BY <1>1, <1>2, <1>3

\* Routing: the request ends or looks for a launch.
LEMMA RouteType ==
  ASSUME TypeOK, NEW v \in Visitors, NEW ban, Route(v, ban)
  PROVE  AskedTypes' /\ (\/ pc' = [pc EXCEPT ![v] = "away"] \/ pc' = [pc EXCEPT ![v] = "list"])
BY LeaveType DEF Route, Goto, asked, AskedTypes, TypeOK

LEMMA BansType ==
  ASSUME TypeInv, NEW v \in Visitors, GetBans(v) \/ StoreBans(v)
  PROVE  TypeInv'
<1>0. TypeOK
  BY DEF TypeInv
<1>1. CASE GetBans(v) /\ Route(v, bans.value) /\ NoFailure /\ UNCHANGED <<result, slow>>
  BY <1>0, <1>1, RouteType DEF GetBans, NoFailure, TypeInv, TypeOK, Answers, AskedTypes, execd, caches
<1>2. CASE GetBans(v) /\ Query(v, suspended, "bans_read") /\ NoFailure /\ UNCHANGED asked
  BY <1>2, WebAssumption
     DEF GetBans, Query, Goto, NoFailure, asked, TypeInv, TypeOK, Answers, execd, caches
<1>3. CASE GetBans(v) /\ Fail /\ Route(v, None) /\ UNCHANGED <<result, slow>>
  <2>1. failures' \in Nat
    BY <1>0, <1>3, WebAssumption DEF Fail, TypeOK
  <2> QED BY <1>0, <1>3, <2>1, RouteType
          DEF GetBans, TypeInv, TypeOK, Answers, AskedTypes, execd, caches
<1>4. CASE StoreBans(v)
  <2>1. bans' \in [value : {Ban, None}, age : 0..CacheAge]
    BY <1>4, CacheTypes DEF StoreBans, TypeInv, Answers
  <2>2. result' \in [Visitors -> Executions \cup {Ban, None}] /\ slow' \in [Visitors -> 0..MaxQuery]
        /\ \A w \in Visitors : w # v => result'[w] = result[w]
    BY <1>0, <1>4, WebAssumption DEF StoreBans, Settle, TypeOK
  <2>3. AskedTypes' /\ (\/ pc' = [pc EXCEPT ![v] = "away"] \/ pc' = [pc EXCEPT ![v] = "list"])
    BY <1>0, <1>4, RouteType DEF StoreBans
  <2> QED BY <1>4, <2>1, <2>2, <2>3
          DEF StoreBans, TypeInv, TypeOK, Answers, AskedTypes, execd
<1> QED BY <1>1, <1>2, <1>3, <1>4 DEF GetBans

LEMMA ListType == ASSUME TypeInv, NEW v \in Visitors, ListExecutions(v) PROVE TypeInv'
<1>1. InProgress \cap Newest \in SUBSET Executions
  BY DEF InProgress
<1> DEFINE items == [e \in Executions |-> IF e \in Listed THEN rows[e] ELSE None]
<1>2. items \in [Executions -> Pending \cup {None}]
  BY DEF Listed, InProgress
<1>3. failures' \in Nat
  BY WebAssumption DEF ListExecutions, Fail, NoFailure, TypeInv, TypeOK
<1>4. /\ found' \in [Visitors -> [Executions -> Pending \cup {None}]]
      /\ beside' \in [Visitors -> SUBSET Executions]
  <2>1. \/ found' = [found EXCEPT ![v] = items]
           /\ beside' = [beside EXCEPT ![v] = InProgress \cap Newest]
        \/ UNCHANGED <<found, beside>>
    BY DEF ListExecutions
  <2>2. /\ found \in [Visitors -> [Executions -> Pending \cup {None}]]
        /\ beside \in [Visitors -> SUBSET Executions]
    BY DEF TypeInv, TypeOK
  <2> HIDE DEF items
  <2>3. CASE UNCHANGED <<found, beside>>
    BY <2>2, <2>3
  <2>4. CASE found' = [found EXCEPT ![v] = items] /\ beside' = [beside EXCEPT ![v] = InProgress \cap Newest]
    BY <1>1, <1>2, <2>2, <2>4
  <2> QED BY <2>1, <2>3, <2>4
<1>5. pc' = [pc EXCEPT ![v] = "create"] \/ pc' = [pc EXCEPT ![v] = "paths"]
  BY DEF ListExecutions, Goto
<1> QED BY <1>3, <1>4, <1>5 DEF ListExecutions, TypeInv, TypeOK, Answers, execd, caches

LEMMA PathsType == ASSUME TypeInv, NEW v \in Visitors, ListPaths(v) PROVE TypeInv'
<1>0. TypeOK
  BY DEF TypeInv
<1>1. PICK open \in {previews \cup ({stable} \cap Executions), {}} :
        /\ open = {} => IF previews = {} /\ stable = None THEN NoFailure ELSE Fail
        /\ open # {} => NoFailure
        /\ LET e == SelectLaunchTarget(found[v], open)
           IN  IF e = None THEN /\ Goto(v, "create") /\ found' = [found EXCEPT ![v] = Nothing]
                                /\ UNCHANGED <<routed, target, beside, banned>>
               ELSE IF e \in open /\ e = stable THEN Ask(v)
               ELSE Wait(v, e)
  BY DEF ListPaths
<1> DEFINE e == SelectLaunchTarget(found[v], open)
<1>2. e = None \/ e \in Executions
  BY TargetType
<1>3. failures' \in Nat
  BY <1>0, <1>1, WebAssumption DEF Fail, NoFailure, TypeOK
<1> HIDE DEF e
<1>4. AskedTypes' /\ (\/ pc' = [pc EXCEPT ![v] = "create"] \/ pc' = [pc EXCEPT ![v] = "routes"]
                      \/ pc' = [pc EXCEPT ![v] = "waiting"])
  <2>1. CASE e = None
    BY <1>0, <1>1, <2>1, NothingType DEF e, Goto, AskedTypes, TypeOK
  <2>2. CASE e # None /\ Ask(v)
    BY <1>0, <2>2, AskType
  <2>3. CASE e # None /\ Wait(v, e)
    BY <1>0, <1>2, <2>3, WaitType
  <2> QED BY <1>1, <2>1, <2>2, <2>3 DEF e
<1> QED BY <1>3, <1>4 DEF ListPaths, TypeInv, TypeOK, Answers, AskedTypes, execd, caches

LEMMA LaunchType ==
  ASSUME TypeInv, NEW v \in Visitors, CreateRow(v) \/ EnqueueJob(v)
  PROVE  TypeInv'
<1>0. TypeOK
  BY DEF TypeInv
<1>1. failures' \in Nat
  BY <1>0, WebAssumption DEF CreateRow, EnqueueJob, Fail, NoFailure, TypeOK
<1>2. CASE CreateRow(v) /\ Leave(v) /\ UNCHANGED rows
  BY <1>0, <1>1, <1>2, LeaveType DEF CreateRow, TypeInv, TypeOK, Answers, AskedTypes, caches
<1>3. CASE CreateRow(v) /\ Fresh # {} /\ Goto(v, "enqueue") /\ Forget(v) /\ UNCHANGED <<routed, found>>
           /\ rows' = [rows EXCEPT ![Min(Fresh)] = "launch_requested"]
           /\ target' = [target EXCEPT ![v] = Min(Fresh)]
  <2>1. rows' \in [Executions -> {"absent"} \cup Pending \cup Terminal]
    BY <1>0, <1>3 DEF TypeOK, Pending
  <2>2. target' \in [Visitors -> Executions \cup {None}]
    BY <1>0, <1>3, FreshType DEF TypeOK
  <2>3. beside' \in [Visitors -> SUBSET Executions] /\ banned' \subseteq Visitors
    BY <1>0, <1>3 DEF TypeOK, Forget
  <2> QED BY <1>1, <1>3, <2>1, <2>2, <2>3
          DEF CreateRow, Goto, TypeInv, TypeOK, Answers, caches
<1>4. CASE EnqueueJob(v) /\ Leave(v) /\ UNCHANGED job
  BY <1>0, <1>1, <1>4, LeaveType DEF EnqueueJob, TypeInv, TypeOK, Answers, AskedTypes, caches
<1>5. CASE EnqueueJob(v) /\ Wait(v, target[v]) /\ job' = [job EXCEPT ![target[v]] = "pending"]
  <2>1. beside' \in [Visitors -> SUBSET Executions] /\ banned' \subseteq Visitors
        /\ found' \in [Visitors -> [Executions -> Pending \cup {None}]]
        /\ target' \in [Visitors -> Executions \cup {None}]
        /\ pc' = [pc EXCEPT ![v] = "waiting"] /\ routed' = routed
    BY <1>0, <1>5, NothingType DEF TypeOK, Wait, Forget, Goto
  <2>2. job' \in [Executions -> {"none", "pending", "running", "passed", "over"}]
    BY <1>0, <1>5 DEF TypeOK
  <2> QED BY <1>1, <1>5, <2>1, <2>2 DEF EnqueueJob, TypeInv, TypeOK, Answers, caches
<1> QED BY <1>2, <1>3, <1>4, <1>5 DEF CreateRow, EnqueueJob

LEMMA PollType == ASSUME TypeInv, NEW v \in Visitors, Poll(v) PROVE TypeInv'
<1>0. TypeOK
  BY DEF TypeInv
<1>1. AskedTypes' /\ (pc' = [pc EXCEPT ![v] = "routes"] \/ pc' = [pc EXCEPT ![v] = "away"])
  BY <1>0, AskType, LeaveType DEF Poll
<1> QED BY <1>1 DEF Poll, TypeInv, TypeOK, Answers, AskedTypes, execd, caches

\* execd changes its tables and the histories that watch them.
LEMMA WorkType ==
  ASSUME TypeInv, NEW e \in Executions, Launching(e) \/ Exits(e) \/ Stop(e)
  PROVE  TypeInv' /\ Work
<1>1. Work
  BY DEF Launching, Start, Healthy, Bind, StartFails, LaunchFails, BindFails, Exits, Stop
<1>2. /\ rows' \in [Executions -> {"absent"} \cup Pending \cup Terminal]
      /\ job' \in [Executions -> {"none", "pending", "running", "passed", "over"}]
  <2>1. \/ rows' = rows
        \/ \E status \in Pending \cup Terminal : rows' = [rows EXCEPT ![e] = status]
    BY DEF Launching, Start, Healthy, Bind, StartFails, LaunchFails, BindFails, Exits, Stop,
           Row, Pending, Terminal
  <2>2. \/ job' = job
        \/ \E state \in {"pending", "running", "passed", "over"} : job' = [job EXCEPT ![e] = state]
    BY DEF Launching, Start, Healthy, Bind, StartFails, LaunchFails, BindFails, Exits, Stop,
           FailJob, JobOver, Job
  <2>3. /\ rows \in [Executions -> {"absent"} \cup Pending \cup Terminal]
        /\ job \in [Executions -> {"none", "pending", "running", "passed", "over"}]
    BY DEF TypeInv, TypeOK
  <2>4. rows' \in [Executions -> {"absent"} \cup Pending \cup Terminal]
    BY <2>1, <2>3
  <2>5. job' \in [Executions -> {"none", "pending", "running", "passed", "over"}]
    BY <2>2, <2>3
  <2> QED BY <2>4, <2>5
<1>3. /\ stable' \in Executions \cup {None} /\ previews' \subseteq Executions
      /\ activated' \in Executions \cup {None} /\ suspended' \in {Ban, None}
  BY DEF Launching, Start, Healthy, Bind, StartFails, LaunchFails, BindFails, Exits, Stop,
         Bound, Without, TypeInv, TypeOK
<1>4. /\ lost' \in [Executions -> 0..Cap] /\ banFor' \in 0..Cap
      /\ beside' \in [Visitors -> SUBSET Executions] /\ banned' \subseteq Visitors
  <2>1. 0 \in 0..Cap
    BY WebAssumption DEF Cap
  <2> QED BY <1>1, <2>1 DEF Work, Remember, TypeInv, TypeOK
<1>5. faults' \in Nat
  <2>1. Sound \/ Faulty(0) \/ Faulty(1)
    BY DEF Launching, Start, Healthy, Bind, StartFails, LaunchFails, BindFails, Exits, Stop,
           FailJob, Dropping
  <2> QED BY <2>1 DEF Sound, Faulty, TypeInv, TypeOK
<1>6. attempts' \in [Executions -> 0..MaxAttempts - 1]
  <2>1. \/ attempts' = attempts
        \/ attempts' = [attempts EXCEPT ![e] = 0]
        \/ attempts[e] + 1 < MaxAttempts /\ attempts' = [attempts EXCEPT ![e] = @ + 1]
    BY DEF Launching, Start, Healthy, Bind, StartFails, LaunchFails, BindFails, Exits, Stop,
           FailJob, JobOver
  <2> QED BY <2>1, WebAssumption DEF TypeInv, TypeOK
<1> QED BY <1>1, <1>2, <1>3, <1>4, <1>5, <1>6 DEF Work, TypeInv, TypeOK, Answers, caches, request

LEMMA LaterType == ASSUME NEW bound \in Nat, NEW t \in 0..bound
                   PROVE  Later(t, bound) \in 0..bound
BY DEF Later

LEMMA OlderType ==
  ASSUME TypeOK
  PROVE  /\ Older(routes) \in [value : Executions \cup {None}, age : 0..CacheAge]
         /\ Older(bans) \in [value : {Ban, None}, age : 0..CacheAge]
BY LaterType, WebAssumption DEF Older, TypeOK

LEMMA TickType == ASSUME TypeInv, Tick PROVE TypeInv'
<1>1. slow' \in [Visitors -> 0..MaxQuery]
  BY WebAssumption DEF Tick, TypeInv, TypeOK
<1>2. Cap \in Nat /\ 0 \in 0..Cap /\ Cap \in 0..Cap
  BY WebAssumption DEF Cap
<1>3. lost' \in [Executions -> 0..Cap] /\ banFor' \in 0..Cap
  BY <1>2, LaterType DEF Tick, TypeInv, TypeOK
<1> QED BY <1>1, <1>3, OlderType DEF Tick, TypeInv, TypeOK, Answers, execd

LEMMA TypeStep == ASSUME TypeInv, [Next]_vars PROVE TypeInv'
<1>1. CASE \E v \in Visitors : Come(v) \/ Visit(v)
  BY <1>1, ComeType, RoutesType, BansType, ListType, PathsType, LaunchType, PollType DEF Visit
<1>2. CASE \E e \in Executions : Launching(e) \/ Exits(e) \/ Stop(e)
  BY <1>2, WorkType
<1>3. CASE UNCHANGED vars
  BY <1>3 DEF vars, execd, caches, request, history, TypeInv, TypeOK, Answers
<1> QED BY <1>1, <1>2, <1>3, TickType DEF Next

LEMMA TypesAlways == Spec => []TypeInv
BY InitType, TypeStep, PTL DEF Spec

-----------------------------------------------------------------------------
(* The age of routes: whatever webd knows of the stable route, the routes   *)
(* it has cached and those that a query has read, was true as many ticks   *)
(* ago as the cache is old or the query is slow.                           *)

RoutesInv ==
    /\ stable # None => lost[stable] = 0
    /\ Young(routes) /\ routes.value # None => lost[routes.value] <= routes.age + MaxQuery
    /\ \A v \in Visitors :
         pc[v] = "routes_read" /\ result[v] # None => lost[result[v]] <= slow[v]

LEMMA InitRoutes == Init => RoutesInv
BY DEF Init, RoutesInv

\* Steps of requests other than those on the cache of routes.
LEMMA RoutesUntouched ==
  ASSUME TypeInv, RoutesInv, UNCHANGED <<stable, routes, lost>>,
         \A v \in Visitors : pc'[v] = "routes_read" =>
            pc[v] = "routes_read" /\ result'[v] = result[v] /\ slow'[v] = slow[v]
  PROVE  RoutesInv'
BY DEF RoutesInv, Young

LEMMA RoutesVisit ==
  ASSUME TypeInv, RoutesInv, NEW v \in Visitors, Come(v) \/ Visit(v)
  PROVE  RoutesInv'
<1>0. TypeOK
  BY DEF TypeInv
<1>1. CASE GetRoutes(v) /\ Query(v, stable, "routes_read")
  <2>1. /\ pc' = [pc EXCEPT ![v] = "routes_read"] /\ result' = [result EXCEPT ![v] = stable]
        /\ slow' = [slow EXCEPT ![v] = 0] /\ UNCHANGED <<stable, routes, lost>>
    BY <1>1 DEF GetRoutes, Query, Goto, execd, caches
  <2> QED BY <1>0, <2>1 DEF RoutesInv, Young, TypeOK
<1>2. CASE StoreRoutes(v)
  <2>1. /\ pc' = [pc EXCEPT ![v] = "bans"] /\ routes' = [value |-> result[v], age |-> 0]
        /\ result' = [result EXCEPT ![v] = None] /\ slow' = [slow EXCEPT ![v] = 0]
        /\ UNCHANGED <<stable, lost>> /\ pc[v] = "routes_read"
    BY <1>2 DEF StoreRoutes, Goto, Settle, Stored, execd, history
  <2>2. result[v] # None => lost[result[v]] <= MaxQuery
    <3>1. result[v] # None => /\ lost[result[v]] <= slow[v] /\ slow[v] \in 0..MaxQuery
                              /\ lost[result[v]] \in 0..Cap
      BY <2>1 DEF RoutesInv, TypeInv, TypeOK, Answers
    <3> QED BY <3>1, WebAssumption DEF Cap
  <2>3. \A w \in Visitors : w # v => pc'[w] = pc[w] /\ result'[w] = result[w] /\ slow'[w] = slow[w]
    BY <1>0, <2>1 DEF TypeOK
  <2>4. pc'[v] = "bans"
    BY <1>0, <2>1 DEF TypeOK
  <2> QED BY <2>1, <2>2, <2>3, <2>4, WebAssumption DEF RoutesInv, Young
<1>3. ASSUME UNCHANGED <<stable, routes, lost, result, slow>>,
             \E step \in {"away", "routes", "bans", "list", "paths", "create", "enqueue", "waiting"} :
                pc' = [pc EXCEPT ![v] = step]
      PROVE  RoutesInv'
  BY <1>0, <1>3, RoutesUntouched DEF TypeOK
<1>4. ASSUME UNCHANGED <<stable, routes, lost>>, pc' = [pc EXCEPT ![v] = "bans_read"],
             \A w \in Visitors : w # v => result'[w] = result[w] /\ slow'[w] = slow[w]
      PROVE  RoutesInv'
  BY <1>0, <1>4, RoutesUntouched DEF TypeOK
<1>5. ASSUME UNCHANGED <<stable, routes, lost>>,
             pc' = [pc EXCEPT ![v] = "away"] \/ pc' = [pc EXCEPT ![v] = "list"],
             \A w \in Visitors : w # v => result'[w] = result[w] /\ slow'[w] = slow[w]
      PROVE  RoutesInv'
  BY <1>0, <1>5, RoutesUntouched DEF TypeOK
<1>6. CASE Come(v)
  BY <1>3, <1>6 DEF Come, Ask, Goto, execd, caches
<1>7. CASE GetRoutes(v) /\ ~Query(v, stable, "routes_read")
  BY <1>3, <1>7 DEF GetRoutes, Leave, Goto, execd, caches
<1>8. ASSUME NEW ban, Route(v, ban)
      PROVE  pc' = [pc EXCEPT ![v] = "away"] \/ pc' = [pc EXCEPT ![v] = "list"]
  BY <1>8 DEF Route, Leave, Goto
<1>9. CASE GetBans(v) /\ ~Query(v, suspended, "bans_read")
  BY <1>3, <1>8, <1>9 DEF GetBans, execd, caches
<1>10. CASE GetBans(v) /\ Query(v, suspended, "bans_read")
  <2>1. \A w \in Visitors : w # v => result'[w] = result[w] /\ slow'[w] = slow[w]
    BY <1>0, <1>10 DEF Query, TypeOK
  <2> QED BY <1>4, <1>10, <2>1 DEF GetBans, Query, Goto, execd, caches
<1>11. CASE StoreBans(v)
  <2>1. \A w \in Visitors : w # v => result'[w] = result[w] /\ slow'[w] = slow[w]
    BY <1>0, <1>11 DEF StoreBans, Settle, TypeOK
  <2> QED BY <1>5, <1>8, <1>11, <2>1 DEF StoreBans, execd
<1>12. CASE ListExecutions(v)
  BY <1>3, <1>12 DEF ListExecutions, Goto, execd, caches
<1>13. CASE ListPaths(v)
  BY <1>3, <1>13 DEF ListPaths, Ask, Wait, Goto, execd, caches
<1>14. CASE CreateRow(v) \/ EnqueueJob(v)
  BY <1>3, <1>14 DEF CreateRow, EnqueueJob, Leave, Wait, Goto, caches
<1>15. CASE Poll(v)
  BY <1>3, <1>15 DEF Poll, Ask, Leave, Goto, execd, caches
<1> QED BY <1>1, <1>2, <1>6, <1>7, <1>9, <1>10, <1>11, <1>12, <1>13, <1>14, <1>15 DEF Visit

LEMMA RoutesWork ==
  ASSUME TypeInv, TypeInv', RoutesInv, Work
  PROVE  RoutesInv'
<1>1. \A e \in Executions : lost'[e] <= lost[e] /\ (e = stable' => lost'[e] = 0)
  <2>1. \A e \in Executions : lost[e] \in Int /\ lost[e] >= 0
    BY WebAssumption DEF TypeInv, TypeOK, Cap
  <2> QED BY <2>1 DEF Work, Remember
<1>2. UNCHANGED <<routes, pc, result, slow>>
  BY DEF Work, caches, request
<1>3. routes.value \in Executions \cup {None} /\ stable' \in Executions \cup {None}
      /\ \A v \in Visitors : pc[v] = "routes_read" => result[v] \in Executions \cup {None}
  BY DEF TypeInv, TypeOK, Answers
<1>4. \A e \in Executions : lost[e] \in Nat /\ lost'[e] \in Nat
  BY WebAssumption DEF TypeInv, TypeOK, Cap
<1>5. \A v \in Visitors : slow[v] \in Nat
  BY WebAssumption DEF TypeInv, TypeOK
<1>6. routes.age \in Nat /\ MaxQuery \in Nat
  BY WebAssumption DEF TypeInv, TypeOK
<1> QED BY <1>1, <1>2, <1>3, <1>4, <1>5, <1>6 DEF RoutesInv, Young

LEMMA RoutesTick ==
  ASSUME TypeInv, RoutesInv, Tick
  PROVE  RoutesInv'
<1>1. \A e \in Executions :
        /\ lost[e] \in Nat /\ Cap \in Nat
        /\ e = stable => lost'[e] = 0
        /\ e # stable /\ e \in Known => lost'[e] = Later(lost[e], Cap)
        /\ e \in Known => lost'[e] \in Nat /\ lost'[e] <= lost[e] + 1
  BY WebAssumption DEF Tick, TypeInv, TypeOK, Cap, Later
<1>2. stable' # None => lost'[stable'] = 0
  BY <1>1 DEF Tick, execd, TypeInv, TypeOK
<1>3. ASSUME Young(routes'), routes'.value # None
      PROVE  lost'[routes'.value] <= routes'.age + MaxQuery
  <2>1. routes' = Older(routes)
    BY DEF Tick
  <2>2. /\ routes.age + 1 < CacheAge /\ routes'.value = routes.value /\ routes'.age = routes.age + 1
        /\ routes.age \in Nat
    BY <1>3, <2>1, WebAssumption DEF Older, Later, TypeInv, TypeOK
  <2>3. Young(routes) /\ routes.value \in Executions
    BY <1>3, <2>2, WebAssumption DEF Young, TypeInv, TypeOK
  <2>4. lost[routes.value] <= routes.age + MaxQuery
    BY <1>3, <2>2, <2>3 DEF RoutesInv
  <2>5. lost'[routes.value] <= lost[routes.value] + 1 /\ lost'[routes.value] \in Nat
    BY <1>1, <2>3 DEF Known
  <2> QED BY <1>1, <2>2, <2>3, <2>4, <2>5, WebAssumption
<1>4. ASSUME NEW v \in Visitors, pc'[v] = "routes_read", result'[v] # None
      PROVE  lost'[result'[v]] <= slow'[v]
  <2>1. pc[v] = "routes_read" /\ result'[v] = result[v]
    BY <1>4 DEF Tick
  <2>2. v \in Reading /\ slow'[v] = slow[v] + 1 /\ slow[v] \in Nat
    BY <2>1, WebAssumption DEF Tick, Reading, TypeInv, TypeOK
  <2>3. result[v] \in Executions /\ result[v] \in Known
    BY <1>4, <2>1, <2>2 DEF Known, TypeInv, Answers
  <2>4. lost[result[v]] <= slow[v]
    BY <1>4, <2>1 DEF RoutesInv
  <2>5. lost'[result[v]] <= lost[result[v]] + 1 /\ lost'[result[v]] \in Nat /\ lost[result[v]] \in Nat
    BY <1>1, <2>3
  <2> QED BY <2>1, <2>2, <2>4, <2>5
<1> QED BY <1>2, <1>3, <1>4 DEF RoutesInv, Young

(* A route that webd serves from its cache was a stable route no longer ago *)
(* than the cache is served and a query may take                           *)
(* (runtimeRouteSource.routes).                                            *)
THEOREM CachedRoutesAgeOut == Spec => []RoutesAgeOut
<1>1. TypeInv /\ RoutesInv /\ [Next]_vars => RoutesInv'
  <2> SUFFICES ASSUME TypeInv, RoutesInv, [Next]_vars PROVE RoutesInv'
    OBVIOUS
  <2>1. CASE \E v \in Visitors : Come(v) \/ Visit(v)
    BY <2>1, RoutesVisit
  <2>2. CASE \E e \in Executions : Launching(e) \/ Exits(e) \/ Stop(e)
    BY <2>2, WorkType, RoutesWork
  <2>3. CASE Tick
    BY <2>3, RoutesTick
  <2>4. CASE UNCHANGED vars
    BY <2>4, RoutesUntouched DEF vars, execd, caches, request, history
  <2> QED BY <2>1, <2>2, <2>3, <2>4 DEF Next
<1>2. TypeInv /\ RoutesInv => RoutesAgeOut
  <2> SUFFICES ASSUME TypeInv, RoutesInv, Young(routes), routes.value # None
               PROVE  lost[routes.value] <= CacheAge - 1 + MaxQuery
    BY DEF RoutesAgeOut
  <2>1. routes.age \in Nat /\ routes.age < CacheAge /\ lost[routes.value] \in Nat
    BY WebAssumption DEF Young, TypeInv, TypeOK, Cap
  <2>2. lost[routes.value] <= routes.age + MaxQuery
    BY DEF RoutesInv
  <2> QED BY <2>1, <2>2, WebAssumption
<1> QED BY <1>1, <1>2, InitRoutes, TypesAlways, PTL DEF Spec

-----------------------------------------------------------------------------
(* Suspensions: whoever does not see one, in the cache or in the result of *)
(* a query, asked when it was younger than the cache can hide.             *)

Searching == {"list", "paths", "create", "enqueue"}

BansInv ==
    /\ suspended = None => banned = {} /\ banFor = 0
    /\ \A v \in banned : banFor = Cap
    /\ Young(bans) /\ bans.value = None => banFor <= bans.age + MaxQuery
    /\ \A v \in Visitors :
         pc[v] = "bans_read" /\ result[v] = None => banFor <= slow[v]
    /\ failures = 0 => \A v \in banned : pc[v] \notin Searching

LEMMA InitBans == Init => BansInv
BY WebAssumption DEF Init, BansInv, Searching, Young

LEMMA CapFacts ==
  ASSUME TypeOK
  PROVE  /\ Cap \in Nat /\ banFor \in Nat /\ MaxQuery < Cap /\ Cap = CacheAge + MaxQuery
         /\ failures \in Nat /\ MaxQuery \in Nat /\ CacheAge \in Nat
         /\ \A v \in Visitors : slow[v] \in Nat /\ slow[v] <= MaxQuery
BY WebAssumption DEF TypeOK, Cap

\* Steps that neither ask for suspensions nor begin a search.
LEMMA BansUntouched ==
  ASSUME TypeInv, BansInv, UNCHANGED <<suspended, bans, banFor>>,
         failures' = failures \/ failures' = failures + 1,
         banned' \subseteq banned,
         \A v \in Visitors : /\ pc'[v] = "bans_read" =>
                                  pc[v] = "bans_read" /\ result'[v] = result[v] /\ slow'[v] = slow[v]
                             /\ failures' = 0 /\ v \in banned' /\ pc'[v] \in Searching => pc[v] \in Searching
  PROVE  BansInv'
<1>1. failures' = 0 => failures = 0
  BY CapFacts DEF TypeInv
<1>2. banned \subseteq Visitors
  BY DEF TypeInv, TypeOK
<1>3. Cap' = Cap
  BY DEF Cap
<1> QED BY <1>1, <1>2, <1>3 DEF BansInv, Young

\* A request that comes in is one of those that came long after.
LEMMA BansAsked ==
  ASSUME TypeInv, BansInv, NEW v \in Visitors, Ask(v),
         UNCHANGED <<suspended, bans, banFor, result, slow, failures>>
  PROVE  BansInv'
<1>1. pc' = [pc EXCEPT ![v] = "routes"]
      /\ banned' = IF banFor = Cap THEN banned \cup {v} ELSE banned \ {v}
  BY DEF Ask, Goto
<1>2. pc'[v] = "routes" /\ \A w \in Visitors : w # v => pc'[w] = pc[w]
  BY <1>1 DEF TypeInv, TypeOK
<1>3. suspended = None => banFor # Cap
  BY CapFacts DEF BansInv, TypeInv
<1>4. banned \subseteq Visitors
  BY DEF TypeInv, TypeOK
<1>5. Cap' = Cap
  BY DEF Cap
<1> QED BY <1>1, <1>2, <1>3, <1>4, <1>5 DEF BansInv, Young, Searching

\* A request that knows of no suspension is not one of them.
LEMMA BansRouted ==
  ASSUME TypeInv, BansInv, NEW v \in Visitors, NEW ban, Route(v, ban),
         failures' = 0 /\ v \in banned => ban # None,
         UNCHANGED <<suspended, bans, banFor>>,
         failures' = failures \/ failures' = failures + 1,
         \A w \in Visitors : w # v => result'[w] = result[w] /\ slow'[w] = slow[w]
  PROVE  BansInv'
<1>1. CASE Leave(v)
  <2>1. pc' = [pc EXCEPT ![v] = "away"] /\ banned' = banned \ {v}
    BY <1>1 DEF Leave, Goto, Forget
  <2> QED BY <2>1, BansUntouched DEF TypeInv, TypeOK, Searching
<1>2. CASE ~Leave(v)
  <2>1. pc' = [pc EXCEPT ![v] = "list"] /\ banned' = banned /\ ban = None
    BY <1>2 DEF Route, Goto, asked
  <2>2. ~(failures' = 0 /\ v \in banned)
    BY <2>1
  <2> QED BY <2>1, <2>2, BansUntouched DEF TypeInv, TypeOK, Searching
<1> QED BY <1>1, <1>2

LEMMA BansVisit ==
  ASSUME TypeInv, BansInv, NEW v \in Visitors, Come(v) \/ Visit(v)
  PROVE  BansInv'
<1>0. TypeOK
  BY DEF TypeInv
<1>1. CASE Come(v)
  BY <1>1, BansAsked DEF Come, execd, caches
<1>2. CASE Poll(v)
  <2>1. CASE Ask(v)
    BY <1>2, <2>1, BansAsked DEF Poll, execd, caches
  <2>2. CASE Leave(v)
    BY <1>0, <1>2, <2>2, BansUntouched
       DEF Poll, Leave, Goto, Forget, execd, caches, TypeOK, Searching
  <2> QED BY <1>2, <2>1, <2>2 DEF Poll
<1>3. CASE GetBans(v) /\ Query(v, suspended, "bans_read") /\ NoFailure /\ UNCHANGED asked
  <2>1. /\ pc' = [pc EXCEPT ![v] = "bans_read"] /\ result' = [result EXCEPT ![v] = suspended]
        /\ slow' = [slow EXCEPT ![v] = 0]
        /\ UNCHANGED <<suspended, bans, banFor, banned, failures>>
    BY <1>3 DEF GetBans, Query, Goto, NoFailure, asked, execd, caches
  <2>2. \A w \in Visitors : w # v => pc'[w] = pc[w] /\ result'[w] = result[w] /\ slow'[w] = slow[w]
    BY <1>0, <2>1 DEF TypeOK
  <2>3. pc'[v] = "bans_read" /\ result'[v] = suspended /\ slow'[v] = 0
    BY <1>0, <2>1 DEF TypeOK
  <2>4. Cap' = Cap /\ banned \subseteq Visitors
    BY <1>0 DEF Cap, TypeOK
  <2> QED BY <2>1, <2>2, <2>3, <2>4 DEF BansInv, Young, Searching
<1>4. CASE GetBans(v) /\ Young(bans) /\ Route(v, bans.value) /\ NoFailure /\ UNCHANGED <<result, slow>>
  <2>1. v \in banned => bans.value # None
    <3> SUFFICES ASSUME v \in banned, bans.value = None PROVE FALSE
      OBVIOUS
    <3>1. banFor = Cap /\ banFor <= bans.age + MaxQuery /\ bans.age < CacheAge /\ bans.age \in Nat
      BY <1>0, <1>4, WebAssumption DEF BansInv, Young, TypeOK
    <3> QED BY <1>0, <3>1, CapFacts
  <2> QED BY <1>4, <2>1, BansRouted DEF GetBans, NoFailure, execd, caches
<1>5. CASE GetBans(v) /\ Fail /\ Route(v, None) /\ UNCHANGED <<result, slow>>
  <2>1. failures' # 0 /\ failures' = failures + 1
    BY <1>0, <1>5, CapFacts DEF Fail
  <2> QED BY <1>5, <2>1, BansRouted DEF GetBans, execd, caches
<1>6. CASE StoreBans(v)
  <2>1. /\ pc[v] = "bans_read" /\ Route(v, result[v]) /\ bans' = [value |-> result[v], age |-> 0]
        /\ result' = [result EXCEPT ![v] = None] /\ slow' = [slow EXCEPT ![v] = 0]
        /\ UNCHANGED <<suspended, banFor, failures>>
    BY <1>6 DEF StoreBans, Settle, Stored, execd
  <2>2. result[v] = None => banFor <= MaxQuery
    BY <1>0, <2>1, CapFacts DEF BansInv
  <2>3. v \in banned => result[v] # None
    BY <1>0, <2>2, CapFacts DEF BansInv
  <2>4. \A w \in Visitors : w # v => result'[w] = result[w] /\ slow'[w] = slow[w]
    BY <1>0, <2>1 DEF TypeOK
  <2>5. /\ pc'[v] # "bans_read" /\ banned' \subseteq banned
        /\ pc'[v] \in Searching => result[v] = None
        /\ \A w \in Visitors : w # v => pc'[w] = pc[w]
    BY <1>0, <2>1 DEF Route, Leave, Goto, Forget, asked, TypeOK, Searching
  <2>6. Cap' = Cap /\ banned \subseteq Visitors
    BY <1>0 DEF Cap, TypeOK
  <2>7. Young(bans') /\ bans'.value = None => banFor' <= bans'.age + MaxQuery
    BY <1>0, <2>1, <2>2, CapFacts
  <2> QED BY <2>1, <2>3, <2>4, <2>5, <2>6, <2>7 DEF BansInv, Young
\* The rest of a visit.
<1>7. ASSUME UNCHANGED <<suspended, bans, banFor>>, banned' \subseteq banned,
             failures' = failures \/ failures' = failures + 1,
             \A w \in Visitors : w # v => result'[w] = result[w] /\ slow'[w] = slow[w],
             \/ \E step \in {"away", "routes_read", "bans", "waiting"} : pc' = [pc EXCEPT ![v] = step]
             \/ pc[v] \in Searching /\ \E step \in Searching : pc' = [pc EXCEPT ![v] = step]
      PROVE  BansInv'
  BY <1>0, <1>7, BansUntouched DEF TypeOK, Searching
<1>8. CASE GetRoutes(v)
  <2>1. \A w \in Visitors : w # v => result'[w] = result[w] /\ slow'[w] = slow[w]
    BY <1>0, <1>8 DEF GetRoutes, Query, TypeOK
  <2>2. /\ UNCHANGED <<suspended, bans, banFor>> /\ banned' \subseteq banned
        /\ failures' = failures \/ failures' = failures + 1
        /\ \E step \in {"away", "routes_read", "bans", "waiting"} : pc' = [pc EXCEPT ![v] = step]
    BY <1>8 DEF GetRoutes, Query, Fail, NoFailure, Leave, Forget, Goto, execd, caches
  <2> QED BY <1>7, <2>1, <2>2
<1>9. CASE StoreRoutes(v)
  <2>1. \A w \in Visitors : w # v => result'[w] = result[w] /\ slow'[w] = slow[w]
    BY <1>0, <1>9 DEF StoreRoutes, Settle, TypeOK
  <2> QED BY <1>7, <1>9, <2>1 DEF StoreRoutes, Goto, execd, history
<1>10. CASE ListExecutions(v)
  BY <1>7, <1>10 DEF ListExecutions, Fail, NoFailure, Goto, execd, caches, Searching
<1>11. CASE ListPaths(v)
  <2>1. \/ Ask(v) /\ failures' = failures
        \/ /\ banned' \subseteq banned
           /\ failures' = failures \/ failures' = failures + 1
           /\ pc' = [pc EXCEPT ![v] = "create"] \/ pc' = [pc EXCEPT ![v] = "waiting"]
    BY <1>11 DEF ListPaths, Fail, NoFailure, Wait, Forget, Goto
  <2>2. CASE Ask(v) /\ failures' = failures
    BY <1>11, <2>2, BansAsked DEF ListPaths, execd, caches
  <2> QED BY <1>7, <1>11, <2>1, <2>2 DEF ListPaths, execd, caches, Searching
<1>12. CASE CreateRow(v) \/ EnqueueJob(v)
  BY <1>7, <1>12
     DEF CreateRow, EnqueueJob, Fail, NoFailure, Leave, Wait, Forget, Goto, caches, Searching
<1> QED BY <1>1, <1>2, <1>3, <1>4, <1>5, <1>6, <1>8, <1>9, <1>10, <1>11, <1>12 DEF Visit, GetBans

LEMMA BansWork ==
  ASSUME TypeInv, TypeInv', BansInv, Work
  PROVE  BansInv'
<1>1. /\ suspended' = None => banned' = {} /\ banFor' = 0
      /\ suspended' # None => banned' = banned /\ banFor' = banFor
      /\ UNCHANGED <<bans, pc, result, slow, failures>>
  BY DEF Work, Remember, caches, request
<1>2. Cap' = Cap
  BY DEF Cap
<1>3. \A v \in Visitors : slow[v] >= 0
  BY CapFacts DEF TypeInv
<1>4. bans.age + MaxQuery >= 0
  BY WebAssumption DEF TypeInv, TypeOK
<1> QED BY <1>1, <1>2, <1>3, <1>4 DEF BansInv, Young

LEMMA BansTick ==
  ASSUME TypeInv, BansInv, Tick
  PROVE  BansInv'
<1>0. TypeOK /\ Cap' = Cap
  BY DEF TypeInv, Cap
<1>1. UNCHANGED <<suspended, banned, pc, result, failures>>
  BY DEF Tick, execd
<1>2. /\ suspended = None => banFor' = 0
      /\ suspended # None => banFor' = Later(banFor, Cap)
      /\ banFor' \in Nat /\ banFor' <= banFor + 1
      /\ banFor = Cap /\ suspended # None => banFor' = Cap
  BY <1>0, CapFacts DEF Tick, Later
<1>3. ASSUME Young(bans'), bans'.value = None
      PROVE  banFor' <= bans'.age + MaxQuery
  <2>1. bans' = Older(bans)
    BY DEF Tick
  <2>2. /\ bans.age + 1 < CacheAge /\ bans'.value = bans.value /\ bans'.age = bans.age + 1
        /\ bans.age \in Nat
    BY <1>3, <2>1, WebAssumption DEF Young, Older, Later, TypeInv, TypeOK
  <2>3. banFor <= bans.age + MaxQuery
    BY <1>3, <2>2, WebAssumption DEF Young, BansInv
  <2> QED BY <1>0, <1>2, <2>2, <2>3, CapFacts
<1>4. ASSUME NEW v \in Visitors, pc'[v] = "bans_read", result'[v] = None
      PROVE  banFor' <= slow'[v]
  <2>1. slow'[v] = slow[v] + 1
    BY <1>1, <1>4 DEF Tick, Reading
  <2>2. banFor <= slow[v]
    BY <1>1, <1>4 DEF BansInv
  <2> QED BY <1>0, <1>2, <2>1, <2>2, CapFacts
<1>5. suspended' = None => banned' = {} /\ banFor' = 0
  BY <1>1, <1>2 DEF BansInv
<1>6. \A v \in banned' : banFor' = Cap
  BY <1>1, <1>2 DEF BansInv
<1> QED BY <1>0, <1>1, <1>3, <1>4, <1>5, <1>6 DEF BansInv, Young

(* A realization that has been suspended for longer than webd's cache can  *)
(* hide is not launched by a visit (realizationRoutingMiddleware).         *)
THEOREM SuspensionsHold == Spec => []SuspendedIsNotLaunched
<1>1. TypeInv /\ BansInv /\ [Next]_vars => BansInv'
  <2> SUFFICES ASSUME TypeInv, BansInv, [Next]_vars PROVE BansInv'
    OBVIOUS
  <2>1. CASE \E v \in Visitors : Come(v) \/ Visit(v)
    BY <2>1, BansVisit
  <2>2. CASE \E e \in Executions : Launching(e) \/ Exits(e) \/ Stop(e)
    BY <2>2, WorkType, BansWork
  <2>3. CASE Tick
    BY <2>3, BansTick
  <2>4. CASE UNCHANGED vars
    BY <2>4, BansUntouched DEF vars, execd, caches, request, history
  <2> QED BY <2>1, <2>2, <2>3, <2>4 DEF Next
<1>2. TypeInv /\ BansInv => SuspendedIsNotLaunched
  BY DEF BansInv, SuspendedIsNotLaunched, Searching
<1> QED BY <1>1, <1>2, InitBans, TypesAlways, PTL DEF Spec

-----------------------------------------------------------------------------
(* Launches in progress: a request remembers all of those that it listed,   *)
(* and goes on to launch only if there were none.                          *)

FoundInv ==
    \A v \in Visitors :
      /\ pc[v] = "paths" => \A e \in beside[v] : found[v][e] # None
      /\ failures = 0 /\ pc[v] = "create" => beside[v] = {}

LEMMA InitFound == Init => FoundInv
BY DEF Init, FoundInv

\* Steps that neither list executions nor decide to launch.
LEMMA FoundUntouched ==
  ASSUME TypeInv, FoundInv, NEW v \in Visitors,
         \E step \in {"away", "routes", "routes_read", "bans", "bans_read", "list",
                      "enqueue", "waiting"} : pc' = [pc EXCEPT ![v] = step],
         failures' = failures \/ failures' = failures + 1,
         \A w \in Visitors : w # v => beside'[w] = beside[w] /\ found'[w] = found[w]
  PROVE  FoundInv'
<1>1. failures' = 0 => failures = 0
  BY DEF TypeInv, TypeOK
<1>2. pc'[v] \notin {"paths", "create"} /\ \A w \in Visitors : w # v => pc'[w] = pc[w]
  BY DEF TypeInv, TypeOK
<1> QED BY <1>1, <1>2 DEF FoundInv

LEMMA OthersUntouched ==
  ASSUME TypeOK, NEW v \in Visitors, Ask(v) \/ Leave(v) \/ \E e : Wait(v, e)
  PROVE  \A w \in Visitors : w # v => beside'[w] = beside[w] /\ found'[w] = found[w]
BY DEF TypeOK, Ask, Leave, Wait, Forget

LEMMA FoundVisit ==
  ASSUME TypeInv, FoundInv, NEW v \in Visitors, Come(v) \/ Visit(v)
  PROVE  FoundInv'
<1>0. TypeOK
  BY DEF TypeInv
<1> DEFINE Apart == \A w \in Visitors : w # v => beside'[w] = beside[w] /\ found'[w] = found[w]
<1>1. CASE ListExecutions(v)
  <2>1. CASE Fail /\ Goto(v, "create") /\ UNCHANGED <<found, beside>>
    <3>1. failures' # 0
      BY <1>0, <2>1, WebAssumption DEF Fail, TypeOK
    <3> QED BY <1>0, <2>1, <3>1 DEF FoundInv, Goto, TypeOK
  <2> DEFINE items == [e \in Executions |-> IF e \in Listed THEN rows[e] ELSE None]
  <2>2. CASE /\ found' = [found EXCEPT ![v] = items]
             /\ beside' = [beside EXCEPT ![v] = InProgress \cap Newest]
             /\ Goto(v, IF Existing = {} THEN "create" ELSE "paths") /\ NoFailure
    <3>1. \A e \in InProgress \cap Newest : items[e] # None
      BY WebAssumption DEF Listed, InProgress, Pending
    <3>2. Existing = {} => InProgress \cap Newest = {}
      BY DEF Newest
    <3> HIDE DEF items
    <3> QED BY <1>0, <2>2, <3>1, <3>2 DEF FoundInv, Goto, NoFailure, TypeOK
  <2> QED BY <1>1, <2>1, <2>2 DEF ListExecutions
<1>2. CASE ListPaths(v)
  <2>1. PICK open \in {previews \cup ({stable} \cap Executions), {}} :
          /\ open = {} => IF previews = {} /\ stable = None THEN NoFailure ELSE Fail
          /\ open # {} => NoFailure
          /\ LET e == SelectLaunchTarget(found[v], open)
             IN  IF e = None THEN /\ Goto(v, "create") /\ found' = [found EXCEPT ![v] = Nothing]
                                  /\ UNCHANGED <<routed, target, beside, banned>>
                 ELSE IF e \in open /\ e = stable THEN Ask(v)
                 ELSE Wait(v, e)
    BY <1>2 DEF ListPaths
  <2>2. failures' = failures \/ failures' = failures + 1
    BY <2>1 DEF Fail, NoFailure
  <2> DEFINE e == SelectLaunchTarget(found[v], open)
  <2>3. CASE e # None
    <3>1. Ask(v) \/ \E d : Wait(v, d)
      BY <2>1, <2>3
    <3>2. Apart
      BY <1>0, <3>1, OthersUntouched
    <3> QED BY <2>2, <3>1, <3>2, FoundUntouched DEF Ask, Wait, Goto
  <2>4. CASE e = None
    <3>1. \A d \in Executions : found[v][d] = None
      <4>1. {d \in Executions : found[v][d] # None} # {} => e \in Executions
        BY TargetType
      <4>2. None \notin Executions
        BY WebAssumption DEF Executions
      <4> QED BY <2>4, <4>1, <4>2
    <3>2. beside[v] = {}
      BY <1>0, <1>2, <3>1 DEF ListPaths, FoundInv, TypeOK
    <3>3. /\ pc' = [pc EXCEPT ![v] = "create"] /\ found' = [found EXCEPT ![v] = Nothing]
          /\ beside' = beside
      BY <2>1, <2>4 DEF Goto
    <3>4. failures' = 0 => failures = 0
      BY <1>0, <2>2 DEF TypeOK
    <3>5. \A w \in Visitors : w # v => found'[w] = found[w] /\ pc'[w] = pc[w]
      BY <1>0, <3>3 DEF TypeOK
    <3>6. pc'[v] = "create"
      BY <1>0, <3>3 DEF TypeOK
    <3> QED BY <3>2, <3>3, <3>4, <3>5, <3>6 DEF FoundInv
  <2> QED BY <2>3, <2>4
\* The rest of a visit.
<1>3. ASSUME failures' = failures \/ failures' = failures + 1, Apart,
             \E step \in {"away", "routes", "routes_read", "bans", "bans_read", "list",
                          "enqueue", "waiting"} : pc' = [pc EXCEPT ![v] = step]
      PROVE  FoundInv'
  BY <1>3, FoundUntouched
<1>4. Leave(v) => Apart
  BY <1>0, OthersUntouched
<1>5. CASE Come(v) \/ Poll(v)
  <2>1. Apart
    BY <1>0, <1>5, OthersUntouched DEF Come, Poll
  <2> QED BY <1>3, <1>5, <2>1 DEF Come, Poll, Ask, Leave, Goto
<1>6. CASE GetRoutes(v) \/ StoreRoutes(v)
  <2>1. Apart
    BY <1>4, <1>6 DEF GetRoutes, StoreRoutes, history
  <2> HIDE DEF Apart
  <2> QED BY <1>3, <1>6, <2>1
          DEF GetRoutes, StoreRoutes, Query, Fail, NoFailure, Leave, Goto, history
<1>7. CASE GetBans(v) \/ StoreBans(v)
  <2>1. \A ban : Route(v, ban) => Apart
    BY <1>4 DEF Route, asked
  <2>2. Apart
    BY <1>7, <2>1 DEF GetBans, StoreBans, asked
  <2> HIDE DEF Apart
  <2> QED BY <1>3, <1>7, <2>2
          DEF GetBans, StoreBans, Query, Fail, NoFailure, Route, Leave, Goto
<1>8. CASE CreateRow(v) \/ EnqueueJob(v)
  <2>1. Apart
    BY <1>0, <1>8, OthersUntouched DEF CreateRow, EnqueueJob, Forget, TypeOK
  <2> HIDE DEF Apart
  <2> QED BY <1>3, <1>8, <2>1 DEF CreateRow, EnqueueJob, Fail, NoFailure, Leave, Wait, Goto
<1> QED BY <1>1, <1>2, <1>5, <1>6, <1>7, <1>8 DEF Visit

(* webd never launches beside an execution that was in progress when the   *)
(* request looked for one, and still is (preferredLaunchTarget).           *)
THEOREM NothingLaunchedBeside == Spec => []NoSecondLaunch
<1>1. TypeInv /\ FoundInv /\ [Next]_vars => FoundInv'
  <2> SUFFICES ASSUME TypeInv, FoundInv, [Next]_vars PROVE FoundInv'
    OBVIOUS
  <2>1. CASE \E v \in Visitors : Come(v) \/ Visit(v)
    BY <2>1, FoundVisit
  <2>2. CASE \E e \in Executions : Launching(e) \/ Exits(e) \/ Stop(e)
    <3>1. Work
      BY <2>2, WorkType
    <3>2. UNCHANGED <<pc, found, failures>> /\ \A v \in Visitors : beside'[v] \subseteq beside[v]
      BY <3>1 DEF Work, Remember, request
    <3> QED BY <3>2 DEF FoundInv
  <2>3. CASE Tick \/ UNCHANGED vars
    BY <2>3 DEF Tick, vars, request, history, FoundInv
  <2> QED BY <2>1, <2>2, <2>3 DEF Next
<1>2. FoundInv => NoSecondLaunch
  BY DEF FoundInv, NoSecondLaunch
<1> QED BY <1>1, <1>2, InitFound, TypesAlways, PTL DEF Spec

(* The tables, the caches and the requests stay well typed.                *)
THEOREM Typed == Spec => []TypeOK
<1>1. TypeInv => TypeOK
  BY DEF TypeInv
<1> QED BY <1>1, TypesAlways, PTL
=============================================================================
