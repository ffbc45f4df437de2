----------------------------- MODULE ClaimStore -----------------------------
(***************************************************************************)
(* Flowershow's durable store under concurrent requests.  A cache of the   *)
(* whole domain ("mem", a memoryStore) is replayed from the kernel's       *)
(* ledger by every mutation and by page views; whoever replays last        *)
(* replaces the cache.  A mutation does not keep the replay it made but    *)
(* works on the cache it then finds, which other requests may be changing: *)
(* it appends its claims to the shared list of that memoryStore and posts  *)
(* all claims from where the list ended when it took it.  The kernel names *)
(* rows by change set and order and keeps what it has.  A single rebuild   *)
(* at a time copies a replay into the projection tables.                   *)
(* ShowClaims says what the claims do; here a claim only has an object.    *)
(***************************************************************************)
EXTENDS Integers, Sequences, FiniteSets, FiniteSetsExt

CONSTANTS
    Requests,     \* mutating HTTP requests of this process, each made once
    Objects,      \* what claims are about
    Writes,       \* the objects of the claims of each request, in order
    Named,        \* requests that create a show and want the same slug
    Refs,         \* the memoryStores that are, or were, the cache
    MaxFailures,  \* bound on calls and transactions that fail
    MaxCrashes,   \* bound on crashes of the process
    None

ASSUME StoreAssumption ==
    /\ Writes \in [Requests -> Seq(Objects) \ {<<>>}]
    /\ Named \subseteq Requests
    /\ MaxFailures \in Nat /\ MaxCrashes \in Nat
    /\ IsFiniteSet(Requests) /\ IsFiniteSet(Refs)
    /\ Refs \subseteq Nat /\ Cardinality(Refs) > Cardinality(Requests)
    /\ None \notin Refs

VARIABLES
    ledger,     \* kernel: the claims of the ledger, in row order
    taken,      \* kernel: how many rows each change set has
    heap,       \* the list of claims of each memoryStore
    cache,      \* s.mem
    pc,         \* where each request is
    fresh,      \* how much of the ledger each request's replay has
    mem,        \* the memoryStore each request works on
    start,      \* the length its list had then
    objs,       \* objects counted by the first loop of appendClaimsToKernelRegistry
    wire,       \* change sets on their way to the kernel
    told,       \* what the client was told
    wrote,      \* requests that have appended their claims
    slug,       \* the number in the slug each request chose
    view,       \* how much of the ledger the replay of a page view has
    build,      \* the projection rebuild: what it does next
    built,      \* how much of the ledger its replay has
    queued,     \* s.projectionQueued
    projection, \* the claims that the projection tables show
    complete,   \* did the last rebuild succeed?
    torn,       \* history: the claims grew between the loops of a post
    failures, crashes

kernel   == <<ledger, taken, wire>>
process  == <<heap, cache>>
requests == <<pc, fresh, mem, start, objs, told, wrote, slug>>
rebuild  == <<build, built, queued, projection, complete>>
history  == <<torn, failures, crashes>>
vars == <<kernel, process, requests, view, rebuild, history>>

Claims == UNION {{r} \X (1..Len(Writes[r])) : r \in Requests}
Own(r) == [i \in 1..Len(Writes[r]) |-> <<r, i>>]
ObjectsOf(claims) == {Writes[claims[i][1]][claims[i][2]] : i \in DOMAIN claims}
Steps == {"idle", "store", "take", "mutate", "objects", "claims", "sent",
          "cache", "schedule", "done"}
Posts == [from : Requests, set : Claims, objects : Nat, claims : Seq(Claims)]

(* Type correctness.                                                       *)
TypeOK ==
    /\ ledger \in Seq(Claims) /\ taken \in [Claims -> Nat]
    /\ wire \subseteq Posts
    /\ heap \in [Refs -> Seq(Claims)] /\ cache \in Refs
    /\ pc \in [Requests -> Steps] /\ fresh \in [Requests -> Nat] /\ mem \in [Requests -> Refs \cup {None}]
    /\ start \in [Requests -> Nat] /\ objs \in [Requests -> Nat]
    /\ told \in [Requests -> {"nothing", "ok", "error"}]
    /\ wrote \subseteq Requests /\ slug \in [Requests -> Nat]
    /\ view \in Nat \cup {None}
    /\ build \in {"idle", "load", "tables", "cache", "next"}
    /\ built \in Nat /\ queued \in BOOLEAN
    /\ projection \subseteq Claims /\ complete \in BOOLEAN
    /\ torn \in BOOLEAN /\ failures \in Nat /\ crashes \in Nat

\* The process has just started on a ledger that it has nothing to add to.
Init ==
    /\ ledger = <<>> /\ taken = [c \in Claims |-> 0] /\ wire = {}
    /\ heap = [x \in Refs |-> <<>>] /\ cache = Min(Refs)
    /\ pc = [r \in Requests |-> "idle"] /\ mem = [r \in Requests |-> None]
    /\ fresh = [r \in Requests |-> 0] /\ wrote = {}
    /\ start = [r \in Requests |-> 0] /\ objs = [r \in Requests |-> 0]
    /\ told = [r \in Requests |-> "nothing"] /\ slug = [r \in Requests |-> 0]
    /\ view = None
    /\ build = "load" /\ built = 0 /\ queued = FALSE
    /\ projection = {} /\ complete = FALSE
    /\ torn = FALSE /\ failures = 0 /\ crashes = 0

-----------------------------------------------------------------------------
Goto(r, step) == pc' = [pc EXCEPT ![r] = step]
Fail == failures < MaxFailures /\ failures' = failures + 1
NoFailure == UNCHANGED failures

\* storeCache with a memoryStore that nobody else has.  What the heap holds
\* beyond the cache and the requests' memoryStores is garbage.
Held == {mem[r] : r \in Requests}
Live(h, holders) == [x \in Refs |-> IF x \in holders THEN h[x] ELSE <<>>]
\* Mutant: a replay never replaces a longer list of claims.
StoreLonger(length) ==
    LET x == Min(Refs \ Held)
    IN  IF length < Len(heap[cache]) THEN UNCHANGED process
        ELSE cache' = x /\ heap' = [Live(heap, Held) EXCEPT ![x] = SubSeq(ledger, 1, length)]
StoreReplay(length) ==
    LET x == Min(Refs \ Held)
    IN  cache' = x /\ heap' = [Live(heap, Held) EXCEPT ![x] = SubSeq(ledger, 1, length)]

\* The request is over; it lets go of its memoryStore.
Answer(r, answer) ==
    /\ Goto(r, "done")
    /\ told' = [told EXCEPT ![r] = answer]
    /\ mem' = [mem EXCEPT ![r] = None]
    /\ heap' = Live(heap, {cache} \cup {mem[q] : q \in Requests \ {r}})

(* prepareMutation: refreshCache loads and stores a replay; the request     *)
(* then takes whatever is in the cache.                                    *)
Load(r) ==
    /\ pc[r] = "idle"
    /\ \/ /\ fresh' = [fresh EXCEPT ![r] = Len(ledger)]
          /\ Goto(r, "store") /\ NoFailure /\ UNCHANGED <<heap, mem, told>>
       \/ Fail /\ Answer(r, "error") /\ UNCHANGED fresh
    /\ UNCHANGED <<kernel, cache, start, objs, wrote, slug, view, rebuild, torn, crashes>>

StoreFresh(r) ==
    /\ pc[r] = "store"
    /\ StoreReplay(fresh[r]) /\ Goto(r, "take")
    /\ fresh' = [fresh EXCEPT ![r] = 0]
    /\ UNCHANGED <<kernel, mem, start, objs, told, wrote, slug, view, rebuild, history>>

Take(r) ==
    /\ pc[r] = "take"
    /\ mem' = [mem EXCEPT ![r] = cache]
    /\ start' = [start EXCEPT ![r] = Len(heap[cache])]
    /\ Goto(r, "mutate")
    /\ UNCHANGED <<kernel, process, fresh, objs, told, wrote, slug, view, rebuild, history>>

\* uniqueShowSlug: the first number that no show of this memoryStore has.
SlugsIn(claims) == {slug[claims[i][1]] : i \in DOMAIN claims} \ {0}
FreeSlug(claims) == Min((1..Cardinality(Requests) + 1) \ SlugsIn(claims))

\* The domain's method, under the lock of the memoryStore, appends the claims
\* of the change.  Some find nothing to do and succeed without a claim.
Mutate(r) ==
    /\ pc[r] = "mutate"
    /\ \/ /\ heap' = [heap EXCEPT ![mem[r]] = @ \o Own(r)]
          /\ slug' = [slug EXCEPT ![r] = IF r \in Named THEN FreeSlug(heap[mem[r]]) ELSE 0]
          /\ wrote' = wrote \cup {r}
       \/ UNCHANGED <<heap, slug, wrote>>
    /\ Goto(r, "objects")
    /\ UNCHANGED <<kernel, cache, fresh, mem, start, objs, told, view, rebuild, history>>

\* ... or refuse the change: nothing is committed.
Refuse(r) ==
    /\ pc[r] = "mutate" /\ Answer(r, "error")
    /\ UNCHANGED <<kernel, cache, fresh, start, objs, wrote, slug, view, rebuild, history>>

-----------------------------------------------------------------------------
(* appendClaimsToKernelRegistry reads mem.claims[start:] twice and without  *)
(* the lock: once for the objects, whose rows come first, once for the     *)
(* claims.  The change set is named after the first of these claims.       *)
Slice(r) == SubSeq(heap[mem[r]], start[r] + 1, Len(heap[mem[r]]))

ReadObjects(r) ==
    /\ pc[r] = "objects"
    /\ objs' = [objs EXCEPT ![r] = Cardinality(ObjectsOf(Slice(r)))]
    /\ Goto(r, IF Slice(r) = <<>> THEN "cache" ELSE "claims")
    /\ UNCHANGED <<kernel, process, fresh, mem, start, told, wrote, slug, view, rebuild, history>>

Send(r) ==
    /\ pc[r] = "claims"
    /\ wire' = wire \cup {[from |-> r, set |-> Head(Slice(r)), objects |-> objs[r],
                           claims |-> Slice(r)]}
    /\ torn' = (torn \/ objs[r] # Cardinality(ObjectsOf(Slice(r))))
    /\ Goto(r, "sent")
    /\ UNCHANGED <<ledger, taken, process, fresh, mem, start, objs, told, wrote, slug, view,
                   rebuild, failures, crashes>>

\* Kernel, AppendRegistryChangeSet: a row whose change set and order exist
\* is kept as it is.
\* Mutant: a change set that exists is taken for a retry of the same one.
NewRowsOfNewSet(m) == IF taken[m.set] = 0 THEN m.claims ELSE <<>>
NewRows(m) ==
    SubSeq(m.claims, Max({1, taken[m.set] - m.objects + 1}), Len(m.claims))
Arrive(m) ==
    /\ wire' = wire \ {m}
    /\ ledger' = ledger \o NewRows(m)
    /\ taken' = [taken EXCEPT ![m.set] = Max({@, m.objects + Len(m.claims)})]
    /\ IF pc[m.from] = "sent" THEN Goto(m.from, "cache") ELSE UNCHANGED pc
    /\ UNCHANGED <<process, fresh, mem, start, objs, told, wrote, slug, view, rebuild, history>>

\* The call fails or its five seconds are over.  The change set is lost, or
\* it may still arrive.
GiveUp(r) ==
    /\ pc[r] = "sent" /\ Fail /\ Answer(r, "error")
    /\ wire' \in {wire, {m \in wire : m.from # r}}
    /\ UNCHANGED <<ledger, taken, cache, fresh, start, objs, wrote, slug, view, rebuild, torn, crashes>>

(* commitDomainMutation after the append: the request's memoryStore becomes *)
(* the cache, whatever is there, and a rebuild of the projection is due.   *)
StoreMutated(r) ==
    /\ pc[r] = "cache"
    /\ cache' = mem[r] /\ heap' = Live(heap, Held) /\ Goto(r, "schedule")
    /\ UNCHANGED <<kernel, fresh, mem, start, objs, told, wrote, slug, view, rebuild, history>>

\* Mutant: a rebuild that is running is taken to cover this change.
ScheduleIfIdle ==
    /\ build' = IF build = "idle" THEN "load" ELSE build
    /\ UNCHANGED queued
\* Mutant: the running rebuild is marked as queued.
ScheduleInPlace ==
    build' = (IF build = "idle" THEN "load" ELSE "queued") /\ UNCHANGED queued
\* scheduleProjectionRebuild: one rebuild at a time, another one queued.
ScheduleRebuild ==
    IF build = "idle" THEN build' = "load" /\ UNCHANGED queued
                      ELSE queued' = TRUE /\ UNCHANGED build
Schedule(r) ==
    /\ pc[r] = "schedule" /\ Answer(r, "ok")
    /\ IF start[r] < Len(heap[mem[r]]) THEN ScheduleRebuild ELSE UNCHANGED <<build, queued>>
    /\ UNCHANGED <<kernel, cache, fresh, start, objs, wrote, slug, view, built, projection,
                   complete, history>>

-----------------------------------------------------------------------------
(* Refresh, before a page is served: the cache is replaced by a replay, or *)
(* is served as it is when the kernel does not answer.                     *)
ViewLoad ==
    /\ view = None
    /\ view' = Len(ledger)
    /\ UNCHANGED <<kernel, process, requests, rebuild, history>>
ViewStore ==
    /\ view # None
    /\ StoreReplay(view) /\ view' = None
    /\ UNCHANGED <<kernel, requests, rebuild, history>>

(* runProjectionRebuildQueue: load a replay, replace the tables in one      *)
(* transaction, offer the replay to the cache; again while one is queued.  *)
SlugsAreUnique(claims) ==
    \A i, j \in DOMAIN claims :
        slug[claims[i][1]] = slug[claims[j][1]] /\ slug[claims[i][1]] # 0
            => claims[i][1] = claims[j][1]

Replay == SubSeq(ledger, 1, built)
BuildFails ==
    /\ complete' = FALSE /\ build' = "next" /\ built' = 0
    /\ UNCHANGED projection
BuildLoad ==
    /\ build = "load"
    /\ \/ /\ built' = Len(ledger) /\ build' = "tables"
          /\ NoFailure /\ UNCHANGED <<projection, complete>>
       \/ Fail /\ BuildFails
    /\ UNCHANGED <<kernel, process, requests, view, queued, torn, crashes>>
BuildTables ==
    /\ build = "tables"
    /\ \/ /\ SlugsAreUnique(Replay)
          /\ projection' = Range(Replay)
          /\ build' = "cache" /\ NoFailure /\ UNCHANGED <<built, complete>>
       \/ SlugsAreUnique(Replay) /\ Fail /\ BuildFails
       \/ ~SlugsAreUnique(Replay) /\ NoFailure /\ BuildFails
    /\ UNCHANGED <<kernel, process, requests, view, queued, torn, crashes>>
\* storeCacheIfNotOlder counts claims.
BuildCache ==
    /\ build = "cache"
    /\ IF built < Len(heap[cache]) THEN UNCHANGED process ELSE StoreReplay(built)
    /\ complete' = TRUE /\ build' = "next" /\ built' = 0
    /\ UNCHANGED <<kernel, requests, view, queued, projection, history>>
BuildNext ==
    /\ build = "next"
    /\ build' = IF queued THEN "load" ELSE "idle"
    /\ queued' = FALSE
    /\ UNCHANGED <<kernel, process, requests, view, built, projection, complete, history>>

(* The process dies and is started again: it replays the ledger before it  *)
(* serves and schedules a rebuild.  What it posted may still arrive.       *)
Crash ==
    /\ crashes < MaxCrashes /\ crashes' = crashes + 1
    /\ cache' = Min(Refs)
    /\ heap' = [x \in Refs |-> IF x = Min(Refs) THEN ledger ELSE <<>>]
    /\ pc' = [r \in Requests |-> IF pc[r] = "idle" THEN "idle" ELSE "done"]
    /\ told' = [r \in Requests |-> IF pc[r] \in {"idle", "done"} THEN told[r] ELSE "error"]
    /\ mem' = [r \in Requests |-> None] /\ fresh' = [r \in Requests |-> 0]
    /\ view' = None
    /\ build' = "load" /\ built' = 0 /\ queued' = FALSE /\ complete' = FALSE
    /\ UNCHANGED <<kernel, start, objs, wrote, slug, projection, torn, failures>>

RequestStep(r) ==
    \/ Load(r) \/ StoreFresh(r) \/ Take(r) \/ Mutate(r) \/ Refuse(r)
    \/ ReadObjects(r) \/ Send(r) \/ GiveUp(r) \/ StoreMutated(r) \/ Schedule(r)
BuildStep == BuildLoad \/ BuildTables \/ BuildCache \/ BuildNext
ViewStep == ViewLoad \/ ViewStore
Next ==
    \/ \E r \in Requests : RequestStep(r)
    \/ \E m \in wire : Arrive(m)
    \/ ViewStep \/ BuildStep \/ Crash

Spec == Init /\ [][Next]_vars

\* Goroutines run, calls end by answer or timeout, and pages are viewed.
Fairness ==
    /\ \A r \in Requests : WF_vars(RequestStep(r))
    /\ WF_vars(\E m \in wire : Arrive(m))
    /\ WF_vars(ViewStep) /\ WF_vars(BuildStep)
LiveSpec == Spec /\ Fairness

-----------------------------------------------------------------------------
Durable(r) == Range(Own(r)) \subseteq Range(ledger)

(* What a client was told is done is in the ledger: neither a retry of the *)
(* change set by a request that shares the list of claims nor a crash or a *)
(* late arrival drops a claim, unless some post has counted its objects    *)
(* before claims came that it carries.                                     *)
AckedIsDurable == ~torn => \A r \in Requests : told[r] = "ok" /\ r \in wrote => Durable(r)

(* The same without the excuse, as the design document says it: an accepted *)
(* change has been appended to the ledger.                                 *)
AcceptedIsDurable == \A r \in Requests : told[r] = "ok" /\ r \in wrote => Durable(r)

(* Single flight loses no wake-up: when no rebuild runs and the last one   *)
(* succeeded, the tables show every change that a client was told of, with *)
(* the same excuse: what a post has lost may come late, with another one.  *)
AckedIsProjected ==
    ~torn /\ build = "idle" /\ complete =>
        \A r \in Requests : told[r] = "ok" => Range(Own(r)) \cap Range(ledger) \subseteq projection

(* Requests, views and rebuilds overwrite each other's cache, older replays *)
(* over newer ones, but in the end the cache is the ledger.                *)
CacheConverges == <>[](heap[cache] = ledger)
=============================================================================
