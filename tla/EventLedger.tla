---------------------------- MODULE EventLedger ----------------------------
(***************************************************************************)
(* The ledger-backed event store of seed 0004.  Every accepted change of   *)
(* an event appends a claim that supersedes the last one of its type, and  *)
(* overwrites one materialized row, which is all that pages and later      *)
(* changes read.  A change is one transaction at READ COMMITTED; nothing   *)
(* but the row lock of its first select keeps two of them apart.  Each     *)
(* action is one statement; what a transaction has inserted is visible to  *)
(* the others when it commits.                                             *)
(***************************************************************************)
EXTENDS Integers, FiniteSets

CONSTANTS
    Requests,     \* calls of the commands and forms, each made once
    Kind,         \* what each one does: "create", "edit" or "state"
    Title,        \* the title, slugified, that a create asks for
    Target,       \* the status that a change of state asks for
    MaxFailures,  \* bound on transactions that fail
    None

Statuses == {"draft", "published", "canceled", "archived"}
Types == {"snapshot", "status"}

\* An event is known by the request that creates it, a claim by the request
\* that makes it and its type.
Creates == {r \in Requests : Kind[r] = "create"}
Claims == Requests \X Types
Rows == [text : Requests, status : Statuses, revisions : Nat,
         snapshot : Claims, state : Claims]
Pages == [text : Requests, status : Statuses]   \* what pages show of a row

ASSUME EventAssumption ==
    /\ Kind \in [Requests -> {"create", "edit", "state"}]
    /\ Target \in [Requests -> Statuses]
    /\ MaxFailures \in Nat
    /\ None \notin Requests /\ None \notin Claims /\ None \notin Rows /\ None \notin Pages

VARIABLES
    pc,         \* where the handler of each request is
    event,      \* the event each request is about
    slug,       \* creates: the number at the end of the slug tried or taken
    current,    \* the row each request has loaded and locked
    seq,        \* claim_seq of the claims that are inserted, 0 of others
    next,       \* the next value of the identity column
    supersedes, \* supersedes_claim_id
    committed,  \* requests whose transaction has committed
    row,        \* the materialized row of each event
    failures

vars == <<pc, event, slug, current, seq, next, supersedes, committed, row, failures>>

Steps == {"idle", "slug", "object", "lock", "snapshot", "status", "commit", "done"}

(* Type correctness.                                                       *)
TypeOK ==
    /\ pc \in [Requests -> Steps]
    /\ event \in [Requests -> Creates \cup {None}]
    /\ slug \in [Requests -> Nat]
    /\ current \in [Requests -> Rows \cup {None}]
    /\ seq \in [Claims -> Nat] /\ next \in Nat \ {0}
    /\ supersedes \in [Claims -> Claims \cup {None}]
    /\ committed \subseteq Requests
    /\ row \in [Creates -> Rows \cup {None}]
    /\ failures \in Nat

Init ==
    /\ pc = [r \in Requests |-> "idle"]
    /\ event = [r \in Requests |-> None]
    /\ slug = [r \in Requests |-> 0]
    /\ current = [r \in Requests |-> None]
    /\ seq = [c \in Claims |-> 0] /\ next = 1
    /\ supersedes = [c \in Claims |-> None]
    /\ committed = {}
    /\ row = [e \in Creates |-> None]
    /\ failures = 0

-----------------------------------------------------------------------------
Goto(r, step) == pc' = [pc EXCEPT ![r] = step]

\* A request past these steps has a transaction with rows of its own.
Writing(r) == pc[r] \in {"snapshot", "status", "commit"}

\* The slugs of committed objects; those of the uncommitted ones are not seen.
Taken(title, n) == \E e \in Creates \cap committed : Title[e] = title /\ slug[e] = n

\* createAs begins: allocateSlug starts at the plain title.
Create(r) ==
    /\ pc[r] = "idle" /\ Kind[r] = "create"
    /\ event' = [event EXCEPT ![r] = r]
    /\ slug' = [slug EXCEPT ![r] = 1]
    /\ Goto(r, "slug")
    /\ UNCHANGED <<current, seq, next, supersedes, committed, row, failures>>

\* One round of allocateSlug.
TrySlug(r) ==
    /\ pc[r] = "slug"
    /\ IF Taken(Title[r], slug[r])
       THEN slug' = [slug EXCEPT ![r] = @ + 1] /\ UNCHANGED pc
       ELSE Goto(r, "object") /\ UNCHANGED slug
    /\ UNCHANGED <<event, current, seq, next, supersedes, committed, row, failures>>

\* Mutant: the column of the slug has no unique index.
InsertAnyObject(r) ==
    /\ pc[r] = "object" /\ Goto(r, "snapshot")
    /\ UNCHANGED <<event, slug, current, seq, next, supersedes, committed, row, failures>>

\* The slug is unique: the insert waits for a transaction that has inserted
\* it, and is refused when that one has committed.
InsertObject(r) ==
    /\ pc[r] = "object"
    /\ \A q \in Creates \ {r} :
           Writing(q) => Title[q] # Title[r] \/ slug[q] # slug[r]
    /\ Goto(r, IF Taken(Title[r], slug[r]) THEN "done" ELSE "snapshot")
    /\ UNCHANGED <<event, slug, current, seq, next, supersedes, committed, row, failures>>

\* update and setStatus are given an event that lookupEvent, or the page with
\* the form, has found by its id or its slug.
Find(r, e) ==
    /\ pc[r] = "idle" /\ Kind[r] # "create"
    /\ row[e] # None
    /\ event' = [event EXCEPT ![r] = e]
    /\ Goto(r, "lock")
    /\ UNCHANGED <<slug, current, seq, next, supersedes, committed, row, failures>>

\* The input is refused, or there is no such event.
Refuse(r) ==
    /\ pc[r] = "idle" /\ Goto(r, "done")
    /\ UNCHANGED <<event, slug, current, seq, next, supersedes, committed, row, failures>>

\* Mutant: a lock that edits and changes of state share.
LockableByKind(r) ==
    \A q \in Requests \ {r} : Writing(q) /\ Kind[q] = Kind[r] => event[q] # event[r]
\* for update: the row is locked until the transaction of its holder ends.
Lockable(r) == \A q \in Requests \ {r} : Writing(q) => event[q] # event[r]

\* loadStoredEvent: the row as it is when the lock is granted.
Lock(r) ==
    /\ pc[r] = "lock" /\ Lockable(r)
    /\ current' = [current EXCEPT ![r] = row[event[r]]]
    /\ Goto(r, IF Kind[r] = "edit" THEN "snapshot" ELSE "status")
    /\ UNCHANGED <<event, slug, seq, next, supersedes, committed, row, failures>>

-----------------------------------------------------------------------------
Insert(c, superseded) ==
    /\ seq' = [seq EXCEPT ![c] = next] /\ next' = next + 1
    /\ supersedes' = [supersedes EXCEPT ![c] = superseded]

InsertSnapshotClaim(r) ==
    /\ pc[r] = "snapshot"
    /\ Insert(<<r, "snapshot">>, IF Kind[r] = "create" THEN None ELSE current[r].snapshot)
    /\ Goto(r, IF Kind[r] = "create" THEN "status" ELSE "commit")
    /\ UNCHANGED <<event, slug, current, committed, row, failures>>

InsertStatusClaim(r) ==
    /\ pc[r] = "status"
    /\ Insert(<<r, "status">>, IF Kind[r] = "create" THEN None ELSE current[r].state)
    /\ Goto(r, "commit")
    /\ UNCHANGED <<event, slug, current, committed, row, failures>>

\* The status that a status claim records.
StatusOf(r) == IF Kind[r] = "create" THEN "draft" ELSE Target[r]

\* Mutants: the row forgets its status claim; the row keeps its snapshot claim.
CreatedRowWithoutState(r) ==
    [text |-> r, status |-> "draft", revisions |-> 2,
     snapshot |-> <<r, "snapshot">>, state |-> None]
EditedRowOfOldClaim(r) ==
    [text |-> r, status |-> current[r].status, revisions |-> current[r].revisions + 1,
     snapshot |-> current[r].snapshot, state |-> current[r].state]

\* The materialized row that upsertMaterialized writes.
CreatedRow(r) ==
    [text |-> r, status |-> "draft", revisions |-> 2,
     snapshot |-> <<r, "snapshot">>, state |-> <<r, "status">>]
EditedRow(r) ==
    [text |-> r, status |-> current[r].status, revisions |-> current[r].revisions + 1,
     snapshot |-> <<r, "snapshot">>, state |-> current[r].state]
MovedRow(r) ==
    [text |-> current[r].text, status |-> Target[r], revisions |-> current[r].revisions + 1,
     snapshot |-> current[r].snapshot, state |-> <<r, "status">>]
NewRow(r) ==
    CASE Kind[r] = "create" -> CreatedRow(r)
      [] Kind[r] = "edit"   -> EditedRow(r)
      [] Kind[r] = "state"  -> MovedRow(r)

\* upsertMaterialized and the commit; the row is locked, or not yet visible.
Commit(r) ==
    /\ pc[r] = "commit"
    /\ row' = [row EXCEPT ![event[r]] = NewRow(r)]
    /\ committed' = committed \cup {r}
    /\ Goto(r, "done")
    /\ UNCHANGED <<event, slug, current, seq, next, supersedes, failures>>

\* A statement fails or the process dies: the transaction is rolled back.
\* The identity column does not go back.
Fail(r) ==
    /\ pc[r] \notin {"idle", "done"}
    /\ failures < MaxFailures /\ failures' = failures + 1
    /\ seq' = [c \in Claims |-> IF c[1] = r THEN 0 ELSE seq[c]]
    /\ Goto(r, "done")
    /\ UNCHANGED <<event, slug, current, next, supersedes, committed, row>>

Step(r) ==
    \/ Create(r) \/ TrySlug(r) \/ InsertObject(r)
    \/ (\E e \in Creates : Find(r, e)) \/ Refuse(r) \/ Lock(r)
    \/ InsertSnapshotClaim(r) \/ InsertStatusClaim(r) \/ Commit(r) \/ Fail(r)

\* All requests are over.  Any other state without a step is a lock cycle.
Over == (\A r \in Requests : pc[r] = "done") /\ UNCHANGED vars

Next == (\E r \in Requests : Step(r)) \/ Over

Spec == Init /\ [][Next]_vars

-----------------------------------------------------------------------------
\* What ledgerByID lists, ordered by seq.
History(e) == {c \in Claims : seq[c] # 0 /\ c[1] \in committed /\ event[c[1]] = e}
Earlier(e, c) == {d \in History(e) : d[2] = c[2] /\ seq[d] < seq[c]}
IsLast(c, S) == c \in S /\ \A d \in S : seq[d] <= seq[c]
OfType(e, type) == {c \in History(e) : c[2] = type}

(* The row of an event is what its claims say: the text of the last        *)
(* snapshot, the status of the last change of state, one revision per      *)
(* claim.  So no edit takes back a change of state that it has not seen,   *)
(* nor the other way round.                                                *)
RowIsItsHistory ==
    \A e \in Creates : row[e] # None =>
        /\ IsLast(row[e].snapshot, OfType(e, "snapshot"))
        /\ row[e].text = row[e].snapshot[1]
        /\ IsLast(row[e].state, OfType(e, "status"))
        /\ row[e].status = StatusOf(row[e].state[1])
        /\ row[e].revisions = Cardinality(History(e))

(* The claims of one type form a chain: each supersedes the one before it  *)
(* in the order of the ledger page, and only the first supersedes none.    *)
HistoryIsAChain ==
    \A e \in Creates : \A c \in History(e) :
        IF Earlier(e, c) = {} THEN supersedes[c] = None
                              ELSE IsLast(supersedes[c], Earlier(e, c))

(* A history grows at its end only, although claims are numbered when they *)
(* are inserted and seen when they are committed: who has read it once     *)
(* finds what was read in the same place again.                            *)
HistoryGrowsAtItsEnd ==
    [][\A e \in Creates :
           /\ History(e) \subseteq History(e)'
           /\ \A c \in History(e), d \in History(e)' \ History(e) : seq'[c] < seq'[d]]_vars

Page(e) ==
    IF row[e] = None THEN None ELSE [text |-> row[e].text, status |-> row[e].status]

Book == INSTANCE EventBook WITH
    pages   <- [e \in Creates |-> Page(e)],
    address <- [e \in Creates |-> IF e \in committed THEN slug[e] ELSE 0],
    listed  <- [e \in Creates |-> History(e)],
    before  <- [e \in Creates |-> {p \in History(e) \X History(e) : seq[p[1]] < seq[p[2]]}],
    done    <- committed

(* The transactions implement a book in which changes are made one at a    *)
(* time: no change is lost or undone by one that overlaps with it, none    *)
(* takes effect twice, no two events of a title get one slug, and what is  *)
(* listed of an event grows at its end.                                    *)
ImplementsBook == Book!Spec
=============================================================================
