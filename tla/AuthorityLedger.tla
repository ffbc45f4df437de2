--------------------------- MODULE AuthorityLedger ---------------------------
(***************************************************************************)
(* The kernel's authority state: grants are appended to the registry       *)
(* ledger (runtime_registry_rows), and runtime_authority_grants is a       *)
(* projection that any request may clear and rebuild from the ledger.      *)
(* Grants written before the ledger existed are first migrated into it.    *)
(*                                                                         *)
(* An action is one query, or one statement that takes effect at the       *)
(* commit of its transaction.  The transactions run at READ COMMITTED: a   *)
(* statement sees what is committed when it starts.  A rebuild deletes the *)
(* rows that its DELETE saw and that no other rebuild has deleted since    *)
(* (it waits for the row locks, then skips the rows that are gone), and it *)
(* overwrites whatever rows it finds under the ids it inserts.  So its     *)
(* deletion and its insertions are one step at its commit, from the rows   *)
(* that its DELETE saw ("doomed").                                         *)
(***************************************************************************)
EXTENDS Naturals, FiniteSets

CONSTANTS
    Callers,     \* requests served by any number of API processes
    Grants,      \* grant ids
    Legacy,      \* grants that were in the table before the ledger
    Supersedes,  \* the grant that each grant supersedes, or None
    Rank,        \* the order of the grants by created_at, grant_id
    None,        \* no grant
    PageLimit,   \* rows in a page of the ledger (5000 in the code)
    MaxDrops     \* bound on clearings of the projection

ASSUME GrantAssumption ==
    /\ IsFiniteSet(Grants) /\ Legacy \subseteq Grants /\ None \notin Grants
    /\ Supersedes \in [Grants -> Grants \cup {None}]
    /\ \A g \in Legacy : Supersedes[g] \in Legacy \cup {None}
ASSUME RankAssumption ==
    /\ Rank \in [Grants -> Nat]
    /\ \A g, h \in Grants : Rank[g] = Rank[h] => g = h
    /\ \A g \in Legacy, h \in Grants \ Legacy : Rank[g] < Rank[h]
    /\ \A g \in Grants : Supersedes[g] # None => Rank[Supersedes[g]] < Rank[g]
ASSUME PageAssumption == PageLimit \in Nat \ {0} /\ MaxDrops \in Nat

VARIABLES
    ledger,   \* committed rows of runtime_registry_rows
    nextRow,  \* the next row_id of the identity column
    table,    \* grant ids in runtime_authority_grants
    parent,   \* their supersedes_grant_id
    drops,    \* clearings of the projection so far
    (* per request *)
    op,       \* what was asked
    pc,       \* where it is
    stored,   \* has it appended its own grant?
    counted,  \* projectedCount
    seen,     \* ledger rows read so far by the current loop
    after,    \* the row_id that its next page starts after
    batch,    \* rows it is about to append, or has in an open transaction
    doomed,   \* table rows that its DELETE saw and nobody has deleted since
    (* history *)
    owed,     \* grants in the ledger when the request came in
    caught,   \* has the table held all of them at some time since?
    alone     \* has no other request run during this one?

store   == <<ledger, nextRow, table, parent, drops>>
locals  == <<op, pc, stored, counted, seen, after, batch, doomed>>
history == <<owed, caught, alone>>
vars    == <<store, locals, history>>

Migration == "authority-legacy-migration"   \* the change set of the migration
Created   == Grants \ Legacy

Ops == [kind : {"read", "materialize"}, grant : {None}]
         \cup [kind : {"create"}, grant : Created]
Steps == {"new", "count", "check", "migrate_count", "migrate_read", "migrate_insert",
          "migrate_commit", "load", "clear", "rebuild", "get_parent", "insert",
          "commit", "get_own", "answer", "done", "failed"}
Over  == {"done", "failed"}

(* A row keeps what the rebuild uses of its payload: the grant and the     *)
(* grant it supersedes.  id 0 is a row that has no row_id yet.             *)
Rows == [id : Nat, set : Created \cup {Migration}, order : Nat,
         grant : Grants, parent : Grants \cup {None}]

GrantsOf(rows) == {r.grant : r \in rows}
InLedger == GrantsOf(ledger)

(* Type correctness of the tables and of every request's local state.      *)
TypeOK ==
    /\ ledger \subseteq Rows /\ nextRow \in Nat \ {0}
    /\ table \subseteq Grants /\ parent \in [Grants -> Grants \cup {None}]
    /\ drops \in Nat
    /\ op \in [Callers -> Ops] /\ pc \in [Callers -> Steps]
    /\ stored \in [Callers -> BOOLEAN] /\ counted \in [Callers -> Nat]
    /\ seen \in [Callers -> SUBSET Rows] /\ after \in [Callers -> Nat]
    /\ batch \in [Callers -> SUBSET Rows]
    /\ doomed \in [Callers -> SUBSET Grants] /\ owed \in [Callers -> SUBSET Grants]
    /\ caught \in [Callers -> BOOLEAN] /\ alone \in [Callers -> BOOLEAN]

Init ==
    /\ ledger = {} /\ nextRow = 1 /\ drops = 0
    /\ table = Legacy
    /\ parent = [g \in Grants |-> IF g \in Legacy THEN Supersedes[g] ELSE None]
    /\ op \in [Callers -> Ops]
    /\ pc = [c \in Callers |-> "new"]
    /\ stored = [c \in Callers |-> FALSE]
    /\ counted = [c \in Callers |-> 0]
    /\ seen = [c \in Callers |-> {}]
    /\ after = [c \in Callers |-> 0]
    /\ batch = [c \in Callers |-> {}]
    /\ doomed = [c \in Callers |-> {}]
    /\ owed = [c \in Callers |-> {}]
    /\ caught = [c \in Callers |-> FALSE]
    /\ alone = [c \in Callers |-> FALSE]

Goto(c, step) == pc' = [pc EXCEPT ![c] = step]

-----------------------------------------------------------------------------
(* A request comes in: a read (effective authority or ledger listing) and a *)
(* create first make sure that the projection is current.                  *)
Start(c) ==
    /\ pc[c] = "new"
    /\ Goto(c, IF op[c].kind = "materialize" THEN "migrate_count" ELSE "count")
    /\ owed' = [owed EXCEPT ![c] = InLedger]
    /\ caught' = [caught EXCEPT ![c] = InLedger \subseteq table]
    /\ LET others == {d \in Callers \ {c} : pc[d] \notin Over \cup {"new"}}
       IN  alone' = [d \in Callers |-> IF d = c THEN others = {}
                                       ELSE alone[d] /\ d \notin others]
    /\ UNCHANGED <<store, op, stored, counted, seen, after, batch, doomed>>

(* Where a request goes once the projection is current.                    *)
Current(c) == CASE op[c].kind = "read"   -> "answer"
                [] op[c].kind = "create" -> IF stored[c] THEN "get_own" ELSE "get_parent"
                [] OTHER                 -> "done"

(* authorityStateNeedsMaterialize: count the projection, then page through *)
(* the ledger until a page is empty, and compare the two counts.           *)
CountTable(c) ==
    /\ pc[c] = "count"
    /\ counted' = [counted EXCEPT ![c] = Cardinality(table)]
    /\ Goto(c, "check")
    /\ UNCHANGED <<store, op, stored, seen, after, batch, doomed, history>>

Beyond(c)   == {r \in ledger : r.id > after[c]}
NextPage(c) == {r \in Beyond(c) : Cardinality({q \in Beyond(c) : q.id < r.id}) < PageLimit}

ReadPage(c) ==
    /\ pc[c] \in {"check", "load"}
    /\ \E last \in NextPage(c) :
         /\ \A r \in NextPage(c) : r.id <= last.id
         /\ after' = [after EXCEPT ![c] = last.id]
    /\ seen' = [seen EXCEPT ![c] = @ \cup NextPage(c)]
    /\ UNCHANGED <<store, op, pc, stored, counted, batch, doomed, history>>

\* Mutant: look only for too many grants.
OnlyTooMany(c)      == counted[c] > Cardinality(seen[c])
NeedsMaterialize(c) == counted[c] # Cardinality(seen[c])

Compare(c) ==
    /\ pc[c] = "check" /\ Beyond(c) = {}
    /\ Goto(c, IF NeedsMaterialize(c) THEN "migrate_count" ELSE Current(c))
    /\ counted' = [counted EXCEPT ![c] = 0]
    /\ seen' = [seen EXCEPT ![c] = {}] /\ after' = [after EXCEPT ![c] = 0]
    /\ UNCHANGED <<store, op, stored, batch, doomed, history>>

-----------------------------------------------------------------------------
\* Mutant: rebuild without migrating.
NeverMigrate(c) ==
    /\ pc[c] = "migrate_count"
    /\ Goto(c, "load")
    /\ UNCHANGED <<store, op, stored, counted, seen, after, batch, doomed, history>>

(* migrateLegacyAuthorityGrantsToRegistry: only while the ledger is empty, *)
(* put what the table holds, oldest first, into one change set.            *)
MigrateCount(c) ==
    /\ pc[c] = "migrate_count"
    /\ Goto(c, IF ledger # {} THEN "load" ELSE "migrate_read")
    /\ UNCHANGED <<store, op, stored, counted, seen, after, batch, doomed, history>>

\* Mutant: the migration names no change set.
UnnamedRows == {[id |-> 0, set |-> None, order |-> Cardinality({h \in table : Rank[h] < Rank[g]}),
                 grant |-> g, parent |-> parent[g]] : g \in table}

LegacyRows == {[id |-> 0, set |-> Migration, order |-> Cardinality({h \in table : Rank[h] < Rank[g]}),
                grant |-> g, parent |-> parent[g]] : g \in table}

MigrateRead(c) ==
    /\ pc[c] = "migrate_read"
    /\ batch' = [batch EXCEPT ![c] = LegacyRows]
    /\ Goto(c, IF table = {} THEN "load" ELSE "migrate_insert")
    /\ UNCHANGED <<store, op, stored, counted, seen, after, doomed, history>>

(* AppendRegistryChangeSet: its transaction inserts the change set and the *)
(* rows, each of which is left alone when it is already there, and takes   *)
(* row ids; the rows are visible from the commit on.  An insert waits for  *)
(* a transaction that is inserting the same change set.                    *)
IsWriting(c) == pc[c] \in {"migrate_commit", "commit"}
MustWait(c)  == \E d \in Callers : IsWriting(d) /\ \E r \in batch[c], q \in batch[d] : q.set = r.set
\* Mutant: no "on conflict" clause and no unique index.
InsertAll(rows) == rows
Absent(rows) == {r \in rows : \A q \in ledger : <<q.set, q.order>> # <<r.set, r.order>>}
Numbered(rows) ==
    {[r EXCEPT !.id = nextRow + Cardinality({q \in rows : q.order < r.order})] : r \in rows}

Insert(c) ==
    /\ pc[c] \in {"migrate_insert", "insert"}
    /\ ~MustWait(c)
    /\ batch' = [batch EXCEPT ![c] = Numbered(Absent(@))]
    /\ nextRow' = nextRow + Cardinality(Absent(batch[c]))
    /\ Goto(c, IF pc[c] = "insert" THEN "commit" ELSE "migrate_commit")
    /\ UNCHANGED <<ledger, table, parent, drops, op, stored, counted, seen, after, doomed, history>>

(* A create goes on to MaterializeAuthorityState, which may migrate again. *)
Commit(c) ==
    /\ IsWriting(c)
    /\ ledger' = ledger \cup batch[c]
    /\ batch' = [batch EXCEPT ![c] = {}]
    /\ stored' = [stored EXCEPT ![c] = @ \/ pc[c] = "commit"]
    /\ Goto(c, IF pc[c] = "commit" THEN "migrate_count" ELSE "load")
    /\ UNCHANGED <<nextRow, table, parent, drops, op, counted, seen, after, doomed, history>>

-----------------------------------------------------------------------------
\* Mutant: stop after one page.
LoadedOnePage(c) ==
    /\ pc[c] = "load" /\ (seen[c] # {} \/ Beyond(c) = {})
    /\ after' = [after EXCEPT ![c] = 0]
    /\ Goto(c, "clear")
    /\ UNCHANGED <<store, op, stored, counted, seen, batch, doomed, history>>

(* materializeAuthorityStateTx: load the ledger (ReadPage) up to an empty  *)
(* page, clear the projection, insert every loaded row in row_id order,    *)
(* commit.                                                                 *)
Loaded(c) ==
    /\ pc[c] = "load" /\ Beyond(c) = {}
    /\ after' = [after EXCEPT ![c] = 0]
    /\ Goto(c, "clear")
    /\ UNCHANGED <<store, op, stored, counted, seen, batch, doomed, history>>

Clear(c) ==
    /\ pc[c] = "clear"
    /\ doomed' = [doomed EXCEPT ![c] = table]
    /\ Goto(c, "rebuild")
    /\ UNCHANGED <<store, op, stored, counted, seen, after, batch, history>>

LastRow(rows, g) ==
    CHOOSE r \in rows : r.grant = g /\ \A q \in rows : q.grant = g => q.id <= r.id

(* What a rebuild finds under it once its deletion has taken place: rows   *)
(* that other requests put there after its DELETE began, whose reference   *)
(* to a deleted row is set to null.                                        *)
Left(c) == table \ doomed[c]
LeftParent(c, g) == IF parent[g] \in doomed[c] THEN None ELSE parent[g]

(* The foreign key of supersedes_grant_id, at each insert.                 *)
ReferencesHold(c) ==
    \A r \in seen[c] : r.parent \in {None} \cup Left(c)
                          \cup {q.grant : q \in {q \in seen[c] : q.id < r.id}}

Rebuild(c) ==
    /\ pc[c] = "rebuild" /\ ReferencesHold(c)
    /\ table' = Left(c) \cup GrantsOf(seen[c])
    /\ parent' = [g \in Grants |->
                    IF g \in GrantsOf(seen[c]) THEN LastRow(seen[c], g).parent
                    ELSE IF g \in Left(c) THEN LeftParent(c, g) ELSE None]
    /\ doomed' = [d \in Callers |-> IF d = c THEN {} ELSE doomed[d] \ doomed[c]]
    /\ seen' = [seen EXCEPT ![c] = {}]
    /\ Goto(c, Current(c))
    /\ caught' = [d \in Callers |-> caught[d] \/ (pc[d] # "new" /\ owed[d] \subseteq table')]
    /\ UNCHANGED <<ledger, nextRow, drops, op, stored, counted, after, batch, owed, alone>>

-----------------------------------------------------------------------------
(* CreateAuthorityGrant: the superseded grant must be in the projection;   *)
(* append the grant, materialize, and read it back.                        *)
GetParent(c) ==
    /\ pc[c] = "get_parent"
    /\ Supersedes[op[c].grant] \in table \cup {None}
    /\ batch' = [batch EXCEPT ![c] =
                   {[id |-> 0, set |-> op[c].grant, order |-> 0,
                     grant |-> op[c].grant, parent |-> Supersedes[op[c].grant]]}]
    /\ Goto(c, "insert")
    /\ UNCHANGED <<store, op, stored, counted, seen, after, doomed, history>>

GetOwn(c) ==
    /\ pc[c] = "get_own" /\ op[c].grant \in table
    /\ Goto(c, "done")
    /\ UNCHANGED <<store, op, stored, counted, seen, after, batch, doomed, history>>

Answer(c) ==
    /\ pc[c] = "answer"
    /\ Goto(c, "done")
    /\ UNCHANGED <<store, op, stored, counted, seen, after, batch, doomed, history>>

(* A statement fails, the client goes away, or a grant is not found: an    *)
(* open transaction is rolled back.                                        *)
Fail(c) ==
    /\ pc[c] \notin Over \cup {"new"}
    /\ Goto(c, "failed")
    /\ counted' = [counted EXCEPT ![c] = 0]
    /\ seen' = [seen EXCEPT ![c] = {}] /\ after' = [after EXCEPT ![c] = 0]
    /\ batch' = [batch EXCEPT ![c] = {}] /\ doomed' = [doomed EXCEPT ![c] = {}]
    /\ UNCHANGED <<store, op, stored, history>>

(* An operator clears the projection, which is disposable once the ledger  *)
(* has been filled.                                                        *)
Drop ==
    /\ ledger # {} /\ drops < MaxDrops
    /\ drops' = drops + 1
    /\ table' = {} /\ parent' = [g \in Grants |-> None]
    /\ doomed' = [c \in Callers |-> {}]
    /\ alone' = [c \in Callers |-> FALSE]
    /\ UNCHANGED <<ledger, nextRow, op, pc, stored, counted, seen, after, batch, owed, caught>>

Request(c) ==
    \/ Start(c) \/ CountTable(c) \/ ReadPage(c) \/ Compare(c)
    \/ MigrateCount(c) \/ MigrateRead(c) \/ Insert(c) \/ Commit(c)
    \/ Loaded(c) \/ Clear(c) \/ Rebuild(c) \/ GetParent(c) \/ GetOwn(c) \/ Answer(c) \/ Fail(c)

Next == Drop \/ \E c \in Callers : Request(c)

Spec == Init /\ [][Next]_vars

-----------------------------------------------------------------------------
(* Safety properties. *)

(* Once anything is in the ledger, every grant that existed before it and  *)
(* every grant of the projection is in the ledger, so that the projection  *)
(* can be thrown away; until then nobody has cleared the old grants.  The  *)
(* migration, racing with rebuilds and creates, must come first.           *)
ProjectionIsDisposable ==
    IF ledger = {} THEN table = Legacy ELSE Legacy \cup table \subseteq InLedger

(* A read answers, and a create checks the grant that it supersedes, only  *)
(* after the table has held every grant that was in the ledger when the    *)
(* request came in, whatever the other requests clear and rebuild.         *)
CaughtUp == \A c \in Callers : pc[c] \in {"answer", "get_parent", "get_own"} => caught[c]

(* A request during which no other ran sees exactly the grants of the      *)
(* ledger: comparing two counts is enough to find a stale projection, also *)
(* after rebuilds that were overtaken or failed, and repeated rows.        *)
QuietRequestsSeeTheLedger ==
    \A c \in Callers : pc[c] \in {"answer", "get_parent", "get_own"} /\ alone[c] => table = InLedger

(* However a create is retried and the migration repeated, an entry of a   *)
(* change set is appended once.                                            *)
EntriesAreAppendedOnce ==
    \A r, q \in ledger : <<r.set, r.order>> = <<q.set, q.order>> => r = q

(* Replayed in row order, the ledger refers to no grant that it has not    *)
(* inserted: a rebuild that has loaded all of it gets past the foreign key *)
(* of supersedes_grant_id, whatever it finds in the table.  Migrations     *)
(* that are repeated late and creates that overlap rebuilds leave no       *)
(* ledger that fails every later request.                                  *)
LedgerCanBeReplayed ==
    \A r \in ledger : r.parent \in {None} \cup GrantsOf({q \in ledger : q.id < r.id})

(* Overlapping rebuilds may forget what a grant supersedes, and a late     *)
(* migration may write that into the ledger, but nowhere does a grant come *)
(* to supersede another than it was made for, and no reference dangles.    *)
SupersessionsAreTrue ==
    /\ \A g \in table : parent[g] \in {None, Supersedes[g]} /\ parent[g] \in table \cup {None}
    /\ \A r \in ledger : r.parent \in {None, Supersedes[r.grant]}

(* The book that the ledger and the projection stand for: until the        *)
(* migration the grants of old are recorded in the table only.             *)
Recorded == Legacy \cup InLedger

Book == INSTANCE AuthorityBook WITH Old <- Legacy, recorded <- Recorded, shown <- table

(* Requests that migrate, create, rebuild and fail while others do the     *)
(* same implement a book from which no grant ever goes, and into which a   *)
(* grant comes once, alone and after the one that it supersedes: neither a *)
(* migration that is late nor a rebuild adds to it or takes from it.       *)
ImplementsBook == Book!Spec

-----------------------------------------------------------------------------
(* What the documents say and the code does not keep. *)

(* GetEffectiveAuthorityByPrincipal, the grants that are neither proposed  *)
(* nor expired: in force unless another row supersedes it.                 *)
Effective == {g \in table : \A n \in table : parent[n] # g}

(* A grant is not in force while the table holds one that supersedes it.   *)
SupersededIsNotEffective == \A g \in table : Supersedes[g] \notin Effective
=============================================================================
