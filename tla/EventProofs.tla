---------------------------- MODULE EventProofs ----------------------------
(***************************************************************************)
(* The event store, for any number of requests of any kind on any titles   *)
(* and any number of failures: the row lock makes each change of an event  *)
(* start from the last one, so that the row and the claims agree.          *)
(***************************************************************************)
EXTENDS EventLedger, FiniteSetTheorems, TLAPS

\* What is known of a request from where it is.
Placed(r) ==
    /\ pc[r] \in {"slug", "object"} => Kind[r] = "create"
    /\ pc[r] = "snapshot" => Kind[r] # "state"
    /\ pc[r] = "status" => Kind[r] # "edit"
    /\ pc[r] \in {"slug", "object", "lock"} \/ Writing(r) \/ r \in committed
           => event[r] \in Creates
    /\ Kind[r] = "create" /\ (pc[r] \in {"slug", "object"} \/ Writing(r) \/ r \in committed)
           => event[r] = r
    /\ pc[r] = "lock" => Kind[r] # "create" /\ row[event[r]] # None
    /\ Writing(r) /\ Kind[r] # "create" =>
           row[event[r]] # None /\ current[r] = row[event[r]]
    /\ r \in committed => pc[r] = "done" /\ event[r] \in committed

Exclusive ==
    \A r, q \in Requests : r # q /\ Writing(r) /\ Writing(q) => event[r] # event[q]

RowsOfCommitted == \A e \in Creates : row[e] # None <=> e \in committed

TypeInv == TypeOK /\ RowsOfCommitted /\ (\A r \in Requests : Placed(r)) /\ Exclusive

LEMMA ClaimsOf ==
  ASSUME NEW r \in Requests
  PROVE  /\ <<r, "snapshot">> \in Claims /\ <<r, "status">> \in Claims
         /\ \A c \in Claims : c[1] = r => c = <<r, "snapshot">> \/ c = <<r, "status">>
BY DEF Claims, Types

LEMMA InitTypes == Init => TypeInv
BY EventAssumption
   DEF Init, TypeInv, TypeOK, RowsOfCommitted, Placed, Exclusive, Writing, Creates, Claims, Steps, Statuses

LEMMA StatusType == ASSUME NEW r \in Requests PROVE StatusOf(r) \in Statuses
BY EventAssumption DEF StatusOf, Statuses

LEMMA NewRowType ==
  ASSUME TypeInv, NEW r \in Requests, pc[r] = "commit"
  PROVE  NewRow(r) \in Rows
<1>1. Kind[r] \in {"create", "edit", "state"} /\ Target[r] \in Statuses
  BY EventAssumption
<1>2. CASE Kind[r] = "create"
  BY <1>2, ClaimsOf DEF NewRow, CreatedRow, Rows, Statuses
<1>3. CASE Kind[r] # "create"
  <2>1. current[r] \in Rows
    <3>1. Placed(r) /\ Writing(r)
      BY DEF TypeInv, Writing
    <3>2. current[r] = row[event[r]] /\ row[event[r]] # None /\ event[r] \in Creates
      BY <1>3, <3>1 DEF Placed
    <3> QED BY <3>2 DEF TypeInv, TypeOK
  <2>f. /\ current[r].text \in Requests /\ current[r].status \in Statuses
        /\ current[r].revisions + 1 \in Nat
        /\ current[r].snapshot \in Claims /\ current[r].state \in Claims
    BY <2>1 DEF Rows
  <2>2. EditedRow(r) \in Rows
    BY <2>f, ClaimsOf DEF EditedRow, Rows
  <2>3. MovedRow(r) \in Rows
    BY <1>1, <2>f, ClaimsOf DEF MovedRow, Rows
  <2> QED BY <1>1, <1>3, <2>2, <2>3 DEF NewRow
<1> QED BY <1>2, <1>3

\* Steps that leave the tables alone disturb nobody else.
LEMMA OthersPlaced ==
  ASSUME TypeInv, NEW q \in Requests,
         pc'[q] = pc[q], event'[q] = event[q], current'[q] = current[q],
         row' = row, committed' = committed
  PROVE  Placed(q)'
BY DEF TypeInv, Placed, Writing

LEMMA OthersExclude ==
  ASSUME TypeInv, NEW r \in Requests, ~Writing(r)',
         \A q \in Requests \ {r} : pc'[q] = pc[q] /\ event'[q] = event[q]
  PROVE  Exclusive'
BY DEF TypeInv, Exclusive, Writing

\* A create and a change of the same event do not overlap.
LEMMA OnlyTheCreatorSees ==
  ASSUME TypeInv, NEW r \in Requests, NEW q \in Requests,
         Kind[r] = "create", pc[r] # "done", Writing(q), event[q] = r
  PROVE  q = r
<1>1. Placed(q) /\ Placed(r)
  BY DEF TypeInv
<1>2. r \notin committed
  BY <1>1 DEF Placed
<1>3. CASE Kind[q] = "create"
  BY <1>1, <1>3 DEF Placed
<1>4. CASE Kind[q] # "create"
  <2>1. row[r] # None /\ r \in Creates
    BY <1>1, <1>4 DEF Placed
  <2> QED BY <1>2, <2>1 DEF TypeInv, RowsOfCommitted
<1> QED BY <1>3, <1>4

LEMMA CreateTyped ==
  ASSUME TypeInv, NEW r \in Requests, Create(r) PROVE TypeInv'
<1>1. TypeOK'
  BY DEF TypeInv, TypeOK, Create, Goto, Steps, Creates
<1>2. RowsOfCommitted'
  BY DEF TypeInv, RowsOfCommitted, Create
<1>3. ASSUME NEW q \in Requests PROVE Placed(q)'
  <2>1. CASE q = r
    BY <2>1 DEF TypeInv, TypeOK, Placed, Create, Goto, Writing, Creates
  <2>2. CASE q # r
    BY <2>2, OthersPlaced DEF TypeInv, TypeOK, Create, Goto
  <2> QED BY <2>1, <2>2
<1>4. Exclusive'
  BY OthersExclude DEF TypeInv, TypeOK, Create, Goto, Writing
<1> QED BY <1>1, <1>2, <1>3, <1>4 DEF TypeInv

LEMMA TrySlugTyped ==
  ASSUME TypeInv, NEW r \in Requests, TrySlug(r) PROVE TypeInv'
<1>1. TypeOK'
  BY DEF TypeInv, TypeOK, TrySlug, Goto, Steps
<1>2. RowsOfCommitted'
  BY DEF TypeInv, RowsOfCommitted, TrySlug
<1>3. ASSUME NEW q \in Requests PROVE Placed(q)'
  <2>1. CASE q = r
    BY <2>1 DEF TypeInv, TypeOK, Placed, TrySlug, Goto, Writing, Creates
  <2>2. CASE q # r
    BY <2>2, OthersPlaced DEF TypeInv, TypeOK, TrySlug, Goto
  <2> QED BY <2>1, <2>2
<1>4. Exclusive'
  BY OthersExclude DEF TypeInv, TypeOK, TrySlug, Goto, Writing
<1> QED BY <1>1, <1>2, <1>3, <1>4 DEF TypeInv

LEMMA InsertObjectTyped ==
  ASSUME TypeInv, NEW r \in Requests, InsertObject(r) PROVE TypeInv'
<1>1. TypeOK'
  BY DEF TypeInv, TypeOK, InsertObject, Goto, Steps
<1>2. RowsOfCommitted'
  BY DEF TypeInv, RowsOfCommitted, InsertObject
<1>3. ASSUME NEW q \in Requests PROVE Placed(q)'
  <2>1. CASE q = r
    BY <2>1 DEF TypeInv, TypeOK, Placed, InsertObject, Goto, Writing, Creates
  <2>2. CASE q # r
    BY <2>2, OthersPlaced DEF TypeInv, TypeOK, InsertObject, Goto
  <2> QED BY <2>1, <2>2
<1>4. Exclusive'
  <2> SUFFICES ASSUME NEW q \in Requests \ {r}, Writing(q) PROVE event[q] # event[r]
    BY DEF TypeInv, TypeOK, Exclusive, InsertObject, Goto, Writing
  <2>1. event[r] = r /\ Kind[r] = "create" /\ pc[r] # "done"
    BY DEF TypeInv, Placed, InsertObject
  <2> QED BY <2>1, OnlyTheCreatorSees
<1> QED BY <1>1, <1>2, <1>3, <1>4 DEF TypeInv

LEMMA FindTyped ==
  ASSUME TypeInv, NEW r \in Requests, NEW e \in Creates, Find(r, e) PROVE TypeInv'
<1>1. TypeOK'
  BY DEF TypeInv, TypeOK, Find, Goto, Steps
<1>2. RowsOfCommitted'
  BY DEF TypeInv, RowsOfCommitted, Find
<1>3. ASSUME NEW q \in Requests PROVE Placed(q)'
  <2>1. CASE q = r
    BY <2>1 DEF TypeInv, TypeOK, Placed, Find, Goto, Writing
  <2>2. CASE q # r
    BY <2>2, OthersPlaced DEF TypeInv, TypeOK, Find, Goto
  <2> QED BY <2>1, <2>2
<1>4. Exclusive'
  BY OthersExclude DEF TypeInv, TypeOK, Find, Goto, Writing
<1> QED BY <1>1, <1>2, <1>3, <1>4 DEF TypeInv

LEMMA RefuseTyped ==
  ASSUME TypeInv, NEW r \in Requests, Refuse(r) PROVE TypeInv'
<1>1. TypeOK'
  BY DEF TypeInv, TypeOK, Refuse, Goto, Steps
<1>2. RowsOfCommitted'
  BY DEF TypeInv, RowsOfCommitted, Refuse
<1>3. ASSUME NEW q \in Requests PROVE Placed(q)'
  <2>1. CASE q = r
    BY <2>1 DEF TypeInv, TypeOK, Placed, Refuse, Goto, Writing
  <2>2. CASE q # r
    BY <2>2, OthersPlaced DEF TypeInv, TypeOK, Refuse, Goto
  <2> QED BY <2>1, <2>2
<1>4. Exclusive'
  BY OthersExclude DEF TypeInv, TypeOK, Refuse, Goto, Writing
<1> QED BY <1>1, <1>2, <1>3, <1>4 DEF TypeInv

LEMMA LockTyped ==
  ASSUME TypeInv, NEW r \in Requests, Lock(r) PROVE TypeInv'
<1>0. Placed(r) /\ pc[r] = "lock" /\ event[r] \in Creates /\ row[event[r]] \in Rows /\ Kind[r] # "create"
  BY DEF TypeInv, TypeOK, Placed, Lock
<1>1. TypeOK'
  BY <1>0 DEF TypeInv, TypeOK, Lock, Goto, Steps
<1>2. RowsOfCommitted'
  BY DEF TypeInv, RowsOfCommitted, Lock
<1>3. ASSUME NEW q \in Requests PROVE Placed(q)'
  <2>1. CASE q = r
    <3>1. Kind[r] \in {"edit", "state"}
      BY <1>0, EventAssumption
    <3> QED BY <1>0, <2>1, <3>1 DEF TypeInv, TypeOK, Placed, Lock, Goto, Writing
  <2>2. CASE q # r
    BY <2>2, OthersPlaced DEF TypeInv, TypeOK, Lock, Goto
  <2> QED BY <2>1, <2>2
<1>4. Exclusive'
  BY DEF TypeInv, TypeOK, Exclusive, Lock, Lockable, Goto, Writing
<1> QED BY <1>1, <1>2, <1>3, <1>4 DEF TypeInv

LEMMA InsertTyped ==
  ASSUME TypeInv, NEW r \in Requests, InsertSnapshotClaim(r) \/ InsertStatusClaim(r)
  PROVE  TypeInv'
<1>0. /\ Placed(r) /\ Kind[r] \in {"create", "edit", "state"}
      /\ event[r] \in Creates
      /\ Kind[r] # "create" => current[r] \in Rows
  <2>1. Placed(r) /\ Writing(r)
    BY DEF TypeInv, Writing, InsertSnapshotClaim, InsertStatusClaim
  <2> QED BY <2>1, EventAssumption DEF TypeInv, TypeOK, Placed
<1>1. TypeOK'
  <2>1. /\ Kind[r] # "create" => current[r].snapshot \in Claims /\ current[r].state \in Claims
        /\ next + 1 \in Nat \ {0}
    BY <1>0 DEF TypeInv, TypeOK, Rows
  <2>2. supersedes' \in [Claims -> Claims \cup {None}]
    BY <2>1, ClaimsOf DEF TypeInv, TypeOK, InsertSnapshotClaim, InsertStatusClaim, Insert
  <2> QED BY <2>1, <2>2, ClaimsOf
          DEF TypeInv, TypeOK, InsertSnapshotClaim, InsertStatusClaim, Insert, Goto, Steps
<1>2. RowsOfCommitted'
  BY DEF TypeInv, RowsOfCommitted, InsertSnapshotClaim, InsertStatusClaim
<1>3. ASSUME NEW q \in Requests PROVE Placed(q)'
  <2>1. CASE q = r
    BY <1>0, <2>1 DEF TypeInv, TypeOK, Placed, InsertSnapshotClaim, InsertStatusClaim, Goto, Writing
  <2>2. CASE q # r
    BY <2>2, OthersPlaced DEF TypeInv, TypeOK, InsertSnapshotClaim, InsertStatusClaim, Goto
  <2> QED BY <2>1, <2>2
<1>4. Exclusive'
  BY DEF TypeInv, TypeOK, Exclusive, InsertSnapshotClaim, InsertStatusClaim, Goto, Writing
<1> QED BY <1>1, <1>2, <1>3, <1>4 DEF TypeInv

\* The event of a change exists already; that of a create is new.
LEMMA CommitsOnEvent ==
  ASSUME TypeInv, NEW r \in Requests, Commit(r)
  PROVE  /\ event[r] \in Creates /\ Writing(r) /\ r \notin committed
         /\ Kind[r] = "create" => event[r] = r /\ row[r] = None
         /\ Kind[r] # "create" =>
                /\ event[r] \in committed /\ event[r] # r
                /\ current[r] = row[event[r]] /\ current[r] \in Rows
<1>1. Placed(r) /\ Writing(r) /\ pc[r] = "commit"
  BY DEF TypeInv, Commit, Writing
<1>2. r \notin committed
  BY <1>1 DEF Placed
<1> QED BY <1>1, <1>2 DEF TypeInv, TypeOK, Placed, RowsOfCommitted, Creates

LEMMA CommitTyped ==
  ASSUME TypeInv, NEW r \in Requests, Commit(r) PROVE TypeInv'
<1>0. NewRow(r) \in Rows /\ NewRow(r) # None
  BY NewRowType, EventAssumption DEF Commit
<1>1. TypeOK'
  BY <1>0 DEF TypeInv, TypeOK, Commit, Goto, Steps
<1>2. RowsOfCommitted'
  <2> SUFFICES ASSUME NEW e \in Creates PROVE row'[e] # None <=> e \in committed'
    BY DEF RowsOfCommitted
  <2>1. CASE e = event[r]
    <3>1. row'[e] # None
      BY <1>0, <2>1 DEF TypeInv, TypeOK, Commit
    <3> QED BY <2>1, <3>1, CommitsOnEvent, EventAssumption DEF Commit
  <2>2. CASE e # event[r]
    <3>1. e # r
      BY <2>2, CommitsOnEvent DEF Creates
    <3> QED BY <2>2, <3>1 DEF TypeInv, TypeOK, RowsOfCommitted, Commit
  <2> QED BY <2>1, <2>2
<1>3. ASSUME NEW q \in Requests PROVE Placed(q)'
  <2>1. CASE q = r
    BY <2>1, CommitsOnEvent DEF TypeInv, TypeOK, Placed, Commit, Goto, Writing, Creates
  <2>2. CASE q # r
    <3>1. /\ pc'[q] = pc[q] /\ event'[q] = event[q] /\ current'[q] = current[q]
          /\ q \in committed' <=> q \in committed
          /\ \A e \in Creates : row[e] # None => row'[e] # None
      BY <1>0, <2>2 DEF TypeInv, TypeOK, Commit, Goto
    <3>2. Writing(q) => event[q] # event[r]
      BY <2>2, CommitsOnEvent DEF TypeInv, Exclusive
    <3>3. Writing(q) /\ event[q] \in Creates => row'[event[q]] = row[event[q]]
      BY <3>2 DEF TypeInv, TypeOK, Commit
    <3>4. Placed(q) /\ (committed \subseteq committed')
      BY DEF TypeInv, Commit
    <3>5. Writing(q)' <=> Writing(q)
      BY <3>1 DEF Writing
    <3> QED BY <3>1, <3>3, <3>4, <3>5 DEF Placed
  <2> QED BY <2>1, <2>2
<1>4. Exclusive'
  BY DEF TypeInv, TypeOK, Exclusive, Commit, Goto, Writing
<1> QED BY <1>1, <1>2, <1>3, <1>4 DEF TypeInv

LEMMA FailTyped ==
  ASSUME TypeInv, NEW r \in Requests, Fail(r) PROVE TypeInv'
<1>0. r \notin committed
  BY DEF TypeInv, Placed, Fail
<1>1. TypeOK'
  BY EventAssumption DEF TypeInv, TypeOK, Fail, Goto, Steps
<1>2. RowsOfCommitted'
  BY DEF TypeInv, RowsOfCommitted, Fail
<1>3. ASSUME NEW q \in Requests PROVE Placed(q)'
  <2>1. CASE q = r
    BY <1>0, <2>1 DEF TypeInv, TypeOK, Placed, Fail, Goto, Writing
  <2>2. CASE q # r
    BY <2>2, OthersPlaced DEF TypeInv, TypeOK, Fail, Goto
  <2> QED BY <2>1, <2>2
<1>4. Exclusive'
  BY OthersExclude DEF TypeInv, TypeOK, Fail, Goto, Writing
<1> QED BY <1>1, <1>2, <1>3, <1>4 DEF TypeInv

LEMMA StepTyped == ASSUME TypeInv, [Next]_vars PROVE TypeInv'
<1>1. CASE UNCHANGED vars
  BY <1>1 DEF TypeInv, TypeOK, RowsOfCommitted, Placed, Exclusive, Writing, vars
<1>2. CASE \E r \in Requests : Step(r)
  BY <1>2, CreateTyped, TrySlugTyped, InsertObjectTyped, FindTyped, RefuseTyped, LockTyped,
     InsertTyped, CommitTyped, FailTyped DEF Step
<1> QED BY <1>1, <1>2 DEF Next, Over

(* TypeOK is an invariant: a request holds a row exactly while its         *)
(* transaction is open, and no two hold the row of one event.              *)
THEOREM Typed == Spec => []TypeOK
<1>1. Init => TypeInv
  BY InitTypes
<1>2. TypeInv /\ [Next]_vars => TypeInv'
  BY StepTyped
<1>3. TypeInv => TypeOK
  BY DEF TypeInv
<1> QED BY <1>1, <1>2, <1>3, PTL DEF Spec

-----------------------------------------------------------------------------
\* Which claims are in the table, those of open transactions included.
Inserted(r) ==
    /\ seq[<<r, "snapshot">>] # 0 <=>
           Kind[r] # "state" /\ (r \in committed \/ pc[r] \in {"status", "commit"})
    /\ seq[<<r, "status">>] # 0 <=>
           Kind[r] # "edit" /\ (r \in committed \/ pc[r] = "commit")

Numbered ==
    /\ \A c \in Claims : seq[c] < next
    /\ \A c, d \in Claims : seq[c] = seq[d] /\ seq[c] # 0 => c = d

\* The claims of the transaction that holds a row are younger than all that
\* are seen of the event, and supersede what the row names.
Pending(r) == {c \in Claims : c[1] = r /\ seq[c] # 0}
Ahead(r) == \A c \in Pending(r), d \in History(event[r]) : seq[d] < seq[c]
Superseding(r) ==
    \A c \in Pending(r) :
        supersedes[c] = IF Kind[r] = "create" THEN None
                        ELSE IF c[2] = "snapshot" THEN current[r].snapshot ELSE current[r].state

FiniteHistories == \A e \in Creates : IsFiniteSet(History(e))

LedgerInv ==
    /\ TypeInv
    /\ \A r \in Requests : Inserted(r)
    /\ Numbered
    /\ \A r \in Requests : Writing(r) => Ahead(r) /\ Superseding(r)
    /\ FiniteHistories
    /\ RowIsItsHistory /\ HistoryIsAChain

LEMMA InitLedger == Init => LedgerInv
<1> SUFFICES ASSUME Init PROVE LedgerInv
  OBVIOUS
<1>1. TypeInv
  BY InitTypes
<1>2. \A e \in Creates : History(e) = {}
  BY DEF Init, History
<1>3. (\A r \in Requests : Inserted(r)) /\ Numbered
  BY ClaimsOf DEF Init, Inserted, Numbered
<1>4. FiniteHistories /\ RowIsItsHistory /\ HistoryIsAChain
  BY <1>2, FS_EmptySet DEF Init, FiniteHistories, RowIsItsHistory, HistoryIsAChain
<1> QED BY <1>1, <1>3, <1>4 DEF LedgerInv, Init, Writing

\* What an open transaction does to its own rows is not seen.
Unseen(r) ==
    /\ r \notin committed /\ committed' = committed /\ row' = row
    /\ \A q \in Requests \ {r} : event'[q] = event[q]
    /\ \A c \in Claims : c[1] # r => seq'[c] = seq[c] /\ supersedes'[c] = supersedes[c]

LEMMA HistoryKept ==
  ASSUME TypeInv, NEW r \in Requests, Unseen(r), NEW e
  PROVE  /\ History(e)' = History(e)
         /\ \A c \in History(e) : seq'[c] = seq[c] /\ supersedes'[c] = supersedes[c] /\ c[1] # r
<1>1. \A c \in Claims : c[1] \in Requests
  BY DEF Claims
<1>2. \A c \in Claims : c \in History(e)' <=> c \in History(e)
  BY <1>1 DEF Unseen, History
<1>3. \A c \in History(e) : c \in Claims /\ c[1] # r
  BY DEF Unseen, History
<1>4. History(e)' = History(e)
  BY <1>2 DEF History
<1> QED BY <1>3, <1>4 DEF Unseen

LEMMA UnseenKeeps ==
  ASSUME LedgerInv, NEW r \in Requests, Unseen(r)
  PROVE  FiniteHistories' /\ RowIsItsHistory' /\ HistoryIsAChain'
<1>0. TypeInv
  BY DEF LedgerInv
<1>1. \A e : History(e)' = History(e)
  BY <1>0, HistoryKept
<1>2. \A e : \A c \in History(e) : seq'[c] = seq[c] /\ supersedes'[c] = supersedes[c]
  BY <1>0, HistoryKept
<1>3. FiniteHistories'
  BY <1>1 DEF LedgerInv, FiniteHistories
<1>4. \A e, type : OfType(e, type)' = OfType(e, type)
  BY <1>1 DEF OfType
<1>5. ASSUME NEW e, NEW c, NEW type, IsLast(c, OfType(e, type))
      PROVE  c \in OfType(e, type)' /\ \A d \in OfType(e, type)' : seq'[d] <= seq'[c]
  <2>1. \A x \in OfType(e, type) : seq'[x] = seq[x]
    BY <1>2 DEF OfType
  <2> QED BY <1>4, <1>5, <2>1 DEF IsLast
<1>6. RowIsItsHistory'
  <2> SUFFICES ASSUME NEW e \in Creates, row'[e] # None
               PROVE  /\ IsLast(row[e].snapshot, OfType(e, "snapshot"))'
                      /\ row'[e].text = row'[e].snapshot[1]
                      /\ IsLast(row[e].state, OfType(e, "status"))'
                      /\ row'[e].status = StatusOf(row'[e].state[1])
                      /\ row'[e].revisions = Cardinality(History(e)')
    BY DEF RowIsItsHistory, StatusOf
  <2>1. row' = row /\ row[e] # None
    BY DEF Unseen
  <2>2. /\ IsLast(row[e].snapshot, OfType(e, "snapshot"))
        /\ row[e].text = row[e].snapshot[1]
        /\ IsLast(row[e].state, OfType(e, "status"))
        /\ row[e].status = StatusOf(row[e].state[1])
        /\ row[e].revisions = Cardinality(History(e))
    BY <2>1 DEF LedgerInv, RowIsItsHistory
  <2>3. IsLast(row[e].snapshot, OfType(e, "snapshot"))' /\ IsLast(row[e].state, OfType(e, "status"))'
    BY <1>5, <2>1, <2>2 DEF IsLast
  <2> QED BY <1>1, <2>1, <2>2, <2>3
<1>7. HistoryIsAChain'
  <2> SUFFICES ASSUME NEW e \in Creates, NEW c \in History(e)
               PROVE  (IF Earlier(e, c) = {} THEN supersedes[c] = None
                                             ELSE IsLast(supersedes[c], Earlier(e, c)))'
    BY <1>1 DEF HistoryIsAChain
  <2>1. Earlier(e, c)' = Earlier(e, c)
    BY <1>1, <1>2 DEF Earlier
  <2>2. \A x \in Earlier(e, c) : seq'[x] = seq[x]
    BY <1>2 DEF Earlier
  <2>3. supersedes'[c] = supersedes[c]
    BY <1>2
  <2> QED BY <2>1, <2>2, <2>3 DEF LedgerInv, HistoryIsAChain, IsLast
<1> QED BY <1>3, <1>6, <1>7

\* The transactions of others stay as they are.
LEMMA UnseenByOthers ==
  ASSUME LedgerInv, NEW r \in Requests, Unseen(r), NEW q \in Requests \ {r},
         pc'[q] = pc[q], current'[q] = current[q], event'[q] = event[q]
  PROVE  Inserted(q)' /\ (Writing(q)' => Ahead(q)' /\ Superseding(q)')
<1>0. TypeInv /\ Inserted(q) /\ (Writing(q) => Ahead(q) /\ Superseding(q))
  BY DEF LedgerInv
<1>1. \A type \in Types : <<q, type>> \in Claims /\ seq'[<<q, type>>] = seq[<<q, type>>]
  BY DEF Unseen, Claims
<1>2. Inserted(q)'
  BY <1>0, <1>1 DEF Inserted, Unseen, Types
<1>3. Pending(q)' = Pending(q) /\ \A c \in Pending(q) : seq'[c] = seq[c] /\ supersedes'[c] = supersedes[c]
  BY DEF Pending, Unseen
<1>4. PICK e : e = event[q] /\ e = event'[q]
  OBVIOUS
<1>5. Writing(q)' => Ahead(q)'
  <2> SUFFICES ASSUME Writing(q)', NEW c \in Pending(q)', NEW d \in History(event[q])'
               PROVE  seq'[d] < seq'[c]
    BY DEF Ahead
  <2>1. d \in History(e)'
    BY <1>4 DEF History
  <2>2. d \in History(e) /\ seq'[d] = seq[d]
    BY <1>0, <2>1, HistoryKept
  <2>3. d \in History(event[q]) /\ Writing(q) /\ c \in Pending(q)
    BY <1>3, <1>4, <2>2 DEF Writing
  <2> QED BY <1>0, <1>3, <2>2, <2>3 DEF Ahead
<1>6. Writing(q)' => Superseding(q)'
  BY <1>0, <1>3 DEF Superseding, Writing
<1> QED BY <1>2, <1>5, <1>6

LEMMA InsertKeepsLedger ==
  ASSUME LedgerInv, NEW r \in Requests, InsertSnapshotClaim(r) \/ InsertStatusClaim(r)
  PROVE  LedgerInv'
<1>0. /\ TypeInv /\ Placed(r) /\ Inserted(r) /\ Numbered
      /\ Writing(r) /\ Ahead(r) /\ Superseding(r) /\ r \notin committed
  BY DEF LedgerInv, TypeInv, Placed, Writing, InsertSnapshotClaim, InsertStatusClaim
<1>1. TypeInv'
  BY <1>0, InsertTyped
<1>2. PICK type \in Types :
        /\ type = (IF pc[r] = "snapshot" THEN "snapshot" ELSE "status")
        /\ seq' = [seq EXCEPT ![<<r, type>>] = next] /\ next' = next + 1
        /\ supersedes' = [supersedes EXCEPT ![<<r, type>>] =
                             IF Kind[r] = "create" THEN None
                             ELSE IF type = "snapshot" THEN current[r].snapshot
                                                       ELSE current[r].state]
  BY DEF InsertSnapshotClaim, InsertStatusClaim, Insert, Types
<1>3. <<r, type>> \in Claims /\ next \in Nat \ {0} /\ seq \in [Claims -> Nat]
      /\ supersedes \in [Claims -> Claims \cup {None}]
  BY <1>0 DEF TypeInv, TypeOK, Claims
<1>4. Unseen(r)
  <2>1. \A c \in Claims : c[1] # r => c # <<r, type>>
    OBVIOUS
  <2> QED BY <1>0, <1>2, <1>3, <2>1 DEF Unseen, InsertSnapshotClaim, InsertStatusClaim
<1>5. FiniteHistories' /\ RowIsItsHistory' /\ HistoryIsAChain'
  BY <1>4, UnseenKeeps
<1>6. Numbered'
  <2>1. \A c \in Claims : seq'[c] = IF c = <<r, type>> THEN next ELSE seq[c]
    BY <1>2, <1>3
  <2> QED BY <1>0, <1>2, <1>3, <2>1 DEF Numbered
<1>7. ASSUME NEW q \in Requests
      PROVE  Inserted(q)' /\ (Writing(q)' => Ahead(q)' /\ Superseding(q)')
  <2>1. CASE q # r
    <3>1. pc'[q] = pc[q] /\ current'[q] = current[q] /\ event'[q] = event[q]
      BY <1>0, <2>1 DEF TypeInv, TypeOK, InsertSnapshotClaim, InsertStatusClaim, Goto
    <3> QED BY <1>4, <2>1, <3>1, UnseenByOthers
  <2>2. CASE q = r
    <3>1. Inserted(r)'
      <4>1. Kind[r] \in {"create", "edit", "state"} /\ pc \in [Requests -> Steps]
        BY <1>0, EventAssumption DEF TypeInv, TypeOK
      <4>2. CASE InsertSnapshotClaim(r)
        <5>1. type = "snapshot" /\ seq'[<<r, "snapshot">>] # 0 /\ seq'[<<r, "status">>] = seq[<<r, "status">>]
          BY <1>2, <1>3, <4>2, ClaimsOf DEF InsertSnapshotClaim
        <5> QED BY <1>0, <4>1, <4>2, <5>1 DEF Inserted, Placed, InsertSnapshotClaim, Goto
      <4>3. CASE InsertStatusClaim(r)
        <5>1. type = "status" /\ seq'[<<r, "status">>] # 0 /\ seq'[<<r, "snapshot">>] = seq[<<r, "snapshot">>]
          BY <1>2, <1>3, <4>3, ClaimsOf DEF InsertStatusClaim
        <5> QED BY <1>0, <4>1, <4>3, <5>1 DEF Inserted, Placed, InsertStatusClaim, Goto
      <4> QED BY <4>2, <4>3
    <3>2. PICK e : e = event[r] /\ e = event'[r]
      BY DEF InsertSnapshotClaim, InsertStatusClaim
    <3>3. Ahead(r)'
      <4> SUFFICES ASSUME NEW c \in Pending(r)', NEW d \in History(event[r])'
                   PROVE  seq'[d] < seq'[c]
        BY DEF Ahead
      <4>1. d \in History(e) /\ seq'[d] = seq[d] /\ d \in Claims
        <5>1. d \in History(e)'
          BY <3>2 DEF History
        <5> QED BY <1>0, <1>4, <5>1, HistoryKept DEF History
      <4>2. c \in Claims /\ c[1] = r /\ (c = <<r, type>> \/ c \in Pending(r))
        BY <1>2, <1>3 DEF Pending
      <4>3. CASE c = <<r, type>>
        BY <1>0, <1>2, <1>3, <4>1, <4>3 DEF Numbered
      <4>4. CASE c # <<r, type>>
        <5>1. seq'[c] = seq[c] /\ c \in Pending(r)
          BY <1>2, <1>3, <4>2, <4>4
        <5> QED BY <1>0, <3>2, <4>1, <5>1 DEF Ahead
      <4> QED BY <4>3, <4>4
    <3>4. Superseding(r)'
      <4> SUFFICES ASSUME NEW c \in Pending(r)'
                   PROVE  supersedes'[c] = IF Kind[r] = "create" THEN None
                          ELSE IF c[2] = "snapshot" THEN current'[r].snapshot ELSE current'[r].state
        BY DEF Superseding
      <4>1. c \in Claims /\ current' = current
        BY DEF Pending, InsertSnapshotClaim, InsertStatusClaim
      <4>2. CASE c = <<r, type>>
        BY <1>2, <1>3, <4>1, <4>2
      <4>3. CASE c # <<r, type>>
        <5>1. supersedes'[c] = supersedes[c] /\ c \in Pending(r)
          BY <1>2, <1>3, <4>1, <4>3 DEF Pending
        <5> QED BY <1>0, <4>1, <5>1 DEF Superseding
      <4> QED BY <4>2, <4>3
    <3> QED BY <2>2, <3>1, <3>3, <3>4
  <2> QED BY <2>1, <2>2
<1> QED BY <1>1, <1>5, <1>6, <1>7 DEF LedgerInv

\* The other steps that do not commit leave the claims in the table alone, or
\* take those of a transaction away.
LEMMA QuietKeepsLedger ==
  ASSUME LedgerInv, TypeInv', NEW r \in Requests, r \notin committed,
         committed' = committed, row' = row, next' = next, supersedes' = supersedes, seq' = seq,
         \A q \in Requests \ {r} : pc'[q] = pc[q] /\ current'[q] = current[q] /\ event'[q] = event[q],
         Pending(r) = {}, pc'[r] # "commit",
         pc'[r] = "status" => Kind[r] = "state"
  PROVE  LedgerInv'
<1>0. TypeInv /\ Numbered
  BY DEF LedgerInv
<1>1. Unseen(r)
  BY DEF Unseen
<1>2. FiniteHistories' /\ RowIsItsHistory' /\ HistoryIsAChain'
  BY <1>1, UnseenKeeps
<1>3. Numbered'
  BY <1>0 DEF Numbered
<1>4. ASSUME NEW q \in Requests
      PROVE  Inserted(q)' /\ (Writing(q)' => Ahead(q)' /\ Superseding(q)')
  <2>1. CASE q # r
    BY <1>1, <2>1, UnseenByOthers
  <2>2. CASE q = r
    <3>1. Pending(r)' = {}
      BY DEF Pending
    <3>2. seq[<<r, "snapshot">>] = 0 /\ seq[<<r, "status">>] = 0
      BY ClaimsOf DEF Pending
    <3> QED BY <2>2, <3>1, <3>2 DEF Inserted, Ahead, Superseding
  <2> QED BY <2>1, <2>2
<1> QED BY <1>2, <1>3, <1>4 DEF LedgerInv

LEMMA NothingPending ==
  ASSUME LedgerInv, NEW r \in Requests, r \notin committed, pc[r] # "commit",
         pc[r] = "status" => Kind[r] = "state"
  PROVE  Pending(r) = {}
<1>1. Inserted(r)
  BY DEF LedgerInv
<1>2. seq[<<r, "snapshot">>] = 0 /\ seq[<<r, "status">>] = 0
  BY <1>1 DEF Inserted
<1> QED BY <1>2, ClaimsOf DEF Pending

LEMMA BeforeClaims ==
  ASSUME LedgerInv, NEW r \in Requests,
         \/ Create(r) \/ TrySlug(r) \/ InsertObject(r) \/ Refuse(r) \/ Lock(r)
         \/ \E e \in Creates : Find(r, e)
  PROVE  LedgerInv'
<1>0. TypeInv /\ Placed(r) /\ pc \in [Requests -> Steps] /\ event \in [Requests -> Creates \cup {None}]
      /\ current \in [Requests -> Rows \cup {None}] /\ Kind[r] \in {"create", "edit", "state"}
  BY EventAssumption DEF LedgerInv, TypeInv, TypeOK
<1>1. TypeInv'
  BY <1>0, CreateTyped, TrySlugTyped, InsertObjectTyped, RefuseTyped, LockTyped, FindTyped
<1>2. r \notin committed /\ pc[r] \in {"idle", "slug", "object", "lock"}
  BY <1>0 DEF Placed, Create, TrySlug, InsertObject, Refuse, Lock, Find
<1>3. Pending(r) = {}
  BY <1>2, NothingPending
<1>4. /\ committed' = committed /\ row' = row /\ next' = next
      /\ supersedes' = supersedes /\ seq' = seq
  BY DEF Create, TrySlug, InsertObject, Refuse, Lock, Find
<1>5. \A q \in Requests \ {r} : pc'[q] = pc[q] /\ current'[q] = current[q] /\ event'[q] = event[q]
  BY <1>0 DEF Create, TrySlug, InsertObject, Refuse, Lock, Find, Goto
<1>6. pc'[r] # "commit" /\ (pc'[r] = "status" => Kind[r] = "state")
  BY <1>0, <1>2 DEF Create, TrySlug, InsertObject, Refuse, Lock, Find, Goto, Placed
<1> QED BY <1>1, <1>2, <1>3, <1>4, <1>5, <1>6, QuietKeepsLedger

LEMMA FailKeepsLedger ==
  ASSUME LedgerInv, NEW r \in Requests, Fail(r) PROVE LedgerInv'
<1>0. /\ TypeInv /\ Numbered /\ r \notin committed /\ pc \in [Requests -> Steps]
      /\ seq \in [Claims -> Nat] /\ next \in Nat
  BY DEF LedgerInv, TypeInv, TypeOK, Placed, Fail
<1>1. TypeInv'
  BY <1>0, FailTyped
<1>2. Unseen(r)
  BY <1>0 DEF Unseen, Fail
<1>3. FiniteHistories' /\ RowIsItsHistory' /\ HistoryIsAChain'
  BY <1>2, UnseenKeeps
<1>4. Numbered'
  BY <1>0 DEF Numbered, Fail, TypeInv, TypeOK
<1>5. ASSUME NEW q \in Requests
      PROVE  Inserted(q)' /\ (Writing(q)' => Ahead(q)' /\ Superseding(q)')
  <2>1. CASE q # r
    BY <1>0, <1>2, <2>1, UnseenByOthers DEF Fail, Goto
  <2>2. CASE q = r
    <3>1. pc'[r] = "done" /\ r \notin committed'
      BY <1>0 DEF Fail, Goto
    <3>2. seq'[<<r, "snapshot">>] = 0 /\ seq'[<<r, "status">>] = 0
      BY ClaimsOf DEF Fail
    <3> QED BY <2>2, <3>1, <3>2 DEF Inserted, Writing
  <2> QED BY <2>1, <2>2
<1> QED BY <1>1, <1>3, <1>4, <1>5 DEF LedgerInv

-----------------------------------------------------------------------------
\* What a transaction that commits adds to the history of its event.
LEMMA CommitShows ==
  ASSUME LedgerInv, NEW r \in Requests, Commit(r)
  PROVE  /\ Pending(r) = IF Kind[r] = "create" THEN {<<r, "snapshot">>, <<r, "status">>}
                         ELSE IF Kind[r] = "edit" THEN {<<r, "snapshot">>} ELSE {<<r, "status">>}
         /\ Pending(r) \cap History(event[r]) = {}
         /\ Kind[r] = "create" => History(event[r]) = {}
         /\ \A e : History(e)' = IF e = event[r] THEN History(e) \cup Pending(r) ELSE History(e)
<1>0. TypeInv /\ Inserted(r) /\ pc[r] = "commit" /\ r \notin committed
      /\ Kind[r] \in {"create", "edit", "state"}
  BY CommitsOnEvent, EventAssumption DEF LedgerInv, Commit
<1>1. /\ seq[<<r, "snapshot">>] # 0 <=> Kind[r] # "state"
      /\ seq[<<r, "status">>] # 0 <=> Kind[r] # "edit"
  BY <1>0 DEF Inserted
<1>2. Pending(r) = IF Kind[r] = "create" THEN {<<r, "snapshot">>, <<r, "status">>}
                   ELSE IF Kind[r] = "edit" THEN {<<r, "snapshot">>} ELSE {<<r, "status">>}
  <2>1. \A c : c \in Pending(r) <=>
               \/ c = <<r, "snapshot">> /\ Kind[r] # "state"
               \/ c = <<r, "status">> /\ Kind[r] # "edit"
    BY <1>1, ClaimsOf DEF Pending
  <2> QED BY <1>0, <2>1
<1>3. Pending(r) \cap History(event[r]) = {}
  BY <1>0 DEF Pending, History
<1>4. ASSUME Kind[r] = "create" PROVE History(event[r]) = {}
  <2> SUFFICES ASSUME NEW c \in History(event[r]) PROVE FALSE
    OBVIOUS
  <2>1. c[1] \in Requests /\ c[1] \in committed /\ event[c[1]] = r
    BY <1>0, <1>4, CommitsOnEvent DEF History, Claims
  <2>2. Placed(c[1])
    BY <1>0, <2>1 DEF TypeInv
  <2> QED BY <1>0, <2>1, <2>2 DEF Placed
<1>5. ASSUME NEW e
      PROVE  History(e)' = IF e = event[r] THEN History(e) \cup Pending(r) ELSE History(e)
  <2>1. seq' = seq /\ event' = event /\ committed' = committed \cup {r}
    BY DEF Commit
  <2>2. \A c : c \in History(e)' <=>
               \/ c \in History(e)
               \/ c \in Pending(r) /\ e = event[r]
    BY <2>1 DEF History, Pending
  <2> QED BY <2>2
<1> QED BY <1>2, <1>3, <1>4, <1>5

LEMMA CommitKeepsRows ==
  ASSUME LedgerInv, NEW r \in Requests, Commit(r)
  PROVE  RowIsItsHistory'
<1>0. /\ TypeInv /\ RowIsItsHistory /\ FiniteHistories
      /\ seq \in [Claims -> Nat] /\ row \in [Creates -> Rows \cup {None}]
      /\ seq' = seq /\ row' = [row EXCEPT ![event[r]] = NewRow(r)]
      /\ event[r] \in Creates /\ Ahead(r) /\ Kind[r] \in {"create", "edit", "state"}
  BY CommitsOnEvent, EventAssumption DEF LedgerInv, TypeInv, TypeOK, Commit
<1> SUFFICES ASSUME NEW e \in Creates, row'[e] # None
             PROVE  /\ IsLast(row[e].snapshot, OfType(e, "snapshot"))'
                    /\ row'[e].text = row'[e].snapshot[1]
                    /\ IsLast(row[e].state, OfType(e, "status"))'
                    /\ row'[e].status = StatusOf(row'[e].state[1])
                    /\ row'[e].revisions = Cardinality(History(e)')
  BY DEF RowIsItsHistory, StatusOf
<1>1. CASE e # event[r]
  <2>1. row'[e] = row[e] /\ History(e)' = History(e)
    BY <1>0, <1>1, CommitShows
  <2>2. \A type : OfType(e, type)' = OfType(e, type)
    BY <2>1 DEF OfType
  <2> QED BY <1>0, <2>1, <2>2 DEF RowIsItsHistory, IsLast
<1>2. CASE e = event[r]
  <2>0. row'[e] = NewRow(r) /\ History(e)' = History(e) \cup Pending(r)
    BY <1>0, <1>2, CommitShows
  <2>a. \A c \in Pending(r), d \in History(e) : c \in Claims /\ d \in Claims /\ seq[d] < seq[c]
    BY <1>0, <1>2 DEF Ahead, Pending, History
  <2>1. CASE Kind[r] = "create"
    <3>1. History(e)' = {<<r, "snapshot">>, <<r, "status">>}
      BY <1>2, <2>0, <2>1, CommitShows
    <3>2. OfType(e, "snapshot")' = {<<r, "snapshot">>} /\ OfType(e, "status")' = {<<r, "status">>}
      BY <3>1 DEF OfType
    <3>3. Cardinality(History(e)') = 2
      <4>1. Cardinality({<<r, "snapshot">>}) = 1 /\ IsFiniteSet({<<r, "snapshot">>})
        BY FS_Singleton
      <4>2. History(e)' = {<<r, "snapshot">>} \cup {<<r, "status">>}
            /\ <<r, "status">> \notin {<<r, "snapshot">>}
        BY <3>1
      <4>3. Cardinality({<<r, "snapshot">>} \cup {<<r, "status">>}) = 1 + 1
        BY <4>1, <4>2, FS_AddElement
      <4> QED BY <4>2, <4>3
    <3>4. row'[e] = CreatedRow(r) /\ StatusOf(r) = "draft"
      BY <2>0, <2>1 DEF NewRow, StatusOf
    <3>5. \A c \in {<<r, "snapshot">>, <<r, "status">>} : seq'[c] <= seq'[c]
      <4>1. seq[<<r, "snapshot">>] \in Nat /\ seq[<<r, "status">>] \in Nat
        BY <1>0, ClaimsOf
      <4> QED BY <1>0, <4>1
    <3>6. /\ row'[e].snapshot = <<r, "snapshot">> /\ row'[e].state = <<r, "status">>
          /\ row'[e].text = r /\ row'[e].status = "draft" /\ row'[e].revisions = 2
      BY <3>4 DEF CreatedRow
    <3>7. IsLast(row[e].snapshot, OfType(e, "snapshot"))' /\ IsLast(row[e].state, OfType(e, "status"))'
      BY <3>2, <3>5, <3>6 DEF IsLast
    <3> QED BY <3>3, <3>4, <3>6, <3>7 DEF StatusOf
  <2>2. CASE Kind[r] # "create"
    <3>1. /\ current[r] = row[e] /\ row[e] # None /\ row[e] \in Rows
          /\ row[e].revisions \in Nat
      BY <1>0, <1>2, <2>2, CommitsOnEvent, EventAssumption DEF Rows
    <3>2. /\ IsLast(row[e].snapshot, OfType(e, "snapshot"))
          /\ row[e].text = row[e].snapshot[1]
          /\ IsLast(row[e].state, OfType(e, "status"))
          /\ row[e].status = StatusOf(row[e].state[1])
          /\ row[e].revisions = Cardinality(History(e))
      BY <1>0, <3>1 DEF RowIsItsHistory
    <3>3. ASSUME NEW c, Pending(r) = {c}, c[2] \in Types
          PROVE  /\ Cardinality(History(e)') = Cardinality(History(e)) + 1
                 /\ IsLast(c, OfType(e, c[2]))'
                 /\ \A type : type # c[2] => OfType(e, type)' = OfType(e, type)
      <4>1. c \notin History(e) /\ IsFiniteSet(History(e)) /\ History(e)' = History(e) \cup {c}
        BY <1>0, <1>2, <2>0, <3>3, CommitShows DEF FiniteHistories
      <4>2. Cardinality(History(e)') = Cardinality(History(e)) + 1
        BY <4>1, FS_AddElement
      <4>3. c \in OfType(e, c[2])' /\ \A d \in OfType(e, c[2])' : d = c \/ d \in History(e)
        BY <4>1 DEF OfType
      <4>4. \A d \in OfType(e, c[2])' : seq[d] <= seq[c]
        <5>1. c \in Claims
          BY <3>3 DEF Pending
        <5>2. \A d \in History(e) : d \in Claims /\ seq[d] < seq[c]
          BY <2>a, <3>3
        <5> QED BY <1>0, <4>3, <5>1, <5>2
      <4>5. \A type : type # c[2] => OfType(e, type)' = OfType(e, type)
        BY <4>1 DEF OfType
      <4> QED BY <1>0, <4>2, <4>3, <4>4, <4>5 DEF IsLast
    <3>4. CASE Kind[r] = "edit"
      <4>1. Pending(r) = {<<r, "snapshot">>}
        BY <3>4, CommitShows
      <4>2. /\ row'[e].snapshot = <<r, "snapshot">> /\ row'[e].state = row[e].state
            /\ row'[e].text = r /\ row'[e].status = row[e].status
            /\ row'[e].revisions = row[e].revisions + 1
        BY <2>0, <3>1, <3>4 DEF NewRow, EditedRow
      <4>3. /\ Cardinality(History(e)') = Cardinality(History(e)) + 1
            /\ IsLast(<<r, "snapshot">>, OfType(e, "snapshot"))'
            /\ OfType(e, "status")' = OfType(e, "status")
        BY <3>3, <4>1 DEF Types
      <4>4. IsLast(row[e].snapshot, OfType(e, "snapshot"))' /\ IsLast(row[e].state, OfType(e, "status"))'
        BY <1>0, <3>2, <4>2, <4>3 DEF IsLast
      <4> QED BY <3>2, <4>2, <4>3, <4>4
    <3>5. CASE Kind[r] = "state"
      <4>1. Pending(r) = {<<r, "status">>}
        BY <3>5, CommitShows
      <4>2. /\ row'[e].state = <<r, "status">> /\ row'[e].snapshot = row[e].snapshot
            /\ row'[e].text = row[e].text /\ row'[e].status = Target[r]
            /\ row'[e].revisions = row[e].revisions + 1
        BY <2>0, <3>1, <3>5 DEF NewRow, MovedRow
      <4>3. /\ Cardinality(History(e)') = Cardinality(History(e)) + 1
            /\ IsLast(<<r, "status">>, OfType(e, "status"))'
            /\ OfType(e, "snapshot")' = OfType(e, "snapshot")
        BY <3>3, <4>1 DEF Types
      <4>4. IsLast(row[e].snapshot, OfType(e, "snapshot"))' /\ IsLast(row[e].state, OfType(e, "status"))'
        BY <1>0, <3>2, <4>2, <4>3 DEF IsLast
      <4>5. StatusOf(r) = Target[r]
        BY <3>5 DEF StatusOf
      <4> QED BY <3>2, <4>2, <4>3, <4>4, <4>5
    <3> QED BY <1>0, <2>2, <3>4, <3>5
  <2> QED BY <2>1, <2>2
<1> QED BY <1>1, <1>2

LEMMA CommitKeepsChains ==
  ASSUME LedgerInv, NEW r \in Requests, Commit(r)
  PROVE  HistoryIsAChain'
<1>0. /\ TypeInv /\ RowIsItsHistory /\ HistoryIsAChain /\ seq \in [Claims -> Nat]
      /\ seq' = seq /\ supersedes' = supersedes
      /\ event[r] \in Creates /\ Ahead(r) /\ Superseding(r) /\ Kind[r] \in {"create", "edit", "state"}
  BY CommitsOnEvent, EventAssumption DEF LedgerInv, TypeInv, TypeOK, Commit
<1> SUFFICES ASSUME NEW e \in Creates, NEW c \in History(e)'
             PROVE  (IF Earlier(e, c) = {} THEN supersedes[c] = None
                                           ELSE IsLast(supersedes[c], Earlier(e, c)))'
  BY DEF HistoryIsAChain
<1>1. CASE c \in History(e)
  <2>1. \A d \in History(e)' : d \in History(e) \/ seq[c] < seq[d]
    BY <1>0, <1>1, CommitShows DEF Ahead
  <2>2. \A d \in History(e)' : d \in Claims
    BY DEF History
  <2>3. History(e) \subseteq History(e)' /\ c \in Claims
    BY <1>1, CommitShows DEF History
  <2>4. Earlier(e, c)' = Earlier(e, c)
    <3>1. \A d : d \in Earlier(e, c)' <=> d \in Earlier(e, c)
      BY <1>0, <2>1, <2>2, <2>3 DEF Earlier
    <3> QED BY <3>1 DEF Earlier
  <2> QED BY <1>0, <1>1, <2>4 DEF HistoryIsAChain, IsLast
<1>2. CASE c \notin History(e)
  <2>1. e = event[r] /\ c \in Pending(r) /\ c \in Claims
    BY <1>2, CommitShows DEF Pending
  <2>2. History(e)' = History(e) \cup Pending(r)
    BY <2>1, CommitShows
  <2>3. CASE Kind[r] = "create"
    <3>1. \A d \in History(e)' : d[2] = c[2] => d = c
      BY <2>1, <2>2, <2>3, CommitShows
    <3>2. Earlier(e, c)' = {}
      BY <1>0, <2>1, <3>1 DEF Earlier
    <3> QED BY <1>0, <2>1, <2>3, <3>2 DEF Superseding
  <2>4. CASE Kind[r] # "create"
    <3>1. History(e)' = History(e) \cup {c} /\ c[2] \in Types
      BY <1>0, <2>1, <2>2, <2>4, CommitShows DEF Types
    <3>2. \A d \in History(e) : seq[d] < seq[c]
      BY <1>0, <2>1 DEF Ahead
    <3>3. Earlier(e, c)' = OfType(e, c[2])
      <4>1. \A d : d \in Earlier(e, c)' <=> d \in OfType(e, c[2])
        BY <1>0, <2>1, <3>1, <3>2 DEF Earlier, OfType
      <4> QED BY <4>1 DEF Earlier, OfType
    <3>4. current[r] = row[e] /\ row[e] # None
      BY <1>0, <2>1, <2>4, CommitsOnEvent, EventAssumption
    <3>5. supersedes[c] = IF c[2] = "snapshot" THEN row[e].snapshot ELSE row[e].state
      BY <1>0, <2>1, <2>4, <3>4 DEF Superseding
    <3>6. IsLast(supersedes[c], OfType(e, c[2]))
      BY <1>0, <3>1, <3>4, <3>5 DEF RowIsItsHistory, Types
    <3> QED BY <1>0, <3>3, <3>6 DEF IsLast
  <2> QED BY <2>3, <2>4
<1> QED BY <1>1, <1>2

LEMMA CommitKeepsLedger ==
  ASSUME LedgerInv, NEW r \in Requests, Commit(r) PROVE LedgerInv'
<1>0. /\ TypeInv /\ Numbered /\ FiniteHistories /\ pc \in [Requests -> Steps]
      /\ seq' = seq /\ next' = next /\ supersedes' = supersedes /\ event' = event
      /\ current' = current /\ committed' = committed \cup {r} /\ Writing(r)
      /\ pc' = [pc EXCEPT ![r] = "done"]
  BY CommitsOnEvent DEF LedgerInv, TypeInv, TypeOK, Commit, Goto
<1>1. TypeInv' /\ RowIsItsHistory' /\ HistoryIsAChain'
  BY <1>0, CommitTyped, CommitKeepsRows, CommitKeepsChains
<1>2. Numbered'
  BY <1>0 DEF Numbered
<1>3. FiniteHistories'
  <2> SUFFICES ASSUME NEW e \in Creates PROVE IsFiniteSet(History(e)')
    BY DEF FiniteHistories
  <2>1. IsFiniteSet(Pending(r))
    <3>1. IsFiniteSet({<<r, "snapshot">>}) /\ IsFiniteSet({<<r, "status">>})
      BY FS_Singleton
    <3>2. IsFiniteSet({<<r, "snapshot">>} \cup {<<r, "status">>})
      BY <3>1, FS_Union
    <3>3. {<<r, "snapshot">>} \cup {<<r, "status">>} = {<<r, "snapshot">>, <<r, "status">>}
      OBVIOUS
    <3> QED BY <3>1, <3>2, <3>3, CommitShows
  <2>2. IsFiniteSet(History(e) \cup Pending(r))
    BY <1>0, <2>1, FS_Union DEF FiniteHistories
  <2> QED BY <1>0, <2>2, CommitShows DEF FiniteHistories
<1>4. ASSUME NEW q \in Requests
      PROVE  Inserted(q)' /\ (Writing(q)' => Ahead(q)' /\ Superseding(q)')
  <2>1. CASE q # r
    <3>1. pc'[q] = pc[q] /\ (q \in committed' <=> q \in committed)
      BY <1>0, <2>1
    <3>2. Inserted(q) /\ (Writing(q) => Ahead(q) /\ Superseding(q))
      BY DEF LedgerInv
    <3>3. Inserted(q)'
      BY <1>0, <3>1, <3>2 DEF Inserted
    <3>4. Pending(q)' = Pending(q)
      BY <1>0 DEF Pending
    <3>5. ASSUME Writing(q)' PROVE Ahead(q)'
      <4>1. PICK e : e = event[q] /\ e = event'[q]
        BY <1>0
      <4>2. Writing(q) /\ e # event[r]
        BY <1>0, <2>1, <3>1, <3>5, <4>1 DEF TypeInv, Exclusive, Writing
      <4>3. History(e)' = History(e)
        BY <4>2, CommitShows
      <4> SUFFICES ASSUME NEW c \in Pending(q)', NEW d \in History(event[q])'
                   PROVE  seq'[d] < seq'[c]
        BY DEF Ahead
      <4>4. d \in History(e)'
        BY <4>1 DEF History
      <4> QED BY <1>0, <3>2, <3>4, <4>1, <4>2, <4>3, <4>4 DEF Ahead
    <3>6. Writing(q)' => Superseding(q)'
      BY <1>0, <3>1, <3>2, <3>4 DEF Superseding, Writing
    <3> QED BY <3>3, <3>5, <3>6
  <2>2. CASE q = r
    <3>1. pc'[r] = "done" /\ pc[r] = "commit" /\ r \in committed' /\ Inserted(r)
      BY <1>0 DEF LedgerInv, Commit
    <3>2. Kind[r] \in {"create", "edit", "state"}
      BY EventAssumption
    <3> QED BY <1>0, <2>2, <3>1, <3>2 DEF Inserted, Writing
  <2> QED BY <2>1, <2>2
<1> QED BY <1>1, <1>2, <1>3, <1>4 DEF LedgerInv

-----------------------------------------------------------------------------
LEMMA StutterKeepsLedger == LedgerInv /\ UNCHANGED vars => LedgerInv'
<1> SUFFICES ASSUME LedgerInv, UNCHANGED vars PROVE LedgerInv'
  OBVIOUS
<1>0. TypeInv'
  BY StepTyped DEF LedgerInv, Next, vars
<1>1. \A e : History(e)' = History(e)
  BY DEF History, vars
<1>2. \A e, type : OfType(e, type)' = OfType(e, type)
  BY <1>1 DEF OfType
<1>3. \A e, c : Earlier(e, c)' = Earlier(e, c)
  BY <1>1 DEF Earlier, vars
<1>4. \A q \in Requests : Inserted(q)' /\ (Writing(q)' => Ahead(q)' /\ Superseding(q)')
  <2> SUFFICES ASSUME NEW q \in Requests
               PROVE  Inserted(q)' /\ (Writing(q)' => Ahead(q)' /\ Superseding(q)')
    OBVIOUS
  <2>1. Pending(q)' = Pending(q) /\ History(event[q])' = History(event[q])
    BY DEF Pending, History, vars
  <2> QED BY <2>1 DEF LedgerInv, Inserted, Ahead, Superseding, Writing, vars
<1>5. RowIsItsHistory' /\ HistoryIsAChain'
  BY <1>1, <1>2, <1>3 DEF LedgerInv, RowIsItsHistory, HistoryIsAChain, IsLast, StatusOf, vars
<1> QED BY <1>0, <1>1, <1>4, <1>5 DEF LedgerInv, Numbered, FiniteHistories, vars

LEMMA LedgerStep == LedgerInv /\ [Next]_vars => LedgerInv'
<1> SUFFICES ASSUME LedgerInv, [Next]_vars PROVE LedgerInv'
  OBVIOUS
<1>1. CASE UNCHANGED vars
  BY <1>1, StutterKeepsLedger
<1>2. ASSUME NEW r \in Requests, Step(r) PROVE LedgerInv'
  <2>1. CASE \/ Create(r) \/ TrySlug(r) \/ InsertObject(r) \/ Refuse(r) \/ Lock(r)
             \/ \E e \in Creates : Find(r, e)
    BY <2>1, BeforeClaims
  <2>2. CASE InsertSnapshotClaim(r) \/ InsertStatusClaim(r)
    BY <2>2, InsertKeepsLedger
  <2>3. CASE Commit(r)
    BY <2>3, CommitKeepsLedger
  <2>4. CASE Fail(r)
    BY <2>4, FailKeepsLedger
  <2> QED BY <1>2, <2>1, <2>2, <2>3, <2>4 DEF Step
<1> QED BY <1>1, <1>2 DEF Next, Over

LEMMA LedgerAlways == Spec => []LedgerInv
<1> QED BY InitLedger, LedgerStep, PTL DEF Spec

(* RowIsItsHistory: the row that pages and later changes read says what    *)
(* the claims of the event say, whatever changes ran beside each other.    *)
THEOREM RowsAreHistories == Spec => []RowIsItsHistory
<1>1. LedgerInv => RowIsItsHistory
  BY DEF LedgerInv
<1> QED BY <1>1, LedgerAlways, PTL

(* HistoryIsAChain: a claim supersedes the one that the ledger page shows  *)
(* before it among those of its type.                                      *)
THEOREM HistoriesAreChains == Spec => []HistoryIsAChain
<1>1. LedgerInv => HistoryIsAChain
  BY DEF LedgerInv
<1> QED BY <1>1, LedgerAlways, PTL

LEMMA StepGrows ==
  ASSUME LedgerInv, [Next]_vars, NEW e \in Creates
  PROVE  /\ History(e) \subseteq History(e)'
         /\ \A c \in History(e), d \in History(e)' \ History(e) : seq'[c] < seq'[d]
<1>0. TypeInv
  BY DEF LedgerInv
<1>1. CASE UNCHANGED vars
  BY <1>1 DEF History, vars
<1>2. ASSUME NEW r \in Requests, Commit(r)
      PROVE  /\ History(e) \subseteq History(e)'
             /\ \A c \in History(e), d \in History(e)' \ History(e) : seq'[c] < seq'[d]
  <2>1. Ahead(r) /\ seq' = seq
    BY <1>0, <1>2, CommitsOnEvent DEF LedgerInv, Commit
  <2> QED BY <1>2, <2>1, CommitShows DEF Ahead
<1>3. ASSUME NEW r \in Requests, Step(r), ~Commit(r)
      PROVE  History(e)' = History(e)
  <2>1. r \notin committed
    BY <1>0, <1>3 DEF TypeInv, Placed, Step, Create, TrySlug, InsertObject, Find, Refuse, Lock,
       InsertSnapshotClaim, InsertStatusClaim, Fail
  <2>2. committed' = committed /\ row' = row
    BY <1>3 DEF Step, Create, TrySlug, InsertObject, Find, Refuse, Lock,
       InsertSnapshotClaim, InsertStatusClaim, Fail
  <2>3. \A q \in Requests \ {r} : event'[q] = event[q]
    BY <1>0, <1>3 DEF TypeInv, TypeOK, Step, Create, TrySlug, InsertObject, Find, Refuse, Lock,
       InsertSnapshotClaim, InsertStatusClaim, Fail
  <2>4. \A c \in Claims : c[1] # r => seq'[c] = seq[c] /\ supersedes'[c] = supersedes[c]
    <3>1. \A c \in Claims : c[1] # r => c # <<r, "snapshot">> /\ c # <<r, "status">>
      OBVIOUS
    <3> QED BY <1>0, <1>3, <3>1
            DEF TypeInv, TypeOK, Step, Create, TrySlug, InsertObject, Find, Refuse, Lock,
            InsertSnapshotClaim, InsertStatusClaim, Insert, Fail
  <2>5. Unseen(r)
    BY <2>1, <2>2, <2>3, <2>4 DEF Unseen
  <2> QED BY <1>0, <2>5, HistoryKept
<1> QED BY <1>1, <1>2, <1>3 DEF Next, Over

(* HistoryGrowsAtItsEnd: no step takes a claim out of what the ledger page *)
(* of an event lists, or puts one before or between those it has listed.   *)
THEOREM HistoriesGrow == Spec => HistoryGrowsAtItsEnd
<1>1. LedgerInv /\ [Next]_vars =>
          [\A e \in Creates :
               /\ History(e) \subseteq History(e)'
               /\ \A c \in History(e), d \in History(e)' \ History(e) : seq'[c] < seq'[d]]_vars
  BY StepGrows
<1> QED BY <1>1, LedgerAlways, PTL DEF Spec, HistoryGrowsAtItsEnd

-----------------------------------------------------------------------------
(* The transactions implement a book of events.                            *)

\* An object with its slug is in the table, committed or not.
HasObject(r) == Writing(r) \/ r \in committed

SlugsApart ==
    \A q, r \in Creates :
        q # r /\ HasObject(q) /\ HasObject(r) => Title[q] # Title[r] \/ slug[q] # slug[r]

LEMMA ObjectOrSame ==
  ASSUME TypeInv, NEW r \in Requests, Step(r), ~InsertObject(r), NEW q \in Creates
  PROVE  HasObject(q)' => HasObject(q) /\ slug'[q] = slug[q]
<1>1. q \in Requests /\ Kind[q] = "create" /\ Placed(q)
  BY DEF TypeInv, Creates
<1>2. CASE q # r
  BY <1>1, <1>2 DEF HasObject, Writing, TypeInv, TypeOK, Goto, Step, Create, TrySlug, Find, Refuse, Lock,
     InsertSnapshotClaim, InsertStatusClaim, Commit, Fail
<1>3. CASE q = r
  BY <1>1, <1>3 DEF HasObject, Writing, TypeInv, TypeOK, Placed, Goto, Step, Create, TrySlug, Find, Refuse,
     Lock, InsertSnapshotClaim, InsertStatusClaim, Commit, Fail
<1> QED BY <1>2, <1>3

LEMMA SlugsStep ==
  ASSUME TypeInv, SlugsApart, [Next]_vars
  PROVE  SlugsApart'
<1>1. CASE UNCHANGED vars
  BY <1>1 DEF SlugsApart, HasObject, Writing, vars
<1>2. ASSUME NEW r \in Requests, InsertObject(r) PROVE SlugsApart'
  <2>1. slug' = slug /\ committed' = committed /\ Kind[r] = "create"
    BY <1>2 DEF InsertObject, TypeInv, Placed
  <2>2. \A q \in Creates \ {r} : HasObject(q)' => HasObject(q)
    BY <1>2, <2>1 DEF InsertObject, HasObject, Writing, Goto, TypeInv, TypeOK, Creates
  <2>3. HasObject(r)' => \A q \in Creates \ {r} :
                             HasObject(q) => Title[q] # Title[r] \/ slug[q] # slug[r]
    <3>1. r \notin committed
      BY <1>2 DEF InsertObject, TypeInv, Placed
    <3>2. HasObject(r)' => ~Taken(Title[r], slug[r])
      BY <1>2, <2>1, <3>1 DEF InsertObject, HasObject, Writing, Goto, TypeInv, TypeOK
    <3> QED BY <1>2, <3>2 DEF InsertObject, HasObject, Taken
  <2> QED BY <2>1, <2>2, <2>3 DEF SlugsApart
<1>3. ASSUME NEW r \in Requests, Step(r), ~InsertObject(r) PROVE SlugsApart'
  BY <1>3, ObjectOrSame DEF SlugsApart
<1> QED BY <1>1, <1>2, <1>3 DEF Next, Over

LEMMA SlugsAlways == Spec => []SlugsApart
<1>1. Init => SlugsApart
  BY DEF Init, SlugsApart, HasObject, Writing, Creates
<1>2. LedgerInv => TypeInv
  BY DEF LedgerInv
<1> QED BY <1>1, <1>2, LedgerAlways, SlugsStep, PTL DEF Spec

\* The two claims of a create that is about to commit are in order.
InOrder ==
    \A r \in Creates : pc[r] = "commit" => seq[<<r, "snapshot">>] < seq[<<r, "status">>]

LEMMA OrderStep ==
  ASSUME LedgerInv, InOrder, [Next]_vars
  PROVE  InOrder'
<1>0. TypeInv /\ Numbered /\ seq \in [Claims -> Nat] /\ pc \in [Requests -> Steps]
  BY DEF LedgerInv, TypeInv, TypeOK
<1>1. CASE UNCHANGED vars
  BY <1>1 DEF InOrder, vars
<1>2. ASSUME NEW r \in Requests, Step(r), NEW q \in Creates, pc'[q] = "commit"
      PROVE  seq'[<<q, "snapshot">>] < seq'[<<q, "status">>]
  <2>0. q \in Requests /\ <<q, "snapshot">> \in Claims /\ <<q, "status">> \in Claims
        /\ <<r, "snapshot">> \in Claims /\ <<r, "status">> \in Claims /\ Kind[q] = "create"
    BY ClaimsOf DEF Creates
  <2>1. CASE q = r
    <3>1. InsertStatusClaim(r)
      BY <1>0, <1>2, <2>0, <2>1 DEF Goto, Step, Create, TrySlug, InsertObject, Find, Refuse, Lock,
         InsertSnapshotClaim, Commit, Fail
    <3>2. seq' = [seq EXCEPT ![<<r, "status">>] = next]
      BY <3>1 DEF InsertStatusClaim, Insert
    <3> QED BY <1>0, <2>0, <2>1, <3>2 DEF Numbered
  <2>2. CASE q # r
    <3>1. pc[q] = "commit"
      BY <1>0, <1>2, <2>0, <2>2 DEF Goto, Step, Create, TrySlug, InsertObject, Find, Refuse, Lock,
         InsertSnapshotClaim, InsertStatusClaim, Commit, Fail
    <3>2. \A type \in Types : seq'[<<q, type>>] = seq[<<q, type>>]
      BY <1>0, <1>2, <2>0, <2>2 DEF Types, Claims, Step, Create, TrySlug, InsertObject, Find, Refuse, Lock,
         InsertSnapshotClaim, InsertStatusClaim, Insert, Commit, Fail
    <3> QED BY <3>1, <3>2 DEF InOrder, Types
  <2> QED BY <2>1, <2>2
<1> QED BY <1>1, <1>2 DEF InOrder, Next, Over

LEMMA OrderAlways == Spec => []InOrder
<1>1. Init => InOrder
  BY DEF Init, InOrder, Creates
<1> QED BY <1>1, LedgerAlways, OrderStep, PTL DEF Spec

\* The mapped order of the claims of an event.
Order(e) == {p \in History(e) \X History(e) : seq[p[1]] < seq[p[2]]}

LEMMA InitBook == Init => Book!Init
<1> SUFFICES ASSUME Init PROVE Book!Init
  OBVIOUS
<1>1. \A e \in Creates : History(e) = {} /\ Order(e) = {} /\ Page(e) = None /\ e \notin committed
  BY DEF Init, History, Order, Page
<1> QED BY <1>1 DEF Book!Init, Book!Creates, Creates, Order, Init

\* A step of a transaction that stays open, or is given up, is none of the book.
LEMMA OpenStutters ==
  ASSUME LedgerInv, NEW r \in Requests, Step(r), ~Commit(r)
  PROVE  UNCHANGED Book!vars
<1>0. TypeInv
  BY DEF LedgerInv
<1>1. r \notin committed /\ committed' = committed /\ row' = row
  BY <1>0 DEF TypeInv, Placed, Step, Create, TrySlug, InsertObject, Find, Refuse, Lock,
     InsertSnapshotClaim, InsertStatusClaim, Fail
<1>2. /\ \A q \in Requests \ {r} : event'[q] = event[q] /\ slug'[q] = slug[q]
  BY <1>0 DEF TypeInv, TypeOK, Step, Create, TrySlug, InsertObject, Find, Refuse, Lock,
     InsertSnapshotClaim, InsertStatusClaim, Fail
<1>3. \A c \in Claims : c[1] # r => seq'[c] = seq[c] /\ supersedes'[c] = supersedes[c]
  <2>1. \A c \in Claims : c[1] # r => c # <<r, "snapshot">> /\ c # <<r, "status">>
    OBVIOUS
  <2> QED BY <1>0, <2>1
          DEF TypeInv, TypeOK, Step, Create, TrySlug, InsertObject, Find, Refuse, Lock,
          InsertSnapshotClaim, InsertStatusClaim, Insert, Fail
<1>4. Unseen(r)
  BY <1>1, <1>2, <1>3 DEF Unseen
<1>5. \A e : History(e)' = History(e) /\ \A c \in History(e) : seq'[c] = seq[c]
  BY <1>0, <1>4, HistoryKept
<1>6. \A e : Order(e)' = Order(e)
  BY <1>5 DEF Order
<1>7. \A e : Page(e)' = Page(e)
  BY <1>1 DEF Page
<1>8. \A e \in Creates : (IF e \in committed THEN slug[e] ELSE 0)' = IF e \in committed THEN slug[e] ELSE 0
  BY <1>1, <1>2 DEF Creates
<1> QED BY <1>1, <1>5, <1>6, <1>7, <1>8 DEF Book!vars, Order

\* What a commit does to the mapped variables.
LEMMA CommitMapped ==
  ASSUME LedgerInv, NEW r \in Requests, Commit(r), NEW e, e = event[r]
  PROVE  /\ r \notin committed /\ committed' = committed \cup {r}
         /\ e \in Creates
         /\ \A f \in Creates \ {e} :
                Page(f)' = Page(f) /\ History(f)' = History(f) /\ Order(f)' = Order(f)
         /\ Page(e)' = [text |-> NewRow(r).text, status |-> NewRow(r).status]
         /\ History(e)' = History(e) \cup Pending(r)
         /\ Order(e)' = Order(e) \cup (History(e) \X Pending(r))
                \cup {p \in Pending(r) \X Pending(r) : seq[p[1]] < seq[p[2]]}
<1>0. TypeInv /\ Ahead(r) /\ r \notin committed /\ event[r] \in Creates /\ NewRow(r) \in Rows
      /\ seq \in [Claims -> Nat]
  BY CommitsOnEvent, NewRowType DEF LedgerInv, Commit, Writing, TypeInv, TypeOK
<1>1. /\ committed' = committed \cup {r} /\ seq' = seq /\ event' = event
      /\ row' = [row EXCEPT ![event[r]] = NewRow(r)]
  BY DEF Commit
<1>2. e = event'[r] /\ e \in Creates
  BY <1>0, <1>1
<1>3. \A f : History(f)' = IF f = e THEN History(f) \cup Pending(r) ELSE History(f)
  BY <1>2, CommitShows
<1>4. \A f \in Creates \ {e} : Page(f)' = Page(f) /\ History(f)' = History(f) /\ Order(f)' = Order(f)
  BY <1>0, <1>1, <1>2, <1>3 DEF Page, Order, TypeInv, TypeOK
<1>5. Page(e)' = [text |-> NewRow(r).text, status |-> NewRow(r).status]
  <2>1. row'[e] = NewRow(r) /\ NewRow(r) # None
    BY <1>0, <1>1, <1>2, EventAssumption DEF TypeInv, TypeOK
  <2> QED BY <2>1 DEF Page
<1>6. \A c \in Pending(r), d \in History(e) : seq[d] < seq[c]
  BY <1>0, <1>2 DEF Ahead
<1>7. Order(e)' = Order(e) \cup (History(e) \X Pending(r))
                   \cup {p \in Pending(r) \X Pending(r) : seq[p[1]] < seq[p[2]]}
  <2>1. History(e) \subseteq Claims /\ Pending(r) \subseteq Claims
    BY DEF History, Pending
  <2>2. \A c \in Pending(r), d \in History(e) : ~(seq[c] < seq[d])
    BY <1>0, <1>6, <2>1
  <2>3. Order(e)' = {p \in (History(e) \cup Pending(r)) \X (History(e) \cup Pending(r)) : seq[p[1]] < seq[p[2]]}
    BY <1>1, <1>3 DEF Order
  <2> QED BY <1>6, <2>2, <2>3 DEF Order
<1> QED BY <1>0, <1>1, <1>2, <1>3, <1>4, <1>5, <1>7

PageMap == [e \in Creates |-> Page(e)]
AddressMap == [e \in Creates |-> IF e \in committed THEN slug[e] ELSE 0]
ListMap == [e \in Creates |-> History(e)]
OrderMap == [e \in Creates |-> Order(e)]

LEMMA CreateRefines ==
  ASSUME LedgerInv, SlugsApart, InOrder, NEW r \in Requests, Commit(r), Kind[r] = "create"
  PROVE  Book!Create(r)
<1>0. TypeInv /\ Inserted(r) /\ Numbered /\ seq \in [Claims -> Nat] /\ row \in [Creates -> Rows \cup {None}]
  BY DEF LedgerInv, TypeInv, TypeOK
<1>1. /\ event[r] = r /\ r \in Creates /\ row[r] = None /\ r \notin committed
      /\ committed' = committed \cup {r} /\ slug' = slug
  BY <1>0, CommitsOnEvent DEF Commit
<1>2. NewRow(r) = CreatedRow(r)
  BY DEF NewRow
<1>3. /\ Page(r)' = [text |-> r, status |-> "draft"]
      /\ History(r)' = {<<r, "snapshot">>, <<r, "status">>}
      /\ Order(r)' = {<<<<r, "snapshot">>, <<r, "status">>>>}
  <2>1. Pending(r) = {<<r, "snapshot">>, <<r, "status">>} /\ History(r) = {}
    BY <1>1, CommitShows
  <2>2. seq[<<r, "snapshot">>] < seq[<<r, "status">>]
    <3>1. pc[r] = "commit"
      BY DEF Commit
    <3> QED BY <1>1, <3>1 DEF InOrder
  <2>3. Order(r) = {}
    BY <2>1 DEF Order
  <2>4. {p \in Pending(r) \X Pending(r) : seq[p[1]] < seq[p[2]]} = {<<<<r, "snapshot">>, <<r, "status">>>>}
    <3>1. PICK c, d : c = <<r, "snapshot">> /\ d = <<r, "status">>
      OBVIOUS
    <3>2. c \in Claims /\ d \in Claims /\ seq[c] \in Nat /\ seq[d] \in Nat /\ seq[c] < seq[d]
      BY <1>0, <2>2, <3>1, ClaimsOf
    <3>3. \A p \in {c, d} \X {c, d} : seq[p[1]] < seq[p[2]] <=> p = <<c, d>>
      BY <3>2
    <3> QED BY <2>1, <3>1, <3>3
  <2> QED BY <1>1, <1>2, <2>1, <2>3, <2>4, CommitMapped DEF CreatedRow
<1>4. \A e \in Creates \ {r} :
          Page(e)' = Page(e) /\ History(e)' = History(e) /\ Order(e)' = Order(e)
  BY <1>1, CommitMapped
<1>5. PageMap' = [PageMap EXCEPT ![r] = [text |-> r, status |-> "draft"]]
  BY <1>1, <1>3, <1>4 DEF PageMap
<1>6. ListMap' = [ListMap EXCEPT ![r] = {<<r, "snapshot">>, <<r, "status">>}]
  BY <1>1, <1>3, <1>4 DEF ListMap
<1>7. OrderMap' = [OrderMap EXCEPT ![r] = {<<<<r, "snapshot">>, <<r, "status">>>>}]
  BY <1>1, <1>3, <1>4 DEF OrderMap
<1>8. AddressMap' = [AddressMap EXCEPT ![r] = AddressMap'[r]]
  BY <1>1 DEF AddressMap
<1>9. Page(r) = None
  BY <1>1 DEF Page
<1>10. ASSUME NEW e \in Creates, Page(e) # None, Title[e] = Title[r]
       PROVE  AddressMap[e] # AddressMap'[r]
  <2>1. e \in committed /\ e # r
    BY <1>0, <1>1, <1>9, <1>10 DEF Page, TypeInv, RowsOfCommitted
  <2>2. slug[e] # slug[r]
    BY <1>0, <1>1, <1>10, <2>1, CommitsOnEvent DEF SlugsApart, HasObject
  <2> QED BY <1>1, <2>1, <2>2 DEF AddressMap
<1>11. /\ \A e \in Creates : PageMap[e] = Page(e)
  BY DEF PageMap
<1>12. Book!Creates = Creates
  BY DEF Book!Creates, Creates
<1> QED
  BY <1>1, <1>5, <1>6, <1>7, <1>8, <1>9, <1>10, <1>11, <1>12
  DEF Book!Create, Book!TakesEffect, PageMap, ListMap, OrderMap, AddressMap, Order

\* An edit or a change of state adds one claim to a page that is in the book.
LEMMA ChangeMapped ==
  ASSUME LedgerInv, NEW r \in Requests, Commit(r), Kind[r] # "create",
         NEW e, e = event[r], NEW c,
         c = IF Kind[r] = "edit" THEN <<r, "snapshot">> ELSE <<r, "status">>
  PROVE  /\ e \in Creates /\ Page(e) # None /\ Book!TakesEffect(r)
         /\ current[r] = row[e] /\ current[r] \in Rows
         /\ PageMap' = [PageMap EXCEPT ![e] = [text |-> NewRow(r).text, status |-> NewRow(r).status]]
         /\ AddressMap' = AddressMap
         /\ ListMap' = [ListMap EXCEPT ![e] = @ \cup {c}]
         /\ OrderMap' = [OrderMap EXCEPT ![e] = @ \cup (ListMap[e] \X {c})]
<1>0. TypeInv /\ seq \in [Claims -> Nat] /\ Kind[r] \in {"create", "edit", "state"}
  BY EventAssumption DEF LedgerInv, TypeInv, TypeOK
<1>1. /\ e \in Creates /\ e \in committed /\ e # r /\ r \notin committed
      /\ current[r] = row[e] /\ current[r] \in Rows
      /\ committed' = committed \cup {r} /\ slug' = slug
  BY <1>0, CommitsOnEvent DEF Commit
<1>2. Pending(r) = {c} /\ c \in Claims
  BY <1>0, CommitShows, ClaimsOf
<1>3. {p \in Pending(r) \X Pending(r) : seq[p[1]] < seq[p[2]]} = {}
  <2>1. ~(seq[c] < seq[c])
    BY <1>0, <1>2
  <2>2. \A p \in {c} \X {c} : ~(seq[p[1]] < seq[p[2]])
    BY <2>1
  <2> QED BY <1>2, <2>2
<1>4. Page(e) # None
  <2>1. row[e] # None /\ [text |-> row[e].text, status |-> row[e].status] \in Pages
    BY <1>1, EventAssumption DEF Rows, Pages
  <2> QED BY <2>1, EventAssumption DEF Page
<1>5. AddressMap' = AddressMap
  BY <1>0, <1>1 DEF AddressMap, Creates
<1>6. PageMap' = [PageMap EXCEPT ![e] = [text |-> NewRow(r).text, status |-> NewRow(r).status]]
  BY <1>1, CommitMapped DEF PageMap
<1>h. /\ History(e)' = History(e) \cup {c}
      /\ Order(e)' = Order(e) \cup (History(e) \X {c})
      /\ \A f \in Creates \ {e} : History(f)' = History(f) /\ Order(f)' = Order(f)
  BY <1>2, <1>3, CommitMapped
<1>7. ListMap' = [ListMap EXCEPT ![e] = @ \cup {c}]
  BY <1>1, <1>h DEF ListMap
<1>8. OrderMap' = [OrderMap EXCEPT ![e] = @ \cup (ListMap[e] \X {c})]
  BY <1>1, <1>h DEF OrderMap, ListMap
<1> QED BY <1>1, <1>4, <1>5, <1>6, <1>7, <1>8 DEF Book!TakesEffect

LEMMA EditRefines ==
  ASSUME LedgerInv, NEW r \in Requests, Commit(r), Kind[r] = "edit"
  PROVE  \E e \in Creates : Book!Edit(r, e)
<1>1. PICK e : e = event[r]
  OBVIOUS
<1>2. /\ e \in Creates /\ Page(e) # None /\ Book!TakesEffect(r)
      /\ current[r] = row[e] /\ current[r] \in Rows
      /\ PageMap' = [PageMap EXCEPT ![e] = [text |-> NewRow(r).text, status |-> NewRow(r).status]]
      /\ AddressMap' = AddressMap
      /\ ListMap' = [ListMap EXCEPT ![e] = @ \cup {<<r, "snapshot">>}]
      /\ OrderMap' = [OrderMap EXCEPT ![e] = @ \cup (ListMap[e] \X {<<r, "snapshot">>})]
  <2>1. PICK c : c = <<r, "snapshot">>
    OBVIOUS
  <2>2. c = IF Kind[r] = "edit" THEN <<r, "snapshot">> ELSE <<r, "status">>
    BY <2>1
  <2> HIDE <2>1
  <2>3. /\ e \in Creates /\ Page(e) # None /\ Book!TakesEffect(r)
        /\ current[r] = row[e] /\ current[r] \in Rows
        /\ PageMap' = [PageMap EXCEPT ![e] = [text |-> NewRow(r).text, status |-> NewRow(r).status]]
        /\ AddressMap' = AddressMap
        /\ ListMap' = [ListMap EXCEPT ![e] = @ \cup {c}]
        /\ OrderMap' = [OrderMap EXCEPT ![e] = @ \cup (ListMap[e] \X {c})]
    BY <1>1, <2>2, ChangeMapped
  <2> QED BY <2>1, <2>3
<1>3. NewRow(r).text = r /\ NewRow(r).status = row[e].status /\ row[e] # None
  BY <1>2, EventAssumption DEF NewRow, EditedRow
<1>4. [PageMap[e] EXCEPT !.text = r] = [text |-> NewRow(r).text, status |-> NewRow(r).status]
  BY <1>2, <1>3 DEF PageMap, Page
<1>5. PageMap' = [PageMap EXCEPT ![e].text = r]
  BY <1>2, <1>4
<1>6. Book!List(e, <<r, "snapshot">>)
  BY <1>2 DEF Book!List, ListMap, OrderMap, Order
<1> QED BY <1>2, <1>5, <1>6 DEF Book!Edit, PageMap, AddressMap

LEMMA StatusRefines ==
  ASSUME LedgerInv, NEW r \in Requests, Commit(r), Kind[r] = "state"
  PROVE  \E e \in Creates : Book!SetStatus(r, e)
<1>1. PICK e : e = event[r]
  OBVIOUS
<1>2. /\ e \in Creates /\ Page(e) # None /\ Book!TakesEffect(r)
      /\ current[r] = row[e] /\ current[r] \in Rows
      /\ PageMap' = [PageMap EXCEPT ![e] = [text |-> NewRow(r).text, status |-> NewRow(r).status]]
      /\ AddressMap' = AddressMap
      /\ ListMap' = [ListMap EXCEPT ![e] = @ \cup {<<r, "status">>}]
      /\ OrderMap' = [OrderMap EXCEPT ![e] = @ \cup (ListMap[e] \X {<<r, "status">>})]
  <2>1. PICK c : c = <<r, "status">>
    OBVIOUS
  <2>2. c = IF Kind[r] = "edit" THEN <<r, "snapshot">> ELSE <<r, "status">>
    BY <2>1
  <2> HIDE <2>1
  <2>3. /\ e \in Creates /\ Page(e) # None /\ Book!TakesEffect(r)
        /\ current[r] = row[e] /\ current[r] \in Rows
        /\ PageMap' = [PageMap EXCEPT ![e] = [text |-> NewRow(r).text, status |-> NewRow(r).status]]
        /\ AddressMap' = AddressMap
        /\ ListMap' = [ListMap EXCEPT ![e] = @ \cup {c}]
        /\ OrderMap' = [OrderMap EXCEPT ![e] = @ \cup (ListMap[e] \X {c})]
    BY <1>1, <2>2, ChangeMapped
  <2> QED BY <2>1, <2>3
<1>3. NewRow(r).text = row[e].text /\ NewRow(r).status = Target[r] /\ row[e] # None
  BY <1>2, EventAssumption DEF NewRow, MovedRow
<1>4. [PageMap[e] EXCEPT !.status = Target[r]] = [text |-> NewRow(r).text, status |-> NewRow(r).status]
  BY <1>2, <1>3 DEF PageMap, Page
<1>5. PageMap' = [PageMap EXCEPT ![e].status = Target[r]]
  BY <1>2, <1>4
<1>6. Book!List(e, <<r, "status">>)
  BY <1>2 DEF Book!List, ListMap, OrderMap, Order
<1> QED BY <1>2, <1>5, <1>6 DEF Book!SetStatus, PageMap, AddressMap

LEMMA StepIsOfTheBook ==
  LedgerInv /\ SlugsApart /\ InOrder /\ [Next]_vars => [Book!Next]_(Book!vars)
<1> SUFFICES ASSUME LedgerInv, SlugsApart, InOrder, [Next]_vars PROVE [Book!Next]_(Book!vars)
  OBVIOUS
<1>1. CASE UNCHANGED vars
  BY <1>1 DEF vars, Book!vars, Page, History
<1>2. ASSUME NEW r \in Requests, Step(r), ~Commit(r) PROVE UNCHANGED Book!vars
  BY <1>2, OpenStutters
<1>3. ASSUME NEW r \in Requests, Commit(r) PROVE Book!Next
  <2>1. Kind[r] \in {"create", "edit", "state"} /\ Book!Creates = Creates
    BY EventAssumption DEF Book!Creates, Creates
  <2> QED BY <1>3, <2>1, CreateRefines, EditRefines, StatusRefines DEF Book!Next
<1> QED BY <1>1, <1>2, <1>3 DEF Next, Over

(* ImplementsBook: to those who read pages and ledger pages, the store is  *)
(* one in which changes are made one after the other.  The commit of a     *)
(* transaction is the moment its change is made; all its other steps, and  *)
(* its failure at any of them, are none.                                   *)
THEOREM StoreImplementsBook == Spec => ImplementsBook
<1> QED BY InitBook, StepIsOfTheBook, LedgerAlways, SlugsAlways, OrderAlways, PTL
        DEF Spec, ImplementsBook, Book!Spec
=============================================================================
