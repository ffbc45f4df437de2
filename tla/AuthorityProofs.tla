--------------------------- MODULE AuthorityProofs ---------------------------
(***************************************************************************)
(* Why the authority projection can be thrown away and rebuilt, and why no *)
(* entry is appended to the ledger twice, for any number of requests,      *)
(* grants and rows.                                                        *)
(***************************************************************************)
EXTENDS AuthorityLedger, FiniteSetTheorems, WellFoundedInduction, TLAPS

-----------------------------------------------------------------------------
(* Finite sets of row ids, and images of finite sets. *)

\* A finite set of row ids below a bound has a largest one.
LEMMA LargestId ==
  ASSUME NEW S \in SUBSET Nat, NEW n \in Nat, S # {}, \A x \in S : x < n
  PROVE  \E x \in S : \A y \in S : y <= x
<1> DEFINE T == {n - x : x \in S}
<1>1. T \subseteq Nat /\ T # {}
  <2>1. \A x \in S : n - x \in Nat
    OBVIOUS
  <2> QED BY <2>1
<1>2. PICK t \in T : \A y \in T : ~ (<<y, t>> \in OpToRel(<, Nat))
  <2> HIDE DEF T
  <2> QED BY <1>1, NatLessThanWellFounded, WFMin
<1>3. \A y \in T : t <= y
  <2> SUFFICES ASSUME NEW y \in T PROVE ~ (y < t)
    BY <1>1
  <2>1. <<y, t>> \in Nat \X Nat
    BY <1>1
  <2> QED BY <1>2, <2>1 DEF OpToRel
<1>4. PICK x \in S : t = n - x
  OBVIOUS
<1>5. \A y \in S : n - y \in T
  OBVIOUS
<1>6. \A y \in S : y <= x
  <2> SUFFICES ASSUME NEW y \in S PROVE y <= x
    OBVIOUS
  <2>1. n - x <= n - y
    BY <1>3, <1>4, <1>5
  <2> QED BY <2>1
<1> QED BY <1>6

\* There are no more grants than rows.
LEMMA FewerGrants ==
  ASSUME NEW R, IsFiniteSet(R)
  PROVE  /\ IsFiniteSet(GrantsOf(R))
         /\ Cardinality(GrantsOf(R)) <= Cardinality(R)
<1> DEFINE f == [r \in R |-> r.grant]
<1>1. f \in Surjection(R, GrantsOf(R))
  BY DEF Surjection, GrantsOf
<1> QED BY <1>1, FS_Surjection

LEMMA GrantsOfUnion == \A R, S : GrantsOf(R \cup S) = GrantsOf(R) \cup GrantsOf(S)
BY DEF GrantsOf

LEMMA NatCardinality ==
  ASSUME NEW S, IsFiniteSet(S), NEW T \in SUBSET S
  PROVE  IsFiniteSet(T) /\ Cardinality(T) \in Nat /\ Cardinality(T) <= Cardinality(S)
BY FS_Subset, FS_CardinalityType

-----------------------------------------------------------------------------
(* Types, finiteness, row ids, and what the paging loops have read. *)

Finite == IsFiniteSet(ledger) /\ \A c \in Callers : IsFiniteSet(batch[c])

\* Row ids are taken from the identity column.
Numbers ==
    /\ \A r \in ledger : 1 <= r.id /\ r.id < nextRow
    /\ \A c \in Callers : IsWriting(c) => \A r \in batch[c] : 1 <= r.id /\ r.id < nextRow

\* A loop has read rows of the ledger, and starts from nothing.
Loops ==
    \A c \in Callers :
      /\ seen[c] \subseteq ledger
      /\ pc[c] \notin {"check", "load", "clear", "rebuild"} => seen[c] = {}
      /\ pc[c] \notin {"check", "load"} => after[c] = 0

\* Only a create appends a grant of its own.
Asked == \A c \in Callers :
           pc[c] \in {"get_parent", "insert", "commit", "get_own"} => op[c].kind = "create"

TypeInv == TypeOK /\ Finite /\ Numbers /\ Loops /\ Asked

LEMMA InitType == Init => TypeInv
BY GrantAssumption, FS_EmptySet
   DEF Init, TypeInv, TypeOK, Finite, Numbers, Loops, Asked, IsWriting, Steps, Ops, Rows

LEMMA CurrentType == ASSUME TypeOK, NEW c \in Callers
                     PROVE  /\ Current(c) \in {"answer", "get_own", "get_parent", "done"}
                            /\ Current(c) \in {"get_own", "get_parent"} => op[c].kind = "create"
BY DEF Current, TypeOK, Ops

LEMMA GrantsOfRows == \A R \in SUBSET Rows : GrantsOf(R) \subseteq Grants
BY DEF GrantsOf, Rows

LEMMA TableFinite ==
  ASSUME TypeOK
  PROVE  IsFiniteSet(table) /\ Cardinality(table) \in Nat
BY NatCardinality, GrantAssumption DEF TypeOK

LEMMA LegacyRowsType ==
  ASSUME TypeOK
  PROVE  /\ LegacyRows \in SUBSET Rows /\ IsFiniteSet(LegacyRows)
         /\ GrantsOf(LegacyRows) = table
<1> DEFINE order(g) == Cardinality({h \in table : Rank[h] < Rank[g]})
           row(g) == [id |-> 0, set |-> Migration, order |-> order(g),
                      grant |-> g, parent |-> parent[g]]
           f == [g \in table |-> row(g)]
<1>1. LegacyRows = {row(g) : g \in table}
  BY DEF LegacyRows
<1>2. \A g \in table : row(g) \in Rows
  <2> SUFFICES ASSUME NEW g \in table PROVE row(g) \in Rows
    OBVIOUS
  <2>1. order(g) \in Nat
    BY TableFinite, NatCardinality
  <2>2. g \in Grants /\ parent[g] \in Grants \cup {None}
    BY DEF TypeOK
  <2> QED BY <2>1, <2>2 DEF Rows
<1>3. f \in Surjection(table, LegacyRows)
  <2> HIDE DEF row
  <2> QED BY <1>1 DEF Surjection
<1>4. IsFiniteSet(LegacyRows)
  BY <1>3, TableFinite, FS_Surjection
<1>5. GrantsOf(LegacyRows) = table
  <2>1. \A g \in table : row(g).grant = g
    OBVIOUS
  <2> HIDE DEF row
  <2> QED BY <1>1, <2>1 DEF GrantsOf
<1> QED BY <1>1, <1>2, <1>4, <1>5

\* What an append writes: numbered rows of its batch.
LEMMA NumberedType ==
  ASSUME TypeInv, NEW c \in Callers
  PROVE  LET new == Numbered(Absent(batch[c]))
         IN  /\ new \in SUBSET Rows /\ IsFiniteSet(new)
             /\ Cardinality(Absent(batch[c])) \in Nat
             /\ \A r \in new : /\ 1 <= r.id /\ r.id < nextRow + Cardinality(Absent(batch[c]))
                               /\ \E q \in Absent(batch[c]) :
                                     /\ r.set = q.set /\ r.order = q.order
                                     /\ r.grant = q.grant /\ r.parent = q.parent
             /\ GrantsOf(new) = GrantsOf(Absent(batch[c]))
<1> DEFINE rows == Absent(batch[c])
           before(r) == {q \in rows : q.order < r.order}
           row(r) == [r EXCEPT !.id = nextRow + Cardinality(before(r))]
           f == [r \in rows |-> row(r)]
           new == Numbered(rows)
<1>1. new = {row(r) : r \in rows}
  BY DEF Numbered
<1>2. rows \in SUBSET batch[c] /\ rows \in SUBSET Rows
  BY DEF Absent, TypeInv, TypeOK
<1>3. IsFiniteSet(rows) /\ Cardinality(rows) \in Nat
  BY <1>2, NatCardinality DEF TypeInv, Finite
<1>4. \A r \in rows : Cardinality(before(r)) \in Nat /\ Cardinality(before(r)) < Cardinality(rows)
  <2> SUFFICES ASSUME NEW r \in rows
               PROVE  Cardinality(before(r)) \in Nat /\ Cardinality(before(r)) < Cardinality(rows)
    OBVIOUS
  <2>1. before(r) \in SUBSET rows /\ before(r) # rows
    BY <1>2 DEF Rows
  <2> QED BY <1>3, <2>1, FS_Subset, NatCardinality
<1>5. \A r \in rows : /\ row(r) \in Rows /\ 1 <= row(r).id
                      /\ row(r).id < nextRow + Cardinality(rows)
                      /\ row(r).set = r.set /\ row(r).order = r.order
                      /\ row(r).grant = r.grant /\ row(r).parent = r.parent
  <2> SUFFICES ASSUME NEW r \in rows, NEW n \in Nat, n = Cardinality(before(r)), n < Cardinality(rows)
               PROVE  LET q == [r EXCEPT !.id = nextRow + n]
                      IN  /\ q \in Rows /\ 1 <= q.id /\ q.id < nextRow + Cardinality(rows)
                          /\ q.set = r.set /\ q.order = r.order
                          /\ q.grant = r.grant /\ q.parent = r.parent
    BY <1>4
  <2>1. nextRow \in Nat \ {0} /\ r \in Rows
    BY <1>2 DEF TypeInv, TypeOK
  <2> HIDE DEF rows
  <2> QED BY <1>3, <2>1 DEF Rows
<1>6. f \in Surjection(rows, new)
  <2> HIDE DEF row
  <2> QED BY <1>1 DEF Surjection
<1>7. IsFiniteSet(new)
  BY <1>3, <1>6, FS_Surjection
<1>8. GrantsOf(new) = GrantsOf(rows)
  <2> HIDE DEF row, rows, new
  <2> QED BY <1>1, <1>5 DEF GrantsOf
<1>9. new \in SUBSET Rows
  <2> HIDE DEF row, rows, new
  <2> QED BY <1>1, <1>5
<1>10. \A r \in new : /\ 1 <= r.id /\ r.id < nextRow + Cardinality(rows)
                      /\ \E q \in rows : /\ r.set = q.set /\ r.order = q.order
                                         /\ r.grant = q.grant /\ r.parent = q.parent
  <2> HIDE DEF row, rows, new
  <2> QED BY <1>1, <1>5
<1> QED BY <1>3, <1>7, <1>8, <1>9, <1>10

LEMMA StartType == ASSUME TypeInv, NEW c \in Callers, Start(c) PROVE TypeInv'
<1>1. TypeOK'
  <2>1. InLedger \in SUBSET Grants
    BY GrantsOfRows DEF InLedger, TypeInv, TypeOK
  <2>2. owed' \in [Callers -> SUBSET Grants]
    BY <2>1 DEF Start, TypeInv, TypeOK
  <2>3. caught' \in [Callers -> BOOLEAN] /\ alone' \in [Callers -> BOOLEAN]
    BY Zenon DEF Start, TypeInv, TypeOK
  <2>4. pc' \in [Callers -> Steps]
    BY DEF Start, Goto, TypeInv, TypeOK, Steps
  <2> QED BY <2>2, <2>3, <2>4 DEF Start, TypeInv, TypeOK, store
<1>2. Finite'
  BY DEF Start, TypeInv, TypeOK, Finite, store
<1>3. Numbers'
  BY CurrentType DEF Start, TypeInv, TypeOK, Numbers, IsWriting, Goto, store
<1>4. Loops'
  BY CurrentType DEF Start, TypeInv, TypeOK, Loops, Goto, store
<1>9. Asked'
  BY CurrentType DEF Start, TypeInv, TypeOK, Asked, Goto, store
<1> QED BY <1>1, <1>2, <1>3, <1>4, <1>9 DEF TypeInv

LEMMA CountTableType == ASSUME TypeInv, NEW c \in Callers, CountTable(c) PROVE TypeInv'
<1>1. TypeOK'
  BY TableFinite DEF CountTable, TypeInv, TypeOK, Goto, store, history, Steps
<1>2. Finite'
  BY DEF CountTable, TypeInv, TypeOK, Finite, store
<1>3. Numbers'
  BY CurrentType DEF CountTable, TypeInv, TypeOK, Numbers, IsWriting, Goto, store
<1>4. Loops'
  BY CurrentType DEF CountTable, TypeInv, TypeOK, Loops, Goto, store
<1>9. Asked'
  BY CurrentType DEF CountTable, TypeInv, TypeOK, Asked, Goto, store
<1> QED BY <1>1, <1>2, <1>3, <1>4, <1>9 DEF TypeInv

LEMMA ReadPageType == ASSUME TypeInv, NEW c \in Callers, ReadPage(c) PROVE TypeInv'
<1>1. TypeOK'
  <2>1. NextPage(c) \subseteq ledger /\ ledger \subseteq Rows
    BY DEF NextPage, Beyond, TypeInv, TypeOK
  <2>2. PICK last \in NextPage(c) : after' = [after EXCEPT ![c] = last.id]
    BY DEF ReadPage
  <2>3. after' \in [Callers -> Nat]
    BY <2>1, <2>2 DEF TypeInv, TypeOK, Rows
  <2>4. seen' \in [Callers -> SUBSET Rows]
    BY <2>1 DEF ReadPage, TypeInv, TypeOK
  <2> QED BY <2>3, <2>4 DEF ReadPage, TypeInv, TypeOK, store, history
<1>2. Finite'
  BY DEF ReadPage, TypeInv, TypeOK, Finite, store
<1>3. Numbers'
  BY CurrentType DEF ReadPage, TypeInv, TypeOK, Numbers, IsWriting, Goto, store
<1>4. Loops'
  <2>1. NextPage(c) \subseteq ledger
    BY DEF NextPage, Beyond
  <2>2. PICK last \in NextPage(c) : after' = [after EXCEPT ![c] = last.id]
    BY DEF ReadPage
  <2> QED BY <2>1, <2>2 DEF ReadPage, TypeInv, TypeOK, Loops, store
<1>9. Asked'
  BY CurrentType DEF ReadPage, TypeInv, TypeOK, Asked, Goto, store
<1> QED BY <1>1, <1>2, <1>3, <1>4, <1>9 DEF TypeInv

LEMMA CompareType == ASSUME TypeInv, NEW c \in Callers, Compare(c) PROVE TypeInv'
<1>1. TypeOK'
  BY CurrentType DEF Compare, TypeInv, TypeOK, Goto, store, history, Steps
<1>2. Finite'
  BY DEF Compare, TypeInv, TypeOK, Finite, store
<1>3. Numbers'
  BY CurrentType DEF Compare, TypeInv, TypeOK, Numbers, IsWriting, Goto, store
<1>4. Loops'
  BY CurrentType DEF Compare, TypeInv, TypeOK, Loops, Goto, store
<1>9. Asked'
  BY CurrentType DEF Compare, TypeInv, TypeOK, Asked, Goto, store
<1> QED BY <1>1, <1>2, <1>3, <1>4, <1>9 DEF TypeInv

LEMMA MigrateCountType == ASSUME TypeInv, NEW c \in Callers, MigrateCount(c) PROVE TypeInv'
<1>1. TypeOK'
  BY CurrentType DEF MigrateCount, TypeInv, TypeOK, Goto, store, history, Steps
<1>2. Finite'
  BY DEF MigrateCount, TypeInv, TypeOK, Finite, store
<1>3. Numbers'
  BY CurrentType DEF MigrateCount, TypeInv, TypeOK, Numbers, IsWriting, Goto, store
<1>4. Loops'
  BY CurrentType DEF MigrateCount, TypeInv, TypeOK, Loops, Goto, store
<1>9. Asked'
  BY CurrentType DEF MigrateCount, TypeInv, TypeOK, Asked, Goto, store
<1> QED BY <1>1, <1>2, <1>3, <1>4, <1>9 DEF TypeInv

LEMMA MigrateReadType == ASSUME TypeInv, NEW c \in Callers, MigrateRead(c) PROVE TypeInv'
<1>1. TypeOK'
  BY LegacyRowsType DEF MigrateRead, TypeInv, TypeOK, Goto, store, history, Steps
<1>2. Finite'
  BY LegacyRowsType DEF MigrateRead, TypeInv, TypeOK, Finite, store
<1>3. Numbers'
  BY CurrentType DEF MigrateRead, TypeInv, TypeOK, Numbers, IsWriting, Goto, store
<1>4. Loops'
  BY CurrentType DEF MigrateRead, TypeInv, TypeOK, Loops, Goto, store
<1>9. Asked'
  BY CurrentType DEF MigrateRead, TypeInv, TypeOK, Asked, Goto, store
<1> QED BY <1>1, <1>2, <1>3, <1>4, <1>9 DEF TypeInv

LEMMA InsertType == ASSUME TypeInv, NEW c \in Callers, Insert(c) PROVE TypeInv'
<1> DEFINE new == Numbered(Absent(batch[c]))
           size == Cardinality(Absent(batch[c]))
<1>1. /\ new \in SUBSET Rows /\ IsFiniteSet(new) /\ size \in Nat
      /\ \A r \in new : 1 <= r.id /\ r.id < nextRow + size
  BY NumberedType
<1>2. batch' = [batch EXCEPT ![c] = new] /\ nextRow' = nextRow + size
  BY DEF Insert
<1> HIDE DEF new, size
<1>3. TypeOK'
  BY <1>1, <1>2 DEF Insert, TypeInv, TypeOK, Goto, history, Steps
<1>4. Finite'
  BY <1>1, <1>2 DEF Insert, TypeInv, TypeOK, Finite
<1>5. Numbers'
  <2>1. \A r \in ledger \cup UNION {batch[d] : d \in Callers} : r.id \in Nat
    BY DEF TypeInv, TypeOK, Rows
  <2>2. nextRow \in Nat /\ nextRow <= nextRow'
    BY <1>1, <1>2 DEF TypeInv, TypeOK
  <2>3. \A r \in ledger' : 1 <= r.id /\ r.id < nextRow'
    BY <1>1, <1>2, <2>1 DEF Insert, TypeInv, TypeOK, Numbers
  <2>4. ASSUME NEW d \in Callers, IsWriting(d)', NEW r \in batch'[d]
        PROVE  1 <= r.id /\ r.id < nextRow'
    <3>1. CASE d = c
      BY <1>1, <1>2, <2>4, <3>1 DEF TypeInv, TypeOK
    <3>2. CASE d # c
      <4>1. IsWriting(d) /\ r \in batch[d]
        BY <1>2, <2>4, <3>2 DEF Insert, Goto, IsWriting, TypeInv, TypeOK
      <4>2. 1 <= r.id /\ r.id < nextRow
        BY <4>1 DEF TypeInv, Numbers
      <4> QED BY <1>1, <1>2, <2>1, <4>1, <4>2 DEF TypeInv, TypeOK
    <3> QED BY <3>1, <3>2
  <2> QED BY <2>3, <2>4 DEF Numbers
<1>6. Loops'
  BY DEF Insert, TypeInv, TypeOK, Loops, Goto
<1>9. Asked'
  BY CurrentType DEF Insert, TypeInv, TypeOK, Asked, Goto, store
<1> QED BY <1>3, <1>4, <1>5, <1>6, <1>9 DEF TypeInv

LEMMA CommitType == ASSUME TypeInv, NEW c \in Callers, Commit(c) PROVE TypeInv'
<1>1. TypeOK'
  BY CurrentType DEF Commit, TypeInv, TypeOK, Goto, store, history, Steps
<1>2. Finite'
  BY FS_Union, FS_EmptySet DEF Commit, TypeInv, TypeOK, Finite
<1>3. Numbers'
  BY CurrentType DEF Commit, TypeInv, TypeOK, Numbers, IsWriting, Goto, store
<1>4. Loops'
  BY CurrentType DEF Commit, TypeInv, TypeOK, Loops, Goto, store
<1>9. Asked'
  BY CurrentType DEF Commit, TypeInv, TypeOK, Asked, Goto, store
<1> QED BY <1>1, <1>2, <1>3, <1>4, <1>9 DEF TypeInv

LEMMA LoadedType == ASSUME TypeInv, NEW c \in Callers, Loaded(c) PROVE TypeInv'
<1>1. TypeOK'
  BY CurrentType DEF Loaded, TypeInv, TypeOK, Goto, store, history, Steps
<1>2. Finite'
  BY DEF Loaded, TypeInv, TypeOK, Finite, store
<1>3. Numbers'
  BY CurrentType DEF Loaded, TypeInv, TypeOK, Numbers, IsWriting, Goto, store
<1>4. Loops'
  BY CurrentType DEF Loaded, TypeInv, TypeOK, Loops, Goto, store
<1>9. Asked'
  BY CurrentType DEF Loaded, TypeInv, TypeOK, Asked, Goto, store
<1> QED BY <1>1, <1>2, <1>3, <1>4, <1>9 DEF TypeInv

LEMMA ClearType == ASSUME TypeInv, NEW c \in Callers, Clear(c) PROVE TypeInv'
<1>1. TypeOK'
  BY CurrentType DEF Clear, TypeInv, TypeOK, Goto, store, history, Steps
<1>2. Finite'
  BY DEF Clear, TypeInv, TypeOK, Finite, store
<1>3. Numbers'
  BY CurrentType DEF Clear, TypeInv, TypeOK, Numbers, IsWriting, Goto, store
<1>4. Loops'
  BY CurrentType DEF Clear, TypeInv, TypeOK, Loops, Goto, store
<1>9. Asked'
  BY CurrentType DEF Clear, TypeInv, TypeOK, Asked, Goto, store
<1> QED BY <1>1, <1>2, <1>3, <1>4, <1>9 DEF TypeInv

\* A rebuild finds the last row of each grant it has read.
LEMMA LastRowIsLast ==
  ASSUME TypeInv, NEW c \in Callers, NEW g \in GrantsOf(seen[c])
  PROVE  \E r \in seen[c] : r.grant = g /\ \A q \in seen[c] : q.grant = g => q.id <= r.id
<1> DEFINE own == {r \in seen[c] : r.grant = g}
           ids == {r.id : r \in own}
<1>1. seen[c] \subseteq ledger /\ ledger \subseteq Rows /\ nextRow \in Nat
  BY DEF TypeInv, TypeOK, Loops
<1>2. \A r \in own : r.id \in Nat /\ r.id < nextRow
  BY <1>1 DEF TypeInv, Numbers, Rows
<1>3. ids \in SUBSET Nat /\ (\A n \in ids : n < nextRow)
  BY <1>2
<1>4. ids # {}
  BY DEF GrantsOf
<1>5. PICK n \in ids : \A m \in ids : m <= n
  <2> HIDE DEF ids
  <2> QED BY <1>1, <1>3, <1>4, LargestId
<1> QED BY <1>5

LEMMA LastRowExists ==
  ASSUME TypeInv, NEW c \in Callers, NEW g \in GrantsOf(seen[c])
  PROVE  LastRow(seen[c], g) \in seen[c] /\ LastRow(seen[c], g).grant = g
BY LastRowIsLast DEF LastRow

LEMMA RebuildType == ASSUME TypeInv, NEW c \in Callers, Rebuild(c) PROVE TypeInv'
<1>1. TypeOK'
  <2>1. seen[c] \in SUBSET Rows /\ GrantsOf(seen[c]) \subseteq Grants
    BY GrantsOfRows DEF TypeInv, TypeOK
  <2>2. table' \in SUBSET Grants
    BY <2>1 DEF Rebuild, Left, TypeInv, TypeOK
  <2>3. \A g \in GrantsOf(seen[c]) : LastRow(seen[c], g).parent \in Grants \cup {None}
    BY <2>1, LastRowExists DEF Rows
  <2>4. \A g \in Grants : LeftParent(c, g) \in Grants \cup {None}
    BY DEF LeftParent, TypeInv, TypeOK
  <2>5. parent' \in [Grants -> Grants \cup {None}]
    BY <2>3, <2>4 DEF Rebuild
  <2>6. doomed' \in [Callers -> SUBSET Grants] /\ caught' \in [Callers -> BOOLEAN]
    BY DEF Rebuild, TypeInv, TypeOK
  <2> QED BY <2>2, <2>5, <2>6, CurrentType DEF Rebuild, TypeInv, TypeOK, Goto, Steps
<1>2. Finite'
  BY DEF Rebuild, TypeInv, TypeOK, Finite, store
<1>3. Numbers'
  BY CurrentType DEF Rebuild, TypeInv, TypeOK, Numbers, IsWriting, Goto, store
<1>4. Loops'
  BY CurrentType DEF Rebuild, TypeInv, TypeOK, Loops, Goto, store
<1>9. Asked'
  BY CurrentType DEF Rebuild, TypeInv, TypeOK, Asked, Goto, store
<1> QED BY <1>1, <1>2, <1>3, <1>4, <1>9 DEF TypeInv

LEMMA GetParentType == ASSUME TypeInv, NEW c \in Callers, GetParent(c) PROVE TypeInv'
<1> DEFINE row == [id |-> 0, set |-> op[c].grant, order |-> 0,
                   grant |-> op[c].grant, parent |-> Supersedes[op[c].grant]]
<1>a. op[c].grant \in Created /\ row \in Rows
  <2>1. op[c].kind = "create" /\ op[c] \in Ops
    BY DEF GetParent, TypeInv, TypeOK, Asked
  <2>2. op[c].grant \in Created
    BY <2>1 DEF Ops
  <2> QED BY <2>2, GrantAssumption DEF Rows, Created
<1>b. batch' = [batch EXCEPT ![c] = {row}] /\ IsFiniteSet({row})
  BY FS_Singleton DEF GetParent
<1> HIDE DEF row
<1>1. TypeOK'
  BY <1>a, <1>b DEF GetParent, TypeInv, TypeOK, Goto, store, history, Steps
<1>2. Finite'
  BY <1>b DEF GetParent, TypeInv, TypeOK, Finite, store
<1>3. Numbers'
  BY CurrentType DEF GetParent, TypeInv, TypeOK, Numbers, IsWriting, Goto, store
<1>4. Loops'
  BY CurrentType DEF GetParent, TypeInv, TypeOK, Loops, Goto, store
<1>9. Asked'
  BY CurrentType DEF GetParent, TypeInv, TypeOK, Asked, Goto, store
<1> QED BY <1>1, <1>2, <1>3, <1>4, <1>9 DEF TypeInv

LEMMA GetOwnType == ASSUME TypeInv, NEW c \in Callers, GetOwn(c) PROVE TypeInv'
<1>1. TypeOK'
  BY CurrentType DEF GetOwn, TypeInv, TypeOK, Goto, store, history, Steps
<1>2. Finite'
  BY DEF GetOwn, TypeInv, TypeOK, Finite, store
<1>3. Numbers'
  BY CurrentType DEF GetOwn, TypeInv, TypeOK, Numbers, IsWriting, Goto, store
<1>4. Loops'
  BY CurrentType DEF GetOwn, TypeInv, TypeOK, Loops, Goto, store
<1>9. Asked'
  BY CurrentType DEF GetOwn, TypeInv, TypeOK, Asked, Goto, store
<1> QED BY <1>1, <1>2, <1>3, <1>4, <1>9 DEF TypeInv

LEMMA AnswerType == ASSUME TypeInv, NEW c \in Callers, Answer(c) PROVE TypeInv'
<1>1. TypeOK'
  BY CurrentType DEF Answer, TypeInv, TypeOK, Goto, store, history, Steps
<1>2. Finite'
  BY DEF Answer, TypeInv, TypeOK, Finite, store
<1>3. Numbers'
  BY CurrentType DEF Answer, TypeInv, TypeOK, Numbers, IsWriting, Goto, store
<1>4. Loops'
  BY CurrentType DEF Answer, TypeInv, TypeOK, Loops, Goto, store
<1>9. Asked'
  BY CurrentType DEF Answer, TypeInv, TypeOK, Asked, Goto, store
<1> QED BY <1>1, <1>2, <1>3, <1>4, <1>9 DEF TypeInv

LEMMA FailType == ASSUME TypeInv, NEW c \in Callers, Fail(c) PROVE TypeInv'
<1>1. TypeOK'
  BY CurrentType DEF Fail, TypeInv, TypeOK, Goto, store, history, Steps
<1>2. Finite'
  BY FS_EmptySet DEF Fail, TypeInv, TypeOK, Finite, store
<1>3. Numbers'
  BY CurrentType DEF Fail, TypeInv, TypeOK, Numbers, IsWriting, Goto, store
<1>4. Loops'
  BY CurrentType DEF Fail, TypeInv, TypeOK, Loops, Goto, store
<1>9. Asked'
  BY CurrentType DEF Fail, TypeInv, TypeOK, Asked, Goto, store
<1> QED BY <1>1, <1>2, <1>3, <1>4, <1>9 DEF TypeInv

LEMMA DropType == ASSUME TypeInv, Drop PROVE TypeInv'
<1>1. TypeOK'
  BY DEF Drop, TypeInv, TypeOK
<1>2. Finite' /\ Numbers' /\ Loops' /\ Asked'
  BY DEF Drop, TypeInv, TypeOK, Finite, Numbers, IsWriting, Loops, Asked
<1> QED BY <1>1, <1>2 DEF TypeInv

LEMMA TypeStep == TypeInv /\ [Next]_vars => TypeInv'
<1> SUFFICES ASSUME TypeInv, [Next]_vars PROVE TypeInv'
  OBVIOUS
<1>1. CASE Drop
  BY <1>1, DropType
<1>2. ASSUME NEW c \in Callers, Request(c) PROVE TypeInv'
  BY <1>2, StartType, CountTableType, ReadPageType, CompareType, MigrateCountType,
     MigrateReadType, InsertType, CommitType, LoadedType, ClearType, RebuildType,
     GetParentType, GetOwnType, AnswerType, FailType DEF Request
<1>3. CASE UNCHANGED vars
  BY <1>3 DEF vars, store, locals, history, TypeInv, TypeOK, Finite, Numbers, IsWriting,
              Loops, Asked
<1> QED BY <1>1, <1>2, <1>3 DEF Next

\* The tables and every request keep their types, however requests interleave.
THEOREM TypesCorrect == Spec => []TypeOK
<1>1. Spec => []TypeInv
  BY InitType, TypeStep, PTL DEF Spec
<1>2. TypeInv => TypeOK
  BY DEF TypeInv
<1> QED BY <1>1, <1>2, PTL

-----------------------------------------------------------------------------
(* The old grants are in the ledger before anything else is. *)

\* While the ledger is empty, a request that has got past the migration has
\* found that there is nothing to migrate, and a migration has read it all.
MigrationFirst ==
    ledger = {} => \A c \in Callers :
      /\ pc[c] = "check" => counted[c] = Cardinality(Legacy)
      /\ pc[c] \in {"migrate_insert", "migrate_commit"} => Legacy \subseteq GrantsOf(batch[c])
      /\ pc[c] \in {"load", "clear", "rebuild", "get_parent", "insert", "commit",
                    "get_own", "answer"} => Legacy = {}

DisposableInv == ProjectionIsDisposable /\ MigrationFirst

LEMMA InitDisposable == Init => DisposableInv
BY DEF Init, DisposableInv, ProjectionIsDisposable, MigrationFirst

LEMMA StartDisposable ==
  ASSUME TypeInv, DisposableInv, NEW c \in Callers, Start(c)
  PROVE  DisposableInv'
<1>1. ProjectionIsDisposable'
  BY DEF Start, DisposableInv, ProjectionIsDisposable, InLedger, store
<1>2. MigrationFirst'
  BY CurrentType DEF Start, TypeInv, TypeOK, DisposableInv, ProjectionIsDisposable, MigrationFirst,
     Goto, store
<1> QED BY <1>1, <1>2 DEF DisposableInv

LEMMA CountTableDisposable ==
  ASSUME TypeInv, DisposableInv, NEW c \in Callers, CountTable(c)
  PROVE  DisposableInv'
<1>1. ProjectionIsDisposable'
  BY DEF CountTable, DisposableInv, ProjectionIsDisposable, InLedger, store
<1>2. MigrationFirst'
  BY CurrentType DEF CountTable, TypeInv, TypeOK, DisposableInv, ProjectionIsDisposable, MigrationFirst,
     Goto, store
<1> QED BY <1>1, <1>2 DEF DisposableInv

LEMMA ReadPageDisposable ==
  ASSUME TypeInv, DisposableInv, NEW c \in Callers, ReadPage(c)
  PROVE  DisposableInv'
<1>1. ProjectionIsDisposable'
  BY DEF ReadPage, DisposableInv, ProjectionIsDisposable, InLedger, store
<1>2. MigrationFirst'
  BY CurrentType DEF ReadPage, TypeInv, TypeOK, DisposableInv, ProjectionIsDisposable, MigrationFirst,
     Goto, store
<1> QED BY <1>1, <1>2 DEF DisposableInv

LEMMA CompareDisposable ==
  ASSUME TypeInv, DisposableInv, NEW c \in Callers, Compare(c)
  PROVE  DisposableInv'
<1>1. ProjectionIsDisposable'
  BY DEF Compare, DisposableInv, ProjectionIsDisposable, InLedger, store
<1>2. MigrationFirst'
  <2> SUFFICES ASSUME ledger = {} PROVE MigrationFirst'
    BY DEF Compare, MigrationFirst, store
  <2>1. seen[c] = {} /\ counted[c] = Cardinality(Legacy)
    BY DEF Compare, TypeInv, Loops, DisposableInv, MigrationFirst
  <2>2. NeedsMaterialize(c) \/ Legacy = {}
    BY <2>1, FS_EmptySet, FS_Subset, GrantAssumption DEF NeedsMaterialize
  <2> QED BY <2>2, CurrentType DEF Compare, TypeInv, TypeOK, DisposableInv, MigrationFirst, Goto, store
<1> QED BY <1>1, <1>2 DEF DisposableInv

LEMMA MigrateCountDisposable ==
  ASSUME TypeInv, DisposableInv, NEW c \in Callers, MigrateCount(c)
  PROVE  DisposableInv'
<1>1. ProjectionIsDisposable'
  BY DEF MigrateCount, DisposableInv, ProjectionIsDisposable, InLedger, store
<1>2. MigrationFirst'
  BY CurrentType DEF MigrateCount, TypeInv, TypeOK, DisposableInv, ProjectionIsDisposable, MigrationFirst,
     Goto, store
<1> QED BY <1>1, <1>2 DEF DisposableInv

LEMMA MigrateReadDisposable ==
  ASSUME TypeInv, DisposableInv, NEW c \in Callers, MigrateRead(c)
  PROVE  DisposableInv'
<1>1. ProjectionIsDisposable'
  BY DEF MigrateRead, DisposableInv, ProjectionIsDisposable, InLedger, store
<1>2. MigrationFirst'
  <2> SUFFICES ASSUME ledger = {} PROVE MigrationFirst'
    BY DEF MigrateRead, MigrationFirst, store
  <2>1. table = Legacy /\ GrantsOf(LegacyRows) = table
    BY LegacyRowsType DEF TypeInv, DisposableInv, ProjectionIsDisposable
  <2> QED BY <2>1 DEF MigrateRead, TypeInv, TypeOK, DisposableInv, MigrationFirst, Goto, store
<1> QED BY <1>1, <1>2 DEF DisposableInv

LEMMA InsertDisposable ==
  ASSUME TypeInv, DisposableInv, NEW c \in Callers, Insert(c)
  PROVE  DisposableInv'
<1>1. ProjectionIsDisposable'
  BY DEF Insert, DisposableInv, ProjectionIsDisposable, InLedger, store
<1>2. MigrationFirst'
  <2> SUFFICES ASSUME ledger = {} PROVE MigrationFirst'
    BY DEF Insert, MigrationFirst
  <2>1. Absent(batch[c]) = batch[c]
    BY DEF Absent
  <2>2. GrantsOf(Numbered(Absent(batch[c]))) = GrantsOf(batch[c])
    BY <2>1, NumberedType
  <2> QED BY <2>2 DEF Insert, TypeInv, TypeOK, DisposableInv, MigrationFirst, Goto
<1> QED BY <1>1, <1>2 DEF DisposableInv

LEMMA CommitDisposable ==
  ASSUME TypeInv, DisposableInv, NEW c \in Callers, Commit(c)
  PROVE  DisposableInv'
<1>1. ProjectionIsDisposable'
  <2>1. InLedger' = InLedger \cup GrantsOf(batch[c])
    BY GrantsOfUnion DEF Commit, InLedger
  <2>2. CASE ledger # {}
    BY <2>1, <2>2 DEF Commit, DisposableInv, ProjectionIsDisposable
  <2>3. CASE ledger = {} /\ pc[c] = "commit"
    <3>1. Legacy = {} /\ table = {}
      BY <2>3 DEF DisposableInv, ProjectionIsDisposable, MigrationFirst
    <3> QED BY <3>1 DEF Commit, ProjectionIsDisposable
  <2>4. CASE ledger = {} /\ pc[c] = "migrate_commit"
    <3>1. table = Legacy /\ Legacy \subseteq GrantsOf(batch[c])
      BY <2>4 DEF DisposableInv, ProjectionIsDisposable, MigrationFirst
    <3> QED BY <2>1, <3>1 DEF Commit, ProjectionIsDisposable
  <2> QED BY <2>2, <2>3, <2>4 DEF Commit, IsWriting
<1>2. MigrationFirst'
  <2> SUFFICES ASSUME ledger' = {} PROVE MigrationFirst'
    BY DEF MigrationFirst
  <2>1. ledger = {} /\ batch[c] = {}
    BY DEF Commit
  <2>2. pc[c] = "migrate_commit" => Legacy = {}
    BY <2>1 DEF DisposableInv, MigrationFirst, GrantsOf
  <2> QED BY <2>1, <2>2 DEF Commit, IsWriting, TypeInv, TypeOK, DisposableInv, MigrationFirst, Goto
<1> QED BY <1>1, <1>2 DEF DisposableInv

LEMMA LoadedDisposable ==
  ASSUME TypeInv, DisposableInv, NEW c \in Callers, Loaded(c)
  PROVE  DisposableInv'
<1>1. ProjectionIsDisposable'
  BY DEF Loaded, DisposableInv, ProjectionIsDisposable, InLedger, store
<1>2. MigrationFirst'
  BY CurrentType DEF Loaded, TypeInv, TypeOK, DisposableInv, ProjectionIsDisposable, MigrationFirst,
     Goto, store
<1> QED BY <1>1, <1>2 DEF DisposableInv

LEMMA ClearDisposable ==
  ASSUME TypeInv, DisposableInv, NEW c \in Callers, Clear(c)
  PROVE  DisposableInv'
<1>1. ProjectionIsDisposable'
  BY DEF Clear, DisposableInv, ProjectionIsDisposable, InLedger, store
<1>2. MigrationFirst'
  BY CurrentType DEF Clear, TypeInv, TypeOK, DisposableInv, ProjectionIsDisposable, MigrationFirst,
     Goto, store
<1> QED BY <1>1, <1>2 DEF DisposableInv

LEMMA RebuildDisposable ==
  ASSUME TypeInv, DisposableInv, NEW c \in Callers, Rebuild(c)
  PROVE  DisposableInv'
<1>1. ProjectionIsDisposable'
  <2>1. GrantsOf(seen[c]) \subseteq InLedger
    BY DEF TypeInv, Loops, GrantsOf, InLedger
  <2>2. table' \subseteq table \cup GrantsOf(seen[c]) /\ ledger' = ledger
    BY DEF Rebuild, Left
  <2>3. CASE ledger # {}
    BY <2>1, <2>2, <2>3 DEF DisposableInv, ProjectionIsDisposable, InLedger
  <2>4. CASE ledger = {}
    <3>1. Legacy = {} /\ table = {} /\ InLedger = {}
      BY <2>4 DEF Rebuild, DisposableInv, ProjectionIsDisposable, MigrationFirst, InLedger, GrantsOf
    <3> QED BY <2>1, <2>2, <2>4, <3>1 DEF ProjectionIsDisposable
  <2> QED BY <2>3, <2>4
<1>2. MigrationFirst'
  BY CurrentType DEF Rebuild, TypeInv, TypeOK, DisposableInv, ProjectionIsDisposable, MigrationFirst,
     Goto, store
<1> QED BY <1>1, <1>2 DEF DisposableInv

LEMMA GetParentDisposable ==
  ASSUME TypeInv, DisposableInv, NEW c \in Callers, GetParent(c)
  PROVE  DisposableInv'
<1>1. ProjectionIsDisposable'
  BY DEF GetParent, DisposableInv, ProjectionIsDisposable, InLedger, store
<1>2. MigrationFirst'
  BY CurrentType DEF GetParent, TypeInv, TypeOK, DisposableInv, ProjectionIsDisposable, MigrationFirst,
     Goto, store
<1> QED BY <1>1, <1>2 DEF DisposableInv

LEMMA GetOwnDisposable ==
  ASSUME TypeInv, DisposableInv, NEW c \in Callers, GetOwn(c)
  PROVE  DisposableInv'
<1>1. ProjectionIsDisposable'
  BY DEF GetOwn, DisposableInv, ProjectionIsDisposable, InLedger, store
<1>2. MigrationFirst'
  BY CurrentType DEF GetOwn, TypeInv, TypeOK, DisposableInv, ProjectionIsDisposable, MigrationFirst,
     Goto, store
<1> QED BY <1>1, <1>2 DEF DisposableInv

LEMMA AnswerDisposable ==
  ASSUME TypeInv, DisposableInv, NEW c \in Callers, Answer(c)
  PROVE  DisposableInv'
<1>1. ProjectionIsDisposable'
  BY DEF Answer, DisposableInv, ProjectionIsDisposable, InLedger, store
<1>2. MigrationFirst'
  BY CurrentType DEF Answer, TypeInv, TypeOK, DisposableInv, ProjectionIsDisposable, MigrationFirst,
     Goto, store
<1> QED BY <1>1, <1>2 DEF DisposableInv

LEMMA FailDisposable ==
  ASSUME TypeInv, DisposableInv, NEW c \in Callers, Fail(c)
  PROVE  DisposableInv'
<1>1. ProjectionIsDisposable'
  BY DEF Fail, DisposableInv, ProjectionIsDisposable, InLedger, store
<1>2. MigrationFirst'
  BY CurrentType DEF Fail, TypeInv, TypeOK, DisposableInv, ProjectionIsDisposable, MigrationFirst,
     Goto, store
<1> QED BY <1>1, <1>2 DEF DisposableInv

LEMMA DropDisposable == ASSUME TypeInv, DisposableInv, Drop PROVE DisposableInv'
BY DEF Drop, DisposableInv, ProjectionIsDisposable, MigrationFirst, InLedger

LEMMA DisposableStep == TypeInv /\ DisposableInv /\ [Next]_vars => DisposableInv'
<1> SUFFICES ASSUME TypeInv, DisposableInv, [Next]_vars PROVE DisposableInv'
  OBVIOUS
<1>1. CASE Drop
  BY <1>1, DropDisposable
<1>2. ASSUME NEW c \in Callers, Request(c) PROVE DisposableInv'
  BY <1>2, StartDisposable, CountTableDisposable, ReadPageDisposable, CompareDisposable,
     MigrateCountDisposable, MigrateReadDisposable, InsertDisposable, CommitDisposable,
     LoadedDisposable, ClearDisposable, RebuildDisposable, GetParentDisposable,
     GetOwnDisposable, AnswerDisposable, FailDisposable DEF Request
<1>3. CASE UNCHANGED vars
  BY <1>3 DEF vars, store, locals, history, DisposableInv, ProjectionIsDisposable,
              MigrationFirst, InLedger
<1> QED BY <1>1, <1>2, <1>3 DEF Next

\* Whatever migrations, creates, rebuilds and clearings interleave and fail,
\* a ledger that holds anything holds every old grant and every grant of the
\* projection; an empty one has left the old grants where they were.
THEOREM ProjectionStaysDisposable == Spec => []ProjectionIsDisposable
<1>1. Spec => [](TypeInv /\ DisposableInv)
  BY InitType, InitDisposable, TypeStep, DisposableStep, PTL DEF Spec
<1>2. DisposableInv => ProjectionIsDisposable
  BY DEF DisposableInv
<1> QED BY <1>1, <1>2, PTL

-----------------------------------------------------------------------------
(* An entry of a change set is appended once. *)

Key(r) == <<r.set, r.order>>

\* A batch is one change set with one row per order.
OneChangeSet(rows) == \A r, q \in rows : r.set = q.set /\ (r.order = q.order => r = q)

\* Open transactions hold entries that are neither in the ledger nor of a
\* change set that another open transaction is inserting.
AppendInv ==
    /\ EntriesAreAppendedOnce
    /\ \A c \in Callers : OneChangeSet(batch[c])
    /\ \A c \in Callers : IsWriting(c) => \A r \in batch[c], q \in ledger : Key(q) # Key(r)
    /\ \A c, d \in Callers : c # d /\ IsWriting(c) /\ IsWriting(d) =>
         \A r \in batch[c], q \in batch[d] : r.set # q.set

LEMMA InitAppend == Init => AppendInv
BY DEF Init, AppendInv, EntriesAreAppendedOnce, OneChangeSet, IsWriting

\* A step that commits nothing and leaves no new batch in a transaction.
LEMMA AppendFrame ==
  ASSUME AppendInv, ledger' = ledger,
         \A c \in Callers : \/ batch'[c] = batch[c] /\ (IsWriting(c)' => IsWriting(c))
                            \/ OneChangeSet(batch'[c]) /\ ~IsWriting(c)'
  PROVE  AppendInv'
<1>1. EntriesAreAppendedOnce'
  BY DEF AppendInv, EntriesAreAppendedOnce
<1>2. \A c \in Callers : OneChangeSet(batch'[c]) /\ (IsWriting(c)' => IsWriting(c) /\ batch'[c] = batch[c])
  BY DEF AppendInv
<1> QED BY <1>1, <1>2 DEF AppendInv, OneChangeSet

LEMMA LegacyRowsAreOneChangeSet == ASSUME TypeOK PROVE OneChangeSet(LegacyRows)
<1> DEFINE older(g) == {h \in table : Rank[h] < Rank[g]}
           order(g) == Cardinality(older(g))
<1>1. ASSUME NEW g \in table, NEW h \in table, Rank[g] < Rank[h] PROVE order(g) < order(h)
  <2>1. Rank[g] \in Nat /\ Rank[h] \in Nat /\ \A k \in table : Rank[k] \in Nat
    BY RankAssumption DEF TypeOK
  <2>2. older(g) \in SUBSET older(h) /\ older(g) # older(h)
    BY <1>1, <2>1
  <2>3. IsFiniteSet(older(h)) /\ order(h) \in Nat /\ order(g) \in Nat
    BY TableFinite, NatCardinality, FS_CardinalityType
  <2> QED BY <2>2, <2>3, FS_Subset
<1>2. ASSUME NEW g \in table, NEW h \in table, order(g) = order(h) PROVE g = h
  <2>1. Rank[g] \in Nat /\ Rank[h] \in Nat /\ (Rank[g] = Rank[h] => g = h)
    BY RankAssumption DEF TypeOK
  <2>2. order(g) \in Nat /\ order(h) \in Nat
    BY TableFinite, NatCardinality
  <2> HIDE DEF order
  <2> QED BY <1>1, <1>2, <2>1, <2>2
<1> DEFINE row(g) == [id |-> 0, set |-> Migration, order |-> order(g),
                      grant |-> g, parent |-> parent[g]]
<1>3. LegacyRows = {row(g) : g \in table}
  BY DEF LegacyRows
<1>4. ASSUME NEW r \in LegacyRows, NEW q \in LegacyRows
      PROVE  r.set = q.set /\ (r.order = q.order => r = q)
  <2>1. PICK g \in table : r = row(g)
    BY <1>3
  <2>2. PICK h \in table : q = row(h)
    BY <1>3
  <2> HIDE DEF order
  <2>3. /\ r.set = Migration /\ r.order = order(g)
        /\ q.set = Migration /\ q.order = order(h)
    BY <2>1, <2>2
  <2> QED BY <1>2, <2>1, <2>2, <2>3
<1> QED BY <1>4 DEF OneChangeSet

LEMMA NumberedIsOneChangeSet ==
  ASSUME NEW c \in Callers, OneChangeSet(batch[c])
  PROVE  LET new == Numbered(Absent(batch[c]))
         IN  /\ OneChangeSet(new)
             /\ \A r \in new, q \in ledger : Key(q) # Key(r)
             /\ \A r \in new : \E q \in batch[c] : r.set = q.set
<1> DEFINE rows == Absent(batch[c])
           row(r) == [r EXCEPT !.id = nextRow + Cardinality({q \in rows : q.order < r.order})]
           new == Numbered(rows)
<1>1. new = {row(r) : r \in rows}
  BY DEF Numbered
<1>2. rows \subseteq batch[c] /\ \A r \in rows, q \in ledger : Key(q) # Key(r)
  BY DEF Absent, Key
<1>3. \A r \in rows : row(r).set = r.set /\ row(r).order = r.order
  OBVIOUS
<1> HIDE DEF rows, row, new
<1>4. OneChangeSet(new)
  BY <1>1, <1>2, <1>3 DEF OneChangeSet
<1>5. \A r \in new, q \in ledger : Key(q) # Key(r)
  BY <1>1, <1>2, <1>3 DEF Key
<1>6. \A r \in new : \E q \in batch[c] : r.set = q.set
  BY <1>1, <1>2, <1>3
<1> QED BY <1>4, <1>5, <1>6 DEF new, rows

LEMMA InsertAppend ==
  ASSUME TypeInv, AppendInv, NEW c \in Callers, Insert(c)
  PROVE  AppendInv'
<1> DEFINE new == Numbered(Absent(batch[c]))
<1>1. /\ OneChangeSet(new)
      /\ \A r \in new, q \in ledger : Key(q) # Key(r)
      /\ \A r \in new : \E q \in batch[c] : r.set = q.set
  BY NumberedIsOneChangeSet DEF AppendInv
<1>2. /\ ledger' = ledger /\ batch'[c] = new
      /\ \A d \in Callers : d # c => batch'[d] = batch[d] /\ (IsWriting(d)' <=> IsWriting(d))
  BY DEF Insert, Goto, IsWriting, TypeInv, TypeOK
<1>3. \A d \in Callers : IsWriting(d) =>
        \A r \in batch[c], q \in batch[d] : q.set # r.set
  BY DEF Insert, MustWait
<1> HIDE DEF new
<1>4. EntriesAreAppendedOnce'
  BY <1>2 DEF AppendInv, EntriesAreAppendedOnce
<1>5. ASSUME NEW d \in Callers
      PROVE  OneChangeSet(batch'[d]) /\ (IsWriting(d)' => \A r \in batch'[d], q \in ledger : Key(q) # Key(r))
  BY <1>1, <1>2 DEF AppendInv
<1>6. ASSUME NEW a \in Callers, NEW d \in Callers, a # d, IsWriting(a)', IsWriting(d)',
             NEW r \in batch'[a], NEW q \in batch'[d]
      PROVE  r.set # q.set
  <2>1. CASE a = c
    BY <1>1, <1>2, <1>3, <1>6, <2>1
  <2>2. CASE d = c
    BY <1>1, <1>2, <1>3, <1>6, <2>2
  <2>3. CASE a # c /\ d # c
    BY <1>2, <1>6, <2>3 DEF AppendInv
  <2> QED BY <2>1, <2>2, <2>3
<1> QED BY <1>2, <1>4, <1>5, <1>6 DEF AppendInv, OneChangeSet, Key

LEMMA CommitAppend ==
  ASSUME TypeInv, AppendInv, NEW c \in Callers, Commit(c)
  PROVE  AppendInv'
<1>1. /\ ledger' = ledger \cup batch[c] /\ batch'[c] = {} /\ IsWriting(c)
      /\ \A d \in Callers : d # c => batch'[d] = batch[d] /\ (IsWriting(d)' <=> IsWriting(d))
  BY DEF Commit, Goto, IsWriting, TypeInv, TypeOK
<1>2. EntriesAreAppendedOnce'
  BY <1>1 DEF AppendInv, EntriesAreAppendedOnce, OneChangeSet, Key
<1>3. ASSUME NEW d \in Callers, IsWriting(d)', NEW r \in batch'[d], NEW q \in ledger'
      PROVE  Key(q) # Key(r)
  <2>1. d # c /\ IsWriting(d) /\ r \in batch[d]
    BY <1>1, <1>3
  <2>2. CASE q \in ledger
    BY <2>1, <2>2 DEF AppendInv
  <2>3. CASE q \in batch[c]
    BY <1>1, <2>1, <2>3 DEF AppendInv, Key
  <2> QED BY <1>1, <2>2, <2>3
<1>4. \A d \in Callers : OneChangeSet(batch'[d])
  BY <1>1 DEF AppendInv, OneChangeSet
<1>5. \A a, d \in Callers : a # d /\ IsWriting(a)' /\ IsWriting(d)' =>
        \A r \in batch'[a], q \in batch'[d] : r.set # q.set
  BY <1>1 DEF AppendInv
<1> QED BY <1>2, <1>3, <1>4, <1>5 DEF AppendInv, OneChangeSet, Key

LEMMA AppendStep == TypeInv /\ AppendInv /\ [Next]_vars => AppendInv'
<1> SUFFICES ASSUME TypeInv, AppendInv, [Next]_vars PROVE AppendInv'
  OBVIOUS
<1>0. /\ pc \in [Callers -> Steps] /\ batch \in [Callers -> SUBSET Rows]
      /\ OneChangeSet({}) /\ \A r : OneChangeSet({r})
  BY DEF TypeInv, TypeOK, OneChangeSet
<1>1. CASE Drop
  BY <1>1, AppendFrame DEF Drop, IsWriting
<1>2. ASSUME NEW c \in Callers, Request(c) PROVE AppendInv'
  <2>1. CASE MigrateRead(c)
    BY <1>0, <2>1, LegacyRowsAreOneChangeSet, AppendFrame
       DEF MigrateRead, Goto, IsWriting, store, TypeInv
  <2>2. CASE GetParent(c)
    BY <1>0, <2>2, AppendFrame DEF GetParent, Goto, IsWriting, store
  <2>3. CASE Fail(c)
    BY <1>0, <2>3, AppendFrame DEF Fail, Goto, IsWriting, store
  <2>4. CASE Start(c) \/ CountTable(c) \/ MigrateCount(c) \/ Loaded(c) \/ Clear(c)
               \/ GetOwn(c) \/ Answer(c)
    BY <1>0, <2>4, AppendFrame
       DEF Start, CountTable, MigrateCount, Loaded, Clear, GetOwn, Answer, Goto, IsWriting, store
  <2>5. CASE ReadPage(c)
    BY <2>5, AppendFrame DEF ReadPage, IsWriting, store
  <2>6. CASE Compare(c) \/ Rebuild(c)
    BY <1>0, <2>6, CurrentType, AppendFrame DEF Compare, Rebuild, Goto, IsWriting, store, TypeInv
  <2> QED BY <1>2, <2>1, <2>2, <2>3, <2>4, <2>5, <2>6, InsertAppend, CommitAppend DEF Request
<1>3. CASE UNCHANGED vars
  BY <1>3, AppendFrame DEF vars, store, locals, IsWriting
<1> QED BY <1>1, <1>2, <1>3 DEF Next

\* However often a create is retried and however many requests migrate at
\* once, no entry of a change set is in the ledger twice.
THEOREM EntriesAppendOnce == Spec => []EntriesAreAppendedOnce
<1>1. Spec => [](TypeInv /\ AppendInv)
  BY InitType, InitAppend, TypeStep, AppendStep, PTL DEF Spec
<1>2. AppendInv => EntriesAreAppendedOnce
  BY DEF AppendInv
<1> QED BY <1>1, <1>2, PTL

-----------------------------------------------------------------------------
(* Why comparing two counts is enough: no request goes on before the       *)
(* projection has caught up with what the ledger held when it came in, and *)
(* one that runs alone sees exactly the ledger, for any number of rows per *)
(* page.                                                                   *)

\* What a paging loop will have read if nothing more is committed.
Reach(c) == seen[c] \cup Beyond(c)

CatchesUp(c) ==
    /\ pc[c] # "new" => owed[c] \subseteq InLedger
    /\ pc[c] # "new" /\ owed[c] \subseteq table => caught[c]
    /\ pc[c] = "check" /\ ~caught[c] => counted[c] < Cardinality(Reach(c))
    /\ pc[c] = "load" => owed[c] \subseteq GrantsOf(Reach(c))
    /\ pc[c] \in {"clear", "rebuild"} => owed[c] \subseteq GrantsOf(seen[c])
    /\ pc[c] \in {"answer", "get_parent", "get_own"} => caught[c]

CatchingUp == \A c \in Callers : CatchesUp(c)

-----------------------------------------------------------------------------
(* The paging loops. *)

\* A loop that starts now will read the whole ledger.
LEMMA ReachAll ==
  ASSUME TypeInv, NEW c \in Callers, after[c] = 0, seen[c] = {}
  PROVE  Reach(c) = ledger
<1>1. \A r \in ledger : r.id > 0
  BY DEF TypeInv, TypeOK, Numbers, Rows
<1> QED BY <1>1 DEF Reach, Beyond

\* Pages leave no gap: a page holds every row up to its last one.
LEMMA PagesLeaveNoGap ==
  ASSUME TypeInv, NEW c \in Callers, ReadPage(c)
  PROVE  Reach(c)' = Reach(c)
<1> DEFINE below(r) == {q \in Beyond(c) : q.id < r.id}
<1>1. PICK last \in NextPage(c) :
        (\A r \in NextPage(c) : r.id <= last.id) /\ after' = [after EXCEPT ![c] = last.id]
  BY DEF ReadPage
<1>2. Beyond(c) \in SUBSET ledger /\ \A r \in Beyond(c) : r.id \in Nat /\ r.id > after[c]
  BY DEF Beyond, TypeInv, TypeOK, Rows
<1>3. last \in Beyond(c) /\ Cardinality(below(last)) < PageLimit /\ after[c] \in Nat
  BY <1>1 DEF NextPage, TypeInv, TypeOK
<1>4. ASSUME NEW r \in Beyond(c), r.id <= last.id PROVE r \in NextPage(c)
  <2>1. below(r) \in SUBSET below(last) /\ below(last) \in SUBSET ledger
    BY <1>2, <1>3, <1>4
  <2>2. /\ Cardinality(below(r)) \in Nat /\ Cardinality(below(last)) \in Nat
        /\ Cardinality(below(r)) <= Cardinality(below(last))
    BY <2>1, NatCardinality, FS_CardinalityType DEF TypeInv, Finite
  <2> HIDE DEF below
  <2>3. Cardinality(below(r)) < PageLimit
    BY <1>3, <2>2, PageAssumption
  <2> QED BY <2>3 DEF NextPage, below
<1>5. Beyond(c)' = {r \in Beyond(c) : r.id > last.id}
  <2>1. ledger' = ledger /\ after'[c] = last.id
    BY <1>1 DEF ReadPage, store, TypeInv, TypeOK
  <2> QED BY <1>2, <1>3, <2>1 DEF Beyond, TypeInv, TypeOK, Rows
<1>6. seen'[c] = seen[c] \cup NextPage(c) /\ NextPage(c) \subseteq Beyond(c)
  BY DEF ReadPage, NextPage, TypeInv, TypeOK
<1>7. \A r \in Beyond(c) : r \in NextPage(c) \/ r \in Beyond(c)'
  BY <1>2, <1>3, <1>4, <1>5
<1> QED BY <1>5, <1>6, <1>7 DEF Reach

\* What other requests commit only adds to what a loop will have read.
LEMMA ReachGrows ==
  ASSUME TypeInv, TypeInv', NEW c \in Callers,
         seen'[c] = seen[c], after'[c] = after[c], ledger \subseteq ledger'
  PROVE  /\ GrantsOf(Reach(c)) \subseteq GrantsOf(Reach(c)')
         /\ Cardinality(Reach(c)) \in Nat /\ Cardinality(Reach(c)') \in Nat
         /\ Cardinality(Reach(c)) <= Cardinality(Reach(c)')
<1>1. Reach(c) \in SUBSET Reach(c)' /\ Reach(c)' \in SUBSET ledger'
  BY DEF Reach, Beyond, TypeInv, Loops
<1>2. IsFiniteSet(ledger')
  BY DEF TypeInv, Finite
<1>3. IsFiniteSet(Reach(c)')
  BY <1>1, <1>2, NatCardinality
<1> QED BY <1>1, <1>3, NatCardinality, FS_CardinalityType DEF GrantsOf

\* A table that lacks a grant of the ledger has fewer rows than the ledger.
LEMMA FewerThanTheLedger ==
  ASSUME TypeInv, ProjectionIsDisposable, NEW G \in SUBSET InLedger, ~ (G \subseteq table)
  PROVE  Cardinality(table) < Cardinality(ledger)
<1>1. ledger # {}
  BY DEF InLedger, GrantsOf
<1>2. table \in SUBSET InLedger /\ table # InLedger
  BY <1>1 DEF ProjectionIsDisposable
<1>3. IsFiniteSet(InLedger) /\ Cardinality(InLedger) <= Cardinality(ledger)
  BY FewerGrants DEF TypeInv, Finite, InLedger
<1>4. /\ Cardinality(table) \in Nat /\ Cardinality(InLedger) \in Nat
      /\ Cardinality(ledger) \in Nat
  BY <1>2, <1>3, NatCardinality, FS_CardinalityType DEF TypeInv, Finite
<1>5. Cardinality(table) < Cardinality(InLedger)
  BY <1>2, <1>3, <1>4, FS_Subset
<1> QED BY <1>3, <1>4, <1>5

-----------------------------------------------------------------------------
(* What a request keeps while another one acts, and while it acts itself. *)

LEMMA OthersCatchUp ==
  ASSUME TypeInv, TypeInv', NEW c \in Callers, CatchesUp(c),
         pc'[c] = pc[c], counted'[c] = counted[c], seen'[c] = seen[c], after'[c] = after[c],
         owed'[c] = owed[c], ledger \subseteq ledger', caught[c] => caught'[c],
         pc[c] # "new" /\ owed[c] \subseteq table' => caught'[c]
  PROVE  CatchesUp(c)'
<1>1. /\ GrantsOf(Reach(c)) \subseteq GrantsOf(Reach(c)')
      /\ Cardinality(Reach(c)) \in Nat /\ Cardinality(Reach(c)') \in Nat
      /\ Cardinality(Reach(c)) <= Cardinality(Reach(c)')
  BY ReachGrows
<1>2. InLedger \subseteq InLedger'
  BY DEF InLedger, GrantsOf
<1>3. counted[c] \in Nat
  BY DEF TypeInv, TypeOK
<1> QED BY <1>1, <1>2, <1>3 DEF CatchesUp

LEMMA InitCatchingUp == Init => CatchingUp
BY DEF Init, CatchingUp, CatchesUp

LEMMA StartCatchingUp ==
  ASSUME TypeInv, TypeInv', CatchingUp, NEW c \in Callers, Start(c)
  PROVE  CatchingUp'
<1>1. ASSUME NEW d \in Callers, d # c PROVE CatchesUp(d)'
  BY <1>1, OthersCatchUp DEF Start, Goto, store, TypeInv, TypeOK, CatchingUp, CatchesUp
<1>2. CatchesUp(c)'
  BY DEF Start, Goto, store, TypeInv, TypeOK, CatchesUp, InLedger
<1> QED BY <1>1, <1>2 DEF CatchingUp

LEMMA CountTableCatchingUp ==
  ASSUME TypeInv, TypeInv', DisposableInv, CatchingUp, NEW c \in Callers, CountTable(c)
  PROVE  CatchingUp'
<1>1. ASSUME NEW d \in Callers, d # c PROVE CatchesUp(d)'
  BY <1>1, OthersCatchUp DEF CountTable, Goto, store, history, TypeInv, TypeOK, CatchingUp, CatchesUp
<1>2. CatchesUp(c)'
  <2>1. Reach(c)' = ledger
    <3>1. after[c] = 0 /\ seen[c] = {}
      BY DEF CountTable, TypeInv, Loops
    <3>2. Reach(c) = ledger
      BY <3>1, ReachAll
    <3> QED BY <3>2 DEF CountTable, Reach, Beyond, store
  <2>2. owed[c] \subseteq InLedger /\ (owed[c] \subseteq table => caught[c])
    BY DEF CountTable, CatchingUp, CatchesUp
  <2>3. ~caught[c] => Cardinality(table) < Cardinality(ledger)
    BY <2>2, FewerThanTheLedger DEF DisposableInv
  <2> QED BY <2>1, <2>2, <2>3 DEF CountTable, Goto, store, history, TypeInv, TypeOK, CatchesUp, InLedger
<1> QED BY <1>1, <1>2 DEF CatchingUp

LEMMA ReadPageCatchingUp ==
  ASSUME TypeInv, TypeInv', CatchingUp, NEW c \in Callers, ReadPage(c)
  PROVE  CatchingUp'
<1>1. PICK last \in NextPage(c) : after' = [after EXCEPT ![c] = last.id]
  BY DEF ReadPage
<1>2. ASSUME NEW d \in Callers, d # c PROVE CatchesUp(d)'
  BY <1>1, <1>2, OthersCatchUp DEF ReadPage, store, history, TypeInv, TypeOK, CatchingUp, CatchesUp
<1>3. CatchesUp(c)'
  BY PagesLeaveNoGap DEF ReadPage, store, history, CatchingUp, CatchesUp, InLedger
<1> QED BY <1>2, <1>3 DEF CatchingUp

LEMMA CompareCatchingUp ==
  ASSUME TypeInv, TypeInv', CatchingUp, NEW c \in Callers, Compare(c)
  PROVE  CatchingUp'
<1>1. ASSUME NEW d \in Callers, d # c PROVE CatchesUp(d)'
  BY <1>1, OthersCatchUp DEF Compare, Goto, store, history, TypeInv, TypeOK, CatchingUp, CatchesUp
<1>2. CatchesUp(c)'
  <2>1. Reach(c) = seen[c]
    BY DEF Compare, Reach
  <2>2. NeedsMaterialize(c) \/ caught[c]
    <3>1. counted[c] \in Nat
      BY DEF TypeInv, TypeOK
    <3> QED BY <2>1, <3>1 DEF Compare, CatchingUp, CatchesUp, NeedsMaterialize
  <2> QED BY <2>2, CurrentType
          DEF Compare, Goto, store, history, TypeInv, TypeOK, CatchingUp, CatchesUp, InLedger
<1> QED BY <1>1, <1>2 DEF CatchingUp

LEMMA MigrateCountCatchingUp ==
  ASSUME TypeInv, TypeInv', CatchingUp, NEW c \in Callers, MigrateCount(c)
  PROVE  CatchingUp'
<1>1. ASSUME NEW d \in Callers, d # c PROVE CatchesUp(d)'
  BY <1>1, OthersCatchUp DEF MigrateCount, Goto, store, history, TypeInv, TypeOK, CatchingUp, CatchesUp
<1>2. CatchesUp(c)'
  <2>1. Reach(c)' = ledger
    <3>1. after[c] = 0 /\ seen[c] = {}
      BY DEF MigrateCount, TypeInv, Loops
    <3>2. Reach(c) = ledger
      BY <3>1, ReachAll
    <3> QED BY <3>2 DEF MigrateCount, Reach, Beyond, store
  <2> QED BY <2>1 DEF MigrateCount, Goto, store, history, TypeInv, TypeOK, CatchingUp, CatchesUp, InLedger
<1> QED BY <1>1, <1>2 DEF CatchingUp

LEMMA MigrateReadCatchingUp ==
  ASSUME TypeInv, TypeInv', CatchingUp, NEW c \in Callers, MigrateRead(c)
  PROVE  CatchingUp'
<1>1. ASSUME NEW d \in Callers, d # c PROVE CatchesUp(d)'
  BY <1>1, OthersCatchUp DEF MigrateRead, Goto, store, history, TypeInv, TypeOK, CatchingUp, CatchesUp
<1>2. CatchesUp(c)'
  <2>1. Reach(c)' = ledger
    <3>1. after[c] = 0 /\ seen[c] = {}
      BY DEF MigrateRead, TypeInv, Loops
    <3>2. Reach(c) = ledger
      BY <3>1, ReachAll
    <3> QED BY <3>2 DEF MigrateRead, Reach, Beyond, store
  <2> QED BY <2>1 DEF MigrateRead, Goto, store, history, TypeInv, TypeOK, CatchingUp, CatchesUp, InLedger
<1> QED BY <1>1, <1>2 DEF CatchingUp

LEMMA InsertCatchingUp ==
  ASSUME TypeInv, TypeInv', CatchingUp, NEW c \in Callers, Insert(c)
  PROVE  CatchingUp'
<1>1. ASSUME NEW d \in Callers, d # c PROVE CatchesUp(d)'
  BY <1>1, OthersCatchUp DEF Insert, Goto, history, TypeInv, TypeOK, CatchingUp, CatchesUp
<1>2. CatchesUp(c)'
  BY DEF Insert, Goto, history, TypeInv, TypeOK, CatchingUp, CatchesUp, InLedger
<1> QED BY <1>1, <1>2 DEF CatchingUp

LEMMA CommitCatchingUp ==
  ASSUME TypeInv, TypeInv', CatchingUp, NEW c \in Callers, Commit(c)
  PROVE  CatchingUp'
<1>1. ASSUME NEW d \in Callers, d # c PROVE CatchesUp(d)'
  BY <1>1, OthersCatchUp DEF Commit, Goto, history, TypeInv, TypeOK, CatchingUp, CatchesUp
<1>2. CatchesUp(c)'
  <2>1. Reach(c)' = ledger'
    <3>1. after'[c] = 0 /\ seen'[c] = {}
      BY DEF Commit, IsWriting, TypeInv, Loops
    <3>2. \A r \in ledger' : r.id > 0
      BY DEF TypeInv, TypeOK, Numbers, Rows
    <3> QED BY <3>1, <3>2 DEF Reach, Beyond
  <2>2. InLedger \subseteq InLedger'
    BY DEF Commit, InLedger, GrantsOf
  <2> QED BY <2>1, <2>2
          DEF Commit, IsWriting, Goto, history, TypeInv, TypeOK, CatchingUp, CatchesUp, InLedger
<1> QED BY <1>1, <1>2 DEF CatchingUp

LEMMA LoadedCatchingUp ==
  ASSUME TypeInv, TypeInv', CatchingUp, NEW c \in Callers, Loaded(c)
  PROVE  CatchingUp'
<1>1. ASSUME NEW d \in Callers, d # c PROVE CatchesUp(d)'
  BY <1>1, OthersCatchUp DEF Loaded, Goto, store, history, TypeInv, TypeOK, CatchingUp, CatchesUp
<1>2. CatchesUp(c)'
  BY DEF Loaded, Reach, Goto, store, history, TypeInv, TypeOK, CatchingUp, CatchesUp, InLedger
<1> QED BY <1>1, <1>2 DEF CatchingUp

LEMMA ClearCatchingUp ==
  ASSUME TypeInv, TypeInv', CatchingUp, NEW c \in Callers, Clear(c)
  PROVE  CatchingUp'
<1>1. ASSUME NEW d \in Callers, d # c PROVE CatchesUp(d)'
  BY <1>1, OthersCatchUp DEF Clear, Goto, store, history, TypeInv, TypeOK, CatchingUp, CatchesUp
<1>2. CatchesUp(c)'
  BY DEF Clear, Goto, store, history, TypeInv, TypeOK, CatchingUp, CatchesUp, InLedger
<1> QED BY <1>1, <1>2 DEF CatchingUp

LEMMA RebuildCatchingUp ==
  ASSUME TypeInv, TypeInv', CatchingUp, NEW c \in Callers, Rebuild(c)
  PROVE  CatchingUp'
<1>0. \A d \in Callers : caught'[d] <=> caught[d] \/ (pc[d] # "new" /\ owed[d] \subseteq table')
  BY Zenon DEF Rebuild, TypeInv, TypeOK
<1>1. ASSUME NEW d \in Callers, d # c PROVE CatchesUp(d)'
  BY <1>0, <1>1, OthersCatchUp DEF Rebuild, Goto, TypeInv, TypeOK, CatchingUp, CatchesUp
<1>2. CatchesUp(c)'
  <2>1. owed[c] \subseteq table'
    BY DEF Rebuild, CatchingUp, CatchesUp
  <2>2. caught'[c]
    BY <1>0, <2>1 DEF Rebuild
  <2> QED BY <2>1, <2>2, CurrentType
          DEF Rebuild, Goto, TypeInv, TypeOK, CatchingUp, CatchesUp, InLedger
<1> QED BY <1>1, <1>2 DEF CatchingUp

LEMMA GetParentCatchingUp ==
  ASSUME TypeInv, TypeInv', CatchingUp, NEW c \in Callers, GetParent(c)
  PROVE  CatchingUp'
<1>1. ASSUME NEW d \in Callers, d # c PROVE CatchesUp(d)'
  BY <1>1, OthersCatchUp DEF GetParent, Goto, store, history, TypeInv, TypeOK, CatchingUp, CatchesUp
<1>2. CatchesUp(c)'
  BY DEF GetParent, Goto, store, history, TypeInv, TypeOK, CatchingUp, CatchesUp, InLedger
<1> QED BY <1>1, <1>2 DEF CatchingUp

LEMMA EndCatchingUp ==
  ASSUME TypeInv, TypeInv', CatchingUp, NEW c \in Callers, GetOwn(c) \/ Answer(c) \/ Fail(c)
  PROVE  CatchingUp'
<1>1. ASSUME NEW d \in Callers, d # c PROVE CatchesUp(d)'
  BY <1>1, OthersCatchUp
     DEF GetOwn, Answer, Fail, Goto, store, history, TypeInv, TypeOK, CatchingUp, CatchesUp
<1>2. CatchesUp(c)'
  BY DEF GetOwn, Answer, Fail, Over, Goto, store, history, TypeInv, TypeOK, CatchingUp, CatchesUp,
         InLedger
<1> QED BY <1>1, <1>2 DEF CatchingUp

LEMMA DropCatchingUp ==
  ASSUME TypeInv, TypeInv', CatchingUp, Drop
  PROVE  CatchingUp'
BY OthersCatchUp DEF Drop, CatchingUp, CatchesUp

LEMMA CatchingUpStep ==
  TypeInv /\ TypeInv' /\ DisposableInv /\ CatchingUp /\ [Next]_vars => CatchingUp'
<1> SUFFICES ASSUME TypeInv, TypeInv', DisposableInv, CatchingUp, [Next]_vars PROVE CatchingUp'
  OBVIOUS
<1>1. CASE Drop
  BY <1>1, DropCatchingUp
<1>2. ASSUME NEW c \in Callers, Request(c) PROVE CatchingUp'
  BY <1>2, StartCatchingUp, CountTableCatchingUp, ReadPageCatchingUp, CompareCatchingUp,
     MigrateCountCatchingUp, MigrateReadCatchingUp, InsertCatchingUp, CommitCatchingUp,
     LoadedCatchingUp, ClearCatchingUp, RebuildCatchingUp, GetParentCatchingUp,
     EndCatchingUp DEF Request
<1>3. CASE UNCHANGED vars
  BY <1>3 DEF vars, store, locals, history, CatchingUp, CatchesUp, InLedger, Reach, Beyond
<1> QED BY <1>1, <1>2, <1>3 DEF Next

\* Whatever other requests clear, rebuild, append or fail to do, a request
\* that answers, or goes on to check a superseded grant, has seen the
\* projection hold all that the ledger held when the request came in.
THEOREM RequestsCatchUp == Spec => []CaughtUp
<1>1. Spec => [](TypeInv /\ DisposableInv /\ CatchingUp)
  BY InitType, InitDisposable, InitCatchingUp, TypeStep, DisposableStep, CatchingUpStep, PTL DEF Spec
<1>2. CatchingUp => CaughtUp
  BY DEF CatchingUp, CatchesUp, CaughtUp
<1> QED BY <1>1, <1>2, PTL

-----------------------------------------------------------------------------
(* A request that runs alone. *)

Running(c) == pc[c] \notin Over \cup {"new"}

\* What holds while no other request has run since this one came in.
Undisturbed(c) ==
    /\ \A d \in Callers \ {c} : ~Running(d)
    /\ pc[c] = "check" => counted[c] = Cardinality(table)
    /\ pc[c] \in {"check", "load"} => Reach(c) = ledger
    /\ pc[c] \in {"clear", "rebuild"} => seen[c] = ledger
    /\ pc[c] = "rebuild" => doomed[c] = table
    /\ pc[c] \in {"answer", "get_parent", "get_own"} => table = InLedger

QuietInv == \A c \in Callers : Running(c) /\ alone[c] => Undisturbed(c)

LEMMA InitQuiet == Init => QuietInv
BY DEF Init, QuietInv, Running

\* Equal counts mean equal sets.
LEMMA CountsAgree ==
  ASSUME TypeInv, ProjectionIsDisposable, Cardinality(table) = Cardinality(ledger)
  PROVE  table = InLedger
<1>1. CASE ledger = {}
  <2>1. Cardinality(table) = 0 /\ IsFiniteSet(table)
    BY <1>1, FS_EmptySet, TableFinite DEF TypeInv
  <2> QED BY <1>1, <2>1, FS_EmptySet DEF InLedger, GrantsOf
<1>2. CASE ledger # {}
  <2>1. table \in SUBSET InLedger
    BY <1>2 DEF ProjectionIsDisposable
  <2>2. IsFiniteSet(InLedger) /\ Cardinality(InLedger) <= Cardinality(ledger)
    BY FewerGrants DEF TypeInv, Finite, InLedger
  <2>3. Cardinality(table) \in Nat /\ Cardinality(InLedger) \in Nat
    BY <2>1, <2>2, NatCardinality
  <2>4. Cardinality(table) <= Cardinality(InLedger)
    BY <2>1, <2>2, NatCardinality
  <2>5. Cardinality(table) = Cardinality(InLedger)
    BY <2>2, <2>3, <2>4
  <2> QED BY <2>1, <2>2, <2>5, FS_Subset
<1> QED BY <1>1, <1>2

\* A request that acts while another one is undisturbed is just coming in,
\* and ends its quiet.
LEMMA OthersDisturb ==
  ASSUME TypeInv, QuietInv, NEW c \in Callers, Request(c), NEW d \in Callers, d # c,
         Running(d)', alone'[d]
  PROVE  FALSE
<1>1. Running(d)
  BY DEF Request, Start, CountTable, ReadPage, Compare, MigrateCount, MigrateRead, Insert, Commit,
         Loaded, Clear, Rebuild, GetParent, GetOwn, Answer, Fail, Goto, Running, TypeInv, TypeOK
<1>2. CASE Start(c)
  <2>1. d \in {e \in Callers \ {c} : pc[e] \notin Over \cup {"new"}}
    BY <1>1 DEF Running
  <2>2. ~alone'[d]
    BY <1>2, <2>1 DEF Start
  <2> QED BY <2>2
<1>3. CASE ~Start(c)
  <2>1. Running(c) /\ alone' = alone
    BY <1>3 DEF Request, CountTable, ReadPage, Compare, MigrateCount, MigrateRead, Insert, Commit,
       IsWriting, Loaded, Clear, Rebuild, GetParent, GetOwn, Answer, Fail, Running, Over, history
  <2> QED BY <1>1, <2>1 DEF QuietInv, Undisturbed
<1> QED BY <1>2, <1>3

LEMMA OthersStayOut ==
  ASSUME TypeInv, NEW c \in Callers, Request(c), NEW d \in Callers, d # c, ~Running(d)
  PROVE  ~Running(d)'
BY DEF Request, Start, CountTable, ReadPage, Compare, MigrateCount, MigrateRead, Insert, Commit,
       Loaded, Clear, Rebuild, GetParent, GetOwn, Answer, Fail, Goto, Running, TypeInv, TypeOK

\* An undisturbed request sees the ledger.
LEMMA UndisturbedStep ==
  ASSUME TypeInv, TypeInv', DisposableInv, QuietInv, NEW c \in Callers, Request(c),
         Running(c)', alone'[c]
  PROVE  Undisturbed(c)'
<1>0. CASE Start(c)
  <2>1. \A d \in Callers \ {c} : ~Running(d)
    BY <1>0 DEF Start, Running, TypeInv, TypeOK
  <2>2. pc'[c] \in {"count", "migrate_count"}
    BY <1>0 DEF Start, Goto, TypeInv, TypeOK
  <2> QED BY <2>1, <2>2, OthersStayOut DEF Undisturbed
<1> SUFFICES ASSUME ~Start(c) PROVE Undisturbed(c)'
  BY <1>0
<1>1. Running(c) /\ alone[c]
  BY DEF Request, CountTable, ReadPage, Compare, MigrateCount, MigrateRead, Insert, Commit,
     IsWriting, Loaded, Clear, Rebuild, GetParent, GetOwn, Answer, Fail, Running, Over, history
<1>2. Undisturbed(c)
  BY <1>1 DEF QuietInv
<1>3. \A d \in Callers \ {c} : ~Running(d)'
  BY <1>2, OthersStayOut DEF Undisturbed
<1>4. seen'[c] = {} /\ after'[c] = 0 => Reach(c)' = ledger'
  <2>1. \A r \in ledger' : r.id > 0
    BY DEF TypeInv, TypeOK, Numbers, Rows
  <2> QED BY <2>1 DEF Reach, Beyond
<1>5. CASE CountTable(c)
  <2>1. seen[c] = {} /\ after[c] = 0
    BY <1>5 DEF CountTable, TypeInv, Loops
  <2> QED BY <1>3, <1>4, <1>5, <2>1 DEF CountTable, Goto, store, TypeInv, TypeOK, Undisturbed
<1>6. CASE ReadPage(c)
  BY <1>2, <1>3, <1>6, PagesLeaveNoGap DEF ReadPage, store, Undisturbed
<1>7. CASE Compare(c)
  <2>1. seen[c] = ledger /\ counted[c] = Cardinality(table)
    BY <1>2, <1>7 DEF Compare, Undisturbed, Reach
  <2>2. NeedsMaterialize(c) \/ table = InLedger
    BY <2>1, CountsAgree DEF NeedsMaterialize, DisposableInv
  <2>3. pc'[c] \in {"migrate_count", "done"} \/ (pc'[c] \in {"answer", "get_parent", "get_own"}
                                                  /\ table = InLedger)
    BY <1>7, <2>2, CurrentType DEF Compare, Goto, TypeInv, TypeOK
  <2> QED BY <1>3, <1>7, <2>3 DEF Compare, store, Undisturbed, InLedger
<1>8. CASE MigrateCount(c) \/ MigrateRead(c)
  <2>1. seen[c] = {} /\ after[c] = 0
    BY <1>8 DEF MigrateCount, MigrateRead, TypeInv, Loops
  <2> QED BY <1>3, <1>4, <1>8, <2>1
          DEF MigrateCount, MigrateRead, Goto, store, TypeInv, TypeOK, Undisturbed
<1>9. CASE Insert(c)
  BY <1>3, <1>9 DEF Insert, Goto, TypeInv, TypeOK, Undisturbed
<1>10. CASE Commit(c)
  <2>1. seen[c] = {} /\ after[c] = 0
    BY <1>10 DEF Commit, IsWriting, TypeInv, Loops
  <2> QED BY <1>3, <1>4, <1>10, <2>1 DEF Commit, Goto, TypeInv, TypeOK, Undisturbed
<1>11. CASE Loaded(c)
  BY <1>2, <1>3, <1>11 DEF Loaded, Reach, Goto, store, TypeInv, TypeOK, Undisturbed
<1>12. CASE Clear(c)
  BY <1>2, <1>3, <1>12 DEF Clear, Goto, store, TypeInv, TypeOK, Undisturbed
<1>13. CASE Rebuild(c)
  <2>1. table' = InLedger
    BY <1>2, <1>13 DEF Rebuild, Left, Undisturbed, InLedger
  <2> QED BY <1>3, <1>13, <2>1, CurrentType DEF Rebuild, Goto, TypeInv, TypeOK, Undisturbed, InLedger
<1>14. CASE GetParent(c) \/ GetOwn(c) \/ Answer(c) \/ Fail(c)
  BY <1>3, <1>14 DEF GetParent, GetOwn, Answer, Fail, Goto, TypeInv, TypeOK, Undisturbed
<1> QED BY <1>5, <1>6, <1>7, <1>8, <1>9, <1>10, <1>11, <1>12, <1>13, <1>14 DEF Request

LEMMA QuietStep == TypeInv /\ TypeInv' /\ DisposableInv /\ QuietInv /\ [Next]_vars => QuietInv'
<1> SUFFICES ASSUME TypeInv, TypeInv', DisposableInv, QuietInv, [Next]_vars PROVE QuietInv'
  OBVIOUS
<1>1. CASE Drop
  BY <1>1 DEF Drop, QuietInv
<1>2. ASSUME NEW c \in Callers, Request(c) PROVE QuietInv'
  BY <1>2, OthersDisturb, UndisturbedStep DEF QuietInv
<1>3. CASE UNCHANGED vars
  BY <1>3 DEF vars, store, locals, history, QuietInv, Running, Undisturbed, InLedger, Reach, Beyond
<1> QED BY <1>1, <1>2, <1>3 DEF Next

\* A request during which no other runs sees exactly the grants of the
\* ledger, whatever rebuilds were overtaken or failed before it came in.
THEOREM QuietRequestsAreCurrent == Spec => []QuietRequestsSeeTheLedger
<1>1. Spec => [](TypeInv /\ DisposableInv /\ QuietInv)
  BY InitType, InitDisposable, InitQuiet, TypeStep, DisposableStep, QuietStep, PTL DEF Spec
<1>2. QuietInv => QuietRequestsSeeTheLedger
  BY DEF QuietInv, Undisturbed, Running, Over, QuietRequestsSeeTheLedger
<1> QED BY <1>1, <1>2, PTL
-----------------------------------------------------------------------------
(* Why the ledger can always be replayed: a row is numbered after the row  *)
(* of the grant that it supersedes.                                        *)

IsTrue(r) == r.parent \in {None, Supersedes[r.grant]}
Grounded(r, rows) == r.parent \in {None} \cup GrantsOf({q \in rows : q.id < r.id})

\* What a batch that is not numbered yet refers to is in the ledger, or comes
\* before in the batch of a migration.  What a migration has read it need not
\* append, once there is a ledger.
Referring(c) ==
    /\ \A r \in batch[c] : IsTrue(r)
    /\ IsWriting(c) => \A r \in batch[c] : Grounded(r, ledger \cup batch[c])
    /\ pc[c] = "insert" => \A r \in batch[c] : r.parent \in {None} \cup InLedger
    /\ pc[c] = "migrate_insert" =>
         /\ \A r \in batch[c] : r.parent \in {None} \cup GrantsOf({q \in batch[c] : q.order < r.order})
         /\ GrantsOf(batch[c]) \subseteq Legacy \cup InLedger

ReplayInv ==
    /\ LedgerCanBeReplayed /\ SupersessionsAreTrue
    /\ \A c \in Callers : Referring(c)

LEMMA InitReplay == Init => ReplayInv
BY GrantAssumption
   DEF Init, ReplayInv, LedgerCanBeReplayed, SupersessionsAreTrue, Referring, IsWriting

LEMMA GroundedGrows ==
  ASSUME NEW r, NEW R, NEW S, R \subseteq S, Grounded(r, R) PROVE Grounded(r, S)
BY DEF Grounded, GrantsOf

\* A step that appends nothing and leaves the table alone.
LEMMA ReplayFrame ==
  ASSUME ReplayInv, ledger' = ledger, table' = table, parent' = parent,
         \A c \in Callers :
           \/ batch'[c] = {}
           \/ batch'[c] = batch[c]
              /\ (pc'[c] \in {"insert", "migrate_insert", "commit", "migrate_commit"} => pc'[c] = pc[c])
  PROVE  ReplayInv'
<1>1. LedgerCanBeReplayed' /\ SupersessionsAreTrue'
  BY DEF ReplayInv, LedgerCanBeReplayed, SupersessionsAreTrue
<1>2. ASSUME NEW c \in Callers PROVE Referring(c)'
  <2>1. CASE batch'[c] = {}
    BY <2>1 DEF Referring, GrantsOf
  <2>2. CASE batch'[c] = batch[c]
              /\ (pc'[c] \in {"insert", "migrate_insert", "commit", "migrate_commit"} => pc'[c] = pc[c])
    <3>1. InLedger' = InLedger
      BY DEF InLedger
    <3> QED BY <2>2, <3>1 DEF ReplayInv, Referring, IsWriting, IsTrue, Grounded
  <2> QED BY <2>1, <2>2
<1> QED BY <1>1, <1>2 DEF ReplayInv

LEMMA MigrateReadReplay ==
  ASSUME TypeInv, DisposableInv, ReplayInv, NEW c \in Callers, MigrateRead(c)
  PROVE  ReplayInv'
<1> DEFINE older(g) == {h \in table : Rank[h] < Rank[g]}
           order(g) == Cardinality(older(g))
           row(g) == [id |-> 0, set |-> Migration, order |-> order(g),
                      grant |-> g, parent |-> parent[g]]
<1>1. LegacyRows = {row(g) : g \in table} /\ GrantsOf(LegacyRows) = table
  BY LegacyRowsType DEF LegacyRows, TypeInv
<1>2. ASSUME NEW g \in table, parent[g] # None
      PROVE  parent[g] \in table /\ parent[g] = Supersedes[g] /\ order(parent[g]) < order(g)
  <2>1. parent[g] \in table /\ parent[g] = Supersedes[g]
    BY <1>2 DEF ReplayInv, SupersessionsAreTrue
  <2>2. table \subseteq Grants /\ \A h \in table : Rank[h] \in Nat
    BY RankAssumption DEF TypeInv, TypeOK
  <2>3. Rank[parent[g]] < Rank[g]
    BY <1>2, <2>1, <2>2, RankAssumption
  <2>4. older(parent[g]) \in SUBSET older(g) /\ older(parent[g]) # older(g)
    BY <2>1, <2>2, <2>3
  <2>5. IsFiniteSet(older(g)) /\ order(g) \in Nat /\ order(parent[g]) \in Nat
    BY TableFinite, NatCardinality, FS_CardinalityType DEF TypeInv
  <2> QED BY <2>1, <2>4, <2>5, FS_Subset
<1>3. \A g \in table : /\ row(g).order = order(g) /\ row(g).grant = g
                       /\ row(g).parent = parent[g]
  OBVIOUS
<1> HIDE DEF order, row
<1>4. \A r \in LegacyRows :
        IsTrue(r) /\ r.parent \in {None} \cup GrantsOf({q \in LegacyRows : q.order < r.order})
  BY <1>1, <1>2, <1>3 DEF IsTrue, GrantsOf
<1>5. table \subseteq Legacy \cup InLedger
  BY DEF DisposableInv, ProjectionIsDisposable
<1>6. /\ ledger' = ledger /\ table' = table /\ parent' = parent
      /\ batch'[c] = LegacyRows /\ pc'[c] \in {"load", "migrate_insert"}
      /\ \A d \in Callers \ {c} : batch'[d] = batch[d] /\ pc'[d] = pc[d]
  BY DEF MigrateRead, Goto, store, TypeInv, TypeOK
<1>7. LedgerCanBeReplayed' /\ SupersessionsAreTrue' /\ InLedger' = InLedger
  BY <1>6 DEF ReplayInv, LedgerCanBeReplayed, SupersessionsAreTrue, InLedger
<1>8. Referring(c)'
  BY <1>1, <1>4, <1>5, <1>6, <1>7 DEF Referring, IsWriting, IsTrue
<1>9. \A d \in Callers \ {c} : Referring(d)'
  BY <1>6, <1>7 DEF ReplayInv, Referring, IsWriting, IsTrue, Grounded
<1> QED BY <1>7, <1>8, <1>9 DEF ReplayInv

LEMMA GetParentReplay ==
  ASSUME TypeInv, DisposableInv, ReplayInv, NEW c \in Callers, GetParent(c)
  PROVE  ReplayInv'
<1> DEFINE g   == op[c].grant
           row == [id |-> 0, set |-> g, order |-> 0, grant |-> g, parent |-> Supersedes[g]]
<1>1. /\ ledger' = ledger /\ table' = table /\ parent' = parent
      /\ batch'[c] = {row} /\ pc'[c] = "insert"
      /\ \A d \in Callers \ {c} : batch'[d] = batch[d] /\ pc'[d] = pc[d]
  BY DEF GetParent, Goto, store, TypeInv, TypeOK
<1>2. row.grant = g /\ row.parent = Supersedes[g]
  OBVIOUS
<1>3. Supersedes[g] \in table \cup {None}
  BY DEF GetParent
<1>4. table \subseteq InLedger
  BY DEF GetParent, DisposableInv, ProjectionIsDisposable, MigrationFirst
<1>5. LedgerCanBeReplayed' /\ SupersessionsAreTrue' /\ InLedger' = InLedger
  BY <1>1 DEF ReplayInv, LedgerCanBeReplayed, SupersessionsAreTrue, InLedger
<1> HIDE DEF row
<1>6. Referring(c)'
  BY <1>1, <1>2, <1>3, <1>4, <1>5 DEF Referring, IsWriting, IsTrue
<1>7. \A d \in Callers \ {c} : Referring(d)'
  BY <1>1, <1>5 DEF ReplayInv, Referring, IsWriting, IsTrue, Grounded
<1> QED BY <1>5, <1>6, <1>7 DEF ReplayInv

\* Rows are numbered from the identity column in the order of the change set.
LEMMA NumberedInOrder ==
  ASSUME TypeInv, NEW c \in Callers
  PROVE  LET rows == Absent(batch[c])
             row(r) == [r EXCEPT !.id = nextRow + Cardinality({q \in rows : q.order < r.order})]
         IN  /\ Numbered(rows) = {row(r) : r \in rows}
             /\ \A r \in rows : /\ row(r).id \in Nat /\ nextRow <= row(r).id
                                /\ row(r).grant = r.grant /\ row(r).parent = r.parent
             /\ \A r, q \in rows : q.order < r.order => row(q).id < row(r).id
<1> DEFINE rows == Absent(batch[c])
           before(r) == {q \in rows : q.order < r.order}
           row(r) == [r EXCEPT !.id = nextRow + Cardinality(before(r))]
<1>1. rows \in SUBSET batch[c] /\ rows \in SUBSET Rows /\ nextRow \in Nat
  BY DEF Absent, TypeInv, TypeOK
<1>2. IsFiniteSet(rows)
  BY <1>1, NatCardinality DEF TypeInv, Finite
<1>3. \A r \in rows : IsFiniteSet(before(r)) /\ Cardinality(before(r)) \in Nat
  <2> HIDE DEF rows
  <2> QED BY <1>2, NatCardinality
<1>4. ASSUME NEW r \in rows, NEW q \in rows, q.order < r.order
      PROVE  Cardinality(before(q)) < Cardinality(before(r))
  <2>1. \A x \in rows : x.order \in Nat
    BY <1>1 DEF Rows
  <2> HIDE DEF rows
  <2>2. before(q) \in SUBSET before(r) /\ before(q) # before(r)
    BY <2>1, <1>4
  <2> HIDE DEF before
  <2> QED BY <2>2, <1>3, FS_Subset
<1>5. \A r \in rows : /\ row(r).id = nextRow + Cardinality(before(r))
                      /\ row(r).grant = r.grant /\ row(r).parent = r.parent
  <2> HIDE DEF before, rows
  <2> QED BY <1>1 DEF Rows
<1>6. Numbered(rows) = {row(r) : r \in rows}
  BY DEF Numbered
<1>7. \A r \in rows : /\ row(r).id \in Nat /\ nextRow <= row(r).id
                      /\ row(r).grant = r.grant /\ row(r).parent = r.parent
  <2> HIDE DEF row, before, rows
  <2> QED BY <1>1, <1>3, <1>5
<1>8. \A r, q \in rows : q.order < r.order => row(q).id < row(r).id
  <2> HIDE DEF row, before, rows
  <2> QED BY <1>1, <1>3, <1>4, <1>5
<1> QED BY <1>6, <1>7, <1>8

LEMMA InsertReplay ==
  ASSUME TypeInv, DisposableInv, ReplayInv, NEW c \in Callers, Insert(c)
  PROVE  ReplayInv'
<1> DEFINE rows == Absent(batch[c])
           row(r) == [r EXCEPT !.id = nextRow + Cardinality({q \in rows : q.order < r.order})]
           new == Numbered(rows)
<1>1. /\ new = {row(r) : r \in rows}
      /\ \A r \in rows : /\ row(r).id \in Nat /\ nextRow <= row(r).id
                         /\ row(r).grant = r.grant /\ row(r).parent = r.parent
      /\ \A r, q \in rows : q.order < r.order => row(q).id < row(r).id
  BY NumberedInOrder
<1>2. rows \subseteq batch[c]
      /\ (ledger = {} => rows = batch[c])
  BY DEF Absent
<1>3. /\ ledger' = ledger /\ table' = table /\ parent' = parent
      /\ batch'[c] = new /\ pc'[c] \in {"commit", "migrate_commit"}
      /\ \A d \in Callers \ {c} : batch'[d] = batch[d] /\ pc'[d] = pc[d]
  BY DEF Insert, Goto, TypeInv, TypeOK
<1> HIDE DEF rows, row, new
<1>4. \A r \in new : IsTrue(r)
  BY <1>1, <1>2 DEF ReplayInv, Referring, IsTrue
<1>5. ASSUME NEW r \in rows PROVE Grounded(row(r), ledger \cup new)
  <2>1. ASSUME r.parent \in InLedger PROVE Grounded(row(r), ledger \cup new)
    <3>1. PICK q \in ledger : q.grant = r.parent
      BY <2>1 DEF InLedger, GrantsOf
    <3>2. q.id < nextRow /\ q.id \in Nat /\ nextRow \in Nat
      BY DEF TypeInv, TypeOK, Numbers, Rows
    <3>3. q.id < row(r).id
      BY <3>2, <1>1
    <3> QED BY <3>1, <3>3, <1>1 DEF Grounded, GrantsOf
  <2>2. ASSUME NEW q \in batch[c], q.order < r.order, q.grant = r.parent,
               GrantsOf(batch[c]) \subseteq Legacy \cup InLedger
        PROVE  Grounded(row(r), ledger \cup new)
    <3>1. CASE q \in rows
      BY <3>1, <1>1, <2>2 DEF Grounded, GrantsOf
    <3>2. CASE q \notin rows
      <4>1. ledger # {}
        BY <3>2, <1>2
      <4>2. q.grant \in InLedger
        BY <4>1, <2>2 DEF DisposableInv, ProjectionIsDisposable, GrantsOf
      <4> QED BY <4>2, <2>1, <2>2
    <3> QED BY <3>1, <3>2
  <2>3. CASE r.parent = None
    BY <2>3, <1>1 DEF Grounded
  <2>4. CASE pc[c] = "insert"
    BY <2>1, <2>3, <2>4, <1>2 DEF ReplayInv, Referring
  <2>5. CASE pc[c] = "migrate_insert"
    <3>1. /\ r.parent \in {None} \cup GrantsOf({q \in batch[c] : q.order < r.order})
          /\ GrantsOf(batch[c]) \subseteq Legacy \cup InLedger
      BY <2>5, <1>2 DEF ReplayInv, Referring
    <3> QED BY <3>1, <2>2, <2>3 DEF GrantsOf
  <2> QED BY <2>4, <2>5 DEF Insert
<1>6. LedgerCanBeReplayed' /\ SupersessionsAreTrue' /\ InLedger' = InLedger
  BY <1>3 DEF ReplayInv, LedgerCanBeReplayed, SupersessionsAreTrue, InLedger
<1>7. Referring(c)'
  BY <1>1, <1>3, <1>4, <1>5 DEF Referring, IsTrue, Grounded
<1>8. \A d \in Callers \ {c} : Referring(d)'
  BY <1>3, <1>6 DEF ReplayInv, Referring, IsWriting, IsTrue, Grounded
<1> QED BY <1>6, <1>7, <1>8 DEF ReplayInv

LEMMA CommitReplay ==
  ASSUME TypeInv, ReplayInv, NEW c \in Callers, Commit(c)
  PROVE  ReplayInv'
<1>1. /\ ledger' = ledger \cup batch[c] /\ table' = table /\ parent' = parent
      /\ batch'[c] = {} /\ IsWriting(c)
      /\ \A d \in Callers \ {c} : batch'[d] = batch[d] /\ pc'[d] = pc[d]
  BY DEF Commit, Goto, TypeInv, TypeOK
<1>2. \A r \in ledger \cup batch[c] : Grounded(r, ledger \cup batch[c]) /\ IsTrue(r)
  <2>1. \A r \in ledger : Grounded(r, ledger) /\ IsTrue(r)
    BY DEF ReplayInv, LedgerCanBeReplayed, SupersessionsAreTrue, Grounded, IsTrue
  <2>2. \A r \in ledger : Grounded(r, ledger \cup batch[c])
    BY <2>1, GroundedGrows
  <2> QED BY <1>1, <2>1, <2>2 DEF ReplayInv, Referring
<1>3. LedgerCanBeReplayed'
  BY <1>1, <1>2 DEF LedgerCanBeReplayed, Grounded
<1>4. SupersessionsAreTrue'
  BY <1>1, <1>2 DEF SupersessionsAreTrue, IsTrue, ReplayInv
<1>5. InLedger \subseteq InLedger'
  BY <1>1 DEF InLedger, GrantsOf
<1>6. Referring(c)'
  BY <1>1 DEF Referring, GrantsOf
<1>7. ASSUME NEW d \in Callers \ {c} PROVE Referring(d)'
  <2>1. Referring(d) /\ batch'[d] = batch[d] /\ pc'[d] = pc[d]
    BY <1>1 DEF ReplayInv
  <2>2. IsWriting(d) => \A r \in batch[d] : Grounded(r, ledger' \cup batch[d])
    <3>1. ledger \cup batch[d] \subseteq ledger' \cup batch[d]
      BY <1>1
    <3> QED BY <3>1, <2>1, GroundedGrows DEF Referring
  <2> QED BY <2>1, <2>2, <1>5 DEF Referring, IsWriting, IsTrue, Grounded
<1> QED BY <1>3, <1>4, <1>6, <1>7 DEF ReplayInv

LEMMA TableReplay ==
  ASSUME ReplayInv, SupersessionsAreTrue', ledger' = ledger,
         \A c \in Callers : batch'[c] = batch[c]
              /\ (pc'[c] \in {"insert", "migrate_insert", "commit", "migrate_commit"} => pc'[c] = pc[c])
  PROVE  ReplayInv'
<1>1. LedgerCanBeReplayed' /\ InLedger' = InLedger
  BY DEF ReplayInv, LedgerCanBeReplayed, InLedger
<1>2. \A c \in Callers : Referring(c)'
  BY <1>1 DEF ReplayInv, Referring, IsWriting, IsTrue, Grounded
<1> QED BY <1>1, <1>2 DEF ReplayInv

LEMMA RebuildReplay ==
  ASSUME TypeInv, ReplayInv, NEW c \in Callers, Rebuild(c)
  PROVE  ReplayInv'
<1>1. ledger' = ledger /\ batch' = batch
      /\ \A d \in Callers : pc'[d] \in {"insert", "migrate_insert", "commit", "migrate_commit"}
                              => pc'[d] = pc[d]
  BY CurrentType DEF Rebuild, Goto, TypeInv, TypeOK
<1>2. table' = Left(c) \cup GrantsOf(seen[c]) /\ table' \subseteq Grants
  BY GrantsOfRows DEF Rebuild, Left, TypeInv, TypeOK
<1>3. ASSUME NEW g \in table'
      PROVE  parent'[g] \in {None, Supersedes[g]} /\ parent'[g] \in table' \cup {None}
  <2>1. CASE g \in GrantsOf(seen[c])
    <3> DEFINE r == LastRow(seen[c], g)
    <3>1. r \in seen[c] /\ r \in ledger /\ parent'[g] = r.parent
      BY <1>2, <2>1, LastRowExists DEF Rebuild, TypeInv, Loops
    <3>2. r.grant = g
      BY <2>1, LastRowExists
    <3> HIDE DEF r
    <3>3. r.parent \in {None, Supersedes[g]}
      BY <3>1, <3>2 DEF ReplayInv, SupersessionsAreTrue
    <3>4. r.parent \in {None} \cup Left(c) \cup GrantsOf(seen[c])
      BY <3>1 DEF Rebuild, ReferencesHold, GrantsOf
    <3> QED BY <1>2, <3>1, <3>3, <3>4
  <2>2. CASE g \notin GrantsOf(seen[c])
    <3>1. g \in Left(c) /\ g \in table /\ parent'[g] = LeftParent(c, g)
      BY <1>2, <2>2 DEF Rebuild, Left
    <3>2. parent[g] \in {None, Supersedes[g]} /\ parent[g] \in table \cup {None}
      BY <3>1 DEF ReplayInv, SupersessionsAreTrue
    <3>3. LeftParent(c, g) \in {None, Supersedes[g]} /\ LeftParent(c, g) \in Left(c) \cup {None}
      BY <3>2 DEF LeftParent, Left
    <3> QED BY <1>2, <3>1, <3>3
  <2> QED BY <2>1, <2>2
<1>4. SupersessionsAreTrue'
  BY <1>1, <1>3 DEF ReplayInv, SupersessionsAreTrue
<1> QED BY <1>1, <1>4, TableReplay

LEMMA ReplayStep ==
  TypeInv /\ DisposableInv /\ ReplayInv /\ [Next]_vars => ReplayInv'
<1> SUFFICES ASSUME TypeInv, DisposableInv, ReplayInv, [Next]_vars PROVE ReplayInv'
  OBVIOUS
<1>0. pc \in [Callers -> Steps] /\ batch \in [Callers -> SUBSET Rows]
  BY DEF TypeInv, TypeOK
<1>1. CASE Drop
  <2>1. SupersessionsAreTrue'
    BY <1>1 DEF Drop, ReplayInv, SupersessionsAreTrue
  <2> QED BY <1>1, <2>1, TableReplay DEF Drop
<1>2. ASSUME NEW c \in Callers, Request(c) PROVE ReplayInv'
  <2>1. CASE Start(c) \/ CountTable(c) \/ MigrateCount(c) \/ Loaded(c) \/ Clear(c)
               \/ GetOwn(c) \/ Answer(c)
    BY <1>0, <2>1, ReplayFrame
       DEF Start, CountTable, MigrateCount, Loaded, Clear, GetOwn, Answer, Goto, store
  <2>2. CASE Fail(c)
    BY <1>0, <2>2, ReplayFrame DEF Fail, Goto, store
  <2>3. CASE ReadPage(c)
    BY <2>3, ReplayFrame DEF ReadPage, store
  <2>4. CASE Compare(c)
    BY <1>0, <2>4, CurrentType, ReplayFrame DEF Compare, Goto, store, TypeInv
  <2> QED BY <1>2, <2>1, <2>2, <2>3, <2>4, MigrateReadReplay, GetParentReplay, InsertReplay,
             CommitReplay, RebuildReplay DEF Request
<1>3. CASE UNCHANGED vars
  BY <1>3, ReplayFrame DEF vars, store, locals
<1> QED BY <1>1, <1>2, <1>3 DEF Next

LEMMA ReplayAlways == Spec => []ReplayInv
<1>1. Spec => [](TypeInv /\ DisposableInv)
  BY InitType, InitDisposable, TypeStep, DisposableStep, PTL DEF Spec
<1> QED BY <1>1, InitReplay, ReplayStep, PTL DEF Spec

\* No interleaving of migrations, creates, rebuilds and failures leaves a
\* ledger whose replay would fail at the foreign key of the projection
\* (materializeAuthorityStateTx), which would refuse every later request.
THEOREM LedgerStaysReplayable == Spec => []LedgerCanBeReplayed
<1>1. ReplayInv => LedgerCanBeReplayed
  BY DEF ReplayInv
<1> QED BY <1>1, ReplayAlways, PTL

\* What overlapping rebuilds do to supersedes_grant_id is at most to forget.
THEOREM SupersessionsStayTrue == Spec => []SupersessionsAreTrue
<1>1. ReplayInv => SupersessionsAreTrue
  BY DEF ReplayInv
<1> QED BY <1>1, ReplayAlways, PTL
-----------------------------------------------------------------------------
(* The ledger and the projection implement the book. *)

\* What an open transaction or a batch would add to the book: a migration
\* nothing, a create its own grant, whose predecessor is recorded.
Pending(c) ==
    /\ pc[c] \in {"migrate_insert", "migrate_commit"} => GrantsOf(batch[c]) \subseteq Recorded
    /\ pc[c] \in {"insert", "commit"} =>
         /\ GrantsOf(batch[c]) \subseteq {op[c].grant}
         /\ Supersedes[op[c].grant] \in Recorded \cup {None}

BookInv == \A c \in Callers : Pending(c)

LEMMA InitBook == Init => BookInv /\ Book!Init
BY DEF Init, BookInv, Pending, Book!Init, Recorded, InLedger, GrantsOf

LEMMA RecordedStays == ledger \subseteq ledger' => Recorded \subseteq Recorded'
BY DEF Recorded, InLedger, GrantsOf

\* A batch that does not change stays as it was, as the book only grows.
LEMMA PendingStays ==
  ASSUME BookInv, ledger \subseteq ledger', op' = op, NEW c \in Callers,
         \/ batch'[c] = {} /\ pc'[c] \notin {"insert", "commit"}
         \/ batch'[c] = batch[c]
            /\ (pc'[c] \in {"insert", "migrate_insert", "commit", "migrate_commit"} => pc'[c] = pc[c])
  PROVE  Pending(c)'
<1>1. Recorded \subseteq Recorded'
  BY RecordedStays
<1>2. GrantsOf({}) = {}
  BY DEF GrantsOf
<1> QED BY <1>1, <1>2 DEF BookInv, Pending

LEMMA MigrateReadBook ==
  ASSUME TypeInv, DisposableInv, BookInv, NEW c \in Callers, MigrateRead(c)
  PROVE  BookInv'
<1>1. /\ ledger' = ledger /\ op' = op
      /\ batch'[c] = LegacyRows /\ pc'[c] \in {"load", "migrate_insert"}
      /\ \A d \in Callers \ {c} : batch'[d] = batch[d] /\ pc'[d] = pc[d]
  BY DEF MigrateRead, Goto, store, TypeInv, TypeOK
<1>2. GrantsOf(LegacyRows) \subseteq table
  BY LegacyRowsType DEF TypeInv
<1>3. table \subseteq Recorded /\ Recorded' = Recorded
  BY <1>1 DEF Recorded, InLedger, DisposableInv, ProjectionIsDisposable
<1>4. Pending(c)'
  BY <1>1, <1>2, <1>3 DEF Pending
<1>5. \A d \in Callers \ {c} : Pending(d)'
  BY <1>1, PendingStays
<1> QED BY <1>4, <1>5 DEF BookInv

LEMMA GetParentBook ==
  ASSUME TypeInv, DisposableInv, BookInv, NEW c \in Callers, GetParent(c)
  PROVE  BookInv'
<1> DEFINE g   == op[c].grant
           row == [id |-> 0, set |-> g, order |-> 0, grant |-> g, parent |-> Supersedes[g]]
<1>1. /\ ledger' = ledger /\ op' = op
      /\ batch'[c] = {row} /\ pc'[c] = "insert" /\ Supersedes[g] \in table \cup {None}
      /\ \A d \in Callers \ {c} : batch'[d] = batch[d] /\ pc'[d] = pc[d]
  BY DEF GetParent, Goto, store, TypeInv, TypeOK
<1>2. GrantsOf({row}) = {g}
  BY DEF GrantsOf
<1>3. table \subseteq Recorded /\ Recorded' = Recorded
  BY <1>1 DEF Recorded, InLedger, DisposableInv, ProjectionIsDisposable
<1> HIDE DEF row
<1>4. Pending(c)'
  BY <1>1, <1>2, <1>3 DEF Pending
<1>5. \A d \in Callers \ {c} : Pending(d)'
  BY <1>1, PendingStays
<1> QED BY <1>4, <1>5 DEF BookInv

LEMMA InsertBook ==
  ASSUME TypeInv, BookInv, NEW c \in Callers, Insert(c)
  PROVE  BookInv'
<1>1. /\ ledger' = ledger /\ op' = op
      /\ batch'[c] = Numbered(Absent(batch[c])) /\ pc[c] \in {"insert", "migrate_insert"}
      /\ pc'[c] = IF pc[c] = "insert" THEN "commit" ELSE "migrate_commit"
      /\ \A d \in Callers \ {c} : batch'[d] = batch[d] /\ pc'[d] = pc[d]
  BY DEF Insert, Goto, TypeInv, TypeOK
<1>2. GrantsOf(Numbered(Absent(batch[c]))) \subseteq GrantsOf(batch[c])
  <2>1. Absent(batch[c]) \subseteq batch[c]
    BY DEF Absent
  <2> DEFINE rows == Absent(batch[c])
             row(r) == [r EXCEPT !.id = nextRow + Cardinality({q \in rows : q.order < r.order})]
  <2>2. Numbered(rows) = {row(r) : r \in rows} /\ \A r \in rows : row(r).grant = r.grant
    BY NumberedInOrder
  <2> HIDE DEF row
  <2> QED BY <2>1, <2>2 DEF GrantsOf
<1>3. Recorded' = Recorded
  BY <1>1 DEF Recorded, InLedger
<1>4. Pending(c)'
  BY <1>1, <1>2, <1>3 DEF Pending, BookInv
<1>5. \A d \in Callers \ {c} : Pending(d)'
  BY <1>1, PendingStays
<1> QED BY <1>4, <1>5 DEF BookInv

LEMMA CommitBook ==
  ASSUME TypeInv, BookInv, NEW c \in Callers, Commit(c)
  PROVE  BookInv' /\ [Book!Next]_(Book!vars)
<1>1. /\ ledger' = ledger \cup batch[c] /\ table' = table /\ op' = op
      /\ batch'[c] = {} /\ pc[c] \in {"migrate_commit", "commit"}
      /\ pc'[c] \in {"migrate_count", "load"}
      /\ \A d \in Callers \ {c} : batch'[d] = batch[d] /\ pc'[d] = pc[d]
  BY DEF Commit, IsWriting, Goto, TypeInv, TypeOK
<1>2. BookInv'
  BY <1>1, PendingStays DEF BookInv
<1>3. Recorded' = Recorded \cup GrantsOf(batch[c])
  BY <1>1, GrantsOfUnion DEF Recorded, InLedger
<1>4. CASE GrantsOf(batch[c]) \subseteq Recorded
  <2>1. Recorded' = Recorded /\ table' = table
    BY <1>1, <1>3, <1>4
  <2> QED BY <1>2, <2>1 DEF Book!vars
<1>5. CASE ~ (GrantsOf(batch[c]) \subseteq Recorded)
  <2> DEFINE g == op[c].grant
  <2>1. pc[c] = "commit"
    BY <1>1, <1>5 DEF BookInv, Pending
  <2>2. GrantsOf(batch[c]) \subseteq {g} /\ Supersedes[g] \in Recorded \cup {None}
    BY <2>1 DEF BookInv, Pending
  <2>3. GrantsOf(batch[c]) = {g} /\ g \notin Recorded
    BY <1>5, <2>2
  <2>4. g \in Grants
    BY <2>3, GrantsOfRows DEF TypeInv, TypeOK
  <2> HIDE DEF g
  <2>5. Book!Record(g)
    <3>1. Recorded' = Recorded \cup {g} /\ table' = table
      BY <1>1, <1>3, <2>3
    <3> QED BY <3>1, <2>2, <2>3 DEF Book!Record
  <2> QED BY <1>2, <2>4, <2>5 DEF Book!Next
<1> QED BY <1>4, <1>5

\* A step that appends nothing is a step of the page, or none.
LEMMA ShowOrStutter ==
  ASSUME TypeInv, DisposableInv, DisposableInv', ledger' = ledger
  PROVE  [Book!Next]_(Book!vars)
<1>1. Recorded' = Recorded
  BY DEF Recorded, InLedger
<1>2. table' \subseteq Recorded
  BY <1>1 DEF DisposableInv, ProjectionIsDisposable, Recorded
<1> QED BY <1>1, <1>2 DEF Book!Next, Book!Show

LEMMA BookStep ==
  TypeInv /\ DisposableInv /\ DisposableInv' /\ BookInv /\ [Next]_vars
    => BookInv' /\ [Book!Next]_(Book!vars)
<1> SUFFICES ASSUME TypeInv, DisposableInv, DisposableInv', BookInv, [Next]_vars
             PROVE  BookInv' /\ [Book!Next]_(Book!vars)
  OBVIOUS
<1>0. pc \in [Callers -> Steps] /\ batch \in [Callers -> SUBSET Rows]
  BY DEF TypeInv, TypeOK
<1>1. CASE Drop
  <2>1. ledger' = ledger /\ op' = op /\ batch' = batch /\ pc' = pc
    BY <1>1 DEF Drop
  <2> QED BY <2>1, PendingStays, ShowOrStutter DEF BookInv
<1>2. ASSUME NEW c \in Callers, Request(c) PROVE BookInv' /\ [Book!Next]_(Book!vars)
  <2>1. CASE Commit(c)
    BY <2>1, CommitBook
  <2>2. CASE MigrateRead(c)
    BY <2>2, MigrateReadBook, ShowOrStutter DEF MigrateRead, store
  <2>3. CASE GetParent(c)
    BY <2>3, GetParentBook, ShowOrStutter DEF GetParent, store
  <2>4. CASE Insert(c)
    BY <2>4, InsertBook, ShowOrStutter DEF Insert
  <2>5. ASSUME ledger' = ledger, op' = op,
               \A d \in Callers :
                 \/ batch'[d] = {} /\ pc'[d] \notin {"insert", "commit"}
                 \/ batch'[d] = batch[d]
                    /\ (pc'[d] \in {"insert", "migrate_insert", "commit", "migrate_commit"}
                          => pc'[d] = pc[d])
        PROVE  BookInv' /\ [Book!Next]_(Book!vars)
    BY <2>5, PendingStays, ShowOrStutter DEF BookInv
  <2>6. CASE Start(c) \/ CountTable(c) \/ MigrateCount(c) \/ Loaded(c) \/ Clear(c)
               \/ GetOwn(c) \/ Answer(c)
    BY <1>0, <2>5, <2>6
       DEF Start, CountTable, MigrateCount, Loaded, Clear, GetOwn, Answer, Goto, store
  <2>7. CASE Fail(c)
    BY <1>0, <2>5, <2>7 DEF Fail, Goto, store
  <2>8. CASE ReadPage(c)
    BY <2>5, <2>8 DEF ReadPage, store
  <2>9. CASE Compare(c)
    BY <1>0, <2>5, <2>9, CurrentType DEF Compare, Goto, store, TypeInv
  <2>10. CASE Rebuild(c)
    BY <1>0, <2>5, <2>10, CurrentType DEF Rebuild, Goto, TypeInv
  <2> QED BY <1>2, <2>1, <2>2, <2>3, <2>4, <2>6, <2>7, <2>8, <2>9, <2>10 DEF Request
<1>3. CASE UNCHANGED vars
  <2>1. ledger' = ledger /\ op' = op /\ batch' = batch /\ pc' = pc
    BY <1>3 DEF vars, store, locals
  <2> QED BY <2>1, PendingStays, ShowOrStutter DEF BookInv
<1> QED BY <1>1, <1>2, <1>3 DEF Next

\* The ledger, the projection and the requests of runtime_authority.go and its
\* materialiser implement the book: a recorded grant stays, each new one comes
\* once and after the grant that it supersedes, and what the projection shows
\* is recorded.
THEOREM LedgerImplementsBook == Spec => ImplementsBook
<1>1. Spec => [](TypeInv /\ DisposableInv)
  BY InitType, InitDisposable, TypeStep, DisposableStep, PTL DEF Spec
<1>2. Spec => []BookInv /\ [][Book!Next]_(Book!vars)
  BY <1>1, InitBook, BookStep, PTL DEF Spec
<1>3. Spec => Book!Init
  BY InitBook, PTL DEF Spec
<1> QED BY <1>2, <1>3, PTL DEF ImplementsBook, Book!Spec
=============================================================================
