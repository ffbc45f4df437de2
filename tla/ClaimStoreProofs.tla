-------------------------- MODULE ClaimStoreProofs --------------------------
(***************************************************************************)
(* What a client was told is durable and, once the rebuilds have come to   *)
(* rest, projected, for any number of requests, claims, failures and       *)
(* crashes.  The argument: the posts of one change set are all beginnings  *)
(* of the list of one memoryStore, so any two of them agree as far as both *)
(* go, and the kernel, which counts rows, drops only rows that it has.     *)
(***************************************************************************)
EXTENDS ClaimStore, SequenceTheorems, FiniteSetTheorems, WellFoundedInduction, TLAPS

-----------------------------------------------------------------------------
(* Numbers, lists, and lists that begin alike. *)

LEMMA LeastNumber ==
  ASSUME NEW S \in SUBSET Nat, S # {}
  PROVE  Min(S) \in S
<1>1. PICK t \in S : \A y \in S : ~ (<<y, t>> \in OpToRel(<, Nat))
  BY NatLessThanWellFounded, WFMin
<1>2. \A y \in S : t <= y
  <2> SUFFICES ASSUME NEW y \in S PROVE ~ (y < t)
    OBVIOUS
  <2>1. <<y, t>> \in Nat \X Nat
    OBVIOUS
  <2> QED BY <1>1, <2>1 DEF OpToRel
<1> QED BY <1>2 DEF Min

LEMMA LargerOfTwo ==
  ASSUME NEW a \in Int, NEW b \in Int
  PROVE  Max({a, b}) = IF a <= b THEN b ELSE a
BY DEF Max

Begins(L, M) == Len(L) <= Len(M) /\ \A i \in 1..Len(L) : L[i] = M[i]

LEMMA BeginsTwice ==
  ASSUME NEW L \in Seq(Claims), NEW M \in Seq(Claims), NEW N \in Seq(Claims),
         Begins(L, M), Begins(M, N)
  PROVE  Begins(L, N)
BY DEF Begins

\* Two beginnings of one list.
LEMMA BeginningsAgree ==
  ASSUME NEW L \in Seq(Claims), NEW M \in Seq(Claims), NEW N \in Seq(Claims),
         Begins(L, N), Begins(M, N)
  PROVE  Begins(L, M) \/ Begins(M, L)
BY DEF Begins

LEMMA AppendBegins ==
  ASSUME NEW L \in Seq(Claims), NEW M \in Seq(Claims)
  PROVE  /\ L \o M \in Seq(Claims)
         /\ Begins(L, L \o M)
         /\ Range(L \o M) = Range(L) \cup Range(M)
BY RangeConcatenation, ConcatProperties DEF Begins

LEMMA BeginsRange ==
  ASSUME NEW L \in Seq(Claims), NEW M \in Seq(Claims), Begins(L, M)
  PROVE  Range(L) \subseteq Range(M)
BY RangeEquality DEF Begins

LEMMA Beginning ==
  ASSUME NEW L \in Seq(Claims), NEW n \in 0..Len(L)
  PROVE  /\ SubSeq(L, 1, n) \in Seq(Claims)
         /\ Len(SubSeq(L, 1, n)) = n
         /\ Begins(SubSeq(L, 1, n), L)
BY SubSeqProperties DEF Begins

\* The end of a list, from the row after n on.
LEMMA Ending ==
  ASSUME NEW L \in Seq(Claims), NEW n \in Nat
  PROVE  /\ SubSeq(L, n + 1, Len(L)) \in Seq(Claims)
         /\ Len(SubSeq(L, n + 1, Len(L))) = IF n <= Len(L) THEN Len(L) - n ELSE 0
         /\ \A i \in 1..Len(L) - n : SubSeq(L, n + 1, Len(L))[i] = L[n + i]
<1>1. \A i \in n + 1 .. Len(L) : L[i] \in Claims
  OBVIOUS
<1> QED BY <1>1, SubSeqProperties

\* A row of a list is in its beginning or in its end.
LEMMA RowInEnding ==
  ASSUME NEW L \in Seq(Claims), NEW n \in Nat, NEW i \in 1..Len(L), i > n
  PROVE  L[i] \in Range(SubSeq(L, n + 1, Len(L)))
<1> DEFINE E == SubSeq(L, n + 1, Len(L))
           k == i - n
<1>1. k \in 1..Len(L) - n /\ n + k = i /\ n <= Len(L)
  OBVIOUS
<1>2. E \in Seq(Claims) /\ Len(E) = Len(L) - n /\ E[k] = L[n + k]
  BY <1>1, Ending
<1> HIDE DEF E, k
<1>3. k \in 1..Len(E) /\ E[k] = L[i]
  BY <1>1, <1>2
<1>4. L[i] \in Range(E)
  BY <1>2, <1>3, RangeEquality
<1> QED BY <1>4 DEF E

\* Objects of more claims are not fewer.
LEMMA ObjectsFinite ==
  ASSUME NEW L \in Seq(Claims)
  PROVE  IsFiniteSet(ObjectsOf(L)) /\ Cardinality(ObjectsOf(L)) \in Nat
<1> DEFINE f == [i \in 1..Len(L) |-> Writes[L[i][1]][L[i][2]]]
<1>1. ObjectsOf(L) = {f[i] : i \in 1..Len(L)}
  BY LenProperties DEF ObjectsOf
<1>2. f \in Surjection(1..Len(L), ObjectsOf(L))
  BY <1>1 DEF Surjection
<1>3. IsFiniteSet(1..Len(L))
  BY FS_Interval
<1> QED BY <1>2, <1>3, FS_Surjection, FS_CardinalityType

LEMMA BeginningHasFewerObjects ==
  ASSUME NEW L \in Seq(Claims), NEW M \in Seq(Claims), Begins(L, M)
  PROVE  Cardinality(ObjectsOf(L)) <= Cardinality(ObjectsOf(M))
<1>1. ObjectsOf(L) \subseteq ObjectsOf(M)
  BY LenProperties DEF ObjectsOf, Begins
<1> QED BY <1>1, ObjectsFinite, FS_Subset

-----------------------------------------------------------------------------
(* Types.  Bounds adds what keeps the indices inside the lists, and Posture *)
(* what each step of a request has in hand.                                *)

Holding == {"mutate", "objects", "claims", "sent", "cache", "schedule"}
Before  == {"idle", "store", "take", "mutate"}
Posted  == {"sent", "cache", "schedule", "done"}

Bounds ==
    /\ \A r \in Requests : fresh[r] <= Len(ledger)
    /\ view # None => view <= Len(ledger)
    /\ built <= Len(ledger)

Posture ==
    /\ \A r \in Requests : mem[r] # None <=> pc[r] \in Holding
    /\ \A r \in Requests : mem[r] # None => start[r] <= Len(heap[mem[r]])
    /\ \A r \in Requests : pc[r] = "claims" => Slice(r) # <<>>
    /\ \A r \in Requests : pc[r] \in Before => r \notin wrote
    /\ \A r \in Requests : told[r] = "ok" => pc[r] = "done"
    /\ \A m \in wire : m.claims # <<>> /\ m.set = m.claims[1] /\ pc[m.from] \in Posted

Basics == TypeOK /\ Bounds /\ Posture

USE StoreAssumption

LEMMA OwnType ==
  ASSUME NEW r \in Requests
  PROVE  /\ Own(r) \in Seq(Claims) /\ Len(Own(r)) \in Nat \ {0}
         /\ Own(r)[1] = <<r, 1>>
         /\ \A c \in Range(Own(r)) : c[1] = r
<1>1. Writes[r] \in Seq(Objects) /\ Writes[r] # <<>>
  OBVIOUS
<1>2. Len(Writes[r]) \in Nat \ {0}
  BY <1>1, EmptySeq
<1>3. \A i \in 1..Len(Writes[r]) : <<r, i>> \in Claims
  BY DEF Claims
<1>4. Own(r) \in [1..Len(Writes[r]) -> Claims]
  BY <1>3 DEF Own
<1>5. Own(r) \in Seq(Claims) /\ Len(Own(r)) = Len(Writes[r])
  BY <1>2, <1>4
<1>6. \A c \in Range(Own(r)) : c[1] = r
  <2>1. \A i \in 1..Len(Own(r)) : Own(r)[i] = <<r, i>>
    BY <1>5 DEF Own
  <2>2. Range(Own(r)) = {Own(r)[i] : i \in 1..Len(Own(r))}
    BY <1>5, RangeEquality
  <2> QED BY <2>1, <2>2
<1> QED BY <1>2, <1>5, <1>6 DEF Own

LEMMA SliceType ==
  ASSUME TypeOK, NEW r \in Requests, mem[r] # None
  PROVE  /\ heap[mem[r]] \in Seq(Claims) /\ mem[r] \in Refs /\ start[r] \in Nat
         /\ Slice(r) \in Seq(Claims)
         /\ Len(Slice(r)) = IF start[r] <= Len(heap[mem[r]]) THEN Len(heap[mem[r]]) - start[r] ELSE 0
         /\ \A i \in 1..Len(heap[mem[r]]) - start[r] : Slice(r)[i] = heap[mem[r]][start[r] + i]
<1>1. mem[r] \in Refs /\ heap[mem[r]] \in Seq(Claims) /\ start[r] \in Nat
  BY DEF TypeOK
<1> QED BY <1>1, Ending DEF Slice

\* There is always a memoryStore that no request works on.
LEMMA FreeStore ==
  ASSUME TypeOK
  PROVE  Min(Refs \ Held) \in Refs \ Held
<1>1. mem \in Surjection(Requests, Held)
  BY DEF TypeOK, Held, Surjection
<1>2. IsFiniteSet(Held) /\ Cardinality(Held) <= Cardinality(Requests)
  BY <1>1, FS_Surjection
<1>3. ASSUME Refs \subseteq Held PROVE FALSE
  <2>1. Cardinality(Refs) <= Cardinality(Held)
    BY <1>2, <1>3, FS_Subset
  <2>2. Cardinality(Refs) \in Nat /\ Cardinality(Held) \in Nat /\ Cardinality(Requests) \in Nat
    BY <1>2, FS_CardinalityType
  <2> QED BY <1>2, <2>1, <2>2
<1> QED BY <1>3, LeastNumber

LEMMA AnyStore == Min(Refs) \in Refs
<1>1. ASSUME Refs = {} PROVE FALSE
  <2>1. Cardinality(Refs) = 0 /\ Cardinality(Requests) \in Nat
    BY <1>1, FS_EmptySet, FS_CardinalityType
  <2> QED BY <2>1
<1> QED BY <1>1, LeastNumber

LEMMA LiveType ==
  ASSUME TypeOK, NEW holders
  PROVE  Live(heap, holders) \in [Refs -> Seq(Claims)]
<1>1. <<>> \in Seq(Claims)
  OBVIOUS
<1> QED BY <1>1 DEF Live, TypeOK

LEMMA StoreReplayType ==
  ASSUME TypeOK, NEW n \in 0..Len(ledger), StoreReplay(n)
  PROVE  /\ heap' \in [Refs -> Seq(Claims)] /\ cache' \in Refs
         /\ \A x \in Held \cap Refs : heap'[x] = heap[x]
         /\ heap'[cache'] = SubSeq(ledger, 1, n)
         /\ \A x \in Refs : \/ heap'[x] = SubSeq(ledger, 1, n)
                            \/ x \in Held /\ heap'[x] = heap[x]
                            \/ heap'[x] = <<>>
<1> DEFINE x == Min(Refs \ Held)
<1>1. x \in Refs \ Held
  BY FreeStore
<1>2. cache' = x /\ heap' = [Live(heap, Held) EXCEPT ![x] = SubSeq(ledger, 1, n)]
  BY DEF StoreReplay
<1> HIDE DEF x
<1>3. SubSeq(ledger, 1, n) \in Seq(Claims)
  BY Beginning DEF TypeOK
<1>4. Live(heap, Held) \in [Refs -> Seq(Claims)]
  BY LiveType
<1>5. \A y \in Refs : Live(heap, Held)[y] = IF y \in Held THEN heap[y] ELSE <<>>
  BY DEF Live
<1> QED BY <1>1, <1>2, <1>3, <1>4, <1>5

-----------------------------------------------------------------------------
(* Basics is inductive. *)

LEMMA InitBasics == Init => Basics
<1> SUFFICES ASSUME Init PROVE Basics
  OBVIOUS
<1>1. <<>> \in Seq(Claims) /\ Len(<<>>) = 0
  OBVIOUS
<1>2. TypeOK
  BY <1>1, AnyStore DEF Init, TypeOK, Steps
<1>3. Bounds /\ Posture
  BY <1>1 DEF Init, Bounds, Posture, Holding
<1> QED BY <1>2, <1>3 DEF Basics

\* What a request works on does not move under it.
Undisturbed(q) ==
    mem'[q] = mem[q] /\ start'[q] = start[q] /\ (mem[q] # None => heap'[mem[q]] = heap[mem[q]])

LEMMA SliceKept ==
  ASSUME NEW q, Undisturbed(q), mem[q] # None
  PROVE  Slice(q)' = Slice(q)
BY DEF Undisturbed, Slice

\* A step that leaves every request its posture but r, which lets go.
LEMMA AnswerBasics ==
  ASSUME Basics, NEW r \in Requests, NEW answer \in {"ok", "error"}, Answer(r, answer),
         pc[r] # "done", UNCHANGED <<start, wrote>>, wire' \subseteq wire
  PROVE  /\ heap' \in [Refs -> Seq(Claims)] /\ pc' \in [Requests -> Steps]
         /\ mem' \in [Requests -> Refs \cup {None}]
         /\ told' \in [Requests -> {"nothing", "ok", "error"}]
         /\ Posture'
<1>1. /\ pc' = [pc EXCEPT ![r] = "done"] /\ mem' = [mem EXCEPT ![r] = None]
      /\ told' = [told EXCEPT ![r] = answer]
      /\ heap' = Live(heap, {cache} \cup {mem[q] : q \in Requests \ {r}})
  BY DEF Answer, Goto
<1>2. /\ heap' \in [Refs -> Seq(Claims)] /\ pc' \in [Requests -> Steps]
      /\ mem' \in [Requests -> Refs \cup {None}]
      /\ told' \in [Requests -> {"nothing", "ok", "error"}]
  BY <1>1, LiveType DEF Basics, TypeOK, Steps
<1>3. \A q \in Requests \ {r} : Undisturbed(q)
  BY <1>1 DEF Undisturbed, Live, Basics, TypeOK
<1>4. \A q \in Requests \ {r} : mem[q] # None => Slice(q)' = Slice(q)
  BY <1>3, SliceKept
<1>5. /\ \A q \in Requests \ {r} : pc'[q] = pc[q] /\ told'[q] = told[q] /\ mem'[q] = mem[q]
      /\ pc'[r] = "done" /\ mem'[r] = None
  BY <1>1 DEF Basics, TypeOK
<1>6. \A q \in Requests : pc'[q] \in Holding <=> mem'[q] # None
  BY <1>5 DEF Basics, Posture, Holding
<1>7. \A q \in Requests : mem'[q] # None => start'[q] <= Len(heap'[mem'[q]])
  BY <1>3, <1>5 DEF Basics, Posture, Undisturbed
<1>8. \A q \in Requests : pc'[q] = "claims" => Slice(q)' # <<>>
  BY <1>4, <1>5 DEF Basics, Posture, Holding
<1>9. \A q \in Requests : /\ pc'[q] \in Before => q \notin wrote'
                          /\ told'[q] = "ok" => pc'[q] = "done"
  BY <1>1, <1>5 DEF Basics, Posture, Before
<1>10. \A m \in wire' : m.claims # <<>> /\ m.set = m.claims[1] /\ pc'[m.from] \in Posted
  BY <1>1 DEF Basics, Posture, TypeOK, Posts, Posted
<1> QED BY <1>2, <1>6, <1>7, <1>8, <1>9, <1>10 DEF Posture

\* A step of a request that keeps or extends every list, and one of nobody.
LEMMA MoveBasics ==
  ASSUME Basics, NEW r \in Requests, NEW next \in Steps, Goto(r, next),
         \A q \in Requests : Undisturbed(q), UNCHANGED <<told, wrote>>,
         pc[r] # "done",
         next \in Holding <=> pc[r] \in Holding,
         next = "claims" => Slice(r) # <<>>,
         next \in Before => pc[r] \in Before,
         wire' \subseteq wire, pc[r] \in Posted => next \in Posted
  PROVE  pc' \in [Requests -> Steps] /\ Posture'
<1>1. pc' = [pc EXCEPT ![r] = next] /\ pc' \in [Requests -> Steps]
  BY DEF Goto, Basics, TypeOK
<1>2. \A q \in Requests : mem[q] # None => Slice(q)' = Slice(q)
  BY SliceKept
<1>3. pc'[r] = next /\ \A q \in Requests \ {r} : pc'[q] = pc[q]
  BY <1>1 DEF Basics, TypeOK
<1>4. \A q \in Requests : mem'[q] = mem[q] /\ start'[q] = start[q]
        /\ (mem[q] # None => heap'[mem[q]] = heap[mem[q]])
  BY DEF Undisturbed
<1>5. \A q \in Requests : pc'[q] \in Holding <=> mem'[q] # None
  BY <1>3, <1>4 DEF Basics, Posture
<1>6. \A q \in Requests : mem'[q] # None => start'[q] <= Len(heap'[mem'[q]])
  BY <1>4 DEF Basics, Posture
<1>7. \A q \in Requests : pc'[q] = "claims" => Slice(q)' # <<>>
  BY <1>2, <1>3, <1>4, <1>5 DEF Basics, Posture, Holding
<1>8. \A q \in Requests : pc'[q] \in Before => q \notin wrote'
  BY <1>3 DEF Basics, Posture
<1>9. \A q \in Requests : told'[q] = "ok" => pc'[q] = "done"
  BY <1>3 DEF Basics, Posture
<1>10. \A m \in wire' : m.claims # <<>> /\ m.set = m.claims[1] /\ pc'[m.from] \in Posted
  BY <1>3 DEF Basics, Posture, TypeOK, Posts
<1> QED BY <1>1, <1>5, <1>6, <1>7, <1>8, <1>9, <1>10 DEF Posture

\* A step that is nothing to the requests: a page view or the rebuild.
LEMMA ElsewherePosture ==
  ASSUME Basics, \A q \in Requests : Undisturbed(q), UNCHANGED <<pc, told, wrote>>, wire' \subseteq wire
  PROVE  Posture'
<1>1. \A q \in Requests : mem[q] # None => Slice(q)' = Slice(q)
  BY SliceKept
<1>2. \A q \in Requests : mem'[q] = mem[q] /\ start'[q] = start[q]
        /\ (mem[q] # None => heap'[mem[q]] = heap[mem[q]])
  BY DEF Undisturbed
<1>3. \A q \in Requests : pc'[q] = "claims" => Slice(q)' # <<>>
  BY <1>1 DEF Basics, Posture, Holding
<1> QED BY <1>2, <1>3 DEF Basics, Posture

LEMMA LoadBasics == ASSUME Basics, NEW r \in Requests, Load(r) PROVE Basics'
<1>a. r \in Requests /\ pc[r] = "idle" /\ mem[r] = None
      /\ UNCHANGED <<ledger, taken, wire, cache, start, objs, wrote, slug, view, rebuild, torn, crashes>>
  BY DEF Load, kernel, Basics, Posture, Holding
<1>1. CASE /\ fresh' = [fresh EXCEPT ![r] = Len(ledger)] /\ Goto(r, "store") /\ NoFailure
           /\ UNCHANGED <<heap, mem, told>>
  <2>1. \A q \in Requests : Undisturbed(q)
    BY <1>a, <1>1 DEF Undisturbed
  <2>2. pc' \in [Requests -> Steps] /\ Posture'
    BY <1>a, <1>1, <2>1, MoveBasics DEF Steps, Holding, Before, Posted
  <2>3. fresh' \in [Requests -> Nat] /\ \A q \in Requests : fresh'[q] <= Len(ledger)
    BY <1>1 DEF Basics, TypeOK, Bounds
  <2>4. Bounds' /\ TypeOK'
    BY <1>a, <1>1, <2>2, <2>3 DEF Basics, TypeOK, Bounds, rebuild, NoFailure
  <2> QED BY <2>2, <2>4 DEF Basics
<1>2. CASE Fail /\ Answer(r, "error") /\ UNCHANGED fresh
  <2>1. /\ heap' \in [Refs -> Seq(Claims)] /\ pc' \in [Requests -> Steps]
        /\ mem' \in [Requests -> Refs \cup {None}]
        /\ told' \in [Requests -> {"nothing", "ok", "error"}] /\ Posture'
    BY <1>a, <1>2, AnswerBasics
  <2>2. Bounds' /\ TypeOK'
    BY <1>a, <1>2, <2>1 DEF Basics, TypeOK, Bounds, rebuild, Fail
  <2> QED BY <2>1, <2>2 DEF Basics
<1> QED BY <1>1, <1>2 DEF Load

LEMMA StoreFreshBasics == ASSUME Basics, NEW r \in Requests, StoreFresh(r) PROVE Basics'
<1>1. /\ pc[r] = "store" /\ Goto(r, "take") /\ StoreReplay(fresh[r])
      /\ fresh' = [fresh EXCEPT ![r] = 0] /\ fresh[r] \in 0..Len(ledger)
      /\ UNCHANGED <<ledger, taken, wire, mem, start, objs, told, wrote, slug, view, rebuild, history>>
  BY DEF StoreFresh, kernel, Basics, TypeOK, Bounds
<1>2. /\ heap' \in [Refs -> Seq(Claims)] /\ cache' \in Refs
      /\ \A x \in Held \cap Refs : heap'[x] = heap[x]
  BY <1>1, StoreReplayType DEF Basics
<1>3. \A q \in Requests : Undisturbed(q)
  BY <1>1, <1>2 DEF Undisturbed, Held, Basics, TypeOK
<1>4. pc' \in [Requests -> Steps] /\ Posture'
  BY <1>1, <1>3, MoveBasics DEF Steps, Holding, Before, Posted
<1>5. fresh' \in [Requests -> Nat] /\ \A q \in Requests : fresh'[q] <= Len(ledger)
  BY <1>1 DEF Basics, TypeOK, Bounds
<1>6. Bounds' /\ TypeOK'
  BY <1>1, <1>2, <1>4, <1>5 DEF Basics, TypeOK, Bounds, rebuild, history
<1> QED BY <1>4, <1>6 DEF Basics

LEMMA TakeBasics == ASSUME Basics, NEW r \in Requests, Take(r) PROVE Basics'
<1>1. /\ pc[r] = "take" /\ pc' = [pc EXCEPT ![r] = "mutate"] /\ mem' = [mem EXCEPT ![r] = cache]
      /\ start' = [start EXCEPT ![r] = Len(heap[cache])]
      /\ UNCHANGED <<ledger, taken, wire, heap, cache, fresh, objs, told, wrote, slug, view, rebuild,
                     history>>
  BY DEF Take, Goto, kernel, process
<1>2. Len(heap[cache]) \in Nat /\ cache \in Refs
  BY DEF Basics, TypeOK
<1>3. TypeOK' /\ Bounds'
  BY <1>1, <1>2 DEF Basics, TypeOK, Bounds, rebuild, history, Steps
<1>4. \A q \in Requests \ {r} : Undisturbed(q) /\ pc'[q] = pc[q]
  BY <1>1 DEF Undisturbed, Basics, TypeOK
<1>5. \A q \in Requests \ {r} : mem[q] # None => Slice(q)' = Slice(q)
  BY <1>4, SliceKept
<1>6. pc'[r] = "mutate" /\ mem'[r] = cache /\ start'[r] = Len(heap[cache]) /\ r \notin wrote
  BY <1>1 DEF Basics, TypeOK, Posture, Before
<1>7. \A q \in Requests : mem'[q] # None => start'[q] <= Len(heap'[mem'[q]])
  BY <1>1, <1>2, <1>4, <1>6 DEF Basics, Posture, Undisturbed
<1>8. \A q \in Requests : pc'[q] = "claims" => Slice(q)' # <<>>
  BY <1>4, <1>5, <1>6 DEF Basics, Posture, Holding
<1>9. \A q \in Requests : mem'[q] # None <=> pc'[q] \in Holding
  BY <1>2, <1>4, <1>6 DEF Basics, Posture, Holding, Undisturbed
<1>10. /\ \A q \in Requests : pc'[q] \in Before => q \notin wrote'
       /\ \A q \in Requests : told'[q] = "ok" => pc'[q] = "done"
       /\ \A m \in wire' : m.claims # <<>> /\ m.set = m.claims[1] /\ pc'[m.from] \in Posted
  BY <1>1, <1>4, <1>6 DEF Basics, Posture, Before, TypeOK, Posts, Posted
<1> QED BY <1>3, <1>7, <1>8, <1>9, <1>10 DEF Basics, Posture

LEMMA RefuseBasics == ASSUME Basics, NEW r \in Requests, Refuse(r) PROVE Basics'
<1>1. /\ heap' \in [Refs -> Seq(Claims)] /\ pc' \in [Requests -> Steps]
      /\ mem' \in [Requests -> Refs \cup {None}]
      /\ told' \in [Requests -> {"nothing", "ok", "error"}] /\ Posture'
  BY AnswerBasics DEF Refuse, kernel
<1>2. Bounds' /\ TypeOK'
  BY <1>1 DEF Refuse, kernel, Basics, TypeOK, Bounds, rebuild, history
<1> QED BY <1>1, <1>2 DEF Basics

LEMMA TheEnding ==
  ASSUME NEW L \in Seq(Claims), NEW n \in 0..Len(L), NEW E, E = SubSeq(L, n + 1, Len(L))
  PROVE  E \in Seq(Claims) /\ Len(E) = Len(L) - n /\ \A i \in 1..Len(E) : E[i] = L[n + i]
<1>1. n <= Len(L) /\ n \in Nat
  OBVIOUS
<1>2. /\ SubSeq(L, n + 1, Len(L)) \in Seq(Claims)
      /\ Len(SubSeq(L, n + 1, Len(L))) = IF n <= Len(L) THEN Len(L) - n ELSE 0
      /\ \A i \in 1..Len(L) - n : SubSeq(L, n + 1, Len(L))[i] = L[n + i]
  BY <1>1, Ending
<1>3. E \in Seq(Claims) /\ Len(E) = (IF n <= Len(L) THEN Len(L) - n ELSE 0)
      /\ \A i \in 1..Len(L) - n : E[i] = L[n + i]
  BY <1>2
<1> QED BY <1>1, <1>3

\* The end of a list to which something is appended.
LEMMA EndingGrows ==
  ASSUME NEW old \in Seq(Claims), NEW own \in Seq(Claims), Len(own) \in Nat \ {0},
         NEW n \in 0..Len(old)
  PROVE  LET new == old \o own
             E   == SubSeq(old, n + 1, Len(old))
             F   == SubSeq(new, n + 1, Len(new))
         IN /\ F \in Seq(Claims) /\ F # <<>> /\ Begins(E, F)
            /\ Range(own) \subseteq Range(F)
            /\ E = <<>> => F[1] = own[1]
<1> DEFINE new == old \o own
           E   == SubSeq(old, n + 1, Len(old))
           F   == SubSeq(new, n + 1, Len(new))
<1>1. /\ new \in Seq(Claims) /\ Len(new) = Len(old) + Len(own)
      /\ \A i \in 1..Len(old) : new[i] = old[i]
      /\ \A i \in 1..Len(own) : new[Len(old) + i] = own[i]
  <2>1. \A i \in 1..Len(own) :
          Len(old) + i \in 1..Len(old) + Len(own) /\ ~ (Len(old) + i <= Len(old))
    OBVIOUS
  <2> QED BY <2>1, ConcatProperties
<1>2. E \in Seq(Claims) /\ Len(E) = Len(old) - n /\ \A i \in 1..Len(E) : E[i] = old[n + i]
  BY TheEnding
<1> HIDE DEF new
<1>3. F \in Seq(Claims) /\ Len(F) = Len(new) - n /\ \A i \in 1..Len(F) : F[i] = new[n + i]
  <2>1. n \in 0..Len(new)
    BY <1>1
  <2> QED BY <1>1, <2>1, TheEnding
<1> HIDE DEF E, F
<1>4. Len(old) \in Nat /\ n <= Len(old)
  OBVIOUS
<1>5. Begins(E, F)
  <2>1. Len(E) <= Len(F)
    BY <1>1, <1>2, <1>3, <1>4
  <2>2. ASSUME NEW i \in 1..Len(E) PROVE E[i] = F[i]
    <3>1. n + i \in 1..Len(old) /\ i \in 1..Len(F)
      BY <1>2, <1>4, <2>1
    <3> QED BY <1>1, <1>2, <1>3, <3>1
  <2> QED BY <2>1, <2>2 DEF Begins
<1>6. ASSUME NEW i \in 1..Len(own) PROVE own[i] \in Range(F)
  <2>1. PICK k \in 1..Len(F) : n + k = Len(old) + i
    <3>1. Len(old) - n + i \in 1..Len(F) /\ n + (Len(old) - n + i) = Len(old) + i
      BY <1>1, <1>3, <1>4
    <3> QED BY <3>1
  <2>2. F[k] = new[n + k] /\ new[Len(old) + i] = own[i]
    BY <1>1, <1>3
  <2>3. F[k] = own[i]
    BY <2>1, <2>2
  <2> QED BY <1>3, <2>3, RangeEquality
<1>7. ASSUME E = <<>> PROVE F[1] = own[1]
  <2>1. Len(E) = 0
    BY <1>7
  <2>2. 1 \in 1..Len(F) /\ 1 \in 1..Len(own) /\ n + 1 = Len(old) + 1
    BY <1>1, <1>2, <1>3, <1>4, <2>1
  <2>3. F[1] = new[n + 1] /\ new[Len(old) + 1] = own[1]
    BY <1>1, <1>3, <2>2
  <2> QED BY <2>2, <2>3
<1>8. F # <<>>
  <2>1. Len(F) # 0
    BY <1>1, <1>3, <1>4
  <2> QED BY <2>1
<1>9. Range(own) \subseteq Range(F)
  <2>1. Range(own) = {own[i] : i \in 1..Len(own)}
    BY RangeEquality
  <2> QED BY <1>6, <2>1
<1> QED BY <1>3, <1>5, <1>7, <1>8, <1>9 DEF new, E, F

\* The claims of a change go to the list of everybody who shares it.
LEMMA MutateLists ==
  ASSUME Basics, NEW r \in Requests, pc[r] = "mutate",
         heap' = [heap EXCEPT ![mem[r]] = @ \o Own(r)], UNCHANGED <<mem, start>>
  PROVE  /\ heap' \in [Refs -> Seq(Claims)]
         /\ mem[r] \in Refs /\ heap'[mem[r]] = heap[mem[r]] \o Own(r)
         /\ \A x \in Refs \ {mem[r]} : heap'[x] = heap[x]
         /\ \A q \in Requests : mem[q] # None =>
              /\ start[q] <= Len(heap'[mem[q]])
              /\ Slice(q)' \in Seq(Claims)
              /\ Begins(Slice(q), Slice(q)')
              /\ mem[q] # mem[r] => Slice(q)' = Slice(q)
              /\ mem[q] = mem[r] => /\ Range(Own(r)) \subseteq Range(Slice(q)')
                                    /\ Slice(q) = <<>> => Slice(q)'[1] = <<r, 1>>
                                    /\ Slice(q)' # <<>>
<1>1. mem[r] \in Refs /\ mem[r] # None /\ heap[mem[r]] \in Seq(Claims)
  BY DEF Basics, TypeOK, Posture, Holding
<1>2. Own(r) \in Seq(Claims) /\ Len(Own(r)) \in Nat \ {0} /\ Own(r)[1] = <<r, 1>>
  BY OwnType
<1>3. /\ heap[mem[r]] \o Own(r) \in Seq(Claims)
      /\ Len(heap[mem[r]] \o Own(r)) = Len(heap[mem[r]]) + Len(Own(r))
  BY <1>1, <1>2, ConcatProperties
<1>4. heap' \in [Refs -> Seq(Claims)] /\ heap'[mem[r]] = heap[mem[r]] \o Own(r)
      /\ \A x \in Refs \ {mem[r]} : heap'[x] = heap[x]
  BY <1>1, <1>3 DEF Basics, TypeOK
<1>5. ASSUME NEW q \in Requests, mem[q] # None
      PROVE  /\ start[q] <= Len(heap'[mem[q]])
             /\ Slice(q)' \in Seq(Claims)
             /\ Begins(Slice(q), Slice(q)')
             /\ mem[q] # mem[r] => Slice(q)' = Slice(q)
             /\ mem[q] = mem[r] => /\ Range(Own(r)) \subseteq Range(Slice(q)')
                                   /\ Slice(q) = <<>> => Slice(q)'[1] = <<r, 1>>
                                   /\ Slice(q)' # <<>>
  <2>1. mem[q] \in Refs /\ start[q] \in 0..Len(heap[mem[q]]) /\ Slice(q) \in Seq(Claims)
    BY <1>5, SliceType DEF Basics, Posture
  <2>2. CASE mem[q] # mem[r]
    <3>1. Slice(q)' = Slice(q) /\ heap'[mem[q]] = heap[mem[q]]
      BY <1>4, <2>1, <2>2 DEF Slice
    <3> QED BY <2>1, <2>2, <3>1 DEF Begins
  <2>3. CASE mem[q] = mem[r]
    <3> DEFINE old == heap[mem[r]]
               own == Own(r)
               new == old \o own
               E   == SubSeq(old, start[q] + 1, Len(old))
               F   == SubSeq(new, start[q] + 1, Len(new))
    <3>1. Slice(q) = E /\ Slice(q)' = F
      BY <1>4, <2>3 DEF Slice
    <3>2. start[q] \in 0..Len(old)
      BY <2>1, <2>3
    <3>a. old \in Seq(Claims) /\ own \in Seq(Claims) /\ Len(own) \in Nat \ {0}
      BY <1>1, <1>2
    <3> HIDE DEF old, own
    <3>b. F \in Seq(Claims) /\ F # <<>> /\ Begins(E, F) /\ Range(own) \subseteq Range(F)
          /\ (E = <<>> => F[1] = own[1])
      BY <3>2, <3>a, EndingGrows
    <3> HIDE DEF E, F
    <3>3. /\ Slice(q)' \in Seq(Claims) /\ Slice(q)' # <<>> /\ Begins(Slice(q), Slice(q)')
          /\ Range(own) \subseteq Range(Slice(q)')
          /\ Slice(q) = <<>> => Slice(q)'[1] = own[1]
      BY <3>1, <3>b
    <3>4. start[q] <= Len(heap'[mem[q]])
      BY <1>1, <1>2, <1>3, <1>4, <2>3, <3>2 DEF old
    <3> QED BY <1>2, <2>3, <3>3, <3>4 DEF own
  <2> QED BY <2>2, <2>3
<1> QED BY <1>1, <1>4, <1>5

LEMMA SlugType ==
  ASSUME TypeOK, NEW r \in Requests,
         slug' = [slug EXCEPT ![r] = IF r \in Named THEN FreeSlug(heap[mem[r]]) ELSE 0],
         mem[r] # None
  PROVE  slug' \in [Requests -> Nat]
<1> DEFINE list == heap[mem[r]]
           free == (1..Cardinality(Requests) + 1) \ SlugsIn(list)
<1>1. list \in Seq(Claims) /\ Cardinality(Requests) \in Nat
  BY FS_CardinalityType DEF TypeOK
<1>2. free # {}
  <2>1. SlugsIn(list) \subseteq {slug[q] : q \in Requests}
    <3>1. \A i \in 1..Len(list) : list[i][1] \in Requests
      BY <1>1 DEF Claims
    <3> QED BY <1>1, <3>1, LenProperties DEF SlugsIn
  <2>2. slug \in Surjection(Requests, {slug[q] : q \in Requests})
    BY DEF TypeOK, Surjection
  <2>3. IsFiniteSet({slug[q] : q \in Requests})
        /\ Cardinality({slug[q] : q \in Requests}) <= Cardinality(Requests)
    BY <2>2, FS_Surjection
  <2>4. ASSUME free = {} PROVE FALSE
    <3>1. 1..Cardinality(Requests) + 1 \subseteq {slug[q] : q \in Requests}
      BY <2>1, <2>4
    <3>2. Cardinality(1..Cardinality(Requests) + 1) <= Cardinality({slug[q] : q \in Requests})
      BY <2>3, <3>1, FS_Subset
    <3>3. Cardinality(1..Cardinality(Requests) + 1) = Cardinality(Requests) + 1
      BY <1>1, FS_Interval
    <3>4. Cardinality({slug[q] : q \in Requests}) \in Nat
      BY <2>3, FS_CardinalityType
    <3> QED BY <1>1, <2>3, <3>2, <3>3, <3>4
  <2> QED BY <2>4
<1>3. free \in SUBSET Nat
  BY <1>1
<1> HIDE DEF free
<1>4. Min(free) \in Nat
  BY <1>2, <1>3, LeastNumber
<1>5. FreeSlug(heap[mem[r]]) \in Nat
  BY <1>4 DEF FreeSlug, free
<1> QED BY <1>5 DEF TypeOK

LEMMA MutateBasics == ASSUME Basics, NEW r \in Requests, Mutate(r) PROVE Basics'
<1>1. /\ pc[r] = "mutate" /\ Goto(r, "objects") /\ pc' = [pc EXCEPT ![r] = "objects"]
      /\ UNCHANGED <<ledger, taken, wire, cache, fresh, mem, start, objs, told, view, rebuild, history>>
  BY DEF Mutate, Goto, kernel
<1>2. CASE UNCHANGED <<heap, slug, wrote>>
  <2>1. \A q \in Requests : Undisturbed(q)
    BY <1>1, <1>2 DEF Undisturbed
  <2>2. pc' \in [Requests -> Steps] /\ Posture'
    BY <1>1, <1>2, <2>1, MoveBasics DEF Steps, Holding, Before, Posted
  <2>3. Bounds' /\ TypeOK'
    BY <1>1, <1>2, <2>2 DEF Basics, TypeOK, Bounds, rebuild, history
  <2> QED BY <2>2, <2>3 DEF Basics
<1>3. CASE /\ heap' = [heap EXCEPT ![mem[r]] = @ \o Own(r)]
           /\ slug' = [slug EXCEPT ![r] = IF r \in Named THEN FreeSlug(heap[mem[r]]) ELSE 0]
           /\ wrote' = wrote \cup {r}
  <2>1. /\ heap' \in [Refs -> Seq(Claims)]
        /\ \A q \in Requests : mem[q] # None =>
             /\ start[q] <= Len(heap'[mem[q]])
             /\ Slice(q)' \in Seq(Claims) /\ Begins(Slice(q), Slice(q)')
    BY <1>1, <1>3, MutateLists
  <2>2. slug' \in [Requests -> Nat]
    BY <1>1, <1>3, SlugType DEF Basics, Posture, Holding
  <2>3. TypeOK' /\ Bounds'
    BY <1>1, <1>3, <2>1, <2>2 DEF Basics, TypeOK, Bounds, rebuild, history, Steps
  <2>4. pc'[r] = "objects" /\ \A q \in Requests \ {r} : pc'[q] = pc[q]
    BY <1>1 DEF Basics, TypeOK
  <2>5. \A q \in Requests : pc'[q] = "claims" => Slice(q)' # <<>>
    <3> SUFFICES ASSUME NEW q \in Requests, pc'[q] = "claims" PROVE Slice(q)' # <<>>
      OBVIOUS
    <3>1. pc[q] = "claims" /\ mem[q] # None /\ Slice(q) # <<>> /\ Slice(q) \in Seq(Claims)
      BY <2>4, SliceType DEF Basics, Posture, Holding
    <3>2. Len(Slice(q)) # 0 /\ Len(Slice(q)) <= Len(Slice(q)') /\ Slice(q)' \in Seq(Claims)
      BY <2>1, <3>1, EmptySeq DEF Begins
    <3> QED BY <3>1, <3>2
  <2>6. \A q \in Requests : mem'[q] # None <=> pc'[q] \in Holding
    BY <1>1, <2>4 DEF Basics, Posture, Holding
  <2>7. \A q \in Requests : pc'[q] \in Before => q \notin wrote'
    BY <1>3, <2>4 DEF Basics, Posture, Before
  <2>8. /\ \A q \in Requests : told'[q] = "ok" => pc'[q] = "done"
        /\ \A m \in wire' : m.claims # <<>> /\ m.set = m.claims[1] /\ pc'[m.from] \in Posted
    BY <1>1, <2>4 DEF Basics, Posture, TypeOK, Posts, Posted
  <2> QED BY <1>1, <2>1, <2>3, <2>5, <2>6, <2>7, <2>8 DEF Basics, Posture
<1> QED BY <1>2, <1>3 DEF Mutate

LEMMA ReadObjectsBasics == ASSUME Basics, NEW r \in Requests, ReadObjects(r) PROVE Basics'
<1>1. /\ pc[r] = "objects" /\ Goto(r, IF Slice(r) = <<>> THEN "cache" ELSE "claims")
      /\ objs' = [objs EXCEPT ![r] = Cardinality(ObjectsOf(Slice(r)))]
      /\ UNCHANGED <<ledger, taken, wire, heap, cache, fresh, mem, start, told, wrote, slug, view,
                     rebuild, history>>
  BY DEF ReadObjects, kernel, process
<1>2. Slice(r) \in Seq(Claims)
  BY <1>1, SliceType DEF Basics, Posture, Holding
<1>3. objs' \in [Requests -> Nat]
  BY <1>1, <1>2, ObjectsFinite DEF Basics, TypeOK
<1>4. \A q \in Requests : Undisturbed(q)
  BY <1>1 DEF Undisturbed
<1>5. pc' \in [Requests -> Steps] /\ Posture'
  <2>1. CASE Slice(r) = <<>>
    BY <1>1, <1>4, <2>1, MoveBasics DEF Steps, Holding, Before, Posted
  <2>2. CASE Slice(r) # <<>>
    BY <1>1, <1>4, <2>2, MoveBasics DEF Steps, Holding, Before, Posted
  <2> QED BY <2>1, <2>2
<1>6. Bounds' /\ TypeOK'
  BY <1>1, <1>3, <1>5 DEF Basics, TypeOK, Bounds, rebuild, history
<1> QED BY <1>5, <1>6 DEF Basics

\* What a post carries.
PostOf(r) == [from |-> r, set |-> Head(Slice(r)), objects |-> objs[r], claims |-> Slice(r)]

LEMMA PostType ==
  ASSUME Basics, NEW r \in Requests, pc[r] = "claims"
  PROVE  /\ PostOf(r) \in Posts /\ PostOf(r).from = r /\ PostOf(r).objects = objs[r]
         /\ PostOf(r).claims = Slice(r) /\ PostOf(r).set = Slice(r)[1]
         /\ Slice(r) \in Seq(Claims) /\ Slice(r) # <<>> /\ mem[r] # None
<1>1. Slice(r) \in Seq(Claims) /\ Slice(r) # <<>> /\ mem[r] # None
  BY SliceType DEF Basics, Posture, Holding
<1>2. Head(Slice(r)) = Slice(r)[1] /\ Slice(r)[1] \in Claims /\ objs[r] \in Nat
  BY <1>1, HeadTailProperties, EmptySeq, ElementOfSeq DEF Basics, TypeOK
<1> QED BY <1>1, <1>2 DEF PostOf, Posts

LEMMA SendBasics == ASSUME Basics, NEW r \in Requests, Send(r) PROVE Basics'
<1>1. /\ pc[r] = "claims" /\ pc' = [pc EXCEPT ![r] = "sent"] /\ wire' = wire \cup {PostOf(r)}
      /\ torn' \in BOOLEAN
      /\ UNCHANGED <<ledger, taken, heap, cache, fresh, mem, start, objs, told, wrote, slug, view,
                     rebuild, failures, crashes>>
  BY DEF Send, Goto, PostOf, process, Basics, TypeOK
<1>2. TypeOK' /\ Bounds'
  BY <1>1, PostType DEF Basics, TypeOK, Bounds, rebuild, Steps
<1>3. pc'[r] = "sent" /\ \A q \in Requests \ {r} : pc'[q] = pc[q]
  BY <1>1 DEF Basics, TypeOK
<1>4. \A q \in Requests : mem[q] # None => Slice(q)' = Slice(q)
  BY <1>1 DEF Slice
<1>5. \A q \in Requests : pc'[q] = "claims" => Slice(q)' # <<>>
  BY <1>3, <1>4 DEF Basics, Posture, Holding
<1>6. ASSUME NEW m \in wire'
      PROVE  m.claims # <<>> /\ m.set = m.claims[1] /\ pc'[m.from] \in Posted
  <2>1. CASE m \in wire
    BY <1>3, <2>1 DEF Basics, Posture, TypeOK, Posts, Posted
  <2>2. CASE m = PostOf(r)
    <3>1. m.claims = Slice(r) /\ m.set = Slice(r)[1] /\ m.from = r /\ Slice(r) # <<>>
      BY <1>1, <2>2, PostType
    <3> QED BY <1>3, <3>1 DEF Posted
  <2> QED BY <1>1, <2>1, <2>2
<1>7. \A q \in Requests : /\ mem'[q] # None <=> pc'[q] \in Holding
                          /\ mem'[q] # None => start'[q] <= Len(heap'[mem'[q]])
                          /\ pc'[q] \in Before => q \notin wrote'
                          /\ told'[q] = "ok" => pc'[q] = "done"
  BY <1>1, <1>3 DEF Basics, Posture, Holding, Before
<1> QED BY <1>2, <1>5, <1>6, <1>7 DEF Basics, Posture

\* How many rows of a post the kernel takes for rows that it has.
Skipped(m) == IF taken[m.set] - m.objects <= 0 THEN 0 ELSE taken[m.set] - m.objects

LEMMA NewRowsType ==
  ASSUME TypeOK, NEW m \in wire
  PROVE  /\ m.claims \in Seq(Claims) /\ m.set \in Claims /\ m.objects \in Nat /\ m.from \in Requests
         /\ Skipped(m) \in Nat
         /\ NewRows(m) = SubSeq(m.claims, Skipped(m) + 1, Len(m.claims))
         /\ NewRows(m) \in Seq(Claims)
         /\ Max({taken[m.set], m.objects + Len(m.claims)}) =
              IF taken[m.set] <= m.objects + Len(m.claims) THEN m.objects + Len(m.claims)
                                                           ELSE taken[m.set]
<1>1. /\ m.claims \in Seq(Claims) /\ m.set \in Claims /\ m.objects \in Nat /\ m.from \in Requests
      /\ taken[m.set] \in Nat /\ Len(m.claims) \in Nat
  BY DEF TypeOK, Posts
<1>2. Max({1, taken[m.set] - m.objects + 1}) = Skipped(m) + 1
  BY <1>1, LargerOfTwo DEF Skipped
<1>3. Skipped(m) \in Nat
  BY <1>1 DEF Skipped
<1>4. NewRows(m) = SubSeq(m.claims, Skipped(m) + 1, Len(m.claims))
  BY <1>2 DEF NewRows
<1>5. NewRows(m) \in Seq(Claims)
  <2>1. \A n \in Nat : SubSeq(m.claims, n + 1, Len(m.claims)) \in Seq(Claims)
    BY <1>1, Ending
  <2> QED BY <1>3, <1>4, <2>1
<1>6. Max({taken[m.set], m.objects + Len(m.claims)}) =
        IF taken[m.set] <= m.objects + Len(m.claims) THEN m.objects + Len(m.claims) ELSE taken[m.set]
  <2>1. \A a, b \in Int : Max({a, b}) = IF a <= b THEN b ELSE a
    BY LargerOfTwo
  <2>2. taken[m.set] \in Int /\ m.objects + Len(m.claims) \in Int
    BY <1>1
  <2> QED BY <2>1, <2>2
<1> QED BY <1>1, <1>3, <1>4, <1>5, <1>6

LEMMA ArriveBasics == ASSUME Basics, NEW m \in wire, Arrive(m) PROVE Basics'
<1>1. /\ wire' = wire \ {m} /\ ledger' = ledger \o NewRows(m)
      /\ taken' = [taken EXCEPT ![m.set] = Max({@, m.objects + Len(m.claims)})]
      /\ IF pc[m.from] = "sent" THEN Goto(m.from, "cache") ELSE UNCHANGED pc
      /\ UNCHANGED <<heap, cache, fresh, mem, start, objs, told, wrote, slug, view, rebuild, history>>
  BY DEF Arrive, process
<1>2. /\ m.set \in Claims /\ m.objects \in Nat /\ m.from \in Requests /\ NewRows(m) \in Seq(Claims)
      /\ m.claims \in Seq(Claims)
  BY NewRowsType DEF Basics
<1>3. ledger' \in Seq(Claims) /\ Len(ledger) <= Len(ledger') /\ Len(ledger) \in Nat /\ Len(ledger') \in Nat
  <2>1. ledger \in Seq(Claims)
    BY DEF Basics, TypeOK
  <2>2. ledger' \in Seq(Claims) /\ Begins(ledger, ledger')
    BY <1>1, <1>2, <2>1, AppendBegins
  <2> QED BY <2>1, <2>2 DEF Begins
<1>4. taken' \in [Claims -> Nat]
  <2>1. Max({taken[m.set], m.objects + Len(m.claims)}) \in Nat
    <3>1. taken[m.set] \in Nat /\ m.objects + Len(m.claims) \in Nat
      BY <1>2 DEF Basics, TypeOK
    <3>2. Max({taken[m.set], m.objects + Len(m.claims)}) =
            IF taken[m.set] <= m.objects + Len(m.claims) THEN m.objects + Len(m.claims)
                                                         ELSE taken[m.set]
      BY NewRowsType DEF Basics
    <3> QED BY <3>1, <3>2
  <2> QED BY <1>1, <2>1 DEF Basics, TypeOK
<1>5. \A q \in Requests : Undisturbed(q)
  BY <1>1 DEF Undisturbed
<1>6. pc' \in [Requests -> Steps] /\ Posture'
  <2>1. CASE pc[m.from] = "sent"
    BY <1>1, <1>2, <1>5, <2>1, MoveBasics DEF Steps, Holding, Before, Posted
  <2>2. CASE pc[m.from] # "sent"
    <3>1. UNCHANGED pc /\ pc' \in [Requests -> Steps]
      BY <1>1, <2>2 DEF Basics, TypeOK
    <3> QED BY <1>1, <1>5, <3>1, ElsewherePosture
  <2> QED BY <2>1, <2>2
<1>7. Bounds'
  <2>1. UNCHANGED <<fresh, view, built>>
    BY <1>1 DEF rebuild
  <2>2. (\A q \in Requests : fresh[q] \in Nat) /\ built \in Nat /\ (view # None => view \in Nat)
    BY DEF Basics, TypeOK
  <2> QED BY <1>3, <2>1, <2>2 DEF Basics, Bounds
<1>8. TypeOK'
  BY <1>1, <1>3, <1>4, <1>6 DEF Basics, TypeOK, rebuild, history
<1> QED BY <1>6, <1>7, <1>8 DEF Basics

LEMMA GiveUpBasics == ASSUME Basics, NEW r \in Requests, GiveUp(r) PROVE Basics'
<1>1. pc[r] = "sent" /\ Fail /\ Answer(r, "error") /\ wire' \subseteq wire
      /\ UNCHANGED <<ledger, taken, cache, fresh, start, objs, wrote, slug, view, rebuild, torn, crashes>>
  BY DEF GiveUp
<1>2. /\ heap' \in [Refs -> Seq(Claims)] /\ pc' \in [Requests -> Steps]
      /\ mem' \in [Requests -> Refs \cup {None}]
      /\ told' \in [Requests -> {"nothing", "ok", "error"}] /\ Posture'
  BY <1>1, AnswerBasics
<1>3. Bounds' /\ TypeOK'
  BY <1>1, <1>2 DEF Basics, TypeOK, Bounds, rebuild, Fail
<1> QED BY <1>2, <1>3 DEF Basics

LEMMA StoreMutatedBasics == ASSUME Basics, NEW r \in Requests, StoreMutated(r) PROVE Basics'
<1>1. /\ pc[r] = "cache" /\ Goto(r, "schedule") /\ cache' = mem[r] /\ heap' = Live(heap, Held)
      /\ UNCHANGED <<ledger, taken, wire, fresh, mem, start, objs, told, wrote, slug, view, rebuild, history>>
  BY DEF StoreMutated, kernel
<1>2. heap' \in [Refs -> Seq(Claims)] /\ cache' \in Refs
  BY <1>1, LiveType DEF Basics, TypeOK, Posture, Holding
<1>3. \A q \in Requests : Undisturbed(q)
  BY <1>1 DEF Undisturbed, Live, Held, Basics, TypeOK
<1>4. pc' \in [Requests -> Steps] /\ Posture'
  BY <1>1, <1>3, MoveBasics DEF Steps, Holding, Before, Posted
<1>5. Bounds' /\ TypeOK'
  BY <1>1, <1>2, <1>4 DEF Basics, TypeOK, Bounds, rebuild, history
<1> QED BY <1>4, <1>5 DEF Basics

LEMMA ScheduleBasics == ASSUME Basics, NEW r \in Requests, Schedule(r) PROVE Basics'
<1>1. pc[r] = "schedule" /\ Answer(r, "ok")
      /\ UNCHANGED <<ledger, taken, wire, cache, fresh, start, objs, wrote, slug, view, built, projection,
                     complete, history>>
  BY DEF Schedule, kernel
<1>2. /\ heap' \in [Refs -> Seq(Claims)] /\ pc' \in [Requests -> Steps]
      /\ mem' \in [Requests -> Refs \cup {None}]
      /\ told' \in [Requests -> {"nothing", "ok", "error"}] /\ Posture'
  BY <1>1, AnswerBasics
<1>3. build' \in {"idle", "load", "tables", "cache", "next"} /\ queued' \in BOOLEAN
  BY DEF Schedule, ScheduleRebuild, Basics, TypeOK
<1>4. Bounds' /\ TypeOK'
  BY <1>1, <1>2, <1>3 DEF Basics, TypeOK, Bounds, history
<1> QED BY <1>2, <1>4 DEF Basics

\* A replay that nobody asked for.
LEMMA ReplayElsewhere ==
  ASSUME Basics, NEW n \in 0..Len(ledger), StoreReplay(n), UNCHANGED requests, wire' \subseteq wire
  PROVE  /\ heap' \in [Refs -> Seq(Claims)] /\ cache' \in Refs /\ Posture'
         /\ \A q \in Requests : Undisturbed(q)
<1>1. /\ heap' \in [Refs -> Seq(Claims)] /\ cache' \in Refs
      /\ \A x \in Held \cap Refs : heap'[x] = heap[x]
  BY StoreReplayType DEF Basics
<1>2. \A q \in Requests : Undisturbed(q)
  BY <1>1 DEF Undisturbed, Held, Basics, TypeOK, requests
<1> QED BY <1>1, <1>2, ElsewherePosture DEF requests

LEMMA ViewBasics == ASSUME Basics, ViewStep PROVE Basics'
<1>1. CASE ViewLoad
  <2>1. view' = Len(ledger) /\ UNCHANGED <<kernel, process, requests, rebuild, history>>
    BY <1>1 DEF ViewLoad
  <2>2. \A q \in Requests : Undisturbed(q)
    BY <2>1 DEF Undisturbed, requests, process
  <2>3. Posture'
    BY <2>1, <2>2, ElsewherePosture DEF requests, kernel
  <2>4. Bounds' /\ TypeOK'
    BY <2>1 DEF Basics, TypeOK, Bounds, kernel, process, requests, rebuild, history
  <2> QED BY <2>3, <2>4 DEF Basics
<1>2. CASE ViewStore
  <2>1. /\ view \in 0..Len(ledger) /\ StoreReplay(view) /\ view' = None
        /\ UNCHANGED <<kernel, requests, rebuild, history>>
    BY <1>2 DEF ViewStore, Basics, TypeOK, Bounds
  <2>2. heap' \in [Refs -> Seq(Claims)] /\ cache' \in Refs /\ Posture'
    BY <2>1, ReplayElsewhere DEF kernel
  <2>3. Bounds' /\ TypeOK'
    BY <2>1, <2>2 DEF Basics, TypeOK, Bounds, kernel, requests, rebuild, history
  <2> QED BY <2>2, <2>3 DEF Basics
<1> QED BY <1>1, <1>2 DEF ViewStep

LEMMA BuildBasics == ASSUME Basics, BuildStep PROVE Basics'
<1>1. CASE BuildCache /\ ~(built < Len(heap[cache]))
  <2>1. /\ built \in 0..Len(ledger) /\ StoreReplay(built) /\ built' = 0 /\ build' = "next" /\ complete' = TRUE
        /\ UNCHANGED <<kernel, requests, view, queued, projection, history>>
    BY <1>1 DEF BuildCache, Basics, TypeOK, Bounds
  <2>2. heap' \in [Refs -> Seq(Claims)] /\ cache' \in Refs /\ Posture'
    BY <2>1, ReplayElsewhere DEF kernel
  <2>3. Bounds' /\ TypeOK'
    BY <2>1, <2>2 DEF Basics, TypeOK, Bounds, kernel, requests, history
  <2> QED BY <2>2, <2>3 DEF Basics
<1>2. ASSUME ~(BuildCache /\ ~(built < Len(heap[cache]))) PROVE Basics'
  <2>1. UNCHANGED <<kernel, process, requests, view, torn, crashes>>
    BY <1>2 DEF BuildStep, BuildLoad, BuildTables, BuildCache, BuildNext, history
  <2>2. /\ build' \in {"idle", "load", "tables", "cache", "next"} /\ queued' \in BOOLEAN
        /\ complete' \in BOOLEAN /\ failures' \in Nat /\ built' \in 0..Len(ledger)
    <3>1. /\ built \in 0..Len(ledger) /\ Len(ledger) \in Nat /\ failures \in Nat
          /\ queued \in BOOLEAN /\ complete \in BOOLEAN
      BY DEF Basics, TypeOK, Bounds
    <3>2. CASE BuildLoad
      <4>1. /\ build' \in {"tables", "next"} /\ built' \in {0, Len(ledger)} /\ queued' = queued
            /\ failures' \in {failures, failures + 1}
        BY <3>2 DEF BuildLoad, BuildFails, Fail, NoFailure
      <4>2. complete' = complete \/ complete' = FALSE
        BY <3>2 DEF BuildLoad, BuildFails
      <4>3. queued' \in BOOLEAN
        BY <3>1, <4>1
      <4>4. complete' \in BOOLEAN
        BY <3>1, <4>2
      <4>5. failures' \in Nat /\ built' \in 0..Len(ledger)
        BY <3>1, <4>1
      <4> QED BY <4>1, <4>3, <4>4, <4>5
    <3>3. CASE BuildTables
      <4>1. /\ build' \in {"cache", "next"} /\ built' \in {0, built} /\ queued' = queued
            /\ failures' \in {failures, failures + 1}
        BY <3>3 DEF BuildTables, BuildFails, Fail, NoFailure
      <4>2. complete' = complete \/ complete' = FALSE
        BY <3>3 DEF BuildTables, BuildFails
      <4>3. queued' \in BOOLEAN
        BY <3>1, <4>1
      <4>4. complete' \in BOOLEAN
        BY <3>1, <4>2
      <4>5. failures' \in Nat /\ built' \in 0..Len(ledger)
        BY <3>1, <4>1
      <4> QED BY <4>1, <4>3, <4>4, <4>5
    <3>4. CASE BuildCache
      BY <3>1, <3>4 DEF BuildCache, history
    <3>5. CASE BuildNext
      BY <3>1, <3>5 DEF BuildNext, history
    <3> QED BY <3>2, <3>3, <3>4, <3>5 DEF BuildStep
  <2>3. projection' \subseteq Claims
    <3>1. built \in 0..Len(ledger) /\ ledger \in Seq(Claims)
      BY DEF Basics, TypeOK, Bounds
    <3>2. Range(Replay) \subseteq Claims
      <4>1. Replay \in Seq(Claims)
        BY <3>1, Beginning DEF Replay
      <4>2. Range(Replay) = {Replay[i] : i \in 1..Len(Replay)}
        BY <4>1, RangeEquality
      <4> QED BY <4>1, <4>2
    <3> QED BY <3>2 DEF BuildStep, BuildLoad, BuildTables, BuildCache, BuildNext, BuildFails,
                        Basics, TypeOK, rebuild
  <2>4. \A q \in Requests : Undisturbed(q)
    BY <2>1 DEF Undisturbed, process, requests
  <2>5. Posture'
    BY <2>1, <2>4, ElsewherePosture DEF requests, kernel
  <2>6. Bounds' /\ TypeOK'
    BY <2>1, <2>2, <2>3 DEF Basics, TypeOK, Bounds, kernel, process, requests
  <2> QED BY <2>5, <2>6 DEF Basics
<1> QED BY <1>1, <1>2

LEMMA CrashBasics == ASSUME Basics, Crash PROVE Basics'
<1>1. /\ crashes' = crashes + 1 /\ cache' = Min(Refs)
      /\ heap' = [x \in Refs |-> IF x = Min(Refs) THEN ledger ELSE <<>>]
      /\ pc' = [r \in Requests |-> IF pc[r] = "idle" THEN "idle" ELSE "done"]
      /\ told' = [r \in Requests |-> IF pc[r] \in {"idle", "done"} THEN told[r] ELSE "error"]
      /\ mem' = [r \in Requests |-> None] /\ fresh' = [r \in Requests |-> 0] /\ view' = None
      /\ build' = "load" /\ built' = 0 /\ queued' = FALSE /\ complete' = FALSE
      /\ UNCHANGED <<ledger, taken, wire, start, objs, wrote, slug, projection, torn, failures>>
  BY DEF Crash, kernel
<1>2. <<>> \in Seq(Claims)
  OBVIOUS
<1>3. TypeOK'
  <2>1. heap' \in [Refs -> Seq(Claims)]
    BY <1>1, <1>2 DEF Basics, TypeOK
  <2>2. pc' \in [Requests -> Steps] /\ told' \in [Requests -> {"nothing", "ok", "error"}]
    BY <1>1 DEF Basics, TypeOK, Steps
  <2>3. cache' \in Refs /\ mem' \in [Requests -> Refs \cup {None}] /\ fresh' \in [Requests -> Nat]
    BY <1>1, AnyStore
  <2>4. /\ queued' \in BOOLEAN /\ complete' \in BOOLEAN /\ build' \in {"idle", "load", "tables", "cache", "next"}
        /\ view' \in Nat \cup {None} /\ built' \in Nat
    BY <1>1
  <2>5. /\ ledger' \in Seq(Claims) /\ taken' \in [Claims -> Nat] /\ wire' \subseteq Posts
        /\ start' \in [Requests -> Nat] /\ objs' \in [Requests -> Nat] /\ wrote' \subseteq Requests
        /\ slug' \in [Requests -> Nat] /\ projection' \subseteq Claims /\ torn' \in BOOLEAN
        /\ failures' \in Nat /\ crashes' \in Nat
    BY <1>1 DEF Basics, TypeOK
  <2> QED BY <2>1, <2>2, <2>3, <2>4, <2>5 DEF TypeOK
<1>4. Bounds'
  BY <1>1 DEF Basics, TypeOK, Bounds
<1>5. Posture'
  BY <1>1 DEF Basics, TypeOK, Posture, Holding, Before, Posted, Posts
<1> QED BY <1>3, <1>4, <1>5 DEF Basics

LEMMA StepBasics == ASSUME Basics, [Next]_vars PROVE Basics'
<1>1. CASE UNCHANGED vars
  BY <1>1 DEF vars, kernel, process, requests, rebuild, history, Basics, TypeOK, Bounds, Posture, Slice
<1>2. CASE Next
  <2>1. ASSUME NEW r \in Requests, RequestStep(r) PROVE Basics'
    BY <2>1, LoadBasics, StoreFreshBasics, TakeBasics, MutateBasics, RefuseBasics, ReadObjectsBasics,
       SendBasics, GiveUpBasics, StoreMutatedBasics, ScheduleBasics DEF RequestStep
  <2> QED BY <1>2, <2>1, ArriveBasics, ViewBasics, BuildBasics, CrashBasics DEF Next
<1> QED BY <1>1, <1>2

(* Every variable keeps its type: in particular there is always a          *)
(* memoryStore to replay into and a number left for a slug.                *)
THEOREM StoreTypes == Spec => []TypeOK
<1>1. Spec => []Basics
  BY InitBasics, StepBasics, PTL DEF Spec
<1>2. Basics => TypeOK
  BY DEF Basics
<1> QED BY <1>1, <1>2, PTL

-----------------------------------------------------------------------------
(* One list per change set.  The claims of a post begin the list of claims *)
(* that its request works on, the requests whose lists have one head work  *)
(* on one list, and the kernel's count of a change set is the count of a   *)
(* beginning of it that is in the ledger.                                  *)

Appended == {"objects", "claims", "sent", "cache", "schedule"}
Landed   == {"cache", "schedule"}

Tailed(q) == mem[q] # None /\ Slice(q) # <<>>
Weight(L) == Cardinality(ObjectsOf(L)) + Len(L)
Written   == {c \in Claims : c[1] \in wrote}

Known ==
    /\ Range(ledger) \subseteq Written
    /\ \A x \in Refs : Range(heap[x]) \subseteq Written
    /\ \A m \in wire : Range(m.claims) \subseteq Written
    /\ \A c \in Claims : taken[c] > 0 => c \in Written

SameTail ==
    \A p, q \in Requests :
        Tailed(p) /\ Tailed(q) /\ Slice(p)[1] = Slice(q)[1] => mem[p] = mem[q] /\ start[p] = start[q]

Counted == ~torn => \A m \in wire : m.objects = Cardinality(ObjectsOf(m.claims))

\* The beginning L of the list is in the ledger and is what was counted.
Kept(c, L) == L # <<>> /\ taken[c] = Weight(L) /\ Range(L) \subseteq Range(ledger)
Root(c, G) ==
    /\ \A m \in wire : m.set = c => Begins(m.claims, G)
    /\ \A q \in Requests : Tailed(q) /\ Slice(q)[1] = c => Slice(q) = G
    /\ ~torn /\ taken[c] > 0 => \E L \in Seq(Claims) : Begins(L, G) /\ Kept(c, L)
Rooted == \A c \in Claims : \E G \in Seq(Claims) : Root(c, G)

Carried ==
    /\ \A r \in wrote : pc[r] \in Appended => Range(Own(r)) \subseteq Range(Slice(r))
    /\ \A m \in wire : m.from \in wrote => Range(Own(m.from)) \subseteq Range(m.claims)
    /\ ~torn => \A r \in wrote : pc[r] \in Landed \/ told[r] = "ok" => Durable(r)

Lines == Known /\ SameTail /\ Counted /\ Rooted /\ Carried

\* Most steps neither extend a list nor post nor deliver.
Quiet ==
    /\ UNCHANGED <<ledger, taken, torn, wrote>> /\ wire' \subseteq wire
    /\ \A x \in Refs : Range(heap'[x]) \subseteq Range(heap[x]) \cup Range(ledger)
    /\ \A q \in Requests : Tailed(q)' => mem[q] # None /\ Undisturbed(q)
    /\ \A q \in wrote : pc'[q] \in Appended => pc[q] \in Appended /\ Undisturbed(q)
    /\ \A q \in wrote : pc'[q] \in Landed \/ told'[q] = "ok" => pc[q] \in Landed \/ told[q] = "ok"

LEMMA EmptyRange == Range(<<>>) = {}
<1>1. <<>> \in Seq(Claims)
  OBVIOUS
<1>2. Range(<<>>) = {<<>>[i] : i \in 1..Len(<<>>)}
  BY <1>1, RangeEquality
<1>3. 1..Len(<<>>) = {}
  OBVIOUS
<1> QED BY <1>2, <1>3

LEMMA OwnNotEmpty ==
  ASSUME NEW r \in Requests
  PROVE  <<r, 1>> \in Range(Own(r))
<1>1. Own(r) \in Seq(Claims) /\ Len(Own(r)) \in Nat \ {0} /\ Own(r)[1] = <<r, 1>>
  BY OwnType
<1>2. 1 \in 1..Len(Own(r))
  BY <1>1
<1> QED BY <1>1, <1>2, RangeEquality

LEMMA InitLines == Init => Lines
<1> SUFFICES ASSUME Init PROVE Lines
  OBVIOUS
<1>1. \A q \in Requests : ~Tailed(q)
  BY DEF Init, Tailed
<1>2. Range(ledger) = {} /\ \A x \in Refs : Range(heap[x]) = {}
  BY EmptyRange DEF Init
<1>3. Known
  BY <1>2 DEF Init, Known
<1>4. <<>> \in Seq(Claims)
  OBVIOUS
<1>5. Rooted
  <2>1. \A c \in Claims : Root(c, <<>>)
    BY <1>1 DEF Init, Root
  <2> QED BY <1>4, <2>1 DEF Rooted
<1>6. SameTail /\ Counted /\ Carried
  BY <1>1 DEF Init, SameTail, Counted, Carried
<1> QED BY <1>3, <1>5, <1>6 DEF Lines

LEMMA AnswerQuiet ==
  ASSUME Basics, NEW r \in Requests, NEW answer \in {"ok", "error"}, Answer(r, answer),
         UNCHANGED <<ledger, taken, torn, wrote, start>>, wire' \subseteq wire,
         answer = "ok" => pc[r] \in Landed
  PROVE  Quiet
<1>1. /\ pc' = [pc EXCEPT ![r] = "done"] /\ mem' = [mem EXCEPT ![r] = None]
      /\ told' = [told EXCEPT ![r] = answer]
      /\ heap' = Live(heap, {cache} \cup {mem[q] : q \in Requests \ {r}})
  BY DEF Answer, Goto
<1>2. \A x \in Refs : heap'[x] = heap[x] \/ heap'[x] = <<>>
  BY <1>1 DEF Live
<1>3. \A q \in Requests \ {r} : Undisturbed(q)
  BY <1>1 DEF Undisturbed, Live, Basics, TypeOK
<1>4. /\ \A q \in Requests \ {r} : pc'[q] = pc[q] /\ told'[q] = told[q] /\ mem'[q] = mem[q]
      /\ pc'[r] = "done" /\ mem'[r] = None /\ told'[r] = answer /\ wrote \subseteq Requests
  BY <1>1 DEF Basics, TypeOK
<1>5. \A x \in Refs : Range(heap'[x]) \subseteq Range(heap[x]) \cup Range(ledger)
  BY <1>2, EmptyRange
<1>6. \A q \in Requests : Tailed(q)' => mem[q] # None /\ Undisturbed(q)
  BY <1>3, <1>4 DEF Tailed
<1>7. \A q \in wrote : pc'[q] \in Appended => pc[q] \in Appended /\ Undisturbed(q)
  BY <1>3, <1>4 DEF Appended
<1>8. \A q \in wrote : pc'[q] \in Landed \/ told'[q] = "ok" => pc[q] \in Landed \/ told[q] = "ok"
  BY <1>4 DEF Landed
<1> QED BY <1>5, <1>6, <1>7, <1>8 DEF Quiet

LEMMA StayQuiet ==
  ASSUME Basics, UNCHANGED <<ledger, taken, torn, wrote, told>>, wire' \subseteq wire,
         \A x \in Refs : Range(heap'[x]) \subseteq Range(heap[x]) \cup Range(ledger),
         \A q \in Requests : Undisturbed(q),
         \A q \in wrote : /\ pc'[q] \in Appended => pc[q] \in Appended
                          /\ pc'[q] \in Landed => pc[q] \in Landed
  PROVE  Quiet
<1>1. \A q \in Requests : Tailed(q)' => mem[q] # None /\ Undisturbed(q)
  BY DEF Tailed, Undisturbed
<1>2. wrote \subseteq Requests
  BY DEF Basics, TypeOK
<1> QED BY <1>1, <1>2 DEF Quiet

LEMMA ReplayRange ==
  ASSUME TypeOK, NEW n \in 0..Len(ledger), StoreReplay(n)
  PROVE  \A x \in Refs : Range(heap'[x]) \subseteq Range(heap[x]) \cup Range(ledger)
<1>1. \A x \in Refs : heap'[x] = SubSeq(ledger, 1, n) \/ heap'[x] = heap[x] \/ heap'[x] = <<>>
  BY StoreReplayType
<1>2. ledger \in Seq(Claims)
  BY DEF TypeOK
<1>3. SubSeq(ledger, 1, n) \in Seq(Claims) /\ Begins(SubSeq(ledger, 1, n), ledger)
  BY <1>2, Beginning
<1>4. Range(SubSeq(ledger, 1, n)) \subseteq Range(ledger)
  BY <1>2, <1>3, BeginsRange
<1> QED BY <1>1, <1>4, EmptyRange

LEMMA RequestQuiet ==
  ASSUME Basics, Carried, NEW r \in Requests, RequestStep(r)
  PROVE  \/ Quiet
         \/ Send(r)
         \/ Mutate(r) /\ heap' = [heap EXCEPT ![mem[r]] = @ \o Own(r)] /\ wrote' = wrote \cup {r}
<1> USE DEF kernel, rebuild, history
<1>w. wrote \subseteq Requests
  BY DEF Basics, TypeOK
<1>1. CASE Load(r)
  <2>1. /\ UNCHANGED <<ledger, taken, wire, start, wrote, torn>> /\ pc[r] = "idle"
        /\ \/ Goto(r, "store") /\ UNCHANGED <<heap, mem, told>>
           \/ Answer(r, "error")
    BY <1>1 DEF Load
  <2>2. CASE Goto(r, "store") /\ UNCHANGED <<heap, mem, told>>
    <3>1. \A q \in Requests : Undisturbed(q)
      BY <2>1, <2>2 DEF Undisturbed
    <3> QED BY <1>w, <2>1, <2>2, <3>1, StayQuiet DEF Goto, Appended, Landed, Basics, TypeOK
  <2>3. CASE Answer(r, "error")
    BY <2>1, <2>3, AnswerQuiet
  <2> QED BY <2>1, <2>2, <2>3
<1>2. CASE StoreFresh(r)
  <2>1. /\ UNCHANGED <<ledger, taken, wire, mem, start, told, wrote, torn>> /\ Goto(r, "take")
        /\ StoreReplay(fresh[r]) /\ fresh[r] \in 0..Len(ledger)
    BY <1>2 DEF StoreFresh, Basics, TypeOK, Bounds
  <2>2. \A x \in Held \cap Refs : heap'[x] = heap[x]
    BY <2>1, StoreReplayType DEF Basics
  <2>3. \A q \in Requests : Undisturbed(q)
    BY <2>1, <2>2 DEF Undisturbed, Held, Basics, TypeOK
  <2>4. \A x \in Refs : Range(heap'[x]) \subseteq Range(heap[x]) \cup Range(ledger)
    BY <2>1, ReplayRange DEF Basics
  <2> QED BY <1>w, <2>1, <2>3, <2>4, StayQuiet DEF Goto, Appended, Landed, Basics, TypeOK
<1>3. CASE Take(r)
  <2>1. /\ UNCHANGED <<ledger, taken, wire, heap, told, wrote, torn>> /\ pc' = [pc EXCEPT ![r] = "mutate"]
        /\ mem' = [mem EXCEPT ![r] = cache] /\ start' = [start EXCEPT ![r] = Len(heap[cache])]
        /\ pc[r] = "take"
    BY <1>3 DEF Take, Goto, process
  <2>2. \A q \in Requests \ {r} : Undisturbed(q)
    BY <2>1 DEF Undisturbed, Basics, TypeOK
  <2>3. mem'[r] = cache /\ start'[r] = Len(heap[cache]) /\ pc'[r] = "mutate" /\ r \notin wrote
    BY <2>1 DEF Basics, TypeOK, Posture, Before
  <2>4. Slice(r)' = <<>>
    <3>1. Slice(r)' = SubSeq(heap[cache], Len(heap[cache]) + 1, Len(heap[cache]))
      BY <2>1, <2>3 DEF Slice
    <3>2. heap[cache] \in Seq(Claims) /\ Len(heap[cache]) \in Nat
      BY DEF Basics, TypeOK
    <3>3. \A L \in Seq(Claims) : SubSeq(L, Len(L) + 1, Len(L)) = <<>>
      <4> SUFFICES ASSUME NEW L \in Seq(Claims) PROVE SubSeq(L, Len(L) + 1, Len(L)) = <<>>
        OBVIOUS
      <4>1. Len(L) \in Nat
        OBVIOUS
      <4>2. SubSeq(L, Len(L) + 1, Len(L)) \in Seq(Claims) /\ Len(SubSeq(L, Len(L) + 1, Len(L))) = 0
        BY <4>1, Ending
      <4> QED BY <4>2, EmptySeq
    <3> QED BY <3>1, <3>2, <3>3
  <2>5. \A q \in Requests : Tailed(q)' => mem[q] # None /\ Undisturbed(q)
    <3>1. ~Tailed(r)'
      BY <2>4 DEF Tailed
    <3> QED BY <2>2, <3>1 DEF Tailed, Undisturbed
  <2>6. \A q \in wrote : pc'[q] = pc[q]
    BY <1>w, <2>1, <2>3 DEF Basics, TypeOK
  <2> QED BY <1>w, <2>1, <2>2, <2>3, <2>5, <2>6 DEF Quiet
<1>4. CASE Mutate(r)
  <2>1. /\ UNCHANGED <<ledger, taken, wire, mem, start, told, torn>> /\ pc' = [pc EXCEPT ![r] = "objects"]
        /\ pc[r] = "mutate"
        /\ \/ UNCHANGED <<heap, wrote>>
           \/ heap' = [heap EXCEPT ![mem[r]] = @ \o Own(r)] /\ wrote' = wrote \cup {r}
    BY <1>4 DEF Mutate, Goto
  <2>2. CASE UNCHANGED <<heap, wrote>>
    <3>1. \A q \in Requests : Undisturbed(q)
      BY <2>1, <2>2 DEF Undisturbed
    <3>2. r \notin wrote /\ \A q \in wrote : pc'[q] = pc[q]
      BY <1>w, <2>1 DEF Basics, TypeOK, Posture, Before
    <3> QED BY <2>1, <2>2, <3>1, <3>2, StayQuiet
  <2> QED BY <1>4, <2>1, <2>2
<1>5. CASE Refuse(r)
  BY <1>5, AnswerQuiet DEF Refuse
<1>6. CASE ReadObjects(r)
  <2>1. /\ UNCHANGED <<ledger, taken, wire, heap, mem, start, told, wrote, torn>> /\ pc[r] = "objects"
        /\ pc' = [pc EXCEPT ![r] = IF Slice(r) = <<>> THEN "cache" ELSE "claims"]
    BY <1>6 DEF ReadObjects, Goto, process
  <2>2. \A q \in Requests : Undisturbed(q)
    BY <2>1 DEF Undisturbed
  <2>3. r \in wrote => Slice(r) # <<>>
    BY <2>1, OwnNotEmpty, EmptyRange DEF Carried, Appended
  <2>4. \A q \in wrote : /\ pc'[q] \in Appended => pc[q] \in Appended
                         /\ pc'[q] \in Landed => pc[q] \in Landed
    BY <1>w, <2>1, <2>3 DEF Appended, Landed, Basics, TypeOK
  <2> QED BY <2>1, <2>2, <2>4, StayQuiet
<1>7. CASE GiveUp(r)
  <2>1. wire' \subseteq wire /\ Answer(r, "error") /\ UNCHANGED <<ledger, taken, torn, wrote, start>>
    BY <1>7 DEF GiveUp
  <2> QED BY <2>1, AnswerQuiet
<1>8. CASE StoreMutated(r)
  <2>1. /\ UNCHANGED <<ledger, taken, wire, mem, start, told, wrote, torn>> /\ pc[r] = "cache"
        /\ pc' = [pc EXCEPT ![r] = "schedule"] /\ heap' = Live(heap, Held)
    BY <1>8 DEF StoreMutated, Goto
  <2>2. \A q \in Requests : Undisturbed(q)
    BY <2>1 DEF Undisturbed, Live, Held, Basics, TypeOK
  <2>3. \A x \in Refs : Range(heap'[x]) \subseteq Range(heap[x]) \cup Range(ledger)
    BY <2>1, EmptyRange DEF Live
  <2>4. \A q \in wrote : /\ pc'[q] \in Appended => pc[q] \in Appended
                         /\ pc'[q] \in Landed => pc[q] \in Landed
    BY <1>w, <2>1 DEF Appended, Landed, Basics, TypeOK
  <2> QED BY <2>1, <2>2, <2>3, <2>4, StayQuiet
<1>9. CASE Schedule(r)
  BY <1>9, AnswerQuiet DEF Schedule, Landed
<1> QED BY <1>1, <1>2, <1>3, <1>4, <1>5, <1>6, <1>7, <1>8, <1>9 DEF RequestStep

LEMMA OtherQuiet ==
  ASSUME Basics, ViewStep \/ BuildStep \/ Crash
  PROVE  Quiet
<1> USE DEF kernel, process, requests, rebuild, history
<1>1. ASSUME NEW n \in 0..Len(ledger), StoreReplay(n), UNCHANGED <<kernel, requests, torn>> PROVE Quiet
  <2>1. \A q \in Requests : Undisturbed(q)
    BY <1>1, ReplayElsewhere
  <2>2. \A x \in Refs : Range(heap'[x]) \subseteq Range(heap[x]) \cup Range(ledger)
    BY <1>1, ReplayRange DEF Basics
  <2> QED BY <1>1, <2>1, <2>2, StayQuiet
<1>2. ASSUME UNCHANGED <<kernel, process, requests, torn>> PROVE Quiet
  <2>1. \A q \in Requests : Undisturbed(q)
    BY <1>2 DEF Undisturbed
  <2> QED BY <1>2, <2>1, StayQuiet
<1>3. CASE ViewStep
  <2>1. view # None => view \in 0..Len(ledger)
    BY DEF Basics, TypeOK, Bounds
  <2> QED BY <1>1, <1>2, <1>3, <2>1 DEF ViewStep, ViewLoad, ViewStore
<1>4. CASE BuildStep
  <2>1. built \in 0..Len(ledger)
    BY DEF Basics, TypeOK, Bounds
  <2>2. CASE BuildCache
    BY <1>1, <1>2, <2>1, <2>2 DEF BuildCache
  <2>3. CASE BuildLoad \/ BuildTables \/ BuildNext
    BY <1>2, <2>3 DEF BuildLoad, BuildTables, BuildNext
  <2> QED BY <1>4, <2>2, <2>3 DEF BuildStep
<1>5. CASE Crash
  <2>1. /\ UNCHANGED <<ledger, taken, wire, wrote, torn>>
        /\ heap' = [x \in Refs |-> IF x = Min(Refs) THEN ledger ELSE <<>>]
        /\ pc' = [r \in Requests |-> IF pc[r] = "idle" THEN "idle" ELSE "done"]
        /\ told' = [r \in Requests |-> IF pc[r] \in {"idle", "done"} THEN told[r] ELSE "error"]
        /\ mem' = [r \in Requests |-> None]
    BY <1>5 DEF Crash
  <2>2. \A x \in Refs : Range(heap'[x]) \subseteq Range(heap[x]) \cup Range(ledger)
    BY <2>1, EmptyRange
  <2>3. \A q \in Requests : ~Tailed(q)'
    BY <2>1 DEF Tailed
  <2>4. \A q \in wrote : pc'[q] \notin Appended /\ (told'[q] = "ok" => told[q] = "ok")
    BY <2>1 DEF Appended, Basics, TypeOK
  <2> QED BY <2>1, <2>2, <2>3, <2>4 DEF Quiet, Appended, Landed
<1> QED BY <1>3, <1>4, <1>5

LEMMA QuietLines == ASSUME Basics, Lines, Quiet PROVE Lines'
<1>1. /\ UNCHANGED <<ledger, taken, torn, wrote>> /\ wire' \subseteq wire /\ Written' = Written
      /\ wrote \subseteq Requests
  BY DEF Quiet, Written, Basics, TypeOK
<1>2. \A q \in Requests : Tailed(q)' => Tailed(q) /\ mem'[q] = mem[q] /\ start'[q] = start[q]
                                        /\ Slice(q)' = Slice(q)
  <2> SUFFICES ASSUME NEW q \in Requests, Tailed(q)'
               PROVE  Tailed(q) /\ mem'[q] = mem[q] /\ start'[q] = start[q] /\ Slice(q)' = Slice(q)
    OBVIOUS
  <2>1. mem[q] # None /\ Undisturbed(q)
    BY DEF Quiet
  <2>2. Slice(q)' = Slice(q)
    BY <2>1, SliceKept
  <2> QED BY <2>1, <2>2 DEF Tailed, Undisturbed
<1>3. Known'
  <2>1. \A x \in Refs : Range(heap'[x]) \subseteq Range(heap[x]) \cup Range(ledger)
    BY DEF Quiet
  <2>2. \A x \in Refs : Range(heap[x]) \cup Range(ledger) \subseteq Written
    BY DEF Lines, Known
  <2> QED BY <1>1, <2>1, <2>2 DEF Lines, Known
<1>4. SameTail'
  BY <1>2 DEF Lines, SameTail
<1>5. Counted'
  BY <1>1 DEF Lines, Counted
<1>6. Rooted'
  <2>1. ASSUME NEW c \in Claims, NEW G \in Seq(Claims), Root(c, G) PROVE Root(c, G)'
    <3>1. \A m \in wire' : m.set = c => Begins(m.claims, G)
      BY <1>1, <2>1 DEF Root
    <3>2. \A q \in Requests : Tailed(q)' /\ Slice(q)'[1] = c => Slice(q)' = G
      BY <1>2, <2>1 DEF Root
    <3>3. ~torn' /\ taken'[c] > 0 => \E L \in Seq(Claims) : Begins(L, G) /\ Kept(c, L)'
      BY <1>1, <2>1 DEF Root, Kept
    <3> QED BY <3>1, <3>2, <3>3 DEF Root
  <2> QED BY <2>1 DEF Lines, Rooted
<1>7. Carried'
  <2>1. \A r \in wrote' : pc'[r] \in Appended => Range(Own(r)) \subseteq Range(Slice(r)')
    <3> SUFFICES ASSUME NEW r \in wrote', pc'[r] \in Appended PROVE Range(Own(r)) \subseteq Range(Slice(r)')
      OBVIOUS
    <3>1. r \in wrote /\ r \in Requests /\ pc[r] \in Appended /\ Undisturbed(r)
      BY <1>1 DEF Quiet
    <3>2. mem[r] # None
      BY <3>1 DEF Basics, Posture, Appended, Holding
    <3>3. Slice(r)' = Slice(r)
      BY <3>1, <3>2, SliceKept
    <3> QED BY <3>1, <3>3 DEF Lines, Carried
  <2>2. \A m \in wire' : m.from \in wrote' => Range(Own(m.from)) \subseteq Range(m.claims)
    BY <1>1 DEF Lines, Carried
  <2>3. ~torn' => \A r \in wrote' : pc'[r] \in Landed \/ told'[r] = "ok" => Durable(r)'
    BY <1>1 DEF Lines, Carried, Quiet, Durable
  <2> QED BY <2>1, <2>2, <2>3 DEF Carried
<1> QED BY <1>3, <1>4, <1>5, <1>6, <1>7 DEF Lines

\* The first claim of what a request works on was known.
LEMMA SliceKnown ==
  ASSUME Basics, Known, NEW q \in Requests, Tailed(q)
  PROVE  /\ Slice(q) \in Seq(Claims) /\ Len(Slice(q)) \in Nat \ {0}
         /\ Slice(q)[1] \in Claims /\ Slice(q)[1] \in Written /\ Range(Slice(q)) \subseteq Written
<1>1. /\ heap[mem[q]] \in Seq(Claims) /\ mem[q] \in Refs /\ start[q] \in Nat
      /\ Slice(q) \in Seq(Claims) /\ start[q] <= Len(heap[mem[q]])
      /\ Len(Slice(q)) = Len(heap[mem[q]]) - start[q]
      /\ \A i \in 1..Len(heap[mem[q]]) - start[q] : Slice(q)[i] = heap[mem[q]][start[q] + i]
  BY SliceType DEF Tailed, Basics, Posture
<1>2. Len(Slice(q)) \in Nat \ {0}
  BY <1>1, EmptySeq DEF Tailed
<1>3. \A i \in 1..Len(Slice(q)) : Slice(q)[i] \in Range(heap[mem[q]])
  <2>1. \A i \in 1..Len(Slice(q)) : start[q] + i \in 1..Len(heap[mem[q]])
    BY <1>1
  <2>2. Range(heap[mem[q]]) = {heap[mem[q]][i] : i \in 1..Len(heap[mem[q]])}
    BY <1>1, RangeEquality
  <2> QED BY <1>1, <2>1, <2>2
<1>4. Range(Slice(q)) = {Slice(q)[i] : i \in 1..Len(Slice(q))}
  BY <1>1, RangeEquality
<1>5. Range(Slice(q)) \subseteq Written
  BY <1>1, <1>3, <1>4 DEF Known
<1>6. 1 \in 1..Len(Slice(q))
  BY <1>2
<1> QED BY <1>1, <1>2, <1>4, <1>5, <1>6

LEMMA AppendLines ==
  ASSUME Basics, Lines, NEW r \in Requests, Mutate(r),
         heap' = [heap EXCEPT ![mem[r]] = @ \o Own(r)], wrote' = wrote \cup {r}
  PROVE  Lines'
<1>1. /\ UNCHANGED <<ledger, taken, wire, mem, start, told, torn>> /\ pc' = [pc EXCEPT ![r] = "objects"]
      /\ pc[r] = "mutate" /\ r \notin wrote /\ wrote \subseteq Requests /\ mem[r] # None
  BY DEF Mutate, Goto, kernel, history, Basics, TypeOK, Posture, Before, Holding
<1>2. /\ mem[r] \in Refs /\ heap'[mem[r]] = heap[mem[r]] \o Own(r)
      /\ \A x \in Refs \ {mem[r]} : heap'[x] = heap[x]
      /\ \A q \in Requests : mem[q] # None =>
           /\ Slice(q)' \in Seq(Claims)
           /\ Begins(Slice(q), Slice(q)')
           /\ mem[q] # mem[r] => Slice(q)' = Slice(q)
           /\ mem[q] = mem[r] => /\ Range(Own(r)) \subseteq Range(Slice(q)')
                                 /\ Slice(q) = <<>> => Slice(q)'[1] = <<r, 1>>
                                 /\ Slice(q)' # <<>>
  BY <1>1, MutateLists
<1>3. Written \subseteq Written' /\ Range(Own(r)) \subseteq Written' /\ <<r, 1>> \notin Written
      /\ <<r, 1>> \in Claims
  <2>1. Own(r) \in Seq(Claims) /\ \A c \in Range(Own(r)) : c[1] = r
    BY OwnType
  <2>2. Range(Own(r)) \subseteq Claims
    BY <2>1, RangeEquality
  <2> QED BY <1>1, <2>1, <2>2, OwnNotEmpty DEF Written
<1>4. Known'
  <2>1. Range(heap'[mem[r]]) = Range(heap[mem[r]]) \cup Range(Own(r))
    <3>1. heap[mem[r]] \in Seq(Claims) /\ Own(r) \in Seq(Claims)
      BY <1>2, OwnType DEF Basics, TypeOK
    <3> QED BY <1>2, <3>1, AppendBegins
  <2>2. \A x \in Refs : Range(heap'[x]) \subseteq Range(heap[x]) \cup Range(Own(r))
    BY <1>2, <2>1
  <2> QED BY <1>1, <1>3, <2>2 DEF Lines, Known
\* A list that was there keeps its first claim; a new one starts with the change.
<1>5. ASSUME NEW q \in Requests, Tailed(q)
      PROVE  Tailed(q)' /\ Slice(q)'[1] = Slice(q)[1] /\ Slice(q)[1] # <<r, 1>>
  <2>1. mem[q] # None /\ Slice(q)' \in Seq(Claims) /\ Begins(Slice(q), Slice(q)')
    BY <1>2, <1>5 DEF Tailed
  <2>2. Len(Slice(q)) \in Nat \ {0} /\ Slice(q)[1] \in Written
    BY <1>5, SliceKnown DEF Lines
  <2>3. Len(Slice(q)') # 0 /\ Slice(q)'[1] = Slice(q)[1]
    <3>1. 1 \in 1..Len(Slice(q))
      BY <2>2
    <3> QED BY <2>1, <2>2, <3>1 DEF Begins
  <2>4. Slice(q)' # <<>>
    BY <2>3
  <2> QED BY <1>1, <1>3, <2>1, <2>2, <2>3, <2>4 DEF Tailed
<1>6. ASSUME NEW q \in Requests, Tailed(q)', ~Tailed(q)
      PROVE  mem[q] = mem[r] /\ start[q] = Len(heap[mem[r]]) /\ Slice(q)'[1] = <<r, 1>>
  <2>1. mem[q] # None /\ Slice(q) = <<>> /\ Slice(q)' # <<>>
    BY <1>1, <1>6 DEF Tailed
  <2>2. mem[q] = mem[r] /\ Slice(q)'[1] = <<r, 1>>
    BY <1>2, <2>1
  <2>3. /\ start[q] \in Nat /\ start[q] <= Len(heap[mem[q]]) /\ heap[mem[q]] \in Seq(Claims)
        /\ Len(Slice(q)) = Len(heap[mem[q]]) - start[q]
    BY <2>1, SliceType DEF Basics, Posture
  <2>4. Len(Slice(q)) = 0 /\ Len(heap[mem[q]]) \in Nat
    BY <2>1, <2>3
  <2> QED BY <2>2, <2>3, <2>4
<1>7. SameTail'
  <2> SUFFICES ASSUME NEW p \in Requests, NEW q \in Requests, Tailed(p)', Tailed(q)',
                      Slice(p)'[1] = Slice(q)'[1]
               PROVE  mem[p] = mem[q] /\ start[p] = start[q]
    BY <1>1 DEF SameTail
  <2>1. CASE Tailed(p) /\ Tailed(q)
    BY <1>5, <2>1 DEF Lines, SameTail
  <2>2. CASE ~Tailed(p) /\ ~Tailed(q)
    BY <1>6, <2>2
  <2> QED BY <1>5, <1>6, <2>1, <2>2
<1>8. Counted'
  BY <1>1 DEF Lines, Counted
<1>9. ASSUME NEW p \in Requests, NEW q \in Requests, Tailed(p)', Tailed(q)', Slice(p)'[1] = Slice(q)'[1]
      PROVE  Slice(p)' = Slice(q)'
  BY <1>1, <1>7, <1>9 DEF SameTail, Slice
<1>10. Rooted'
  <2> SUFFICES ASSUME NEW c \in Claims PROVE \E G \in Seq(Claims) : Root(c, G)'
    BY DEF Rooted
  <2>1. PICK G \in Seq(Claims) : Root(c, G)
    BY DEF Lines, Rooted
  \* The old list of the change set begins the new one.
  <2>2. \E H \in Seq(Claims) :
          /\ \A q \in Requests : Tailed(q)' /\ Slice(q)'[1] = c => Slice(q)' = H
          /\ c # <<r, 1>> => Begins(G, H)
    <3>1. CASE \E q \in Requests : Tailed(q)' /\ Slice(q)'[1] = c
      <4>1. PICK q \in Requests : Tailed(q)' /\ Slice(q)'[1] = c
        BY <3>1
      <4>2. \A p \in Requests : Tailed(p)' /\ Slice(p)'[1] = c => Slice(p)' = Slice(q)'
        BY <1>9, <4>1
      <4>3. mem[q] # None /\ Slice(q)' \in Seq(Claims) /\ Begins(Slice(q), Slice(q)')
        BY <1>1, <1>2, <4>1 DEF Tailed
      <4>4. c # <<r, 1>> => Slice(q) = G
        BY <1>5, <1>6, <2>1, <4>1 DEF Root
      <4> QED BY <4>2, <4>3, <4>4
    <3>2. CASE ~ \E q \in Requests : Tailed(q)' /\ Slice(q)'[1] = c
      BY <3>2 DEF Begins
    <3> QED BY <3>1, <3>2
  <2>3. PICK H \in Seq(Claims) :
          /\ \A q \in Requests : Tailed(q)' /\ Slice(q)'[1] = c => Slice(q)' = H
          /\ c # <<r, 1>> => Begins(G, H)
    BY <2>2
  <2>4. \A m \in wire' : m.set = c => Begins(m.claims, H)
    <3> SUFFICES ASSUME NEW m \in wire', m.set = c PROVE Begins(m.claims, H)
      OBVIOUS
    <3>1. m \in wire /\ m.claims \in Seq(Claims) /\ m.claims # <<>> /\ m.set = m.claims[1]
      BY <1>1 DEF Basics, TypeOK, Posture, Posts
    <3>2. 1 \in 1..Len(m.claims)
      BY <3>1, EmptySeq
    <3>3. c \in Written
      <4>1. m.claims[1] \in Range(m.claims)
        BY <3>1, <3>2, RangeEquality
      <4> QED BY <3>1, <4>1 DEF Lines, Known
    <3>4. Begins(m.claims, G) /\ Begins(G, H)
      BY <1>3, <2>1, <2>3, <3>1, <3>3 DEF Root
    <3> QED BY <3>1, <3>4, BeginsTwice
  <2>5. ~torn' /\ taken'[c] > 0 => \E L \in Seq(Claims) : Begins(L, H) /\ Kept(c, L)'
    <3> SUFFICES ASSUME ~torn', taken'[c] > 0 PROVE \E L \in Seq(Claims) : Begins(L, H) /\ Kept(c, L)'
      OBVIOUS
    <3>1. PICK L \in Seq(Claims) : Begins(L, G) /\ Kept(c, L)
      BY <1>1, <2>1 DEF Root
    <3>2. c \in Written
      BY <1>1 DEF Lines, Known
    <3>3. Begins(L, H)
      BY <1>3, <2>3, <3>1, <3>2, BeginsTwice
    <3> QED BY <1>1, <3>1, <3>3 DEF Kept
  <2> QED BY <2>3, <2>4, <2>5 DEF Root
<1>11. Carried'
  <2>1. \A q \in wrote' : pc'[q] \in Appended => Range(Own(q)) \subseteq Range(Slice(q)')
    <3> SUFFICES ASSUME NEW q \in wrote', pc'[q] \in Appended PROVE Range(Own(q)) \subseteq Range(Slice(q)')
      OBVIOUS
    <3>1. CASE q = r
      BY <1>1, <1>2, <3>1
    <3>2. CASE q # r
      <4>1. q \in wrote /\ q \in Requests /\ pc[q] \in Appended
        BY <1>1, <3>2 DEF Basics, TypeOK
      <4>2. mem[q] # None /\ Slice(q) \in Seq(Claims) /\ Range(Own(q)) \subseteq Range(Slice(q))
        BY <4>1, SliceType DEF Basics, Posture, Appended, Holding, Lines, Carried
      <4>3. Slice(q)' \in Seq(Claims) /\ Begins(Slice(q), Slice(q)')
        BY <1>2, <4>1, <4>2
      <4>4. Range(Slice(q)) \subseteq Range(Slice(q)')
        BY <4>2, <4>3, BeginsRange
      <4> QED BY <4>2, <4>4
    <3> QED BY <3>1, <3>2
  <2>2. \A m \in wire' : m.from \in wrote' => Range(Own(m.from)) \subseteq Range(m.claims)
    <3>1. \A m \in wire : m.from # r
      BY <1>1 DEF Basics, Posture, Posted
    <3> QED BY <1>1, <3>1 DEF Lines, Carried
  <2>3. ~torn' => \A q \in wrote' : pc'[q] \in Landed \/ told'[q] = "ok" => Durable(q)'
    <3>1. \A q \in wrote : pc'[q] = pc[q]
      BY <1>1 DEF Basics, TypeOK
    <3>2. pc'[r] \notin Landed /\ told'[r] # "ok"
      BY <1>1 DEF Basics, TypeOK, Posture, Landed
    <3> QED BY <1>1, <3>1, <3>2 DEF Lines, Carried, Durable
  <2> QED BY <2>1, <2>2, <2>3 DEF Carried
<1> QED BY <1>4, <1>7, <1>8, <1>10, <1>11 DEF Lines

LEMMA SendLines == ASSUME Basics, Lines, NEW r \in Requests, Send(r) PROVE Lines'
<1>1. /\ pc[r] = "claims" /\ pc' = [pc EXCEPT ![r] = "sent"] /\ wire' = wire \cup {PostOf(r)}
      /\ torn' = (torn \/ objs[r] # Cardinality(ObjectsOf(Slice(r))))
      /\ UNCHANGED <<ledger, taken, heap, mem, start, told, wrote>> /\ wrote \subseteq Requests
  BY DEF Send, Goto, PostOf, process, Basics, TypeOK
<1>2. /\ PostOf(r).from = r /\ PostOf(r).objects = objs[r] /\ PostOf(r).claims = Slice(r)
      /\ PostOf(r).set = Slice(r)[1] /\ Slice(r) \in Seq(Claims) /\ Tailed(r)
  BY <1>1, PostType DEF Tailed
<1>3. /\ Written' = Written
      /\ \A q \in Requests : /\ Tailed(q)' <=> Tailed(q)
                             /\ Slice(q)' = Slice(q)
                             /\ pc'[q] \in Appended => pc[q] \in Appended
                             /\ pc'[q] \in Landed => pc[q] \in Landed
  BY <1>1 DEF Written, Tailed, Slice, Appended, Landed, Basics, TypeOK
<1>4. Known'
  <2>1. Range(PostOf(r).claims) \subseteq Written
    BY <1>2, SliceKnown DEF Lines
  <2> QED BY <1>1, <1>3, <2>1 DEF Lines, Known
<1>5. SameTail'
  BY <1>1, <1>3 DEF Lines, SameTail
<1>6. Counted'
  BY <1>1, <1>2 DEF Lines, Counted
<1>7. Rooted'
  <2>1. ASSUME NEW c \in Claims, NEW G \in Seq(Claims), Root(c, G) PROVE Root(c, G)'
    <3>1. PostOf(r).set = c => Begins(PostOf(r).claims, G)
      <4>1. Begins(G, G)
        BY DEF Begins
      <4>2. Slice(r)[1] = c => Slice(r) = G
        BY <1>2, <2>1 DEF Root
      <4> QED BY <1>2, <4>1, <4>2
    <3>2. \A m \in wire' : m.set = c => Begins(m.claims, G)
      BY <1>1, <2>1, <3>1 DEF Root
    <3>3. \A q \in Requests : Tailed(q)' /\ Slice(q)'[1] = c => Slice(q)' = G
      BY <1>3, <2>1 DEF Root
    <3>4. ~torn' /\ taken'[c] > 0 => \E L \in Seq(Claims) : Begins(L, G) /\ Kept(c, L)'
      BY <1>1, <2>1 DEF Root, Kept
    <3> QED BY <3>2, <3>3, <3>4 DEF Root
  <2> QED BY <2>1 DEF Lines, Rooted
<1>8. Carried'
  <2>1. \A q \in wrote' : pc'[q] \in Appended => Range(Own(q)) \subseteq Range(Slice(q)')
    BY <1>1, <1>3 DEF Lines, Carried
  <2>2. r \in wrote => Range(Own(r)) \subseteq Range(PostOf(r).claims)
    BY <1>1, <1>2 DEF Lines, Carried, Appended
  <2>3. \A m \in wire' : m.from \in wrote' => Range(Own(m.from)) \subseteq Range(m.claims)
    BY <1>1, <1>2, <2>2 DEF Lines, Carried
  <2>4. ~torn' => \A q \in wrote' : pc'[q] \in Landed \/ told'[q] = "ok" => Durable(q)'
    BY <1>1, <1>3 DEF Lines, Carried, Durable
  <2> QED BY <2>1, <2>3, <2>4 DEF Carried
<1> QED BY <1>4, <1>5, <1>6, <1>7, <1>8 DEF Lines

\* The row count of a list and of a beginning of it.
LEMMA WeightGrows ==
  ASSUME NEW L \in Seq(Claims), NEW M \in Seq(Claims), Begins(L, M)
  PROVE  Weight(L) \in Nat /\ Weight(M) \in Nat /\ Weight(L) <= Weight(M)
<1>1. Cardinality(ObjectsOf(L)) \in Nat /\ Cardinality(ObjectsOf(M)) \in Nat
      /\ Cardinality(ObjectsOf(L)) <= Cardinality(ObjectsOf(M))
  BY ObjectsFinite, BeginningHasFewerObjects
<1>2. Len(L) \in Nat /\ Len(M) \in Nat /\ Len(L) <= Len(M)
  BY DEF Begins
<1> HIDE DEF Begins
<1> QED BY <1>1, <1>2 DEF Weight

LEMMA NewRowsRange ==
  ASSUME TypeOK, NEW m \in wire
  PROVE  Range(NewRows(m)) \subseteq Range(m.claims)
<1>1. m.claims \in Seq(Claims) /\ Skipped(m) \in Nat
      /\ NewRows(m) = SubSeq(m.claims, Skipped(m) + 1, Len(m.claims))
  BY NewRowsType
<1>2. ASSUME NEW L \in Seq(Claims), NEW n \in Nat, NEW E, E = SubSeq(L, n + 1, Len(L))
      PROVE  Range(E) \subseteq Range(L)
  <2>1. E \in Seq(Claims) /\ Len(E) = (IF n <= Len(L) THEN Len(L) - n ELSE 0)
        /\ \A i \in 1..Len(L) - n : E[i] = L[n + i]
    BY <1>2, Ending
  <2>2. Range(E) = {E[i] : i \in 1..Len(E)} /\ Range(L) = {L[i] : i \in 1..Len(L)}
    BY <2>1, RangeEquality
  <2>3. \A i \in 1..Len(E) : n + i \in 1..Len(L) /\ E[i] = L[n + i]
    <3>1. Len(L) \in Nat
      OBVIOUS
    <3> QED BY <2>1, <3>1
  <2> QED BY <2>2, <2>3
<1> QED BY <1>1, <1>2

\* What the kernel drops of a post it has: when no post is torn, all claims
\* of the post are in the ledger afterwards.
LEMMA Delivered ==
  ASSUME Basics, Counted, ~torn, NEW m \in wire, NEW G \in Seq(Claims), Root(m.set, G), Arrive(m)
  PROVE  /\ Range(m.claims) \subseteq Range(ledger')
         /\ Range(ledger) \subseteq Range(ledger')
         /\ Range(ledger') \subseteq Range(ledger) \cup Range(m.claims)
         /\ \E L \in Seq(Claims) : Begins(L, G) /\ Kept(m.set, L)'
<1>1. /\ m.claims \in Seq(Claims) /\ m.set \in Claims /\ m.objects \in Nat /\ m.from \in Requests
      /\ Skipped(m) \in Nat
      /\ NewRows(m) = SubSeq(m.claims, Skipped(m) + 1, Len(m.claims))
      /\ NewRows(m) \in Seq(Claims)
      /\ Max({taken[m.set], m.objects + Len(m.claims)}) =
           IF taken[m.set] <= m.objects + Len(m.claims) THEN m.objects + Len(m.claims)
                                                        ELSE taken[m.set]
  BY NewRowsType DEF Basics
<1>2. /\ ledger \in Seq(Claims) /\ taken \in [Claims -> Nat] /\ m.claims # <<>>
      /\ Begins(m.claims, G) /\ m.objects = Cardinality(ObjectsOf(m.claims))
  BY DEF Basics, TypeOK, Posture, Root, Counted
<1>3. ledger' = ledger \o NewRows(m)
      /\ taken' = [taken EXCEPT ![m.set] = Max({@, m.objects + Len(m.claims)})]
  BY DEF Arrive
<1>4. Range(ledger') = Range(ledger) \cup Range(NewRows(m))
  BY <1>1, <1>2, <1>3, AppendBegins
<1>5. m.objects + Len(m.claims) = Weight(m.claims) /\ Weight(m.claims) \in Nat
  BY <1>1, <1>2, WeightGrows DEF Weight, Begins
<1>6. taken'[m.set] = IF taken[m.set] <= Weight(m.claims) THEN Weight(m.claims) ELSE taken[m.set]
  BY <1>1, <1>2, <1>3, <1>5
<1>7. /\ \A i \in 1..Len(m.claims) : i > Skipped(m) => m.claims[i] \in Range(NewRows(m))
      /\ Range(m.claims) = {m.claims[i] : i \in 1..Len(m.claims)}
      /\ Range(NewRows(m)) \subseteq Range(m.claims)
  <2>1. \A n \in Nat : \A i \in 1..Len(m.claims) :
          i > n => m.claims[i] \in Range(SubSeq(m.claims, n + 1, Len(m.claims)))
    BY <1>1, RowInEnding
  <2>2. Range(NewRows(m)) \subseteq Range(m.claims)
    BY NewRowsRange DEF Basics
  <2>3. Range(m.claims) = {m.claims[i] : i \in 1..Len(m.claims)}
    BY <1>1, RangeEquality
  <2> QED BY <1>1, <2>1, <2>2, <2>3
<1>8. Range(ledger) \subseteq Range(ledger') /\ Range(ledger') \subseteq Range(ledger) \cup Range(m.claims)
  BY <1>4, <1>7
<1>9. CASE taken[m.set] = 0
  <2>1. Skipped(m) = 0
    BY <1>1, <1>9 DEF Skipped
  <2>2. Range(m.claims) \subseteq Range(ledger')
    BY <1>4, <1>7, <2>1
  <2>3. taken'[m.set] = Weight(m.claims)
    BY <1>5, <1>6, <1>9
  <2>4. Kept(m.set, m.claims)'
    BY <1>2, <2>2, <2>3 DEF Kept
  <2> QED BY <1>1, <1>2, <1>8, <2>2, <2>4
<1>10. CASE taken[m.set] > 0
  <2>1. PICK L \in Seq(Claims) : Begins(L, G) /\ Kept(m.set, L)
    BY <1>10 DEF Root
  <2>2. L # <<>> /\ taken[m.set] = Weight(L) /\ Range(L) \subseteq Range(ledger)
    BY <2>1 DEF Kept
  <2>3. Begins(m.claims, L) \/ Begins(L, m.claims)
    BY <1>1, <1>2, <2>1, BeginningsAgree
  <2>4. CASE Begins(m.claims, L)
    <3>1. Weight(m.claims) <= Weight(L) /\ Weight(L) \in Nat /\ Weight(m.claims) \in Nat
      BY <1>1, <2>1, <2>4, WeightGrows
    <3>2. taken'[m.set] = Weight(L)
      BY <1>6, <2>2, <3>1
    <3>3. Kept(m.set, L)'
      BY <1>8, <2>2, <3>2 DEF Kept
    <3>4. Range(m.claims) \subseteq Range(L)
      BY <1>1, <2>1, <2>4, BeginsRange
    <3> QED BY <1>8, <2>1, <2>2, <3>3, <3>4
  <2>5. CASE Begins(L, m.claims)
    <3>1. Weight(L) <= Weight(m.claims) /\ Weight(L) \in Nat
      BY <1>1, <2>1, <2>5, WeightGrows
    <3>2. taken'[m.set] = Weight(m.claims)
      BY <1>5, <1>6, <2>2, <3>1
    <3>3. Skipped(m) <= Len(L)
      <4>1. Cardinality(ObjectsOf(L)) <= Cardinality(ObjectsOf(m.claims))
            /\ Cardinality(ObjectsOf(L)) \in Nat /\ Len(L) \in Nat
        BY <1>1, <2>1, <2>5, BeginningHasFewerObjects, ObjectsFinite
      <4>2. taken[m.set] = Cardinality(ObjectsOf(L)) + Len(L)
        BY <2>2 DEF Weight
      <4> QED BY <1>1, <1>2, <4>1, <4>2 DEF Skipped
    <3>4. Range(m.claims) \subseteq Range(ledger')
      <4> SUFFICES ASSUME NEW i \in 1..Len(m.claims) PROVE m.claims[i] \in Range(ledger')
        BY <1>7
      <4>1. CASE i <= Len(L)
        <5>1. i \in 1..Len(L) /\ m.claims[i] = L[i]
          BY <2>1, <2>5, <4>1 DEF Begins
        <5>2. L[i] \in Range(L)
          BY <2>1, <5>1, RangeEquality
        <5> QED BY <1>8, <2>2, <5>1, <5>2
      <4>2. CASE i > Len(L)
        <5>1. i > Skipped(m)
          BY <1>1, <2>1, <3>3, <4>2
        <5> QED BY <1>4, <1>7, <5>1
      <4>3. i \in Nat /\ Len(L) \in Nat
        BY <1>1, <2>1
      <4> QED BY <4>1, <4>2, <4>3
    <3>5. Kept(m.set, m.claims)'
      BY <1>2, <3>2, <3>4 DEF Kept
    <3> QED BY <1>1, <1>2, <1>8, <3>4, <3>5
  <2> QED BY <2>3, <2>4, <2>5
<1>11. taken[m.set] \in Nat
  BY <1>1, <1>2
<1> QED BY <1>9, <1>10, <1>11

LEMMA ArriveLines == ASSUME Basics, Lines, NEW m \in wire, Arrive(m) PROVE Lines'
<1>1. /\ wire' = wire \ {m} /\ ledger' = ledger \o NewRows(m)
      /\ taken' = [taken EXCEPT ![m.set] = Max({@, m.objects + Len(m.claims)})]
      /\ IF pc[m.from] = "sent" THEN pc' = [pc EXCEPT ![m.from] = "cache"] ELSE UNCHANGED pc
      /\ UNCHANGED <<heap, mem, start, told, wrote, torn>>
      /\ wrote \subseteq Requests /\ taken \in [Claims -> Nat] /\ pc \in [Requests -> Steps]
  BY DEF Arrive, Goto, process, history, Basics, TypeOK
<1>2. /\ m.claims \in Seq(Claims) /\ m.set \in Claims /\ m.from \in Requests
      /\ m.claims # <<>> /\ m.set = m.claims[1]
      /\ NewRows(m) \in Seq(Claims) /\ ledger \in Seq(Claims)
  BY NewRowsType DEF Basics, TypeOK, Posture
<1>3. Range(ledger) \subseteq Range(ledger') /\ Range(ledger') \subseteq Range(ledger) \cup Range(m.claims)
  <2>1. Range(ledger') = Range(ledger) \cup Range(NewRows(m))
    BY <1>1, <1>2, AppendBegins
  <2>2. Range(NewRows(m)) \subseteq Range(m.claims)
    BY NewRowsRange DEF Basics
  <2> QED BY <2>1, <2>2
<1>4. /\ Written' = Written
      /\ \A q \in Requests : /\ Tailed(q)' <=> Tailed(q)
                             /\ Slice(q)' = Slice(q)
                             /\ pc'[q] \in Appended => pc[q] \in Appended
                             /\ q # m.from => pc'[q] = pc[q]
  BY <1>1 DEF Written, Tailed, Slice, Appended
<1>5. Known'
  <2>1. m.set \in Written
    <3>1. 1 \in 1..Len(m.claims)
      BY <1>2, EmptySeq
    <3>2. m.claims[1] \in Range(m.claims)
      BY <1>2, <3>1, RangeEquality
    <3> QED BY <1>2, <3>2 DEF Lines, Known
  <2>2. \A c \in Claims : taken'[c] > 0 => c \in Written
    BY <1>1, <2>1 DEF Lines, Known
  <2> QED BY <1>1, <1>3, <1>4, <2>2 DEF Lines, Known
<1>6. SameTail' /\ Counted'
  BY <1>1, <1>4 DEF Lines, SameTail, Counted
<1>7. Rooted'
  <2> SUFFICES ASSUME NEW c \in Claims PROVE \E G \in Seq(Claims) : Root(c, G)'
    BY DEF Rooted
  <2>1. PICK G \in Seq(Claims) : Root(c, G)
    BY DEF Lines, Rooted
  <2>2. \A n \in wire' : n.set = c => Begins(n.claims, G)
    BY <1>1, <2>1 DEF Root
  <2>3. \A q \in Requests : Tailed(q)' /\ Slice(q)'[1] = c => Slice(q)' = G
    BY <1>4, <2>1 DEF Root
  <2>4. ~torn' /\ taken'[c] > 0 => \E L \in Seq(Claims) : Begins(L, G) /\ Kept(c, L)'
    <3>1. CASE torn
      BY <1>1, <3>1
    <3>2. CASE ~torn /\ c = m.set
      BY <2>1, <3>2, Delivered DEF Lines
    <3>3. CASE ~torn /\ c # m.set
      <4>1. taken'[c] = taken[c]
        BY <1>1, <3>3
      <4> QED BY <1>3, <2>1, <3>3, <4>1 DEF Root, Kept
    <3> QED BY <3>1, <3>2, <3>3
  <2> QED BY <2>2, <2>3, <2>4 DEF Root
<1>8. Carried'
  <2>1. \A q \in wrote' : pc'[q] \in Appended => Range(Own(q)) \subseteq Range(Slice(q)')
    BY <1>1, <1>4 DEF Lines, Carried
  <2>2. \A n \in wire' : n.from \in wrote' => Range(Own(n.from)) \subseteq Range(n.claims)
    BY <1>1 DEF Lines, Carried
  <2>3. ASSUME ~torn', NEW q \in wrote', pc'[q] \in Landed \/ told'[q] = "ok" PROVE Durable(q)'
    <3>1. q \in wrote /\ q \in Requests /\ ~torn
      BY <1>1, <2>3
    <3>2. CASE pc[q] \in Landed \/ told[q] = "ok"
      <4>1. Durable(q)
        BY <3>1, <3>2 DEF Lines, Carried
      <4> QED BY <1>3, <4>1 DEF Durable
    <3>3. CASE ~(pc[q] \in Landed \/ told[q] = "ok")
      <4>1. q = m.from
        BY <1>1, <1>4, <2>3, <3>1, <3>3
      <4>2. PICK G \in Seq(Claims) : Root(m.set, G)
        BY <1>2 DEF Lines, Rooted
      <4>3. Range(m.claims) \subseteq Range(ledger')
        BY <3>1, <4>2, Delivered DEF Lines
      <4>4. Range(Own(q)) \subseteq Range(m.claims)
        BY <3>1, <4>1 DEF Lines, Carried
      <4> QED BY <4>3, <4>4 DEF Durable
    <3> QED BY <3>2, <3>3
  <2> QED BY <2>1, <2>2, <2>3 DEF Carried
<1> QED BY <1>5, <1>6, <1>7, <1>8 DEF Lines

LEMMA StepLines == ASSUME Basics, Lines, [Next]_vars PROVE Lines'
<1>1. CASE UNCHANGED vars
  <2>1. Quiet
    BY <1>1 DEF vars, kernel, process, requests, history, Quiet, Tailed, Undisturbed, Basics, TypeOK
  <2> QED BY <2>1, QuietLines
<1>2. ASSUME NEW r \in Requests, RequestStep(r) PROVE Lines'
  <2>1. Carried
    BY DEF Lines
  <2> QED BY <1>2, <2>1, RequestQuiet, QuietLines, AppendLines, SendLines
<1>3. CASE ViewStep \/ BuildStep \/ Crash
  BY <1>3, OtherQuiet, QuietLines
<1>4. ASSUME NEW m \in wire, Arrive(m) PROVE Lines'
  BY <1>4, ArriveLines
<1> QED BY <1>1, <1>2, <1>3, <1>4 DEF Next

(* What a client was told is done is in the ledger, for any number of      *)
(* requests, views, rebuilds, failures and crashes, as long as no post has *)
(* counted the objects of fewer claims than it carries.                    *)
THEOREM AckedStaysDurable == Spec => []AckedIsDurable
<1>1. Init => Basics /\ Lines
  BY InitBasics, InitLines
<1>2. Basics /\ Lines /\ [Next]_vars => (Basics /\ Lines)'
  BY StepBasics, StepLines
<1>3. Basics /\ Lines => AckedIsDurable
  BY DEF Lines, Carried, AckedIsDurable
<1> QED BY <1>1, <1>2, <1>3, PTL DEF Spec

-----------------------------------------------------------------------------
(* A change that a client was told of is waited for by a rebuild, or is in *)
(* what the running rebuild has, or is in the tables.                      *)
Covered(r) ==
    \/ queued \/ build = "load"
    \/ build = "tables" /\ Range(Own(r)) \subseteq Range(Replay)
    \/ build = "cache" /\ Range(Own(r)) \subseteq projection
    \/ build \in {"next", "idle"} /\ (complete => Range(Own(r)) \subseteq projection)

NoneForgotten ==
    /\ queued => build # "idle"
    /\ ~torn => \A r \in wrote : told[r] = "ok" => Covered(r)

\* The step of somebody else than the rebuild.
LEMMA CoveredKept ==
  ASSUME Basics, NEW r \in Requests, Covered(r), Range(Own(r)) \subseteq Range(ledger),
         UNCHANGED <<built, projection, complete>>, ledger' = ledger \/ \E L \in Seq(Claims) : ledger' = ledger \o L,
         UNCHANGED <<build, queued>> \/ (build # "idle" /\ queued' /\ UNCHANGED build) \/ build' = "load"
  PROVE  Covered(r)'
<1>1. Replay' = Replay
  <2>1. CASE ledger' = ledger
    BY <2>1 DEF Replay
  <2>2. ASSUME NEW L \in Seq(Claims), ledger' = ledger \o L PROVE Replay' = Replay
    <3>1. ledger \in Seq(Claims) /\ built \in 0..Len(ledger)
      BY DEF Basics, TypeOK, Bounds
    <3>2. ledger \o L \in Seq(Claims) /\ Begins(ledger, ledger \o L)
      BY <3>1, AppendBegins
    <3> DEFINE M == ledger \o L
               A == SubSeq(ledger, 1, built)
               B == SubSeq(M, 1, built)
    <3> HIDE DEF M
    <3>3. M \in Seq(Claims) /\ Begins(ledger, M) /\ built \in 0..Len(M)
      BY <3>1, <3>2 DEF M, Begins
    <3>4. A \in Seq(Claims) /\ Len(A) = built /\ Begins(A, ledger)
      BY <3>1, Beginning
    <3>5. B \in Seq(Claims) /\ Len(B) = built /\ Begins(B, M)
      BY <3>3, Beginning
    <3> HIDE DEF A, B
    <3>6. Begins(A, M)
      BY <3>1, <3>3, <3>4, BeginsTwice
    <3>7. \A i \in 1..Len(A) : A[i] = B[i]
      BY <3>4, <3>5, <3>6 DEF Begins
    <3>8. A = B
      BY <3>4, <3>5, <3>7, SeqEqual
    <3> QED BY <2>2, <3>8 DEF A, B, M, Replay
  <2> QED BY <2>1, <2>2
<1>2. CASE UNCHANGED <<build, queued>>
  BY <1>1, <1>2 DEF Covered
<1>3. CASE queued' /\ UNCHANGED build
  BY <1>3 DEF Covered
<1>4. CASE build' = "load"
  BY <1>4 DEF Covered
<1> QED BY <1>2, <1>3, <1>4

LEMMA BuildForgetsNone == ASSUME Basics, Lines, NoneForgotten, BuildStep PROVE NoneForgotten'
<1>1. UNCHANGED <<ledger, told, wrote, torn>> /\ wrote \subseteq Requests
  BY DEF BuildStep, BuildLoad, BuildTables, BuildCache, BuildNext, kernel, requests, history, Basics, TypeOK
<1>2. queued' => build' # "idle"
  BY DEF BuildStep, BuildLoad, BuildTables, BuildCache, BuildNext, BuildFails, NoneForgotten
<1>3. ASSUME ~torn, NEW r \in wrote, told[r] = "ok" PROVE Covered(r)'
  <2>1. Covered(r) /\ Range(Own(r)) \subseteq Range(ledger)
    BY <1>3 DEF NoneForgotten, Lines, Carried, Durable
  <2>2. CASE BuildLoad
    <3>1. CASE built' = Len(ledger) /\ build' = "tables"
      <4>1. ledger \in Seq(Claims) /\ Replay' = SubSeq(ledger, 1, Len(ledger))
        BY <1>1, <3>1 DEF Replay, Basics, TypeOK
      <4>2. SubSeq(ledger, 1, Len(ledger)) = ledger
        <5> DEFINE A == SubSeq(ledger, 1, Len(ledger))
        <5>1. A \in Seq(Claims) /\ Len(A) = Len(ledger) /\ Begins(A, ledger)
          <6>1. Len(ledger) \in 0..Len(ledger)
            BY <4>1
          <6> QED BY <4>1, <6>1, Beginning
        <5> HIDE DEF A
        <5>2. A = ledger
          BY <4>1, <5>1, SeqEqual DEF Begins
        <5> QED BY <5>2 DEF A
      <4> QED BY <2>1, <3>1, <4>1, <4>2 DEF Covered
    <3>2. CASE BuildFails
      BY <3>2 DEF BuildFails, Covered
    <3> QED BY <2>2, <3>1, <3>2 DEF BuildLoad
  <2>3. CASE BuildTables
    <3>1. CASE projection' = Range(Replay) /\ build' = "cache"
      BY <2>1, <2>3, <3>1 DEF BuildTables, Covered
    <3>2. CASE BuildFails
      BY <3>2 DEF BuildFails, Covered
    <3> QED BY <2>3, <3>1, <3>2 DEF BuildTables
  <2>4. CASE BuildCache
    BY <2>1, <2>4 DEF BuildCache, Covered
  <2>5. CASE BuildNext
    BY <2>1, <2>5 DEF BuildNext, Covered
  <2> QED BY <2>2, <2>3, <2>4, <2>5 DEF BuildStep
<1> QED BY <1>1, <1>2, <1>3 DEF NoneForgotten

LEMMA OthersForgetNone ==
  ASSUME Basics, Lines, Lines', NoneForgotten, NEW r \in Requests,
         RequestStep(r) \/ (\E m \in wire : Arrive(m)) \/ ViewStep
  PROVE  NoneForgotten'
<1> USE DEF kernel, requests, rebuild, history
<1>0. wrote \subseteq Requests /\ pc \in [Requests -> Steps] /\ told \in [Requests -> {"nothing", "ok", "error"}]
  BY DEF Basics, TypeOK
<1>1. UNCHANGED <<built, projection, complete>>
  BY DEF RequestStep, Load, StoreFresh, Take, Mutate, Refuse, ReadObjects, Send, GiveUp, StoreMutated,
         Schedule, Arrive, ViewStep, ViewLoad, ViewStore
<1>2. ledger' = ledger \/ \E L \in Seq(Claims) : ledger' = ledger \o L
  <2>1. \A m \in wire : NewRows(m) \in Seq(Claims)
    BY NewRowsType DEF Basics
  <2>2. ASSUME NEW m \in wire, Arrive(m) PROVE \E L \in Seq(Claims) : ledger' = ledger \o L
    BY <2>1, <2>2 DEF Arrive
  <2>3. CASE RequestStep(r) \/ ViewStep
    BY <2>3 DEF RequestStep, Load, StoreFresh, Take, Mutate, Refuse, ReadObjects, Send, GiveUp, StoreMutated,
         Schedule, ViewStep, ViewLoad, ViewStore
  <2> QED BY <2>2, <2>3
<1>3. \/ UNCHANGED <<build, queued>>
      \/ Schedule(r) /\ ScheduleRebuild
  BY DEF RequestStep, Load, StoreFresh, Take, Mutate, Refuse, ReadObjects, Send, GiveUp, StoreMutated,
         Schedule, Arrive, ViewStep, ViewLoad, ViewStore
<1>4. UNCHANGED <<build, queued>> \/ (build # "idle" /\ queued' /\ UNCHANGED build) \/ build' = "load"
  BY <1>3 DEF ScheduleRebuild
<1>5. queued' => build' # "idle"
  BY <1>3, <1>4 DEF NoneForgotten, ScheduleRebuild
<1>6. torn => torn'
  BY DEF RequestStep, Load, StoreFresh, Take, Mutate, Refuse, ReadObjects, Send, GiveUp, StoreMutated,
         Schedule, Arrive, ViewStep, ViewLoad, ViewStore
<1>7. \A q \in wrote' : told'[q] = "ok" => q \in wrote /\ (told[q] = "ok" \/ (q = r /\ Schedule(r)))
  <2>1. CASE Schedule(r)
    BY <1>0, <2>1 DEF Schedule, Answer
  <2>2. CASE Mutate(r)
    BY <1>0, <2>2 DEF Mutate, Basics, Posture
  <2>3. CASE Load(r) \/ Refuse(r) \/ GiveUp(r)
    BY <1>0, <2>3 DEF Load, Refuse, GiveUp, Answer
  <2>4. CASE \/ StoreFresh(r) \/ Take(r) \/ ReadObjects(r) \/ Send(r) \/ StoreMutated(r)
             \/ (\E m \in wire : Arrive(m)) \/ ViewStep
    BY <2>4 DEF StoreFresh, Take, ReadObjects, Send, StoreMutated, Arrive, ViewStep, ViewLoad, ViewStore
  <2> QED BY <2>1, <2>2, <2>3, <2>4 DEF RequestStep
<1>8. ASSUME ~torn', NEW q \in wrote', told'[q] = "ok" PROVE Covered(q)'
  <2>1. q \in wrote /\ q \in Requests /\ ~torn
    BY <1>0, <1>6, <1>7, <1>8
  <2>2. CASE told[q] = "ok"
    <3>1. Covered(q) /\ Range(Own(q)) \subseteq Range(ledger)
      BY <2>1, <2>2 DEF NoneForgotten, Lines, Carried, Durable
    <3> QED BY <1>1, <1>2, <1>4, <2>1, <3>1, CoveredKept
  <2>3. CASE q = r /\ Schedule(r)
    <3>1. mem[r] # None /\ Range(Own(r)) \subseteq Range(Slice(r))
      BY <2>1, <2>3 DEF Schedule, Lines, Carried, Appended, Basics, Posture, Holding
    <3>2. Slice(r) # <<>>
      BY <3>1, OwnNotEmpty, EmptyRange
    <3>3. start[r] < Len(heap[mem[r]])
      <4>1. /\ start[r] \in Nat /\ start[r] <= Len(heap[mem[r]]) /\ heap[mem[r]] \in Seq(Claims)
            /\ Slice(r) \in Seq(Claims) /\ Len(Slice(r)) = Len(heap[mem[r]]) - start[r]
        BY <3>1, SliceType DEF Basics, Posture
      <4>2. Len(Slice(r)) \in Nat \ {0} /\ Len(heap[mem[r]]) \in Nat
        BY <3>2, <4>1, EmptySeq
      <4> QED BY <4>1, <4>2
    <3>4. ScheduleRebuild
      BY <2>3, <3>3 DEF Schedule
    <3> QED BY <3>4 DEF ScheduleRebuild, Covered
  <2> QED BY <1>7, <1>8, <2>2, <2>3
<1> QED BY <1>5, <1>8 DEF NoneForgotten

LEMMA StepForgetsNone ==
  ASSUME Basics, Lines, Lines', NoneForgotten, [Next]_vars
  PROVE  NoneForgotten'
<1>1. CASE UNCHANGED vars
  BY <1>1 DEF vars, kernel, requests, rebuild, history, NoneForgotten, Covered, Replay
<1>2. CASE Crash
  BY <1>2 DEF Crash, NoneForgotten, Covered
<1>3. CASE BuildStep
  BY <1>3, BuildForgetsNone
<1>4. CASE Requests = {}
  <2>1. wire = {} /\ wrote = {}
    BY <1>4 DEF Basics, TypeOK, Posts
  <2> QED BY <1>1, <1>2, <1>3, <1>4, <2>1 DEF Next, NoneForgotten, ViewStep, ViewLoad, ViewStore, requests, rebuild
<1>5. CASE Requests # {}
  BY <1>1, <1>2, <1>3, <1>5, OthersForgetNone DEF Next
<1> QED BY <1>4, <1>5

(* When no rebuild runs and the last one succeeded, the tables show every  *)
(* change that a client was told of: a change made while a rebuild runs    *)
(* finds it and queues another, and a crash starts one.                    *)
THEOREM AckedStaysProjected == Spec => []AckedIsProjected
<1>1. Init => Basics /\ Lines /\ NoneForgotten
  BY InitBasics, InitLines DEF Init, NoneForgotten
<1>2. Basics /\ Lines /\ NoneForgotten /\ [Next]_vars => (Basics /\ Lines /\ NoneForgotten)'
  BY StepBasics, StepLines, StepForgetsNone
<1>3. Basics /\ Lines /\ NoneForgotten => AckedIsProjected
  <2> SUFFICES ASSUME Basics, Lines, NoneForgotten, ~torn, build = "idle", complete,
                      NEW r \in Requests, told[r] = "ok"
               PROVE  Range(Own(r)) \cap Range(ledger) \subseteq projection
    BY DEF AckedIsProjected
  <2>1. CASE r \in wrote
    BY <2>1 DEF NoneForgotten, Covered
  <2>2. CASE r \notin wrote
    <3>1. \A c \in Range(Own(r)) : c[1] = r
      BY OwnType
    <3> QED BY <2>2, <3>1 DEF Lines, Known, Written
  <2> QED BY <2>1, <2>2
<1> QED BY <1>1, <1>2, <1>3, PTL DEF Spec
=============================================================================
