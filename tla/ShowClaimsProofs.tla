-------------------------- MODULE ShowClaimsProofs --------------------------
(***************************************************************************)
(* Why the replay of the ledger and the mutations of the cache agree, for  *)
(* any number of classes, entries, splits, pictures and scorecards.  Every *)
(* mutation starts from a cache that is a replay of the ledger, so it is   *)
(* enough to compare, mutation by mutation, what it does to the cache with *)
(* what the replay makes of its claims (Agrees).                           *)
(***************************************************************************)
EXTENDS ShowClaims, FiniteSetTheorems, WellFoundedInduction, TLAPS

-----------------------------------------------------------------------------
(* The inductive invariant.                                                *)

LettersDiffer(s) ==
    \A x, y \in Splits :
        x # y /\ s.splits[x] # None /\ s.splits[y] # None
              /\ s.splits[x].class = s.splits[y].class
        => s.splits[x].code # s.splits[y].code \/ s.splits[x].code > Letters
SplitsExist(s) ==
    \A e \in Entries :
        s.entries[e] # None /\ s.entries[e].split # None
            => s.splits[s.entries[e].split] # None
Sound(s) == s \in States /\ LettersDiffer(s) /\ SplitsExist(s)

\* Media may differ by what hung on an entry that is gone.
SameMedia(s, f) ==
    \A m \in Media :
        \/ s.media[m] = f.media[m]
        \/ /\ s.media[m] = None /\ f.media[m] # None
           /\ f.media[m].of \in Entries /\ s.entries[f.media[m].of] = None

\* Placements may differ for those in R and in the classes of C.
SamePlaces(s, f, R, C) ==
    \A e \in Entries : s.entries[e] # None =>
        s.place[e] = f.place[e] \/ e \in R \/ s.entries[e].class \in C

\* A cache that has just been refreshed.
Synced ==
    /\ live.classes = rebuilt.classes /\ live.entries = rebuilt.entries
    /\ live.splits = rebuilt.splits /\ live.cards = rebuilt.cards
    /\ live.media = rebuilt.media /\ live.invites = rebuilt.invites
    /\ \A e \in Entries : \/ live.place[e] = rebuilt.place[e]
                          \/ rebuilt.entries[e] # None /\ rebuilt.entries[e].class \in computed

Inv ==
    /\ TypeOK
    /\ Sound(live) /\ Sound(rebuilt)
    /\ prepared => ~phantom /\ Synced
    /\ ~phantom => /\ SameRecords(live, rebuilt) /\ SameMedia(live, rebuilt)
                   /\ SamePlaces(live, rebuilt, ranked, computed)

\* What was handed out and is not in a state.
Lost(s) == {e \in made \cap Entries : s.entries[e] = None}
             \cup (made \cap (Classes \ s.classes))
             \cup {x \in made \cap Splits : s.splits[x] = None}
             \cup {k \in made \cap Cards : s.cards[k] = None}

\* What a mutation and the replay of its claims must have in common.
Agrees(next, fold) ==
    /\ next \in States /\ fold \in States
    /\ LettersDiffer(next) /\ SplitsExist(next)
    /\ SameRecords(next, fold) /\ SameMedia(next, fold)
    /\ SamePlaces(next, fold, ranked \cup InComputedClass(rebuilt), computed)
    /\ Lost(live) \subseteq Lost(next)

-----------------------------------------------------------------------------
(* What holds of the parts.                                                *)

LEMMA InitInv == Init => Inv
<1> SUFFICES ASSUME Init PROVE Inv
  OBVIOUS
<1>1. Empty \in States
  BY DEF Empty, States
<1>2. Sound(Empty)
  BY <1>1 DEF Sound, LettersDiffer, SplitsExist, Empty
<1>3. SameRecords(Empty, Empty) /\ SameMedia(Empty, Empty) /\ SamePlaces(Empty, Empty, {}, {})
  BY DEF SameRecords, SameMedia, SamePlaces, Empty
<1>4. TypeOK
  BY <1>1 DEF Init, TypeOK
<1> QED BY <1>2, <1>3, <1>4 DEF Init, Inv

LEMMA SoundFold ==
  ASSUME NEW next, NEW fold, Agrees(next, fold)
  PROVE  Sound(next) /\ Sound(fold)
BY DEF Agrees, Sound, SameRecords, LettersDiffer, SplitsExist

\* A mutation that agrees with its claims keeps the invariant, whether the
\* ledger takes the claims or not.
LEMMA CommitKeeps ==
  ASSUME Inv, NEW next, NEW fold, Commit(next, fold), Agrees(next, fold),
         made' \subseteq Classes \cup Entries \cup Splits \cup Media \cup Cards
                             \cup Invites \cup Badges
  PROVE  Inv'
<1>1. Sound(live') /\ Sound(rebuilt')
  BY SoundFold DEF Commit, Inv
<1>2. TypeOK'
  BY <1>1 DEF Commit, Inv, TypeOK, Sound, InComputedClass
<1>3. ~phantom' => /\ SameRecords(live', rebuilt') /\ SameMedia(live', rebuilt')
                   /\ SamePlaces(live', rebuilt', ranked', computed')
  BY DEF Commit, Agrees
<1>4. ~prepared'
  BY DEF Commit
<1> QED BY <1>1, <1>2, <1>3, <1>4 DEF Inv, Sound, LettersDiffer, SplitsExist, SameMedia, SamePlaces, SameRecords

LEMMA CommitLosesNothing ==
  ASSUME NEW next, NEW fold, Commit(next, fold), Agrees(next, fold), made \subseteq made'
  PROVE  Gone(live) \subseteq Gone(live)'
BY DEF Commit, Agrees, Gone, Lost

\* A set of numbers has a least one.
LEMMA SmallestOf ==
  ASSUME NEW B \in SUBSET Nat, B # {}
  PROVE  \E n \in B : \A m \in B : n <= m
<1>1. PICK n \in B : \A m \in B : ~ (<<m, n>> \in OpToRel(<, Nat))
  BY NatLessThanWellFounded, WFMin
<1>2. ASSUME NEW m \in B PROVE ~ (m < n)
  <2>1. <<m, n>> \in Nat \X Nat
    OBVIOUS
  <2> QED BY <1>1, <2>1 DEF OpToRel
<1> QED BY <1>2

\* Ranks are positive numbers.
LEMMA RankType ==
  ASSUME NEW s, NEW o, NEW group \in SUBSET Entries, NEW e
  PROVE  RankIn(s, o, group, e) \in Nat
<1> DEFINE ahead == {d \in group : Ahead(s, o, d, e)}
<1>1. ahead \in SUBSET Entries
  OBVIOUS
<1>2. Cardinality(ahead) \in Nat
  <2> HIDE DEF ahead
  <2> QED BY <1>1, IdsAssumption, FS_Subset, FS_CardinalityType
<1>3. RankIn(s, o, group, e) = 1 + Cardinality(ahead)
  BY DEF RankIn
<1> HIDE DEF ahead
<1> QED BY <1>2, <1>3

LEMMA ReplayedPlaceType ==
  ASSUME NEW s, NEW o, NEW e
  PROVE  ReplayedPlace(s, o, e) \in Nat
<1> DEFINE group == {d \in InClass(s, s.entries[e].class) : Scored(s, d)}
<1>1. group \in SUBSET Entries
  BY DEF InClass, Present
<1>2. RankIn(s, o, group, e) \in Nat
  <2> HIDE DEF group
  <2> QED BY <1>1, RankType
<1> QED BY <1>2 DEF ReplayedPlace

LEMMA ComputedPlaceType ==
  ASSUME NEW s \in States, NEW o, NEW c, NEW e \in Entries
  PROVE  /\ ComputedPlace(s, o, c, e) \in Nat
         /\ ComputedPlace(s, o, c, e) # s.place[e] => e \in InClass(s, c)
<1> DEFINE group == Competitors(s, c, e)
<1>1. group \in SUBSET Entries /\ group \subseteq InClass(s, c)
  BY DEF InClass, Present, Competitors
<1>2. RankIn(s, o, group, e) \in Nat
  <2> HIDE DEF group
  <2> QED BY <1>1, RankType
<1>3. s.place[e] \in Nat
  BY DEF States
<1> QED BY <1>1, <1>2, <1>3 DEF ComputedPlace

\* A replay is the fold up to the placements of the computed classes.
LEMMA SnapshotType ==
  ASSUME Inv, NEW s \in Snapshots
  PROVE  /\ s \in States
         /\ s.classes = rebuilt.classes /\ s.entries = rebuilt.entries
         /\ s.splits = rebuilt.splits /\ s.cards = rebuilt.cards
         /\ s.media = rebuilt.media /\ s.invites = rebuilt.invites
         /\ s.badges = rebuilt.badges
         /\ \A e \in Entries :
              \/ s.place[e] = rebuilt.place[e]
              \/ rebuilt.entries[e] # None /\ rebuilt.entries[e].class \in computed
<1>1. PICK o \in Orders : s = Recomputed(o)
  BY DEF Snapshots
<1> DEFINE place == [e \in Entries |->
                       IF rebuilt.entries[e] # None /\ rebuilt.entries[e].class \in computed
                       THEN ReplayedPlace(rebuilt, o, e)
                       ELSE rebuilt.place[e]]
<1>2. rebuilt \in States
  BY DEF Inv, TypeOK
<1>3. place \in [Entries -> Nat]
  BY <1>2, ReplayedPlaceType DEF States
<1>4. s = [rebuilt EXCEPT !.place = place]
  BY <1>1 DEF Recomputed
<1>5. \A e \in Entries :
         \/ place[e] = rebuilt.place[e]
         \/ rebuilt.entries[e] # None /\ rebuilt.entries[e].class \in computed
  OBVIOUS
<1> HIDE DEF place
<1> QED BY <1>2, <1>3, <1>4, <1>5 DEF States

-----------------------------------------------------------------------------
(* One lemma per mutation: what it does to the cache agrees with what the  *)
(* replay makes of its claims.                                             *)

\* What a mutation may use: the cache it starts from has been refreshed.
Ready == Inv /\ prepared

LEMMA ReadyFacts ==
  ASSUME Ready
  PROVE  /\ live \in States /\ rebuilt \in States /\ Synced
         /\ LettersDiffer(live) /\ SplitsExist(live)
         /\ SamePlaces(live, rebuilt, InComputedClass(rebuilt), computed)
BY DEF Ready, Inv, TypeOK, Sound, Synced, SamePlaces, InComputedClass

LEMMA ClassCreatedAgrees ==
  ASSUME Ready, NEW c \in Classes \ made
  PROVE  Agrees([live EXCEPT !.classes = @ \cup {c}], ClassCreated(rebuilt, c))
BY ReadyFacts DEF Agrees, ClassCreated, Synced, States, LettersDiffer, SplitsExist, SameRecords,
   SameMedia, SamePlaces, Lost

LEMMA EntryCreatedAgrees ==
  ASSUME Ready, NEW e \in Entries \ made, NEW entry \in EntryOf, entry.split = None
  PROVE  Agrees([live EXCEPT !.entries[e] = entry, !.place[e] = 0],
                EntryWritten(rebuilt, e, entry, 0))
<1> DEFINE next == [live EXCEPT !.entries[e] = entry, !.place[e] = 0]
           fold == EntryWritten(rebuilt, e, entry, 0)
<1>1. next \in States /\ fold \in States
  BY ReadyFacts DEF EntryWritten, States
<1>2. LettersDiffer(next) /\ SplitsExist(next)
  BY ReadyFacts DEF LettersDiffer, SplitsExist, States
<1>3. SameRecords(next, fold) /\ SameMedia(next, fold)
  BY ReadyFacts DEF EntryWritten, SameRecords, SameMedia, Synced, States
<1>4. SamePlaces(next, fold, ranked \cup InComputedClass(rebuilt), computed)
  BY ReadyFacts DEF EntryWritten, SamePlaces, States
<1>5. Lost(live) \subseteq Lost(next)
  BY ReadyFacts DEF Lost, States
<1> QED BY <1>1, <1>2, <1>3, <1>4, <1>5 DEF Agrees

LEMMA EntryUpdatedAgrees ==
  ASSUME Ready, NEW e \in Present(live), NEW entry \in EntryOf, entry.split = live.entries[e].split
  PROVE  Agrees([live EXCEPT !.entries[e] = entry],
                EntryWritten(rebuilt, e, entry, live.place[e]))
BY ReadyFacts, NoneAssumption
   DEF Agrees, EntryWritten, Synced, States, LettersDiffer, SplitsExist, SameRecords,
   SameMedia, SamePlaces, Lost, Present

\* Changes of a field of an entry.
LEMMA EntryChangedAgrees ==
  ASSUME Ready, NEW e \in Present(live), NEW entry \in EntryOf,
         entry.split = None \/ live.splits[entry.split] # None
  PROVE  Agrees([live EXCEPT !.entries[e] = entry], [rebuilt EXCEPT !.entries[e] = entry])
BY ReadyFacts, NoneAssumption
   DEF Agrees, Synced, States, LettersDiffer, SplitsExist, SameRecords,
   SameMedia, SamePlaces, Lost, Present, InComputedClass

LEMMA PlacementSetAgrees ==
  ASSUME Ready, NEW e \in Present(live), NEW p \in Nat
  PROVE  Agrees([live EXCEPT !.place[e] = p], PlacementSet(rebuilt, e, p))
BY ReadyFacts, NoneAssumption
   DEF Agrees, PlacementSet, Synced, States, LettersDiffer, SplitsExist, SameRecords,
   SameMedia, SamePlaces, Lost, Present

LEMMA EntryDeletedAgrees ==
  ASSUME Ready, NEW e \in Present(live)
  PROVE  Agrees([EntryDeleted(live, e) EXCEPT
                        !.media = [m \in Media |->
                           IF @[m] # None /\ @[m].of = e THEN None ELSE @[m]]],
                EntryDeleted(rebuilt, e))
<1> DEFINE media == [m \in Media |-> IF live.media[m] # None /\ live.media[m].of = e
                                     THEN None ELSE live.media[m]]
           next == [EntryDeleted(live, e) EXCEPT !.media = media]
           fold == EntryDeleted(rebuilt, e)
<1>1. media \in [Media -> MediaOf \cup {None}]
  BY ReadyFacts DEF States
<1>2. next \in States /\ fold \in States
  BY <1>1, ReadyFacts DEF EntryDeleted, States
<1>3. LettersDiffer(next) /\ SplitsExist(next)
  BY ReadyFacts DEF LettersDiffer, SplitsExist, EntryDeleted, States
<1>4. SameRecords(next, fold)
  BY ReadyFacts DEF EntryDeleted, SameRecords, Synced, States
<1>5. SameMedia(next, fold)
  BY ReadyFacts DEF EntryDeleted, SameMedia, Synced, States, Present
<1>6. SamePlaces(next, fold, ranked \cup InComputedClass(rebuilt), computed)
  BY ReadyFacts DEF EntryDeleted, SamePlaces, States
<1>7. Lost(live) \subseteq Lost(next)
  BY ReadyFacts DEF Lost, States, EntryDeleted
<1>8. live.media = [m \in Media |-> live.media[m]] /\ EntryDeleted(live, e).media = live.media
  BY ReadyFacts DEF EntryDeleted, States
<1>9. Agrees(next, fold)
  BY <1>2, <1>3, <1>4, <1>5, <1>6, <1>7 DEF Agrees
<1> QED BY <1>8, <1>9

LEMMA EntryFieldAgrees ==
  ASSUME Ready, NEW e \in Present(live), NEW p \in Nat, NEW entry \in EntryOf,
         entry.split = live.entries[e].split
  PROVE  Agrees([live EXCEPT !.place[e] = p, !.entries[e] = entry],
                OnEntry(PlacementSet(rebuilt, e, p), e, entry))
<1> DEFINE next == [live EXCEPT !.place[e] = p, !.entries[e] = entry]
           fold == OnEntry(PlacementSet(rebuilt, e, p), e, entry)
<1>0. e \in Entries
  BY DEF Present
<1>1. fold = [rebuilt EXCEPT !.place[e] = p, !.entries[e] = entry]
  BY ReadyFacts DEF PlacementSet, OnEntry, Present, Synced, States
<1>2. next \in States /\ fold \in States
  <2>1. \A t \in States : [t EXCEPT !.place[e] = p, !.entries[e] = entry] \in States
    BY <1>0 DEF States
  <2> QED BY <1>1, <2>1, ReadyFacts
<1>3. LettersDiffer(next) /\ SplitsExist(next)
  BY ReadyFacts DEF LettersDiffer, SplitsExist, States, Present
<1>4. SameRecords(next, fold) /\ SameMedia(next, fold)
  BY <1>1, ReadyFacts DEF SameRecords, SameMedia, Synced, States, Present
<1>5. SamePlaces(next, fold, ranked \cup InComputedClass(rebuilt), computed)
  BY <1>1, ReadyFacts DEF SamePlaces, States, Present, Synced
<1>6. Lost(live) \subseteq Lost(next)
  BY ReadyFacts, NoneAssumption DEF Lost, States, Present
<1> QED BY <1>2, <1>3, <1>4, <1>5, <1>6 DEF Agrees

\* The next letter is one that the class does not use, if there is one.
LEMMA LeastNumber ==
  ASSUME NEW S \in SUBSET Nat, S # {}
  PROVE  Min(S) \in S
BY SmallestOf DEF Min

LEMMA NextCodeIsFree ==
  ASSUME NEW s \in States, NEW c
  PROVE  /\ NextCode(s, c) \in Nat
         /\ \/ NextCode(s, c) > Letters
            \/ \A x \in SplitsIn(s, c) : s.splits[x].code # NextCode(s, c)
<1> DEFINE used == {s.splits[x].code : x \in SplitsIn(s, c)}
           free == (1..Letters) \ used
<1>1. Letters \in Nat
  BY IdsAssumption
<1>2. Cardinality(used) \in Nat
  <2>1. SplitsIn(s, c) \in SUBSET Splits
    BY DEF SplitsIn
  <2>2. IsFiniteSet(SplitsIn(s, c))
    BY <2>1, IdsAssumption, FS_Subset
  <2> DEFINE f == [x \in SplitsIn(s, c) |-> s.splits[x].code]
  <2>3. f \in Surjection(SplitsIn(s, c), used)
    BY DEF Surjection
  <2>4. IsFiniteSet(used)
    BY <2>2, <2>3, FS_Surjection
  <2> QED BY <2>4, FS_CardinalityType
<1>3. CASE free # {}
  <2>1. Min(free) \in free
    BY <1>1, <1>3, LeastNumber
  <2>2. NextCode(s, c) = Min(free)
    BY <1>3 DEF NextCode
  <2> QED BY <1>1, <2>1, <2>2
<1>4. CASE free = {}
  <2>1. NextCode(s, c) = Letters + Cardinality(used) + 1
    BY <1>4 DEF NextCode
  <2> HIDE DEF used
  <2> QED BY <1>1, <1>2, <2>1
<1> QED BY <1>3, <1>4

LEMMA SplitCreatedAgrees ==
  ASSUME Ready, NEW x \in Splits \ made, NEW c \in Classes,
         NEW split, split = [class |-> c, code |-> NextCode(live, c)]
  PROVE  Agrees([live EXCEPT !.splits[x] = split], SplitCreated(rebuilt, x, split))
<1> DEFINE next == [live EXCEPT !.splits[x] = split]
           fold == SplitCreated(rebuilt, x, split)
<1>1. split \in SplitOf /\ split # None
  BY ReadyFacts, NextCodeIsFree, NoneAssumption DEF SplitOf
<1>2. next \in States /\ fold \in States
  BY <1>1, ReadyFacts DEF SplitCreated, States
<1>3. LettersDiffer(next)
  <2> SUFFICES ASSUME NEW y \in Splits, y # x, live.splits[y] # None, live.splits[y].class = c
               PROVE  live.splits[y].code # split.code \/ split.code > Letters
    BY ReadyFacts DEF LettersDiffer, States
  <2> QED BY ReadyFacts, NextCodeIsFree DEF SplitsIn
<1>4. SplitsExist(next)
  BY <1>1, ReadyFacts DEF SplitsExist, States
<1>5. SameRecords(next, fold) /\ SameMedia(next, fold)
  BY ReadyFacts DEF SplitCreated, SameRecords, SameMedia, Synced, States
<1>6. SamePlaces(next, fold, ranked \cup InComputedClass(rebuilt), computed)
  BY ReadyFacts DEF SplitCreated, SamePlaces, States
<1>7. Lost(live) \subseteq Lost(next)
  BY ReadyFacts DEF Lost, States
<1> QED BY <1>2, <1>3, <1>4, <1>5, <1>6, <1>7 DEF Agrees

LEMMA SplitDeletedAgrees ==
  ASSUME Ready, NEW x \in Splits, ~SplitUsed(live, x)
  PROVE  Agrees([live EXCEPT !.splits[x] = None], SplitDeleted(rebuilt, x))
<1> DEFINE next == [live EXCEPT !.splits[x] = None]
           fold == SplitDeleted(rebuilt, x)
<1>1. next \in States /\ fold \in States
  BY ReadyFacts DEF SplitDeleted, States
<1>2. LettersDiffer(next)
  BY ReadyFacts DEF LettersDiffer, States
<1>3. SplitsExist(next)
  BY ReadyFacts DEF SplitsExist, SplitUsed, Present, States
<1>4. SameRecords(next, fold) /\ SameMedia(next, fold)
  BY ReadyFacts DEF SplitDeleted, SameRecords, SameMedia, Synced, States
<1>5. SamePlaces(next, fold, ranked \cup InComputedClass(rebuilt), computed)
  BY ReadyFacts DEF SplitDeleted, SamePlaces, States
<1>6. Lost(live) \subseteq Lost(next)
  BY ReadyFacts DEF Lost, States
<1> QED BY <1>1, <1>2, <1>3, <1>4, <1>5, <1>6 DEF Agrees

LEMMA EntryLeavesSplitAgrees ==
  ASSUME Ready, NEW e \in Present(live), NEW x \in Splits \cup {None},
         x # None => live.splits[x] # None,
         NEW left, left = live.entries[e].split, left \notin {None, x},
         ~SplitUsed([live EXCEPT !.entries[e].split = x], left)
  PROVE  Agrees([[live EXCEPT !.entries[e].split = x] EXCEPT !.splits[left] = None],
                SplitDeleted(SplitChanged(rebuilt, e, x), left))
<1> DEFINE entry == [live.entries[e] EXCEPT !.split = x]
           moved == [live EXCEPT !.entries[e] = entry]
           next == [moved EXCEPT !.splits[left] = None]
           fold == SplitDeleted(SplitChanged(rebuilt, e, x), left)
<1>1. entry \in EntryOf /\ entry.split = x /\ entry # None
  BY ReadyFacts, NoneAssumption DEF States, Present, EntryOf
<1>2. fold = [rebuilt EXCEPT !.entries[e] = entry, !.splits[left] = None]
  BY ReadyFacts DEF SplitDeleted, SplitChanged, OnEntry, Present, Synced, States
<1>3. left \in Splits /\ e \in Entries
  BY ReadyFacts DEF Present, States, EntryOf
<1> HIDE DEF entry
<1>4. next \in States /\ fold \in States
  <2>1. \A t \in States : [t EXCEPT !.entries[e] = entry, !.splits[left] = None] \in States
    BY <1>1, <1>3 DEF States
  <2>2. next = [live EXCEPT !.entries[e] = entry, !.splits[left] = None]
    OBVIOUS
  <2> QED BY <1>2, <2>1, <2>2, ReadyFacts
<1>5. LettersDiffer(next)
  BY <1>3, ReadyFacts DEF LettersDiffer, States
<1>6. SplitsExist(next)
  <2>1. \A d \in Present(live) : d # e => live.entries[d].split # left
    BY ReadyFacts DEF SplitUsed, Present, States, entry
  <2> QED BY <1>1, <1>3, <2>1, ReadyFacts DEF SplitsExist, States, Present
<1>7. SameRecords(next, fold) /\ SameMedia(next, fold)
  BY <1>1, <1>2, ReadyFacts DEF SameRecords, SameMedia, Synced, States, Present
<1>8. SamePlaces(next, fold, ranked \cup InComputedClass(rebuilt), computed)
  BY <1>2, ReadyFacts DEF SamePlaces, States, Present, Synced, InComputedClass
<1>9. Lost(live) \subseteq Lost(next)
  BY <1>1, ReadyFacts DEF Lost, States, Present
<1>10. Agrees(next, fold)
  BY <1>4, <1>5, <1>6, <1>7, <1>8, <1>9 DEF Agrees
<1>11. moved = [live EXCEPT !.entries[e].split = x]
  BY ReadyFacts DEF States, Present, entry
<1> QED BY <1>10, <1>11

LEMMA MediaAttachedAgrees ==
  ASSUME Ready, NEW m \in Media, NEW record \in MediaOf
  PROVE  Agrees([live EXCEPT !.media[m] = record], MediaAttached(rebuilt, m, record))
BY ReadyFacts DEF Agrees, MediaAttached, Synced, States, LettersDiffer, SplitsExist, SameRecords,
   SameMedia, SamePlaces, Lost

LEMMA MediaDeletedAgrees ==
  ASSUME Ready, NEW m \in Media
  PROVE  Agrees([live EXCEPT !.media[m] = None], MediaDeleted(rebuilt, m))
BY ReadyFacts DEF Agrees, MediaDeleted, Synced, States, LettersDiffer, SplitsExist, SameRecords,
   SameMedia, SamePlaces, Lost

\* Replacing all the media of the cache and of the replay alike.
LEMMA MediaReplacedAgrees ==
  ASSUME Ready, NEW media \in [Media -> MediaOf \cup {None}]
  PROVE  Agrees([live EXCEPT !.media = media], [rebuilt EXCEPT !.media = media])
BY ReadyFacts DEF Agrees, Synced, States, LettersDiffer, SplitsExist, SameRecords,
   SameMedia, SamePlaces, Lost

LEMMA ScorecardAgrees ==
  ASSUME Ready, NEW k \in Cards \ made, NEW card \in CardOf
  PROVE  Agrees([live EXCEPT !.cards[k] = card], ScorecardSubmitted(rebuilt, k, card))
BY ReadyFacts DEF Agrees, ScorecardSubmitted, Synced, States, LettersDiffer, SplitsExist, SameRecords,
   SameMedia, SamePlaces, Lost

LEMMA InviteAgrees ==
  ASSUME Ready, NEW i \in Invites, NEW invite \in InviteOf
  PROVE  Agrees([live EXCEPT !.invites[i] = invite], InviteWritten(rebuilt, i, invite.revoked))
<1> DEFINE next == [live EXCEPT !.invites[i] = invite]
           fold == InviteWritten(rebuilt, i, invite.revoked)
<1>1. invite.revoked \in BOOLEAN /\ invite # None
  BY NoneAssumption DEF InviteOf
<1> DEFINE noted == [revoked |-> invite.revoked, token |-> FALSE]
<1>0. noted # None
  <2>1. noted \in InviteOf
    BY <1>1 DEF InviteOf
  <2> QED BY <2>1, NoneAssumption
<1>2. next \in States /\ fold \in States
  BY <1>1, ReadyFacts DEF InviteWritten, States, InviteOf
<1>3. LettersDiffer(next) /\ SplitsExist(next)
  BY ReadyFacts DEF LettersDiffer, SplitsExist, States
<1>4. SameRecords(next, fold) /\ SameMedia(next, fold)
  <2>1. fold.invites[i].revoked = next.invites[i].revoked /\ next.invites[i] # None
    BY <1>1, ReadyFacts DEF InviteWritten, States
  <2>2. \A j \in Invites : fold.invites[j] # None => next.invites[j] # None
                                   /\ next.invites[j].revoked = fold.invites[j].revoked
    BY <2>1, ReadyFacts DEF InviteWritten, States, Synced
  <2>3. \A j \in Invites : fold.invites[j] = None => next.invites[j] = None
    BY <1>0, ReadyFacts DEF InviteWritten, States, Synced
  <2> QED BY <2>2, <2>3, ReadyFacts DEF InviteWritten, SameRecords, SameMedia, Synced, States
<1>5. SamePlaces(next, fold, ranked \cup InComputedClass(rebuilt), computed)
  BY ReadyFacts DEF InviteWritten, SamePlaces, States
<1>6. Lost(live) \subseteq Lost(next)
  BY ReadyFacts DEF Lost, States
<1> QED BY <1>2, <1>3, <1>4, <1>5, <1>6 DEF Agrees

LEMMA ScheduleResetAgrees ==
  ASSUME Ready, NEW show,
         NEW classes, classes = {c \in live.classes : ShowOf[c] = show},
         NEW entries, entries = {e \in Present(live) : live.entries[e].show = show},
         NEW media, media = {m \in Media : live.media[m] # None /\ live.media[m].of \in entries},
         NEW cards, cards = {k \in Cards : live.cards[k] # None /\ live.cards[k].entry \in entries}
  PROVE  Agrees(ScheduleReset(live, classes, entries, media, cards),
                ScheduleReset(rebuilt, classes, entries, media, cards))
<1> DEFINE next == ScheduleReset(live, classes, entries, media, cards)
           fold == ScheduleReset(rebuilt, classes, entries, media, cards)
<1>1. next \in States /\ fold \in States
  BY ReadyFacts DEF ScheduleReset, States
<1>2. LettersDiffer(next) /\ SplitsExist(next)
  BY ReadyFacts DEF ScheduleReset, LettersDiffer, SplitsExist, States
<1>3. SameRecords(next, fold) /\ SameMedia(next, fold)
  BY ReadyFacts DEF ScheduleReset, SameRecords, SameMedia, Synced, States
<1>4. SamePlaces(next, fold, ranked \cup InComputedClass(rebuilt), computed)
  BY ReadyFacts DEF ScheduleReset, SamePlaces, States
<1>5. Lost(live) \subseteq Lost(next)
  BY ReadyFacts DEF ScheduleReset, Lost, States
<1> QED BY <1>1, <1>2, <1>3, <1>4, <1>5 DEF Agrees

-----------------------------------------------------------------------------
(* Every step keeps the invariant and loses nothing that was deleted.      *)

Kept == Inv' /\ Gone(live) \subseteq Gone(live)'

Ids == Classes \cup Entries \cup Splits \cup Media \cup Cards \cup Invites \cup Badges

LEMMA Committed ==
  ASSUME Inv, NEW next, NEW fold, Commit(next, fold), Agrees(next, fold),
         \/ made' = made
         \/ \E id \in Ids : made' = made \cup {id}
  PROVE  Kept
<1>1. made \subseteq made' /\ made' \subseteq Ids
  BY DEF Inv, TypeOK, Ids
<1> QED BY <1>1, CommitKeeps, CommitLosesNothing DEF Kept, Ids

LEMMA IdsAreHandedOut == ASSUME NEW id \in Ids, New(id)
                         PROVE  id \notin made /\ \E i \in Ids : made' = made \cup {i}
BY DEF New

LEMMA ClassSteps ==
  ASSUME Inv, NEW c \in Classes, CreateClass(c)
  PROVE  Kept
<1>1. Ready /\ New(c) /\ c \in Ids
  BY DEF CreateClass, Commit, Ready, Ids
<1> QED BY <1>1, IdsAreHandedOut, ClassCreatedAgrees, Committed DEF CreateClass

LEMMA RankingStep ==
  ASSUME Inv, NEW c \in Classes, ComputePlacements(c)
  PROVE  Kept
<1>1. PICK o \in Orders :
        /\ prepared /\ prepared' = FALSE
        /\ live' = [live EXCEPT !.place = [e \in Entries |->
                      IF live.entries[e] # None THEN ComputedPlace(live, o, c, e) ELSE @[e]]]
        /\ computed' = computed \cup {c} \/ (computed' = computed /\ phantom' = TRUE)
        /\ phantom' \in BOOLEAN
        /\ ranked' = ranked \cup InComputedClass(rebuilt) \cup InClass(rebuilt, c)
        /\ rebuilt' = rebuilt /\ made' = made
  BY DEF ComputePlacements
<1> DEFINE place == [e \in Entries |-> IF live.entries[e] # None
                                       THEN ComputedPlace(live, o, c, e) ELSE live.place[e]]
<1>2. Ready
  BY <1>1 DEF Ready
<1>3. place \in [Entries -> Nat]
  BY <1>2, ReadyFacts, ComputedPlaceType DEF States
<1>4. \A e \in Entries : live.entries[e] # None /\ place[e] # live.place[e] => e \in ranked'
  <2> SUFFICES ASSUME NEW e \in Entries, live.entries[e] # None,
                      ComputedPlace(live, o, c, e) # live.place[e]
               PROVE  e \in ranked'
    OBVIOUS
  <2>1. e \in InClass(live, c)
    BY <1>2, ReadyFacts, ComputedPlaceType
  <2>2. InClass(live, c) = InClass(rebuilt, c)
    BY <1>2, ReadyFacts DEF Synced, InClass, Present
  <2> QED BY <1>1, <2>1, <2>2
<1>5. live' = [live EXCEPT !.place = place]
  BY <1>1
<1> HIDE DEF place
<1>6. live' \in States /\ live'.entries = live.entries /\ live'.splits = live.splits
      /\ live'.classes = live.classes /\ live'.cards = live.cards /\ live'.media = live.media
      /\ live'.invites = live.invites /\ live'.place = place
  BY <1>2, <1>3, <1>5, ReadyFacts DEF States
<1>7. Sound(live') /\ Sound(rebuilt')
  BY <1>1, <1>2, <1>6, ReadyFacts DEF Sound, LettersDiffer, SplitsExist, Inv
<1>8. TypeOK'
  BY <1>1, <1>2, <1>6, ReadyFacts DEF TypeOK, Inv, InComputedClass, InClass, Present
<1>9. SameRecords(live', rebuilt') /\ SameMedia(live', rebuilt')
  BY <1>1, <1>2, <1>6, ReadyFacts DEF SameRecords, SameMedia, Synced
<1>10. SamePlaces(live', rebuilt', ranked', computed')
  BY <1>1, <1>2, <1>4, <1>6, ReadyFacts DEF SamePlaces
<1>11. Inv'
  BY <1>1, <1>7, <1>8, <1>9, <1>10
     DEF Inv, Sound, LettersDiffer, SplitsExist, SameRecords, SameMedia, SamePlaces
<1>12. Gone(live) \subseteq Gone(live)'
  BY <1>1, <1>6 DEF Gone
<1> QED BY <1>11, <1>12 DEF Kept

LEMMA EntrySteps ==
  ASSUME Inv, NEW e \in Entries,
         \/ CreateEntry(e) \/ UpdateEntry(e) \/ MoveEntry(e) \/ SetEntryField(e)
         \/ SetPlacement(e) \/ SetEntryResults(e) \/ DeleteEntry(e) \/ ArchiveEntry(e)
  PROVE  Kept
<1>0. Ready
  BY DEF CreateEntry, UpdateEntry, MoveEntry, SetEntryField, SetPlacement, SetEntryResults,
         DeleteEntry, ArchiveEntry, Commit, Ready
<1>1. CASE CreateEntry(e)
  <2>1. PICK show \in Shows, c \in Classes, form \in [OnForm -> Values] :
          /\ New(e)
          /\ LET entry == [show |-> show, class |-> c, split |-> None, archived |-> FALSE,
                           says |-> Filled([d \in Fields |-> Unset], form)]
             IN  Commit([live EXCEPT !.entries[e] = entry, !.place[e] = 0],
                        EntryWritten(rebuilt, e, entry, 0))
    BY <1>1 DEF CreateEntry
  <2> DEFINE entry == [show |-> show, class |-> c, split |-> None, archived |-> FALSE,
                       says |-> Filled([d \in Fields |-> Unset], form)]
  <2>2. Filled([d \in Fields |-> Unset], form) \in [Fields -> Values]
    BY IdsAssumption DEF Filled
  <2>3. entry \in EntryOf /\ entry.split = None
    BY <2>2 DEF EntryOf
  <2>4. e \in Ids
    BY DEF Ids
  <2> HIDE DEF entry
  <2>5. Commit([live EXCEPT !.entries[e] = entry, !.place[e] = 0], EntryWritten(rebuilt, e, entry, 0))
    BY <2>1 DEF entry
  <2>6. Agrees([live EXCEPT !.entries[e] = entry, !.place[e] = 0], EntryWritten(rebuilt, e, entry, 0))
    BY <1>0, <2>1, <2>3, <2>4, IdsAreHandedOut, EntryCreatedAgrees
  <2> QED BY <2>1, <2>4, <2>5, <2>6, IdsAreHandedOut, Committed
<1>2. ASSUME e \in Present(live) PROVE live.entries[e] \in EntryOf
  BY <1>0, <1>2, ReadyFacts DEF Present, States
<1>3. CASE UpdateEntry(e)
  <2>1. PICK c \in Classes, form \in [OnForm -> Values] :
          /\ Keep /\ e \in Present(live)
          /\ LET entry == [live.entries[e] EXCEPT !.class = c, !.says = Filled(@, form)]
             IN  Commit([live EXCEPT !.entries[e] = entry],
                        EntryWritten(rebuilt, e, entry, live.place[e]))
    BY <1>3 DEF UpdateEntry
  <2> DEFINE entry == [live.entries[e] EXCEPT !.class = c,
                                              !.says = Filled(live.entries[e].says, form)]
  <2>2. Filled(live.entries[e].says, form) \in [Fields -> Values]
    BY <1>2, <2>1, IdsAssumption DEF Filled, EntryOf
  <2>3. entry \in EntryOf /\ entry.split = live.entries[e].split
    BY <1>2, <2>1, <2>2 DEF EntryOf
  <2> HIDE DEF entry
  <2>4. Commit([live EXCEPT !.entries[e] = entry], EntryWritten(rebuilt, e, entry, live.place[e]))
    BY <2>1 DEF entry
  <2>5. Agrees([live EXCEPT !.entries[e] = entry], EntryWritten(rebuilt, e, entry, live.place[e]))
    BY <1>0, <2>1, <2>3, EntryUpdatedAgrees
  <2> QED BY <2>1, <2>4, <2>5, Committed DEF Keep
\* A claim on one field: the replay and the cache write the same entry.
<1>4. ASSUME NEW entry \in EntryOf, e \in Present(live), entry.split = live.entries[e].split,
             Keep, Commit([live EXCEPT !.entries[e] = entry], OnEntry(rebuilt, e, entry))
      PROVE  Kept
  <2>1. entry.split = None \/ live.splits[entry.split] # None
    BY <1>0, <1>4, ReadyFacts DEF SplitsExist, Present
  <2>2. OnEntry(rebuilt, e, entry) = [rebuilt EXCEPT !.entries[e] = entry]
    BY <1>0, <1>4, ReadyFacts DEF OnEntry, Synced, Present
  <2> QED BY <1>0, <1>4, <2>1, <2>2, EntryChangedAgrees, Committed DEF Keep
<1>5. ASSUME e \in Present(live)
      PROVE  rebuilt.entries[e] = live.entries[e]
  BY <1>0, ReadyFacts DEF Synced
<1>6. CASE MoveEntry(e)
  <2>1. PICK c \in Classes : /\ Keep /\ e \in Present(live)
                             /\ Commit([live EXCEPT !.entries[e].class = c], EntryMoved(rebuilt, e, c))
    BY <1>0, <1>6, ReadyFacts DEF MoveEntry, States
  <2>2. [live.entries[e] EXCEPT !.class = c] \in EntryOf
    BY <1>2, <2>1 DEF EntryOf
  <2>3. [live.entries[e] EXCEPT !.class = c].split = live.entries[e].split
    BY <1>2, <2>1 DEF EntryOf
  <2> QED BY <1>4, <1>5, <2>1, <2>2, <2>3 DEF EntryMoved
<1>7. CASE SetEntryField(e)
  <2>1. PICK d \in Fields, v \in Values :
          /\ Keep /\ e \in Present(live)
          /\ Commit([live EXCEPT !.entries[e].says[d] = v], EntrySays(rebuilt, e, d, v))
    BY <1>7 DEF SetEntryField
  <2>2. [live.entries[e] EXCEPT !.says[d] = v] \in EntryOf
    BY <1>2, <2>1 DEF EntryOf
  <2>3. [live.entries[e] EXCEPT !.says[d] = v].split = live.entries[e].split
    BY <1>2, <2>1 DEF EntryOf
  <2> QED BY <1>4, <1>5, <2>1, <2>2, <2>3 DEF EntrySays
<1>8. CASE ArchiveEntry(e)
  <2>1. PICK b \in BOOLEAN :
          /\ Keep /\ e \in Present(live)
          /\ Commit([live EXCEPT !.entries[e].archived = b], EntryArchived(rebuilt, e, b))
    BY <1>8 DEF ArchiveEntry
  <2>2. [live.entries[e] EXCEPT !.archived = b] \in EntryOf
    BY <1>2, <2>1 DEF EntryOf
  <2>3. [live.entries[e] EXCEPT !.archived = b].split = live.entries[e].split
    BY <1>2, <2>1 DEF EntryOf
  <2> QED BY <1>4, <1>5, <2>1, <2>2, <2>3 DEF EntryArchived
<1>9. CASE SetPlacement(e)
  <2>1. PICK p \in 0..MaxPlace :
          /\ Keep /\ e \in Present(live)
          /\ Commit([live EXCEPT !.place[e] = p], PlacementSet(rebuilt, e, p))
    BY <1>9 DEF SetPlacement
  <2>2. p \in Nat
    BY IdsAssumption
  <2> QED BY <1>0, <2>1, <2>2, PlacementSetAgrees, Committed DEF Keep
<1>10. CASE SetEntryResults(e)
  <2>1. PICK p \in 0..MaxPlace, d \in Fields, v \in Values :
          /\ Keep /\ e \in Present(live)
          /\ Commit([live EXCEPT !.place[e] = p, !.entries[e].says[d] = v],
                    EntrySays(PlacementSet(rebuilt, e, p), e, d, v))
    BY <1>10 DEF SetEntryResults
  <2> DEFINE entry == [live.entries[e] EXCEPT !.says[d] = v]
             next == [live EXCEPT !.place[e] = p, !.entries[e] = entry]
             fold == OnEntry(PlacementSet(rebuilt, e, p), e, entry)
  <2>2. p \in Nat
    BY IdsAssumption
  <2>3. entry \in EntryOf /\ entry.split = live.entries[e].split
    BY <1>2, <2>1 DEF EntryOf
  <2>4. PlacementSet(rebuilt, e, p).entries = rebuilt.entries
    BY <1>0, ReadyFacts DEF PlacementSet, States
  <2>5. EntrySays(PlacementSet(rebuilt, e, p), e, d, v) = fold
    BY <1>5, <2>1, <2>4 DEF EntrySays
  <2>6. [live EXCEPT !.place[e] = p, !.entries[e].says[d] = v] = next
    BY <1>0, ReadyFacts DEF States
  <2>7. Commit(next, fold)
    BY <2>1, <2>5, <2>6
  <2>8. Agrees(next, fold)
    <3> HIDE DEF entry
    <3> QED BY <1>0, <2>1, <2>2, <2>3, EntryFieldAgrees
  <2> HIDE DEF next, fold
  <2> QED BY <2>1, <2>7, <2>8, Committed DEF Keep
<1>11. CASE DeleteEntry(e)
  BY <1>0, <1>11, EntryDeletedAgrees, Committed DEF DeleteEntry, Keep
<1> QED BY <1>1, <1>3, <1>6, <1>7, <1>8, <1>9, <1>10, <1>11

LEMMA SplitSteps ==
  ASSUME Inv, NEW x \in Splits, CreateClassSplit(x) \/ DeleteClassSplit(x)
  PROVE  Kept
<1>0. Ready
  BY DEF CreateClassSplit, DeleteClassSplit, Commit, Ready
<1>1. CASE CreateClassSplit(x)
  <2>1. PICK c \in live.classes :
          /\ New(x)
          /\ LET split == [class |-> c, code |-> NextCode(live, c)]
             IN  Commit([live EXCEPT !.splits[x] = split], SplitCreated(rebuilt, x, split))
    BY <1>1 DEF CreateClassSplit
  <2> DEFINE split == [class |-> c, code |-> NextCode(live, c)]
  <2>2. c \in Classes /\ x \in Ids
    BY <1>0, ReadyFacts DEF States, Ids
  <2>3. Agrees([live EXCEPT !.splits[x] = split], SplitCreated(rebuilt, x, split))
    BY <1>0, <2>1, <2>2, IdsAreHandedOut, SplitCreatedAgrees
  <2> QED BY <2>1, <2>2, <2>3, IdsAreHandedOut, Committed
<1>2. CASE DeleteClassSplit(x)
  BY <1>0, <1>2, SplitDeletedAgrees, Committed DEF DeleteClassSplit, Keep
<1> QED BY <1>1, <1>2

LEMMA MoveToSplitStep ==
  ASSUME Inv, NEW e \in Entries, NEW x \in Splits \cup {None}, MoveEntryToSplit(e, x)
  PROVE  Kept
<1> DEFINE left  == live.entries[e].split
           moved == [live EXCEPT !.entries[e].split = x]
           fold  == SplitChanged(rebuilt, e, x)
           empty == left \notin {None, x} /\ ~SplitUsed(moved, left) /\ live.splits[left] # None
<1>1. /\ made' = made /\ e \in Present(live)
      /\ x # None => live.splits[x] # None
      /\ IF empty THEN Commit([moved EXCEPT !.splits[left] = None], SplitDeleted(fold, left))
                  ELSE Commit(moved, fold)
  BY DEF MoveEntryToSplit, Keep
<1>2. Ready
  BY <1>1 DEF Commit, Ready
<1>3. CASE empty
  <2>1. Agrees([moved EXCEPT !.splits[left] = None], SplitDeleted(fold, left))
    BY <1>1, <1>2, <1>3, EntryLeavesSplitAgrees
  <2> HIDE DEF left, moved, fold
  <2> QED BY <1>1, <1>3, <2>1, Committed
<1>4. CASE ~empty
  <2> DEFINE entry == [live.entries[e] EXCEPT !.split = x]
  <2>1. entry \in EntryOf /\ entry.split = x
    BY <1>1, <1>2, ReadyFacts DEF States, Present, EntryOf
  <2>2. moved = [live EXCEPT !.entries[e] = entry]
    BY <1>1, <1>2, ReadyFacts DEF States, Present
  <2>3. fold = [rebuilt EXCEPT !.entries[e] = entry]
    BY <1>1, <1>2, ReadyFacts DEF SplitChanged, OnEntry, Present, Synced
  <2>4. Agrees(moved, fold)
    <3> HIDE DEF entry, moved, fold
    <3> QED BY <1>1, <1>2, <2>1, <2>2, <2>3, EntryChangedAgrees
  <2>5. Commit(moved, fold)
    BY <1>1, <1>4
  <2> HIDE DEF moved, fold
  <2> QED BY <1>1, <2>4, <2>5, Committed
<1> QED BY <1>3, <1>4

LEMMA MediaSteps ==
  ASSUME Inv, NEW m \in Media, AttachMedia(m) \/ DeleteMedia(m) \/ SetMediaCover(m)
  PROVE  Kept
<1>0. Ready
  BY DEF AttachMedia, DeleteMedia, SetMediaCover, Commit, Ready
<1>1. CASE AttachMedia(m)
  <2>1. PICK of \in Present(live) \cup live.classes :
          /\ New(m)
          /\ LET record == [of |-> of, cover |-> FALSE]
             IN  Commit([live EXCEPT !.media[m] = record], MediaAttached(rebuilt, m, record))
    BY <1>1 DEF AttachMedia
  <2> DEFINE record == [of |-> of, cover |-> FALSE]
  <2>2. record \in MediaOf /\ m \in Ids
    BY <1>0, ReadyFacts DEF States, Present, MediaOf, Ids
  <2> HIDE DEF record
  <2>3. Agrees([live EXCEPT !.media[m] = record], MediaAttached(rebuilt, m, record))
    BY <1>0, <2>2, MediaAttachedAgrees
  <2>4. Commit([live EXCEPT !.media[m] = record], MediaAttached(rebuilt, m, record))
    BY <2>1 DEF record
  <2> QED BY <2>1, <2>2, <2>3, <2>4, IdsAreHandedOut, Committed
<1>2. CASE DeleteMedia(m)
  BY <1>0, <1>2, MediaDeletedAgrees, Committed DEF DeleteMedia, Keep
<1>3. CASE SetMediaCover(m)
  <2> DEFINE record == [live.media[m] EXCEPT !.cover = TRUE]
             media  == [n \in Media |->
                          IF n = m THEN record
                          ELSE IF live.media[n] # None /\ live.media[n].of = record.of
                               THEN [live.media[n] EXCEPT !.cover = FALSE] ELSE live.media[n]]
             next == [live EXCEPT !.media = media]
  <2>1. made' = made /\ live.media[m] # None /\ Commit(next, CoverSet(rebuilt, m, record))
    BY <1>3 DEF SetMediaCover, Keep
  <2>2. live.media = rebuilt.media /\ live.media \in [Media -> MediaOf \cup {None}]
    BY <1>0, ReadyFacts DEF Synced, States
  <2>3. record \in MediaOf
    BY <2>1, <2>2 DEF MediaOf
  <2>4. media \in [Media -> MediaOf \cup {None}]
    BY <2>2, <2>3 DEF MediaOf
  <2>5. CoverSet(rebuilt, m, record) = [rebuilt EXCEPT !.media = media]
    BY <2>1, <2>2 DEF CoverSet
  <2> HIDE DEF media
  <2>6. Agrees(next, [rebuilt EXCEPT !.media = media])
    BY <1>0, <2>4, MediaReplacedAgrees
  <2> HIDE DEF next
  <2> QED BY <2>1, <2>5, <2>6, Committed
<1> QED BY <1>1, <1>2, <1>3

LEMMA ScorecardStep ==
  ASSUME Inv, NEW k \in Cards, SubmitScorecard(k)
  PROVE  Kept
<1>1. PICK e \in Entries, n \in 0..MaxScore :
        /\ New(k)
        /\ LET card == [entry |-> e, score |-> n]
           IN  Commit([live EXCEPT !.cards[k] = card], ScorecardSubmitted(rebuilt, k, card))
  BY DEF SubmitScorecard
<1> DEFINE card == [entry |-> e, score |-> n]
<1>2. card \in CardOf /\ k \in Ids
  BY DEF CardOf, Ids
<1> HIDE DEF card
<1>3. Commit([live EXCEPT !.cards[k] = card], ScorecardSubmitted(rebuilt, k, card))
  BY <1>1 DEF card
<1>4. Ready
  BY <1>3 DEF Ready, Commit
<1>5. Agrees([live EXCEPT !.cards[k] = card], ScorecardSubmitted(rebuilt, k, card))
  BY <1>1, <1>2, <1>4, IdsAreHandedOut, ScorecardAgrees
<1> QED BY <1>1, <1>2, <1>3, <1>5, IdsAreHandedOut, Committed

LEMMA InviteSteps ==
  ASSUME Inv, NEW i \in Invites, CreateShowHelperInvite(i) \/ RevokeShowHelperInvite(i)
  PROVE  Kept
<1>0. Ready /\ i \in Ids
  BY DEF CreateShowHelperInvite, RevokeShowHelperInvite, Commit, Ready, Ids
<1>1. CASE CreateShowHelperInvite(i)
  <2> DEFINE invite == [revoked |-> FALSE, token |-> TRUE]
  <2>1. invite \in InviteOf /\ invite.revoked = FALSE
    BY DEF InviteOf
  <2>2. New(i) /\ Commit([live EXCEPT !.invites[i] = invite], InviteWritten(rebuilt, i, FALSE))
    BY <1>1 DEF CreateShowHelperInvite
  <2> HIDE DEF invite
  <2>3. Agrees([live EXCEPT !.invites[i] = invite], InviteWritten(rebuilt, i, FALSE))
    BY <1>0, <2>1, InviteAgrees
  <2> QED BY <1>0, <2>2, <2>3, IdsAreHandedOut, Committed
<1>2. CASE RevokeShowHelperInvite(i)
  <2> DEFINE invite == [live.invites[i] EXCEPT !.revoked = TRUE]
  <2>1. /\ made' = made /\ live.invites[i] # None
        /\ Commit([live EXCEPT !.invites[i].revoked = TRUE], InviteWritten(rebuilt, i, TRUE))
    BY <1>2 DEF RevokeShowHelperInvite, Keep
  <2>2. invite \in InviteOf /\ invite.revoked = TRUE
    BY <1>0, <2>1, ReadyFacts DEF States, InviteOf
  <2>3. [live EXCEPT !.invites[i].revoked = TRUE] = [live EXCEPT !.invites[i] = invite]
    BY <1>0, ReadyFacts DEF States
  <2> HIDE DEF invite
  <2>4. Agrees([live EXCEPT !.invites[i] = invite], InviteWritten(rebuilt, i, TRUE))
    BY <1>0, <2>2, InviteAgrees
  <2> QED BY <2>1, <2>3, <2>4, Committed
<1> QED BY <1>1, <1>2

LEMMA ScheduleStep ==
  ASSUME Inv, NEW show \in Shows, ResetShowSchedule(show)
  PROVE  Kept
<1> DEFINE classes == {c \in live.classes : ShowOf[c] = show}
           entries == {e \in Present(live) : live.entries[e].show = show}
           media   == {m \in Media : live.media[m] # None /\ live.media[m].of \in entries}
           cards   == {k \in Cards : live.cards[k] # None /\ live.cards[k].entry \in entries}
           next    == ScheduleReset(live, classes, entries, media, cards)
           fold    == ScheduleReset(rebuilt, classes, entries, media, cards)
<1>1. made' = made /\ Commit(next, fold)
  BY DEF ResetShowSchedule, Keep
<1>2. Ready
  BY <1>1 DEF Commit, Ready
<1>3. Agrees(next, fold)
  BY <1>2, ScheduleResetAgrees
<1> HIDE DEF next, fold
<1> QED BY <1>1, <1>3, Committed

\* The cache becomes a replay, with another badge perhaps.
LEMMA Refreshed ==
  ASSUME Inv, NEW s \in Snapshots, NEW badges \in SUBSET Badges,
         live' = [s EXCEPT !.badges = badges],
         rebuilt' = rebuilt, computed' = computed, prepared' \in BOOLEAN, phantom' = FALSE,
         made \subseteq made', made' \subseteq Ids,
         ranked' = ranked \cup InComputedClass(rebuilt)
  PROVE  Inv' /\ (~phantom => Gone(live) \subseteq Gone(live)')
<1>1. /\ live' \in States
      /\ live'.classes = rebuilt.classes /\ live'.entries = rebuilt.entries
      /\ live'.splits = rebuilt.splits /\ live'.cards = rebuilt.cards
      /\ live'.media = rebuilt.media /\ live'.invites = rebuilt.invites
      /\ \A e \in Entries :
           \/ live'.place[e] = rebuilt.place[e]
           \/ rebuilt.entries[e] # None /\ rebuilt.entries[e].class \in computed
  BY SnapshotType DEF States
<1>2. Sound(live')
  BY <1>1 DEF Sound, LettersDiffer, SplitsExist, Inv
<1>3. TypeOK'
  BY <1>1 DEF TypeOK, Inv, Ids, InComputedClass
<1>4. SameRecords(live', rebuilt') /\ SameMedia(live', rebuilt')
      /\ SamePlaces(live', rebuilt', ranked', computed')
  BY <1>1 DEF SameRecords, SameMedia, SamePlaces
<1>5. Synced'
  BY <1>1 DEF Synced
<1>6. Inv'
  BY <1>2, <1>3, <1>4, <1>5
     DEF Inv, Sound, LettersDiffer, SplitsExist, SameRecords, SameMedia, SamePlaces
<1>7. ~phantom => Gone(live) \subseteq Gone(live)'
  BY <1>1 DEF Inv, SameRecords, Gone
<1> QED BY <1>6, <1>7

LEMMA RefreshStep ==
  ASSUME Inv, Refresh
  PROVE  Inv' /\ (~phantom => Gone(live) \subseteq Gone(live)')
<1>1. PICK s \in Snapshots : live' = s
  BY DEF Refresh
<1>2. s.badges \in SUBSET Badges /\ s = [s EXCEPT !.badges = s.badges]
  BY SnapshotType DEF States
<1>3. made \subseteq Ids
  BY DEF Inv, TypeOK, Ids
<1> QED BY <1>1, <1>2, <1>3, Refreshed DEF Refresh

LEMMA RedeemStep ==
  ASSUME Inv, NEW i \in Invites, NEW b \in Badges, RedeemInvite(i, b)
  PROVE  Inv' /\ (~phantom => Gone(live) \subseteq Gone(live)')
<1>1. PICK s \in Snapshots : live' = [s EXCEPT !.badges = @ \cup {b}]
  BY DEF RedeemInvite
<1> DEFINE badges == s.badges \cup {b}
<1>2. badges \in SUBSET Badges /\ live' = [s EXCEPT !.badges = badges]
  BY <1>1, SnapshotType DEF States
<1>3. made \subseteq made' /\ made' \subseteq Ids
  BY DEF RedeemInvite, New, Inv, TypeOK, Ids
<1> HIDE DEF badges
<1> QED BY <1>2, <1>3, Refreshed DEF RedeemInvite

LEMMA Steps ==
  ASSUME Inv, [Next]_vars
  PROVE  Inv' /\ (~phantom => Gone(live) \subseteq Gone(live)')
<1>1. CASE \E c \in Classes : CreateClass(c) \/ ComputePlacements(c)
  BY <1>1, ClassSteps, RankingStep DEF Kept
<1>2. CASE \E e \in Entries :
             \/ CreateEntry(e) \/ UpdateEntry(e) \/ MoveEntry(e) \/ SetEntryField(e)
             \/ SetPlacement(e) \/ SetEntryResults(e) \/ DeleteEntry(e) \/ ArchiveEntry(e)
             \/ \E x \in Splits \cup {None} : MoveEntryToSplit(e, x)
  BY <1>2, EntrySteps, MoveToSplitStep DEF Kept
<1>3. CASE \E x \in Splits : CreateClassSplit(x) \/ DeleteClassSplit(x)
  BY <1>3, SplitSteps DEF Kept
<1>4. CASE \E m \in Media : AttachMedia(m) \/ DeleteMedia(m) \/ SetMediaCover(m)
  BY <1>4, MediaSteps DEF Kept
<1>5. CASE \E k \in Cards : SubmitScorecard(k)
  BY <1>5, ScorecardStep DEF Kept
<1>6. CASE \E i \in Invites : \/ CreateShowHelperInvite(i) \/ RevokeShowHelperInvite(i)
                              \/ \E b \in Badges : RedeemInvite(i, b)
  BY <1>6, InviteSteps, RedeemStep DEF Kept
<1>7. CASE \E show \in Shows : ResetShowSchedule(show)
  BY <1>7, ScheduleStep DEF Kept
<1>8. CASE Refresh
  BY <1>8, RefreshStep
<1>9. CASE UNCHANGED vars
  <2>1. Inv'
    BY <1>9 DEF vars, Inv, TypeOK, Sound, LettersDiffer, SplitsExist, Synced, SameRecords,
                SameMedia, SamePlaces
  <2> QED BY <1>9, <2>1 DEF vars, Gone
<1> QED BY <1>1, <1>2, <1>3, <1>4, <1>5, <1>6, <1>7, <1>8, <1>9 DEF Next

LEMMA InvAlways == Spec => []Inv
BY InitInv, Steps, PTL DEF Spec

-----------------------------------------------------------------------------
(* The theorems.                                                           *)

(* Cache and claims stay well typed.                                       *)
THEOREM Typed == Spec => []TypeOK
<1>1. Inv => TypeOK
  BY DEF Inv
<1> QED BY <1>1, InvAlways, PTL

(* The replay of every claim does what the mutation that appended it did:  *)
(* a rebuild gives back the classes, entries, splits, scorecards and       *)
(* revocations (replayFlowershowSnapshotFromClaims).                       *)
THEOREM RecordsSurvive == Spec => []RebuildKeepsRecords
<1>1. Inv => RebuildKeepsRecords
  BY DEF Inv, RebuildKeepsRecords
<1> QED BY <1>1, InvAlways, PTL

(* A rebuild gives back every picture and every cover of what is there     *)
(* (media.attached, media.deleted, media.cover_set).                       *)
THEOREM MediaSurvive == Spec => []RebuildKeepsMedia
<1>1. Inv => RebuildKeepsMedia
  BY IdsAssumption DEF Inv, RebuildKeepsMedia, SameMedia, Subject
<1> QED BY <1>1, InvAlways, PTL

(* A rebuild gives back every placement that no ranking has touched        *)
(* (setPlacement, setEntryResults, computePlacementsFromScores).           *)
THEOREM PlacementsSurvive == Spec => []RebuildKeepsPlacements
<1>1. Inv => RebuildKeepsPlacements
  BY DEF Inv, RebuildKeepsPlacements, SamePlaces, Present
<1> QED BY <1>1, InvAlways, PTL

(* Two splits of a class never get the same letter                         *)
(* (nextClassSplitCodeLocked).                                             *)
THEOREM LettersNameSplits == Spec => []SplitLettersDiffer
<1>1. Inv => SplitLettersDiffer
  BY DEF Inv, Sound, LettersDiffer, SplitLettersDiffer
<1> QED BY <1>1, InvAlways, PTL

(* A split is deleted only after its last entry has left it                *)
(* (deleteClassSplit, moveEntryToSplit).                                   *)
THEOREM SplitsOutliveEntries == Spec => []SplitOfEntryExists
<1>1. Inv => SplitOfEntryExists
  BY DEF Inv, Sound, SplitsExist, SplitOfEntryExists, Present
<1> QED BY <1>1, InvAlways, PTL

(* No claim and no rebuild revives what a recorded claim deleted.          *)
THEOREM DeletionsAreFinal == Spec => DeletedStaysDeleted
<1>1. Inv /\ [Next]_vars => [~phantom => Gone(live) \subseteq Gone(live)']_vars
  BY Steps
<1> QED BY <1>1, InvAlways, PTL DEF Spec, DeletedStaysDeleted

-----------------------------------------------------------------------------
(* The fold that adds up scorecards is a function of them: Total is a      *)
(* number.  The recursive function that the fold chooses exists because it *)
(* can be approximated from the small sets of scorecards up, and induction *)
(* on their number is the choice of a smallest counterexample.             *)

Sums(cards, S, f) ==
    f = [t \in SUBSET S |->
           IF t = {} THEN 0
           ELSE LET k == CHOOSE k \in t : TRUE IN cards[k].score + f[t \ {k}]]
SumOf(cards, S) == (CHOOSE f : Sums(cards, S, f))[S]

LEMMA TotalIsASum ==
  ASSUME NEW s, NEW e
  PROVE  Total(s, e) = SumOf(s.cards, CardsOf(s, e))
BY DEF Total, MapThenSumSet, MapThenFoldSet, Sums, SumOf

\* f adds up the sets of at most n scorecards correctly.
SumsUpTo(cards, S, n, f) ==
    /\ f \in [SUBSET S -> Nat]
    /\ \A t \in SUBSET S : Cardinality(t) <= n =>
         f[t] = IF t = {} THEN 0
                ELSE cards[CHOOSE k \in t : TRUE].score + f[t \ {CHOOSE k \in t : TRUE}]

LEMMA SmallSums ==
  ASSUME NEW cards, NEW S, IsFiniteSet(S), \A k \in S : cards[k].score \in Nat,
         NEW n \in Nat
  PROVE  \E f : SumsUpTo(cards, S, n, f)
<1> DEFINE B == {m \in Nat : ~ \E f : SumsUpTo(cards, S, m, f)}
<1>1. SUFFICES ASSUME B # {} PROVE FALSE
  OBVIOUS
<1>2. PICK m \in B : \A l \in B : m <= l
  BY <1>1, SmallestOf
<1>3. ASSUME NEW t \in SUBSET S
      PROVE  IsFiniteSet(t) /\ Cardinality(t) \in Nat
  BY FS_Subset, FS_CardinalityType
<1>4. ASSUME NEW t \in SUBSET S, t # {}
      PROVE  LET k == CHOOSE k \in t : TRUE
             IN  k \in t /\ t \ {k} \in SUBSET S /\ Cardinality(t \ {k}) = Cardinality(t) - 1
  <2> DEFINE k == CHOOSE k \in t : TRUE
  <2>1. k \in t
    BY <1>4
  <2> HIDE DEF k
  <2>2. Cardinality(t \ {k}) = Cardinality(t) - 1
    BY <2>1, <1>3, FS_RemoveElement
  <2> QED BY <2>1, <2>2 DEF k
<1>5. CASE m = 0
  <2> DEFINE f == [t \in SUBSET S |-> 0]
  <2>1. ASSUME NEW t \in SUBSET S, Cardinality(t) <= 0 PROVE t = {}
    BY <1>3, <2>1, FS_EmptySet
  <2>2. SumsUpTo(cards, S, 0, f)
    BY <2>1 DEF SumsUpTo
  <2> QED BY <2>2, <1>5
<1>6. CASE m # 0
  <2>1. PICK f : SumsUpTo(cards, S, m - 1, f)
    BY <1>2, <1>6
  <2> DEFINE K(t) == CHOOSE k \in t : TRUE
             g == [t \in SUBSET S |-> IF t = {} THEN 0 ELSE cards[K(t)].score + f[t \ {K(t)}]]
  <2>2. ASSUME NEW t \in SUBSET S, t # {}
        PROVE  K(t) \in S /\ t \ {K(t)} \in SUBSET S
               /\ Cardinality(t \ {K(t)}) = Cardinality(t) - 1
               /\ cards[K(t)].score \in Nat
    BY <1>4, <2>2
  <2> HIDE DEF K
  <2>3. g \in [SUBSET S -> Nat]
    BY <2>1, <2>2 DEF SumsUpTo
  <2>4. ASSUME NEW t \in SUBSET S, Cardinality(t) <= m - 1 PROVE g[t] = f[t]
    BY <2>1, <2>4 DEF SumsUpTo, K
  <2>5. ASSUME NEW t \in SUBSET S, Cardinality(t) <= m, t # {}
        PROVE  g[t] = cards[K(t)].score + g[t \ {K(t)}]
    <3>1. Cardinality(t \ {K(t)}) <= m - 1
      BY <2>2, <2>5, <1>3
    <3>2. g[t \ {K(t)}] = f[t \ {K(t)}]
      BY <3>1, <2>2, <2>4, <2>5
    <3> QED BY <3>2, <2>5
  <2>6. g[{}] = 0
    OBVIOUS
  <2>7. SumsUpTo(cards, S, m, g)
    <3> HIDE DEF g
    <3> QED BY <2>3, <2>5, <2>6 DEF SumsUpTo, K
  <2> QED BY <2>7
<1> QED BY <1>5, <1>6

LEMMA SumIsNat ==
  ASSUME NEW cards, NEW S, IsFiniteSet(S), \A k \in S : cards[k].score \in Nat
  PROVE  SumOf(cards, S) \in Nat
<1>1. Cardinality(S) \in Nat
  BY FS_CardinalityType
<1>2. PICK f : SumsUpTo(cards, S, Cardinality(S), f)
  BY <1>1, SmallSums
<1>3. \A t \in SUBSET S : Cardinality(t) <= Cardinality(S)
  BY FS_Subset
<1>4. Sums(cards, S, f)
  <2>1. f = [t \in SUBSET S |-> f[t]]
    BY <1>2 DEF SumsUpTo
  <2>2. \A t \in SUBSET S :
          f[t] = IF t = {} THEN 0
                 ELSE cards[CHOOSE k \in t : TRUE].score + f[t \ {CHOOSE k \in t : TRUE}]
    BY <1>2, <1>3 DEF SumsUpTo
  <2> QED BY <2>1, <2>2 DEF Sums
<1> DEFINE h == CHOOSE g : Sums(cards, S, g)
<1>5. Sums(cards, S, h)
  BY <1>4
<1> HIDE DEF h
<1> DEFINE B == {n \in Nat : \E t \in SUBSET S : Cardinality(t) = n /\ h[t] \notin Nat}
<1>6. ASSUME B # {} PROVE FALSE
  <2>1. PICK n \in B : \A m \in B : n <= m
    BY <1>6, SmallestOf
  <2>2. PICK t \in SUBSET S : Cardinality(t) = n /\ h[t] \notin Nat
    BY <2>1
  <2>3. t # {}
    <3>1. h[{}] = 0
      BY <1>5 DEF Sums
    <3> QED BY <3>1, <2>2
  <2> DEFINE k == CHOOSE k \in t : TRUE
  <2>4. k \in t
    BY <2>3
  <2>5. h[t] = cards[k].score + h[t \ {k}]
    BY <1>5, <2>3 DEF Sums
  <2> HIDE DEF k
  <2>6. IsFiniteSet(t) /\ Cardinality(t \ {k}) = n - 1 /\ n - 1 \in Nat
    <3>1. IsFiniteSet(t) /\ n \in Nat
      BY FS_Subset
    <3>2. IsFiniteSet(t \ {k}) /\ Cardinality(t \ {k}) = n - 1
      BY <3>1, <2>2, <2>4, FS_RemoveElement
    <3>3. Cardinality(t \ {k}) \in Nat
      BY <3>2, FS_CardinalityType
    <3> QED BY <3>1, <3>2, <3>3
  <2>7. h[t \ {k}] \in Nat
    BY <2>1, <2>6
  <2> QED BY <2>2, <2>4, <2>5, <2>7
<1>7. h[S] \in Nat
  BY <1>1, <1>6
<1> QED BY <1>7 DEF SumOf, h

LEMMA TotalType ==
  ASSUME NEW s \in States, NEW e
  PROVE  /\ Total(s, e) \in Nat
         /\ Cardinality(CardsOf(s, e)) \in Nat
         /\ Scored(s, e) => Cardinality(CardsOf(s, e)) > 0
<1>1. CardsOf(s, e) \in SUBSET Cards
  BY DEF CardsOf
<1>2. IsFiniteSet(CardsOf(s, e))
  BY <1>1, IdsAssumption, FS_Subset
<1>3. \A k \in CardsOf(s, e) : s.cards[k].score \in Nat
  BY IdsAssumption DEF CardsOf, States, CardOf
<1>4. Cardinality(CardsOf(s, e)) \in Nat
      /\ (Cardinality(CardsOf(s, e)) = 0 <=> CardsOf(s, e) = {})
  BY <1>2, FS_CardinalityType, FS_EmptySet
<1> QED BY <1>2, <1>3, <1>4, SumIsNat, TotalIsASum DEF Scored

-----------------------------------------------------------------------------
(* Averages, compared as products, and ties broken by any order rank the   *)
(* entries of a group linearly.                                            *)

LEMMA AveragesChain ==
  ASSUME NEW a \in Nat, NEW b \in Nat, NEW c \in Nat,
         NEW l \in Nat, NEW m \in Nat, NEW n \in Nat, l > 0, m > 0, n > 0,
         a * m >= b * l, b * n >= c * m
  PROVE  a * n >= c * l /\ (a * n = c * l => a * m = b * l /\ b * n = c * m)
<1> DEFINE am == a * m
           bl == b * l
           bn == b * n
           cm == c * m
           an == a * n
           cl == c * l
<1>0. am \in Nat /\ bl \in Nat /\ bn \in Nat /\ cm \in Nat /\ an \in Nat /\ cl \in Nat
  OBVIOUS
<1>1. an * m = am * n /\ cl * m = cm * l /\ bl * n = bn * l
  OBVIOUS
<1>2. am >= bl /\ bn >= cm
  OBVIOUS
<1> HIDE DEF am, bl, bn, cm, an, cl
<1>3. am * n >= bl * n /\ (am > bl => am * n > bl * n)
  BY <1>0, <1>2
<1>4. bn * l >= cm * l /\ (bn > cm => bn * l > cm * l)
  BY <1>0, <1>2
<1>5. an * m >= cl * m /\ (am > bl \/ bn > cm => an * m > cl * m)
  <2>1. am * n \in Nat /\ bl * n \in Nat /\ bn * l \in Nat /\ cm * l \in Nat
    BY <1>0
  <2> QED BY <2>1, <1>1, <1>3, <1>4
<1>6. an >= cl
  <2> SUFFICES ASSUME an < cl PROVE FALSE
    BY <1>0
  <2>1. an * m < cl * m
    BY <1>0
  <2>2. an * m \in Nat /\ cl * m \in Nat
    BY <1>0
  <2> QED BY <2>1, <2>2, <1>5
<1>7. an = cl => am = bl /\ bn = cm
  <2> SUFFICES ASSUME an = cl PROVE ~ (am > bl \/ bn > cm)
    BY <1>0, <1>2
  <2>1. an * m = cl * m /\ an * m \in Nat
    BY <1>0
  <2> QED BY <2>1, <1>5
<1> QED BY <1>6, <1>7 DEF am, bl, bn, cm, an, cl

LEMMA AheadIsLinear ==
  ASSUME NEW s \in States, NEW o \in Orders, NEW d \in Entries, NEW e \in Entries,
         NEW f \in Entries, Scored(s, d), Scored(s, e), Scored(s, f)
  PROVE  /\ ~ Ahead(s, o, d, d)
         /\ d # e => Ahead(s, o, d, e) \/ Ahead(s, o, e, d)
         /\ Ahead(s, o, d, e) /\ Ahead(s, o, e, f) => Ahead(s, o, d, f)
<1> DEFINE T(x) == Total(s, x)
           N(x) == Cardinality(CardsOf(s, x))
<1>1. \A x \in {d, e, f} : T(x) \in Nat /\ N(x) \in Nat /\ N(x) > 0
  BY TotalType
<1>2. \A x \in {d, e, f} : o[x] \in Nat
  BY IdsAssumption, FS_CardinalityType DEF Orders
<1>3. \A x, y \in {d, e, f} : o[x] = o[y] => x = y
  BY DEF Orders
<1>4. \A x, y \in {d, e, f} : T(x) * N(y) \in Nat
  BY <1>1
<1>5. \A x, y \in {d, e, f} :
        Ahead(s, o, x, y) <=> \/ T(x) * N(y) > T(y) * N(x)
                              \/ T(x) * N(y) = T(y) * N(x) /\ o[x] < o[y]
  BY DEF Ahead
<1>6. T(d) * N(e) >= T(e) * N(d) /\ T(e) * N(f) >= T(f) * N(e)
        => /\ T(d) * N(f) >= T(f) * N(d)
           /\ T(d) * N(f) = T(f) * N(d) =>
                T(d) * N(e) = T(e) * N(d) /\ T(e) * N(f) = T(f) * N(e)
  BY <1>1, AveragesChain
<1> HIDE DEF T, N
<1>7. ~ Ahead(s, o, d, d)
  BY <1>2, <1>4, <1>5
<1>8. d # e => Ahead(s, o, d, e) \/ Ahead(s, o, e, d)
  BY <1>2, <1>3, <1>4, <1>5
<1>9. ASSUME Ahead(s, o, d, e), Ahead(s, o, e, f) PROVE Ahead(s, o, d, f)
  <2> DEFINE de == T(d) * N(e)
             ed == T(e) * N(d)
             ef == T(e) * N(f)
             fe == T(f) * N(e)
             df == T(d) * N(f)
             fd == T(f) * N(d)
  <2>1. de \in Nat /\ ed \in Nat /\ ef \in Nat /\ fe \in Nat /\ df \in Nat /\ fd \in Nat
    BY <1>4
  <2>2. (de > ed \/ (de = ed /\ o[d] < o[e])) /\ (ef > fe \/ (ef = fe /\ o[e] < o[f]))
    BY <1>5, <1>9
  <2>3. de >= ed /\ ef >= fe => df >= fd /\ (df = fd => de = ed /\ ef = fe)
    BY <1>6
  <2>4. Ahead(s, o, d, f) <=> df > fd \/ (df = fd /\ o[d] < o[f])
    BY <1>5
  <2> HIDE DEF de, ed, ef, fe, df, fd
  <2> QED BY <1>2, <2>1, <2>2, <2>3, <2>4
<1> QED BY <1>7, <1>8, <1>9

\* Ranks go from 1 to the size of the group, each once, and whoever is ahead
\* has the lower one.
LEMMA RanksAreAnOrder ==
  ASSUME NEW s \in States, NEW o \in Orders, NEW group \in SUBSET Entries,
         \A e \in group : Scored(s, e)
  PROVE  /\ \A e \in group : RankIn(s, o, group, e) \in 1..Cardinality(group)
         /\ \A d, e \in group : Ahead(s, o, d, e) =>
              RankIn(s, o, group, d) < RankIn(s, o, group, e)
         /\ \A d, e \in group : d # e =>
              RankIn(s, o, group, d) # RankIn(s, o, group, e)
         /\ \A p \in 1..Cardinality(group) : \E e \in group : RankIn(s, o, group, e) = p
<1> DEFINE B(e) == {d \in group : Ahead(s, o, d, e)}
           R(e) == RankIn(s, o, group, e)
           n == Cardinality(group)
<1>1. IsFiniteSet(group) /\ n \in Nat
  BY IdsAssumption, FS_Subset, FS_CardinalityType
<1>2. ASSUME NEW e \in group
      PROVE  IsFiniteSet(B(e)) /\ Cardinality(B(e)) \in Nat /\ R(e) = 1 + Cardinality(B(e))
  <2>1. B(e) \in SUBSET group
    OBVIOUS
  <2>2. R(e) = 1 + Cardinality(B(e))
    BY DEF RankIn
  <2> HIDE DEF B
  <2> QED BY <2>1, <2>2, <1>1, FS_Subset, FS_CardinalityType
<1>3. ASSUME NEW e \in group PROVE R(e) \in 1..n
  <2>1. e \notin B(e)
    BY AheadIsLinear
  <2>2. B(e) \in SUBSET (group \ {e})
    BY <2>1
  <2> HIDE DEF B
  <2>3. Cardinality(group \ {e}) = n - 1 /\ IsFiniteSet(group \ {e})
    BY <1>1, FS_RemoveElement
  <2>4. Cardinality(B(e)) <= n - 1
    BY <2>2, <2>3, FS_Subset
  <2> HIDE DEF R, n
  <2> QED BY <2>4, <1>1, <1>2
<1>4. ASSUME NEW d \in group, NEW e \in group, Ahead(s, o, d, e) PROVE R(d) < R(e)
  <2>1. B(d) \in SUBSET B(e)
    BY <1>4, AheadIsLinear
  <2>2. d \in B(e) /\ d \notin B(d)
    BY <1>4, AheadIsLinear
  <2> HIDE DEF B
  <2>3. Cardinality(B(d)) <= Cardinality(B(e)) /\ Cardinality(B(d)) # Cardinality(B(e))
    BY <2>1, <2>2, <1>2, FS_Subset
  <2> HIDE DEF R
  <2> QED BY <2>3, <1>2
<1>5. ASSUME NEW d \in group, NEW e \in group, d # e PROVE R(d) # R(e)
  <2>1. Ahead(s, o, d, e) \/ Ahead(s, o, e, d)
    BY <1>5, AheadIsLinear
  <2>2. R(d) < R(e) \/ R(e) < R(d)
    BY <2>1, <1>4
  <2> HIDE DEF R
  <2>3. R(d) \in Nat /\ R(e) \in Nat
    BY <1>1, <1>3
  <2> QED BY <2>2, <2>3
<1>6. \A p \in 1..n : \E e \in group : R(e) = p
  <2> HIDE DEF R, n
  <2> DEFINE r == [e \in group |-> R(e)]
  <2>1. r \in Injection(group, 1..n)
    BY <1>3, <1>5 DEF Injection, IsInjective
  <2>2. IsFiniteSet(1..n) /\ Cardinality(1..n) = n
    BY <1>1, FS_Interval
  <2>3. r \in Surjection(group, 1..n)
    BY <2>1, <2>2, FS_Injection DEF n
  <2> QED BY <2>3 DEF Surjection
<1> QED BY <1>3, <1>4, <1>5, <1>6

-----------------------------------------------------------------------------
(* Who is ranked among the first of a group has been awarded its place.    *)
LEMMA RanksAreFair ==
  ASSUME NEW s \in States, NEW o \in Orders, NEW group \in SUBSET Entries,
         \A e \in group : Scored(s, e),
         NEW winners, winners = {e \in group : RankIn(s, o, group, e) <= Top},
         NEW place, \A e \in winners : place[e] = RankIn(s, o, group, e)
  PROVE  FairAward(s, place, group, winners)
<1> DEFINE R(e) == RankIn(s, o, group, e)
           n == Cardinality(group)
<1>1. n \in Nat
  BY IdsAssumption, FS_Subset, FS_CardinalityType
<1>2. /\ \A e \in group : R(e) \in 1..n
      /\ \A d, e \in group : Ahead(s, o, d, e) => R(d) < R(e)
      /\ \A d, e \in group : d # e => R(d) # R(e)
      /\ \A p \in 1..n : \E e \in group : R(e) = p
  BY RanksAreAnOrder
<1>3. \A d, e \in group : BetterScored(s, d, e) => Ahead(s, o, d, e)
  BY DEF BetterScored, Ahead
<1>4. winners = {e \in group : R(e) <= Top} /\ \A e \in winners : place[e] = R(e)
  OBVIOUS
<1> HIDE DEF R, n
<1>5. \A e \in winners : place[e] \in 1..Top
  BY <1>1, <1>2, <1>4 DEF Top
<1>6. ASSUME NEW p \in 1..Top, p <= n PROVE \E e \in winners : place[e] = p
  <2>1. PICK e \in group : R(e) = p
    BY <1>1, <1>2, <1>6 DEF Top
  <2> QED BY <2>1, <1>4 DEF Top
<1>7. ASSUME NEW e \in winners, NEW d \in winners \ {e} PROVE place[d] # place[e]
  BY <1>2, <1>4
<1>8. ASSUME NEW e \in winners, NEW d \in group, BetterScored(s, d, e)
      PROVE  d \in winners /\ place[d] < place[e]
  <2>1. R(d) < R(e) /\ R(d) \in Nat /\ R(e) \in Nat /\ R(e) <= Top
    BY <1>1, <1>2, <1>3, <1>4, <1>8
  <2> QED BY <2>1, <1>4 DEF Top
<1> QED BY <1>4, <1>5, <1>6, <1>7, <1>8 DEF FairAward, n

LEMMA ComputingIsFair ==
  ASSUME Inv, NEW c \in Classes, ComputePlacements(c)
  PROVE  /\ \A e \in InClass(live, c) :
              LET group == Competitors(live, c, e)
              IN  \E winners \in SUBSET group :
                    /\ FairAward(live, live'.place, group, winners)
                    /\ \A d \in group \ winners : live'.place[d] = live.place[d]
         /\ \A e \in Present(live) :
              e \notin Competitors(live, c, e) => live'.place[e] = live.place[e]
<1>1. live \in States
  BY DEF Inv, TypeOK
<1>2. PICK o \in Orders :
        live' = [live EXCEPT !.place = [e \in Entries |->
                   IF live.entries[e] # None THEN ComputedPlace(live, o, c, e)
                   ELSE live.place[e]]]
  BY DEF ComputePlacements
<1>3. \A e \in Present(live) : live'.place[e] = ComputedPlace(live, o, c, e)
  BY <1>1, <1>2 DEF Present, States
<1>4. \A e \in Present(live) :
        e \notin Competitors(live, c, e) => live'.place[e] = live.place[e]
  BY <1>3 DEF ComputedPlace
<1>5. ASSUME NEW e \in InClass(live, c)
      PROVE  LET group == Competitors(live, c, e)
             IN  \E winners \in SUBSET group :
                   /\ FairAward(live, live'.place, group, winners)
                   /\ \A d \in group \ winners : live'.place[d] = live.place[d]
  <2> DEFINE group   == Competitors(live, c, e)
             winners == {d \in group : RankIn(live, o, group, d) <= Top}
  <2>1. group \in SUBSET Entries /\ \A d \in group : Scored(live, d)
    BY DEF Competitors, InClass, Present
  <2>2. \A d \in group : d \in Present(live) /\ Competitors(live, c, d) = group
    BY DEF Competitors, InClass
  <2>3. \A d \in group : live'.place[d] = IF RankIn(live, o, group, d) <= Top
                                          THEN RankIn(live, o, group, d) ELSE live.place[d]
    BY <1>3, <2>2 DEF ComputedPlace
  <2> HIDE DEF group
  <2>4. FairAward(live, live'.place, group, winners)
    BY <1>1, <2>1, <2>3, RanksAreFair
  <2>5. \A d \in group \ winners : live'.place[d] = live.place[d]
    BY <2>3
  <2>6. winners \in SUBSET group
    OBVIOUS
  <2> HIDE DEF winners
  <2> QED BY <2>4, <2>5, <2>6 DEF group
<1> QED BY <1>4, <1>5

\* A replay ranks the scored entries of a class.
LEMMA ReplayedIsRank ==
  ASSUME NEW f, NEW o, NEW c, NEW e \in InClass(f, c)
  PROVE  LET group == {d \in InClass(f, c) : Scored(f, d)}
         IN  ReplayedPlace(f, o, e) = IF e \in group /\ RankIn(f, o, group, e) <= Top
                                      THEN RankIn(f, o, group, e) ELSE 0
<1> DEFINE group == {d \in InClass(f, c) : Scored(f, d)}
<1>1. f.entries[e].class = c
  BY DEF InClass
<1>2. Scored(f, e) <=> e \in group
  OBVIOUS
<1>3. ReplayedPlace(f, o, e) = IF Scored(f, e) /\ RankIn(f, o, group, e) <= Top
                               THEN RankIn(f, o, group, e) ELSE 0
  BY <1>1 DEF ReplayedPlace
<1> QED BY <1>2, <1>3

LEMMA RefreshingIsFair ==
  ASSUME Inv, NEW s \in Snapshots, NEW c \in computed
  PROVE  FairAward(s, s.place, {e \in InClass(s, c) : Scored(s, e)},
                   {e \in InClass(s, c) : s.place[e] # 0})
<1>1. PICK o \in Orders : s = Recomputed(o)
  BY DEF Snapshots
<1>2. s \in States /\ s.entries = rebuilt.entries /\ s.cards = rebuilt.cards
  BY SnapshotType
<1>3. rebuilt \in States
  BY DEF Inv, TypeOK
<1>4. InClass(s, c) = InClass(rebuilt, c) /\ \A e : CardsOf(s, e) = CardsOf(rebuilt, e)
  BY <1>2 DEF InClass, Present, CardsOf
<1>5. \A e : Total(s, e) = Total(rebuilt, e) /\ (Scored(s, e) <=> Scored(rebuilt, e))
  BY <1>2, <1>4, TotalIsASum DEF Scored
<1> DEFINE group   == {e \in InClass(s, c) : Scored(s, e)}
           winners == {e \in InClass(s, c) : s.place[e] # 0}
<1>6. group = {e \in InClass(rebuilt, c) : Scored(rebuilt, e)}
  BY <1>4, <1>5
<1>7. group \in SUBSET Entries /\ \A e \in group : Scored(s, e)
  BY DEF InClass, Present
<1>8. ASSUME NEW G, NEW e PROVE RankIn(s, o, G, e) = RankIn(rebuilt, o, G, e)
  <2>1. \A d : Ahead(s, o, d, e) <=> Ahead(rebuilt, o, d, e)
    BY <1>4, <1>5 DEF Ahead
  <2>2. {d \in G : Ahead(s, o, d, e)} = {d \in G : Ahead(rebuilt, o, d, e)}
    BY <2>1
  <2> QED BY <2>2 DEF RankIn
<1>9. ASSUME NEW e \in InClass(s, c)
      PROVE  s.place[e] = IF e \in group /\ RankIn(s, o, group, e) <= Top
                          THEN RankIn(s, o, group, e) ELSE 0
  <2>1. e \in Entries /\ rebuilt.entries[e] # None /\ rebuilt.entries[e].class = c
    BY <1>4 DEF InClass, Present
  <2>2. s.place[e] = ReplayedPlace(rebuilt, o, e)
    BY <1>1, <1>3, <2>1 DEF Recomputed, States
  <2>3. ReplayedPlace(rebuilt, o, e) = IF e \in group /\ RankIn(rebuilt, o, group, e) <= Top
                                       THEN RankIn(rebuilt, o, group, e) ELSE 0
    BY <1>4, <1>6, ReplayedIsRank
  <2> HIDE DEF group
  <2> QED BY <2>2, <2>3, <1>8
<1>10. \A e \in group : e \in InClass(s, c) /\ RankIn(s, o, group, e) \in Nat \ {0}
  <2>1. \A e \in group : e \in InClass(s, c)
    OBVIOUS
  <2> HIDE DEF group
  <2>2. Cardinality(group) \in Nat
    BY <1>7, IdsAssumption, FS_Subset, FS_CardinalityType
  <2> QED BY <1>2, <1>7, <2>1, <2>2, RanksAreAnOrder
<1> HIDE DEF group
<1>11. winners = {e \in group : RankIn(s, o, group, e) <= Top}
  BY <1>9, <1>10
<1>12. \A e \in winners : s.place[e] = RankIn(s, o, group, e)
  BY <1>9, <1>10
<1> HIDE DEF winners
<1>13. FairAward(s, s.place, group, winners)
  BY <1>2, <1>7, <1>11, <1>12, RanksAreFair
<1> QED BY <1>13 DEF group, winners

LEMMA PreparedByRefresh ==
  ASSUME [Next]_vars, prepared'
  PROVE  Refresh \/ UNCHANGED vars
BY DEF Next, CreateClass, ComputePlacements, CreateEntry, UpdateEntry, MoveEntry, SetEntryField,
       SetPlacement, SetEntryResults, DeleteEntry, ArchiveEntry, MoveEntryToSplit,
       CreateClassSplit, DeleteClassSplit, AttachMedia, DeleteMedia, SetMediaCover,
       SubmitScorecard, CreateShowHelperInvite, RevokeShowHelperInvite, RedeemInvite,
       ResetShowSchedule, Commit

(* Computing placements gives each place of a group's podium to one entry  *)
(* and none to an entry before one of a better average, for any number of  *)
(* entries, splits and scorecards and any order of ties                    *)
(* (computePlacementsFromScores).                                          *)
THEOREM ComputationsAreFair == Spec => ComputedPlacesAreFair
<1>1. Inv /\ [Next]_vars =>
        [\A c \in Classes : ComputePlacements(c) =>
           /\ \A e \in InClass(live, c) :
                LET group == Competitors(live, c, e)
                IN  \E winners \in SUBSET group :
                      /\ FairAward(live, live'.place, group, winners)
                      /\ \A d \in group \ winners : live'.place[d] = live.place[d]
           /\ \A e \in Present(live) :
                e \notin Competitors(live, c, e) => live'.place[e] = live.place[e]]_vars
  BY ComputingIsFair
<1> QED BY <1>1, InvAlways, PTL DEF Spec, ComputedPlacesAreFair

(* A refreshed cache shows a fair award in every class that was ever       *)
(* ranked, whatever has happened to its entries and scorecards since       *)
(* (recomputeEntryPlacementsFromScoresNoClaim).                            *)
THEOREM RefreshesAreFair == Spec => []RefreshedPlacesAreFair
<1>1. Init => RefreshedPlacesAreFair
  BY DEF Init, RefreshedPlacesAreFair
<1>2. Inv /\ RefreshedPlacesAreFair /\ [Next]_vars => RefreshedPlacesAreFair'
  <2> SUFFICES ASSUME Inv, RefreshedPlacesAreFair, [Next]_vars, prepared'
               PROVE  \A c \in computed' :
                        FairAward(live', live'.place,
                                  {e \in InClass(live', c) : Scored(live', e)},
                                  {e \in InClass(live', c) : live'.place[e] # 0})
    BY DEF RefreshedPlacesAreFair
  <2>1. CASE Refresh
    BY <2>1, RefreshingIsFair DEF Refresh
  <2>2. CASE UNCHANGED vars
    BY <2>2 DEF vars, RefreshedPlacesAreFair
  <2> QED BY <2>1, <2>2, PreparedByRefresh
<1> QED BY <1>1, <1>2, InvAlways, PTL DEF Spec

(* A rebuild keeps the placements that only requests have set and awards   *)
(* those of a class that was ranked fairly (recomputeEntryPlacements-      *)
(* FromScoresNoClaim at the end of the replay).                            *)
THEOREM PlacementsRebuilt == Spec => []PlacementsSurviveRebuilds
BY PlacementsSurvive, RefreshesAreFair, PTL DEF PlacementsSurviveRebuilds

-----------------------------------------------------------------------------
(* The order of ties decides between ties only: if d has a better average  *)
(* than e, then all that are ahead of d in one order are ahead of e in any *)
(* other, and so is d, so that e has a later rank.                         *)

LEMMA RanksDifferByTies ==
  ASSUME NEW s \in States, NEW o \in Orders, NEW p \in Orders, NEW group \in SUBSET Entries,
         \A e \in group : Scored(s, e), NEW d \in group, NEW e \in group,
         RankIn(s, o, group, d) = RankIn(s, p, group, e)
  PROVE  ~ BetterScored(s, d, e)
<1> SUFFICES ASSUME BetterScored(s, d, e) PROVE FALSE
  OBVIOUS
<1> DEFINE A == {x \in group : Ahead(s, o, x, d)}
           B == {x \in group : Ahead(s, p, x, e)}
<1>1. IsFiniteSet(group)
  BY IdsAssumption, FS_Subset
<1>2. IsFiniteSet(A) /\ IsFiniteSet(B) /\ Cardinality(A) \in Nat /\ Cardinality(B) \in Nat
  <2>1. A \in SUBSET group /\ B \in SUBSET group
    OBVIOUS
  <2> HIDE DEF A, B
  <2> QED BY <1>1, <2>1, FS_Subset, FS_CardinalityType
<1>3. Cardinality(A) = Cardinality(B)
  <2>1. 1 + Cardinality(A) = 1 + Cardinality(B)
    BY DEF RankIn
  <2> HIDE DEF A, B
  <2> QED BY <1>2, <2>1
<1>4. d \notin A
  BY AheadIsLinear
<1>5. d \in B
  BY DEF BetterScored, Ahead
<1>6. ASSUME NEW x \in A PROVE x \in B
  <2> DEFINE T(y) == Total(s, y)
             N(y) == Cardinality(CardsOf(s, y))
  <2>1. x \in group /\ Scored(s, x) /\ Scored(s, d) /\ Scored(s, e)
    OBVIOUS
  <2>2. \A y \in {x, d, e} : T(y) \in Nat /\ N(y) \in Nat /\ N(y) > 0
    BY <2>1, TotalType
  <2>3. \A y, z \in {x, d, e} : T(y) * N(z) \in Nat
    BY <2>2
  <2>4. T(x) * N(d) >= T(d) * N(x)
    <3>1. T(x) * N(d) > T(d) * N(x) \/ T(x) * N(d) = T(d) * N(x)
      BY DEF Ahead
    <3> HIDE DEF T, N
    <3> QED BY <2>3, <3>1
  <2>5. T(d) * N(e) > T(e) * N(d)
    BY DEF BetterScored
  <2> HIDE DEF T, N
  <2>6. T(d) * N(e) >= T(e) * N(d) /\ T(d) * N(e) # T(e) * N(d)
    BY <2>3, <2>5
  <2>7. T(x) * N(e) >= T(e) * N(x) /\ T(x) * N(e) # T(e) * N(x)
    BY <2>2, <2>4, <2>6, AveragesChain
  <2>8. T(x) * N(e) > T(e) * N(x)
    BY <2>3, <2>7
  <2> QED BY <2>1, <2>8 DEF Ahead, T, N
<1> HIDE DEF A, B
<1>7. A \in SUBSET B /\ A # B
  BY <1>4, <1>5, <1>6
<1> QED BY <1>2, <1>3, <1>7, FS_Subset

LEMMA ReplayedRanks ==
  ASSUME Inv, NEW s \in Snapshots, NEW c \in computed
  PROVE  \E o \in Orders : \A e \in InClass(rebuilt, c) :
           s.place[e] = ReplayedPlace(rebuilt, o, e)
<1>1. PICK o \in Orders : s = Recomputed(o)
  BY DEF Snapshots
<1>2. rebuilt \in States
  BY DEF Inv, TypeOK
<1>3. \A e \in InClass(rebuilt, c) : s.place[e] = ReplayedPlace(rebuilt, o, e)
  BY <1>1, <1>2 DEF Recomputed, States, InClass, Present
<1> QED BY <1>3

LEMMA ReplaysAgree == ASSUME Inv PROVE ReplaysDifferByTies
<1> SUFFICES ASSUME NEW s \in Snapshots, NEW t \in Snapshots, NEW c \in computed,
                    NEW d \in InClass(rebuilt, c), NEW e \in InClass(rebuilt, c),
                    s.place[d] # 0, s.place[d] = t.place[e]
             PROVE  Tied(rebuilt, d, e)
  BY DEF ReplaysDifferByTies
<1> DEFINE group == {x \in InClass(rebuilt, c) : Scored(rebuilt, x)}
<1>1. group \in SUBSET Entries /\ \A x \in group : Scored(rebuilt, x)
  BY DEF InClass, Present
<1>2. PICK o \in Orders : s.place[d] = IF d \in group /\ RankIn(rebuilt, o, group, d) <= Top
                                       THEN RankIn(rebuilt, o, group, d) ELSE 0
  <2>1. PICK q \in Orders : \A y \in InClass(rebuilt, c) :
          s.place[y] = ReplayedPlace(rebuilt, q, y)
    BY ReplayedRanks
  <2>2. s.place[d] = ReplayedPlace(rebuilt, q, d)
    BY <2>1
  <2>3. ReplayedPlace(rebuilt, q, d) =
          IF d \in group /\ RankIn(rebuilt, q, group, d) <= Top
          THEN RankIn(rebuilt, q, group, d) ELSE 0
    BY ReplayedIsRank
  <2> HIDE DEF group
  <2> QED BY <2>2, <2>3
<1>3. PICK p \in Orders : t.place[e] = IF e \in group /\ RankIn(rebuilt, p, group, e) <= Top
                                       THEN RankIn(rebuilt, p, group, e) ELSE 0
  <2>1. PICK q \in Orders : \A y \in InClass(rebuilt, c) :
          t.place[y] = ReplayedPlace(rebuilt, q, y)
    BY ReplayedRanks
  <2>2. t.place[e] = ReplayedPlace(rebuilt, q, e)
    BY <2>1
  <2>3. ReplayedPlace(rebuilt, q, e) =
          IF e \in group /\ RankIn(rebuilt, q, group, e) <= Top
          THEN RankIn(rebuilt, q, group, e) ELSE 0
    BY ReplayedIsRank
  <2> HIDE DEF group
  <2> QED BY <2>2, <2>3
<1>4. rebuilt \in States
  BY DEF Inv, TypeOK
<1> HIDE DEF group
<1>5. d \in group /\ e \in group /\ RankIn(rebuilt, o, group, d) = RankIn(rebuilt, p, group, e)
  BY <1>2, <1>3
<1> QED BY <1>1, <1>4, <1>5, RanksDifferByTies DEF Tied

LEMMA AwardsAgree ==
  ASSUME Inv, Inv', NEW c \in computed', ComputePlacements(c), Undivided(live, c),
         NEW s \in Snapshots', NEW d \in InClass(live, c), s.place[d] # 0
  PROVE  \E e \in InClass(live, c) : live'.place[e] = s.place[d] /\ Tied(live, d, e)
<1> DEFINE G(r) == {x \in InClass(r, c) : Scored(r, x)}
           group == G(live)
<1>1. live \in States /\ live.entries = rebuilt.entries /\ live.cards = rebuilt.cards
      /\ rebuilt' = rebuilt
  BY DEF ComputePlacements, Inv, TypeOK, Synced
<1>2. InClass(live, c) = InClass(rebuilt, c) /\ \A e : CardsOf(live, e) = CardsOf(rebuilt, e)
  BY <1>1 DEF InClass, Present, CardsOf
<1>3. \A e : Total(live, e) = Total(rebuilt, e) /\ (Scored(live, e) <=> Scored(rebuilt, e))
  BY <1>1, <1>2, TotalIsASum DEF Scored
<1>4. G(rebuilt) = group
  BY <1>2, <1>3
<1>5. group \in SUBSET Entries /\ \A x \in group : Scored(live, x)
  BY DEF InClass, Present
<1>6. PICK p \in Orders : s.place[d] = IF d \in group /\ RankIn(live, p, group, d) <= Top
                                       THEN RankIn(live, p, group, d) ELSE 0
  <2>1. PICK p \in Orders :
          s.place[d] = IF d \in G(rebuilt') /\ RankIn(rebuilt', p, G(rebuilt'), d) <= Top
                       THEN RankIn(rebuilt', p, G(rebuilt'), d) ELSE 0
    <3>1. rebuilt' \in States /\ d \in InClass(rebuilt', c)
      BY <1>1, <1>2 DEF Inv, TypeOK
    <3>2. PICK p \in Orders :
            s = [rebuilt' EXCEPT !.place = [e \in Entries |->
                   IF rebuilt'.entries[e] # None /\ rebuilt'.entries[e].class \in computed'
                   THEN ReplayedPlace(rebuilt', p, e) ELSE rebuilt'.place[e]]]
      BY DEF Snapshots, Recomputed
    <3>3. s.place[d] = ReplayedPlace(rebuilt', p, d)
      BY <3>1, <3>2 DEF States, InClass, Present
    <3> QED BY <3>1, <3>3, ReplayedIsRank
  <2>2. RankIn(rebuilt, p, group, d) = RankIn(live, p, group, d)
    <3>1. \A x : Ahead(live, p, x, d) <=> Ahead(rebuilt, p, x, d)
      BY <1>2, <1>3 DEF Ahead
    <3>2. {x \in group : Ahead(live, p, x, d)} = {x \in group : Ahead(rebuilt, p, x, d)}
      BY <3>1
    <3> QED BY <3>2 DEF RankIn
  <2> QED BY <1>1, <1>4, <2>1, <2>2
<1>7. PICK o \in Orders : \A e \in Present(live) : live'.place[e] = ComputedPlace(live, o, c, e)
  <2>1. PICK o \in Orders :
          live' = [live EXCEPT !.place = [e \in Entries |->
                     IF live.entries[e] # None THEN ComputedPlace(live, o, c, e)
                     ELSE live.place[e]]]
    BY DEF ComputePlacements
  <2>2. \A e \in Present(live) : live'.place[e] = ComputedPlace(live, o, c, e)
    BY <1>1, <2>1 DEF Present, States
  <2> QED BY <2>2
<1>8. \A e \in group : e \in Present(live) /\ Competitors(live, c, e) = group
  BY DEF Undivided, Competitors, InClass
<1>9. \A e \in group : e \in InClass(live, c)
  OBVIOUS
<1> HIDE DEF group, G
<1>10. d \in group /\ s.place[d] = RankIn(live, p, group, d) /\ RankIn(live, p, group, d) <= Top
  BY <1>6
<1>11. PICK e \in group : RankIn(live, o, group, e) = RankIn(live, p, group, d)
  <2>1. RankIn(live, p, group, d) \in 1..Cardinality(group)
    BY <1>1, <1>5, <1>10, RanksAreAnOrder
  <2> QED BY <1>1, <1>5, <2>1, RanksAreAnOrder
<1>12. live'.place[e] = s.place[d]
  BY <1>7, <1>8, <1>10, <1>11 DEF ComputedPlace
<1>13. Tied(live, d, e)
  BY <1>1, <1>5, <1>10, <1>11, RanksDifferByTies DEF Tied
<1> QED BY <1>9, <1>12, <1>13

(* Replays of one ledger agree about a class that was ranked up to ties,   *)
(* whatever order the entries come out of a Go map in                      *)
(* (recomputeEntryPlacementsFromScoresNoClaim).                            *)
THEOREM ReplaysAgreeUpToTies == Spec => []ReplaysDifferByTies
BY ReplaysAgree, InvAlways, PTL

(* The ranking of a mutation and the ranking of the replay agree up to     *)
(* ties in a class without splits and archived entries                     *)
(* (computePlacementsFromScores).                                          *)
THEOREM AwardsAreKept == Spec => AwardsSurviveRefresh
<1>1. Inv /\ Inv' /\ [Next]_vars =>
        [\A c \in computed' : ComputePlacements(c) /\ Undivided(live, c) =>
           \A s \in Snapshots' : \A d \in InClass(live, c) : s.place[d] # 0 =>
             \E e \in InClass(live, c) : live'.place[e] = s.place[d] /\ Tied(live, d, e)]_vars
  BY AwardsAgree
<1> QED BY <1>1, InvAlways, PTL DEF Spec, AwardsSurviveRefresh
=============================================================================
