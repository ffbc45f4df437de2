----------------------------- MODULE ShowClaims -----------------------------
(***************************************************************************)
(* Flowershow's domain: classes, entries, class splits, media, scorecards  *)
(* and placements.  Every mutation of the durable store refreshes its      *)
(* cache by replaying the claims of the kernel's ledger, changes the cache *)
(* in place and appends the claims that say what it did.  The replay is a  *)
(* second implementation of every mutation, and these two must agree: the  *)
(* next request, or the next start of the program, sees the replay.        *)
(*                                                                         *)
(* The replay folds the claims into a state and recomputes at its end the  *)
(* placements of the classes that some claim says were computed.  A fold   *)
(* is determined by the fold so far and the next claim, so the model keeps *)
(* the result of the fold ("rebuilt") in place of the list of claims.      *)
(* Requests run one after the other here: ClaimStore interleaves them.     *)
(***************************************************************************)
EXTENDS Integers, FiniteSets, FiniteSetsExt

CONSTANTS
    Classes, Entries, Splits, Media, Cards,  \* ids, drawn at random by newID
    Invites, Badges,  \* ids of helper share links, and of what helpers redeem them for
    ShowOf,    \* the show of each class: schedule, division and section in one
    Fields,    \* what an entry says of itself: exhibitor, visibility, awards
    OnForm,    \* the fields that createEntry and updateEntry write
    Values,    \* the values of these fields
    Unset,     \* the value of the other fields of a new entry
    Letters,   \* letters for the splits of a class (26 in the code)
    MaxScore,  \* the highest total of a scorecard
    MaxPlace,  \* the highest placement an operator sets by hand
    Together,  \* sets of ids that are explored further than others
    MaxIds,    \* bound on the ids handed out while all are of one of these sets
    MaxMixed,  \* bound on the ids handed out otherwise
    None

Shows == {ShowOf[c] : c \in Classes}

ASSUME IdsAssumption ==
    /\ IsFiniteSet(Entries) /\ IsFiniteSet(Splits) /\ IsFiniteSet(Cards)
    /\ None \notin Classes \cup Entries \cup Splits
    /\ Classes \cap Entries = {}
    /\ OnForm \subseteq Fields /\ Unset \in Values
    /\ Letters \in Nat /\ MaxScore \in Nat /\ MaxPlace \in Nat /\ MaxIds \in Nat /\ MaxMixed \in Nat

VARIABLES
    live,      \* the cache that requests are answered from
    rebuilt,   \* the ledger's claims folded, before the final recomputation
    computed,  \* classes that have a placements_computed claim
    prepared,  \* has the request in progress refreshed the cache?
    phantom,   \* does the cache hold a change whose append failed?
    made,      \* ids handed out so far
    ranked     \* history: entries that were in a class when it was ranked

vars == <<live, rebuilt, computed, prepared, phantom, made, ranked>>

Top == 3   \* places that a computation hands out

EntryOf == [show : Shows, class : Classes, split : Splits \cup {None},
            archived : BOOLEAN, says : [Fields -> Values]]
SplitOf == [class : Classes, code : Nat]
MediaOf == [of : Entries \cup Classes, cover : BOOLEAN]
CardOf  == [entry : Entries, score : 0..MaxScore]
InviteOf == [revoked : BOOLEAN, token : BOOLEAN]   \* token: is its hash in the record?
States  == [classes : SUBSET Classes,
            entries : [Entries -> EntryOf \cup {None}],
            place   : [Entries -> Nat],
            splits  : [Splits -> SplitOf \cup {None}],
            media   : [Media -> MediaOf \cup {None}],
            cards   : [Cards -> CardOf \cup {None}],
            invites : [Invites -> InviteOf \cup {None}],
            badges  : SUBSET Badges]

ASSUME NoneAssumption ==
    None \notin EntryOf \cup SplitOf \cup MediaOf \cup CardOf \cup InviteOf

Empty == [classes |-> {},
          entries |-> [e \in Entries |-> None],
          place   |-> [e \in Entries |-> 0],
          splits  |-> [x \in Splits |-> None],
          media   |-> [m \in Media |-> None],
          cards   |-> [k \in Cards |-> None],
          invites |-> [i \in Invites |-> None],
          badges  |-> {}]

(* Type correctness of the cache and of the folded claims.                 *)
TypeOK ==
    /\ live \in States /\ rebuilt \in States
    /\ computed \subseteq Classes /\ prepared \in BOOLEAN /\ phantom \in BOOLEAN
    /\ made \subseteq Classes \cup Entries \cup Splits \cup Media \cup Cards
                        \cup Invites \cup Badges
    /\ ranked \subseteq Entries

Init ==
    /\ live = Empty /\ rebuilt = Empty
    /\ computed = {} /\ prepared = FALSE /\ phantom = FALSE
    /\ made = {} /\ ranked = {}

-----------------------------------------------------------------------------
(* Ranking by the average total of an entry's scorecards.  The entries come *)
(* out of a Go map and the sort is not stable, so ties fall in any order.  *)
Orders == {o \in [Entries -> 1..Cardinality(Entries)] :
             \A d, e \in Entries : o[d] = o[e] => d = e}

CardsOf(s, e) == {k \in Cards : s.cards[k] # None /\ s.cards[k].entry = e}
Scored(s, e)  == CardsOf(s, e) # {}
Total(s, e)   == MapThenSumSet(LAMBDA k : s.cards[k].score, CardsOf(s, e))
Ahead(s, o, d, e) ==
    LET left  == Total(s, d) * Cardinality(CardsOf(s, e))
        right == Total(s, e) * Cardinality(CardsOf(s, d))
    IN  left > right \/ (left = right /\ o[d] < o[e])
RankIn(s, o, group, e) == 1 + Cardinality({d \in group : Ahead(s, o, d, e)})

Present(s)     == {e \in Entries : s.entries[e] # None}
InClass(s, c)  == {e \in Present(s) : s.entries[e].class = c}
SplitsIn(s, c) == {x \in Splits : s.splits[x] # None /\ s.splits[x].class = c}

\* Mutant: whoever gets no place keeps the one it had, as in a computation.
KeptPlace(s, o, e) ==
    LET group == {d \in InClass(s, s.entries[e].class) : Scored(s, d)}
        rank  == RankIn(s, o, group, e)
    IN  IF Scored(s, e) /\ rank <= Top THEN rank ELSE s.place[e]

(* recomputeEntryPlacementsFromScoresNoClaim, at the end of a replay: all   *)
(* the entries of the class compete, split or not, archived or not, and    *)
(* whoever gets none of the top places loses the placement it had.         *)
ReplayedPlace(s, o, e) ==
    LET group == {d \in InClass(s, s.entries[e].class) : Scored(s, d)}
        rank  == RankIn(s, o, group, e)
    IN  IF Scored(s, e) /\ rank <= Top THEN rank ELSE 0

(* The snapshots a replay of the ledger can give.                          *)
Recomputed(o) ==
    [rebuilt EXCEPT !.place = [e \in Entries |->
        IF rebuilt.entries[e] # None /\ rebuilt.entries[e].class \in computed
        THEN ReplayedPlace(rebuilt, o, e)
        ELSE rebuilt.place[e]]]
Snapshots == {Recomputed(o) : o \in Orders}

(* computePlacementsFromScores: archived entries do not place, and the     *)
(* splits of a class, if it has any, are ranked one by one.  An entry that *)
(* gets none of the top places keeps the placement it had.                 *)
Competitors(s, c, e) ==
    {d \in InClass(s, c) :
        /\ ~s.entries[d].archived /\ Scored(s, d)
        /\ \/ SplitsIn(s, c) = {}
           \/ s.entries[d].split \in SplitsIn(s, c) /\ s.entries[d].split = s.entries[e].split}
ComputedPlace(s, o, c, e) ==
    LET group == Competitors(s, c, e)
        rank  == RankIn(s, o, group, e)
    IN  IF e \in group /\ rank <= Top THEN rank ELSE s.place[e]

-----------------------------------------------------------------------------
(* replayFlowershowSnapshotFromClaims, claim type by claim type: what the   *)
(* fold makes of a claim.  Claims on records that are gone change nothing. *)
OnEntry(f, e, new) == [f EXCEPT !.entries[e] = IF f.entries[e] = None THEN None ELSE new]

ClassCreated(f, c) == [f EXCEPT !.classes = @ \cup {c}]
EntryWritten(f, e, entry, place) ==     \* entry.created and entry.updated
    [f EXCEPT !.entries[e] = entry, !.place[e] = place]
\* Mutant: a moved entry leaves its split in the replay only.
EntryMovedFromSplit(f, e, c) ==
    OnEntry(f, e, [f.entries[e] EXCEPT !.class = c, !.split = None])
EntryMoved(f, e, c) == OnEntry(f, e, [f.entries[e] EXCEPT !.class = c])
EntrySays(f, e, d, v) == OnEntry(f, e, [f.entries[e] EXCEPT !.says[d] = v])
EntryDeleted(f, e) == [f EXCEPT !.entries[e] = None, !.place[e] = 0]
\* Mutant: placements count from zero in the replay.
ZeroBasedPlacement(f, e, p) ==
    [f EXCEPT !.place[e] = IF f.entries[e] = None THEN @ ELSE p - 1]
PlacementSet(f, e, p) ==
    [f EXCEPT !.place[e] = IF f.entries[e] = None THEN @ ELSE p]
EntryArchived(f, e, b) == OnEntry(f, e, [f.entries[e] EXCEPT !.archived = b])
SplitChanged(f, e, x) == OnEntry(f, e, [f.entries[e] EXCEPT !.split = x])
SplitCreated(f, x, split) == [f EXCEPT !.splits[x] = split]
\* Mutant: the replay does not know class_split.deleted.
SplitKept(f, x) == f
SplitDeleted(f, x) == [f EXCEPT !.splits[x] = None]
MediaAttached(f, m, record) == [f EXCEPT !.media[m] = record]
MediaDeleted(f, m) == [f EXCEPT !.media[m] = None]
\* Mutant: the replay does not clear the former cover.
CoverAdded(f, m, record) == [f EXCEPT !.media[m].cover = TRUE]
CoverSet(f, m, record) ==
    [f EXCEPT !.media = [n \in Media |->
        IF n = m THEN [(IF @[m] = None THEN record ELSE @[m]) EXCEPT !.cover = TRUE]
        ELSE IF @[n] # None /\ @[n].of = record.of THEN [@[n] EXCEPT !.cover = FALSE]
        ELSE @[n]]]
ScorecardSubmitted(f, k, card) == [f EXCEPT !.cards[k] = card]
InviteWritten(f, i, revoked) ==     \* show_helper_invite.created and .revoked
    [f EXCEPT !.invites[i] = [revoked |-> revoked, token |-> FALSE]]
ScheduleReset(f, classes, entries, media, cards) ==
    [f EXCEPT !.classes = @ \ classes,
              !.entries = [e \in Entries |-> IF e \in entries THEN None ELSE @[e]],
              !.place   = [e \in Entries |-> IF e \in entries THEN 0 ELSE @[e]],
              !.media   = [m \in Media |-> IF m \in media THEN None ELSE @[m]],
              !.cards   = [k \in Cards |-> IF k \in cards THEN None ELSE @[k]]]

-----------------------------------------------------------------------------
(* Every mutation first refreshes the cache (Refresh, prepareMutation in   *)
(* the code) and then changes it in place: next is the cache as it leaves  *)
(* it, fold the replay with its claims.  When the ledger refuses the       *)
(* append, the request fails but the cache stays as the mutation left it.  *)
InComputedClass(f) == {e \in Entries : f.entries[e] # None /\ f.entries[e].class \in computed}

Commit(next, fold) ==
    /\ prepared /\ prepared' = FALSE
    /\ live' = next
    /\ \/ rebuilt' = fold /\ phantom' = FALSE
       \/ UNCHANGED rebuilt /\ phantom' = TRUE
    /\ ranked' = ranked \cup InComputedClass(rebuilt)
    /\ UNCHANGED computed

Keep == UNCHANGED made
New(id) ==
    /\ id \notin made
    /\ made' = made \cup {id}
    /\ Cardinality(made') <= IF \E ids \in Together : made' \subseteq ids THEN MaxIds
                            ELSE MaxMixed

CreateClass(c) ==
    /\ New(c)
    /\ Commit([live EXCEPT !.classes = @ \cup {c}], ClassCreated(rebuilt, c))

Filled(says, form) == [d \in Fields |-> IF d \in OnForm THEN form[d] ELSE says[d]]

(* createEntry takes show, class and exhibitor as they come.               *)
CreateEntry(e) == \E show \in Shows, c \in Classes, form \in [OnForm -> Values] :
    /\ New(e)
    /\ LET entry == [show |-> show, class |-> c, split |-> None, archived |-> FALSE,
                     says |-> Filled([d \in Fields |-> Unset], form)]
       IN  Commit([live EXCEPT !.entries[e] = entry, !.place[e] = 0],
                  EntryWritten(rebuilt, e, entry, 0))

(* updateEntry rewrites class and form; its claim carries the whole entry. *)
UpdateEntry(e) == \E c \in Classes, form \in [OnForm -> Values] :
    /\ Keep /\ e \in Present(live)
    /\ LET entry == [live.entries[e] EXCEPT !.class = c, !.says = Filled(@, form)]
       IN  Commit([live EXCEPT !.entries[e] = entry],
                  EntryWritten(rebuilt, e, entry, live.place[e]))

MoveEntry(e) == \E c \in live.classes :
    /\ Keep /\ e \in Present(live)
    /\ Commit([live EXCEPT !.entries[e].class = c], EntryMoved(rebuilt, e, c))

(* reassignEntry, setEntrySuppressed and setEntrySpecialStatus: one field.  *)
SetEntryField(e) == \E d \in Fields, v \in Values :
    /\ Keep /\ e \in Present(live)
    /\ Commit([live EXCEPT !.entries[e].says[d] = v], EntrySays(rebuilt, e, d, v))

(* setPlacement; setEntryResults sets a field with it.                     *)
SetPlacement(e) == \E p \in 0..MaxPlace :
    /\ Keep /\ e \in Present(live)
    /\ Commit([live EXCEPT !.place[e] = p], PlacementSet(rebuilt, e, p))
SetEntryResults(e) ==
    \E p \in 0..MaxPlace, d \in Fields, v \in Values :
        /\ Keep /\ e \in Present(live)
        /\ Commit([live EXCEPT !.place[e] = p, !.entries[e].says[d] = v],
                  EntrySays(PlacementSet(rebuilt, e, p), e, d, v))

(* deleteEntry refuses an entry with scorecards and takes its media along, *)
(* of which its claim says nothing.                                        *)
DeleteEntry(e) ==
    /\ Keep /\ e \in Present(live) /\ ~Scored(live, e)
    /\ Commit([EntryDeleted(live, e) EXCEPT
                        !.media = [m \in Media |->
                           IF @[m] # None /\ @[m].of = e THEN None ELSE @[m]]],
              EntryDeleted(rebuilt, e))

(* archiveEntry and restoreEntry.                                          *)
ArchiveEntry(e) == \E b \in BOOLEAN :
    /\ Keep /\ e \in Present(live)
    /\ Commit([live EXCEPT !.entries[e].archived = b], EntryArchived(rebuilt, e, b))

(* nextClassSplitCodeLocked: the lowest letter that the class does not use, *)
(* or a number that counts the codes in use when the letters are exhausted. *)
\* Mutant: the number of splits of the class, plus one.
CountedCode(s, c) == Cardinality(SplitsIn(s, c)) + 1
NextCode(s, c) ==
    LET used == {s.splits[x].code : x \in SplitsIn(s, c)}
        free == (1..Letters) \ used
    IN  IF free # {} THEN Min(free) ELSE Letters + Cardinality(used) + 1
CreateClassSplit(x) == \E c \in live.classes :
    /\ New(x)
    /\ LET split == [class |-> c, code |-> NextCode(live, c)]
       IN  Commit([live EXCEPT !.splits[x] = split], SplitCreated(rebuilt, x, split))

\* Mutant: archived entries do not hold a split.
SplitUsedByVisible(s, x) ==
    \E e \in Present(s) : s.entries[e].split = x /\ ~s.entries[e].archived
SplitUsed(s, x) == \E e \in Present(s) : s.entries[e].split = x
DeleteClassSplit(x) ==
    /\ Keep /\ live.splits[x] # None /\ ~SplitUsed(live, x)
    /\ Commit([live EXCEPT !.splits[x] = None], SplitDeleted(rebuilt, x))

(* moveEntryToSplit: a split that loses its last entry is deleted too.     *)
MoveEntryToSplit(e, x) ==
    /\ Keep /\ e \in Present(live)
    /\ x # None => live.splits[x] # None /\ live.splits[x].class = live.entries[e].class
    /\ LET left  == live.entries[e].split
           moved == [live EXCEPT !.entries[e].split = x]
           fold  == SplitChanged(rebuilt, e, x)
       IN  IF left \notin {None, x} /\ ~SplitUsed(moved, left) /\ live.splits[left] # None
           THEN Commit([moved EXCEPT !.splits[left] = None], SplitDeleted(fold, left))
           ELSE Commit(moved, fold)

(* attachMedia and attachMediaToClass, after the handlers' checks.         *)
AttachMedia(m) == \E of \in Present(live) \cup live.classes :
    /\ New(m)
    /\ LET record == [of |-> of, cover |-> FALSE]
       IN  Commit([live EXCEPT !.media[m] = record], MediaAttached(rebuilt, m, record))
DeleteMedia(m) ==
    /\ Keep /\ live.media[m] # None
    /\ Commit([live EXCEPT !.media[m] = None], MediaDeleted(rebuilt, m))
SetMediaCover(m) ==
    /\ Keep /\ live.media[m] # None
    /\ LET record == [live.media[m] EXCEPT !.cover = TRUE]
       IN  Commit([live EXCEPT !.media = [n \in Media |->
                     IF n = m THEN record
                     ELSE IF @[n] # None /\ @[n].of = record.of
                          THEN [@[n] EXCEPT !.cover = FALSE] ELSE @[n]]],
                  CoverSet(rebuilt, m, record))

(* submitScorecard does not look for the entry it scores.                  *)
SubmitScorecard(k) == \E e \in Entries, n \in 0..MaxScore :
    /\ New(k)
    /\ LET card == [entry |-> e, score |-> n]
       IN  Commit([live EXCEPT !.cards[k] = card], ScorecardSubmitted(rebuilt, k, card))

ComputePlacements(c) == \E o \in Orders :
    /\ prepared /\ prepared' = FALSE
    /\ live' = [live EXCEPT !.place = [e \in Entries |->
                  IF live.entries[e] # None THEN ComputedPlace(live, o, c, e) ELSE @[e]]]
    /\ \/ computed' = computed \cup {c} /\ phantom' = FALSE
       \/ UNCHANGED computed /\ phantom' = TRUE
    /\ ranked' = ranked \cup InComputedClass(rebuilt) \cup InClass(rebuilt, c)
    /\ UNCHANGED <<rebuilt, made>>

(* A share link: its record keeps the hash of the token, which is not in    *)
(* the JSON of the claim.                                                  *)
CreateShowHelperInvite(i) ==
    /\ New(i)
    /\ Commit([live EXCEPT !.invites[i] = [revoked |-> FALSE, token |-> TRUE]],
              InviteWritten(rebuilt, i, FALSE))
RevokeShowHelperInvite(i) ==
    /\ Keep /\ live.invites[i] # None /\ ~live.invites[i].revoked
    /\ Commit([live EXCEPT !.invites[i].revoked = TRUE], InviteWritten(rebuilt, i, TRUE))

(* processShowHelpRedeem looks the token up in the cache as it is and then *)
(* creates the badge session like any mutation, but without a claim.       *)
TokenFound(s, i) == s.invites[i] # None /\ s.invites[i].token /\ ~s.invites[i].revoked
RedeemInvite(i, b) ==
    /\ New(b) /\ TokenFound(live, i)
    /\ live' \in {[s EXCEPT !.badges = @ \cup {b}] : s \in Snapshots}
    /\ prepared' = FALSE /\ phantom' = FALSE
    /\ ranked' = ranked \cup InComputedClass(rebuilt)
    /\ UNCHANGED <<rebuilt, computed>>

(* resetShowSchedule removes the classes and the entries of the show with  *)
(* their media and scorecards, not the splits or the media of the classes. *)
ResetShowSchedule(show) ==
    LET classes == {c \in live.classes : ShowOf[c] = show}
        entries == {e \in Present(live) : live.entries[e].show = show}
        media   == {m \in Media : live.media[m] # None /\ live.media[m].of \in entries}
        cards   == {k \in Cards : live.cards[k] # None /\ live.cards[k].entry \in entries}
    IN  /\ Keep
        /\ Commit(ScheduleReset(live, classes, entries, media, cards),
                  ScheduleReset(rebuilt, classes, entries, media, cards))

(* The cache becomes a replay: a mutation begins, a page is served after   *)
(* the cache's two seconds, the projection is rebuilt, the program starts. *)
Refresh ==
    /\ live' \in Snapshots /\ prepared' = TRUE /\ phantom' = FALSE
    /\ ranked' = ranked \cup InComputedClass(rebuilt)
    /\ UNCHANGED <<rebuilt, computed, made>>

Next ==
    \/ \E c \in Classes : CreateClass(c) \/ ComputePlacements(c)
    \/ \E e \in Entries :
         \/ CreateEntry(e) \/ UpdateEntry(e) \/ MoveEntry(e) \/ SetEntryField(e)
         \/ SetPlacement(e) \/ SetEntryResults(e) \/ DeleteEntry(e) \/ ArchiveEntry(e)
         \/ \E x \in Splits \cup {None} : MoveEntryToSplit(e, x)
    \/ \E x \in Splits : CreateClassSplit(x) \/ DeleteClassSplit(x)
    \/ \E m \in Media : AttachMedia(m) \/ DeleteMedia(m) \/ SetMediaCover(m)
    \/ \E k \in Cards : SubmitScorecard(k)
    \/ \E i \in Invites : \/ CreateShowHelperInvite(i) \/ RevokeShowHelperInvite(i)
                          \/ \E b \in Badges : RedeemInvite(i, b)
    \/ \E show \in Shows : ResetShowSchedule(show)
    \/ Refresh

Spec == Init /\ [][Next]_vars

-----------------------------------------------------------------------------
(* The ledger tells the same story as the mutations: classes, entries,     *)
(* splits, scorecards and revocations as the last request left them are    *)
(* what any later request, process or rebuild gets from the claims.        *)
SameRecords(s, f) ==
    /\ s.classes = f.classes /\ s.entries = f.entries
    /\ s.splits = f.splits /\ s.cards = f.cards
    /\ \A i \in Invites :
         IF f.invites[i] = None THEN s.invites[i] = None
         ELSE s.invites[i] # None /\ s.invites[i].revoked = f.invites[i].revoked
RebuildKeepsRecords == ~phantom => SameRecords(live, rebuilt)

(* Pictures and their covers survive a rebuild, but for those of an entry  *)
(* that was deleted: deleteEntry's claim does not mention them.            *)
Subject(record) == record.of \in Classes \/ live.entries[record.of] # None
RebuildKeepsMedia ==
    ~phantom => \A m \in Media :
        \/ live.media[m] = rebuilt.media[m]
        \/ live.media[m] = None /\ ~Subject(rebuilt.media[m])

(* A placement survives a rebuild as long as no class that the entry was in *)
(* has been ranked from scorecards.                                        *)
RebuildKeepsPlacements ==
    ~phantom => \A e \in Present(live) :
        \/ live.place[e] = rebuilt.place[e]
        \/ e \in ranked \/ live.entries[e].class \in computed

(* A fair award of the top places to a group of entries: each place that   *)
(* the group can fill has one winner, and whoever has a better average of  *)
(* its scorecards than a winner is a winner too, with a lower place.       *)
BetterScored(s, d, e) ==
    Total(s, d) * Cardinality(CardsOf(s, e)) > Total(s, e) * Cardinality(CardsOf(s, d))
FairAward(s, place, group, winners) ==
    /\ winners \subseteq group
    /\ \A p \in 1..Top : p <= Cardinality(group) => \E e \in winners : place[e] = p
    /\ \A e \in winners :
         /\ place[e] \in 1..Top
         /\ \A d \in winners \ {e} : place[d] # place[e]
         /\ \A d \in group : BetterScored(s, d, e) => d \in winners /\ place[d] < place[e]

(* Computing the placements of a class awards them fairly in each group    *)
(* that competes, split by split, whatever the order in which a Go map and *)
(* a sort that is not stable leave ties; all others keep what they had.    *)
ComputedPlacesAreFair ==
    [][\A c \in Classes : ComputePlacements(c) =>
         /\ \A e \in InClass(live, c) :
              LET group == Competitors(live, c, e)
              IN  \E winners \in SUBSET group :
                    /\ FairAward(live, live'.place, group, winners)
                    /\ \A d \in group \ winners : live'.place[d] = live.place[d]
         /\ \A e \in Present(live) :
              e \notin Competitors(live, c, e) => live'.place[e] = live.place[e]]_vars

(* Whatever was scored, moved, archived or deleted since a class was       *)
(* ranked, a refreshed cache shows a fair award for it, and no other place.*)
RefreshedPlacesAreFair ==
    prepared => \A c \in computed :
        FairAward(live, live.place, {e \in InClass(live, c) : Scored(live, e)},
                  {e \in InClass(live, c) : live.place[e] # 0})

(* What a rebuild does to placements: it keeps those that only requests    *)
(* have set, and awards those of a class that was ranked fairly.           *)
PlacementsSurviveRebuilds == RebuildKeepsPlacements /\ RefreshedPlacesAreFair

(* The order of a Go map decides between ties only: two replays of one     *)
(* ledger, by two processes or before and after a restart, give a place of *)
(* a class that was ranked to entries with the same average.               *)
Tied(s, d, e) == ~BetterScored(s, d, e) /\ ~BetterScored(s, e, d)
ReplaysDifferByTies ==
    \A s, t \in Snapshots, c \in computed : \A d, e \in InClass(rebuilt, c) :
        s.place[d] # 0 /\ s.place[d] = t.place[e] => Tied(rebuilt, d, e)

(* The two implementations of the ranking agree where they mean the same:  *)
(* in a class without splits and archived entries the next refresh shows   *)
(* the places that a recorded computation has awarded, up to ties.         *)
Undivided(s, c) == SplitsIn(s, c) = {} /\ \A e \in InClass(s, c) : ~s.entries[e].archived
AwardsSurviveRefresh ==
    [][\A c \in computed' : ComputePlacements(c) /\ Undivided(live, c) =>
         \A s \in Snapshots' : \A d \in InClass(live, c) : s.place[d] # 0 =>
           \E e \in InClass(live, c) : live'.place[e] = s.place[d] /\ Tied(live, d, e)]_vars

(* The letter of a split names it within its class, whatever splits were   *)
(* deleted or auto-purged before, until the letters have run out.          *)
SplitLettersDiffer ==
    \A x, y \in Splits :
        x # y /\ live.splits[x] # None /\ live.splits[y] # None
              /\ live.splits[x].class = live.splits[y].class
        => live.splits[x].code # live.splits[y].code \/ live.splits[x].code > Letters

(* No entry, archived or not, is left in a split that has been deleted.    *)
SplitOfEntryExists ==
    \A e \in Present(live) :
        live.entries[e].split # None => live.splits[live.entries[e].split] # None

(* What a recorded deletion removed never comes back: no later claim and   *)
(* no rebuild revives an entry, a class, a split or a scorecard.           *)
Gone(s) == {e \in made \cap Entries : s.entries[e] = None}
             \cup (made \cap (Classes \ s.classes))
             \cup {x \in made \cap Splits : s.splits[x] = None}
             \cup {k \in made \cap Cards : s.cards[k] = None}
DeletedStaysDeleted == [][~phantom => Gone(live) \subseteq Gone(live)']_vars

(* A share link that nobody has revoked can be redeemed (until it expires, *)
(* which the model leaves out), whoever refreshed the cache meanwhile.     *)
ShareLinksWork ==
    ~phantom => \A i \in Invites :
        rebuilt.invites[i] # None /\ ~rebuilt.invites[i].revoked => TokenFound(live, i)
=============================================================================
