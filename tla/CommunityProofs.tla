---------------------------- MODULE CommunityProofs ----------------------------
(***************************************************************************)
(* Proofs about moments and moderation: for any members, moments, comments *)
(* and folders, any tables that fit together at first and any requests     *)
(* upon them, what is shown agrees with what is stored, the unique indexes *)
(* and the effects of decisions hold, what was removed stays removed, and  *)
(* nobody reacts where it is not allowed to.                               *)
(*                                                                         *)
(* Everything rests on CommunityInvariant, which has a part for each table *)
(* and a part for what the requests under way remember.  A request changes *)
(* a few tables: for each there is a lemma that says how its part goes on, *)
(* and a lemma for each kind of request puts these together.               *)
(***************************************************************************)
EXTENDS Community, FiniteSetTheorems, TLAPS

-------------------------------------------------------------------------------
(* Moments and moderation: the inductive invariant *)

Sights == [row : Comments \cup {Nothing}, role : Roles, n : Nat, again : BOOLEAN]

(* What was read holds still when it is used. *)
Remembers(r) ==
    /\ At(r, "resolveCase", "resolve") => r.n \in DOMAIN case /\ CompatibleWithCase(case[r.n].target, r.what)
    /\ At(r, "resolveAppeal", "answer") => r.n \in DOMAIN appeal

Placed ==
    /\ plot \in Plots
    /\ pc = [r \in plot.requests |-> pc[r]]
    /\ seen \in [plot.requests -> Sights]
    /\ \A r \in plot.requests : Remembers(r)

Ended == {"done", "refused"}

(* The row a request is going to write is not written. *)
RowsToCome == \A r \in plot.requests : r.op \in WritingOps /\ pc[r] \notin Ended => item[r.about].state = "none"

ItemsKept ==
    /\ item \in [Items -> ItemRows] /\ HangsTogether(item)
    /\ public \subseteq Items /\ pinned \subseteq Posts /\ unread \subseteq Items
    /\ hiddenBy \in [Items -> Nat]
    /\ (pinned \cup unread) \cap HiddenContent = {}

ShownOn(m) == {c \in Comments : Shown(c) /\ item[c].on = m}
LikesOf(m) == {l \in likes : l[1] = m}
BookmarksTo(m) == {b \in bookmarks : b[1] = m}

ReactionsKept ==
    /\ likes \subseteq Moments \X Users /\ IsFiniteSet(likes)
    /\ bookmarks \subseteq Moments \X Users \X Folders /\ IsFiniteSet(bookmarks)
    /\ folders \subseteq Users \X Folders
    /\ \A a, b \in bookmarks : a[1] = b[1] /\ a[2] = b[2] => a = b

CountsKept ==
    /\ counts \in [Moments -> ReactionCounts]
    /\ \A m \in Moments :
          /\ IsFiniteSet(ShownOn(m)) /\ counts[m].comments = Cardinality(ShownOn(m))
          /\ counts[m].likes = Cardinality(LikesOf(m))
          /\ counts[m].bookmarks = Cardinality(BookmarksTo(m))

CasesKept ==
    /\ case \in Seq(CaseRows) /\ OneOpenCase(case)
    /\ report \in Seq(ReportRows) /\ OnePendingReport(report)

DecisionsKept ==
    /\ decision \in Seq(DecisionRows) /\ DecisionsStand(item, hiddenBy, decision, sanction)
    /\ appeal \in Seq(AppealRows) /\ \A a \in DOMAIN appeal : appeal[a].decision \in DOMAIN decision

AccountsKept ==
    /\ RelationsOK
    /\ sanction \in Seq(SanctionRows) /\ OneOpenSanction(sanction)
    /\ invite \in Seq(InviteRows)
    /\ role \in [Users -> Roles] /\ OneSuperAdmin(role, gone)

CommunityInvariant ==
    Placed /\ ItemsKept /\ RowsToCome /\ ReactionsKept /\ CountsKept /\ CasesKept /\ DecisionsKept /\ AccountsKept

-------------------------------------------------------------------------------
(* Steps of requests *)

(* A step of r, and of nobody else. *)
StepOf(r) ==
    /\ r \in plot.requests /\ plot' = plot
    /\ pc[r] \notin Ended
    /\ pc' = [pc EXCEPT ![r] = pc'[r]]
    /\ seen' = [seen EXCEPT ![r] = seen'[r]] /\ seen'[r] \in Sights

LEMMA PlotsBeginWell == ASSUME Placed PROVE BeginsWell(plot)
BY CommunityAssumption DEF Placed

(* What is asked for is a command, about what its operation concerns. *)
LEMMA CommandsAsked ==
    ASSUME Placed, NEW r \in plot.requests
    PROVE  /\ r \in Commands /\ r \in Requests /\ r.about \in Concerns(r.op) /\ r.about \in Targets
           /\ r.op = "comment" => r.on \in Moments
           /\ r.op = "createFolder" => r.what \in Folders
           /\ r.op = "resolveAppeal" => r.what \in {"UPHELD", "OVERTURNED"}
<1>1. BeginsWell(plot) /\ plot \in Plots
  BY PlotsBeginWell DEF Placed
<1>2. r \in Commands /\ r.about \in Targets
  BY <1>1 DEF BeginsWell, Commands
<1>3. r \in Requests
  BY <1>1 DEF Requests
<1> QED BY <1>1, <1>2, <1>3 DEF BeginsWell

LEMMA NoSightIsSight == NoSight \in Sights
BY DEF NoSight, Sights, Roles

(* A request that goes to a place, and sees something or not, takes a step. *)
LEMMA PlacesAreSteps ==
    ASSUME Placed, NEW r \in plot.requests, pc[r] \notin Ended, NEW place, Place(r, place),
           NEW sight \in Sights, seen' = seen \/ seen' = [seen EXCEPT ![r] = sight]
    PROVE  StepOf(r) /\ pc'[r] = place
BY DEF Placed, Place, StepOf

LEMMA DoneIsStep ==
    ASSUME Placed, NEW r \in plot.requests, pc[r] \notin Ended, Done(r)
    PROVE  StepOf(r) /\ pc'[r] = "done"
BY DEF Done, Placed, Place, StepOf

(* Cases keep their targets, and appeals remain. *)
RowsRemain ==
    /\ \A c \in DOMAIN case : c \in DOMAIN case' /\ case'[c].target = case[c].target
    /\ DOMAIN appeal \subseteq DOMAIN appeal'

LEMMA PlacedStays ==
    ASSUME Placed, NEW r, StepOf(r), RowsRemain,
           pc'[r] = "resolve" => /\ r.n \in DOMAIN case' /\ CompatibleWithCase(case'[r.n].target, r.what),
           pc'[r] = "answer" => r.n \in DOMAIN appeal'
    PROVE  Placed'
<1>1. plot' = plot /\ plot' \in Plots /\ pc' = [q \in plot.requests |-> pc'[q]] /\ seen' \in [plot.requests -> Sights]
  BY DEF Placed, StepOf
<1>2. ASSUME NEW q \in plot.requests PROVE Remembers(q)'
  <2>1. CASE q = r
    BY <2>1 DEF Remembers, At, CompatibleWithCase
  <2>2. CASE q # r
    <3>1. pc'[q] = pc[q] /\ Remembers(q)
      BY <2>2 DEF StepOf, Placed
    <3> QED BY <3>1 DEF Remembers, At, RowsRemain, CompatibleWithCase
  <2> QED BY <2>1, <2>2
<1> QED BY <1>1, <1>2 DEF Placed, Sights

LEMMA PlacedThen ==
    ASSUME Placed, NEW r, StepOf(r), RowsRemain, pc'[r] \notin {"resolve", "answer"}
    PROVE  Placed'
BY PlacedStays

(* Two requests write two rows. *)
LEMMA RowsOfTheirOwn ==
    ASSUME Placed, NEW r \in plot.requests, NEW q \in plot.requests, r.op \in WritingOps, q.op \in WritingOps,
           q.about = r.about
    PROVE  q = r
BY PlotsBeginWell DEF BeginsWell

(* Rows to come stay to come when rows are changed that are there, or when *)
(* a request that is done then wrote its own.                              *)
LEMMA RowsToComeStay ==
    ASSUME Placed, RowsToCome, NEW r, StepOf(r), NEW i,
           \A j \in Moments \cup Comments : j # i => item'[j].state = item[j].state,
           \/ i \notin Moments \cup Comments \/ item[i].state # "none" \/ item'[i].state = item[i].state
           \/ r.op \in WritingOps /\ i = r.about /\ pc'[r] \in Ended
    PROVE  RowsToCome'
<1>1. SUFFICES ASSUME NEW q \in plot.requests, q.op \in WritingOps, pc'[q] \notin Ended
               PROVE  item'[q.about].state = "none"
  BY DEF RowsToCome, StepOf
<1>2. pc[q] \notin Ended /\ (q # r => pc'[q] = pc[q])
  BY <1>1 DEF StepOf, Placed
<1>3. item[q.about].state = "none" /\ q.about \in Moments \cup Comments
  <2>1. q.about \in Concerns(q.op) /\ (q.op = "create" \/ q.op = "comment")
    BY <1>1, CommandsAsked DEF WritingOps
  <2>2. q.about \in Moments \cup Comments
    BY <2>1 DEF Concerns, ReactingOps, AboutUsers
  <2> QED BY <1>1, <1>2, <2>2 DEF RowsToCome
<1>4. r.op \in WritingOps /\ q.about = r.about => q = r
  BY <1>1, RowsOfTheirOwn DEF StepOf
<1> QED BY <1>1, <1>3, <1>4
-------------------------------------------------------------------------------
(* What is left alone stays as it is *)

LEMMA ItemsStay == ASSUME ItemsKept, UNCHANGED itemVars PROVE ItemsKept'
BY DEF ItemsKept, itemVars, HiddenContent, HiddenByAdmin, HangsTogether

LEMMA RowsToComeRemain ==
    ASSUME Placed, RowsToCome, NEW r, StepOf(r), UNCHANGED item
    PROVE  RowsToCome'
BY RowsToComeStay

LEMMA ReactionsStay == ASSUME ReactionsKept, UNCHANGED <<likes, bookmarks, folders>> PROVE ReactionsKept'
BY DEF ReactionsKept

LEMMA CountsStay == ASSUME CountsKept, UNCHANGED <<counts, likes, bookmarks, item>> PROVE CountsKept'
BY DEF CountsKept, ShownOn, LikesOf, BookmarksTo, Shown

LEMMA CasesStay == ASSUME CasesKept, UNCHANGED <<case, report>> PROVE CasesKept'
BY DEF CasesKept

LEMMA DecisionsStay ==
    ASSUME DecisionsKept, UNCHANGED <<item, hiddenBy, decision, appeal, sanction>>
    PROVE  DecisionsKept'
BY DEF DecisionsKept

LEMMA AccountsStay == ASSUME AccountsKept, UNCHANGED <<relationVars, sanction, invite, role>> PROVE AccountsKept'
BY DEF AccountsKept, relationVars, RelationsOK

LEMMA RowsRemainAlone == ASSUME UNCHANGED <<case, appeal>> PROVE RowsRemain
BY DEF RowsRemain

tableVars == <<relationVars, momentVars, itemVars, caseVars, accountVars>>

(* A request that goes somewhere, and leaves the tables alone. *)
LEMMA TablesStay ==
    ASSUME CommunityInvariant, NEW r, StepOf(r), UNCHANGED tableVars,
           pc'[r] = "resolve" => r.n \in DOMAIN case /\ CompatibleWithCase(case[r.n].target, r.what),
           pc'[r] = "answer" => r.n \in DOMAIN appeal
    PROVE  CommunityInvariant'
<1>1. /\ UNCHANGED itemVars /\ UNCHANGED <<counts, likes, bookmarks, folders>> /\ UNCHANGED relationVars
      /\ UNCHANGED <<case, report, decision, appeal>> /\ UNCHANGED <<sanction, invite, role>>
  BY DEF tableVars, momentVars, caseVars, accountVars
<1>2. UNCHANGED <<item, hiddenBy>>
  BY <1>1 DEF itemVars
<1>3. Placed'
  BY <1>1, PlacedStays, RowsRemainAlone DEF CommunityInvariant
<1>4. ItemsKept' /\ RowsToCome'
  BY <1>1, <1>2, ItemsStay, RowsToComeRemain DEF CommunityInvariant
<1>5. ReactionsKept' /\ CountsKept' /\ CasesKept'
  BY <1>1, <1>2, ReactionsStay, CountsStay, CasesStay DEF CommunityInvariant
<1>6. DecisionsKept' /\ AccountsKept'
  BY <1>1, <1>2, DecisionsStay, AccountsStay DEF CommunityInvariant
<1> QED BY <1>3, <1>4, <1>5, <1>6 DEF CommunityInvariant

LEMMA RefusalsKeep ==
    ASSUME CommunityInvariant, NEW r \in plot.requests, pc[r] \notin Ended, Refused(r)
    PROVE  CommunityInvariant'
<1>1. Place(r, "refused") /\ seen' = seen /\ UNCHANGED tableVars /\ Placed
  BY DEF Refused, tableVars, CommunityInvariant
<1>2. StepOf(r) /\ pc'[r] = "refused"
  BY <1>1, PlacesAreSteps, NoSightIsSight
<1> QED BY <1>1, <1>2, TablesStay

LEMMA ReadingKeeps ==
    ASSUME CommunityInvariant, NEW r \in plot.requests, pc[r] \notin Ended,
           NEW place, NEW sight \in Sights, Reads(r, place, sight),
           place = "resolve" => r.n \in DOMAIN case /\ CompatibleWithCase(case[r.n].target, r.what),
           place = "answer" => r.n \in DOMAIN appeal
    PROVE  CommunityInvariant'
<1>1. Place(r, place) /\ seen' = [seen EXCEPT ![r] = sight] /\ UNCHANGED tableVars /\ Placed
  BY DEF Reads, tableVars, CommunityInvariant
<1>2. StepOf(r) /\ pc'[r] = place
  BY <1>1, PlacesAreSteps
<1> QED BY <1>1, <1>2, TablesStay

LEMMA AnsweringKeeps ==
    ASSUME CommunityInvariant, NEW r \in plot.requests, pc[r] \notin Ended, Done(r), UNCHANGED tableVars
    PROVE  CommunityInvariant'
<1>1. StepOf(r) /\ pc'[r] = "done"
  BY DoneIsStep DEF CommunityInvariant
<1> QED BY <1>1, TablesStay

-------------------------------------------------------------------------------
(* What is published *)

(* Something that is shown is removed, or hidden by the decision d. *)
Removal(i, state, d) ==
    /\ i \in Items /\ Shown(i) /\ state \in Removals /\ d \in Nat
    /\ item' = [item EXCEPT ![i].state = state] /\ hiddenBy' = [hiddenBy EXCEPT ![i] = d]
    /\ public' \subseteq public /\ pinned' \subseteq pinned /\ unread' \subseteq unread
    /\ state = "ADMIN" => i \notin pinned' \cup unread'
    /\ UNCHANGED <<likes, bookmarks>>
    /\ counts' = IF i \in Comments THEN [counts EXCEPT ![item[i].on].comments = @ - 1] ELSE counts

(* Something is shown again: of moments and comments, what an              *)
(* administrator has hidden.                                               *)
Return(i) ==
    /\ i \in Items /\ (i \in Moments \cup Comments => HiddenByAdmin(i))
    /\ item' = [item EXCEPT ![i].state = "shown"]
    /\ UNCHANGED <<public, pinned, unread, hiddenBy, likes, bookmarks>>
    /\ counts' = IF i \in Comments THEN [counts EXCEPT ![item[i].on].comments = @ + 1] ELSE counts

LEMMA CommentsHang ==
    ASSUME ItemsKept, NEW c \in Comments, item[c].state # "none"
    PROVE  item[c].on \in Moments
BY DEF ItemsKept, HangsTogether

LEMMA ItemKinds == \A i \in Comments : i \in Items /\ i \notin Moments \cup Threads \cup Posts
BY CommunityAssumption DEF Items

(* Rows that keep all but their state, none of them taken back to none. *)
LEMMA StatesHang ==
    ASSUME ItemsKept, NEW i \in Items, NEW state, state # "none", item' = [item EXCEPT ![i].state = state],
           i \in Comments => item[i].state # "none"
    PROVE  HangsTogether(item')
<1>1. \A j \in Items : /\ item'[j].on = item[j].on /\ item'[j].root = item[j].root
                       /\ item[j].state # "none" => item'[j].state # "none"
  BY DEF ItemsKept
<1>2. \A c \in Comments : item'[c].state # "none" => item[c].state # "none"
  BY ItemKinds DEF ItemsKept
<1> QED BY <1>1, <1>2, ItemKinds DEF ItemsKept, HangsTogether

LEMMA RemovalKeepsItems ==
    ASSUME ItemsKept, NEW i, NEW state, NEW d, Removal(i, state, d)
    PROVE  ItemsKept'
<1>1. HangsTogether(item')
  BY StatesHang DEF Removal, Removals, Shown
<1>2. item' \in [Items -> ItemRows] /\ hiddenBy' \in [Items -> Nat]
  BY DEF ItemsKept, Removal, ItemRows, Removals
<1>3. (pinned' \cup unread') \cap HiddenContent' = {}
  <2>1. \A j \in Items : j # i => item'[j] = item[j]
    BY DEF ItemsKept, Removal
  <2>2. item'[i].state = state /\ i \in Items
    BY DEF ItemsKept, Removal
  <2> QED BY <2>1, <2>2 DEF ItemsKept, Removal, HiddenContent, HiddenByAdmin
<1> QED BY <1>1, <1>2, <1>3 DEF ItemsKept, Removal, HangsTogether, ItemRows

LEMMA ReturnKeepsItems ==
    ASSUME ItemsKept, NEW i, Return(i)
    PROVE  ItemsKept'
<1>1. HangsTogether(item')
  BY StatesHang DEF Return, HiddenByAdmin
<1>2. item' \in [Items -> ItemRows] /\ hiddenBy' \in [Items -> Nat]
  BY DEF ItemsKept, Return, ItemRows
<1>3. (pinned' \cup unread') \cap HiddenContent' = {}
  BY DEF ItemsKept, Return, HiddenContent, HiddenByAdmin
<1> QED BY <1>1, <1>2, <1>3 DEF ItemsKept, Return, HangsTogether, ItemRows

LEMMA RemovalKeepsRows ==
    ASSUME Placed, RowsToCome, ItemsKept, NEW r, StepOf(r), NEW i, NEW state, NEW d, Removal(i, state, d)
    PROVE  RowsToCome'
<1>1. \A j \in Moments \cup Comments : j # i => item'[j].state = item[j].state
  BY DEF ItemsKept, Removal, Items
<1>2. item[i].state # "none"
  BY DEF Removal, Shown
<1> QED BY <1>1, <1>2, RowsToComeStay

LEMMA ReturnKeepsRows ==
    ASSUME Placed, RowsToCome, ItemsKept, NEW r, StepOf(r), NEW i, Return(i)
    PROVE  RowsToCome'
<1>1. \A j \in Moments \cup Comments : j # i => item'[j].state = item[j].state
  BY DEF ItemsKept, Return, Items
<1>2. i \notin Moments \cup Comments \/ item[i].state # "none"
  BY DEF Return, HiddenByAdmin
<1> QED BY <1>1, <1>2, RowsToComeStay

(* The number of comments changes by one where a comment comes or goes. *)
LEMMA OneCommentLess ==
    ASSUME ItemsKept, CountsKept, NEW i \in Comments, Shown(i), NEW m, m = item[i].on, NEW state, state # "shown",
           item' = [item EXCEPT ![i].state = state], UNCHANGED <<likes, bookmarks>>,
           counts' = [counts EXCEPT ![m].comments = @ - 1]
    PROVE  CountsKept'
<1>1. m \in Moments /\ i \in Items
  BY CommentsHang, ItemKinds DEF Shown
<1>2. \A c \in Comments : item'[c].on = item[c].on /\ (c # i => item'[c] = item[c]) /\ item'[i].state = state
  BY <1>1, ItemKinds DEF ItemsKept
<1>3. ShownOn(m)' = ShownOn(m) \ {i} /\ i \in ShownOn(m)
  BY <1>2 DEF ShownOn, Shown
<1>4. \A n \in Moments : n # m => ShownOn(n)' = ShownOn(n)
  BY <1>2 DEF ShownOn, Shown
<1>5. IsFiniteSet(ShownOn(m)) /\ counts[m].comments = Cardinality(ShownOn(m)) /\ counts[m].comments \in Int
  BY <1>1 DEF CountsKept, ReactionCounts
<1>6. IsFiniteSet(ShownOn(m)') /\ Cardinality(ShownOn(m)') = Cardinality(ShownOn(m)) - 1
  BY <1>3, <1>5, FS_RemoveElement
<1>7. \A n \in Moments : LikesOf(n)' = LikesOf(n) /\ BookmarksTo(n)' = BookmarksTo(n)
  BY DEF LikesOf, BookmarksTo
<1>8. /\ counts' \in [Moments -> ReactionCounts] /\ counts'[m].comments = counts[m].comments - 1
      /\ \A n \in Moments : counts'[n].likes = counts[n].likes /\ counts'[n].bookmarks = counts[n].bookmarks
      /\ \A n \in Moments : n # m => counts'[n].comments = counts[n].comments
  BY <1>1 DEF CountsKept, ReactionCounts
<1>9. \A n \in Moments : IsFiniteSet(ShownOn(n)') /\ counts'[n].comments = Cardinality(ShownOn(n)')
  BY <1>4, <1>5, <1>6, <1>8 DEF CountsKept
<1> QED BY <1>7, <1>8, <1>9 DEF CountsKept, ReactionCounts

LEMMA OneCommentMore ==
    ASSUME CountsKept, NEW i \in Comments, ~Shown(i), NEW m \in Moments, item'[i].state = "shown", item'[i].on = m,
           \A c \in Comments : c # i => item'[c].on = item[c].on /\ item'[c].state = item[c].state,
           UNCHANGED <<likes, bookmarks>>, counts' = [counts EXCEPT ![m].comments = @ + 1]
    PROVE  CountsKept'
<1>1. m \in Moments
  OBVIOUS
<1>3. ShownOn(m)' = ShownOn(m) \cup {i} /\ i \notin ShownOn(m)
  BY DEF ShownOn, Shown
<1>4. \A n \in Moments : n # m => ShownOn(n)' = ShownOn(n)
  BY DEF ShownOn, Shown
<1>5. IsFiniteSet(ShownOn(m)) /\ counts[m].comments = Cardinality(ShownOn(m)) /\ counts[m].comments \in Int
  BY <1>1 DEF CountsKept, ReactionCounts
<1>6. IsFiniteSet(ShownOn(m)') /\ Cardinality(ShownOn(m)') = Cardinality(ShownOn(m)) + 1
  BY <1>3, <1>5, FS_AddElement
<1>7. \A n \in Moments : LikesOf(n)' = LikesOf(n) /\ BookmarksTo(n)' = BookmarksTo(n)
  BY DEF LikesOf, BookmarksTo
<1>8. /\ counts' \in [Moments -> ReactionCounts] /\ counts'[m].comments = counts[m].comments + 1
      /\ \A n \in Moments : counts'[n].likes = counts[n].likes /\ counts'[n].bookmarks = counts[n].bookmarks
      /\ \A n \in Moments : n # m => counts'[n].comments = counts[n].comments
  BY <1>1 DEF CountsKept, ReactionCounts
<1>9. \A n \in Moments : IsFiniteSet(ShownOn(n)') /\ counts'[n].comments = Cardinality(ShownOn(n)')
  BY <1>4, <1>5, <1>6, <1>8 DEF CountsKept
<1> QED BY <1>7, <1>8, <1>9 DEF CountsKept, ReactionCounts

(* Where nothing happens to comments, their numbers stand. *)
LEMMA CountsRemain ==
    ASSUME CountsKept, UNCHANGED <<counts, likes, bookmarks>>,
           \A c \in Comments : item'[c].on = item[c].on /\ item'[c].state = item[c].state
    PROVE  CountsKept'
<1>1. \A n \in Moments : ShownOn(n)' = ShownOn(n)
  BY DEF ShownOn, Shown
<1> QED BY <1>1 DEF CountsKept, LikesOf, BookmarksTo

LEMMA RemovalKeepsCounts ==
    ASSUME ItemsKept, CountsKept, NEW i, NEW state, NEW d, Removal(i, state, d)
    PROVE  CountsKept'
<1>1. CASE i \in Comments
  <2>1. /\ Shown(i) /\ state # "shown" /\ item' = [item EXCEPT ![i].state = state] /\ UNCHANGED <<likes, bookmarks>>
        /\ counts' = [counts EXCEPT ![item[i].on].comments = @ - 1]
    BY <1>1 DEF Removal, Removals
  <2> QED BY <1>1, <2>1, OneCommentLess
<1>2. CASE i \notin Comments
  <2>1. \A c \in Comments : item'[c] = item[c]
    BY <1>2, ItemKinds DEF Removal, ItemsKept
  <2> QED BY <1>2, <2>1, CountsRemain DEF Removal
<1> QED BY <1>1, <1>2

LEMMA ReturnKeepsCounts ==
    ASSUME ItemsKept, CountsKept, NEW i, Return(i)
    PROVE  CountsKept'
<1>1. CASE i \in Comments
  <2>1. item[i].state = "ADMIN" /\ item[i].on \in Moments
    BY <1>1, CommentsHang DEF Return, HiddenByAdmin
  <2>2. item'[i].state = "shown" /\ item'[i].on = item[i].on /\ \A c \in Comments : c # i => item'[c] = item[c]
    BY <1>1, ItemKinds DEF Return, ItemsKept
  <2>3. counts' = [counts EXCEPT ![item[i].on].comments = @ + 1] /\ UNCHANGED <<likes, bookmarks>>
    BY <1>1 DEF Return
  <2> QED BY <1>1, <2>1, <2>2, <2>3, OneCommentMore DEF Shown
<1>2. CASE i \notin Comments
  <2>1. \A c \in Comments : item'[c] = item[c]
    BY <1>2, ItemKinds DEF Return, ItemsKept
  <2> QED BY <1>2, <2>1, CountsRemain DEF Return
<1> QED BY <1>1, <1>2

(* What is removed is not hidden by a decision; what comes back is hidden  *)
(* by none.                                                                *)
LEMMA RemovalStands ==
    ASSUME ItemsKept, DecisionsKept, NEW i, NEW state, Removal(i, state, 0), UNCHANGED <<decision, appeal, sanction>>
    PROVE  DecisionsKept'
<1>1. \A j \in Items : j # i => item'[j] = item[j] /\ hiddenBy'[j] = hiddenBy[j]
  BY DEF ItemsKept, Removal
<1>2. hiddenBy'[i] = 0
  BY DEF ItemsKept, Removal
<1> QED BY <1>1, <1>2 DEF DecisionsKept, DecisionsStand

LEMMA ReturnStands ==
    ASSUME ItemsKept, DecisionsKept, NEW i, Return(i), UNCHANGED <<decision, appeal, sanction>>
    PROVE  DecisionsKept'
<1>1. \A j \in Items : j # i => item'[j] = item[j]
  BY DEF ItemsKept, Return
<1>2. item'[i].state = "shown" /\ hiddenBy' = hiddenBy
  BY DEF ItemsKept, Return
<1> QED BY <1>1, <1>2 DEF DecisionsKept, DecisionsStand
(* Nothing more is hidden than was. *)
LEMMA ShowingStands ==
    ASSUME DecisionsKept, UNCHANGED <<hiddenBy, decision, appeal, sanction>>,
           \A j \in Items : item'[j].state = "ADMIN" => item[j].state = "ADMIN"
    PROVE  DecisionsKept'
BY DEF DecisionsKept, DecisionsStand

(* A request that is done, and changed what is published. *)
LEMMA ContentStepKeeps ==
    ASSUME CommunityInvariant, NEW r, StepOf(r), pc'[r] = "done",
           UNCHANGED <<relationVars, likes, bookmarks, folders, caseVars, accountVars>>,
           ItemsKept', RowsToCome', CountsKept', DecisionsKept'
    PROVE  CommunityInvariant'
<1>1. /\ UNCHANGED <<likes, bookmarks, folders>> /\ UNCHANGED relationVars
      /\ UNCHANGED <<case, report, decision, appeal>> /\ UNCHANGED <<sanction, invite, role>>
  BY DEF caseVars, accountVars
<1>2. Placed'
  BY <1>1, PlacedThen, RowsRemainAlone DEF CommunityInvariant
<1>3. ReactionsKept' /\ CasesKept' /\ AccountsKept'
  BY <1>1, ReactionsStay, CasesStay, AccountsStay DEF CommunityInvariant
<1> QED BY <1>2, <1>3 DEF CommunityInvariant

LEMMA RemovalKeeps ==
    ASSUME CommunityInvariant, NEW r, StepOf(r), pc'[r] = "done",
           UNCHANGED <<relationVars, likes, bookmarks, folders, caseVars, accountVars>>,
           NEW i, NEW state, Removal(i, state, 0)
    PROVE  CommunityInvariant'
<1>1. UNCHANGED <<decision, appeal, sanction>>
  BY DEF caseVars, accountVars
<1>2. ItemsKept' /\ RowsToCome' /\ CountsKept'
  BY RemovalKeepsItems, RemovalKeepsRows, RemovalKeepsCounts DEF CommunityInvariant
<1>3. DecisionsKept'
  BY <1>1, RemovalStands DEF CommunityInvariant
<1> QED BY <1>2, <1>3, ContentStepKeeps

LEMMA ReturnKeeps ==
    ASSUME CommunityInvariant, NEW r, StepOf(r), pc'[r] = "done",
           UNCHANGED <<relationVars, likes, bookmarks, folders, caseVars, accountVars>>, NEW i, Return(i)
    PROVE  CommunityInvariant'
<1>1. UNCHANGED <<decision, appeal, sanction>>
  BY DEF caseVars, accountVars
<1>2. ItemsKept' /\ RowsToCome' /\ CountsKept'
  BY ReturnKeepsItems, ReturnKeepsRows, ReturnKeepsCounts DEF CommunityInvariant
<1>3. DecisionsKept'
  BY <1>1, ReturnStands DEF CommunityInvariant
<1> QED BY <1>2, <1>3, ContentStepKeeps

-------------------------------------------------------------------------------
(* Moments *)

LEMMA AboutMoments ==
    ASSUME Placed, NEW r \in plot.requests, r.op \in ReactingOps \cup {"create"}
    PROVE  r.about \in Moments /\ r.about \in Items /\ r.about \notin Comments \cup Posts /\ r.user \in Users
<1>1. r.about \in Moments
  <2>1. r.about \in Concerns(r.op)
    BY CommandsAsked
  <2> QED BY <2>1 DEF Concerns, ReactingOps, AboutUsers
<1>2. r.user \in Users
  BY CommandsAsked DEF Commands
<1> QED BY <1>1, <1>2, CommunityAssumption DEF Items

LEMMA ReadCreateKeeps ==
    ASSUME CommunityInvariant, NEW r \in plot.requests, readCreate(r)
    PROVE  CommunityInvariant'
<1>1. pc[r] \notin Ended
  BY DEF readCreate, Arrives, Ended
<1>2. CASE Done(r) /\ UNCHANGED <<relationVars, momentVars, itemVars, caseVars, accountVars>>
  BY <1>1, <1>2, AnsweringKeeps DEF tableVars
<1>3. CASE Reads(r, "create", NoSight)
  BY <1>1, <1>3, ReadingKeeps, NoSightIsSight
<1> QED BY <1>2, <1>3 DEF readCreate

LEMMA CreateKeeps ==
    ASSUME CommunityInvariant, NEW r \in plot.requests, create(r)
    PROVE  CommunityInvariant'
<1>1. r.op = "create" /\ pc[r] = "create" /\ pc[r] \notin Ended /\ Placed
  BY DEF create, At, Ended, CommunityInvariant
<1>2. CASE Refused(r)
  BY <1>1, <1>2, RefusalsKeep
<1>3. CASE /\ r.user \notin gone
           /\ Done(r)
           /\ UNCHANGED <<relationVars, momentVars, public, pinned, unread, hiddenBy, caseVars, accountVars>>
  <2>1. StepOf(r) /\ pc'[r] = "done"
    BY <1>1, <1>3, DoneIsStep
  <2>2. CASE UNCHANGED item
    <3>1. UNCHANGED tableVars
      BY <1>3, <2>2 DEF tableVars, itemVars
    <3> QED BY <1>1, <1>3, <3>1, AnsweringKeeps
  <2>3. CASE item' = [item EXCEPT ![r.about] = [state |-> "shown", author |-> r.user, on |-> Nothing, root |-> Nothing,
                                               key |-> r.what, version |-> 1]]
    <3> DEFINE row == [state |-> "shown", author |-> r.user, on |-> Nothing, root |-> Nothing,
                       key |-> r.what, version |-> 1]
    <3>1. r.about \in Moments /\ r.about \in Items /\ r.about \notin Comments \cup Posts /\ r.user \in Users
      BY <1>1, AboutMoments
    <3>2. row \in ItemRows
      BY <3>1, <1>1, CommandsAsked DEF ItemRows, Commands
    <3>3. \A j \in Items : j # r.about => item'[j] = item[j]
      BY <2>3, <3>1 DEF CommunityInvariant, ItemsKept
    <3>4. item' \in [Items -> ItemRows] /\ item'[r.about] = row
      BY <2>3, <3>1, <3>2 DEF CommunityInvariant, ItemsKept
    <3>5. \A c \in Comments : item'[c] = item[c]
      BY <3>1, <3>3, ItemKinds
    <3>6. HangsTogether(item')
      BY <3>5 DEF CommunityInvariant, ItemsKept, HangsTogether
    <3>7. \A j \in Items : item'[j].state = "ADMIN" => item[j].state = "ADMIN"
      BY <3>3, <3>4
    <3>8. ItemsKept'
      BY <1>3, <3>4, <3>6, <3>7 DEF CommunityInvariant, ItemsKept, HiddenContent, HiddenByAdmin, HangsTogether, ItemRows
    <3>9. RowsToCome'
      <4>1. \A j \in Moments \cup Comments : j # r.about => item'[j].state = item[j].state
        BY <3>3 DEF Items
      <4>2. r.op \in WritingOps /\ pc'[r] \in Ended
        BY <1>1, <2>1 DEF WritingOps, Ended
      <4> QED BY <1>1, <2>1, <4>1, <4>2, RowsToComeStay DEF CommunityInvariant
    <3>10. CountsKept'
      BY <1>3, <3>5, CountsRemain DEF CommunityInvariant, momentVars
    <3>11. DecisionsKept'
      BY <1>3, <3>7, ShowingStands DEF CommunityInvariant, caseVars, accountVars
    <3> QED BY <1>3, <2>1, <3>8, <3>9, <3>10, <3>11, ContentStepKeeps DEF momentVars
  <2> QED BY <1>1, <1>3, <2>2, <2>3 DEF create
<1> QED BY <1>2, <1>3 DEF create

LEMMA UpdateKeeps ==
    ASSUME CommunityInvariant, NEW r \in plot.requests, update(r)
    PROVE  CommunityInvariant'
<1>1. r.op = "update" /\ pc[r] \notin Ended /\ Placed
  BY DEF update, Arrives, Ended, CommunityInvariant
<1>2. CASE Refused(r)
  BY <1>1, <1>2, RefusalsKeep
<1>3. CASE /\ item' = [item EXCEPT ![r.about].version = @ + 1]
           /\ Done(r)
           /\ UNCHANGED <<relationVars, momentVars, public, pinned, unread, hiddenBy, caseVars, accountVars>>
  <2>1. StepOf(r) /\ pc'[r] = "done"
    BY <1>1, <1>3, DoneIsStep
  <2>2. r.about \in Items /\ r.about \notin Comments
    BY <1>1, AboutMoments DEF ReactingOps
  <2>3. item' \in [Items -> ItemRows] /\ \A j \in Items : item'[j].state = item[j].state
    BY <1>3, <2>2 DEF CommunityInvariant, ItemsKept, ItemRows
  <2>4. \A c \in Comments : item'[c] = item[c]
    BY <1>3, <2>2, ItemKinds DEF CommunityInvariant, ItemsKept
  <2>5. HangsTogether(item')
    BY <2>4 DEF CommunityInvariant, ItemsKept, HangsTogether
  <2>6. ItemsKept'
    <3>1. HiddenContent' = HiddenContent
      BY <2>3 DEF HiddenContent, HiddenByAdmin
    <3>2. /\ public \subseteq Items /\ pinned \subseteq Posts /\ unread \subseteq Items
          /\ hiddenBy \in [Items -> Nat] /\ (pinned \cup unread) \cap HiddenContent = {}
      BY DEF CommunityInvariant, ItemsKept
    <3> QED BY <1>3, <2>3, <2>5, <3>1, <3>2 DEF ItemsKept, HangsTogether, ItemRows
  <2>7. \A j \in Moments \cup Comments : item'[j].state = item[j].state
    BY <2>3 DEF Items
  <2>8. RowsToCome'
    BY <1>1, <2>1, <2>7, RowsToComeStay DEF CommunityInvariant
  <2>9. CountsKept'
    BY <1>3, <2>4, CountsRemain DEF CommunityInvariant, momentVars
  <2>10. DecisionsKept'
    BY <1>3, <2>3, ShowingStands DEF CommunityInvariant, caseVars, accountVars
  <2> QED BY <1>3, <2>1, <2>6, <2>8, <2>9, <2>10, ContentStepKeeps DEF momentVars
<1> QED BY <1>2, <1>3 DEF update

LEMMA RemovalsBy == \A r, u : RemovalBy(r, u) \in {"ADMIN", "AUTHOR"}
BY DEF RemovalBy

LEMMA RemoveMomentKeeps ==
    ASSUME CommunityInvariant, NEW r \in plot.requests, removeMoment(r)
    PROVE  CommunityInvariant'
<1>1. r.op = "removeMoment" /\ pc[r] \notin Ended /\ Placed
  BY DEF removeMoment, Arrives, Ended, CommunityInvariant
<1>2. CASE Refused(r)
  BY <1>1, <1>2, RefusalsKeep
<1>3. CASE ~Refused(r)
  <2> DEFINE m == r.about
             state == RemovalBy(r, item[m].author)
  <2>1. /\ Shown(m) /\ item' = [item EXCEPT ![m].state = state] /\ hiddenBy' = [hiddenBy EXCEPT ![m] = 0]
        /\ unread' = unread \ ({m} \cup {c \in Comments : item[c].on = m})
        /\ Done(r)
        /\ UNCHANGED <<relationVars, momentVars, public, pinned, caseVars, accountVars>>
    BY <1>3 DEF removeMoment
  <2>2. StepOf(r) /\ pc'[r] = "done"
    BY <1>1, <2>1, DoneIsStep
  <2>3. m \in Items /\ m \notin Comments \cup Posts
    BY <1>1, AboutMoments DEF ReactingOps
  <2>4. state \in Removals /\ m \notin pinned' \cup unread'
    BY <2>1, <2>3, RemovalsBy DEF Removals, CommunityInvariant, ItemsKept
  <2>5. Removal(m, state, 0)
    BY <2>1, <2>3, <2>4 DEF Removal, momentVars
  <2> QED BY <2>1, <2>2, <2>5, RemovalKeeps DEF momentVars
<1> QED BY <1>2, <1>3
-------------------------------------------------------------------------------
(* Likes *)

(* A request that is done, and changed likes, bookmarks or folders. *)
LEMMA ReactionStepKeeps ==
    ASSUME CommunityInvariant, NEW r, StepOf(r), pc'[r] = "done",
           UNCHANGED <<relationVars, itemVars, caseVars, accountVars>>, ReactionsKept', CountsKept'
    PROVE  CommunityInvariant'
<1>1. /\ UNCHANGED relationVars /\ UNCHANGED itemVars /\ UNCHANGED <<item, hiddenBy>>
      /\ UNCHANGED <<case, report, decision, appeal>> /\ UNCHANGED <<sanction, invite, role>>
  BY DEF caseVars, accountVars, itemVars
<1>2. Placed'
  BY <1>1, PlacedThen, RowsRemainAlone DEF CommunityInvariant
<1>3. ItemsKept' /\ RowsToCome'
  BY <1>1, ItemsStay, RowsToComeRemain DEF CommunityInvariant
<1>4. CasesKept' /\ DecisionsKept' /\ AccountsKept'
  BY <1>1, CasesStay, DecisionsStay, AccountsStay DEF CommunityInvariant
<1> QED BY <1>2, <1>3, <1>4 DEF CommunityInvariant

(* One field of one moment changes. *)
LEMMA LikesCounted ==
    ASSUME CountsKept, NEW m \in Moments, NEW n \in Int, counts' = [counts EXCEPT ![m].likes = n],
           UNCHANGED <<bookmarks, item>>, Cardinality(LikesOf(m)') = n,
           \A k \in Moments : k # m => LikesOf(k)' = LikesOf(k)
    PROVE  CountsKept'
<1>1. \A k \in Moments : ShownOn(k)' = ShownOn(k) /\ BookmarksTo(k)' = BookmarksTo(k)
  BY DEF ShownOn, Shown, BookmarksTo
<1>2. /\ counts' \in [Moments -> ReactionCounts] /\ counts'[m].likes = n
      /\ \A k \in Moments : counts'[k].comments = counts[k].comments /\ counts'[k].bookmarks = counts[k].bookmarks
      /\ \A k \in Moments : k # m => counts'[k].likes = counts[k].likes
  BY DEF CountsKept, ReactionCounts
<1>3. \A k \in Moments : counts'[k].likes = Cardinality(LikesOf(k)')
  BY <1>2 DEF CountsKept
<1> QED BY <1>1, <1>2, <1>3 DEF CountsKept, ReactionCounts

LEMMA BookmarksCounted ==
    ASSUME CountsKept, NEW m \in Moments, NEW n \in Int, counts' = [counts EXCEPT ![m].bookmarks = n],
           UNCHANGED <<likes, item>>, Cardinality(BookmarksTo(m)') = n,
           \A k \in Moments : k # m => BookmarksTo(k)' = BookmarksTo(k)
    PROVE  CountsKept'
<1>1. \A k \in Moments : ShownOn(k)' = ShownOn(k) /\ LikesOf(k)' = LikesOf(k)
  BY DEF ShownOn, Shown, LikesOf
<1>2. /\ counts' \in [Moments -> ReactionCounts] /\ counts'[m].bookmarks = n
      /\ \A k \in Moments : counts'[k].comments = counts[k].comments /\ counts'[k].likes = counts[k].likes
      /\ \A k \in Moments : k # m => counts'[k].bookmarks = counts[k].bookmarks
  BY DEF CountsKept, ReactionCounts
<1>3. \A k \in Moments : counts'[k].bookmarks = Cardinality(BookmarksTo(k)')
  BY <1>2 DEF CountsKept
<1> QED BY <1>1, <1>2, <1>3 DEF CountsKept, ReactionCounts

LEMMA LikesAreFinite ==
    ASSUME ReactionsKept, CountsKept, NEW m \in Moments
    PROVE  IsFiniteSet(LikesOf(m)) /\ Cardinality(LikesOf(m)) \in Nat /\ counts[m].likes = Cardinality(LikesOf(m))
<1>1. LikesOf(m) \subseteq likes /\ IsFiniteSet(likes)
  BY DEF ReactionsKept, LikesOf
<1>2. IsFiniteSet(LikesOf(m))
  BY <1>1, FS_Subset
<1>3. Cardinality(LikesOf(m)) \in Nat
  BY <1>2, FS_CardinalityType
<1> QED BY <1>2, <1>3 DEF CountsKept

LEMMA BookmarksAreFinite ==
    ASSUME ReactionsKept, CountsKept, NEW m \in Moments
    PROVE  /\ IsFiniteSet(BookmarksTo(m)) /\ Cardinality(BookmarksTo(m)) \in Nat
           /\ counts[m].bookmarks = Cardinality(BookmarksTo(m))
<1>1. BookmarksTo(m) \subseteq bookmarks /\ IsFiniteSet(bookmarks)
  BY DEF ReactionsKept, BookmarksTo
<1>2. IsFiniteSet(BookmarksTo(m))
  BY <1>1, FS_Subset
<1>3. Cardinality(BookmarksTo(m)) \in Nat
  BY <1>2, FS_CardinalityType
<1> QED BY <1>2, <1>3 DEF CountsKept

(* A like more is one more, unless it was there. *)
LEMMA LikeIsCounted ==
    ASSUME ReactionsKept, CountsKept, NEW m \in Moments, NEW u \in Users, likes' = likes \cup {<<m, u>>},
           counts' = [counts EXCEPT ![m].likes = @ + IF <<m, u>> \in likes THEN 0 ELSE 1],
           UNCHANGED <<bookmarks, folders, item>>
    PROVE  ReactionsKept' /\ CountsKept'
<1> DEFINE l == <<m, u>>
           n == counts[m].likes + IF l \in likes THEN 0 ELSE 1
<1>1. ReactionsKept'
  <2>1. IsFiniteSet(likes')
    BY FS_AddElement DEF ReactionsKept
  <2> QED BY <2>1 DEF ReactionsKept
<1>2. LikesOf(m)' = LikesOf(m) \cup {l} /\ (l \in LikesOf(m) <=> l \in likes)
  BY DEF LikesOf
<1>3. \A k \in Moments : k # m => LikesOf(k)' = LikesOf(k)
  BY DEF LikesOf
<1>4. IsFiniteSet(LikesOf(m)) /\ Cardinality(LikesOf(m)) \in Nat /\ counts[m].likes = Cardinality(LikesOf(m))
  BY LikesAreFinite
<1>5. counts' = [counts EXCEPT ![m].likes = n] /\ UNCHANGED <<bookmarks, item>>
  OBVIOUS
<1>6. Cardinality(LikesOf(m)') = n /\ n \in Int
  <2>1. CASE LikesOf(m)' = LikesOf(m) /\ (l \in likes <=> TRUE)
    BY <1>4, <2>1
  <2>2. CASE l \notin likes
    <3>1. l \notin LikesOf(m) /\ n = Cardinality(LikesOf(m)) + 1
      BY <1>2, <1>4, <2>2
    <3> HIDE DEF n, l
    <3>2. Cardinality(LikesOf(m) \cup {l}) = Cardinality(LikesOf(m)) + 1
      BY <1>4, <3>1, FS_AddElement
    <3>3. n \in Int
      BY <1>4, <3>1
    <3> QED BY <1>2, <3>1, <3>2, <3>3
  <2> QED BY <1>2, <2>1, <2>2
<1> HIDE DEF n
<1>7. CountsKept'
  BY <1>3, <1>5, <1>6, LikesCounted
<1> QED BY <1>1, <1>7

LEMMA UnlikeIsCounted ==
    ASSUME ReactionsKept, CountsKept, NEW m \in Moments, NEW u \in Users, likes' = likes \ {<<m, u>>},
           counts' = [counts EXCEPT ![m].likes = @ - IF <<m, u>> \in likes THEN 1 ELSE 0],
           UNCHANGED <<bookmarks, folders, item>>
    PROVE  ReactionsKept' /\ CountsKept'
<1> DEFINE l == <<m, u>>
           n == counts[m].likes - IF l \in likes THEN 1 ELSE 0
<1>1. ReactionsKept'
  <2>1. IsFiniteSet(likes')
    BY FS_RemoveElement DEF ReactionsKept
  <2> QED BY <2>1 DEF ReactionsKept
<1>2. LikesOf(m)' = LikesOf(m) \ {l} /\ (l \in LikesOf(m) <=> l \in likes)
  BY DEF LikesOf
<1>3. \A k \in Moments : k # m => LikesOf(k)' = LikesOf(k)
  BY DEF LikesOf
<1>4. IsFiniteSet(LikesOf(m)) /\ Cardinality(LikesOf(m)) \in Nat /\ counts[m].likes = Cardinality(LikesOf(m))
  BY LikesAreFinite
<1>5. counts' = [counts EXCEPT ![m].likes = n] /\ UNCHANGED <<bookmarks, item>>
  OBVIOUS
<1>6. Cardinality(LikesOf(m)') = n /\ n \in Int
  <2>1. CASE LikesOf(m)' = LikesOf(m) /\ (l \in likes <=> FALSE)
    BY <1>4, <2>1
  <2>2. CASE l \in likes
    <3>1. l \in LikesOf(m) /\ n = Cardinality(LikesOf(m)) - 1
      BY <1>2, <1>4, <2>2
    <3> HIDE DEF n, l
    <3>2. Cardinality(LikesOf(m) \ {l}) = Cardinality(LikesOf(m)) - 1
      BY <1>4, <3>1, FS_RemoveElement
    <3>3. n \in Int
      BY <1>4, <3>1
    <3> QED BY <1>2, <3>1, <3>2, <3>3
  <2> QED BY <1>2, <2>1, <2>2
<1> HIDE DEF n
<1>7. CountsKept'
  BY <1>3, <1>5, <1>6, LikesCounted
<1> QED BY <1>1, <1>7

LEMMA LikeKeeps ==
    ASSUME CommunityInvariant, NEW r \in plot.requests, like(r)
    PROVE  CommunityInvariant'
<1>1. r.op = "like" /\ pc[r] \notin Ended /\ Placed
  BY DEF like, Arrives, Ended, CommunityInvariant
<1>2. CASE Refused(r)
  BY <1>1, <1>2, RefusalsKeep
<1>3. CASE ~Refused(r)
  <2>1. /\ likes' = likes \cup {<<r.about, r.user>>}
        /\ counts' = [counts EXCEPT ![r.about].likes = @ + IF <<r.about, r.user>> \in likes THEN 0 ELSE 1]
        /\ Done(r)
        /\ UNCHANGED <<relationVars, bookmarks, folders, itemVars, caseVars, accountVars>>
    BY <1>3 DEF like
  <2>2. StepOf(r) /\ pc'[r] = "done"
    BY <1>1, <2>1, DoneIsStep
  <2>3. r.about \in Moments /\ r.user \in Users
    BY <1>1, AboutMoments DEF ReactingOps
  <2>4. ReactionsKept' /\ CountsKept'
    BY <2>1, <2>3, LikeIsCounted DEF CommunityInvariant, itemVars
  <2> QED BY <2>1, <2>2, <2>4, ReactionStepKeeps
<1> QED BY <1>2, <1>3

LEMMA UnlikeKeeps ==
    ASSUME CommunityInvariant, NEW r \in plot.requests, unlike(r)
    PROVE  CommunityInvariant'
<1>1. r.op = "unlike" /\ pc[r] \notin Ended /\ Placed
  BY DEF unlike, Arrives, Ended, CommunityInvariant
<1>2. CASE Refused(r)
  BY <1>1, <1>2, RefusalsKeep
<1>3. CASE ~Refused(r)
  <2>1. /\ likes' = likes \ {<<r.about, r.user>>}
        /\ counts' = [counts EXCEPT ![r.about].likes = @ - IF <<r.about, r.user>> \in likes THEN 1 ELSE 0]
        /\ Done(r)
        /\ UNCHANGED <<relationVars, bookmarks, folders, itemVars, caseVars, accountVars>>
    BY <1>3 DEF unlike
  <2>2. StepOf(r) /\ pc'[r] = "done"
    BY <1>1, <2>1, DoneIsStep
  <2>3. r.about \in Moments /\ r.user \in Users
    BY <1>1, AboutMoments DEF ReactingOps
  <2>4. ReactionsKept' /\ CountsKept'
    BY <2>1, <2>3, UnlikeIsCounted DEF CommunityInvariant, itemVars
  <2> QED BY <2>1, <2>2, <2>4, ReactionStepKeeps
<1> QED BY <1>2, <1>3
-------------------------------------------------------------------------------
(* Comments and replies *)

LEMMA ReadCommentKeeps ==
    ASSUME CommunityInvariant, NEW r \in plot.requests, readComment(r)
    PROVE  CommunityInvariant'
<1>1. pc[r] \notin Ended
  BY DEF readComment, Arrives, Ended
<1>2. CASE Refused(r)
  BY <1>1, <1>2, RefusalsKeep
<1>3. CASE Done(r) /\ UNCHANGED <<relationVars, momentVars, itemVars, caseVars, accountVars>>
  BY <1>1, <1>3, AnsweringKeeps DEF tableVars
<1>4. CASE Reads(r, "look", NoSight)
  BY <1>1, <1>4, ReadingKeeps, NoSightIsSight
<1> QED BY <1>2, <1>3, <1>4 DEF readComment

LEMMA LookReplyKeeps ==
    ASSUME CommunityInvariant, NEW r \in plot.requests, lookReply(r)
    PROVE  CommunityInvariant'
<1> DEFINE sight == [NoSight EXCEPT !.row = IF r.to # Nothing /\ Answerable(r) THEN r.to ELSE Nothing]
<1>1. pc[r] \notin Ended /\ Reads(r, "write", sight)
  BY DEF lookReply, At, Ended
<1>2. r.to \in Comments \cup {Nothing}
  BY CommandsAsked DEF CommunityInvariant, Commands
<1>3. sight \in Sights
  BY <1>2, NoSightIsSight DEF NoSight, Sights
<1> HIDE DEF sight
<1> QED BY <1>1, <1>3, ReadingKeeps

LEMMA AboutComments ==
    ASSUME Placed, NEW r \in plot.requests, r.op \in {"comment", "removeComment"}
    PROVE  /\ r.about \in Comments /\ r.about \in Items /\ r.about \notin Threads \cup Posts \cup Moments
           /\ r.user \in Users
<1>1. r.about \in Comments
  <2>1. r.about \in Concerns(r.op)
    BY CommandsAsked
  <2> QED BY <2>1 DEF Concerns, ReactingOps, AboutUsers
<1>2. r.user \in Users
  BY CommandsAsked DEF Commands
<1> QED BY <1>1, <1>2, ItemKinds

(* A comment that is new hangs on its moment, and below a comment that is  *)
(* answered.                                                               *)
LEMMA NewCommentHangs ==
    ASSUME ItemsKept, NEW c \in Comments, item[c].state = "none", NEW m \in Moments, NEW to \in Comments \cup {Nothing},
           to # Nothing => Shown(to) /\ item[to].on = m,
           NEW row \in ItemRows, row.on = m, row.root = IF to = Nothing THEN Nothing ELSE Root(to),
           item' = [item EXCEPT ![c] = row]
    PROVE  HangsTogether(item')
<1>1. c \in Items /\ Nothing \notin Comments
  BY ItemKinds, CommunityAssumption DEF Targets
<1>2. item'[c] = row /\ \A d \in Comments : d # c => item'[d] = item[d]
  BY <1>1, ItemKinds DEF ItemsKept
<1>3. ASSUME NEW d \in Comments, item[d].state # "none"
      PROVE  /\ item[d].on \in Moments
             /\ item[d].root # Nothing =>
                   /\ item[d].root \in Comments /\ item[item[d].root].state # "none"
                   /\ item[item[d].root].root = Nothing /\ item[item[d].root].on = item[d].on
  BY <1>3 DEF ItemsKept, HangsTogether
<1>4. ASSUME NEW d \in Comments, item'[d].state # "none"
      PROVE  /\ item'[d].on \in Moments
             /\ item'[d].root # Nothing =>
                   /\ item'[d].root \in Comments /\ item'[item'[d].root].state # "none"
                   /\ item'[item'[d].root].root = Nothing /\ item'[item'[d].root].on = item'[d].on
  <2>1. CASE d # c
    <3>1. item'[d] = item[d] /\ item[d].state # "none"
      BY <1>2, <1>4, <2>1
    <3>2. item[d].root # Nothing => item[d].root # c /\ item[d].root \in Comments
      BY <1>3, <3>1
    <3> QED BY <1>2, <1>3, <3>1, <3>2
  <2>2. CASE d = c /\ to # Nothing
    <3>1. to \in Comments /\ item[to].state # "none" /\ to # c
      BY <2>2 DEF Shown
    <3>2. CASE item[to].root = Nothing
      <4>1. row.root = to
        BY <2>2, <3>2 DEF Root
      <4> QED BY <1>2, <2>2, <3>1, <3>2, <4>1
    <3>3. CASE item[to].root # Nothing
      <4>1. row.root = item[to].root
        BY <2>2, <3>3 DEF Root
      <4>2. /\ item[to].root \in Comments /\ item[item[to].root].state # "none"
            /\ item[item[to].root].root = Nothing /\ item[item[to].root].on = m
        BY <1>3, <2>2, <3>1, <3>3
      <4> QED BY <1>2, <2>2, <4>1, <4>2
    <3> QED BY <3>2, <3>3
  <2>3. CASE d = c /\ to = Nothing
    BY <1>2, <2>3
  <2> QED BY <2>1, <2>2, <2>3
<1> QED BY <1>4 DEF HangsTogether

LEMMA CreateCommentKeeps ==
    ASSUME CommunityInvariant, NEW r \in plot.requests, createComment(r)
    PROVE  CommunityInvariant'
<1> DEFINE m == r.on
           row == [state |-> "shown", author |-> r.user, on |-> m,
                   root |-> IF r.to = Nothing THEN Nothing ELSE Root(r.to), key |-> r.what, version |-> 0]
<1>1. r.op = "comment" /\ pc[r] = "write" /\ pc[r] \notin Ended /\ Placed
  BY DEF createComment, At, Ended, CommunityInvariant
<1>2. CASE Refused(r)
  BY <1>1, <1>2, RefusalsKeep
<1>3. CASE ~Refused(r)
  <2>1. /\ MayReply(r) /\ Done(r)
        /\ \/ UNCHANGED <<item, counts>>
           \/ /\ item' = [item EXCEPT ![r.about] = row]
              /\ counts' = [counts EXCEPT ![m].comments = @ + 1]
        /\ UNCHANGED <<relationVars, likes, bookmarks, folders, public, pinned, unread, hiddenBy, caseVars, accountVars>>
    BY <1>3 DEF createComment
  <2>2. StepOf(r) /\ pc'[r] = "done"
    BY <1>1, <2>1, DoneIsStep
  <2>3. CASE UNCHANGED <<item, counts>>
    <3>1. UNCHANGED tableVars
      BY <2>1, <2>3 DEF tableVars, itemVars, momentVars
    <3> QED BY <1>1, <2>1, <3>1, AnsweringKeeps
  <2>4. CASE item' = [item EXCEPT ![r.about] = row] /\ counts' = [counts EXCEPT ![m].comments = @ + 1]
    <3>1. r.about \in Comments /\ r.about \in Items /\ r.about \notin Moments /\ r.user \in Users /\ m \in Moments
      BY <1>1, AboutComments, CommandsAsked
    <3>2. /\ r.to \in Comments \cup {Nothing} /\ r.what \in STRING
          /\ r.to # Nothing => Shown(r.to) /\ item[r.to].on = m
      BY <1>1, <2>1, CommandsAsked DEF Commands, MayReply, Answerable
    <3>3. item[r.about].state = "none"
      BY <1>1 DEF CommunityInvariant, RowsToCome, WritingOps, Ended
    <3>4. row \in ItemRows
      <4>1. r.to # Nothing => Root(r.to) \in Items \cup {Nothing}
        <5>1. r.to # Nothing => r.to \in Items /\ item[r.to] \in ItemRows
          BY <3>2, ItemKinds DEF CommunityInvariant, ItemsKept
        <5> QED BY <5>1 DEF Root, ItemRows
      <4>2. m \in Items
        BY <3>1 DEF Items
      <4> QED BY <3>1, <3>2, <4>1, <4>2 DEF ItemRows
    <3>5. row.on = m /\ row.root = (IF r.to = Nothing THEN Nothing ELSE Root(r.to)) /\ row.state = "shown"
      OBVIOUS
    <3> HIDE DEF row
    <3>6. HangsTogether(item')
      BY <2>4, <3>1, <3>2, <3>3, <3>4, <3>5, NewCommentHangs DEF CommunityInvariant
    <3>7. item' \in [Items -> ItemRows] /\ item'[r.about] = row /\ \A j \in Items : j # r.about => item'[j] = item[j]
      BY <2>4, <3>1, <3>4 DEF CommunityInvariant, ItemsKept
    <3>8. \A j \in Items : item'[j].state = "ADMIN" => item[j].state = "ADMIN"
      BY <3>5, <3>7
    <3>9. ItemsKept'
      <4>1. /\ public \subseteq Items /\ pinned \subseteq Posts /\ unread \subseteq Items
            /\ hiddenBy \in [Items -> Nat] /\ (pinned \cup unread) \cap HiddenContent = {}
        BY DEF CommunityInvariant, ItemsKept
      <4>2. HiddenContent' \subseteq HiddenContent
        BY <3>8 DEF HiddenContent, HiddenByAdmin
      <4> QED BY <2>1, <3>6, <3>7, <4>1, <4>2 DEF ItemsKept, HangsTogether, ItemRows
    <3>10. RowsToCome'
      <4>1. \A j \in Moments \cup Comments : j # r.about => item'[j].state = item[j].state
        BY <3>7 DEF Items
      <4>2. r.op \in WritingOps /\ pc'[r] \in Ended
        BY <1>1, <2>2 DEF WritingOps, Ended
      <4> QED BY <1>1, <2>2, <4>1, <4>2, RowsToComeStay DEF CommunityInvariant
    <3>11. CountsKept'
      <4>1. \A c \in Comments : c # r.about => item'[c].on = item[c].on /\ item'[c].state = item[c].state
        BY <3>7, ItemKinds
      <4>2. ~Shown(r.about) /\ item'[r.about].state = "shown" /\ item'[r.about].on = m
        BY <3>3, <3>5, <3>7 DEF Shown
      <4> QED BY <2>1, <2>4, <3>1, <4>1, <4>2, OneCommentMore DEF CommunityInvariant
    <3>12. DecisionsKept'
      BY <2>1, <3>8, ShowingStands DEF CommunityInvariant, caseVars, accountVars
    <3> QED BY <2>1, <2>2, <3>9, <3>10, <3>11, <3>12, ContentStepKeeps
  <2> QED BY <2>1, <2>3, <2>4
<1> QED BY <1>2, <1>3

LEMMA RemoveCommentKeeps ==
    ASSUME CommunityInvariant, NEW r \in plot.requests, removeComment(r)
    PROVE  CommunityInvariant'
<1> DEFINE c == r.about
           state == CommentRemovalBy(r, c)
<1>1. r.op = "removeComment" /\ pc[r] \notin Ended /\ Placed
  BY DEF removeComment, Arrives, Ended, CommunityInvariant
<1>2. CASE Refused(r)
  BY <1>1, <1>2, RefusalsKeep
<1>3. CASE ~Refused(r)
  <2>1. /\ Done(r)
        /\ \/ /\ Shown(c) /\ item' = [item EXCEPT ![c].state = state] /\ hiddenBy' = [hiddenBy EXCEPT ![c] = 0]
              /\ unread' = ReadWith(c, state) /\ counts' = [counts EXCEPT ![item[c].on].comments = @ - 1]
           \/ UNCHANGED <<item, hiddenBy, unread, counts>>
        /\ UNCHANGED <<relationVars, likes, bookmarks, folders, public, pinned, caseVars, accountVars>>
    BY <1>3 DEF removeComment
  <2>2. StepOf(r) /\ pc'[r] = "done"
    BY <1>1, <2>1, DoneIsStep
  <2>3. CASE UNCHANGED <<item, hiddenBy, unread, counts>>
    <3>1. UNCHANGED tableVars
      BY <2>1, <2>3 DEF tableVars, itemVars, momentVars
    <3> QED BY <1>1, <2>1, <3>1, AnsweringKeeps
  <2>4. CASE ~UNCHANGED <<item, hiddenBy, unread, counts>>
    <3>1. c \in Comments /\ c \in Items /\ c \notin Posts
      BY <1>1, AboutComments
    <3>2. state \in Removals
      BY RemovalsBy DEF CommentRemovalBy, Removals
    <3>3. c \notin pinned' \cup unread'
      BY <2>1, <2>4, <3>1 DEF CommunityInvariant, ItemsKept, ReadWith
    <3>4. Removal(c, state, 0)
      BY <2>1, <2>4, <3>1, <3>2, <3>3 DEF Removal, ReadWith
    <3> QED BY <2>1, <2>2, <3>4, RemovalKeeps
  <2> QED BY <2>3, <2>4
<1> QED BY <1>2, <1>3
-------------------------------------------------------------------------------
(* Bookmarks *)

Without(u, m) == {b \in bookmarks : b[1] # m \/ b[2] # u}

(* A user has a moment in one folder at most. *)
LEMMA BookmarkGoes ==
    ASSUME ReactionsKept, CountsKept, NEW u \in Users, NEW m \in Moments
    PROVE  LET rest == {b \in Without(u, m) : b[1] = m}
           IN  /\ IsFiniteSet(Without(u, m)) /\ IsFiniteSet(rest) /\ Cardinality(rest) \in Nat
               /\ IsBookmarked(u, m) => Cardinality(rest) + 1 = counts[m].bookmarks
               /\ ~IsBookmarked(u, m) => Cardinality(rest) = counts[m].bookmarks
<1> DEFINE rest == {b \in Without(u, m) : b[1] = m}
<1>1. IsFiniteSet(Without(u, m))
  <2>1. Without(u, m) \subseteq bookmarks /\ IsFiniteSet(bookmarks)
    BY DEF Without, ReactionsKept
  <2> QED BY <2>1, FS_Subset
<1>2. IsFiniteSet(rest) /\ Cardinality(rest) \in Nat
  <2>1. IsFiniteSet(rest)
    <3>1. rest \subseteq Without(u, m)
      OBVIOUS
    <3> HIDE DEF rest
    <3> QED BY <1>1, <3>1, FS_Subset
  <2> QED BY <2>1, FS_CardinalityType
<1>3. /\ IsFiniteSet(BookmarksTo(m)) /\ Cardinality(BookmarksTo(m)) \in Nat
      /\ counts[m].bookmarks = Cardinality(BookmarksTo(m))
  BY BookmarksAreFinite
<1>4. CASE IsBookmarked(u, m)
  <2>1. PICK f \in Folders : <<m, u, f>> \in bookmarks
    BY <1>4 DEF IsBookmarked
  <2>2. rest = BookmarksTo(m) \ {<<m, u, f>>} /\ <<m, u, f>> \in BookmarksTo(m)
    <3>1. \A b \in bookmarks : b[1] = m /\ b[2] = u => b = <<m, u, f>>
      <4>1. <<m, u, f>>[1] = m /\ <<m, u, f>>[2] = u
        OBVIOUS
      <4> QED BY <2>1, <4>1 DEF ReactionsKept
    <3> QED BY <2>1, <3>1 DEF Without, BookmarksTo
  <2> HIDE DEF rest
  <2>3. Cardinality(rest) = Cardinality(BookmarksTo(m)) - 1
    <3> DEFINE b == <<m, u, f>>
    <3>1. b \in BookmarksTo(m) /\ rest = BookmarksTo(m) \ {b}
      BY <2>2
    <3> HIDE DEF b
    <3> QED BY <1>3, <3>1, FS_RemoveElement
  <2>4. Cardinality(rest) + 1 = counts[m].bookmarks
    BY <1>2, <1>3, <2>3
  <2> QED BY <1>1, <1>2, <1>4, <2>4 DEF rest
<1>5. CASE ~IsBookmarked(u, m)
  <2>1. rest = BookmarksTo(m)
    <3>1. \A b \in bookmarks : b[1] = m => b[2] # u
      <4>1. ASSUME NEW b \in bookmarks, b[1] = m, b[2] = u
            PROVE  FALSE
        <5>1. b = <<m, u, b[3]>> /\ b[3] \in Folders
          BY <4>1 DEF ReactionsKept
        <5> QED BY <1>5, <5>1, <4>1 DEF IsBookmarked
      <4> QED BY <4>1
    <3> QED BY <3>1 DEF Without, BookmarksTo
  <2> HIDE DEF rest
  <2>2. Cardinality(rest) = counts[m].bookmarks
    BY <1>3, <2>1
  <2> QED BY <1>1, <1>2, <1>5, <2>2 DEF rest
<1> QED BY <1>4, <1>5

(* A moment that is put into a folder is one bookmark more, unless it was  *)
(* in another.                                                             *)
LEMMA BookmarkIsCounted ==
    ASSUME ReactionsKept, CountsKept, NEW m \in Moments, NEW u \in Users, NEW f \in Folders, PutInto(u, m, f),
           counts' = [counts EXCEPT ![m].bookmarks = @ + IF IsBookmarked(u, m) THEN 0 ELSE 1],
           folders' \subseteq Users \X Folders, UNCHANGED <<likes, item>>
    PROVE  ReactionsKept' /\ CountsKept'
<1> DEFINE b == <<m, u, f>>
           rest == {c \in Without(u, m) : c[1] = m}
           n == counts[m].bookmarks + IF IsBookmarked(u, m) THEN 0 ELSE 1
<1>1. bookmarks' = Without(u, m) \cup {b} /\ b \notin Without(u, m) /\ b \in Moments \X Users \X Folders
  BY DEF PutInto, Without
<1>2. /\ IsFiniteSet(Without(u, m)) /\ IsFiniteSet(rest) /\ Cardinality(rest) \in Nat
      /\ IsBookmarked(u, m) => Cardinality(rest) + 1 = counts[m].bookmarks
      /\ ~IsBookmarked(u, m) => Cardinality(rest) = counts[m].bookmarks
  BY BookmarkGoes
<1>3. ReactionsKept'
  <2>1. IsFiniteSet(bookmarks')
    BY <1>1, <1>2, FS_AddElement
  <2>2. \A c, d \in bookmarks' : c[1] = d[1] /\ c[2] = d[2] => c = d
    BY <1>1 DEF ReactionsKept, Without
  <2>3. bookmarks' \subseteq Moments \X Users \X Folders
    BY <1>1 DEF ReactionsKept, Without
  <2> QED BY <2>1, <2>2, <2>3 DEF ReactionsKept
<1>4. counts' = [counts EXCEPT ![m].bookmarks = n] /\ n = Cardinality(rest) + 1
  BY <1>2 DEF CountsKept, ReactionCounts
<1>5. BookmarksTo(m)' = rest \cup {b} /\ b \notin rest
  BY <1>1 DEF BookmarksTo
<1>6. \A k \in Moments : k # m => BookmarksTo(k)' = BookmarksTo(k)
  BY <1>1 DEF BookmarksTo, Without
<1>7. UNCHANGED <<likes, item>>
  OBVIOUS
<1> HIDE DEF n, rest, b
<1>8. Cardinality(BookmarksTo(m)') = n /\ n \in Int
  <2>1. Cardinality(rest \cup {b}) = Cardinality(rest) + 1
    BY <1>2, <1>5, FS_AddElement
  <2> QED BY <1>2, <1>4, <1>5, <2>1
<1>9. CountsKept'
  BY <1>4, <1>6, <1>7, <1>8, BookmarksCounted
<1> QED BY <1>3, <1>9

LEMMA UnbookmarkIsCounted ==
    ASSUME ReactionsKept, CountsKept, NEW m \in Moments, NEW u \in Users, bookmarks' = Without(u, m),
           counts' = [counts EXCEPT ![m].bookmarks = @ - IF IsBookmarked(u, m) THEN 1 ELSE 0],
           UNCHANGED <<likes, folders, item>>
    PROVE  ReactionsKept' /\ CountsKept'
<1> DEFINE rest == {c \in Without(u, m) : c[1] = m}
           n == counts[m].bookmarks - IF IsBookmarked(u, m) THEN 1 ELSE 0
<1>1. /\ IsFiniteSet(Without(u, m)) /\ IsFiniteSet(rest) /\ Cardinality(rest) \in Nat
      /\ IsBookmarked(u, m) => Cardinality(rest) + 1 = counts[m].bookmarks
      /\ ~IsBookmarked(u, m) => Cardinality(rest) = counts[m].bookmarks
  BY BookmarkGoes
<1>2. ReactionsKept'
  <2>1. Without(u, m) \subseteq bookmarks
    BY DEF Without
  <2> QED BY <1>1, <2>1 DEF ReactionsKept
<1>3. counts' = [counts EXCEPT ![m].bookmarks = n]
  OBVIOUS
<1>4. n = Cardinality(rest)
  <2>1. counts[m].bookmarks \in Int
    BY DEF CountsKept, ReactionCounts
  <2> HIDE DEF rest
  <2> QED BY <1>1, <2>1
<1>5. BookmarksTo(m)' = rest
  BY DEF BookmarksTo
<1>6. \A k \in Moments : k # m => BookmarksTo(k)' = BookmarksTo(k)
  BY DEF BookmarksTo, Without
<1>7. UNCHANGED <<likes, item>>
  OBVIOUS
<1> HIDE DEF n, rest
<1>8. Cardinality(BookmarksTo(m)') = n /\ n \in Int
  BY <1>1, <1>4, <1>5
<1>9. CountsKept'
  BY <1>3, <1>6, <1>7, <1>8, BookmarksCounted
<1> QED BY <1>2, <1>9

LEMMA FoldersResolved ==
    ASSUME Placed, ReactionsKept, NEW r \in plot.requests, CanResolve(r)
    PROVE  Resolved(r) \in Folders
<1>1. plot.legacy \subseteq Users \X Folders /\ folders \subseteq Users \X Folders
  BY PlotsBeginWell DEF BeginsWell, ReactionsKept
<1> QED BY <1>1, CommunityAssumption DEF CanResolve, Resolved

LEMMA CreateFolderKeeps ==
    ASSUME CommunityInvariant, NEW r \in plot.requests, createFolder(r)
    PROVE  CommunityInvariant'
<1>1. r.op = "createFolder" /\ pc[r] \notin Ended /\ Placed /\ Done(r)
  BY DEF createFolder, Arrives, Ended, CommunityInvariant
<1>2. StepOf(r) /\ pc'[r] = "done"
  BY <1>1, DoneIsStep
<1>3. r.user \in Users /\ r.what \in Folders /\ Default \in Folders
  BY <1>1, CommandsAsked, CommunityAssumption DEF Commands
<1>4. /\ folders' = folders \cup {<<r.user, Default>>, <<r.user, r.what>>}
      /\ UNCHANGED <<relationVars, counts, likes, bookmarks, itemVars, caseVars, accountVars>>
  BY DEF createFolder
<1>5. ReactionsKept'
  BY <1>3, <1>4 DEF CommunityInvariant, ReactionsKept
<1>6. CountsKept'
  BY <1>4, CountsStay DEF CommunityInvariant, itemVars
<1> QED BY <1>2, <1>4, <1>5, <1>6, ReactionStepKeeps

LEMMA SetBookmarkKeeps ==
    ASSUME CommunityInvariant, NEW r \in plot.requests, setBookmark(r)
    PROVE  CommunityInvariant'
<1> DEFINE m == r.about
           there == IsBookmarked(r.user, m)
           stays == there /\ (r.what = "" \/ <<m, r.user, r.what>> \in bookmarks)
<1>1. r.op = "bookmark" /\ pc[r] \notin Ended /\ Placed
  BY DEF setBookmark, Arrives, Ended, CommunityInvariant
<1>2. CASE Refused(r)
  BY <1>1, <1>2, RefusalsKeep
<1>3. CASE ~Refused(r)
  <2>1. /\ stays \/ CanResolve(r)
        /\ IF stays
           THEN UNCHANGED <<bookmarks, folders>>
           ELSE /\ PutInto(r.user, m, Resolved(r))
                /\ folders' = folders \cup {<<r.user, Resolved(r)>>}
        /\ counts' = [counts EXCEPT ![m].bookmarks = @ + IF there THEN 0 ELSE 1]
        /\ Done(r)
        /\ UNCHANGED <<relationVars, likes, itemVars, caseVars, accountVars>>
    BY <1>3 DEF setBookmark
  <2>2. StepOf(r) /\ pc'[r] = "done"
    BY <1>1, <2>1, DoneIsStep
  <2>3. m \in Moments /\ r.user \in Users
    BY <1>1, AboutMoments DEF ReactingOps
  <2>4. CASE stays
    <3>1. counts' = counts
      <4>1. /\ counts' = [counts EXCEPT ![m].bookmarks = counts[m].bookmarks + 0]
            /\ counts[m].bookmarks \in Int
        BY <2>1, <2>3, <2>4 DEF CommunityInvariant, CountsKept, ReactionCounts
      <4>2. counts[m].bookmarks + 0 = counts[m].bookmarks
        BY <4>1
      <4> QED BY <2>3, <4>1, <4>2 DEF CommunityInvariant, CountsKept, ReactionCounts
    <3>2. UNCHANGED <<bookmarks, folders>>
      BY <2>1, <2>4
    <3>3. UNCHANGED tableVars
      BY <2>1, <3>1, <3>2 DEF tableVars, momentVars
    <3> QED BY <1>1, <2>1, <3>3, AnsweringKeeps
  <2>5. CASE ~stays
    <3>1. Resolved(r) \in Folders
      BY <1>1, <2>1, <2>5, FoldersResolved DEF CommunityInvariant
    <3>2. PutInto(r.user, m, Resolved(r)) /\ folders' = folders \cup {<<r.user, Resolved(r)>>}
      BY <2>1, <2>5
    <3>3. folders' \subseteq Users \X Folders
      BY <2>3, <3>1, <3>2 DEF CommunityInvariant, ReactionsKept
    <3>4. ReactionsKept' /\ CountsKept'
      BY <2>1, <2>3, <3>1, <3>2, <3>3, BookmarkIsCounted DEF CommunityInvariant, itemVars
    <3> QED BY <2>1, <2>2, <3>4, ReactionStepKeeps
  <2> QED BY <2>4, <2>5
<1> QED BY <1>2, <1>3

LEMMA UnsetBookmarkKeeps ==
    ASSUME CommunityInvariant, NEW r \in plot.requests, unsetBookmark(r)
    PROVE  CommunityInvariant'
<1>1. r.op = "unbookmark" /\ pc[r] \notin Ended /\ Placed
  BY DEF unsetBookmark, Arrives, Ended, CommunityInvariant
<1>2. CASE Refused(r)
  BY <1>1, <1>2, RefusalsKeep
<1>3. CASE ~Refused(r)
  <2>1. /\ bookmarks' = Without(r.user, r.about)
        /\ counts' = [counts EXCEPT ![r.about].bookmarks = @ - IF IsBookmarked(r.user, r.about) THEN 1 ELSE 0]
        /\ Done(r)
        /\ UNCHANGED <<relationVars, likes, folders, itemVars, caseVars, accountVars>>
    BY <1>3 DEF unsetBookmark, Without
  <2>2. StepOf(r) /\ pc'[r] = "done"
    BY <1>1, <2>1, DoneIsStep
  <2>3. r.about \in Moments /\ r.user \in Users
    BY <1>1, AboutMoments DEF ReactingOps
  <2>4. ReactionsKept' /\ CountsKept'
    BY <2>1, <2>3, UnbookmarkIsCounted DEF CommunityInvariant, itemVars
  <2> QED BY <2>1, <2>2, <2>4, ReactionStepKeeps
<1> QED BY <1>2, <1>3

LEMMA MoveKeeps ==
    ASSUME CommunityInvariant, NEW r \in plot.requests, move(r)
    PROVE  CommunityInvariant'
<1>1. r.op = "move" /\ pc[r] \notin Ended /\ Placed
  BY DEF move, Arrives, Ended, CommunityInvariant
<1>2. CASE Refused(r)
  BY <1>1, <1>2, RefusalsKeep
<1>3. CASE ~Refused(r)
  <2>1. /\ CanResolve(r) /\ IsBookmarked(r.user, r.about)
        /\ PutInto(r.user, r.about, Resolved(r)) /\ folders' = folders \cup {<<r.user, Resolved(r)>>}
        /\ Done(r)
        /\ UNCHANGED <<relationVars, counts, likes, itemVars, caseVars, accountVars>>
    BY <1>3 DEF move
  <2>2. StepOf(r) /\ pc'[r] = "done"
    BY <1>1, <2>1, DoneIsStep
  <2>3. r.about \in Moments /\ r.user \in Users /\ Resolved(r) \in Folders
    BY <1>1, <2>1, AboutMoments, FoldersResolved DEF ReactingOps, CommunityInvariant
  <2>4. folders' \subseteq Users \X Folders
    BY <2>1, <2>3 DEF CommunityInvariant, ReactionsKept
  <2>5. counts' = [counts EXCEPT ![r.about].bookmarks = @ + IF IsBookmarked(r.user, r.about) THEN 0 ELSE 1]
    <3>1. counts[r.about].bookmarks \in Int
      BY <2>3 DEF CommunityInvariant, CountsKept, ReactionCounts
    <3>2. counts[r.about].bookmarks + (IF IsBookmarked(r.user, r.about) THEN 0 ELSE 1) = counts[r.about].bookmarks
      BY <2>1, <3>1
    <3>3. counts = [counts EXCEPT ![r.about].bookmarks = counts[r.about].bookmarks]
      BY <2>3 DEF CommunityInvariant, CountsKept, ReactionCounts
    <3> QED BY <2>1, <3>2, <3>3
  <2>6. ReactionsKept' /\ CountsKept'
    BY <2>1, <2>3, <2>4, <2>5, BookmarkIsCounted DEF CommunityInvariant, itemVars
  <2> QED BY <2>1, <2>2, <2>6, ReactionStepKeeps
<1> QED BY <1>2, <1>3
-------------------------------------------------------------------------------
(* Hiding and restoring *)

LEMMA AboutItems ==
    ASSUME Placed, NEW r \in plot.requests, r.op \in {"hide", "restore"}
    PROVE  r.about \in Items
<1>1. r.about \in Concerns(r.op)
  BY CommandsAsked
<1> QED BY <1>1 DEF Concerns, ReactingOps, AboutUsers

LEMMA HidingRemoves ==
    ASSUME ItemsKept, NEW i \in Items, CanHide(i), NEW d \in Nat, Hides(i, d)
    PROVE  Removal(i, "ADMIN", d)
<1>1. i \in Below(i) /\ i \notin pinned' \cup unread'
  BY DEF Hides, Below
<1> QED BY <1>1 DEF Hides, Removal, Removals, CanHide

LEMMA HideContentKeeps ==
    ASSUME CommunityInvariant, NEW r \in plot.requests, hideContent(r)
    PROVE  CommunityInvariant'
<1>1. r.op = "hide" /\ pc[r] \notin Ended /\ Placed
  BY DEF hideContent, ByAdmin, Arrives, Ended, CommunityInvariant
<1>2. CASE Refused(r)
  BY <1>1, <1>2, RefusalsKeep
<1>3. CASE CanHide(r.about) /\ Hides(r.about, 0) /\ Done(r) /\ UNCHANGED <<caseVars, accountVars>>
  <2>1. StepOf(r) /\ pc'[r] = "done"
    BY <1>1, <1>3, DoneIsStep
  <2>2. r.about \in Items
    BY <1>1, AboutItems
  <2>3. Removal(r.about, "ADMIN", 0)
    BY <1>3, <2>2, HidingRemoves DEF CommunityInvariant
  <2>4. UNCHANGED <<relationVars, likes, bookmarks, folders, caseVars, accountVars>>
    BY <1>3 DEF Hides
  <2> QED BY <2>1, <2>3, <2>4, RemovalKeeps
<1> QED BY <1>2, <1>3 DEF hideContent

LEMMA ReadRestoreKeeps ==
    ASSUME CommunityInvariant, NEW r \in plot.requests, readRestore(r)
    PROVE  CommunityInvariant'
<1>1. pc[r] \notin Ended
  BY DEF readRestore, ByAdmin, Arrives, Ended
<1>2. CASE Refused(r)
  BY <1>1, <1>2, RefusalsKeep
<1>3. CASE Reads(r, "restore", NoSight)
  BY <1>1, <1>3, ReadingKeeps, NoSightIsSight
<1> QED BY <1>2, <1>3 DEF readRestore

LEMMA RestoreContentKeeps ==
    ASSUME CommunityInvariant, NEW r \in plot.requests, restoreContent(r)
    PROVE  CommunityInvariant'
<1>1. r.op = "restore" /\ pc[r] \notin Ended /\ Placed
  BY DEF restoreContent, At, Ended, CommunityInvariant
<1>2. CASE Refused(r)
  BY <1>1, <1>2, RefusalsKeep
<1>3. CASE Restorable(r.about) /\ Restores(r.about) /\ Done(r) /\ UNCHANGED <<caseVars, accountVars>>
  <2>1. StepOf(r) /\ pc'[r] = "done"
    BY <1>1, <1>3, DoneIsStep
  <2>2. r.about \in Items
    BY <1>1, AboutItems
  <2>3. Return(r.about)
    BY <1>3, <2>2 DEF Restores, Return, Restorable, Locked, CanRestore
  <2>4. UNCHANGED <<relationVars, likes, bookmarks, folders, caseVars, accountVars>>
    BY <1>3 DEF Restores
  <2> QED BY <2>1, <2>3, <2>4, ReturnKeeps
<1> QED BY <1>2, <1>3 DEF restoreContent

LEMMA WithdrawKeeps ==
    ASSUME CommunityInvariant, NEW r \in plot.requests, withdraw(r)
    PROVE  CommunityInvariant'
<1> DEFINE i == r.about
           state == IF i \in Threads THEN "OWNER" ELSE "AUTHOR"
<1>1. pc[r] \notin Ended /\ Placed /\ Done(r) /\ UNCHANGED <<relationVars, momentVars, caseVars, accountVars>>
  BY DEF withdraw, Arrives, Ended, CommunityInvariant
<1>2. StepOf(r) /\ pc'[r] = "done"
  BY <1>1, DoneIsStep
<1>3. UNCHANGED <<counts, likes, bookmarks, folders>>
  BY <1>1 DEF momentVars
<1>4. i \in Items /\ i \notin Comments /\ Shown(i)
  BY ItemKinds DEF withdraw, Items
<1>5. CASE /\ item' = [item EXCEPT ![i].state = state] /\ hiddenBy' = [hiddenBy EXCEPT ![i] = 0]
           /\ pinned' = pinned \ Below(i) /\ unread' = unread \ Below(i) /\ UNCHANGED public
  <2>1. state \in Removals /\ state # "ADMIN"
    BY DEF Removals
  <2>2. Removal(i, state, 0)
    BY <1>3, <1>4, <1>5, <2>1 DEF Removal
  <2> QED BY <1>1, <1>2, <1>3, <2>2, RemovalKeeps
<1>6. CASE public' = public \ {i} /\ UNCHANGED <<item, hiddenBy, pinned, unread>>
  <2>1. ItemsKept'
    BY <1>6 DEF CommunityInvariant, ItemsKept, HiddenContent, HiddenByAdmin, HangsTogether
  <2>2. RowsToCome' /\ CountsKept'
    BY <1>1, <1>2, <1>3, <1>6, RowsToComeRemain, CountsStay DEF CommunityInvariant
  <2>3. DecisionsKept'
    BY <1>1, <1>6, DecisionsStay DEF CommunityInvariant, caseVars, accountVars
  <2> QED BY <1>1, <1>2, <1>3, <2>1, <2>2, <2>3, ContentStepKeeps
<1> QED BY <1>5, <1>6 DEF withdraw

-------------------------------------------------------------------------------
(* Sanctions *)

(* A request that is done, and changed accounts. *)
LEMMA AccountStepKeeps ==
    ASSUME CommunityInvariant, NEW r, StepOf(r), pc'[r] = "done",
           UNCHANGED <<momentVars, itemVars, caseVars>>, AccountsKept', DecisionsKept'
    PROVE  CommunityInvariant'
<1>1. /\ UNCHANGED <<counts, likes, bookmarks, folders>> /\ UNCHANGED itemVars /\ UNCHANGED item
      /\ UNCHANGED <<case, report, decision, appeal>>
  BY DEF caseVars, momentVars, itemVars
<1>2. Placed'
  BY <1>1, PlacedThen, RowsRemainAlone DEF CommunityInvariant
<1>3. ItemsKept' /\ RowsToCome'
  BY <1>1, ItemsStay, RowsToComeRemain DEF CommunityInvariant
<1>4. ReactionsKept' /\ CountsKept' /\ CasesKept'
  BY <1>1, ReactionsStay, CountsStay, CasesStay DEF CommunityInvariant
<1> QED BY <1>2, <1>3, <1>4 DEF CommunityInvariant

(* Tables: the rows that are there may change, and one may be added. *)
LEMMA RowsChange ==
    ASSUME NEW S, NEW rows \in Seq(S), NEW after, after = [n \in DOMAIN rows |-> after[n]],
           \A n \in DOMAIN rows : after[n] \in S
    PROVE  after \in Seq(S) /\ DOMAIN after = DOMAIN rows /\ Len(after) = Len(rows)
<1>1. DOMAIN rows = 1..Len(rows) /\ Len(rows) \in Nat
  OBVIOUS
<1>2. after \in [1..Len(rows) -> S]
  BY <1>1
<1> QED BY <1>1, <1>2

LEMMA RowIsAdded ==
    ASSUME NEW S, NEW rows \in Seq(S), NEW row \in S
    PROVE  /\ Append(rows, row) \in Seq(S) /\ DOMAIN Append(rows, row) = DOMAIN rows \cup {Len(rows) + 1}
           /\ Len(Append(rows, row)) = Len(rows) + 1 /\ Len(rows) + 1 \in Nat \ {0}
           /\ Len(rows) + 1 \notin DOMAIN rows /\ Append(rows, row)[Len(rows) + 1] = row
           /\ \A n \in DOMAIN rows : Append(rows, row)[n] = rows[n]
OBVIOUS

(* Sanctions that are loosened, or stay: what they come from does not change. *)
SanctionsRemain ==
    /\ sanction' \in Seq(SanctionRows) /\ DOMAIN sanction' = DOMAIN sanction
    /\ \A s \in DOMAIN sanction :
          /\ sanction'[s].user = sanction[s].user /\ sanction'[s].decision = sanction[s].decision
          /\ sanction[s].revoked => sanction'[s].revoked

LEMMA RemainingIsOne ==
    ASSUME OneOpenSanction(sanction), SanctionsRemain
    PROVE  OneOpenSanction(sanction')
BY DEF OneOpenSanction, SanctionsRemain

LEMMA RemainingStands ==
    ASSUME DecisionsKept, SanctionsRemain, UNCHANGED <<item, hiddenBy, decision, appeal>>
    PROVE  DecisionsKept'
BY DEF DecisionsKept, DecisionsStand, SanctionsRemain

LEMMA RevokingRemains ==
    ASSUME sanction \in Seq(SanctionRows), NEW n, NEW after, after = [sanction EXCEPT ![n].revoked = TRUE],
           sanction' = after
    PROVE  SanctionsRemain
<1>1. \A s \in DOMAIN sanction : sanction[s] \in SanctionRows
  OBVIOUS
<1>2. \A s \in DOMAIN sanction :
          after[s] = IF s = n THEN [sanction[s] EXCEPT !.revoked = TRUE] ELSE sanction[s]
  OBVIOUS
<1>3. DOMAIN after = DOMAIN sanction /\ \A s \in DOMAIN sanction : after[s] \in SanctionRows
  BY <1>1, <1>2 DEF SanctionRows
<1>4. after \in Seq(SanctionRows)
  <2>1. ASSUME NEW a, a = after PROVE a \in Seq(SanctionRows)
    <3>1. a = [s \in DOMAIN sanction |-> a[s]] /\ \A s \in DOMAIN sanction : a[s] \in SanctionRows
      BY <1>3, <2>1
    <3> QED BY <3>1, RowsChange
  <2> QED BY <2>1
<1> QED BY <1>1, <1>2, <1>3, <1>4 DEF SanctionsRemain, SanctionRows

(* A new sanction takes the place of those that were open. *)
LEMMA SanctioningIsOne ==
    ASSUME sanction \in Seq(SanctionRows), NEW u \in Users, NEW ban \in BOOLEAN, NEW d \in Nat, Sanctions(u, ban, d)
    PROVE  /\ sanction' \in Seq(SanctionRows) /\ (OneOpenSanction(sanction) => OneOpenSanction(sanction'))
           /\ DOMAIN sanction' = DOMAIN sanction \cup {Len(sanction) + 1}
           /\ Len(sanction) + 1 \notin DOMAIN sanction /\ sanction'[Len(sanction) + 1].decision = d
           /\ \A s \in DOMAIN sanction :
                 /\ sanction'[s].user = sanction[s].user /\ sanction'[s].decision = sanction[s].decision
                 /\ sanction[s].revoked => sanction'[s].revoked
<1> DEFINE before == [s \in DOMAIN sanction |->
                         IF s \in OpenOf(u) THEN [sanction[s] EXCEPT !.revoked = TRUE] ELSE sanction[s]]
           new == [user |-> u, ban |-> ban, ended |-> FALSE, revoked |-> FALSE, decision |-> d]
<1>1. \A s \in DOMAIN sanction : sanction[s] \in SanctionRows
  OBVIOUS
<1>2. before = [s \in DOMAIN sanction |-> before[s]] /\ \A s \in DOMAIN sanction : before[s] \in SanctionRows
  BY <1>1 DEF SanctionRows
<1>3. new \in SanctionRows /\ new.user = u /\ ~new.revoked /\ new.decision = d
  BY DEF SanctionRows
<1>4. sanction' = Append(before, new)
  BY DEF Sanctions
<1>5. \A s \in DOMAIN sanction :
          /\ before[s].user = sanction[s].user /\ before[s].decision = sanction[s].decision
          /\ before[s].revoked <=> (sanction[s].revoked \/ sanction[s].user = u)
  BY <1>1 DEF SanctionRows, OpenOf
<1> HIDE DEF before, new
<1>6. before \in Seq(SanctionRows) /\ DOMAIN before = DOMAIN sanction /\ Len(before) = Len(sanction)
  BY <1>2, RowsChange
<1>7. /\ sanction' \in Seq(SanctionRows) /\ DOMAIN sanction' = DOMAIN sanction \cup {Len(sanction) + 1}
      /\ Len(sanction) + 1 \notin DOMAIN sanction /\ sanction'[Len(sanction) + 1] = new
      /\ \A s \in DOMAIN sanction : sanction'[s] = before[s]
  BY <1>3, <1>4, <1>6, RowIsAdded
<1>8. OneOpenSanction(sanction) => OneOpenSanction(sanction')
  BY <1>3, <1>5, <1>7 DEF OneOpenSanction
<1> QED BY <1>3, <1>5, <1>7, <1>8

LEMMA SanctioningStands ==
    ASSUME DecisionsKept, AccountsKept, NEW u \in Users, NEW ban \in BOOLEAN, Sanctions(u, ban, 0),
           UNCHANGED <<item, hiddenBy, decision, appeal>>
    PROVE  DecisionsKept'
<1>1. /\ DOMAIN sanction' = DOMAIN sanction \cup {Len(sanction) + 1} /\ sanction'[Len(sanction) + 1].decision = 0
      /\ \A s \in DOMAIN sanction :
            /\ sanction'[s].decision = sanction[s].decision
            /\ sanction[s].revoked => sanction'[s].revoked
  BY SanctioningIsOne DEF AccountsKept
<1> QED BY <1>1 DEF DecisionsKept, DecisionsStand

LEMMA SanctioningKept ==
    ASSUME AccountsKept, NEW u \in Users, NEW ban \in BOOLEAN, NEW d \in Nat, Sanctions(u, ban, d),
           UNCHANGED relationVars
    PROVE  AccountsKept'
<1>1. sanction' \in Seq(SanctionRows) /\ OneOpenSanction(sanction')
  BY SanctioningIsOne DEF AccountsKept
<1> QED BY <1>1 DEF AccountsKept, Sanctions, relationVars, RelationsOK, OneOpenSanction

LEMMA AboutUsersAre ==
    ASSUME Placed, NEW r \in plot.requests, r.op \in AboutUsers
    PROVE  r.about \in Users /\ r.user \in Users
<1>1. r.about \in Concerns(r.op)
  BY CommandsAsked
<1>2. r.user \in Users
  BY CommandsAsked DEF Commands
<1> QED BY <1>1, <1>2 DEF Concerns, ReactingOps, AboutUsers

LEMMA SanctionUserKeeps ==
    ASSUME CommunityInvariant, NEW r \in plot.requests, sanctionUser(r)
    PROVE  CommunityInvariant'
<1>1. r.op = "sanction" /\ pc[r] \notin Ended /\ Placed
  BY DEF sanctionUser, ByAdmin, Arrives, Ended, CommunityInvariant
<1>2. CASE Refused(r)
  BY <1>1, <1>2, RefusalsKeep
<1>3. CASE ~Refused(r)
  <2>1. Sanctions(r.about, Ban(r), 0) /\ Done(r) /\ UNCHANGED <<relationVars, momentVars, itemVars, caseVars>>
    BY <1>3 DEF sanctionUser
  <2>2. StepOf(r) /\ pc'[r] = "done"
    BY <1>1, <2>1, DoneIsStep
  <2>3. r.about \in Users /\ Ban(r) \in BOOLEAN
    BY <1>1, AboutUsersAre DEF AboutUsers, Ban
  <2>4. AccountsKept'
    BY <2>1, <2>3, SanctioningKept DEF CommunityInvariant
  <2>5. DecisionsKept'
    BY <2>1, <2>3, SanctioningStands DEF CommunityInvariant, itemVars, caseVars
  <2> QED BY <2>1, <2>2, <2>4, <2>5, AccountStepKeeps
<1> QED BY <1>2, <1>3

LEMMA ReadRevokeKeeps ==
    ASSUME CommunityInvariant, NEW r \in plot.requests, readRevoke(r)
    PROVE  CommunityInvariant'
<1>1. pc[r] \notin Ended
  BY DEF readRevoke, ByAdmin, Arrives, Ended
<1>2. CASE Refused(r)
  BY <1>1, <1>2, RefusalsKeep
<1>3. ASSUME NEW s \in EffectiveOf(r.about), Reads(r, "revoke", [NoSight EXCEPT !.n = s])
      PROVE  CommunityInvariant'
  <2>1. s \in Nat
    BY DEF EffectiveOf, OpenOf, CommunityInvariant, AccountsKept
  <2>2. [NoSight EXCEPT !.n = s] \in Sights
    BY <2>1, NoSightIsSight DEF NoSight, Sights
  <2> QED BY <1>1, <1>3, <2>2, ReadingKeeps
<1> QED BY <1>2, <1>3 DEF readRevoke

LEMMA RevokeSanctionKeeps ==
    ASSUME CommunityInvariant, NEW r \in plot.requests, revokeSanction(r)
    PROVE  CommunityInvariant'
<1>1. /\ pc[r] \notin Ended /\ Placed /\ Done(r) /\ sanction' = [sanction EXCEPT ![seen[r].n].revoked = TRUE]
      /\ UNCHANGED <<relationVars, momentVars, itemVars, caseVars, role, invite>>
  BY DEF revokeSanction, At, Ended, CommunityInvariant
<1>2. StepOf(r) /\ pc'[r] = "done"
  BY <1>1, DoneIsStep
<1>3. SanctionsRemain
  BY <1>1, RevokingRemains DEF CommunityInvariant, AccountsKept
<1>4. AccountsKept'
  BY <1>1, <1>3, RemainingIsOne
     DEF CommunityInvariant, AccountsKept, SanctionsRemain, relationVars, RelationsOK, OneOpenSanction
<1>5. DecisionsKept'
  BY <1>1, <1>3, RemainingStands DEF CommunityInvariant, itemVars, caseVars
<1> QED BY <1>1, <1>2, <1>4, <1>5, AccountStepKeeps

LEMMA SuspensionEndsKeeps ==
    ASSUME CommunityInvariant, NEW s \in DOMAIN sanction, suspensionEnds(s)
    PROVE  CommunityInvariant'
<1>1. /\ sanction' = [sanction EXCEPT ![s].ended = TRUE]
      /\ UNCHANGED <<plot, relationVars, momentVars, itemVars, caseVars, role, invite, requestVars>>
  BY DEF suspensionEnds
<1>2. SanctionsRemain
  <2>1. sanction \in Seq(SanctionRows) /\ \A n \in DOMAIN sanction : sanction[n] \in SanctionRows
    BY DEF CommunityInvariant, AccountsKept
  <2>2. \A n \in DOMAIN sanction :
            sanction'[n] = IF n = s THEN [sanction[n] EXCEPT !.ended = TRUE] ELSE sanction[n]
    BY <1>1
  <2>3. DOMAIN sanction' = DOMAIN sanction /\ \A n \in DOMAIN sanction : sanction'[n] \in SanctionRows
    BY <1>1, <2>1, <2>2 DEF SanctionRows
  <2>4. sanction' = [n \in DOMAIN sanction |-> sanction'[n]]
    BY <1>1
  <2>5. sanction' \in Seq(SanctionRows)
    BY <2>1, <2>3, <2>4, RowsChange
  <2> QED BY <2>1, <2>2, <2>3, <2>5 DEF SanctionsRemain, SanctionRows
<1>3. AccountsKept'
  BY <1>1, <1>2, RemainingIsOne
     DEF CommunityInvariant, AccountsKept, SanctionsRemain, relationVars, RelationsOK, OneOpenSanction
<1>4. DecisionsKept'
  BY <1>1, <1>2, RemainingStands DEF CommunityInvariant, itemVars, caseVars
<1>5. /\ UNCHANGED <<counts, likes, bookmarks, folders>> /\ UNCHANGED itemVars /\ UNCHANGED item
      /\ UNCHANGED <<case, report, appeal>> /\ UNCHANGED <<plot, pc, seen>>
  BY <1>1 DEF caseVars, momentVars, itemVars, requestVars
<1>6. Placed' /\ RowsToCome'
  BY <1>5 DEF CommunityInvariant, Placed, Remembers, At, RowsToCome, CompatibleWithCase
<1>7. ItemsKept' /\ ReactionsKept' /\ CountsKept' /\ CasesKept'
  BY <1>5, ItemsStay, ReactionsStay, CountsStay, CasesStay DEF CommunityInvariant
<1> QED BY <1>3, <1>4, <1>6, <1>7 DEF CommunityInvariant
-------------------------------------------------------------------------------
(* Administrators *)

(* A request that is done, and changed roles and invitations. *)
LEMMA StaffStepKeeps ==
    ASSUME CommunityInvariant, NEW r \in plot.requests, pc[r] \notin Ended, Done(r),
           UNCHANGED <<relationVars, momentVars, itemVars, caseVars, sanction>>,
           invite' \in Seq(InviteRows), role' \in [Users -> Roles], OneSuperAdmin(role', gone)
    PROVE  CommunityInvariant'
<1>1. StepOf(r) /\ pc'[r] = "done"
  BY DoneIsStep DEF CommunityInvariant
<1>2. UNCHANGED <<item, hiddenBy, decision, appeal, sanction>> /\ UNCHANGED gone
  BY DEF itemVars, caseVars, relationVars
<1>3. AccountsKept'
  BY <1>2 DEF CommunityInvariant, AccountsKept, relationVars, RelationsOK, OneOpenSanction, OneSuperAdmin
<1>4. DecisionsKept'
  BY <1>2, DecisionsStay DEF CommunityInvariant
<1> QED BY <1>1, <1>3, <1>4, AccountStepKeeps

(* An invitation that changes is one still. *)
LEMMA InvitesChange ==
    ASSUME invite \in Seq(InviteRows), NEW n, NEW after, DOMAIN after = DOMAIN invite,
           after = [k \in DOMAIN invite |-> after[k]],
           \A k \in DOMAIN invite :
               \/ after[k] = invite[k] \/ after[k] = [invite[k] EXCEPT !.over = TRUE]
               \/ \E status \in {"ACCEPTED", "CANCELED"} : after[k] = [invite[k] EXCEPT !.status = status]
    PROVE  after \in Seq(InviteRows)
<1>1. \A k \in DOMAIN invite : invite[k] \in InviteRows
  OBVIOUS
<1>2. ASSUME NEW k \in DOMAIN invite PROVE after[k] \in InviteRows
  <2>1. invite[k] \in InviteRows
    BY <1>1
  <2>2. CASE after[k] = invite[k]
    BY <2>1, <2>2
  <2>3. CASE after[k] = [invite[k] EXCEPT !.over = TRUE]
    BY <2>1, <2>3 DEF InviteRows
  <2>4. ASSUME NEW status \in {"ACCEPTED", "CANCELED"}, after[k] = [invite[k] EXCEPT !.status = status]
        PROVE  after[k] \in InviteRows
    BY <2>1, <2>4 DEF InviteRows
  <2> QED BY <2>2, <2>3, <2>4
<1> QED BY <1>2, RowsChange

LEMMA InviteAdminKeeps ==
    ASSUME CommunityInvariant, NEW r \in plot.requests, inviteAdmin(r)
    PROVE  CommunityInvariant'
<1>1. r.op = "invite" /\ pc[r] \notin Ended /\ Placed
  BY DEF inviteAdmin, BySuper, Arrives, Ended, CommunityInvariant
<1>2. CASE Refused(r)
  BY <1>1, <1>2, RefusalsKeep
<1>3. CASE ~Refused(r)
  <2> DEFINE row == [user |-> r.about, status |-> "PENDING", over |-> FALSE]
  <2>1. /\ invite' = Append(invite, row) /\ Done(r)
        /\ UNCHANGED <<relationVars, momentVars, itemVars, caseVars, sanction, role>>
    BY <1>3 DEF inviteAdmin
  <2>2. row \in InviteRows
    BY <1>1, AboutUsersAre DEF AboutUsers, InviteRows
  <2> HIDE DEF row
  <2>3. invite' \in Seq(InviteRows)
    BY <2>1, <2>2 DEF CommunityInvariant, AccountsKept
  <2>4. role' \in [Users -> Roles] /\ OneSuperAdmin(role', gone)
    BY <2>1 DEF CommunityInvariant, AccountsKept
  <2>5. UNCHANGED <<relationVars, momentVars, itemVars, caseVars, sanction>>
    BY <2>1
  <2> QED BY <1>1, <2>1, <2>3, <2>4, <2>5, StaffStepKeeps
<1> QED BY <1>2, <1>3

LEMMA ReadAcceptKeeps ==
    ASSUME CommunityInvariant, NEW r \in plot.requests, readAccept(r)
    PROVE  CommunityInvariant'
<1>1. pc[r] \notin Ended
  BY DEF readAccept, Arrives, Ended
<1>2. CASE Refused(r)
  BY <1>1, <1>2, RefusalsKeep
<1>3. CASE Reads(r, "accept", NoSight)
  BY <1>1, <1>3, ReadingKeeps, NoSightIsSight
<1> QED BY <1>2, <1>3 DEF readAccept

LEMMA AcceptInviteKeeps ==
    ASSUME CommunityInvariant, NEW r \in plot.requests, acceptInvite(r)
    PROVE  CommunityInvariant'
<1>1. /\ pc[r] \notin Ended /\ Done(r) /\ role' = [role EXCEPT ![r.user] = "ADMIN"]
      /\ invite' = [invite EXCEPT ![r.n].status = "ACCEPTED"]
      /\ UNCHANGED <<relationVars, momentVars, itemVars, caseVars, sanction>>
  BY DEF acceptInvite, At, Ended
<1>2. invite' \in Seq(InviteRows)
  <2>1. DOMAIN invite' = DOMAIN invite /\ invite' = [k \in DOMAIN invite |-> invite'[k]]
    BY <1>1
  <2>2. \A k \in DOMAIN invite : invite'[k] = invite[k] \/ invite'[k] = [invite[k] EXCEPT !.status = "ACCEPTED"]
    BY <1>1
  <2> QED BY <2>1, <2>2, InvitesChange DEF CommunityInvariant, AccountsKept
<1>3. role' \in [Users -> Roles] /\ OneSuperAdmin(role', gone)
  BY <1>1 DEF CommunityInvariant, AccountsKept, OneSuperAdmin, Roles
<1> QED BY <1>1, <1>2, <1>3, StaffStepKeeps

LEMMA ReadCancelKeeps ==
    ASSUME CommunityInvariant, NEW r \in plot.requests, readCancel(r)
    PROVE  CommunityInvariant'
<1>1. pc[r] \notin Ended
  BY DEF readCancel, BySuper, Arrives, Ended
<1>2. CASE Refused(r)
  BY <1>1, <1>2, RefusalsKeep
<1>3. CASE Reads(r, "cancel", NoSight)
  BY <1>1, <1>3, ReadingKeeps, NoSightIsSight
<1> QED BY <1>2, <1>3 DEF readCancel

LEMMA CancelInviteKeeps ==
    ASSUME CommunityInvariant, NEW r \in plot.requests, cancelInvite(r)
    PROVE  CommunityInvariant'
<1>1. /\ pc[r] \notin Ended /\ Done(r) /\ invite' = [invite EXCEPT ![r.n].status = "CANCELED"]
      /\ UNCHANGED <<relationVars, momentVars, itemVars, caseVars, sanction>> /\ UNCHANGED role
  BY DEF cancelInvite, At, Ended
<1>2. invite' \in Seq(InviteRows)
  <2>1. DOMAIN invite' = DOMAIN invite /\ invite' = [k \in DOMAIN invite |-> invite'[k]]
    BY <1>1
  <2>2. \A k \in DOMAIN invite : invite'[k] = invite[k] \/ invite'[k] = [invite[k] EXCEPT !.status = "CANCELED"]
    BY <1>1
  <2> QED BY <2>1, <2>2, InvitesChange DEF CommunityInvariant, AccountsKept
<1>3. role' \in [Users -> Roles] /\ OneSuperAdmin(role', gone)
  BY <1>1 DEF CommunityInvariant, AccountsKept
<1> QED BY <1>1, <1>2, <1>3, StaffStepKeeps

LEMMA InviteRunsOutKeeps ==
    ASSUME CommunityInvariant, NEW n \in DOMAIN invite, inviteRunsOut(n)
    PROVE  CommunityInvariant'
<1>1. /\ invite' = [invite EXCEPT ![n].over = TRUE]
      /\ UNCHANGED <<plot, relationVars, momentVars, itemVars, caseVars, sanction, role, requestVars>>
  BY DEF inviteRunsOut
<1>2. invite' \in Seq(InviteRows)
  <2>1. DOMAIN invite' = DOMAIN invite /\ invite' = [k \in DOMAIN invite |-> invite'[k]]
    BY <1>1
  <2>2. \A k \in DOMAIN invite : invite'[k] = invite[k] \/ invite'[k] = [invite[k] EXCEPT !.over = TRUE]
    BY <1>1
  <2> QED BY <2>1, <2>2, InvitesChange DEF CommunityInvariant, AccountsKept
<1>3. AccountsKept'
  BY <1>1, <1>2
     DEF CommunityInvariant, AccountsKept, relationVars, RelationsOK, OneOpenSanction, OneSuperAdmin
<1>4. /\ UNCHANGED <<counts, likes, bookmarks, folders>> /\ UNCHANGED itemVars /\ UNCHANGED item
      /\ UNCHANGED <<case, report, appeal>> /\ UNCHANGED <<plot, pc, seen>>
      /\ UNCHANGED <<item, hiddenBy, decision, appeal, sanction>>
  BY <1>1 DEF caseVars, momentVars, itemVars, requestVars
<1>5. Placed' /\ RowsToCome'
  BY <1>4 DEF CommunityInvariant, Placed, Remembers, At, RowsToCome, CompatibleWithCase
<1>6. ItemsKept' /\ ReactionsKept' /\ CountsKept' /\ CasesKept' /\ DecisionsKept'
  BY <1>4, ItemsStay, ReactionsStay, CountsStay, CasesStay, DecisionsStay DEF CommunityInvariant
<1> QED BY <1>3, <1>5, <1>6 DEF CommunityInvariant

LEMMA ReadDismissKeeps ==
    ASSUME CommunityInvariant, NEW r \in plot.requests, readDismiss(r)
    PROVE  CommunityInvariant'
<1>1. pc[r] \notin Ended
  BY DEF readDismiss, BySuper, Arrives, Ended
<1>2. CASE Refused(r)
  BY <1>1, <1>2, RefusalsKeep
<1>3. CASE Reads(r, "dismiss", NoSight)
  BY <1>1, <1>3, ReadingKeeps, NoSightIsSight
<1> QED BY <1>2, <1>3 DEF readDismiss

LEMMA DismissKeeps ==
    ASSUME CommunityInvariant, NEW r \in plot.requests, dismiss(r)
    PROVE  CommunityInvariant'
<1>1. /\ pc[r] \notin Ended /\ Done(r) /\ role' = [role EXCEPT ![r.about] = "USER"]
      /\ UNCHANGED <<relationVars, momentVars, itemVars, caseVars, sanction>> /\ UNCHANGED invite
  BY DEF dismiss, At, Ended
<1>2. invite' \in Seq(InviteRows)
  BY <1>1 DEF CommunityInvariant, AccountsKept
<1>3. role' \in [Users -> Roles] /\ OneSuperAdmin(role', gone)
  BY <1>1 DEF CommunityInvariant, AccountsKept, OneSuperAdmin, Roles
<1> QED BY <1>1, <1>2, <1>3, StaffStepKeeps

LEMMA ReadTransferKeeps ==
    ASSUME CommunityInvariant, NEW r \in plot.requests, readTransfer(r)
    PROVE  CommunityInvariant'
<1>1. pc[r] \notin Ended
  BY DEF readTransfer, BySuper, Arrives, Ended
<1>2. CASE Refused(r)
  BY <1>1, <1>2, RefusalsKeep
<1>3. CASE Reads(r, "transfer", NoSight)
  BY <1>1, <1>3, ReadingKeeps, NoSightIsSight
<1> QED BY <1>2, <1>3 DEF readTransfer

LEMMA TransferKeeps ==
    ASSUME CommunityInvariant, NEW r \in plot.requests, transferSuperAdmin(r)
    PROVE  CommunityInvariant'
<1>1. r.op = "transfer" /\ pc[r] \notin Ended /\ Placed
  BY DEF transferSuperAdmin, At, Ended, CommunityInvariant
<1>2. CASE Refused(r)
  BY <1>1, <1>2, RefusalsKeep
<1>3. CASE ~Refused(r)
  <2>1. /\ SeatIsFree(r) /\ Done(r) /\ role' = [role EXCEPT ![r.user] = "ADMIN", ![r.about] = "SUPER_ADMIN"]
        /\ UNCHANGED <<relationVars, momentVars, itemVars, caseVars, sanction>> /\ UNCHANGED invite
    BY <1>3 DEF transferSuperAdmin
  <2>2. invite' \in Seq(InviteRows)
    BY <2>1 DEF CommunityInvariant, AccountsKept
  <2>3. r.about \in Users /\ r.user \in Users
    BY <1>1, AboutUsersAre DEF AboutUsers
  <2>4. role' \in [Users -> Roles]
    BY <2>1, <2>3 DEF CommunityInvariant, AccountsKept, Roles
  <2>5. \A u \in Users : role'[u] = "SUPER_ADMIN" => u = r.about \/ (u # r.user /\ role[u] = "SUPER_ADMIN")
    BY <2>1, <2>3 DEF CommunityInvariant, AccountsKept
  <2>6. OneSuperAdmin(role', gone)
    BY <2>1, <2>3, <2>5 DEF CommunityInvariant, AccountsKept, OneSuperAdmin, SeatIsFree
  <2> QED BY <1>1, <2>1, <2>2, <2>4, <2>6, StaffStepKeeps
<1> QED BY <1>2, <1>3

-------------------------------------------------------------------------------
(* Blocks, and accounts that are left *)

LEMMA RelationStepKeeps ==
    ASSUME CommunityInvariant, NEW r \in plot.requests, pc[r] \notin Ended, Done(r),
           UNCHANGED <<momentVars, itemVars, caseVars>>, UNCHANGED <<sanction, invite, role>>,
           RelationsOK', gone \subseteq gone'
    PROVE  CommunityInvariant'
<1>1. StepOf(r) /\ pc'[r] = "done"
  BY DoneIsStep DEF CommunityInvariant
<1>2. UNCHANGED <<item, hiddenBy, decision, appeal, sanction>>
  BY DEF itemVars, caseVars
<1>3. AccountsKept'
  BY DEF CommunityInvariant, AccountsKept, OneOpenSanction, OneSuperAdmin
<1>4. DecisionsKept'
  BY <1>2, DecisionsStay DEF CommunityInvariant
<1> QED BY <1>1, <1>3, <1>4, AccountStepKeeps

LEMMA BlockUserKeeps ==
    ASSUME CommunityInvariant, NEW r \in plot.requests, blockUser(r) \/ unblockUser(r)
    PROVE  CommunityInvariant'
<1>1. /\ r.op \in {"block", "unblock"} /\ pc[r] \notin Ended /\ Done(r) /\ Placed
      /\ UNCHANGED <<momentVars, itemVars, caseVars>> /\ UNCHANGED <<sanction, invite, role>>
  BY DEF blockUser, unblockUser, Arrives, Ended, CommunityInvariant, accountVars
<1>2. r.about \in Users /\ r.user \in Users
  BY <1>1, AboutUsersAre DEF AboutUsers
<1>3. RelationsOK' /\ gone \subseteq gone'
  BY <1>2 DEF CommunityInvariant, AccountsKept, blockUser, unblockUser, block, unblock, RelationsOK
<1> QED BY <1>1, <1>3, RelationStepKeeps

LEMMA LeaveKeeps ==
    ASSUME CommunityInvariant, NEW r \in plot.requests, leave(r)
    PROVE  CommunityInvariant'
<1>1. /\ pc[r] \notin Ended /\ Done(r) /\ r.user \in Users
      /\ UNCHANGED <<momentVars, itemVars, caseVars>> /\ UNCHANGED <<sanction, invite, role>>
  BY CommandsAsked DEF leave, Arrives, Ended, CommunityInvariant, Commands
<1>2. RelationsOK' /\ gone \subseteq gone'
  BY <1>1 DEF CommunityInvariant, AccountsKept, leave, deactivate, RelationsOK
<1> QED BY <1>1, <1>2, RelationStepKeeps
-------------------------------------------------------------------------------
(* Reports *)

LEMMA ReadTargetKeeps ==
    ASSUME CommunityInvariant, NEW r \in plot.requests, readTarget(r)
    PROVE  CommunityInvariant'
<1>1. pc[r] \notin Ended
  BY DEF readTarget, Arrives, Ended
<1>2. CASE Refused(r)
  BY <1>1, <1>2, RefusalsKeep
<1>3. CASE Reads(r, "find", NoSight)
  BY <1>1, <1>3, ReadingKeeps, NoSightIsSight
<1> QED BY <1>2, <1>3 DEF readTarget

LEMMA FindCaseKeeps ==
    ASSUME CommunityInvariant, NEW r \in plot.requests, findCase(r)
    PROVE  CommunityInvariant'
<1>1. pc[r] \notin Ended
  BY DEF findCase, At, Ended
<1>2. PICK c \in IF OpenCases(r.about) = {} THEN {0} ELSE OpenCases(r.about) :
               Reads(r, "insert", [seen[r] EXCEPT !.n = c])
  BY DEF findCase
<1>3. c \in Nat
  BY <1>2 DEF OpenCases, CommunityInvariant, CasesKept
<1>4. [seen[r] EXCEPT !.n = c] \in Sights
  BY <1>3 DEF CommunityInvariant, Placed, Sights
<1> QED BY <1>1, <1>2, <1>4, ReadingKeeps

(* A request that is done, and leaves the tables sound. *)
LEMMA CaseStepKeeps ==
    ASSUME CommunityInvariant, NEW r, StepOf(r), pc'[r] = "done", RowsRemain,
           ItemsKept', RowsToCome', ReactionsKept', CountsKept', CasesKept', DecisionsKept', AccountsKept'
    PROVE  CommunityInvariant'
<1>1. Placed'
  BY PlacedThen DEF CommunityInvariant
<1> QED BY <1>1 DEF CommunityInvariant

LEMMA ContentAndAccountsStay ==
    ASSUME CommunityInvariant, NEW r, StepOf(r), UNCHANGED <<relationVars, momentVars, itemVars, accountVars>>
    PROVE  ItemsKept' /\ RowsToCome' /\ ReactionsKept' /\ CountsKept' /\ AccountsKept'
<1>1. /\ UNCHANGED <<counts, likes, bookmarks, folders>> /\ UNCHANGED itemVars /\ UNCHANGED item
      /\ UNCHANGED relationVars /\ UNCHANGED <<sanction, invite, role>>
  BY DEF momentVars, itemVars, accountVars
<1>2. ItemsKept' /\ RowsToCome'
  BY <1>1, ItemsStay, RowsToComeRemain DEF CommunityInvariant
<1> QED BY <1>1, <1>2, ReactionsStay, CountsStay, AccountsStay DEF CommunityInvariant

LEMMA CreateInOpenCaseKeeps ==
    ASSUME CommunityInvariant, NEW r \in plot.requests, createInOpenCase(r)
    PROVE  CommunityInvariant'
<1> DEFINE new == [target |-> r.about, status |-> "OPEN"]
           row == [reporter |-> r.user, target |-> r.about, status |-> "PENDING",
                   case |-> IF seen[r].n = 0 THEN Len(case) + 1 ELSE seen[r].n]
<1>1. /\ pc[r] \notin Ended /\ Placed /\ Done(r) /\ ~Clashes(r)
      /\ case' = (IF seen[r].n = 0 THEN Append(case, new) ELSE case) /\ report' = Append(report, row)
      /\ UNCHANGED <<relationVars, momentVars, itemVars, decision, appeal, accountVars>>
  BY DEF createInOpenCase, At, Ended, CommunityInvariant
<1>2. StepOf(r) /\ pc'[r] = "done"
  BY <1>1, DoneIsStep
<1>3. new \in CaseRows /\ new.target = r.about /\ case \in Seq(CaseRows) /\ OneOpenCase(case)
  BY <1>1, CommandsAsked DEF CaseRows, CommunityInvariant, CasesKept
<1>4. /\ row \in ReportRows /\ row.reporter = r.user /\ row.target = r.about
      /\ report \in Seq(ReportRows) /\ OnePendingReport(report)
  BY <1>1, CommandsAsked DEF ReportRows, CommunityInvariant, CasesKept, Commands, Placed, Sights
<1> HIDE DEF new, row
<1>5. /\ DOMAIN report' = DOMAIN report \cup {Len(report) + 1} /\ report' \in Seq(ReportRows)
      /\ Len(report) + 1 \notin DOMAIN report /\ report'[Len(report) + 1] = row
      /\ \A n \in DOMAIN report : report'[n] = report[n]
  BY <1>1, <1>4, RowIsAdded
<1>6. OnePendingReport(report')
  <2>1. \A n \in DOMAIN report : ~(report[n].reporter = r.user /\ report[n].target = r.about /\ report[n].status = "PENDING")
    BY <1>1 DEF Clashes, PendingReports
  <2> QED BY <1>4, <1>5, <2>1 DEF OnePendingReport
<1>7. case' \in Seq(CaseRows) /\ OneOpenCase(case') /\ \A c \in DOMAIN case : c \in DOMAIN case' /\ case'[c] = case[c]
  <2>1. CASE seen[r].n = 0
    <3>1. /\ case' \in Seq(CaseRows) /\ DOMAIN case' = DOMAIN case \cup {Len(case) + 1}
          /\ Len(case) + 1 \notin DOMAIN case /\ case'[Len(case) + 1] = new
          /\ \A c \in DOMAIN case : case'[c] = case[c]
      BY <1>1, <1>3, <2>1, RowIsAdded
    <3>2. \A c \in DOMAIN case : ~(case[c].target = r.about /\ case[c].status = "OPEN")
      BY <1>1, <2>1 DEF Clashes, OpenCases
    <3> QED BY <1>3, <3>1, <3>2 DEF OneOpenCase
  <2>2. CASE seen[r].n # 0
    BY <1>1, <1>3, <2>2
  <2> QED BY <2>1, <2>2
<1>8. RowsRemain
  BY <1>1, <1>7 DEF RowsRemain
<1>9. CasesKept'
  BY <1>5, <1>6, <1>7 DEF CasesKept, OneOpenCase, OnePendingReport
<1>10. ItemsKept' /\ RowsToCome' /\ ReactionsKept' /\ CountsKept' /\ AccountsKept'
  BY <1>1, <1>2, ContentAndAccountsStay
<1>11. DecisionsKept'
  BY <1>1, DecisionsStay DEF CommunityInvariant, itemVars, accountVars
<1> QED BY <1>2, <1>8, <1>9, <1>10, <1>11, CaseStepKeeps

LEMMA ReportClashesKeeps ==
    ASSUME CommunityInvariant, NEW r \in plot.requests, reportClashes(r)
    PROVE  CommunityInvariant'
<1>1. pc[r] \notin Ended /\ UNCHANGED tableVars /\ seen' = seen /\ Placed
  BY DEF reportClashes, At, Ended, tableVars, CommunityInvariant
<1>2. PICK place \in {"duplicate", "clash"} : Place(r, place)
  BY DEF reportClashes
<1>3. StepOf(r) /\ pc'[r] = place
  BY <1>1, <1>2, PlacesAreSteps, NoSightIsSight
<1> QED BY <1>1, <1>3, TablesStay

LEMMA LookDuplicateKeeps ==
    ASSUME CommunityInvariant, NEW r \in plot.requests, lookDuplicate(r)
    PROVE  CommunityInvariant'
<1>1. pc[r] \notin Ended /\ seen[r] \in Sights /\ [seen[r] EXCEPT !.again = TRUE] \in Sights
  BY DEF lookDuplicate, At, Ended, CommunityInvariant, Placed, Sights
<1>2. CASE Reads(r, "duplicate", seen[r])
  BY <1>1, <1>2, ReadingKeeps
<1>3. CASE Reads(r, "find", [seen[r] EXCEPT !.again = TRUE])
  BY <1>1, <1>3, ReadingKeeps
<1> QED BY <1>2, <1>3 DEF lookDuplicate
-------------------------------------------------------------------------------
(* What resolutions do *)

LEMMA OwnersAreUsers ==
    ASSUME ItemsKept, NEW t \in Targets
    PROVE  Owner(t) \in Users
BY DEF Owner, ItemsKept, ItemRows, Targets

LEMMA EnforcingKeeps ==
    ASSUME CommunityInvariant, NEW r, StepOf(r), NEW t \in Targets, NEW what, NEW d \in Nat, NEW actorRole,
           CanEnforce(r, actorRole, t, what), Enforces(t, what, d), what = "HIDE_CONTENT" => t \in Items
    PROVE  ItemsKept' /\ RowsToCome' /\ ReactionsKept' /\ CountsKept' /\ AccountsKept'
<1>1. CASE what = "HIDE_CONTENT" /\ Hides(t, d) /\ UNCHANGED accountVars
  <2>1. Removal(t, "ADMIN", d)
    BY <1>1, HidingRemoves DEF CanEnforce, CommunityInvariant
  <2>2. UNCHANGED relationVars /\ UNCHANGED <<likes, bookmarks, folders>> /\ UNCHANGED <<sanction, invite, role>>
    BY <1>1 DEF Hides, accountVars
  <2>3. ItemsKept' /\ RowsToCome' /\ CountsKept'
    BY <2>1, RemovalKeepsItems, RemovalKeepsRows, RemovalKeepsCounts DEF CommunityInvariant
  <2> QED BY <2>2, <2>3, ReactionsStay, AccountsStay DEF CommunityInvariant
<1>2. CASE Sanctions(Owner(t), what = "BAN_USER", d) /\ UNCHANGED <<relationVars, momentVars, itemVars>>
  <2>1. Owner(t) \in Users
    BY OwnersAreUsers DEF CommunityInvariant
  <2>2. AccountsKept'
    BY <1>2, <2>1, SanctioningKept DEF CommunityInvariant
  <2>3. UNCHANGED <<counts, likes, bookmarks, folders>> /\ UNCHANGED itemVars /\ UNCHANGED item
    BY <1>2 DEF momentVars, itemVars
  <2>4. ItemsKept' /\ RowsToCome'
    BY <2>3, ItemsStay, RowsToComeRemain DEF CommunityInvariant
  <2> QED BY <2>2, <2>3, <2>4, ReactionsStay, CountsStay DEF CommunityInvariant
<1>3. CASE UNCHANGED <<relationVars, momentVars, itemVars, accountVars>>
  BY <1>3, ContentAndAccountsStay
<1> QED BY <1>1, <1>2, <1>3 DEF Enforces

(* What is enforced without a decision hangs on none. *)
LEMMA EnforcingStands ==
    ASSUME CommunityInvariant, NEW r, NEW t \in Targets, NEW what, NEW actorRole,
           CanEnforce(r, actorRole, t, what), Enforces(t, what, 0), what = "HIDE_CONTENT" => t \in Items,
           UNCHANGED <<decision, appeal>>
    PROVE  DecisionsKept'
<1>1. CASE what = "HIDE_CONTENT" /\ Hides(t, 0) /\ UNCHANGED accountVars
  <2>1. Removal(t, "ADMIN", 0)
    BY <1>1, HidingRemoves DEF CanEnforce, CommunityInvariant
  <2> QED BY <1>1, <2>1, RemovalStands DEF CommunityInvariant, accountVars
<1>2. CASE Sanctions(Owner(t), what = "BAN_USER", 0) /\ UNCHANGED <<relationVars, momentVars, itemVars>>
  <2>1. Owner(t) \in Users
    BY OwnersAreUsers DEF CommunityInvariant
  <2> QED BY <1>2, <2>1, SanctioningStands DEF CommunityInvariant, itemVars
<1>3. CASE UNCHANGED <<relationVars, momentVars, itemVars, accountVars>>
  BY <1>3, DecisionsStay DEF CommunityInvariant, itemVars, accountVars
<1> QED BY <1>1, <1>2, <1>3 DEF Enforces

LEMMA OutcomesAre == \A what : Outcome(what) \in {"DISMISSED", "RESOLVED"}
BY DEF Outcome

LEMMA ResolveReportKeeps ==
    ASSUME CommunityInvariant, NEW r \in plot.requests, resolveReport(r)
    PROVE  CommunityInvariant'
<1> DEFINE t == report[r.n].target
<1>1. pc[r] \notin Ended /\ Placed
  BY DEF resolveReport, ByAdmin, Arrives, Ended, CommunityInvariant
<1>2. CASE Refused(r)
  BY <1>1, <1>2, RefusalsKeep
<1>3. CASE ~Refused(r)
  <2>1. /\ r.n \in DOMAIN report /\ CompatibleWithReport(t, r.what) /\ CanEnforce(r, role[r.user], t, r.what)
        /\ report' = [report EXCEPT ![r.n].status = Outcome(r.what)] /\ Enforces(t, r.what, 0)
        /\ Done(r) /\ UNCHANGED <<case, decision, appeal>>
    BY <1>3 DEF resolveReport
  <2>2. StepOf(r) /\ pc'[r] = "done"
    BY <1>1, <2>1, DoneIsStep
  <2>3. t \in Targets /\ (r.what = "HIDE_CONTENT" => t \in Items)
    <3>1. report[r.n] \in ReportRows
      BY <2>1 DEF CommunityInvariant, CasesKept
    <3>2. t \in Targets
      BY <3>1 DEF ReportRows
    <3>3. r.what = "HIDE_CONTENT" => t \notin Users
      <4> HIDE DEF t
      <4> QED BY <2>1 DEF CompatibleWithReport, Sanctioning
    <3> HIDE DEF t
    <3> QED BY <3>2, <3>3 DEF Targets
  <2> HIDE DEF t
  <2>4. ItemsKept' /\ RowsToCome' /\ ReactionsKept' /\ CountsKept' /\ AccountsKept'
    BY <2>1, <2>2, <2>3, EnforcingKeeps
  <2>5. DecisionsKept'
    BY <2>1, <2>3, EnforcingStands
  <2>6. CasesKept'
    <3>1. report \in Seq(ReportRows) /\ \A n \in DOMAIN report : report[n] \in ReportRows
      BY DEF CommunityInvariant, CasesKept
    <3>2. \A n \in DOMAIN report :
              report'[n] = IF n = r.n THEN [report[n] EXCEPT !.status = Outcome(r.what)] ELSE report[n]
      BY <2>1
    <3>3. \A n \in DOMAIN report :
              /\ report'[n] \in ReportRows /\ report'[n].reporter = report[n].reporter
              /\ report'[n].target = report[n].target
              /\ report'[n].status = "PENDING" => report[n].status = "PENDING"
      <4>1. ASSUME NEW n \in DOMAIN report
            PROVE  LET new == [report[n] EXCEPT !.status = Outcome(r.what)]
                   IN  /\ new \in ReportRows /\ new.reporter = report[n].reporter
                       /\ new.target = report[n].target /\ new.status # "PENDING"
        BY <3>1, OutcomesAre DEF ReportRows
      <4>2. ASSUME NEW n \in DOMAIN report
            PROVE  report'[n] = report[n] \/ report'[n] = [report[n] EXCEPT !.status = Outcome(r.what)]
        BY <3>2
      <4> QED BY <3>1, <4>1, <4>2
    <3>4. DOMAIN report' = DOMAIN report /\ report' = [n \in DOMAIN report |-> report'[n]]
      BY <2>1
    <3>5. report' \in Seq(ReportRows)
      BY <3>1, <3>3, <3>4, RowsChange
    <3> QED BY <2>1, <3>3, <3>4, <3>5 DEF CommunityInvariant, CasesKept, OnePendingReport, OneOpenCase
  <2>7. RowsRemain
    BY <2>1, RowsRemainAlone
  <2> QED BY <2>2, <2>4, <2>5, <2>6, <2>7, CaseStepKeeps
<1> QED BY <1>2, <1>3

-------------------------------------------------------------------------------
(* Cases *)

LEMMA ReadCaseKeeps ==
    ASSUME CommunityInvariant, NEW r \in plot.requests, readCase(r)
    PROVE  CommunityInvariant'
<1>1. pc[r] \notin Ended
  BY DEF readCase, ByAdmin, Arrives, Ended
<1>2. CASE Refused(r)
  BY <1>1, <1>2, RefusalsKeep
<1>3. CASE ~Refused(r)
  <2>1. /\ r.n \in DOMAIN case /\ CompatibleWithCase(case[r.n].target, r.what)
        /\ Reads(r, "resolve", [NoSight EXCEPT !.role = role[r.user]])
    BY <1>3 DEF readCase
  <2>2. role[r.user] \in Roles
    BY CommandsAsked DEF Commands, CommunityInvariant, AccountsKept
  <2>3. [NoSight EXCEPT !.role = role[r.user]] \in Sights
    BY <2>2, NoSightIsSight DEF NoSight, Sights
  <2> QED BY <1>1, <2>1, <2>3, ReadingKeeps
<1> QED BY <1>2, <1>3

(* A decision that is new hides its target, or imposes its sanction. *)
LEMMA DecidingStands ==
    ASSUME CommunityInvariant, NEW r, NEW t \in Targets, NEW what \in Measures, NEW n \in Nat, NEW actorRole,
           CanEnforce(r, actorRole, t, what), what = "HIDE_CONTENT" => t \in Items,
           decision' = Append(decision, [target |-> t, action |-> what, active |-> TRUE, case |-> n]),
           Enforces(t, what, Len(decision')), UNCHANGED appeal
    PROVE  DecisionsKept'
<1> DEFINE row == [target |-> t, action |-> what, active |-> TRUE, case |-> n]
           d == Len(decision) + 1
<1>1. row \in DecisionRows /\ row.target = t /\ row.action = what /\ row.active
  BY DEF DecisionRows
<1>2. decision' = Append(decision, row) /\ decision \in Seq(DecisionRows)
  BY DEF CommunityInvariant, DecisionsKept
<1> HIDE DEF row
<1>3. /\ decision' \in Seq(DecisionRows) /\ DOMAIN decision' = DOMAIN decision \cup {d}
      /\ Len(decision') = d /\ d \in Nat \ {0} /\ d \notin DOMAIN decision /\ decision'[d] = row
      /\ \A e \in DOMAIN decision : decision'[e] = decision[e]
  BY <1>1, <1>2, RowIsAdded
<1> HIDE DEF d
<1>4. Enforces(t, what, d)
  BY <1>3
<1>5. DecisionsStand(item', hiddenBy', decision', sanction')
  <2>1. CASE what = "HIDE_CONTENT" /\ Hides(t, d) /\ UNCHANGED accountVars
    <3>1. sanction' = sanction
      BY <2>1 DEF accountVars
    <3>2. \A j \in Items : j # t => item'[j] = item[j] /\ hiddenBy'[j] = hiddenBy[j]
      BY <2>1 DEF Hides, CommunityInvariant, ItemsKept
    <3>3. hiddenBy'[t] = d
      BY <2>1 DEF Hides, CommunityInvariant, ItemsKept
    <3>4. /\ \A e \in DOMAIN decision : decision[e].action = "HIDE_CONTENT" => decision[e].target \in Items
          /\ \A j \in Items : item[j].state = "ADMIN" /\ hiddenBy[j] # 0 =>
                /\ hiddenBy[j] \in DOMAIN decision
                /\ LET e == decision[hiddenBy[j]] IN e.active /\ e.action = "HIDE_CONTENT" /\ e.target = j
          /\ \A s \in DOMAIN sanction : sanction[s].decision # 0 =>
                /\ sanction[s].decision \in DOMAIN decision
                /\ LET e == decision[sanction[s].decision]
                   IN  e.action \in Sanctioning /\ (~e.active => sanction[s].revoked)
      BY DEF DecisionsStand, CommunityInvariant, DecisionsKept
    <3>5. \A e \in DOMAIN decision' : decision'[e].action = "HIDE_CONTENT" => decision'[e].target \in Items
      BY <1>1, <1>3, <2>1, <3>4
    <3>6. ASSUME NEW j \in Items, item'[j].state = "ADMIN", hiddenBy'[j] # 0
          PROVE  /\ hiddenBy'[j] \in DOMAIN decision'
                 /\ LET e == decision'[hiddenBy'[j]] IN e.active /\ e.action = "HIDE_CONTENT" /\ e.target = j
      <4>1. CASE j = t
        BY <1>1, <1>3, <2>1, <3>3, <4>1
      <4>2. CASE j # t
        BY <1>3, <3>2, <3>4, <3>6, <4>2
      <4> QED BY <4>1, <4>2
    <3>7. \A s \in DOMAIN sanction' : sanction'[s].decision # 0 =>
              /\ sanction'[s].decision \in DOMAIN decision'
              /\ LET e == decision'[sanction'[s].decision]
                 IN  e.action \in Sanctioning /\ (~e.active => sanction'[s].revoked)
      BY <1>3, <3>1, <3>4
    <3> QED BY <3>5, <3>6, <3>7 DEF DecisionsStand
  <2>2. CASE /\ what \in Sanctioning /\ Sanctions(Owner(t), what = "BAN_USER", d)
             /\ UNCHANGED <<relationVars, momentVars, itemVars>>
    <3>1. Owner(t) \in Users /\ UNCHANGED <<item, hiddenBy>> /\ what # "HIDE_CONTENT"
      BY <2>2, OwnersAreUsers DEF CommunityInvariant, itemVars, Sanctioning
    <3>2. /\ DOMAIN sanction' = DOMAIN sanction \cup {Len(sanction) + 1} /\ sanction'[Len(sanction) + 1].decision = d
          /\ \A s \in DOMAIN sanction :
                /\ sanction'[s].decision = sanction[s].decision
                /\ sanction[s].revoked => sanction'[s].revoked
      BY <1>3, <2>2, <3>1, SanctioningIsOne DEF CommunityInvariant, AccountsKept
    <3>3. /\ \A e \in DOMAIN decision : decision[e].action = "HIDE_CONTENT" => decision[e].target \in Items
          /\ \A j \in Items : item[j].state = "ADMIN" /\ hiddenBy[j] # 0 =>
                /\ hiddenBy[j] \in DOMAIN decision
                /\ LET e == decision[hiddenBy[j]] IN e.active /\ e.action = "HIDE_CONTENT" /\ e.target = j
          /\ \A s \in DOMAIN sanction : sanction[s].decision # 0 =>
                /\ sanction[s].decision \in DOMAIN decision
                /\ LET e == decision[sanction[s].decision]
                   IN  e.action \in Sanctioning /\ (~e.active => sanction[s].revoked)
      BY DEF DecisionsStand, CommunityInvariant, DecisionsKept
    <3>4. \A e \in DOMAIN decision' : decision'[e].action = "HIDE_CONTENT" => decision'[e].target \in Items
      BY <1>1, <1>3, <3>1, <3>3
    <3>5. \A j \in Items : item'[j].state = "ADMIN" /\ hiddenBy'[j] # 0 =>
              /\ hiddenBy'[j] \in DOMAIN decision'
              /\ LET e == decision'[hiddenBy'[j]] IN e.active /\ e.action = "HIDE_CONTENT" /\ e.target = j
      BY <1>3, <3>1, <3>3
    <3>6. ASSUME NEW s \in DOMAIN sanction', sanction'[s].decision # 0
          PROVE  /\ sanction'[s].decision \in DOMAIN decision'
                 /\ LET e == decision'[sanction'[s].decision]
                    IN  e.action \in Sanctioning /\ (~e.active => sanction'[s].revoked)
      <4>1. CASE s = Len(sanction) + 1
        BY <1>1, <1>3, <2>2, <3>2, <4>1
      <4>2. CASE s \in DOMAIN sanction
        BY <1>3, <3>2, <3>3, <3>6, <4>2
      <4> QED BY <3>2, <4>1, <4>2
    <3> QED BY <3>4, <3>5, <3>6 DEF DecisionsStand
  <2> QED BY <1>4, <2>1, <2>2 DEF Enforces
<1>6. \A a \in DOMAIN appeal : appeal[a].decision \in DOMAIN decision'
  BY <1>3 DEF CommunityInvariant, DecisionsKept
<1> QED BY <1>3, <1>5, <1>6 DEF CommunityInvariant, DecisionsKept, DecisionsStand

LEMMA ResolveCaseKeeps ==
    ASSUME CommunityInvariant, NEW r \in plot.requests, resolveCase(r)
    PROVE  CommunityInvariant'
<1> DEFINE t == case[r.n].target
<1>1. pc[r] \notin Ended /\ Placed /\ At(r, "resolveCase", "resolve") /\ r.n \in Nat
  BY CommandsAsked DEF resolveCase, At, Ended, CommunityInvariant, Commands
<1>2. r.n \in DOMAIN case /\ CompatibleWithCase(t, r.what)
  BY <1>1 DEF Placed, Remembers
<1>3. CASE Refused(r)
  BY <1>1, <1>3, RefusalsKeep
<1>4. CASE ~Refused(r)
  <2>1. /\ CanEnforce(r, seen[r].role, t, r.what)
        /\ decision' = (IF r.what \in Measures
                        THEN Append(decision, [target |-> t, action |-> r.what, active |-> TRUE, case |-> r.n])
                        ELSE decision)
        /\ Enforces(t, r.what, Len(decision'))
        /\ report' = [n \in DOMAIN report |->
                         IF report[n].case = r.n /\ report[n].status = "PENDING"
                         THEN [report[n] EXCEPT !.status = Outcome(r.what)]
                         ELSE report[n]]
        /\ case' = [case EXCEPT ![r.n].status = Outcome(r.what)]
        /\ Done(r) /\ UNCHANGED appeal
    BY <1>4 DEF resolveCase
  <2>2. StepOf(r) /\ pc'[r] = "done"
    BY <1>1, <2>1, DoneIsStep
  <2>3. case \in Seq(CaseRows) /\ \A c \in DOMAIN case : case[c] \in CaseRows
    BY DEF CommunityInvariant, CasesKept
  <2>4. t \in Targets /\ (r.what = "HIDE_CONTENT" => t \in Items)
    <3>1. t \in Targets
      BY <1>2, <2>3 DEF CaseRows
    <3> HIDE DEF t
    <3> QED BY <1>2, <3>1 DEF CompatibleWithCase, Sanctioning
  <2>5. case' \in Seq(CaseRows) /\ OneOpenCase(case') /\ DOMAIN case' = DOMAIN case
        /\ \A c \in DOMAIN case : case'[c].target = case[c].target
    <3>1. ASSUME NEW c \in DOMAIN case
          PROVE  LET new == [case[c] EXCEPT !.status = Outcome(r.what)]
                 IN  new \in CaseRows /\ new.target = case[c].target /\ new.status # "OPEN"
      BY <2>3, OutcomesAre DEF CaseRows
    <3>2. ASSUME NEW c \in DOMAIN case
          PROVE  case'[c] = case[c] \/ case'[c] = [case[c] EXCEPT !.status = Outcome(r.what)]
      BY <2>1
    <3>3. \A c \in DOMAIN case :
              /\ case'[c] \in CaseRows /\ case'[c].target = case[c].target
              /\ case'[c].status = "OPEN" => case[c].status = "OPEN"
      BY <2>3, <3>1, <3>2
    <3>4. DOMAIN case' = DOMAIN case /\ case' = [c \in DOMAIN case |-> case'[c]]
      BY <2>1
    <3>5. case' \in Seq(CaseRows)
      BY <2>3, <3>3, <3>4, RowsChange
    <3> QED BY <3>3, <3>4, <3>5 DEF CommunityInvariant, CasesKept, OneOpenCase
  <2>6. report' \in Seq(ReportRows) /\ OnePendingReport(report')
    <3>1. report \in Seq(ReportRows) /\ \A n \in DOMAIN report : report[n] \in ReportRows
      BY DEF CommunityInvariant, CasesKept
    <3>2. ASSUME NEW n \in DOMAIN report
          PROVE  LET new == [report[n] EXCEPT !.status = Outcome(r.what)]
                 IN  /\ new \in ReportRows /\ new.reporter = report[n].reporter
                     /\ new.target = report[n].target /\ new.status # "PENDING"
      BY <3>1, OutcomesAre DEF ReportRows
    <3>3. ASSUME NEW n \in DOMAIN report
          PROVE  report'[n] = report[n] \/ report'[n] = [report[n] EXCEPT !.status = Outcome(r.what)]
      BY <2>1
    <3>4. \A n \in DOMAIN report :
              /\ report'[n] \in ReportRows /\ report'[n].reporter = report[n].reporter
              /\ report'[n].target = report[n].target
              /\ report'[n].status = "PENDING" => report[n].status = "PENDING"
      BY <3>1, <3>2, <3>3
    <3>5. DOMAIN report' = DOMAIN report /\ report' = [n \in DOMAIN report |-> report'[n]]
      BY <2>1
    <3>6. report' \in Seq(ReportRows)
      BY <3>1, <3>4, <3>5, RowsChange
    <3> QED BY <3>4, <3>5, <3>6 DEF CommunityInvariant, CasesKept, OnePendingReport
  <2>7. CasesKept'
    BY <2>5, <2>6 DEF CasesKept, OneOpenCase, OnePendingReport
  <2>8. RowsRemain
    BY <2>1, <2>5 DEF RowsRemain
  <2>9. Len(decision') \in Nat
    <3>1. decision \in Seq(DecisionRows)
      BY DEF CommunityInvariant, DecisionsKept
    <3> QED BY <2>1, <3>1
  <2> HIDE DEF t
  <2>10. ItemsKept' /\ RowsToCome' /\ ReactionsKept' /\ CountsKept' /\ AccountsKept'
    BY <2>1, <2>2, <2>4, <2>9, EnforcingKeeps
  <2>11. DecisionsKept'
    <3>1. CASE r.what \in Measures
      BY <1>1, <2>1, <2>4, <3>1, DecidingStands
    <3>2. CASE r.what \notin Measures
      <4>1. UNCHANGED <<item, hiddenBy, decision, appeal, sanction>>
        BY <2>1, <3>2 DEF Enforces, Measures, itemVars, accountVars
      <4> QED BY <4>1, DecisionsStay DEF CommunityInvariant
    <3> QED BY <3>1, <3>2
  <2> QED BY <2>2, <2>7, <2>8, <2>10, <2>11, CaseStepKeeps
<1> QED BY <1>3, <1>4

-------------------------------------------------------------------------------
(* Appeals *)

LEMMA CreateAppealKeeps ==
    ASSUME CommunityInvariant, NEW r \in plot.requests, createAppeal(r)
    PROVE  CommunityInvariant'
<1>1. pc[r] \notin Ended /\ Placed /\ r.n \in Nat
  BY CommandsAsked DEF createAppeal, Ended, CommunityInvariant, Commands
<1>2. CASE Refused(r)
  BY <1>1, <1>2, RefusalsKeep
<1>3. CASE ~Refused(r)
  <2> DEFINE row == [decision |-> r.n, status |-> "PENDING"]
  <2>1. /\ r.n \in DOMAIN decision /\ appeal' = Append(appeal, row) /\ Done(r)
        /\ UNCHANGED <<relationVars, momentVars, itemVars, case, report, decision, accountVars>>
    BY <1>3 DEF createAppeal
  <2>2. StepOf(r) /\ pc'[r] = "done"
    BY <1>1, <2>1, DoneIsStep
  <2>3. row \in AppealRows /\ row.decision \in DOMAIN decision
    BY <1>1, <2>1 DEF AppealRows
  <2> HIDE DEF row
  <2>4. /\ appeal' \in Seq(AppealRows) /\ DOMAIN appeal' = DOMAIN appeal \cup {Len(appeal) + 1}
        /\ appeal'[Len(appeal) + 1] = row /\ \A a \in DOMAIN appeal : appeal'[a] = appeal[a]
    BY <2>1, <2>3, RowIsAdded DEF CommunityInvariant, DecisionsKept
  <2>5. RowsRemain
    BY <2>1, <2>4 DEF RowsRemain
  <2>6. UNCHANGED <<item, hiddenBy, decision, sanction>>
    BY <2>1 DEF itemVars, accountVars
  <2>7. DecisionsKept'
    BY <2>3, <2>4, <2>6 DEF CommunityInvariant, DecisionsKept, DecisionsStand
  <2>8. CasesKept'
    BY <2>1, CasesStay DEF CommunityInvariant
  <2>9. ItemsKept' /\ RowsToCome' /\ ReactionsKept' /\ CountsKept' /\ AccountsKept'
    BY <2>1, <2>2, ContentAndAccountsStay
  <2> QED BY <2>2, <2>5, <2>7, <2>8, <2>9, CaseStepKeeps
<1> QED BY <1>2, <1>3

LEMMA ReadAppealKeeps ==
    ASSUME CommunityInvariant, NEW r \in plot.requests, readAppeal(r)
    PROVE  CommunityInvariant'
<1>1. pc[r] \notin Ended
  BY DEF readAppeal, ByAdmin, Arrives, Ended
<1>2. CASE Refused(r)
  BY <1>1, <1>2, RefusalsKeep
<1>3. CASE r.n \in DOMAIN appeal /\ Reads(r, "answer", NoSight)
  BY <1>1, <1>3, ReadingKeeps, NoSightIsSight
<1> QED BY <1>2, <1>3 DEF readAppeal

(* A decision that is undone hides nothing, and sanctions nobody. *)
LEMMA UndoingStands ==
    ASSUME CommunityInvariant, NEW d \in DOMAIN decision, Undoes(d), Hiding(d) => Return(decision[d].target),
           DOMAIN appeal' = DOMAIN appeal, appeal' \in Seq(AppealRows),
           \A a \in DOMAIN appeal : appeal'[a].decision = appeal[a].decision
    PROVE  DecisionsKept'
<1>1. decision' = [decision EXCEPT ![d].active = FALSE] /\ decision \in Seq(DecisionRows)
  BY DEF Undoes, CommunityInvariant, DecisionsKept
<1>2. \A e \in DOMAIN decision : decision[e] \in DecisionRows
  BY <1>1
<1>3. \A e \in DOMAIN decision :
          decision'[e] = IF e = d THEN [decision[e] EXCEPT !.active = FALSE] ELSE decision[e]
  BY <1>1
<1>4. \A e \in DOMAIN decision :
          /\ decision'[e] \in DecisionRows /\ decision'[e].target = decision[e].target
          /\ decision'[e].action = decision[e].action /\ (decision'[e].active <=> decision[e].active /\ e # d)
  BY <1>2, <1>3 DEF DecisionRows
<1>5. DOMAIN decision' = DOMAIN decision /\ decision' = [e \in DOMAIN decision |-> decision'[e]]
  BY <1>1
<1>6. decision' \in Seq(DecisionRows)
  <2>1. decision \in Seq(DecisionRows)
    BY <1>1
  <2> QED BY <1>4, <1>5, <2>1, RowsChange
<1>7. /\ \A e \in DOMAIN decision : decision[e].action = "HIDE_CONTENT" => decision[e].target \in Items
      /\ \A j \in Items : item[j].state = "ADMIN" /\ hiddenBy[j] # 0 =>
            /\ hiddenBy[j] \in DOMAIN decision
            /\ LET e == decision[hiddenBy[j]] IN e.active /\ e.action = "HIDE_CONTENT" /\ e.target = j
      /\ \A s \in DOMAIN sanction : sanction[s].decision # 0 =>
            /\ sanction[s].decision \in DOMAIN decision
            /\ LET e == decision[sanction[s].decision]
               IN  e.action \in Sanctioning /\ (~e.active => sanction[s].revoked)
  BY DEF DecisionsStand, CommunityInvariant, DecisionsKept
<1>8. CASE Hiding(d)
  <2>1. Return(decision[d].target) /\ sanction' = sanction
    BY <1>8 DEF Undoes, accountVars
  <2>2. \A j \in Items : j # decision[d].target => item'[j] = item[j]
    BY <2>1 DEF Return, CommunityInvariant, ItemsKept
  <2>3. item'[decision[d].target].state = "shown" /\ hiddenBy' = hiddenBy
    BY <2>1 DEF Return, CommunityInvariant, ItemsKept
  <2>4. ASSUME NEW j \in Items, item'[j].state = "ADMIN", hiddenBy'[j] # 0
        PROVE  /\ hiddenBy'[j] \in DOMAIN decision'
               /\ LET e == decision'[hiddenBy'[j]] IN e.active /\ e.action = "HIDE_CONTENT" /\ e.target = j
    <3>1. j # decision[d].target /\ item[j].state = "ADMIN" /\ hiddenBy[j] # 0
      BY <2>2, <2>3, <2>4
    <3>2. hiddenBy[j] # d
      BY <1>7, <3>1
    <3> QED BY <1>4, <1>5, <1>7, <2>3, <3>1, <3>2
  <2>5. \A s \in DOMAIN sanction' : sanction'[s].decision # 0 =>
            /\ sanction'[s].decision \in DOMAIN decision'
            /\ LET e == decision'[sanction'[s].decision]
               IN  e.action \in Sanctioning /\ (~e.active => sanction'[s].revoked)
    <3>1. decision[d].action \notin Sanctioning
      BY <1>8 DEF Hiding, Sanctioning
    <3> QED BY <1>4, <1>5, <1>7, <2>1, <3>1
  <2>6. DecisionsStand(item', hiddenBy', decision', sanction')
    BY <1>4, <1>5, <1>7, <2>4, <2>5 DEF DecisionsStand
  <2> QED BY <1>5, <1>6, <2>6 DEF CommunityInvariant, DecisionsKept, DecisionsStand
<1>9. CASE ~Hiding(d)
  <2>1. /\ sanction' = [s \in DOMAIN sanction |->
                           IF s \in ImposedBy(d) THEN [sanction[s] EXCEPT !.revoked = TRUE] ELSE sanction[s]]
        /\ item' = item /\ hiddenBy' = hiddenBy
    BY <1>9 DEF Undoes, itemVars
  <2>2. \A s \in DOMAIN sanction : sanction[s] \in SanctionRows
    BY DEF CommunityInvariant, AccountsKept
  <2>3. \A s \in DOMAIN sanction :
            /\ sanction'[s].decision = sanction[s].decision
            /\ sanction'[s].revoked <=> (sanction[s].revoked \/ sanction[s].decision = d)
    BY <2>1, <2>2 DEF SanctionRows, ImposedBy
  <2>4. DOMAIN sanction' = DOMAIN sanction
    BY <2>1
  <2>5. \A j \in Items : item'[j].state = "ADMIN" /\ hiddenBy'[j] # 0 =>
            /\ hiddenBy'[j] \in DOMAIN decision'
            /\ LET e == decision'[hiddenBy'[j]] IN e.active /\ e.action = "HIDE_CONTENT" /\ e.target = j
    <3>1. decision[d].action # "HIDE_CONTENT"
      BY <1>9 DEF Hiding
    <3> QED BY <1>4, <1>5, <1>7, <2>1, <3>1
  <2>6. \A s \in DOMAIN sanction' : sanction'[s].decision # 0 =>
            /\ sanction'[s].decision \in DOMAIN decision'
            /\ LET e == decision'[sanction'[s].decision]
               IN  e.action \in Sanctioning /\ (~e.active => sanction'[s].revoked)
    BY <1>4, <1>5, <1>7, <2>3, <2>4
  <2>7. DecisionsStand(item', hiddenBy', decision', sanction')
    BY <1>4, <1>5, <1>7, <2>5, <2>6 DEF DecisionsStand
  <2> QED BY <1>5, <1>6, <2>7 DEF CommunityInvariant, DecisionsKept, DecisionsStand
<1> QED BY <1>8, <1>9

LEMMA ResolveAppealKeeps ==
    ASSUME CommunityInvariant, NEW r \in plot.requests, resolveAppeal(r)
    PROVE  CommunityInvariant'
<1> DEFINE d == appeal[r.n].decision
           t == decision[d].target
<1>1. pc[r] \notin Ended /\ Placed /\ At(r, "resolveAppeal", "answer") /\ r.op = "resolveAppeal"
  BY DEF resolveAppeal, At, Ended, CommunityInvariant
<1>2. r.n \in DOMAIN appeal /\ r.what \in {"UPHELD", "OVERTURNED"}
  BY <1>1, CommandsAsked DEF Placed, Remembers
<1>3. CASE Refused(r)
  BY <1>1, <1>3, RefusalsKeep
<1>4. CASE ~Refused(r)
  <2>1. /\ Overturns(r) /\ Hiding(d) => CanRestoreDecision(t)
        /\ appeal' = [appeal EXCEPT ![r.n].status = r.what]
        /\ IF Overturns(r) THEN Undoes(d) ELSE UNCHANGED <<decision, relationVars, momentVars, itemVars, accountVars>>
        /\ Done(r) /\ UNCHANGED <<case, report>>
    BY <1>4 DEF resolveAppeal
  <2>2. StepOf(r) /\ pc'[r] = "done"
    BY <1>1, <2>1, DoneIsStep
  <2>3. d \in DOMAIN decision
    BY <1>2 DEF CommunityInvariant, DecisionsKept
  <2>4. /\ DOMAIN appeal' = DOMAIN appeal /\ appeal' \in Seq(AppealRows)
        /\ \A a \in DOMAIN appeal : appeal'[a].decision = appeal[a].decision
    <3>1. appeal \in Seq(AppealRows) /\ \A a \in DOMAIN appeal : appeal[a] \in AppealRows
      BY DEF CommunityInvariant, DecisionsKept
    <3>2. ASSUME NEW a \in DOMAIN appeal
          PROVE  LET new == [appeal[a] EXCEPT !.status = r.what]
                 IN  new \in AppealRows /\ new.decision = appeal[a].decision
      BY <1>2, <3>1 DEF AppealRows
    <3>3. ASSUME NEW a \in DOMAIN appeal
          PROVE  appeal'[a] = appeal[a] \/ appeal'[a] = [appeal[a] EXCEPT !.status = r.what]
      BY <2>1
    <3>4. DOMAIN appeal' = DOMAIN appeal /\ appeal' = [a \in DOMAIN appeal |-> appeal'[a]]
      BY <2>1
    <3>5. \A a \in DOMAIN appeal : appeal'[a] \in AppealRows /\ appeal'[a].decision = appeal[a].decision
      BY <3>1, <3>2, <3>3
    <3> QED BY <3>1, <3>4, <3>5, RowsChange
  <2>5. RowsRemain
    BY <2>1, <2>4 DEF RowsRemain
  <2>6. CasesKept'
    BY <2>1, CasesStay DEF CommunityInvariant
  <2>7. CASE ~Overturns(r)
    <3>1. UNCHANGED <<relationVars, momentVars, itemVars, accountVars>> /\ UNCHANGED <<item, hiddenBy, decision, sanction>>
      BY <2>1, <2>7 DEF itemVars, accountVars
    <3>2. DecisionsKept'
      BY <2>4, <3>1 DEF CommunityInvariant, DecisionsKept, DecisionsStand
    <3>3. ItemsKept' /\ RowsToCome' /\ ReactionsKept' /\ CountsKept' /\ AccountsKept'
      BY <2>2, <3>1, ContentAndAccountsStay
    <3> QED BY <2>2, <2>5, <2>6, <3>2, <3>3, CaseStepKeeps
  <2>8. CASE Overturns(r) /\ Hiding(d)
    <3>1. Undoes(d) /\ CanRestoreDecision(t) /\ Restores(t) /\ UNCHANGED accountVars
      BY <2>1, <2>8 DEF Undoes
    <3>2. t \in Items
      BY <2>3, <2>8 DEF Hiding, CommunityInvariant, DecisionsKept, DecisionsStand
    <3> HIDE DEF t
    <3>3. Return(t)
      BY <3>1, <3>2 DEF Restores, Return, CanRestoreDecision, Locked
    <3>4. UNCHANGED relationVars /\ UNCHANGED <<likes, bookmarks, folders>> /\ UNCHANGED <<sanction, invite, role>>
      BY <3>1 DEF Restores, accountVars
    <3>5. ItemsKept' /\ RowsToCome' /\ CountsKept'
      BY <2>2, <3>3, ReturnKeepsItems, ReturnKeepsRows, ReturnKeepsCounts DEF CommunityInvariant
    <3>6. ReactionsKept' /\ AccountsKept'
      BY <3>4, ReactionsStay, AccountsStay DEF CommunityInvariant
    <3>7. DecisionsKept'
      <4>1. Return(decision[d].target)
        BY <3>3 DEF t
      <4> HIDE DEF d
      <4> QED BY <2>3, <2>4, <3>1, <4>1, UndoingStands
    <3> QED BY <2>2, <2>5, <2>6, <3>5, <3>6, <3>7, CaseStepKeeps
  <2>9. CASE Overturns(r) /\ ~Hiding(d)
    <3>1. /\ Undoes(d)
          /\ sanction' = [s \in DOMAIN sanction |->
                             IF s \in ImposedBy(d) THEN [sanction[s] EXCEPT !.revoked = TRUE] ELSE sanction[s]]
          /\ UNCHANGED <<role, invite, relationVars, momentVars, itemVars>>
      BY <2>1, <2>9 DEF Undoes
    <3>2. DecisionsKept'
      <4> HIDE DEF d
      <4> QED BY <2>3, <2>4, <2>9, <3>1, UndoingStands
    <3> HIDE DEF d
    <3>3. SanctionsRemain
      <4>1. sanction \in Seq(SanctionRows) /\ \A s \in DOMAIN sanction : sanction[s] \in SanctionRows
        BY DEF CommunityInvariant, AccountsKept
      <4>2. \A s \in DOMAIN sanction : sanction'[s] = sanction[s] \/ sanction'[s] = [sanction[s] EXCEPT !.revoked = TRUE]
        BY <3>1
      <4>3. \A s \in DOMAIN sanction :
                /\ sanction'[s] \in SanctionRows /\ sanction'[s].user = sanction[s].user
                /\ sanction'[s].decision = sanction[s].decision /\ (sanction[s].revoked => sanction'[s].revoked)
        BY <4>1, <4>2 DEF SanctionRows
      <4>4. DOMAIN sanction' = DOMAIN sanction /\ sanction' = [s \in DOMAIN sanction |-> sanction'[s]]
        BY <3>1
      <4>5. sanction' \in Seq(SanctionRows)
        BY <4>1, <4>3, <4>4, RowsChange
      <4> QED BY <4>3, <4>4, <4>5 DEF SanctionsRemain
    <3>4. AccountsKept'
      BY <3>1, <3>3, RemainingIsOne
         DEF CommunityInvariant, AccountsKept, SanctionsRemain, relationVars, RelationsOK, OneOpenSanction
    <3>5. UNCHANGED <<counts, likes, bookmarks, folders>> /\ UNCHANGED itemVars /\ UNCHANGED item
      BY <3>1 DEF momentVars, itemVars
    <3>6. ItemsKept' /\ RowsToCome'
      BY <2>2, <3>5, ItemsStay, RowsToComeRemain DEF CommunityInvariant
    <3>7. ReactionsKept' /\ CountsKept'
      BY <3>5, ReactionsStay, CountsStay DEF CommunityInvariant
    <3> QED BY <2>2, <2>5, <2>6, <3>2, <3>4, <3>6, <3>7, CaseStepKeeps
  <2> QED BY <2>7, <2>8, <2>9
<1> QED BY <1>3, <1>4

-------------------------------------------------------------------------------
(* The invariant *)

LEMMA MomentStepsKeep ==
    ASSUME CommunityInvariant, NEW r \in plot.requests, MomentSteps(r)
    PROVE  CommunityInvariant'
BY ReadCreateKeeps, CreateKeeps, UpdateKeeps, RemoveMomentKeeps, LikeKeeps, UnlikeKeeps, ReadCommentKeeps,
   LookReplyKeeps, CreateCommentKeeps, RemoveCommentKeeps, CreateFolderKeeps, SetBookmarkKeeps, UnsetBookmarkKeeps,
   MoveKeeps DEF MomentSteps

LEMMA ModerationStepsKeep ==
    ASSUME CommunityInvariant, NEW r \in plot.requests, ModerationSteps(r)
    PROVE  CommunityInvariant'
BY HideContentKeeps, ReadRestoreKeeps, RestoreContentKeeps, WithdrawKeeps, SanctionUserKeeps, ReadRevokeKeeps,
   RevokeSanctionKeeps, InviteAdminKeeps, ReadAcceptKeeps, AcceptInviteKeeps, ReadCancelKeeps, CancelInviteKeeps,
   ReadDismissKeeps, DismissKeeps, ReadTransferKeeps, TransferKeeps DEF ModerationSteps

LEMMA CaseStepsKeep ==
    ASSUME CommunityInvariant, NEW r \in plot.requests, CaseSteps(r)
    PROVE  CommunityInvariant'
BY ReadTargetKeeps, FindCaseKeeps, CreateInOpenCaseKeeps, ReportClashesKeeps, LookDuplicateKeeps, ResolveReportKeeps,
   ReadCaseKeeps, ResolveCaseKeeps, CreateAppealKeeps, ReadAppealKeeps, ResolveAppealKeeps DEF CaseSteps

LEMMA CommunityStutters == ASSUME CommunityInvariant, UNCHANGED vars PROVE CommunityInvariant'
<1>1. /\ UNCHANGED <<counts, likes, bookmarks, folders>> /\ UNCHANGED itemVars /\ UNCHANGED item
      /\ UNCHANGED <<case, report, appeal>> /\ UNCHANGED <<plot, pc, seen>> /\ UNCHANGED relationVars
      /\ UNCHANGED <<item, hiddenBy, decision, appeal, sanction>> /\ UNCHANGED <<sanction, invite, role>>
  BY DEF vars, caseVars, momentVars, itemVars, requestVars, accountVars
<1>2. Placed' /\ RowsToCome'
  BY <1>1 DEF CommunityInvariant, Placed, Remembers, At, RowsToCome, CompatibleWithCase
<1>3. ItemsKept' /\ ReactionsKept' /\ CountsKept' /\ CasesKept' /\ DecisionsKept' /\ AccountsKept'
  BY <1>1, ItemsStay, ReactionsStay, CountsStay, CasesStay, DecisionsStay, AccountsStay DEF CommunityInvariant
<1> QED BY <1>2, <1>3 DEF CommunityInvariant

LEMMA CommunityStepKeeps == CommunityInvariant /\ [Next]_vars => CommunityInvariant'
<1> SUFFICES ASSUME CommunityInvariant, [Next]_vars PROVE CommunityInvariant'
  OBVIOUS
<1>1. ASSUME NEW r \in plot.requests,
             MomentSteps(r) \/ ModerationSteps(r) \/ CaseSteps(r) \/ blockUser(r) \/ unblockUser(r) \/ leave(r)
      PROVE  CommunityInvariant'
  BY <1>1, MomentStepsKeep, ModerationStepsKeep, CaseStepsKeep, BlockUserKeeps, LeaveKeeps
<1>2. ASSUME NEW s \in DOMAIN sanction, suspensionEnds(s) PROVE CommunityInvariant'
  BY <1>2, SuspensionEndsKeeps
<1>3. ASSUME NEW n \in DOMAIN invite, inviteRunsOut(n) PROVE CommunityInvariant'
  BY <1>3, InviteRunsOutKeeps
<1>4. CASE UNCHANGED vars
  BY <1>4, CommunityStutters
<1> QED BY <1>1, <1>2, <1>3, <1>4 DEF Next

LEMMA CommunityBegins == Init => CommunityInvariant
<1> SUFFICES ASSUME Init PROVE CommunityInvariant
  OBVIOUS
<1>1. BeginsWell(plot) /\ plot \in Plots
  BY CommunityAssumption DEF Init
<1>2. Placed
  <2>1. seen \in [plot.requests -> Sights]
    BY NoSightIsSight DEF Init
  <2>2. pc = [r \in plot.requests |-> pc[r]] /\ \A r \in plot.requests : Remembers(r)
    BY DEF Init, Remembers, At
  <2> QED BY <1>1, <2>1, <2>2 DEF Placed
<1>3. ItemsKept
  <2>1. item \in [Items -> ItemRows] /\ HangsTogether(item) /\ public \subseteq Items
    BY <1>1 DEF Init, BeginsWell
  <2>2. hiddenBy \in [Items -> Nat]
    <3>1. plot.decisions \in Seq(DecisionRows)
      BY <1>1 DEF BeginsWell
    <3>2. DOMAIN plot.decisions \subseteq Nat
      BY <3>1
    <3> QED BY <3>2 DEF Init, HiderAtFirst
  <2>3. pinned \subseteq Posts /\ unread \subseteq Items
    BY DEF Init
  <2>4. (pinned \cup unread) \cap HiddenContent = {}
    BY DEF Init, HiddenContent, HiddenByAdmin
  <2> QED BY <2>1, <2>2, <2>3, <2>4 DEF ItemsKept
<1>4. RowsToCome
  BY <1>1 DEF BeginsWell, RowsToCome, Init
<1>5. ReactionsKept
  BY FS_EmptySet DEF ReactionsKept, Init
<1>6. CountsKept
  <2>1. IsFiniteSet({c \in Comments : Shown(c)})
    BY <1>1 DEF BeginsWell, Init, Shown
  <2>2. ASSUME NEW m \in Moments PROVE IsFiniteSet(ShownOn(m)) /\ Cardinality(ShownOn(m)) \in Nat
    <3>1. ShownOn(m) \subseteq {c \in Comments : Shown(c)}
      BY DEF ShownOn
    <3>2. IsFiniteSet(ShownOn(m))
      BY <2>1, <3>1, FS_Subset
    <3> QED BY <3>2, FS_CardinalityType
  <2>3. \A m \in Moments : LikesOf(m) = {} /\ BookmarksTo(m) = {}
    BY DEF Init, LikesOf, BookmarksTo
  <2>4. Cardinality({}) = 0
    BY FS_EmptySet
  <2>5. counts = [m \in Moments |-> [comments |-> Cardinality(ShownOn(m)), likes |-> 0, bookmarks |-> 0]]
    BY DEF Init, ShownOn, Shown
  <2>6. counts \in [Moments -> ReactionCounts]
    BY <2>2, <2>5 DEF ReactionCounts
  <2>7. ASSUME NEW m \in Moments
        PROVE  /\ counts[m].comments = Cardinality(ShownOn(m)) /\ counts[m].likes = Cardinality(LikesOf(m))
               /\ counts[m].bookmarks = Cardinality(BookmarksTo(m))
    <3>1. counts[m] = [comments |-> Cardinality(ShownOn(m)), likes |-> 0, bookmarks |-> 0]
      BY <2>5
    <3> QED BY <2>3, <2>4, <3>1
  <2> QED BY <2>2, <2>6, <2>7 DEF CountsKept
<1>7. CasesKept
  BY <1>1 DEF BeginsWell, CasesKept, Init
<1>8. DecisionsKept
  BY <1>1 DEF BeginsWell, DecisionsKept, Init
<1>9. AccountsKept
  BY <1>1 DEF BeginsWell, AccountsKept, Init, RelationsOK
<1> QED BY <1>2, <1>3, <1>4, <1>5, <1>6, <1>7, <1>8, <1>9 DEF CommunityInvariant

LEMMA CommunityInvariantHolds == Spec => []CommunityInvariant
<1>1. Init => CommunityInvariant
  BY CommunityBegins
<1>2. CommunityInvariant /\ [Next]_vars => CommunityInvariant'
  BY CommunityStepKeeps
<1> QED BY <1>1, <1>2, PTL DEF Spec

-------------------------------------------------------------------------------
(* What a moment shows *)

LEMMA CommunityTyped == CommunityInvariant => TypeOK
<1> SUFFICES ASSUME CommunityInvariant PROVE TypeOK
  OBVIOUS
<1>1. RelationsOK /\ role \in [Users -> Roles]
  BY DEF CommunityInvariant, AccountsKept
<1>2. /\ item \in [Items -> ItemRows] /\ public \subseteq Items /\ pinned \subseteq Posts /\ unread \subseteq Items
      /\ counts \in [Moments -> ReactionCounts] /\ bookmarks \subseteq Moments \X Users \X Folders
  BY DEF CommunityInvariant, ItemsKept, CountsKept, ReactionsKept
<1>3. /\ case \in Seq(CaseRows) /\ report \in Seq(ReportRows) /\ decision \in Seq(DecisionRows)
      /\ appeal \in Seq(AppealRows) /\ sanction \in Seq(SanctionRows) /\ invite \in Seq(InviteRows)
  BY DEF CommunityInvariant, CasesKept, DecisionsKept, AccountsKept
<1> QED BY <1>1, <1>2, <1>3 DEF TypeOK

LEMMA CountsAreRight == CommunityInvariant => CountsAgree
<1> SUFFICES ASSUME CommunityInvariant PROVE CountsAgree
  OBVIOUS
<1>1. TypeOK
  BY CommunityTyped
<1>2. ASSUME NEW m \in Moments
      PROVE  counts[m] = [comments |-> Cardinality({c \in Comments : Shown(c) /\ item[c].on = m}),
                          likes |-> Cardinality({l \in likes : l[1] = m}),
                          bookmarks |-> Cardinality({b \in bookmarks : b[1] = m})]
  <2>1. counts[m] \in ReactionCounts
    BY DEF CommunityInvariant, CountsKept
  <2>2. /\ counts[m].comments = Cardinality(ShownOn(m)) /\ counts[m].likes = Cardinality(LikesOf(m))
        /\ counts[m].bookmarks = Cardinality(BookmarksTo(m))
    BY DEF CommunityInvariant, CountsKept
  <2>3. /\ ShownOn(m) = {c \in Comments : Shown(c) /\ item[c].on = m} /\ LikesOf(m) = {l \in likes : l[1] = m}
        /\ BookmarksTo(m) = {b \in bookmarks : b[1] = m}
    BY DEF ShownOn, LikesOf, BookmarksTo
  <2> QED BY <2>1, <2>2, <2>3 DEF ReactionCounts
<1> QED BY <1>1, <1>2 DEF CountsAgree

-------------------------------------------------------------------------------
(* What the lists show *)

(* The comments v can page to. *)
PagedTo(v, m) ==
    {d \in Comments : /\ Shown(d) /\ item[d].on = m /\ VisibleAuthor(v, d)
                      /\ \/ IsRoot(d)
                         \/ item[item[d].root].state # "ADMIN" /\ VisibleAuthor(v, item[d].root)}

LEMMA PagesAre ==
    ASSUME ItemsKept, NEW v \in Users, NEW m \in Moments
    PROVE  PagedTo(v, m) = UNION {({c} \cap {d \in Comments : Shown(d)}) \cup Replies(v, c) : c \in Roots(v, m)}
<1> DEFINE Page(c) == ({c} \cap {d \in Comments : Shown(d)}) \cup Replies(v, c)
<1>1. \A c \in Comments : c \in Targets /\ c # Nothing
  BY ItemKinds, CommunityAssumption DEF Targets
<1>2. ASSUME NEW d \in PagedTo(v, m)
      PROVE  \E c \in Roots(v, m) : d \in Page(c)
  <2>1. d \in Comments /\ Shown(d) /\ item[d].on = m /\ VisibleAuthor(v, d)
    BY DEF PagedTo
  <2>2. CASE IsRoot(d)
    <3>1. d \in Roots(v, m)
      BY <2>1, <2>2 DEF Roots, Shown, Written
    <3> QED BY <2>1, <3>1
  <2>3. CASE ~IsRoot(d)
    <3> DEFINE c == item[d].root
    <3>1. c \in Comments /\ item[c].state # "none" /\ item[c].root = Nothing /\ item[c].on = m
      BY <2>1, <2>3 DEF ItemsKept, HangsTogether, IsRoot, Shown
    <3>2. item[c].state # "ADMIN" /\ VisibleAuthor(v, c)
      BY <2>3 DEF PagedTo
    <3>3. d \in OpenReplies(v, c)
      BY <2>1 DEF OpenReplies
    <3> HIDE DEF c
    <3>4. c \in Roots(v, m)
      BY <3>1, <3>2, <3>3 DEF Roots, Written, IsRoot
    <3>5. d \in Replies(v, c)
      BY <3>1, <3>2, <3>3 DEF Replies, Written, IsRoot
    <3> QED BY <3>4, <3>5
  <2> QED BY <2>2, <2>3
<1>3. ASSUME NEW c \in Roots(v, m), NEW d \in Page(c)
      PROVE  d \in PagedTo(v, m)
  <2>1. /\ c \in Comments /\ Written(c) /\ item[c].on = m /\ IsRoot(c) /\ item[c].state # "ADMIN"
        /\ VisibleAuthor(v, c)
    BY DEF Roots
  <2>2. CASE d = c /\ Shown(d)
    BY <2>1, <2>2 DEF PagedTo
  <2>3. CASE d \in Replies(v, c)
    <3>1. d \in Comments /\ Shown(d) /\ item[d].root = c /\ VisibleAuthor(v, d)
      BY <2>1, <2>3 DEF Replies, OpenReplies
    <3>2. item[d].on = m
      BY <1>1, <2>1, <3>1 DEF ItemsKept, HangsTogether, Shown
    <3> QED BY <2>1, <3>1, <3>2 DEF PagedTo
  <2> QED BY <2>2, <2>3
<1> QED BY <1>2, <1>3

LEMMA PagesAgree ==
    ASSUME ItemsKept, NEW v \in Users, NEW m \in Moments
    PROVE  LET paged == UNION {({c} \cap {d \in Comments : Shown(d)}) \cup Replies(v, c) : c \in Roots(v, m)}
           IN  /\ CommentAuthors(v, m) = {item[c].author : c \in paged}
               /\ {c \in Comments : HasContext(v, m, c)} = paged
<1>1. CommentAuthors(v, m) = {item[c].author : c \in PagedTo(v, m)}
  BY DEF CommentAuthors, PagedTo
<1>2. {c \in Comments : HasContext(v, m, c)} = PagedTo(v, m)
  BY DEF HasContext, PagedTo, Root, IsRoot, Shown
<1> QED BY <1>1, <1>2, PagesAre

(* At most one sanction of a user is in effect. *)
LEMMA StatusesAgree ==
    ASSUME CommunityInvariant, NEW status \in {"ACTIVE", "SUSPENDED", "BANNED"}
    PROVE  UsersListed(status) = {u \in Users \ gone : ModerationStatus(u) = status}
<1>1. ASSUME NEW u \in Users
      PROVE  (IF status = "ACTIVE" THEN EffectiveOf(u) = {} ELSE \E s \in EffectiveOf(u) : Status(s) = status)
             <=> ModerationStatus(u) = status
  <2>1. \A s, other \in EffectiveOf(u) : other = s
    BY DEF EffectiveOf, OpenOf, CommunityInvariant, AccountsKept, OneOpenSanction
  <2>2. \A s \in EffectiveOf(u) : s \in Nat
    BY DEF EffectiveOf, OpenOf, CommunityInvariant, AccountsKept
  <2>3. CASE EffectiveOf(u) = {}
    BY <2>3 DEF ModerationStatus
  <2>4. CASE EffectiveOf(u) # {}
    <3>1. PICK s \in EffectiveOf(u) : TRUE
      BY <2>4
    <3>2. EffectiveOf(u) = {s}
      BY <2>1, <3>1
    <3>3. (CHOOSE e \in EffectiveOf(u) : \A other \in EffectiveOf(u) : other <= e) = s
      <4>1. s <= s
        BY <2>2, <3>1
      <4> QED BY <3>2, <4>1
    <3>4. ModerationStatus(u) = Status(s)
      BY <2>4, <3>3 DEF ModerationStatus
    <3> QED BY <3>2, <3>4 DEF Status
  <2> QED BY <2>3, <2>4
<1> QED BY <1>1 DEF UsersListed

LEMMA ListsAreRight == CommunityInvariant => ListsAgree
<1> SUFFICES ASSUME CommunityInvariant PROVE ListsAgree
  OBVIOUS
<1>1. \A v \in Users, m \in Moments :
          LET paged == UNION {({c} \cap {d \in Comments : Shown(d)}) \cup Replies(v, c) : c \in Roots(v, m)}
          IN  VisibleMoment(v, m) => /\ CommentAuthors(v, m) = {item[c].author : c \in paged}
                                     /\ {c \in Comments : HasContext(v, m, c)} = paged
  BY PagesAgree DEF CommunityInvariant
<1>2. \A v \in Users : Feed(v, TRUE) \subseteq Feed(v, FALSE)
  BY DEF Feed, Cards
<1>3. \A v \in Users, u \in Users : UserMoments(v, u) \cup BookmarksOf(v, u) \subseteq SearchMoments(v)
  BY DEF UserMoments, BookmarksOf, SearchMoments, Cards
<1>4. \A i \in HiddenContent : OffersRestore(i) <=> CanRestore(i)
  BY DEF HiddenContent, OffersRestore, CanRestore, Reachable
<1>5. \A status \in {"ACTIVE", "SUSPENDED", "BANNED"} :
          UsersListed(status) = {u \in Users \ gone : ModerationStatus(u) = status}
  BY StatusesAgree
<1>6. (pinned \cup unread) \cap HiddenContent = {}
  BY DEF CommunityInvariant, ItemsKept
<1> QED BY <1>1, <1>2, <1>3, <1>4, <1>5, <1>6 DEF ListsAgree

(* Whatever is removed, hidden, restored, liked and bookmarked in whatever *)
(* order, the numbers a moment shows are those of what is there, and the   *)
(* lists of members and of the station agree with each other.              *)
THEOREM CommunityViewsAgree == Spec => []ViewsAgree
<1>1. CommunityInvariant => ViewsAgree
  BY CountsAreRight, ListsAreRight DEF ViewsAgree
<1> QED BY <1>1, CommunityInvariantHolds, PTL

-------------------------------------------------------------------------------
(* Cases and decisions *)

(* A set all of whose members are one has one at most. *)
LEMMA OneAtMost ==
    ASSUME NEW S, \A a, b \in S : a = b
    PROVE  Cardinality(S) <= 1
<1>1. CASE S = {}
  BY <1>1, FS_EmptySet
<1>2. CASE S # {}
  <2>1. PICK a \in S : TRUE
    BY <1>2
  <2>2. S = {a}
    BY <2>1
  <2> QED BY <2>2, FS_Singleton
<1> QED BY <1>1, <1>2

LEMMA CasesAreSound == CommunityInvariant => CasesHold
<1> SUFFICES ASSUME CommunityInvariant PROVE CasesHold
  OBVIOUS
<1>1. ASSUME NEW t \in Targets PROVE Cardinality(OpenCases(t)) <= 1
  <2>1. \A a, b \in OpenCases(t) : a = b
    BY DEF OpenCases, CommunityInvariant, CasesKept, OneOpenCase
  <2> QED BY <2>1, OneAtMost
<1>2. ASSUME NEW u \in Users, NEW t \in Targets PROVE Cardinality(PendingReports(u, t)) <= 1
  <2>1. \A a, b \in PendingReports(u, t) : a = b
    BY DEF PendingReports, CommunityInvariant, CasesKept, OnePendingReport
  <2> QED BY <2>1, OneAtMost
<1>3. ASSUME NEW u \in Users PROVE Cardinality(OpenOf(u)) <= 1
  <2>1. \A a, b \in OpenOf(u) : a = b
    BY DEF OpenOf, CommunityInvariant, AccountsKept, OneOpenSanction
  <2> QED BY <2>1, OneAtMost
<1>4. Cardinality({u \in Users \ gone : role[u] = "SUPER_ADMIN"}) <= 1
  <2>1. \A a, b \in {u \in Users \ gone : role[u] = "SUPER_ADMIN"} : a = b
    BY DEF CommunityInvariant, AccountsKept, OneSuperAdmin
  <2> QED BY <2>1, OneAtMost
<1>5. ASSUME NEW d \in DOMAIN decision, ~decision[d].active
      PROVE  /\ \A i \in Items : HiddenByAdmin(i) => hiddenBy[i] # d
             /\ \A s \in ImposedBy(d) : sanction[s].revoked
  <2>1. d # 0
    BY DEF CommunityInvariant, DecisionsKept
  <2> QED BY <1>5, <2>1 DEF CommunityInvariant, DecisionsKept, DecisionsStand, HiddenByAdmin, ImposedBy
<1> QED BY <1>1, <1>2, <1>3, <1>4, <1>5 DEF CasesHold

(* The unique indexes hold through every interleaving of reports, cases,   *)
(* sanctions and transfers; and a decision that an appeal has reversed     *)
(* hides nothing and sanctions nobody.                                     *)
THEOREM CommunityCasesHold == Spec => []CasesHold
<1>1. CommunityInvariant => CasesHold
  BY CasesAreSound
<1> QED BY <1>1, CommunityInvariantHolds, PTL

-------------------------------------------------------------------------------
(* What a step may do *)

(* Moments and comments change when they are shown, or hidden by an        *)
(* administrator, or new; and whose reactions are new may meet the author. *)
Moved(r, i) ==
    \/ item'[i].state = item[i].state
    \/ Shown(i) /\ item'[i].state # "shown"
    \/ HiddenByAdmin(i)
    \/ i = r.about /\ (create(r) \/ (createComment(r) /\ ~Refused(r))) /\ item[i].state = "none"
Seemly(r) ==
    /\ \A i \in Moments \cup Comments : Moved(r, i)
    /\ \A l \in likes' \ likes : MayMeet(l[2], l[1])
    /\ \A b \in bookmarks' \ bookmarks : IsBookmarked(b[2], b[1]) \/ MayMeet(b[2], b[1])

LEMMA NothingMoves == ASSUME UNCHANGED <<item, likes, bookmarks>>, NEW r PROVE Seemly(r)
BY DEF Seemly, Moved

LEMMA RefusalsAreSeemly == ASSUME NEW r, Refused(r) PROVE Seemly(r)
<1>1. UNCHANGED <<item, likes, bookmarks>>
  BY DEF Refused, itemVars, momentVars
<1> QED BY <1>1, NothingMoves

(* One row of what is shown, or hidden, changes. *)
LEMMA OneMoves ==
    ASSUME item \in [Items -> ItemRows], NEW r, NEW i, NEW state, item' = [item EXCEPT ![i].state = state],
           UNCHANGED <<likes, bookmarks>>,
           i \in Moments \cup Comments => (Shown(i) /\ state # "shown") \/ HiddenByAdmin(i)
    PROVE  Seemly(r)
<1>1. ASSUME NEW j \in Moments \cup Comments PROVE Moved(r, j)
  <2>1. j \in Items
    BY DEF Items
  <2>2. CASE j = i
    BY <2>1, <2>2 DEF Moved
  <2>3. CASE j # i
    BY <2>1, <2>3 DEF Moved
  <2> QED BY <2>2, <2>3
<1> QED BY <1>1 DEF Seemly

LEMMA CreateIsSeemly ==
    ASSUME CommunityInvariant, NEW r \in plot.requests, create(r)
    PROVE  Seemly(r)
<1>1. CASE Refused(r)
  BY <1>1, RefusalsAreSeemly
<1>2. CASE ~Refused(r)
  <2>1. UNCHANGED <<likes, bookmarks>> /\ r.op = "create"
    BY <1>2 DEF create, At, momentVars
  <2>2. r.about \in Items /\ item[r.about].state = "none"
    BY AboutMoments DEF create, At, CommunityInvariant, RowsToCome, WritingOps, Ended
  <2>3. \A j \in Items : j # r.about => item'[j] = item[j]
    BY <1>2, <2>2 DEF create, CommunityInvariant, ItemsKept
  <2>4. ASSUME NEW j \in Moments \cup Comments PROVE Moved(r, j)
    BY <2>2, <2>3 DEF Moved, Items
  <2> QED BY <2>1, <2>4 DEF Seemly
<1> QED BY <1>1, <1>2

LEMMA UpdateIsSeemly ==
    ASSUME CommunityInvariant, NEW r \in plot.requests, update(r)
    PROVE  Seemly(r)
<1>1. CASE Refused(r)
  BY <1>1, RefusalsAreSeemly
<1>2. CASE ~Refused(r)
  <2>1. UNCHANGED <<likes, bookmarks>> /\ item' = [item EXCEPT ![r.about].version = @ + 1]
    BY <1>2 DEF update, momentVars
  <2>2. \A j \in Items : item'[j].state = item[j].state
    BY <2>1 DEF CommunityInvariant, ItemsKept, ItemRows
  <2> QED BY <2>1, <2>2 DEF Seemly, Moved, Items
<1> QED BY <1>1, <1>2

LEMMA RemovingIsSeemly ==
    ASSUME CommunityInvariant, NEW r \in plot.requests, removeMoment(r) \/ removeComment(r)
    PROVE  Seemly(r)
<1>1. CASE Refused(r)
  BY <1>1, RefusalsAreSeemly
<1>2. CASE removeMoment(r) /\ ~Refused(r)
  <2>1. /\ Shown(r.about) /\ item' = [item EXCEPT ![r.about].state = RemovalBy(r, item[r.about].author)]
        /\ UNCHANGED <<likes, bookmarks>>
    BY <1>2 DEF removeMoment, momentVars
  <2>2. RemovalBy(r, item[r.about].author) # "shown"
    BY RemovalsBy
  <2> QED BY <2>1, <2>2, OneMoves DEF CommunityInvariant, ItemsKept
<1>3. CASE removeComment(r) /\ ~Refused(r) /\ Shown(r.about)
  <2>1. item' = [item EXCEPT ![r.about].state = CommentRemovalBy(r, r.about)] /\ UNCHANGED <<likes, bookmarks>>
    BY <1>3 DEF removeComment
  <2>2. CommentRemovalBy(r, r.about) # "shown"
    BY RemovalsBy DEF CommentRemovalBy
  <2> QED BY <1>3, <2>1, <2>2, OneMoves DEF CommunityInvariant, ItemsKept
<1>4. CASE removeComment(r) /\ ~Refused(r) /\ ~Shown(r.about)
  BY <1>4, NothingMoves DEF removeComment
<1> QED BY <1>1, <1>2, <1>3, <1>4

LEMMA LikingIsSeemly ==
    ASSUME CommunityInvariant, NEW r \in plot.requests, like(r) \/ unlike(r)
    PROVE  Seemly(r)
<1>1. CASE Refused(r)
  BY <1>1, RefusalsAreSeemly
<1>2. CASE like(r) /\ ~Refused(r)
  <2>1. /\ MayReact(r.user, r.about, {}) /\ (<<r.about, r.user>> \in likes \/ AuthorIsThere(r.about))
        /\ likes' = likes \cup {<<r.about, r.user>>} /\ UNCHANGED <<item, bookmarks>>
    BY <1>2 DEF like, itemVars
  <2>2. <<r.about, r.user>> \notin likes => MayMeet(r.user, r.about)
    BY <2>1 DEF MayReact, AuthorIsThere, MayMeet
  <2> QED BY <2>1, <2>2 DEF Seemly, Moved
<1>3. CASE unlike(r) /\ ~Refused(r)
  BY <1>3 DEF unlike, itemVars, Seemly, Moved
<1> QED BY <1>1, <1>2, <1>3

LEMMA BookmarkingIsSeemly ==
    ASSUME CommunityInvariant, NEW r \in plot.requests, setBookmark(r) \/ unsetBookmark(r) \/ move(r)
    PROVE  Seemly(r)
<1>1. CASE Refused(r)
  BY <1>1, RefusalsAreSeemly
<1>2. ASSUME PutInto(r.user, r.about, Resolved(r)), IsBookmarked(r.user, r.about) \/ MayMeet(r.user, r.about),
             UNCHANGED <<item, likes>>
      PROVE  Seemly(r)
  <2>1. \A b \in bookmarks' \ bookmarks : b = <<r.about, r.user, Resolved(r)>>
    BY <1>2 DEF PutInto
  <2>2. \A b : b = <<r.about, r.user, Resolved(r)>> => b[1] = r.about /\ b[2] = r.user
    OBVIOUS
  <2> QED BY <1>2, <2>1, <2>2 DEF Seemly, Moved
<1>3. CASE setBookmark(r) /\ ~Refused(r)
  <2> DEFINE stays == /\ IsBookmarked(r.user, r.about)
                      /\ r.what = "" \/ <<r.about, r.user, r.what>> \in bookmarks
  <2>1. /\ MayReact(r.user, r.about, {}) /\ (stays \/ AuthorIsThere(r.about))
        /\ UNCHANGED <<item, likes>>
        /\ IF stays THEN UNCHANGED bookmarks ELSE PutInto(r.user, r.about, Resolved(r))
    BY <1>3 DEF setBookmark, itemVars
  <2>2. CASE stays
    BY <2>1, <2>2, NothingMoves
  <2>3. CASE ~stays
    <3>1. MayMeet(r.user, r.about)
      BY <2>1, <2>3 DEF MayReact, AuthorIsThere, MayMeet
    <3>2. PutInto(r.user, r.about, Resolved(r)) /\ UNCHANGED <<item, likes>>
      BY <2>1, <2>3
    <3> QED BY <1>2, <3>1, <3>2
  <2> QED BY <2>2, <2>3
<1>4. CASE unsetBookmark(r) /\ ~Refused(r)
  <2>1. bookmarks' \subseteq bookmarks /\ UNCHANGED <<item, likes>>
    BY <1>4 DEF unsetBookmark, itemVars
  <2> QED BY <2>1 DEF Seemly, Moved
<1>5. CASE move(r) /\ ~Refused(r)
  <2>1. /\ PutInto(r.user, r.about, Resolved(r)) /\ IsBookmarked(r.user, r.about)
        /\ UNCHANGED <<item, likes>>
    BY <1>5 DEF move, itemVars
  <2> QED BY <1>2, <2>1
<1> QED BY <1>1, <1>3, <1>4, <1>5

LEMMA CommentingIsSeemly ==
    ASSUME CommunityInvariant, NEW r \in plot.requests, createComment(r)
    PROVE  Seemly(r)
<1>1. CASE Refused(r)
  BY <1>1, RefusalsAreSeemly
<1>2. CASE ~Refused(r)
  <2>1. UNCHANGED <<likes, bookmarks>> /\ r.op = "comment"
    BY <1>2 DEF createComment, At
  <2>2. r.about \in Items /\ item[r.about].state = "none"
    BY AboutComments DEF createComment, At, CommunityInvariant, RowsToCome, WritingOps, Ended
  <2>3. \A j \in Items : j # r.about => item'[j] = item[j]
    BY <1>2, <2>2 DEF createComment, CommunityInvariant, ItemsKept
  <2>4. ASSUME NEW j \in Moments \cup Comments PROVE Moved(r, j)
    BY <1>2, <2>2, <2>3 DEF Moved, Items
  <2> QED BY <2>1, <2>4 DEF Seemly
<1> QED BY <1>1, <1>2

LEMMA HidingIsSeemly ==
    ASSUME CommunityInvariant, NEW r, NEW i, NEW d, CanHide(i), Hides(i, d)
    PROVE  Seemly(r)
<1>1. Shown(i) /\ item' = [item EXCEPT ![i].state = "ADMIN"] /\ UNCHANGED <<likes, bookmarks>>
  BY DEF CanHide, Hides
<1> QED BY <1>1, OneMoves DEF CommunityInvariant, ItemsKept

LEMMA RestoringIsSeemly ==
    ASSUME CommunityInvariant, NEW r, NEW i, Locked(i) => HiddenByAdmin(i), Restores(i)
    PROVE  Seemly(r)
<1>1. item' = [item EXCEPT ![i].state = "shown"] /\ UNCHANGED <<likes, bookmarks>>
  BY DEF Restores
<1>2. i \in Moments \cup Comments => HiddenByAdmin(i)
  BY DEF Locked
<1> QED BY <1>1, <1>2, OneMoves DEF CommunityInvariant, ItemsKept

LEMMA ModeratingIsSeemly ==
    ASSUME CommunityInvariant, NEW r \in plot.requests, hideContent(r) \/ restoreContent(r) \/ withdraw(r)
    PROVE  Seemly(r)
<1>1. CASE Refused(r)
  BY <1>1, RefusalsAreSeemly
<1>2. CASE hideContent(r) /\ ~Refused(r)
  BY <1>2, HidingIsSeemly DEF hideContent
<1>3. CASE restoreContent(r) /\ ~Refused(r)
  BY <1>3, RestoringIsSeemly DEF restoreContent, Restorable, CanRestore
<1>4. CASE withdraw(r)
  <2> DEFINE state == IF r.about \in Threads THEN "OWNER" ELSE "AUTHOR"
  <2>1. /\ Shown(r.about) /\ UNCHANGED <<likes, bookmarks>> /\ state # "shown"
        /\ item' = [item EXCEPT ![r.about].state = state] \/ UNCHANGED item
    BY <1>4 DEF withdraw, momentVars
  <2> HIDE DEF state
  <2>2. CASE UNCHANGED item
    BY <2>1, <2>2, NothingMoves
  <2>3. CASE item' = [item EXCEPT ![r.about].state = state]
    BY <2>1, <2>3, OneMoves DEF CommunityInvariant, ItemsKept
  <2> QED BY <2>1, <2>2, <2>3
<1> QED BY <1>1, <1>2, <1>3, <1>4

LEMMA EnforcingIsSeemly ==
    ASSUME CommunityInvariant, NEW r, NEW t, NEW what, NEW d, NEW actorRole,
           CanEnforce(r, actorRole, t, what), Enforces(t, what, d)
    PROVE  Seemly(r)
<1>1. CASE what = "HIDE_CONTENT" /\ Hides(t, d)
  BY <1>1, HidingIsSeemly DEF CanEnforce
<1>2. CASE UNCHANGED <<momentVars, itemVars>>
  <2>1. UNCHANGED <<item, likes, bookmarks>>
    BY <1>2 DEF momentVars, itemVars
  <2> QED BY <2>1, NothingMoves
<1> QED BY <1>1, <1>2 DEF Enforces

LEMMA ResolvingIsSeemly ==
    ASSUME CommunityInvariant, NEW r \in plot.requests, resolveReport(r) \/ resolveCase(r) \/ resolveAppeal(r)
    PROVE  Seemly(r)
<1>1. CASE Refused(r)
  BY <1>1, RefusalsAreSeemly
<1>2. CASE resolveReport(r) /\ ~Refused(r)
  BY <1>2, EnforcingIsSeemly DEF resolveReport
<1>3. CASE resolveCase(r) /\ ~Refused(r)
  BY <1>3, EnforcingIsSeemly DEF resolveCase
<1>4. CASE resolveAppeal(r) /\ ~Refused(r)
  <2> DEFINE d == appeal[r.n].decision
             t == decision[d].target
  <2>1. /\ Overturns(r) /\ Hiding(d) => CanRestoreDecision(t)
        /\ IF Overturns(r) THEN Undoes(d) ELSE UNCHANGED <<decision, relationVars, momentVars, itemVars, accountVars>>
    BY <1>4 DEF resolveAppeal
  <2>2. (CanRestoreDecision(t) /\ Restores(t)) \/ UNCHANGED <<momentVars, itemVars>>
    BY <2>1 DEF Undoes
  <2> HIDE DEF t
  <2>3. CASE CanRestoreDecision(t) /\ Restores(t)
    BY <2>3, RestoringIsSeemly DEF CanRestoreDecision
  <2>4. CASE UNCHANGED <<momentVars, itemVars>>
    <3>1. UNCHANGED <<item, likes, bookmarks>>
      BY <2>4 DEF momentVars, itemVars
    <3> QED BY <3>1, NothingMoves
  <2> QED BY <2>2, <2>3, <2>4
<1> QED BY <1>1, <1>2, <1>3, <1>4

(* The steps that leave alone what is published, and the reactions to it. *)
LEMMA ReadingMovesNothing ==
    ASSUME NEW r, \/ readCreate(r) \/ readComment(r) \/ lookReply(r) \/ createFolder(r) \/ readRestore(r)
                  \/ readRevoke(r) \/ readAccept(r) \/ readCancel(r) \/ readDismiss(r) \/ readTransfer(r)
    PROVE  UNCHANGED <<item, likes, bookmarks>>
<1>1. CASE Refused(r)
  BY <1>1 DEF Refused, itemVars, momentVars
<1>2. ASSUME NEW place, NEW sight, Reads(r, place, sight)
      PROVE  UNCHANGED <<item, likes, bookmarks>>
  BY <1>2 DEF Reads, itemVars, momentVars
<1>3. CASE UNCHANGED <<relationVars, momentVars, itemVars, caseVars, accountVars>>
  BY <1>3 DEF itemVars, momentVars
<1>4. CASE readCreate(r) \/ readComment(r) \/ lookReply(r)
  BY <1>1, <1>2, <1>3, <1>4 DEF readCreate, readComment, lookReply
<1>5. CASE createFolder(r)
  BY <1>5 DEF createFolder, itemVars
<1>6. CASE readRestore(r) \/ readRevoke(r) \/ readAccept(r)
  BY <1>1, <1>2, <1>6 DEF readRestore, readRevoke, readAccept
<1>7. CASE readCancel(r) \/ readDismiss(r) \/ readTransfer(r)
  BY <1>1, <1>2, <1>7 DEF readCancel, readDismiss, readTransfer
<1> QED BY <1>4, <1>5, <1>6, <1>7

LEMMA StaffMovesNothing ==
    ASSUME NEW r, \/ sanctionUser(r) \/ revokeSanction(r) \/ inviteAdmin(r) \/ acceptInvite(r) \/ cancelInvite(r)
                  \/ dismiss(r) \/ transferSuperAdmin(r) \/ blockUser(r) \/ unblockUser(r) \/ leave(r)
    PROVE  UNCHANGED <<item, likes, bookmarks>>
<1>1. CASE Refused(r)
  BY <1>1 DEF Refused, itemVars, momentVars
<1>2. CASE UNCHANGED <<momentVars, itemVars>>
  BY <1>2 DEF itemVars, momentVars
<1>3. CASE sanctionUser(r) \/ revokeSanction(r) \/ inviteAdmin(r)
  BY <1>1, <1>2, <1>3 DEF sanctionUser, revokeSanction, inviteAdmin
<1>4. CASE acceptInvite(r) \/ cancelInvite(r) \/ dismiss(r) \/ transferSuperAdmin(r)
  BY <1>1, <1>2, <1>4 DEF acceptInvite, cancelInvite, dismiss, transferSuperAdmin
<1>5. CASE blockUser(r) \/ unblockUser(r) \/ leave(r)
  BY <1>2, <1>5 DEF blockUser, unblockUser, leave
<1> QED BY <1>3, <1>4, <1>5

LEMMA CasesMoveNothing ==
    ASSUME NEW r, \/ readTarget(r) \/ findCase(r) \/ createInOpenCase(r) \/ reportClashes(r) \/ lookDuplicate(r)
                  \/ readCase(r) \/ createAppeal(r) \/ readAppeal(r)
    PROVE  UNCHANGED <<item, likes, bookmarks>>
<1>1. CASE Refused(r)
  BY <1>1 DEF Refused, itemVars, momentVars
<1>2. ASSUME NEW place, NEW sight, Reads(r, place, sight)
      PROVE  UNCHANGED <<item, likes, bookmarks>>
  BY <1>2 DEF Reads, itemVars, momentVars
<1>3. CASE UNCHANGED <<momentVars, itemVars>>
  BY <1>3 DEF itemVars, momentVars
<1>4. CASE readTarget(r) \/ findCase(r) \/ lookDuplicate(r)
  BY <1>1, <1>2, <1>4 DEF readTarget, findCase, lookDuplicate
<1>5. CASE createInOpenCase(r) \/ reportClashes(r)
  BY <1>3, <1>5 DEF createInOpenCase, reportClashes
<1>6. CASE readCase(r) \/ createAppeal(r) \/ readAppeal(r)
  BY <1>1, <1>2, <1>3, <1>6 DEF readCase, createAppeal, readAppeal
<1> QED BY <1>4, <1>5, <1>6

LEMMA StepsAreSeemly ==
    ASSUME CommunityInvariant, [Next]_vars
    PROVE  UNCHANGED <<item, likes, bookmarks>> \/ \E r \in plot.requests : Seemly(r)
<1>1. ASSUME NEW r \in plot.requests, MomentSteps(r)
      PROVE  UNCHANGED <<item, likes, bookmarks>> \/ Seemly(r)
  BY <1>1, ReadingMovesNothing, CreateIsSeemly, UpdateIsSeemly, RemovingIsSeemly, LikingIsSeemly,
     BookmarkingIsSeemly, CommentingIsSeemly DEF MomentSteps
<1>2. ASSUME NEW r \in plot.requests, ModerationSteps(r)
      PROVE  UNCHANGED <<item, likes, bookmarks>> \/ Seemly(r)
  BY <1>2, ReadingMovesNothing, StaffMovesNothing, ModeratingIsSeemly DEF ModerationSteps
<1>3. ASSUME NEW r \in plot.requests, CaseSteps(r)
      PROVE  UNCHANGED <<item, likes, bookmarks>> \/ Seemly(r)
  BY <1>3, CasesMoveNothing, ResolvingIsSeemly DEF CaseSteps
<1>4. ASSUME NEW r \in plot.requests, blockUser(r) \/ unblockUser(r) \/ leave(r)
      PROVE  UNCHANGED <<item, likes, bookmarks>>
  BY <1>4, StaffMovesNothing
<1>5. CASE \/ \E s \in DOMAIN sanction : suspensionEnds(s)
           \/ \E n \in DOMAIN invite : inviteRunsOut(n)
           \/ UNCHANGED vars
  BY <1>5 DEF suspensionEnds, inviteRunsOut, vars, itemVars, momentVars
<1> QED BY <1>1, <1>2, <1>3, <1>4, <1>5 DEF Next

(* What its author, or the author of the moment, has removed does not come *)
(* back: administrators restore what they have hidden, and look at it      *)
(* again when they hold the lock.                                          *)
THEOREM CommunityRemovalsStand == Spec => RemovalsStand
<1> DEFINE Stand == \A i \in Moments \cup Comments :
                        item[i].state \in {"AUTHOR", "OWNER"} => item'[i].state = item[i].state
<1>1. ASSUME CommunityInvariant, [Next]_vars PROVE Stand
  <2>1. CASE UNCHANGED <<item, likes, bookmarks>>
    BY <2>1
  <2>2. ASSUME NEW r \in plot.requests, Seemly(r) PROVE Stand
    BY <2>2 DEF Seemly, Moved, Shown, HiddenByAdmin
  <2> QED BY <1>1, <2>1, <2>2, StepsAreSeemly
<1>2. CommunityInvariant /\ [Next]_vars => [Stand]_vars
  BY <1>1
<1> QED BY <1>2, CommunityInvariantHolds, PTL DEF Spec, RemovalsStand

(* Nobody reacts to a moment that is gone, or across a block, or answers a *)
(* comment that is removed or stands below a hidden one: the locks hold    *)
(* what was allowed when the request read it.                              *)
THEOREM CommunityNobodyIntrudes == Spec => NobodyIntrudes
<1> DEFINE Allowed(r) == /\ MayMeet(r.user, r.on)
                         /\ r.to # Nothing => /\ Shown(r.to) /\ ~Blocked(r.user, item[r.to].author)
                                              /\ item[Root(r.to)].state # "ADMIN"
           Civil == /\ \A l \in likes' \ likes : MayMeet(l[2], l[1])
                    /\ \A b \in bookmarks' \ bookmarks : IsBookmarked(b[2], b[1]) \/ MayMeet(b[2], b[1])
                    /\ \A r \in plot.requests :
                          r.op = "comment" /\ ~Written(r.about) /\ item'[r.about].state = "shown"
                          => /\ MayMeet(r.user, r.on)
                             /\ r.to # Nothing => /\ Shown(r.to) /\ ~Blocked(r.user, item[r.to].author)
                                                  /\ item[Root(r.to)].state # "ADMIN"
<1>1. ASSUME NEW r, createComment(r), ~Refused(r) PROVE Allowed(r)
  <2>1. MayReact(r.user, r.on, Concerned(seen[r].row)) /\ AuthorIsThere(r.on) /\ MayReply(r)
    BY <1>1 DEF createComment
  <2> QED BY <2>1 DEF MayReact, AuthorIsThere, MayReply, MayMeet, Answerable
<1>2. ASSUME CommunityInvariant, NEW q \in plot.requests, Seemly(q), NEW r \in plot.requests,
             r.op = "comment", ~Written(r.about), item'[r.about].state = "shown"
      PROVE  Allowed(r)
  <2>1. r.about \in Comments /\ r.about \notin Moments /\ Placed
    BY <1>2, AboutComments DEF CommunityInvariant
  <2>2. Moved(q, r.about) /\ item[r.about].state = "none"
    BY <1>2, <2>1 DEF Seemly, Written
  <2>3. r.about = q.about /\ (create(q) \/ (createComment(q) /\ ~Refused(q)))
    BY <1>2, <2>2 DEF Moved, Shown, HiddenByAdmin
  <2>4. ~create(q)
    BY <2>1, <2>3, AboutMoments DEF create, At
  <2>5. createComment(q) /\ ~Refused(q) /\ q.op = "comment"
    BY <2>3, <2>4 DEF createComment, At
  <2>6. q = r
    BY <1>2, <2>1, <2>3, <2>5, RowsOfTheirOwn DEF WritingOps
  <2> QED BY <1>1, <2>5, <2>6
<1>3. ASSUME CommunityInvariant, [Next]_vars PROVE Civil
  <2>1. CASE UNCHANGED <<item, likes, bookmarks>>
    BY <2>1 DEF Written
  <2>2. ASSUME NEW q \in plot.requests, Seemly(q) PROVE Civil
    <3>1. \A r \in plot.requests :
              r.op = "comment" /\ ~Written(r.about) /\ item'[r.about].state = "shown" => Allowed(r)
      BY <1>2, <1>3, <2>2
    <3> QED BY <2>2, <3>1 DEF Seemly
  <2> QED BY <1>3, <2>1, <2>2, StepsAreSeemly
<1>4. CommunityInvariant /\ [Next]_vars => [Civil]_vars
  BY <1>3
<1> QED BY <1>4, CommunityInvariantHolds, PTL DEF Spec, NobodyIntrudes
===============================================================================
