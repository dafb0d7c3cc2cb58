----------------------------- MODULE LibraryProofs -----------------------------
(***************************************************************************)
(* Proofs about what members keep, for any members, threads, tags, images  *)
(* and stickers, any number of slots and any limits, whatever is asked for *)
(* and however often.                                                      *)
(*                                                                         *)
(* The invariant is a conjunction over what is kept: shelves, tags,        *)
(* drafts, threads that begin as drafts, stickers.  A step changes one of  *)
(* these, two at the most; the others stay, which is shown once for each.  *)
(***************************************************************************)
EXTENDS Library, FiniteSetTheorems, WellFoundedInduction, TLAPS

-------------------------------------------------------------------------------
(* The inductive invariant *)

(* Each request is somewhere: one for a new thread where those are, and    *)
(* one that looks into a slot names a slot.                                *)
BeginningPlaces == {"new", "create thread", "thread clash", "invalidate", "done", "refused"}
Fits(r, place) ==
    /\ r.op = "createThread" => place \in BeginningPlaces
    /\ place \in {"look", "fill"} => r.n # 0

Placed ==
    /\ plot \in Plots
    /\ pc = [r \in plot.requests |-> pc[r]]
    /\ seen = [r \in plot.requests |-> seen[r]]
    /\ \A r \in plot.requests : Fits(r, pc[r])

MembersKept ==
    /\ RelationsOK
    /\ thread \in [Threads -> ThreadRows]
    /\ role \in [Threads -> [Users -> MemberRoles]]
    /\ player \in [Threads -> SUBSET Users]

BookmarksKept ==
    /\ bookmarks \subseteq Users \X Threads \X Folders
    /\ folders \subseteq Users \X Folders
    /\ \A b \in bookmarks : <<b[1], b[3]>> \in folders /\ \A c \in bookmarks : <<b[1], b[2]>> = <<c[1], c[2]>> => b = c

LikesKept ==
    /\ likes \subseteq Threads \X Users /\ IsFiniteSet(likes)
    /\ likeCount = [t \in Threads |-> Cardinality({u \in Users : <<t, u>> \in likes})]

ShelvesKept == MembersKept /\ BookmarksKept /\ LikesKept /\ subscriptions \subseteq SubscriptionRows

(* A search that is about to fill the cache shows what there is, unless a  *)
(* change came meanwhile.                                                  *)
Listing == {<<x, tag[x].name>> : x \in Active}
SearchesHold == \A r \in plot.requests : pc[r] = "fill cache" => suspect \/ seen[r].shows = Listing
NamesDiffer == \A x, y \in Tags : tag[x].state # "none" /\ tag[y].state # "none" /\ tag[x].name = tag[y].name => x = y

TagsKept ==
    /\ tag \in [Tags -> TagRows] /\ tagged \subseteq Threads \X Tags
    /\ suspect \in BOOLEAN
    /\ NamesDiffer
    /\ SearchesHold
    /\ ListIsFresh

DraftsKept == draft \in Seq(DraftRows) /\ SlotsAreDistinct

ThreadDraftsKept == threadDraft \in Seq(ThreadDraftRows) /\ ThreadsBeginOnce

StickersKept ==
    /\ DOMAIN favorite \subseteq Assets /\ IsFiniteSet(DOMAIN favorite)
    /\ import \in Seq(ImportRows) /\ job \in Seq(Jobs) /\ Len(job) = Len(import)
    /\ source \subseteq Media
    /\ CollectionHolds

LibraryInvariant ==
    Placed /\ ShelvesKept /\ TagsKept /\ DraftsKept /\ ThreadDraftsKept /\ StickersKept

-------------------------------------------------------------------------------
(* Steps of requests *)

(* A step of r, and of nobody else. *)
StepOf(r) ==
    /\ r \in plot.requests /\ plot' = plot
    /\ pc' = [pc EXCEPT ![r] = pc'[r]]
    /\ seen' = [seen EXCEPT ![r] = seen'[r]]

(* A step that neither begins a thread nor has to do with the cache. *)
PlainStep(r) ==
    /\ StepOf(r) /\ Fits(r, pc'[r])
    /\ r.op # "createThread" /\ pc[r] # "invalidate" /\ pc'[r] # "fill cache"

(* A plain step of a request, or one that concerns no request. *)
Orderly == UNCHANGED <<plot, requestVars>> \/ \E r \in plot.requests : PlainStep(r)

(* What is asked for is a command. *)
LEMMA CommandsAsked ==
    ASSUME Placed, NEW r \in plot.requests
    PROVE  r \in Requests /\ r \in Commands
<1>1. r \in Requests
  BY DEF Placed, Requests
<1> QED BY <1>1, RequestsAssumption

(* A request that goes to a place, and sees something or not, takes a step. *)
LEMMA PlacesAreSteps ==
    ASSUME Placed, NEW r \in plot.requests, NEW place, NEW sight, Place(r, place),
           seen' = seen \/ seen' = [seen EXCEPT ![r] = sight]
    PROVE  StepOf(r) /\ pc'[r] = place
BY DEF Placed, Place, StepOf

LEMMA PlacedStays ==
    ASSUME Placed, NEW r \in plot.requests, StepOf(r), Fits(r, pc'[r])
    PROVE  Placed'
BY DEF Placed, StepOf

LEMMA PlacedInOrder == ASSUME Placed, Orderly PROVE Placed'
<1>1. CASE UNCHANGED <<plot, requestVars>>
  BY <1>1 DEF Placed, requestVars
<1>2. ASSUME NEW r \in plot.requests, PlainStep(r) PROVE Placed'
  BY <1>2, PlacedStays DEF PlainStep
<1> QED BY <1>1, <1>2 DEF Orderly

-------------------------------------------------------------------------------
(* What is left alone stays as it is *)

LEMMA ShelvesStay ==
    ASSUME ShelvesKept, UNCHANGED <<relationVars, threadVars, shelfVars>>
    PROVE  ShelvesKept'
BY DEF ShelvesKept, MembersKept, BookmarksKept, LikesKept, relationVars, threadVars, shelfVars, RelationsOK

LEMMA DraftsStay == ASSUME DraftsKept, UNCHANGED draft PROVE DraftsKept'
BY DEF DraftsKept, SlotsAreDistinct, There

LEMMA StickersStay ==
    ASSUME StickersKept, UNCHANGED <<favorite, import, job, source>>
    PROVE  StickersKept'
BY DEF StickersKept, CollectionHolds, Processing, Live

(* The registry is left alone by a step that does not enter the cache, nor *)
(* forget that it was to drop it.                                          *)
LEMMA TagsStay ==
    ASSUME Placed, TagsKept, UNCHANGED <<tag, cached, suspect>>, tagged' \subseteq Threads \X Tags,
           NEW r \in plot.requests, StepOf(r), pc[r] # "invalidate", pc'[r] # "fill cache"
    PROVE  TagsKept'
<1>1. Listing' = Listing /\ tag' = tag /\ (suspect' <=> suspect) /\ suspect' = suspect /\ cached' = cached
  BY DEF Listing, Active
<1>2. \A q \in plot.requests : q # r => pc'[q] = pc[q] /\ seen'[q] = seen[q]
  BY DEF StepOf, Placed
<1>3. plot' = plot
  BY DEF StepOf
<1>4. SearchesHold'
  BY <1>1, <1>2, <1>3 DEF TagsKept, SearchesHold
<1>5. ListIsFresh'
  <2>1. CASE \E q \in plot.requests : pc[q] = "invalidate"
    <3>1. \E q \in plot.requests : pc'[q] = "invalidate"
      BY <1>2, <2>1
    <3> QED BY <1>3, <3>1 DEF ListIsFresh
  <2>2. CASE ~cached.full \/ suspect \/ cached.shows = {<<x, tag[x].name>> : x \in Active}
    BY <1>1, <2>2 DEF ListIsFresh, Active
  <2> QED BY <2>1, <2>2 DEF TagsKept, ListIsFresh
<1> QED BY <1>1, <1>4, <1>5 DEF TagsKept, NamesDiffer, TagRows

LEMMA TagsInOrder == ASSUME Placed, TagsKept, Orderly, UNCHANGED tagVars PROVE TagsKept'
<1>1. CASE UNCHANGED <<plot, requestVars>>
  BY <1>1 DEF TagsKept, NamesDiffer, SearchesHold, ListIsFresh, Listing, Active, tagVars, requestVars
<1>2. ASSUME NEW r \in plot.requests, PlainStep(r) PROVE TagsKept'
  <2>1. UNCHANGED <<tag, cached, suspect>> /\ tagged' \subseteq Threads \X Tags
    BY DEF tagVars, TagsKept
  <2> QED BY <1>2, <2>1, TagsStay DEF PlainStep
<1> QED BY <1>1, <1>2 DEF Orderly

(* Whoever was told of a thread is still told the truth. *)
LEMMA ThreadDraftsStay ==
    ASSUME Placed, ThreadDraftsKept, UNCHANGED threadDraft, NEW r \in plot.requests, StepOf(r),
           r.op = "createThread" => \/ pc[r] = "invalidate" \/ pc'[r] \notin {"invalidate", "done"}
                                    \/ \E i \in Begun(r) : threadDraft[i].asked = Asked(r)
    PROVE  ThreadDraftsKept'
<1>1. \A q \in plot.requests : q # r => pc'[q] = pc[q]
  BY DEF StepOf, Placed
<1>2. plot' = plot /\ \A q : Begun(q)' = Begun(q)
  BY DEF StepOf, Begun
<1>3. \A q \in plot.requests :
         q.op = "createThread" /\ pc'[q] \in {"invalidate", "done"} /\ q.key # "" =>
             \E i \in Begun(q) : threadDraft[i].asked = Asked(q)
  BY <1>1 DEF ThreadDraftsKept, ThreadsBeginOnce
<1>4. \A u : Unpublished(u)' = Unpublished(u)
  BY DEF Unpublished
<1> QED BY <1>2, <1>3, <1>4 DEF ThreadDraftsKept, ThreadsBeginOnce, Asked

LEMMA ThreadDraftsInOrder ==
    ASSUME Placed, ThreadDraftsKept, Orderly, UNCHANGED threadDraft
    PROVE  ThreadDraftsKept'
<1>1. CASE UNCHANGED <<plot, requestVars>>
  BY <1>1 DEF ThreadDraftsKept, ThreadsBeginOnce, Begun, Unpublished, Asked, requestVars
<1>2. ASSUME NEW r \in plot.requests, PlainStep(r) PROVE ThreadDraftsKept'
  BY <1>2, ThreadDraftsStay DEF PlainStep
<1> QED BY <1>1, <1>2 DEF Orderly

-------------------------------------------------------------------------------
(* Kinds of steps *)

(* A request that is done, is refused, or goes on to something that has    *)
(* nothing to do with the cache, takes an orderly step.                    *)
LEMMA PlacesAreOrderly ==
    ASSUME Placed, NEW r \in plot.requests, NEW place, NEW sight, Place(r, place),
           seen' = seen \/ seen' = [seen EXCEPT ![r] = sight],
           r.op # "createThread", pc[r] # "invalidate", place # "fill cache", place \in {"look", "fill"} => r.n # 0
    PROVE  Orderly
BY PlacesAreSteps DEF Orderly, PlainStep, Fits

LEMMA DoneIsOrderly ==
    ASSUME Placed, NEW r \in plot.requests, Done(r), r.op # "createThread", pc[r] # "invalidate"
    PROVE  Orderly
<1>1. Place(r, "done") /\ seen' = seen
  BY DEF Done
<1> QED BY <1>1, PlacesAreOrderly

(* An orderly step keeps everything if it keeps what it changes. *)
LEMMA ShelfStepKeeps ==
    ASSUME LibraryInvariant, Orderly, UNCHANGED <<tagVars, draftVars, stickerVars>>, ShelvesKept'
    PROVE  LibraryInvariant'
<1>1. UNCHANGED draft /\ UNCHANGED threadDraft /\ UNCHANGED <<favorite, import, job, source>> /\ UNCHANGED tagVars
  BY DEF draftVars, stickerVars
<1> QED BY <1>1, PlacedInOrder, TagsInOrder, DraftsStay, ThreadDraftsInOrder, StickersStay DEF LibraryInvariant

LEMMA DraftStepKeeps ==
    ASSUME LibraryInvariant, Orderly, DraftsKept', ThreadDraftsKept',
           UNCHANGED <<relationVars, threadVars, shelfVars, tagVars, stickerVars>>
    PROVE  LibraryInvariant'
<1>1. UNCHANGED <<relationVars, threadVars, shelfVars>> /\ UNCHANGED <<favorite, import, job, source>> /\ UNCHANGED tagVars
  BY DEF stickerVars
<1> QED BY <1>1, PlacedInOrder, ShelvesStay, TagsInOrder, StickersStay DEF LibraryInvariant

LEMMA StickerStepKeeps ==
    ASSUME LibraryInvariant, Orderly, UNCHANGED <<relationVars, threadVars, shelfVars, tagVars, draftVars>>, StickersKept'
    PROVE  LibraryInvariant'
<1>1. UNCHANGED <<relationVars, threadVars, shelfVars>> /\ UNCHANGED draft /\ UNCHANGED threadDraft /\ UNCHANGED tagVars
  BY DEF draftVars
<1> QED BY <1>1, PlacedInOrder, ShelvesStay, TagsInOrder, DraftsStay, ThreadDraftsInOrder DEF LibraryInvariant

LEMMA TagStepKeeps ==
    ASSUME LibraryInvariant, Placed', TagsKept', ThreadDraftsKept',
           UNCHANGED <<relationVars, threadVars, shelfVars, draft, stickerVars>>
    PROVE  LibraryInvariant'
<1>1. UNCHANGED <<relationVars, threadVars, shelfVars>> /\ UNCHANGED draft /\ UNCHANGED <<favorite, import, job, source>>
  BY DEF stickerVars
<1> QED BY <1>1, ShelvesStay, DraftsStay, StickersStay DEF LibraryInvariant

LEMMA TablesStay ==
    ASSUME LibraryInvariant, Orderly, UNCHANGED tableVars
    PROVE  LibraryInvariant'
<1>1. UNCHANGED <<tagVars, draftVars, stickerVars>> /\ UNCHANGED <<relationVars, threadVars, shelfVars>>
  BY DEF tableVars
<1> QED BY <1>1, ShelvesStay, ShelfStepKeeps DEF LibraryInvariant

(* A request that is refused, answered with what there is, or has read. *)
LEMMA RefusalsKeep ==
    ASSUME LibraryInvariant, NEW r \in plot.requests, r.op # "createThread", pc[r] # "invalidate", Refused(r)
    PROVE  LibraryInvariant'
<1>1. Place(r, "refused") /\ seen' = seen /\ UNCHANGED tableVars
  BY DEF Refused
<1> QED BY <1>1, PlacesAreOrderly, TablesStay DEF LibraryInvariant

LEMMA AnswersKeep ==
    ASSUME LibraryInvariant, NEW r \in plot.requests, r.op # "createThread", pc[r] # "invalidate", Answered(r)
    PROVE  LibraryInvariant'
BY DoneIsOrderly, TablesStay DEF LibraryInvariant, Answered

LEMMA ReadingKeeps ==
    ASSUME LibraryInvariant, NEW r \in plot.requests, r.op # "createThread", pc[r] # "invalidate",
           NEW place, NEW sight, place # "fill cache", place \in {"look", "fill"} => r.n # 0, Reads(r, place, sight)
    PROVE  LibraryInvariant'
<1>1. Place(r, place) /\ seen' = [seen EXCEPT ![r] = sight] /\ UNCHANGED tableVars
  BY DEF Reads
<1> QED BY <1>1, PlacesAreOrderly, TablesStay DEF LibraryInvariant

(* Where only the bookmarks change, the subscriptions, or the likes. *)
LEMMA BookmarkingKeeps ==
    ASSUME LibraryInvariant, NEW r \in plot.requests, r.op # "createThread", pc[r] # "invalidate",
           OnShelves(r), UNCHANGED <<subscriptions, likes, likeCount>>, BookmarksKept'
    PROVE  LibraryInvariant'
<1>1. Done(r) /\ UNCHANGED <<tagVars, draftVars, stickerVars>> /\ UNCHANGED <<relationVars, threadVars>>
  BY DEF OnShelves
<1>2. ShelvesKept'
  BY <1>1 DEF LibraryInvariant, ShelvesKept, MembersKept, LikesKept, relationVars, threadVars, RelationsOK
<1> QED BY <1>1, <1>2, DoneIsOrderly, ShelfStepKeeps DEF LibraryInvariant

LEMMA SubscribingKeeps ==
    ASSUME LibraryInvariant, NEW r \in plot.requests, r.op # "createThread", pc[r] # "invalidate",
           OnShelves(r), UNCHANGED <<bookmarks, folders, likes, likeCount>>, subscriptions' \subseteq SubscriptionRows
    PROVE  LibraryInvariant'
<1>1. Done(r) /\ UNCHANGED <<tagVars, draftVars, stickerVars>> /\ UNCHANGED <<relationVars, threadVars>>
  BY DEF OnShelves
<1>2. SubscriptionRows' = SubscriptionRows
  BY DEF SubscriptionRows
<1>3. ShelvesKept'
  BY <1>1, <1>2 DEF LibraryInvariant, ShelvesKept, MembersKept, BookmarksKept, LikesKept, relationVars, threadVars, RelationsOK
<1> QED BY <1>1, <1>3, DoneIsOrderly, ShelfStepKeeps DEF LibraryInvariant

LEMMA LikingKeeps ==
    ASSUME LibraryInvariant, NEW r \in plot.requests, r.op # "createThread", pc[r] # "invalidate",
           OnShelves(r), UNCHANGED <<bookmarks, folders, subscriptions>>, LikesKept'
    PROVE  LibraryInvariant'
<1>1. Done(r) /\ UNCHANGED <<tagVars, draftVars, stickerVars>> /\ UNCHANGED <<relationVars, threadVars>>
  BY DEF OnShelves
<1>2. ShelvesKept'
  BY <1>1 DEF LibraryInvariant, ShelvesKept, MembersKept, BookmarksKept, relationVars, threadVars, RelationsOK
<1> QED BY <1>1, <1>2, DoneIsOrderly, ShelfStepKeeps DEF LibraryInvariant

-------------------------------------------------------------------------------
(* Bookmarks *)

LEMMA ReadBookmarkKeeps ==
    ASSUME LibraryInvariant, NEW r \in plot.requests, readBookmark(r)
    PROVE  LibraryInvariant'
<1>1. r.op = "bookmark" /\ pc[r] = "new" /\ (Refused(r) \/ Reads(r, "bookmark", NoSight))
  BY DEF readBookmark, Arrives
<1> QED BY <1>1, RefusalsKeep, ReadingKeeps

(* A bookmark is a triple. *)
LEMMA BookmarkParts ==
    ASSUME BookmarksKept, NEW b \in bookmarks
    PROVE  b = <<b[1], b[2], b[3]>> /\ b[1] \in Users /\ b[2] \in Threads /\ b[3] \in Folders
<1>1. b \in Users \X Threads \X Folders
  BY DEF BookmarksKept
<1>2. PICK u \in Users, t \in Threads, f \in Folders : b = <<u, t, f>>
  BY <1>1
<1> QED BY <1>2

(* A bookmark is put where there is none of the same thread. *)
LEMMA OneBookmarkMore ==
    ASSUME BookmarksKept, NEW kept \in SUBSET bookmarks, NEW u \in Users, NEW t \in Threads, NEW f \in Folders,
           bookmarks' = kept \cup {<<u, t, f>>}, \A b \in kept : <<b[1], b[2]>> # <<u, t>>,
           folders \subseteq folders', folders' \subseteq Users \X Folders, <<u, f>> \in folders'
    PROVE  BookmarksKept'
<1> DEFINE new == <<u, t, f>>
<1>1. new[1] = u /\ new[2] = t /\ new[3] = f /\ new \in Users \X Threads \X Folders
  OBVIOUS
<1>2. bookmarks' \subseteq Users \X Threads \X Folders
  BY <1>1 DEF BookmarksKept
<1>3. \A b \in bookmarks' : b \in kept \/ b = new
  OBVIOUS
<1> HIDE DEF new
<1>4. \A b \in bookmarks' : <<b[1], b[3]>> \in folders'
  BY <1>1, <1>3 DEF BookmarksKept
<1>5. \A b, c \in bookmarks' : <<b[1], b[2]>> = <<c[1], c[2]>> => b = c
  <2>1. SUFFICES ASSUME NEW b \in bookmarks', NEW c \in bookmarks', <<b[1], b[2]>> = <<c[1], c[2]>> PROVE b = c
    OBVIOUS
  <2>2. CASE b \in kept /\ c \in kept
    BY <2>1, <2>2 DEF BookmarksKept
  <2>3. CASE b = new \/ c = new
    BY <1>1, <1>3, <2>1, <2>3
  <2> QED BY <1>3, <2>2, <2>3
<1> QED BY <1>2, <1>4, <1>5 DEF BookmarksKept

(* The folder is there, or becomes the default one. *)
LEMMA CreateBookmarkKeeps ==
    ASSUME LibraryInvariant, NEW r \in plot.requests, createBookmark(r)
    PROVE  LibraryInvariant'
<1>1. r.op = "bookmark" /\ pc[r] = "bookmark"
  BY DEF createBookmark, At, Stands
<1>2. CASE Refused(r)
  BY <1>1, <1>2, RefusalsKeep
<1>3. CASE ~Refused(r)
  <2>1. /\ CanResolve(r) /\ ~HasBookmark(r.user, r.thread)
        /\ bookmarks' = bookmarks \cup {<<r.user, r.thread, Folder(r)>>}
        /\ folders' = IF r.what = "" THEN WithDefault(r.user) ELSE folders
        /\ UNCHANGED <<subscriptions, likes, likeCount>> /\ OnShelves(r)
    BY <1>3 DEF createBookmark
  <2>2. r.user \in Users /\ r.thread \in Threads
    BY CommandsAsked DEF LibraryInvariant, Commands
  <2>3. BookmarksKept /\ Default \in Folders
    BY LibraryAssumption DEF LibraryInvariant, ShelvesKept
  <2>4. Folder(r) \in Folders /\ <<r.user, Folder(r)>> \in folders' /\ folders \subseteq folders'
        /\ folders' \subseteq Users \X Folders
    <3>1. CASE r.what = ""
      <4>1. folders' = folders \cup {<<r.user, Default>>} /\ Folder(r) = Default
        BY <2>1, <3>1 DEF Folder, WithDefault
      <4>2. <<r.user, Default>> \in Users \X Folders /\ folders \subseteq Users \X Folders
        BY <2>2, <2>3 DEF BookmarksKept
      <4> QED BY <2>3, <4>1, <4>2
    <3>2. CASE r.what # ""
      BY <2>1, <2>2, <2>3, <3>2 DEF CanResolve, Folder, BookmarksKept
    <3> QED BY <3>1, <3>2
  <2>5. \A b \in bookmarks : <<b[1], b[2]>> # <<r.user, r.thread>>
    BY <2>1, <2>3, BookmarkParts DEF HasBookmark
  <2>6. BookmarksKept'
    <3>1. bookmarks \in SUBSET bookmarks /\ bookmarks' = bookmarks \cup {<<r.user, r.thread, Folder(r)>>}
      BY <2>1
    <3> QED BY <2>2, <2>3, <2>4, <2>5, <3>1, OneBookmarkMore
  <2> QED BY <1>1, <2>1, <2>6, BookmarkingKeeps
<1> QED BY <1>2, <1>3

(* A bookmark is in one folder. *)
LEMMA MoveBookmarkKeeps ==
    ASSUME LibraryInvariant, NEW r \in plot.requests, moveBookmark(r)
    PROVE  LibraryInvariant'
<1>1. r.op = "move" /\ pc[r] = "new"
  BY DEF moveBookmark, Arrives
<1>2. CASE Refused(r)
  BY <1>1, <1>2, RefusalsKeep
<1>3. CASE ~Refused(r)
  <2>1. /\ <<r.user, r.what>> \in folders
        /\ bookmarks' = Elsewhere(r.user, r.thread) \cup {<<r.user, r.thread, r.what>>}
        /\ UNCHANGED <<folders, subscriptions, likes, likeCount>> /\ OnShelves(r)
    BY <1>3 DEF moveBookmark
  <2>2. r.user \in Users /\ r.thread \in Threads
    BY CommandsAsked DEF LibraryInvariant, Commands
  <2>3. BookmarksKept /\ r.what \in Folders /\ folders \subseteq Users \X Folders
    BY <2>1 DEF LibraryInvariant, ShelvesKept, BookmarksKept
  <2>4. Elsewhere(r.user, r.thread) \in SUBSET bookmarks
        /\ \A b \in Elsewhere(r.user, r.thread) : <<b[1], b[2]>> # <<r.user, r.thread>>
    BY DEF Elsewhere
  <2>5. BookmarksKept'
    BY <2>1, <2>2, <2>3, <2>4, OneBookmarkMore
  <2> QED BY <1>1, <2>1, <2>5, BookmarkingKeeps
<1> QED BY <1>2, <1>3

LEMMA RemoveBookmarkKeeps ==
    ASSUME LibraryInvariant, NEW r \in plot.requests, removeBookmark(r)
    PROVE  LibraryInvariant'
<1>1. r.op = "unbookmark" /\ pc[r] = "new"
  BY DEF removeBookmark, Arrives
<1>2. CASE Refused(r)
  BY <1>1, <1>2, RefusalsKeep
<1>3. CASE ~Refused(r)
  <2>1. /\ bookmarks' = Elsewhere(r.user, r.thread)
        /\ UNCHANGED folders /\ UNCHANGED <<subscriptions, likes, likeCount>> /\ OnShelves(r)
    BY <1>3 DEF removeBookmark
  <2>2. bookmarks' \subseteq bookmarks
    BY <2>1 DEF Elsewhere
  <2>3. BookmarksKept'
    BY <2>1, <2>2 DEF LibraryInvariant, ShelvesKept, BookmarksKept
  <2> QED BY <1>1, <2>1, <2>3, BookmarkingKeeps
<1> QED BY <1>2, <1>3

LEMMA CreateFolderKeeps ==
    ASSUME LibraryInvariant, NEW r \in plot.requests, createFolder(r)
    PROVE  LibraryInvariant'
<1>1. /\ r.op = "folder" /\ pc[r] = "new" /\ OnShelves(r)
      /\ folders' = WithDefault(r.user) \cup {<<r.user, r.what>>}
      /\ UNCHANGED bookmarks /\ UNCHANGED <<subscriptions, likes, likeCount>>
  BY DEF createFolder, Arrives
<1>2. r.user \in Users /\ r.what \in Folders /\ Default \in Folders
  BY <1>1, CommandsAsked, RequestsAssumption, LibraryAssumption DEF LibraryInvariant, Commands
<1>3. BookmarksKept'
  BY <1>1, <1>2 DEF WithDefault, LibraryInvariant, ShelvesKept, BookmarksKept
<1> QED BY <1>1, <1>3, BookmarkingKeeps

-------------------------------------------------------------------------------
(* Subscriptions *)

LEMMA ReadSubscribeKeeps ==
    ASSUME LibraryInvariant, NEW r \in plot.requests, readSubscribe(r)
    PROVE  LibraryInvariant'
<1>1. r.op = "subscribe" /\ pc[r] = "new" /\ (Refused(r) \/ Reads(r, "subscribe", NoSight))
  BY DEF readSubscribe, Arrives
<1> QED BY <1>1, RefusalsKeep, ReadingKeeps

LEMMA CreateSubscriptionKeeps ==
    ASSUME LibraryInvariant, NEW r \in plot.requests, createSubscription(r)
    PROVE  LibraryInvariant'
<1>1. r.op = "subscribe" /\ pc[r] = "subscribe"
  BY DEF createSubscription, At, Stands
<1>2. CASE Refused(r)
  BY <1>1, <1>2, RefusalsKeep
<1>3. CASE ~Refused(r)
  <2>1. /\ subscriptions' = subscriptions \cup {Wanted(r)}
        /\ UNCHANGED <<bookmarks, folders, likes, likeCount>> /\ OnShelves(r)
    BY <1>3 DEF createSubscription
  <2>2. Wanted(r) \in SubscriptionRows
    BY CommandsAsked DEF LibraryInvariant, Commands, Wanted, SubscriptionRows
  <2>3. subscriptions' \subseteq SubscriptionRows
    BY <2>1, <2>2 DEF LibraryInvariant, ShelvesKept
  <2> QED BY <1>1, <2>1, <2>3, SubscribingKeeps
<1> QED BY <1>2, <1>3

LEMMA RemoveSubscriptionKeeps ==
    ASSUME LibraryInvariant, NEW r \in plot.requests, removeSubscription(r)
    PROVE  LibraryInvariant'
<1>1. r.op = "unsubscribe" /\ pc[r] = "new"
  BY DEF removeSubscription, Arrives
<1>2. CASE Refused(r)
  BY <1>1, <1>2, RefusalsKeep
<1>3. CASE ~Refused(r)
  <2>1. /\ subscriptions' = subscriptions \ {Wanted(r)}
        /\ UNCHANGED <<bookmarks, folders, likes, likeCount>> /\ OnShelves(r)
    BY <1>3 DEF removeSubscription
  <2>2. subscriptions' \subseteq SubscriptionRows
    BY <2>1 DEF LibraryInvariant, ShelvesKept
  <2> QED BY <1>1, <2>1, <2>2, SubscribingKeeps
<1> QED BY <1>2, <1>3

-------------------------------------------------------------------------------
(* Likes *)

(* Those who like a thread are finitely many. *)
LEMMA FansAreFinite ==
    ASSUME NEW L \in SUBSET (Threads \X Users), IsFiniteSet(L), NEW t \in Threads
    PROVE  IsFiniteSet({u \in Users : <<t, u>> \in L})
<1> DEFINE S == {u \in Users : <<t, u>> \in L}
           f == [u \in S |-> <<t, u>>]
<1>1. f \in [S -> L] /\ \A u, v \in S : f[u] = f[v] => u = v
  OBVIOUS
<1> HIDE DEF f
<1>2. f \in Injection(S, L)
  BY <1>1 DEF Injection, IsInjective
<1> HIDE DEF S
<1>3. IsFiniteSet(S)
  BY <1>2, FS_Injection
<1> QED BY <1>3 DEF S

LEMMA ReadLikeKeeps ==
    ASSUME LibraryInvariant, NEW r \in plot.requests, readLike(r)
    PROVE  LibraryInvariant'
<1>1. r.op \in {"like", "unlike"} /\ pc[r] = "new" /\ (Refused(r) \/ Reads(r, "like", NoSight))
  BY DEF readLike, Arrives
<1> QED BY <1>1, RefusalsKeep, ReadingKeeps

(* Whoever likes a thread twice counts once. *)
LEMMA LikeKeeps ==
    ASSUME LibraryInvariant, NEW r \in plot.requests, like(r)
    PROVE  LibraryInvariant'
<1>1. r.op = "like" /\ pc[r] = "like"
  BY DEF like, At, Stands
<1>2. CASE Refused(r)
  BY <1>1, <1>2, RefusalsKeep
<1>3. CASE ~Refused(r)
  <2> DEFINE t == r.thread
             u == r.user
             Fans(s, L) == {v \in Users : <<s, v>> \in L}
  <2>1. /\ likes' = likes \cup {<<t, u>>}
        /\ likeCount' = [likeCount EXCEPT ![t] = IF <<t, u>> \in likes THEN @ ELSE @ + 1]
        /\ UNCHANGED <<bookmarks, folders, subscriptions>> /\ OnShelves(r)
    BY <1>3 DEF like
  <2>2. t \in Threads /\ u \in Users /\ LikesKept
    BY CommandsAsked DEF LibraryInvariant, ShelvesKept, Commands
  <2> HIDE DEF t, u
  <2>3. likes' \subseteq Threads \X Users /\ IsFiniteSet(likes')
    BY <2>1, <2>2, FS_AddElement DEF LikesKept
  <2>4. \A s \in Threads : s # t => Fans(s, likes') = Fans(s, likes)
    BY <2>1
  <2>5. Fans(t, likes') = Fans(t, likes) \cup {u} /\ (u \in Fans(t, likes) <=> <<t, u>> \in likes)
    BY <2>1, <2>2
  <2>6. IsFiniteSet(Fans(t, likes)) /\ likeCount = [s \in Threads |-> Cardinality(Fans(s, likes))]
    BY <2>2, FansAreFinite DEF LikesKept
  <2> HIDE DEF Fans
  <2>7. /\ u \in Fans(t, likes) => Cardinality(Fans(t, likes')) = Cardinality(Fans(t, likes))
        /\ u \notin Fans(t, likes) => Cardinality(Fans(t, likes')) = Cardinality(Fans(t, likes)) + 1
    BY <2>5, <2>6, FS_AddElement
  <2>8. likeCount' = [s \in Threads |-> Cardinality(Fans(s, likes'))]
    BY <2>1, <2>2, <2>4, <2>5, <2>6, <2>7
  <2>9. LikesKept'
    BY <2>3, <2>8 DEF LikesKept, Fans
  <2> QED BY <1>1, <2>1, <2>9, LikingKeeps
<1> QED BY <1>2, <1>3

LEMMA UnlikeKeeps ==
    ASSUME LibraryInvariant, NEW r \in plot.requests, unlike(r)
    PROVE  LibraryInvariant'
<1> DEFINE t == r.thread
           u == r.user
           Fans(s, L) == {v \in Users : <<s, v>> \in L}
<1>1. r.op = "unlike" /\ pc[r] = "like"
  BY DEF unlike, At, Stands
<1>2. /\ likes' = likes \ {<<t, u>>}
      /\ likeCount' = [likeCount EXCEPT ![t] = IF <<t, u>> \in likes THEN @ - 1 ELSE @]
      /\ UNCHANGED <<bookmarks, folders, subscriptions>> /\ OnShelves(r)
  BY DEF unlike
<1>3. t \in Threads /\ u \in Users /\ LikesKept
  BY CommandsAsked DEF LibraryInvariant, ShelvesKept, Commands
<1> HIDE DEF t, u
<1>4. likes' \subseteq Threads \X Users /\ IsFiniteSet(likes')
  BY <1>2, <1>3, FS_Subset DEF LikesKept
<1>5. \A s \in Threads : s # t => Fans(s, likes') = Fans(s, likes)
  BY <1>2
<1>6. Fans(t, likes') = Fans(t, likes) \ {u} /\ (u \in Fans(t, likes) <=> <<t, u>> \in likes)
  BY <1>2, <1>3
<1>7. IsFiniteSet(Fans(t, likes)) /\ likeCount = [s \in Threads |-> Cardinality(Fans(s, likes))]
  BY <1>3, FansAreFinite DEF LikesKept
<1> HIDE DEF Fans
<1>8. /\ u \in Fans(t, likes) => Cardinality(Fans(t, likes')) = Cardinality(Fans(t, likes)) - 1
      /\ u \notin Fans(t, likes) => Cardinality(Fans(t, likes')) = Cardinality(Fans(t, likes))
  BY <1>6, <1>7, FS_RemoveElement
<1>9. likeCount' = [s \in Threads |-> Cardinality(Fans(s, likes'))]
  BY <1>2, <1>3, <1>5, <1>6, <1>7, <1>8
<1>10. LikesKept'
  BY <1>4, <1>9 DEF LikesKept, Fans
<1> QED BY <1>1, <1>2, <1>10, LikingKeeps

-------------------------------------------------------------------------------
(* Threads, their members, and blocks *)

(* Where only the members change, or what they follow. *)
LEMMA MembersKeep ==
    ASSUME LibraryInvariant, NEW r \in plot.requests, r.op # "createThread", pc[r] # "invalidate",
           Done(r), UNCHANGED <<bookmarks, folders, likes, likeCount>>, UNCHANGED <<tagVars, draftVars, stickerVars>>,
           MembersKept', subscriptions' \subseteq subscriptions
    PROVE  LibraryInvariant'
<1>1. SubscriptionRows' = SubscriptionRows
  BY DEF SubscriptionRows
<1>2. ShelvesKept'
  BY <1>1 DEF LibraryInvariant, ShelvesKept, BookmarksKept, LikesKept
<1> QED BY <1>2, DoneIsOrderly, ShelfStepKeeps DEF LibraryInvariant

LEMMA ChangeThreadKeeps ==
    ASSUME LibraryInvariant, NEW r \in plot.requests, changeThread(r)
    PROVE  LibraryInvariant'
<1>1. /\ r.op \in {"withdraw", "close"} /\ pc[r] = "new"
      /\ thread' = [thread EXCEPT ![r.thread].live = FALSE] \/ thread' = [thread EXCEPT ![r.thread].private = TRUE]
      /\ UNCHANGED <<role, player, subscriptions>> /\ InThread(r)
  BY DEF changeThread, Arrives
<1>2. thread \in [Threads -> ThreadRows] /\ MembersKept
  BY DEF LibraryInvariant, ShelvesKept, MembersKept
<1>3. thread' \in [Threads -> ThreadRows]
  <2>1. \A t \in Threads : thread[t] \in ThreadRows
    BY <1>2
  <2>2. \A row \in ThreadRows : [row EXCEPT !.live = FALSE] \in ThreadRows /\ [row EXCEPT !.private = TRUE] \in ThreadRows
    BY DEF ThreadRows
  <2>3. \/ thread' = [thread EXCEPT ![r.thread] = [thread[r.thread] EXCEPT !.live = FALSE]]
        \/ thread' = [thread EXCEPT ![r.thread] = [thread[r.thread] EXCEPT !.private = TRUE]]
    BY <1>1
  <2>4. r.thread \in Threads
    BY CommandsAsked DEF LibraryInvariant, Commands
  <2> QED BY <1>2, <2>1, <2>2, <2>3, <2>4
<1>4. Done(r) /\ UNCHANGED <<bookmarks, folders, likes, likeCount>> /\ UNCHANGED <<tagVars, draftVars, stickerVars>>
      /\ UNCHANGED relationVars
  BY <1>1 DEF InThread
<1>5. MembersKept'
  BY <1>1, <1>2, <1>3, <1>4 DEF MembersKept, RelationsOK, relationVars, ThreadRows
<1> QED BY <1>1, <1>4, <1>5, MembersKeep

LEMMA ReadMemberKeeps ==
    ASSUME LibraryInvariant, NEW r \in plot.requests, readMember(r)
    PROVE  LibraryInvariant'
<1>1. r.op \in {"promote", "unmark"} /\ pc[r] = "new" /\ (Refused(r) \/ Reads(r, "member", NoSight))
  BY DEF readMember, Arrives
<1> QED BY <1>1, RefusalsKeep, ReadingKeeps

LEMMA UpdateMemberKeeps ==
    ASSUME LibraryInvariant, NEW r \in plot.requests, updateMember(r)
    PROVE  LibraryInvariant'
<1>1. pc[r] = "member" /\ r.op # "createThread"
  BY DEF updateMember, Stands, LibraryInvariant, Placed, Fits, BeginningPlaces
<1>2. CASE Refused(r)
  BY <1>1, <1>2, RefusalsKeep
<1>3. CASE ~Refused(r)
  <2>1. /\ \/ role' = [role EXCEPT ![r.thread][r.target] = "COLLABORATOR"] /\ UNCHANGED player
           \/ player' = [player EXCEPT ![r.thread] = @ \ {r.target}] /\ UNCHANGED role
        /\ subscriptions' \subseteq subscriptions
        /\ UNCHANGED thread /\ InThread(r)
    BY <1>3 DEF updateMember
  <2>2. MembersKept /\ r.thread \in Threads
    BY CommandsAsked DEF LibraryInvariant, ShelvesKept, Commands
  <2>3. role' \in [Threads -> [Users -> MemberRoles]] /\ player' \in [Threads -> SUBSET Users]
    <3>1. role \in [Threads -> [Users -> MemberRoles]] /\ player \in [Threads -> SUBSET Users]
      BY <2>2 DEF MembersKept
    <3>2. [role[r.thread] EXCEPT ![r.target] = "COLLABORATOR"] \in [Users -> MemberRoles]
      BY <2>2, <3>1 DEF MemberRoles
    <3>3. \/ role' = [role EXCEPT ![r.thread] = [role[r.thread] EXCEPT ![r.target] = "COLLABORATOR"]] /\ UNCHANGED player
          \/ player' = [player EXCEPT ![r.thread] = player[r.thread] \ {r.target}] /\ UNCHANGED role
      BY <2>1
    <3>4. CASE /\ role' = [role EXCEPT ![r.thread] = [role[r.thread] EXCEPT ![r.target] = "COLLABORATOR"]]
               /\ UNCHANGED player
      BY <3>1, <3>2, <3>4
    <3>5. CASE player' = [player EXCEPT ![r.thread] = player[r.thread] \ {r.target}] /\ UNCHANGED role
      <4>1. player[r.thread] \ {r.target} \in SUBSET Users
        BY <2>2, <3>1
      <4> QED BY <3>1, <3>5, <4>1
    <3> QED BY <3>3, <3>4, <3>5
  <2>4. Done(r) /\ UNCHANGED <<bookmarks, folders, likes, likeCount>> /\ UNCHANGED <<tagVars, draftVars, stickerVars>>
        /\ UNCHANGED relationVars
    BY <2>1 DEF InThread
  <2>5. MembersKept'
    BY <2>1, <2>2, <2>3, <2>4 DEF MembersKept, RelationsOK, relationVars, ThreadRows, MemberRoles
  <2> QED BY <1>1, <2>1, <2>4, <2>5, MembersKeep
<1> QED BY <1>2, <1>3

LEMMA ExitMemberKeeps ==
    ASSUME LibraryInvariant, NEW r \in plot.requests, exitMember(r)
    PROVE  LibraryInvariant'
<1>1. r.op = "exit" /\ pc[r] = "new"
  BY DEF exitMember, Arrives
<1>2. CASE Refused(r)
  BY <1>1, <1>2, RefusalsKeep
<1>3. CASE ~Refused(r)
  <2>1. /\ player' = [player EXCEPT ![r.thread] = @ \ {r.user}]
        /\ subscriptions' \subseteq subscriptions
        /\ UNCHANGED <<thread, role>> /\ InThread(r)
    BY <1>3 DEF exitMember
  <2>2. MembersKept /\ player' \in [Threads -> SUBSET Users]
    BY <2>1 DEF LibraryInvariant, ShelvesKept, MembersKept
  <2>3. Done(r) /\ UNCHANGED <<bookmarks, folders, likes, likeCount>> /\ UNCHANGED <<tagVars, draftVars, stickerVars>>
        /\ UNCHANGED relationVars
    BY <2>1 DEF InThread
  <2>4. MembersKept'
    BY <2>1, <2>2, <2>3 DEF MembersKept, RelationsOK, relationVars, ThreadRows, MemberRoles
  <2> QED BY <1>1, <2>1, <2>3, <2>4, MembersKeep
<1> QED BY <1>2, <1>3

LEMMA RelateKeeps ==
    ASSUME LibraryInvariant, NEW r \in plot.requests, relate(r)
    PROVE  LibraryInvariant'
<1>1. /\ r.op \in {"block", "unblock"} /\ pc[r] = "new" /\ Done(r)
      /\ UNCHANGED <<threadVars, shelfVars, tagVars, draftVars, stickerVars>>
      /\ \/ r.op = "block" /\ block(r.user, r.target)
         \/ r.op = "unblock" /\ unblock(r.user, r.target)
  BY DEF relate, Arrives
<1>2. r.user \in Users /\ (r.op = "block" => r.target \in Users) /\ RelationsOK
  BY CommandsAsked, RequestsAssumption DEF LibraryInvariant, ShelvesKept, MembersKept, Commands
<1>3. RelationsOK'
  BY <1>1, <1>2 DEF RelationsOK, block, unblock
<1>4. UNCHANGED <<bookmarks, folders, likes, likeCount>> /\ UNCHANGED <<tagVars, draftVars, stickerVars>>
      /\ UNCHANGED <<thread, role, player, subscriptions>>
  BY <1>1 DEF threadVars, shelfVars
<1>5. MembersKept'
  BY <1>3, <1>4 DEF LibraryInvariant, ShelvesKept, MembersKept, ThreadRows, MemberRoles
<1> QED BY <1>1, <1>4, <1>5, MembersKeep

LEMMA ShelfActionsKeep ==
    ASSUME LibraryInvariant, NEW r \in plot.requests, ShelfActions(r)
    PROVE  LibraryInvariant'
BY ReadBookmarkKeeps, CreateBookmarkKeeps, MoveBookmarkKeeps, RemoveBookmarkKeeps, CreateFolderKeeps,
   ReadSubscribeKeeps, CreateSubscriptionKeeps, RemoveSubscriptionKeeps, ReadLikeKeeps, LikeKeeps, UnlikeKeeps,
   ChangeThreadKeeps, ReadMemberKeeps, UpdateMemberKeeps, ExitMemberKeeps, RelateKeeps DEF ShelfActions

-------------------------------------------------------------------------------
(* Tags *)

(* A step of the registry that is no request for a thread. *)
LEMMA RegistryKeeps ==
    ASSUME LibraryInvariant, NEW r \in plot.requests, NEW place \in {"invalidate", "done"}, r.op # "createThread",
           InTags(r, place), TagsKept'
    PROVE  LibraryInvariant'
<1>1. Place(r, place) /\ seen' = seen /\ UNCHANGED <<relationVars, threadVars, shelfVars, draft, stickerVars>>
      /\ UNCHANGED threadDraft
  BY DEF InTags, draftVars
<1>2. StepOf(r) /\ Placed /\ ThreadDraftsKept /\ Fits(r, pc'[r])
  BY <1>1, PlacesAreSteps DEF LibraryInvariant, Fits
<1>3. Placed' /\ ThreadDraftsKept'
  BY <1>1, <1>2, PlacedStays, ThreadDraftsStay
<1> QED BY <1>1, <1>3, TagStepKeeps

(* When the registry changes, whoever changed it is about to drop the list *)
(* and whoever searches is known to be late.                               *)
LEMMA RegistryChanges ==
    ASSUME Placed, TagsKept, NEW r \in plot.requests, Place(r, "invalidate"), seen' = seen,
           tag' \in [Tags -> TagRows], NamesDiffer', tagged' \subseteq Threads \X Tags,
           \/ suspect' = (suspect \/ Searching)
           \/ suspect' = suspect /\ tag' = tag
    PROVE  TagsKept'
<1>2. plot' = plot /\ pc'[r] = "invalidate" /\ \A q \in plot.requests : q # r => pc'[q] = pc[q]
  BY DEF Place, Placed
<1>3. ListIsFresh'
  BY <1>2 DEF ListIsFresh
<1>4. SearchesHold'
  <2>1. SUFFICES ASSUME NEW q \in plot.requests, pc'[q] = "fill cache" PROVE suspect' \/ seen'[q].shows = Listing'
    BY <1>2 DEF SearchesHold
  <2>2. pc[q] = "fill cache"
    BY <1>2, <2>1
  <2>3. CASE suspect' = (suspect \/ Searching)
    BY <2>2, <2>3 DEF Searching
  <2>4. CASE suspect' = suspect /\ tag' = tag
    <3>1. Listing' = Listing
      BY <2>4 DEF Listing, Active
    <3> QED BY <2>2, <2>4, <3>1 DEF TagsKept, SearchesHold
  <2> QED BY <2>3, <2>4
<1>5. suspect' \in BOOLEAN
  BY DEF TagsKept
<1> QED BY <1>3, <1>4, <1>5 DEF TagsKept, TagRows

LEMMA ChangesKeep ==
    ASSUME LibraryInvariant, NEW r \in plot.requests, r.op # "createThread", InTags(r, "invalidate"),
           tag' \in [Tags -> TagRows], NamesDiffer', tagged' \subseteq Threads \X Tags,
           \/ suspect' = (suspect \/ Searching)
           \/ suspect' = suspect /\ tag' = tag
    PROVE  LibraryInvariant'
<1>1. Place(r, "invalidate") /\ seen' = seen /\ Placed /\ TagsKept
  BY DEF InTags, LibraryInvariant
<1>2. TagsKept'
  BY <1>1, RegistryChanges
<1> QED BY <1>2, RegistryKeeps

(* A name is given to a tag while no other has it. *)
LEMMA NamesStayApart ==
    ASSUME TagsKept, NEW x, NEW row \in TagRows, Named(row.name) \subseteq {x},
           tag' = [tag EXCEPT ![x] = row]
    PROVE  tag' \in [Tags -> TagRows] /\ NamesDiffer'
<1>1. tag \in [Tags -> TagRows] /\ NamesDiffer
  BY DEF TagsKept
<1>2. tag' \in [Tags -> TagRows] /\ \A y \in Tags : tag'[y] = IF y = x THEN row ELSE tag[y]
  BY <1>1
<1>3. \A y \in Tags : y # x /\ tag[y].state # "none" => tag[y].name # row.name
  BY DEF Named
<1>4. NamesDiffer'
  BY <1>1, <1>2, <1>3 DEF NamesDiffer
<1> QED BY <1>2, <1>4

LEMMA CreateTagKeeps ==
    ASSUME LibraryInvariant, NEW r \in plot.requests, createTag(r)
    PROVE  LibraryInvariant'
<1>1. r.op = "createTag" /\ pc[r] = "new"
  BY DEF createTag, Arrives
<1>2. CASE Refused(r)
  BY <1>1, <1>2, RefusalsKeep
<1>3. CASE ~Refused(r)
  <2> DEFINE x == CHOOSE x \in Unused : TRUE
             row == [state |-> "active", name |-> r.what]
  <2>1. Named(r.what) = {} /\ Changes(r, [tag EXCEPT ![x] = row])
    BY <1>3 DEF createTag
  <2>2. row \in TagRows /\ row.name = r.what /\ TagsKept
    BY CommandsAsked DEF LibraryInvariant, Commands, TagRows
  <2> HIDE DEF x, row
  <2>3. tag' \in [Tags -> TagRows] /\ NamesDiffer'
    BY <2>1, <2>2, NamesStayApart DEF Changes
  <2>4. InTags(r, "invalidate") /\ suspect' = (suspect \/ Searching) /\ tagged' \subseteq Threads \X Tags
    BY <2>1, <2>2 DEF Changes, TagsKept
  <2> QED BY <1>1, <2>3, <2>4, ChangesKeep
<1> QED BY <1>2, <1>3

LEMMA UpdateTagKeeps ==
    ASSUME LibraryInvariant, NEW r \in plot.requests, updateTag(r)
    PROVE  LibraryInvariant'
<1>1. r.op = "updateTag" /\ pc[r] = "new"
  BY DEF updateTag, Arrives
<1>2. CASE Refused(r)
  BY <1>1, <1>2, RefusalsKeep
<1>3. CASE ~Refused(r)
  <2> DEFINE x == CHOOSE x \in Tags : r.key = "" \/ tag[x].name = r.key
             row == [state |-> IF r.versioned THEN "active" ELSE "inactive", name |-> r.what]
  <2>1. Named(r.what) \subseteq {x} /\ Changes(r, [tag EXCEPT ![x] = row])
    BY <1>3 DEF updateTag
  <2>2. row \in TagRows /\ row.name = r.what /\ TagsKept
    BY CommandsAsked DEF LibraryInvariant, Commands, TagRows
  <2> HIDE DEF x, row
  <2>3. tag' \in [Tags -> TagRows] /\ NamesDiffer'
    BY <2>1, <2>2, NamesStayApart DEF Changes
  <2>4. InTags(r, "invalidate") /\ suspect' = (suspect \/ Searching) /\ tagged' \subseteq Threads \X Tags
    BY <2>1, <2>2 DEF Changes, TagsKept
  <2> QED BY <1>1, <2>3, <2>4, ChangesKeep
<1> QED BY <1>2, <1>3

LEMMA InvalidateKeeps ==
    ASSUME LibraryInvariant, NEW r \in plot.requests, invalidate(r)
    PROVE  LibraryInvariant'
<1>1. /\ pc[r] = "invalidate" /\ UNCHANGED <<tag, tagged>> /\ InTags(r, "done")
      /\ \/ cached' = NoList /\ suspect' = (suspect /\ Searching)
         \/ UNCHANGED cached /\ suspect' = (suspect \/ cached.full)
  BY DEF invalidate, Stands
<1>2. Place(r, "done") /\ seen' = seen /\ UNCHANGED <<relationVars, threadVars, shelfVars, draft, stickerVars>>
      /\ UNCHANGED threadDraft
  BY <1>1 DEF InTags, draftVars
<1>3. StepOf(r) /\ pc'[r] = "done" /\ Placed /\ ThreadDraftsKept /\ TagsKept
  BY <1>2, PlacesAreSteps DEF LibraryInvariant
<1>4. Placed' /\ ThreadDraftsKept'
  BY <1>1, <1>2, <1>3, PlacedStays, ThreadDraftsStay DEF Fits, BeginningPlaces
<1>5. ListIsFresh'
  <2>1. CASE cached' = NoList
    BY <2>1 DEF ListIsFresh, NoList
  <2>2. CASE UNCHANGED cached /\ suspect' = (suspect \/ cached.full)
    <3>1. ~cached'.full \/ suspect'
      BY <2>2
    <3> QED BY <3>1 DEF ListIsFresh
  <2> QED BY <1>1, <2>1, <2>2
<1>6. SearchesHold'
  <2>1. Listing' = Listing
    BY <1>1 DEF Listing, Active
  <2>2. plot' = plot /\ \A q \in plot.requests : pc'[q] = IF q = r THEN "done" ELSE pc[q]
    BY <1>2, <1>3 DEF Placed, Place
  <2>3. Searching /\ suspect => suspect'
    BY <1>1
  <2> SUFFICES ASSUME NEW q \in plot.requests, pc'[q] = "fill cache" PROVE suspect' \/ seen'[q].shows = Listing'
    BY <2>2 DEF SearchesHold
  <2>4. pc[q] = "fill cache"
    BY <2>2
  <2> QED BY <1>2, <1>3, <2>1, <2>3, <2>4 DEF TagsKept, SearchesHold, Searching
<1>7. TagsKept'
  <2>1. suspect' \in BOOLEAN
    <3>1. suspect \in BOOLEAN
      BY <1>3 DEF TagsKept
    <3> QED BY <1>1, <3>1
  <2> QED BY <1>1, <1>3, <1>5, <1>6, <2>1 DEF TagsKept, NamesDiffer, TagRows
<1> QED BY <1>2, <1>4, <1>7, TagStepKeeps

(* A search that does not find the list in the cache sees the registry. *)
LEMMA SearchTagsKeeps ==
    ASSUME LibraryInvariant, NEW r \in plot.requests, searchTags(r)
    PROVE  LibraryInvariant'
<1>1. r.op = "searchTags" /\ pc[r] = "new"
  BY DEF searchTags, Arrives
<1>2. CASE Answered(r)
  BY <1>1, <1>2, AnswersKeep
<1>3. CASE ~Answered(r)
  <2> DEFINE sight == [NoSight EXCEPT !.shows = {<<x, tag[x].name>> : x \in Active}]
  <2>1. Reads(r, "fill cache", sight)
    BY <1>3 DEF searchTags
  <2>2. sight.shows = Listing
    BY DEF NoSight, Listing
  <2> HIDE DEF sight
  <2>3. Place(r, "fill cache") /\ seen' = [seen EXCEPT ![r] = sight] /\ UNCHANGED tableVars
    BY <2>1 DEF Reads
  <2>4. UNCHANGED <<relationVars, threadVars, shelfVars, draft, stickerVars>> /\ UNCHANGED threadDraft /\ UNCHANGED tagVars
    BY <2>3 DEF tableVars, draftVars
  <2>5. StepOf(r) /\ Placed /\ ThreadDraftsKept /\ TagsKept /\ Fits(r, pc'[r])
    <3>1. StepOf(r) /\ pc'[r] = "fill cache"
      BY <2>3, PlacesAreSteps DEF LibraryInvariant
    <3>2. Fits(r, "fill cache")
      BY <1>1 DEF Fits
    <3> QED BY <3>1, <3>2 DEF LibraryInvariant
  <2>6. Placed' /\ ThreadDraftsKept'
    BY <1>1, <2>4, <2>5, PlacedStays, ThreadDraftsStay
  <2>7. Listing' = Listing /\ UNCHANGED <<tag, tagged, cached, suspect>>
    BY <2>4 DEF tagVars, Listing, Active
  <2>8. SearchesHold'
    <3>1. seen'[r] = sight /\ plot' = plot /\ \A q \in plot.requests : q # r => seen'[q] = seen[q] /\ pc'[q] = pc[q]
      BY <2>3, <2>5 DEF Placed, Place
    <3> QED BY <2>2, <2>5, <2>7, <3>1 DEF TagsKept, SearchesHold
  <2>9. ListIsFresh'
    <3>1. plot' = plot /\ \A q \in plot.requests : pc[q] = "invalidate" => pc'[q] = "invalidate"
      BY <1>1, <2>3, <2>5 DEF Placed, Place
    <3>2. {<<x, tag'[x].name>> : x \in Active'} = {<<x, tag[x].name>> : x \in Active}
      BY <2>7 DEF Listing, Active
    <3> QED BY <2>5, <2>7, <3>1, <3>2 DEF TagsKept, ListIsFresh
  <2>10. TagsKept'
    BY <2>5, <2>7, <2>8, <2>9 DEF TagsKept, NamesDiffer, TagRows
  <2> QED BY <2>4, <2>6, <2>10, TagStepKeeps
<1> QED BY <1>2, <1>3

LEMMA FillCacheKeeps ==
    ASSUME LibraryInvariant, NEW r \in plot.requests, fillCache(r)
    PROVE  LibraryInvariant'
<1>1. /\ r.op = "searchTags" /\ pc[r] = "fill cache" /\ InTags(r, "done")
      /\ cached' = cached \/ cached' = [full |-> TRUE, shows |-> seen[r].shows]
      /\ UNCHANGED <<tag, tagged, suspect>>
  BY DEF fillCache, At, Stands
<1>2. Place(r, "done") /\ seen' = seen /\ Placed /\ TagsKept
  BY <1>1 DEF InTags, LibraryInvariant
<1>3. plot' = plot /\ \A q \in plot.requests : pc'[q] = IF q = r THEN "done" ELSE pc[q]
  BY <1>2 DEF Placed, Place
<1>4. Listing' = Listing /\ Listing = {<<x, tag[x].name>> : x \in Active}
  BY <1>1 DEF Listing, Active
<1>5. SearchesHold'
  BY <1>1, <1>2, <1>3, <1>4 DEF TagsKept, SearchesHold
<1>6. suspect \/ seen[r].shows = Listing
  BY <1>1, <1>2 DEF TagsKept, SearchesHold
<1>7. ListIsFresh'
  <2>1. CASE cached' = cached
    BY <1>1, <1>2, <1>3, <1>4, <2>1 DEF TagsKept, ListIsFresh, Listing
  <2>2. CASE cached' = [full |-> TRUE, shows |-> seen[r].shows]
    BY <1>1, <1>4, <1>6, <2>2 DEF ListIsFresh, Listing
  <2> QED BY <1>1, <2>1, <2>2
<1>8. TagsKept'
  BY <1>1, <1>2, <1>5, <1>7 DEF TagsKept, NamesDiffer, TagRows
<1> QED BY <1>1, <1>8, RegistryKeeps

LEMMA ReadAddTagKeeps ==
    ASSUME LibraryInvariant, NEW r \in plot.requests, readAddTag(r)
    PROVE  LibraryInvariant'
<1>1. r.op \in {"addTag", "removeTag"} /\ pc[r] = "new" /\ (Refused(r) \/ Reads(r, "tag", NoSight))
  BY DEF readAddTag, Arrives
<1> QED BY <1>1, RefusalsKeep, ReadingKeeps

(* A tag of that name is found, or one is made. *)
LEMMA FindOrCreateKeeps ==
    ASSUME LibraryInvariant, NEW r \in plot.requests, findOrCreate(r)
    PROVE  LibraryInvariant'
<1>1. r.op = "addTag" /\ pc[r] = "tag"
  BY DEF findOrCreate, At, Stands
<1>2. CASE Refused(r)
  BY <1>1, <1>2, RefusalsKeep
<1>3. CASE ~Refused(r)
  <2> DEFINE known == Named(r.what)
             x == IF known # {} THEN CHOOSE x \in known : TRUE ELSE CHOOSE x \in Unused : TRUE
             row == [state |-> "active", name |-> r.what]
  <2>1. /\ known # {} \/ Unused # {}
        /\ tag' = IF known # {} THEN tag ELSE [tag EXCEPT ![x] = row]
        /\ suspect' = (suspect \/ (known = {} /\ Searching))
        /\ tagged' = tagged \cup {<<r.thread, x>>}
        /\ InTags(r, "invalidate")
    BY <1>3 DEF findOrCreate
  <2>2. r.thread \in Threads /\ TagsKept /\ row \in TagRows /\ row.name = r.what
    BY CommandsAsked DEF LibraryInvariant, Commands, TagRows
  <2>3. x \in Tags
    BY <2>1 DEF Named, Unused
  <2> HIDE DEF x, row
  <2>4. tagged' \subseteq Threads \X Tags
    BY <2>1, <2>2, <2>3 DEF TagsKept
  <2>5. CASE known # {}
    <3>1. tag' = tag /\ suspect' = suspect
      BY <2>1, <2>2, <2>5 DEF TagsKept
    <3>2. tag' \in [Tags -> TagRows] /\ NamesDiffer'
      BY <2>2, <3>1 DEF TagsKept, NamesDiffer
    <3> QED BY <1>1, <2>1, <2>4, <3>1, <3>2, ChangesKeep
  <2>6. CASE known = {}
    <3>1. tag' = [tag EXCEPT ![x] = row] /\ suspect' = (suspect \/ Searching) /\ Named(row.name) \subseteq {x}
      BY <2>1, <2>2, <2>6
    <3>2. tag' \in [Tags -> TagRows] /\ NamesDiffer'
      BY <2>2, <3>1, NamesStayApart
    <3> QED BY <1>1, <2>1, <2>4, <3>1, <3>2, ChangesKeep
  <2> QED BY <2>5, <2>6
<1> QED BY <1>2, <1>3

LEMMA RemoveTagKeeps ==
    ASSUME LibraryInvariant, NEW r \in plot.requests, removeTag(r)
    PROVE  LibraryInvariant'
<1>1. r.op = "removeTag" /\ pc[r] = "tag"
  BY DEF removeTag, At, Stands
<1>2. CASE Refused(r)
  BY <1>1, <1>2, RefusalsKeep
<1>3. CASE ~Refused(r)
  <2>1. tagged' \subseteq tagged /\ UNCHANGED <<tag, cached, suspect>> /\ InTags(r, "done")
    BY <1>3 DEF removeTag
  <2>2. Place(r, "done") /\ seen' = seen /\ Placed /\ TagsKept
    BY <2>1 DEF InTags, LibraryInvariant
  <2>3. StepOf(r) /\ pc'[r] = "done" /\ tagged' \subseteq Threads \X Tags
    BY <2>1, <2>2, PlacesAreSteps DEF TagsKept
  <2>4. TagsKept'
    BY <1>1, <2>1, <2>2, <2>3, TagsStay
  <2> QED BY <1>1, <2>1, <2>4, RegistryKeeps
<1> QED BY <1>2, <1>3

LEMMA TagActionsKeep ==
    ASSUME LibraryInvariant, NEW r \in plot.requests, TagActions(r)
    PROVE  LibraryInvariant'
BY CreateTagKeeps, UpdateTagKeeps, InvalidateKeeps, SearchTagsKeeps, FillCacheKeeps, ReadAddTagKeeps,
   FindOrCreateKeeps, RemoveTagKeeps DEF TagActions

LEMMA CacheExpiresKeeps ==
    ASSUME LibraryInvariant, cacheExpires
    PROVE  LibraryInvariant'
<1>1. /\ cached' = NoList /\ suspect' = Searching /\ UNCHANGED <<plot, requestVars>>
      /\ UNCHANGED <<tag, tagged>> /\ UNCHANGED <<relationVars, threadVars, shelfVars, draft, stickerVars>> /\ UNCHANGED threadDraft
  BY DEF cacheExpires, draftVars
<1>2. Orderly
  BY <1>1 DEF Orderly
<1>3. SearchesHold'
  BY <1>1 DEF SearchesHold, Searching, requestVars
<1>4. ListIsFresh' /\ suspect' \in BOOLEAN
  BY <1>1 DEF ListIsFresh, NoList, Searching
<1>5. TagsKept'
  BY <1>1, <1>3, <1>4 DEF LibraryInvariant, TagsKept, NamesDiffer, TagRows
<1> QED BY <1>1, <1>2, <1>5, PlacedInOrder, ThreadDraftsInOrder, TagStepKeeps DEF LibraryInvariant

-------------------------------------------------------------------------------
(* Drafts *)

(* Min is the least of some natural numbers, and so one of them. *)
LEMMA LeastIsOneOfThem ==
    ASSUME NEW S \in SUBSET Nat, S # {}
    PROVE  Min(S) \in S
<1>1. PICK x \in S : \A y \in S : ~(<<y, x>> \in OpToRel(<, Nat))
  BY NatLessThanWellFounded, WFMin
<1>2. \A y \in S : x <= y
  <2>1. SUFFICES ASSUME NEW y \in S, y < x PROVE FALSE
    OBVIOUS
  <2>2. <<y, x>> \in OpToRel(<, Nat)
    BY <2>1 DEF OpToRel
  <2> QED BY <1>1, <2>2
<1> QED BY <1>2 DEF Min

(* What a list is when something is added to it. *)
Grows(s, e, more) == more = Append(s, e)
Grown(R, s, e, more) ==
    /\ more \in Seq(R) /\ Len(more) = Len(s) + 1 /\ Len(s) \in Nat
    /\ DOMAIN more = DOMAIN s \cup {Len(s) + 1} /\ Len(s) + 1 \notin DOMAIN s
    /\ more[Len(s) + 1] = e /\ \A i \in DOMAIN s : more[i] = s[i]

LEMMA OneMore ==
    ASSUME NEW R, NEW s \in Seq(R), NEW e \in R, NEW more, Grows(s, e, more)
    PROVE  Grown(R, s, e, more)
BY DEF Grows, Grown

(* What a list is when one of its rows is replaced. *)
Replaced(R, s, d, e, other) ==
    /\ other \in Seq(R) /\ Len(other) = Len(s) /\ DOMAIN other = DOMAIN s
    /\ \A i \in DOMAIN s : other[i] = IF i = d THEN e ELSE s[i]

LEMMA OneReplaced ==
    ASSUME NEW R, NEW s \in Seq(R), NEW d, NEW e, d \in DOMAIN s => e \in R,
           NEW other, other = [s EXCEPT ![d] = e]
    PROVE  Replaced(R, s, d, e, other)
<1>1. DOMAIN s = 1..Len(s) /\ Len(s) \in Nat /\ \A i \in DOMAIN s : s[i] \in R
  OBVIOUS
<1>2. DOMAIN other = DOMAIN s /\ \A i \in DOMAIN s : other[i] = IF i = d THEN e ELSE s[i]
  OBVIOUS
<1>3. other = [i \in 1..Len(s) |-> other[i]]
  BY <1>1
<1>4. \A i \in 1..Len(s) : other[i] \in R
  BY <1>1, <1>2
<1>5. other \in [1..Len(s) -> R]
  BY <1>3, <1>4
<1>6. other \in Seq(R)
  BY <1>1, <1>5
<1>7. Len(other) = Len(s)
  BY <1>1, <1>2, <1>6
<1> QED BY <1>2, <1>6, <1>7 DEF Replaced

(* A draft comes into a slot that is free, with a key that is new. *)
LEMMA NewDraftKeeps ==
    ASSUME DraftsKept, NEW row \in DraftRows, draft' = Append(draft, row),
           \A d \in There : draft[d].slot # row.slot /\ (row.key = "" \/ draft[d].key # row.key)
    PROVE  DraftsKept'
<1>1. /\ draft' \in Seq(DraftRows)
      /\ DOMAIN draft' = DOMAIN draft \cup {Len(draft) + 1} /\ Len(draft) + 1 \notin DOMAIN draft
      /\ draft'[Len(draft) + 1] = row /\ \A d \in DOMAIN draft : draft'[d] = draft[d]
  <2>1. Grown(DraftRows, draft, row, draft')
    BY OneMore DEF DraftsKept, Grows
  <2> QED BY <2>1 DEF Grown
<1>2. There' \subseteq There \cup {Len(draft) + 1}
  BY <1>1 DEF There
<1>3. SlotsAreDistinct'
  <2>1. SUFFICES ASSUME NEW d \in There', NEW e \in There', d # e
        PROVE  draft'[d].slot # draft'[e].slot /\ (draft'[d].key = "" \/ draft'[d].key # draft'[e].key)
    BY DEF SlotsAreDistinct
  <2>2. CASE d \in There /\ e \in There
    <3>1. draft[d].slot # draft[e].slot /\ (draft[d].key = "" \/ draft[d].key # draft[e].key)
      BY <2>1, <2>2 DEF DraftsKept, SlotsAreDistinct
    <3>2. draft'[d] = draft[d] /\ draft'[e] = draft[e]
      BY <1>1, <2>2 DEF There
    <3> QED BY <3>1, <3>2
  <2>3. CASE d = Len(draft) + 1 /\ e \in There
    BY <1>1, <2>3 DEF There
  <2>4. CASE d \in There /\ e = Len(draft) + 1
    BY <1>1, <2>4 DEF There
  <2> QED BY <1>2, <2>1, <2>2, <2>3, <2>4
<1> QED BY <1>1, <1>3 DEF DraftsKept, DraftRows

(* A draft is written over, or removed: it stays in its slot. *)
LEMMA OtherDraftKeeps ==
    ASSUME DraftsKept, NEW d, NEW row, draft' = [draft EXCEPT ![d] = row],
           d \in DOMAIN draft => row \in DraftRows /\ row.slot = draft[d].slot /\ row.key = draft[d].key
                                 /\ (row.live => draft[d].live)
    PROVE  DraftsKept'
<1>1. /\ draft' \in Seq(DraftRows) /\ DOMAIN draft' = DOMAIN draft
      /\ \A e \in DOMAIN draft : draft'[e] = IF e = d THEN row ELSE draft[e]
  <2>1. Replaced(DraftRows, draft, d, row, draft')
    BY OneReplaced DEF DraftsKept
  <2> QED BY <2>1 DEF Replaced
<1>2. There' \subseteq There
      /\ \A e \in DOMAIN draft : draft'[e].slot = draft[e].slot /\ draft'[e].key = draft[e].key
  BY <1>1 DEF There
<1>3. SlotsAreDistinct'
  <2>1. SUFFICES ASSUME NEW e \in There', NEW g \in There', e # g
        PROVE  draft'[e].slot # draft'[g].slot /\ (draft'[e].key = "" \/ draft'[e].key # draft'[g].key)
    BY DEF SlotsAreDistinct
  <2>2. draft[e].slot # draft[g].slot /\ (draft[e].key = "" \/ draft[e].key # draft[g].key)
    BY <1>2, <2>1 DEF DraftsKept, SlotsAreDistinct
  <2>3. e \in DOMAIN draft /\ g \in DOMAIN draft
    BY <1>2 DEF There
  <2> QED BY <1>2, <2>2, <2>3
<1> QED BY <1>1, <1>3 DEF DraftsKept, DraftRows

(* Where only drafts change. *)
LEMMA WritingKeeps ==
    ASSUME LibraryInvariant, NEW r \in plot.requests, r.op # "createThread", pc[r] # "invalidate",
           NEW drafts, Writes(r, drafts), DraftsKept'
    PROVE  LibraryInvariant'
<1>1. Done(r) /\ UNCHANGED threadDraft /\ UNCHANGED <<relationVars, threadVars, shelfVars, tagVars, stickerVars>>
  BY DEF Writes
<1>2. Orderly
  BY <1>1, DoneIsOrderly DEF LibraryInvariant
<1>3. ThreadDraftsKept'
  BY <1>1, <1>2, ThreadDraftsInOrder DEF LibraryInvariant
<1> QED BY <1>1, <1>2, <1>3, DraftStepKeeps

LEMMA ReplaysKeep ==
    ASSUME LibraryInvariant, NEW r \in plot.requests, r.op # "createThread", pc[r] # "invalidate", Replays(r)
    PROVE  LibraryInvariant'
BY RefusalsKeep, AnswersKeep DEF Replays

LEMMA ReadSaveKeeps ==
    ASSUME LibraryInvariant, NEW r \in plot.requests, readSave(r)
    PROVE  LibraryInvariant'
<1>1. r.op = "save" /\ pc[r] = "new"
  BY DEF readSave, Arrives
<1>2. Replays(r) \/ Refused(r) \/ Reads(r, "take", NoSight) \/ (r.n # 0 /\ Reads(r, "look", NoSight))
  BY DEF readSave
<1> QED BY <1>1, <1>2, ReplaysKeep, RefusalsKeep, ReadingKeeps

(* A new draft of r in a slot that is free. *)
LEMMA NewRowFits ==
    ASSUME LibraryInvariant, NEW r \in plot.requests, NEW slot \in 1..Slots, slot \notin Used, Keyed(r) = {},
           draft' = Append(draft, NewDraft(r, slot))
    PROVE  DraftsKept'
<1>1. NewDraft(r, slot) \in DraftRows
  BY CommandsAsked DEF LibraryInvariant, Commands, NewDraft, Hash, DraftRows
<1>2. NewDraft(r, slot).slot = slot /\ NewDraft(r, slot).key = r.key
  BY DEF NewDraft
<1>3. \A d \in There : draft[d].slot # slot /\ (r.key = "" \/ draft[d].key # r.key)
  BY DEF Used, Keyed
<1> QED BY <1>1, <1>2, <1>3, NewDraftKeeps DEF LibraryInvariant

LEMMA SaveInFreeSlotKeeps ==
    ASSUME LibraryInvariant, NEW r \in plot.requests, saveInFreeSlot(r)
    PROVE  LibraryInvariant'
<1>1. r.op = "save" /\ pc[r] = "take"
  BY DEF saveInFreeSlot, At, Stands
<1>2. CASE Refused(r)
  BY <1>1, <1>2, RefusalsKeep
<1>3. CASE \E sight : Reads(r, "clash", sight)
  BY <1>1, <1>3, ReadingKeeps
<1>4. CASE Free # {} /\ Keyed(r) = {} /\ Writes(r, Append(draft, NewDraft(r, Min(Free))))
  <2>1. Free \in SUBSET Nat /\ Free \subseteq 1..Slots /\ Free \cap Used = {}
    BY LibraryAssumption DEF Free
  <2>2. Min(Free) \in Free
    BY <1>4, <2>1, LeastIsOneOfThem
  <2>3. draft' = Append(draft, NewDraft(r, Min(Free)))
    BY <1>4 DEF Writes
  <2>4. DraftsKept'
    BY <1>4, <2>1, <2>2, <2>3, NewRowFits
  <2> QED BY <1>1, <1>4, <2>4, WritingKeeps
<1> QED BY <1>2, <1>3, <1>4 DEF saveInFreeSlot

LEMMA SaveClashesKeeps ==
    ASSUME LibraryInvariant, NEW r \in plot.requests, saveClashes(r)
    PROVE  LibraryInvariant'
<1>1. r.op = "save" /\ pc[r] = "clash" /\ (Replays(r) \/ Reads(r, "take", seen[r]) \/ Refused(r))
  BY DEF saveClashes, At, Stands
<1> QED BY <1>1, ReplaysKeep, RefusalsKeep, ReadingKeeps

LEMMA LookSlotKeeps ==
    ASSUME LibraryInvariant, NEW r \in plot.requests, lookSlot(r)
    PROVE  LibraryInvariant'
<1>1. r.op = "save" /\ pc[r] = "look" /\ r.n # 0
  BY DEF lookSlot, At, Stands, LibraryInvariant, Placed, Fits
<1>2. Refused(r) \/ (\E sight : Reads(r, "overwrite", sight)) \/ Reads(r, "fill", seen[r])
  BY DEF lookSlot
<1> QED BY <1>1, <1>2, RefusalsKeep, ReadingKeeps

LEMMA OverwriteKeeps ==
    ASSUME LibraryInvariant, NEW r \in plot.requests, overwrite(r)
    PROVE  LibraryInvariant'
<1>1. r.op \in {"save", "edit"} /\ pc[r] = "overwrite"
  BY DEF overwrite, Stands
<1>2. CASE Refused(r)
  BY <1>1, <1>2, RefusalsKeep
<1>3. CASE ~Refused(r)
  <2> DEFINE d == seen[r].row
             row == [draft[d] EXCEPT !.text = r.what, !.version = @ + 1]
  <2>1. Writes(r, Rewritten(d, r.what))
    BY <1>3 DEF overwrite
  <2>2. draft' = [draft EXCEPT ![d] = row]
    BY <2>1 DEF Writes, Rewritten
  <2>3. r.what \in STRING
    BY CommandsAsked DEF LibraryInvariant, Commands
  <2>4. d \in DOMAIN draft => draft[d] \in DraftRows
    BY DEF LibraryInvariant, DraftsKept
  <2>5. d \in DOMAIN draft => row \in DraftRows /\ row.slot = draft[d].slot /\ row.key = draft[d].key
                              /\ (row.live => draft[d].live)
    <3>1. SUFFICES ASSUME d \in DOMAIN draft, NEW old \in DraftRows, old = draft[d]
          PROVE  LET new == [old EXCEPT !.text = r.what, !.version = @ + 1]
                 IN  new \in DraftRows /\ new.slot = old.slot /\ new.key = old.key /\ (new.live => old.live)
      BY <2>4
    <3>2. old.version + 1 \in Nat \ {0}
      BY DEF DraftRows
    <3> QED BY <2>3, <3>2 DEF DraftRows
  <2> HIDE DEF d, row
  <2>6. DraftsKept'
    BY <2>2, <2>5, OtherDraftKeeps DEF LibraryInvariant
  <2> QED BY <1>1, <2>1, <2>6, WritingKeeps
<1> QED BY <1>2, <1>3

LEMMA FillSlotKeeps ==
    ASSUME LibraryInvariant, NEW r \in plot.requests, fillSlot(r)
    PROVE  LibraryInvariant'
<1>1. r.op = "save" /\ pc[r] = "fill" /\ r.n # 0
  BY DEF fillSlot, At, Stands, LibraryInvariant, Placed, Fits
<1>2. CASE Reads(r, "clash", seen[r])
  BY <1>1, <1>2, ReadingKeeps
<1>3. CASE InSlot(r.n) = {} /\ Keyed(r) = {} /\ Writes(r, Append(draft, NewDraft(r, r.n)))
  <2>1. r.n \notin Used
    BY <1>3 DEF InSlot, Used
  <2>2. draft' = Append(draft, NewDraft(r, r.n))
    BY <1>3 DEF Writes
  <2>3. r.n \in 1..Slots
    <3>1. r.n \in 0..Slots /\ Slots \in Nat
      BY <1>1, CommandsAsked, RequestsAssumption, LibraryAssumption DEF LibraryInvariant
    <3> QED BY <1>1, <3>1
  <2>4. DraftsKept'
    BY <1>3, <2>1, <2>2, <2>3, NewRowFits
  <2> QED BY <1>1, <1>3, <2>4, WritingKeeps
<1> QED BY <1>2, <1>3 DEF fillSlot

LEMMA ReadEditKeeps ==
    ASSUME LibraryInvariant, NEW r \in plot.requests, readEdit(r)
    PROVE  LibraryInvariant'
<1>1. r.op = "edit" /\ pc[r] = "new" /\ (Refused(r) \/ \E sight : Reads(r, "overwrite", sight))
  BY DEF readEdit, Arrives
<1> QED BY <1>1, RefusalsKeep, ReadingKeeps

LEMMA RemoveDraftKeeps ==
    ASSUME LibraryInvariant, NEW r \in plot.requests, removeDraft(r)
    PROVE  LibraryInvariant'
<1>1. r.op = "removeDraft" /\ pc[r] = "new"
  BY DEF removeDraft, Arrives
<1>2. CASE Answered(r) \/ Refused(r)
  BY <1>1, <1>2, RefusalsKeep, AnswersKeep
<1>3. CASE ~(Answered(r) \/ Refused(r))
  <2> DEFINE row == [draft[r.n] EXCEPT !.live = FALSE]
  <2>1. Writes(r, [draft EXCEPT ![r.n].live = FALSE])
    BY <1>3 DEF removeDraft
  <2>2. draft' = [draft EXCEPT ![r.n] = row]
    BY <2>1 DEF Writes
  <2>3. r.n \in DOMAIN draft => draft[r.n] \in DraftRows
    BY DEF LibraryInvariant, DraftsKept
  <2>4. r.n \in DOMAIN draft => row \in DraftRows /\ row.slot = draft[r.n].slot /\ row.key = draft[r.n].key
                                /\ (row.live => draft[r.n].live)
    BY <2>3 DEF DraftRows
  <2> HIDE DEF row
  <2>5. DraftsKept'
    BY <2>2, <2>4, OtherDraftKeeps DEF LibraryInvariant
  <2> QED BY <1>1, <2>1, <2>5, WritingKeeps
<1> QED BY <1>2, <1>3

LEMMA DraftActionsKeep ==
    ASSUME LibraryInvariant, NEW r \in plot.requests, DraftActions(r)
    PROVE  LibraryInvariant'
BY ReadSaveKeeps, SaveInFreeSlotKeeps, SaveClashesKeeps, LookSlotKeeps, OverwriteKeeps, FillSlotKeeps,
   ReadEditKeeps, RemoveDraftKeeps DEF DraftActions

-------------------------------------------------------------------------------
(* Threads that begin as drafts *)

(* Where there is room, each finds a place of its own. *)
LEMMA RoomForAll ==
    ASSUME NEW S, IsFiniteSet(S), NEW T, IsFiniteSet(T), Cardinality(S) <= Cardinality(T)
    PROVE  \E f \in [S -> T] : \A a, b \in S : f[a] = f[b] => a = b
<1>1. Cardinality(S) \in Nat /\ Cardinality(T) \in Nat
      /\ ExistsBijection(1..Cardinality(S), S) /\ ExistsBijection(1..Cardinality(T), T)
  BY FS_CardinalityType
<1>2. PICK g \in Bijection(1..Cardinality(S), S) : TRUE
  BY <1>1 DEF ExistsBijection
<1>3. PICK h \in Bijection(1..Cardinality(T), T) : TRUE
  BY <1>1 DEF ExistsBijection
<1> DEFINE at == [a \in S |-> CHOOSE i \in 1..Cardinality(S) : g[i] = a]
           f == [a \in S |-> h[at[a]]]
<1>4. \A a \in S : at[a] \in 1..Cardinality(S) /\ g[at[a]] = a
  <2>1. \A a \in S : \E i \in 1..Cardinality(S) : g[i] = a
    BY <1>2 DEF Bijection, Surjection
  <2> QED BY <2>1
<1> HIDE DEF at
<1>5. \A a \in S : at[a] \in 1..Cardinality(T)
  BY <1>1, <1>4
<1>6. f \in [S -> T]
  BY <1>3, <1>5 DEF Bijection, Injection, IsInjective
<1>7. \A a, b \in S : f[a] = f[b] => a = b
  BY <1>3, <1>4, <1>5 DEF Bijection, Injection, IsInjective
<1> QED BY <1>6, <1>7

(* Where each finds its counterpart, there are as many. *)
LEMMA AsMany ==
    ASSUME NEW S, NEW T, IsFiniteSet(T), NEW f \in [S -> T], \A a, b \in S : f[a] = f[b] => a = b,
           \A y \in T : \E x \in S : f[x] = y
    PROVE  Cardinality(S) = Cardinality(T)
<1>1. f \in Injection(S, T) /\ f \in Surjection(S, T)
  BY DEF Injection, IsInjective, Surjection
<1> QED BY <1>1, FS_Injection

(* The names that were missing get tags that were not there; the other     *)
(* tags stay, and no two have the same name.                               *)
LEMMA NewTagsAreThere ==
    ASSUME TagsKept, NEW r \in Commands, IsFiniteSet(r.tags), TagsFit(r), tag' = WithTags(r)
    PROVE  /\ tag' \in [Tags -> TagRows] /\ NamesDiffer'
           /\ Cardinality({x \in Tags : tag'[x].state # "none" /\ tag'[x].name \in r.tags}) = Cardinality(r.tags)
           /\ Missing(r) = {} => tag' = tag
<1>1. IsFiniteSet(Missing(r)) /\ IsFiniteSet(Unused) /\ Missing(r) \subseteq r.tags
      /\ Cardinality(Missing(r)) <= Cardinality(Unused)
  <2>1. Missing(r) \in SUBSET r.tags /\ Unused \in SUBSET Tags /\ IsFiniteSet(Tags)
    BY LibraryAssumption DEF Missing, Unused
  <2> QED BY <2>1, FS_Subset DEF TagsFit
<1> DEFINE new == NewTags(r)
<1>2. new \in [Missing(r) -> Unused] /\ \A a, b \in Missing(r) : new[a] = new[b] => a = b
  <2>1. \E f \in [Missing(r) -> Unused] : \A a, b \in Missing(r) : f[a] = f[b] => a = b
    BY <1>1, RoomForAll
  <2> QED BY <2>1 DEF NewTags
<1>3. tag' = [x \in Tags |-> IF \E name \in Missing(r) : new[name] = x
                             THEN [state |-> "active", name |-> CHOOSE name \in Missing(r) : new[name] = x] ELSE tag[x]]
  BY DEF WithTags
<1> HIDE DEF new
<1>4. \A name \in Missing(r) : /\ new[name] \in Tags /\ tag[new[name]].state = "none"
                               /\ tag'[new[name]].state = "active" /\ tag'[new[name]].name = name
                               /\ tag'[new[name]] \in TagRows
  <2>1. SUFFICES ASSUME NEW name \in Missing(r)
        PROVE  /\ new[name] \in Tags /\ tag[new[name]].state = "none"
               /\ tag'[new[name]].state = "active" /\ tag'[new[name]].name = name
               /\ tag'[new[name]] \in TagRows
    OBVIOUS
  <2>2. new[name] \in Tags /\ tag[new[name]].state = "none" /\ name \in STRING
    BY <1>1, <1>2 DEF Unused, Commands
  <2>3. (CHOOSE other \in Missing(r) : new[other] = new[name]) = name
    BY <1>2
  <2>4. tag'[new[name]] = [state |-> "active", name |-> name]
    BY <1>3, <2>2, <2>3
  <2>5. ASSUME NEW row, row = [state |-> "active", name |-> name]
        PROVE  row.state = "active" /\ row.name = name /\ row \in TagRows
    BY <2>2, <2>5 DEF TagRows
  <2> QED BY <2>2, <2>4, <2>5
<1>5. \A x \in Tags : \/ tag'[x] = tag[x]
                      \/ \E name \in Missing(r) : new[name] = x
  BY <1>3
<1>6. \A x \in Tags : tag[x].state # "none" => tag'[x] = tag[x]
  BY <1>4, <1>5
<1>7. tag' \in [Tags -> TagRows]
  <2>1. \A x \in Tags : tag'[x] \in TagRows
    <3>1. SUFFICES ASSUME NEW x \in Tags PROVE tag'[x] \in TagRows
      OBVIOUS
    <3>2. CASE tag'[x] = tag[x]
      BY <3>2 DEF TagsKept
    <3>3. ASSUME NEW name \in Missing(r), new[name] = x PROVE tag'[x] \in TagRows
      <4>1. tag'[new[name]] \in TagRows
        BY <1>4
      <4> QED BY <3>3, <4>1
    <3> QED BY <1>5, <3>2, <3>3
  <2> QED BY <1>3, <2>1
<1>8. \A x, y \in Tags : tag'[x].state # "none" /\ tag'[y].state # "none" /\ tag'[x].name = tag'[y].name => x = y
  <2>1. SUFFICES ASSUME NEW x \in Tags, NEW y \in Tags,
                        tag'[x].state # "none", tag'[y].state # "none", tag'[x].name = tag'[y].name
        PROVE  x = y
    OBVIOUS
  <2>2. CASE tag'[x] = tag[x] /\ tag'[y] = tag[y]
    BY <2>1, <2>2 DEF TagsKept, NamesDiffer
  <2>3. ASSUME NEW a \in Missing(r), NEW z \in Tags, tag'[z] = tag[z], tag'[z].state # "none" PROVE tag'[z].name # a
    BY <2>3 DEF Missing, Named
  <2>4. \A name \in Missing(r) : tag'[new[name]].name = name
    BY <1>4
  <2>5. ASSUME NEW a \in Missing(r), NEW b \in Missing(r), new[a] = x, new[b] = y PROVE x = y
    BY <2>1, <2>4, <2>5
  <2> QED BY <1>5, <2>1, <2>2, <2>3, <2>4, <2>5
<1>9. NamesDiffer'
  BY <1>8 DEF NamesDiffer
<1>10. Cardinality({x \in Tags : tag'[x].state # "none" /\ tag'[x].name \in r.tags}) = Cardinality(r.tags)
  <2> DEFINE Given == {x \in Tags : tag'[x].state # "none" /\ tag'[x].name \in r.tags}
             f == [x \in Given |-> tag'[x].name]
  <2>1. f \in [Given -> r.tags] /\ \A x, y \in Given : f[x] = f[y] => x = y
    BY <1>8
  <2>2. ASSUME NEW name \in r.tags PROVE \E x \in Given : f[x] = name
    <3>1. CASE name \in Missing(r)
      <4>1. new[name] \in Tags /\ tag'[new[name]].state = "active" /\ tag'[new[name]].name = name
        BY <1>4, <3>1
      <4> QED BY <2>2, <4>1
    <3>2. CASE name \notin Missing(r)
      <4>1. PICK x \in Named(name) : TRUE
        BY <2>2, <3>2 DEF Missing
      <4>2. x \in Given /\ tag'[x].name = name
        BY <1>6, <2>2, <4>1 DEF Named
      <4> QED BY <4>2
    <3> QED BY <3>1, <3>2
  <2> HIDE DEF Given, f
  <2>3. Cardinality(Given) = Cardinality(r.tags)
    BY <2>1, <2>2, AsMany
  <2> QED BY <2>3 DEF Given
<1>11. ASSUME Missing(r) = {} PROVE tag' = tag
  <2>1. tag' = [x \in Tags |-> tag[x]]
    BY <1>3, <1>11
  <2> QED BY <2>1 DEF TagsKept
<1> QED BY <1>7, <1>9, <1>10, <1>11

(* A request for a thread that begins none, and is told of one only if it  *)
(* is there.                                                               *)
LEMMA BeginningKeeps ==
    ASSUME LibraryInvariant, NEW r \in plot.requests, r.op = "createThread", pc[r] # "invalidate",
           NEW place \in {"create thread", "thread clash", "done", "refused"}, NEW sight, Place(r, place),
           seen' = seen \/ seen' = [seen EXCEPT ![r] = sight], UNCHANGED tableVars,
           place = "done" => \E i \in Begun(r) : threadDraft[i].asked = Asked(r)
    PROVE  LibraryInvariant'
<1>1. StepOf(r) /\ pc'[r] = place /\ Placed /\ TagsKept /\ ThreadDraftsKept
  BY PlacesAreSteps DEF LibraryInvariant
<1>2. UNCHANGED <<relationVars, threadVars, shelfVars, draft, stickerVars>> /\ UNCHANGED threadDraft
      /\ UNCHANGED <<tag, cached, suspect>> /\ tagged' \subseteq Threads \X Tags
  BY <1>1 DEF tableVars, draftVars, tagVars, TagsKept
<1>3. Placed'
  BY <1>1, PlacedStays DEF Fits, BeginningPlaces
<1>4. TagsKept'
  BY <1>1, <1>2, TagsStay
<1>5. ThreadDraftsKept'
  BY <1>1, <1>2, ThreadDraftsStay
<1> QED BY <1>2, <1>3, <1>4, <1>5, TagStepKeeps

LEMMA ReplaysThreadKeep ==
    ASSUME LibraryInvariant, NEW r \in plot.requests, r.op = "createThread", pc[r] # "invalidate", ReplaysThread(r)
    PROVE  LibraryInvariant'
<1>1. CASE Refused(r)
  <2>1. Place(r, "refused") /\ seen' = seen /\ UNCHANGED tableVars
    BY <1>1 DEF Refused
  <2> QED BY <2>1, BeginningKeeps
<1>2. CASE Answered(r) /\ \E i \in Begun(r) : threadDraft[i].asked = Asked(r)
  <2>1. Place(r, "done") /\ seen' = seen /\ UNCHANGED tableVars
    BY <1>2 DEF Answered, Done
  <2> QED BY <1>2, <2>1, BeginningKeeps
<1> QED BY <1>1, <1>2 DEF ReplaysThread

LEMMA ReadCreateThreadKeeps ==
    ASSUME LibraryInvariant, NEW r \in plot.requests, readCreateThread(r)
    PROVE  LibraryInvariant'
<1>1. r.op = "createThread" /\ pc[r] = "new"
  BY DEF readCreateThread, Arrives
<1>2. CASE Refused(r)
  <2>1. Place(r, "refused") /\ seen' = seen /\ UNCHANGED tableVars
    BY <1>2 DEF Refused
  <2> QED BY <1>1, <2>1, BeginningKeeps
<1>3. CASE ReplaysThread(r)
  BY <1>1, <1>3, ReplaysThreadKeep
<1>4. CASE Reads(r, "create thread", NoSight)
  <2>1. Place(r, "create thread") /\ seen' = [seen EXCEPT ![r] = NoSight] /\ UNCHANGED tableVars
    BY <1>4 DEF Reads
  <2> QED BY <1>1, <2>1, BeginningKeeps
<1> QED BY <1>2, <1>3, <1>4 DEF readCreateThread

(* A member's drafts are among the threads that were begun: finitely many. *)
LEMMA UnpublishedAreFew ==
    ASSUME ThreadDraftsKept, NEW u
    PROVE  IsFiniteSet(Unpublished(u)) /\ Cardinality(Unpublished(u)) \in Nat
<1>1. Len(threadDraft) \in Nat /\ DOMAIN threadDraft = 1..Len(threadDraft)
  BY DEF ThreadDraftsKept
<1>2. IsFiniteSet(DOMAIN threadDraft)
  BY <1>1, FS_Interval
<1>3. Unpublished(u) \in SUBSET DOMAIN threadDraft
  BY DEF Unpublished
<1>4. IsFiniteSet(Unpublished(u))
  BY <1>2, <1>3, FS_Subset
<1> QED BY <1>4, FS_CardinalityType

(* One thread more, of somebody who has few drafts and has not asked before. *)
LEMMA OneThreadMore ==
    ASSUME Placed, ThreadDraftsKept, NEW r \in plot.requests, NEW row \in ThreadDraftRows,
           plot' = plot, \A q \in plot.requests : q # r => pc'[q] = pc[q],
           threadDraft' = Append(threadDraft, row), row.owner = r.user, row.key = r.key, row.asked = Asked(r),
           Cardinality(Unpublished(r.user)) < MaxDrafts, Begun(r) = {},
           Cardinality(row.tags) = Cardinality(r.tags)
    PROVE  ThreadDraftsKept'
<1> DEFINE n == Len(threadDraft) + 1
<1>1. /\ threadDraft' \in Seq(ThreadDraftRows)
      /\ DOMAIN threadDraft' = DOMAIN threadDraft \cup {n} /\ n \notin DOMAIN threadDraft
      /\ threadDraft'[n] = row /\ \A i \in DOMAIN threadDraft : threadDraft'[i] = threadDraft[i]
  <2>1. Grown(ThreadDraftRows, threadDraft, row, threadDraft')
    BY OneMore DEF ThreadDraftsKept, Grows
  <2> QED BY <2>1 DEF Grown
<1> HIDE DEF n
<1>2. \A u \in Users : Cardinality(Unpublished(u)') <= MaxDrafts
  <2>1. SUFFICES ASSUME NEW u \in Users PROVE Cardinality(Unpublished(u)') <= MaxDrafts
    OBVIOUS
  <2>2. IsFiniteSet(Unpublished(u)) /\ Cardinality(Unpublished(u)) \in Nat /\ Cardinality(Unpublished(u)) <= MaxDrafts
    BY UnpublishedAreFew DEF ThreadDraftsKept, ThreadsBeginOnce
  <2>3. Unpublished(u)' = Unpublished(u) \/ (u = r.user /\ Unpublished(u)' = Unpublished(u) \cup {n})
    <3>1. \A i \in DOMAIN threadDraft : i \in Unpublished(u)' <=> i \in Unpublished(u)
      BY <1>1 DEF Unpublished
    <3>2. Unpublished(u)' \subseteq DOMAIN threadDraft' /\ Unpublished(u) \subseteq DOMAIN threadDraft
      BY DEF Unpublished
    <3>3. n \in Unpublished(u)' => u = r.user
      BY <1>1 DEF Unpublished
    <3> QED BY <1>1, <3>1, <3>2, <3>3
  <2>4. CASE Unpublished(u)' = Unpublished(u)
    BY <2>2, <2>4
  <2>5. CASE u = r.user /\ Unpublished(u)' = Unpublished(u) \cup {n}
    <3>1. n \notin Unpublished(u)
      BY <1>1 DEF Unpublished
    <3>2. IsFiniteSet(Unpublished(u) \cup {n}) /\ Cardinality(Unpublished(u) \cup {n}) = Cardinality(Unpublished(u)) + 1
      BY <2>2, <3>1, FS_AddElement
    <3>3. Cardinality(Unpublished(u) \cup {n}) \in Nat /\ MaxDrafts \in Nat
      BY <3>2, FS_CardinalityType, LibraryAssumption
    <3> QED BY <2>2, <2>5, <3>2, <3>3
  <2> QED BY <2>3, <2>4, <2>5
<1>3. \A i, j \in DOMAIN threadDraft' :
        i # j => threadDraft'[i].key = ""
                 \/ <<threadDraft'[i].owner, threadDraft'[i].key>> # <<threadDraft'[j].owner, threadDraft'[j].key>>
  <2>1. SUFFICES ASSUME NEW i \in DOMAIN threadDraft', NEW j \in DOMAIN threadDraft', i # j, threadDraft'[i].key # "",
                        threadDraft'[i].owner = threadDraft'[j].owner, threadDraft'[i].key = threadDraft'[j].key
        PROVE  FALSE
    OBVIOUS
  <2>2. CASE i \in DOMAIN threadDraft /\ j \in DOMAIN threadDraft
    <3>1. threadDraft[i].key # "" /\ threadDraft[i].owner = threadDraft[j].owner /\ threadDraft[i].key = threadDraft[j].key
      BY <1>1, <2>1, <2>2
    <3> QED BY <2>1, <2>2, <3>1 DEF ThreadDraftsKept, ThreadsBeginOnce
  <2>3. ASSUME NEW k \in DOMAIN threadDraft, threadDraft[k].owner = r.user, threadDraft[k].key = r.key, r.key # ""
        PROVE  FALSE
    BY <2>3 DEF Begun
  <2>4. CASE i = n /\ j \in DOMAIN threadDraft
    BY <1>1, <2>1, <2>3, <2>4
  <2>5. CASE j = n /\ i \in DOMAIN threadDraft
    BY <1>1, <2>1, <2>3, <2>5
  <2> QED BY <1>1, <2>1, <2>2, <2>4, <2>5
<1>4. \A i \in DOMAIN threadDraft' : Cardinality(threadDraft'[i].tags) = Cardinality(threadDraft'[i].asked[2])
  <2>1. Asked(r)[2] = r.tags
    BY DEF Asked
  <2>2. \A i \in DOMAIN threadDraft : Cardinality(threadDraft[i].tags) = Cardinality(threadDraft[i].asked[2])
    BY DEF ThreadDraftsKept, ThreadsBeginOnce
  <2>3. Cardinality(threadDraft'[n].tags) = Cardinality(threadDraft'[n].asked[2])
    BY <1>1, <2>1
  <2> QED BY <1>1, <2>2, <2>3
<1>5. \A q \in plot.requests :
         q.op = "createThread" /\ pc'[q] \in {"invalidate", "done"} /\ q.key # "" =>
             \E i \in Begun(q)' : threadDraft'[i].asked = Asked(q)
  <2>1. SUFFICES ASSUME NEW q \in plot.requests, q.op = "createThread", pc'[q] \in {"invalidate", "done"}, q.key # ""
        PROVE  \E i \in Begun(q)' : threadDraft'[i].asked = Asked(q)
    OBVIOUS
  <2>2. CASE q = r
    <3>1. n \in Begun(q)'
      BY <1>1, <2>1, <2>2 DEF Begun
    <3> QED BY <1>1, <2>2, <3>1
  <2>3. CASE q # r
    <3>1. PICK i \in Begun(q) : threadDraft[i].asked = Asked(q)
      BY <2>1, <2>3 DEF ThreadDraftsKept, ThreadsBeginOnce
    <3>2. i \in DOMAIN threadDraft /\ i \in Begun(q)'
      BY <1>1, <3>1 DEF Begun
    <3> QED BY <1>1, <3>1, <3>2
  <2> QED BY <2>2, <2>3
<1> QED BY <1>1, <1>2, <1>3, <1>4, <1>5 DEF ThreadDraftsKept, ThreadsBeginOnce, ThreadDraftRows, Asked

LEMMA CreateThreadKeeps ==
    ASSUME LibraryInvariant, NEW r \in plot.requests, createThread(r)
    PROVE  LibraryInvariant'
<1>1. r.op = "createThread" /\ pc[r] = "create thread"
  BY DEF createThread, At, Stands
<1>2. CASE Refused(r)
  <2>1. Place(r, "refused") /\ seen' = seen /\ UNCHANGED tableVars
    BY <1>2 DEF Refused
  <2> QED BY <1>1, <2>1, BeginningKeeps
<1>3. CASE Reads(r, "thread clash", NoSight)
  <2>1. Place(r, "thread clash") /\ seen' = [seen EXCEPT ![r] = NoSight] /\ UNCHANGED tableVars
    BY <1>3 DEF Reads
  <2> QED BY <1>1, <2>1, BeginningKeeps
<1>4. CASE ~(Refused(r) \/ Reads(r, "thread clash", NoSight))
  <2> DEFINE given == {x \in Tags : tag'[x].state # "none" /\ tag'[x].name \in r.tags}
             row == [owner |-> r.user, live |-> TRUE, published |-> FALSE, key |-> r.key, asked |-> Asked(r), tags |-> given]
             place == IF r.tags = {} THEN "done" ELSE "invalidate"
  <2>1. /\ Cardinality(Unpublished(r.user)) < MaxDrafts /\ TagsFit(r) /\ Begun(r) = {}
        /\ tag' = WithTags(r)
        /\ suspect' = (suspect \/ (Missing(r) # {} /\ Searching))
        /\ threadDraft' = Append(threadDraft, row)
        /\ Place(r, place) /\ seen' = seen
        /\ UNCHANGED <<relationVars, threadVars, shelfVars, draft, stickerVars>> /\ UNCHANGED <<tagged, cached>>
    BY <1>4 DEF createThread
  <2>2. r \in Commands /\ IsFiniteSet(r.tags) /\ Placed /\ TagsKept /\ ThreadDraftsKept
    BY CommandsAsked, RequestsAssumption DEF LibraryInvariant
  <2>3. /\ tag' \in [Tags -> TagRows] /\ NamesDiffer' /\ Cardinality(given) = Cardinality(r.tags)
        /\ Missing(r) = {} => tag' = tag
    BY <2>1, <2>2, NewTagsAreThere
  <2>4. row \in ThreadDraftRows /\ row.owner = r.user /\ row.key = r.key /\ row.asked = Asked(r) /\ row.tags = given
    <3>1. given \in SUBSET Tags
      OBVIOUS
    <3>2. Asked(r) \in STRING \X (SUBSET STRING) \X Seq(STRING) /\ r.user \in Users /\ r.key \in STRING
      BY <2>2 DEF Asked, Commands
    <3> HIDE DEF given
    <3> QED BY <3>1, <3>2 DEF ThreadDraftRows
  <2> HIDE DEF given, row
  <2>5. StepOf(r) /\ pc'[r] = place
    BY <2>1, <2>2, PlacesAreSteps
  <2>6. Placed'
    BY <2>2, <2>5, PlacedStays DEF Fits, BeginningPlaces
  <2>7. \A q \in plot.requests : q # r => pc'[q] = pc[q]
    BY <2>2, <2>5 DEF StepOf, Placed
  <2>8. plot' = plot
    BY <2>5 DEF StepOf
  <2>9. ThreadDraftsKept'
    BY <2>1, <2>2, <2>3, <2>4, <2>7, <2>8, OneThreadMore
  <2>10. suspect \in BOOLEAN /\ tagged' \subseteq Threads \X Tags
    BY <2>1, <2>2 DEF TagsKept
  <2>11. TagsKept'
    <3>1. CASE r.tags = {}
      <4>1. Missing(r) = {}
        BY <3>1 DEF Missing
      <4>2. suspect' = suspect
        BY <2>1, <2>10, <4>1
      <4>3. UNCHANGED <<tag, cached, suspect>> /\ pc'[r] = "done"
        BY <2>1, <2>3, <2>5, <3>1, <4>1, <4>2
      <4> QED BY <1>1, <2>2, <2>5, <2>10, <4>3, TagsStay
    <3>2. CASE r.tags # {}
      <4>1. Place(r, "invalidate") /\ seen' = seen
        BY <2>1, <3>2
      <4>2. CASE Missing(r) = {}
        <5>1. suspect' = suspect /\ tag' = tag
          BY <2>1, <2>3, <2>10, <4>2
        <5> QED BY <2>2, <2>3, <2>10, <4>1, <5>1, RegistryChanges
      <4>3. CASE Missing(r) # {}
        <5>1. suspect' = (suspect \/ Searching)
          BY <2>1, <4>3
        <5> QED BY <2>2, <2>3, <2>10, <4>1, <5>1, RegistryChanges
      <4> QED BY <4>2, <4>3
    <3> QED BY <3>1, <3>2
  <2> QED BY <2>1, <2>6, <2>9, <2>11, TagStepKeeps
<1> QED BY <1>2, <1>3, <1>4

LEMMA ThreadClashesKeeps ==
    ASSUME LibraryInvariant, NEW r \in plot.requests, threadClashes(r)
    PROVE  LibraryInvariant'
<1>1. pc[r] = "thread clash" /\ ReplaysThread(r)
  BY DEF threadClashes, Stands
<1>2. CASE r.op = "createThread"
  BY <1>1, <1>2, ReplaysThreadKeep
<1>3. CASE r.op # "createThread"
  BY <1>1, <1>3, RefusalsKeep, AnswersKeep DEF ReplaysThread
<1> QED BY <1>2, <1>3

(* A thread that is published or removed is no draft any more, and all     *)
(* else about it stays.                                                    *)
LEMMA EndThreadDraftKeeps ==
    ASSUME LibraryInvariant, NEW r \in plot.requests, endThreadDraft(r)
    PROVE  LibraryInvariant'
<1>1. /\ r.op \in {"publishThread", "removeThread"} /\ pc[r] = "new" /\ Done(r) /\ r.n \in Unpublished(r.user)
      /\ UNCHANGED draft /\ UNCHANGED <<relationVars, threadVars, shelfVars, tagVars, stickerVars>>
  BY DEF endThreadDraft, Arrives
<1>2. Orderly /\ Placed /\ ThreadDraftsKept /\ DraftsKept
  BY <1>1, DoneIsOrderly DEF LibraryInvariant
<1>3. PICK row : /\ threadDraft' = [threadDraft EXCEPT ![r.n] = row]
                 /\ row \in ThreadDraftRows /\ row.owner = threadDraft[r.n].owner /\ row.key = threadDraft[r.n].key
                 /\ row.asked = threadDraft[r.n].asked /\ row.tags = threadDraft[r.n].tags
  <2> DEFINE published == [threadDraft[r.n] EXCEPT !.published = TRUE]
             removed == [threadDraft[r.n] EXCEPT !.live = FALSE]
  <2>1. threadDraft[r.n] \in ThreadDraftRows
    BY <1>1, <1>2 DEF Unpublished, ThreadDraftsKept
  <2>2. /\ published \in ThreadDraftRows /\ published.owner = threadDraft[r.n].owner /\ published.key = threadDraft[r.n].key
        /\ published.asked = threadDraft[r.n].asked /\ published.tags = threadDraft[r.n].tags
    BY <2>1 DEF ThreadDraftRows
  <2>3. /\ removed \in ThreadDraftRows /\ removed.owner = threadDraft[r.n].owner /\ removed.key = threadDraft[r.n].key
        /\ removed.asked = threadDraft[r.n].asked /\ removed.tags = threadDraft[r.n].tags
    BY <2>1 DEF ThreadDraftRows
  <2>4. threadDraft' = [threadDraft EXCEPT ![r.n] = published] \/ threadDraft' = [threadDraft EXCEPT ![r.n] = removed]
    BY DEF endThreadDraft
  <2> HIDE DEF published, removed
  <2> QED BY <2>2, <2>3, <2>4
<1>4. /\ threadDraft' \in Seq(ThreadDraftRows) /\ DOMAIN threadDraft' = DOMAIN threadDraft
      /\ \A i \in DOMAIN threadDraft : threadDraft'[i] = IF i = r.n THEN row ELSE threadDraft[i]
  <2>1. Replaced(ThreadDraftRows, threadDraft, r.n, row, threadDraft')
    BY <1>2, <1>3, OneReplaced DEF ThreadDraftsKept
  <2> QED BY <2>1 DEF Replaced
<1>5. \A i \in DOMAIN threadDraft :
         /\ threadDraft'[i].owner = threadDraft[i].owner /\ threadDraft'[i].key = threadDraft[i].key
         /\ threadDraft'[i].asked = threadDraft[i].asked /\ threadDraft'[i].tags = threadDraft[i].tags
  BY <1>3, <1>4
<1>6. ThreadDraftsKept'
  <2>1. \A u \in Users : Cardinality(Unpublished(u)') <= MaxDrafts
    <3>1. SUFFICES ASSUME NEW u \in Users PROVE Cardinality(Unpublished(u)') <= MaxDrafts
      OBVIOUS
    <3>2. Unpublished(u)' \in SUBSET Unpublished(u)
      <4>1. ASSUME NEW i \in Unpublished(u)', i # r.n PROVE i \in Unpublished(u)
        BY <1>4, <4>1 DEF Unpublished
      <4>2. ASSUME r.n \in Unpublished(u)' PROVE r.n \in Unpublished(u)
        BY <1>1, <1>4, <1>5, <4>2 DEF Unpublished
      <4> QED BY <4>1, <4>2
    <3>3. IsFiniteSet(Unpublished(u)) /\ Cardinality(Unpublished(u)) \in Nat /\ Cardinality(Unpublished(u)) <= MaxDrafts
      BY <1>2, UnpublishedAreFew DEF ThreadDraftsKept, ThreadsBeginOnce
    <3>4. IsFiniteSet(Unpublished(u)') /\ Cardinality(Unpublished(u)') <= Cardinality(Unpublished(u))
      BY <3>2, <3>3, FS_Subset
    <3>5. Cardinality(Unpublished(u)') \in Nat /\ MaxDrafts \in Nat
      BY <3>4, FS_CardinalityType, LibraryAssumption
    <3> QED BY <3>3, <3>4, <3>5
  <2>2. \A i, j \in DOMAIN threadDraft' :
          i # j => threadDraft'[i].key = ""
                   \/ <<threadDraft'[i].owner, threadDraft'[i].key>> # <<threadDraft'[j].owner, threadDraft'[j].key>>
    <3>1. SUFFICES ASSUME NEW i \in DOMAIN threadDraft', NEW j \in DOMAIN threadDraft', i # j, threadDraft'[i].key # "",
                          threadDraft'[i].owner = threadDraft'[j].owner, threadDraft'[i].key = threadDraft'[j].key
          PROVE  FALSE
      OBVIOUS
    <3>2. i \in DOMAIN threadDraft /\ j \in DOMAIN threadDraft
      BY <1>4
    <3>3. threadDraft[i].key # "" /\ threadDraft[i].owner = threadDraft[j].owner /\ threadDraft[i].key = threadDraft[j].key
      BY <1>5, <3>1, <3>2
    <3> QED BY <1>2, <3>1, <3>2, <3>3 DEF ThreadDraftsKept, ThreadsBeginOnce
  <2>3. \A i \in DOMAIN threadDraft' : Cardinality(threadDraft'[i].tags) = Cardinality(threadDraft'[i].asked[2])
    BY <1>2, <1>4, <1>5 DEF ThreadDraftsKept, ThreadsBeginOnce
  <2>4. \A q : Begun(q)' = Begun(q)
    <3>1. \A q, i : i \in Begun(q)' <=> i \in Begun(q)
      <4>1. SUFFICES ASSUME NEW q, NEW i \in DOMAIN threadDraft PROVE i \in Begun(q)' <=> i \in Begun(q)
        BY <1>4 DEF Begun
      <4>2. threadDraft'[i].owner = threadDraft[i].owner /\ threadDraft'[i].key = threadDraft[i].key
        BY <1>5
      <4> QED BY <1>4, <4>2 DEF Begun
    <3> QED BY <3>1
  <2>5. plot' = plot /\ \A q \in plot.requests : q # r => pc'[q] = pc[q]
    BY <1>1, <1>2 DEF Done, Place, Placed
  <2>6. \A q \in plot.requests :
           q.op = "createThread" /\ pc'[q] \in {"invalidate", "done"} /\ q.key # "" =>
               \E i \in Begun(q) : threadDraft[i].asked = Asked(q)
    BY <1>1, <1>2, <2>5 DEF ThreadDraftsKept, ThreadsBeginOnce
  <2>7. \A q \in plot.requests :
           q.op = "createThread" /\ pc'[q] \in {"invalidate", "done"} /\ q.key # "" =>
               \E i \in Begun(q)' : threadDraft'[i].asked = Asked(q)
    <3>1. \A q, i : i \in Begun(q) => i \in DOMAIN threadDraft
      BY DEF Begun
    <3> QED BY <1>5, <2>4, <2>6, <3>1
  <2> QED BY <1>4, <2>1, <2>2, <2>3, <2>5, <2>7 DEF ThreadDraftsKept, ThreadsBeginOnce, ThreadDraftRows, Asked
<1>7. DraftsKept'
  BY <1>1, <1>2, DraftsStay
<1> QED BY <1>1, <1>2, <1>6, <1>7, DraftStepKeeps

LEMMA ThreadDraftActionsKeep ==
    ASSUME LibraryInvariant, NEW r \in plot.requests, ThreadDraftActions(r)
    PROVE  LibraryInvariant'
BY ReadCreateThreadKeeps, CreateThreadKeeps, ThreadClashesKeeps, EndThreadDraftKeeps DEF ThreadDraftActions

-------------------------------------------------------------------------------
(* Stickers *)

FavoritesKept ==
    /\ DOMAIN favorite \subseteq Assets /\ IsFiniteSet(DOMAIN favorite)
    /\ {favorite[a] : a \in DOMAIN favorite} = 0..(Cardinality(DOMAIN favorite) - 1)

ImportsKept ==
    /\ import \in Seq(ImportRows) /\ job \in Seq(Jobs) /\ Len(job) = Len(import)
    /\ \A i, j \in Live : import[i].key = import[j].key => i = j

(* The rows that are counted are rows, finitely many. *)
LEMMA CountsAreNumbers ==
    ASSUME StickersKept
    PROVE  /\ FavoritesKept /\ ImportsKept /\ DOMAIN job = DOMAIN import
           /\ Cardinality(DOMAIN favorite) \in Nat
           /\ Processing \subseteq DOMAIN import /\ IsFiniteSet(Processing) /\ Cardinality(Processing) \in Nat
           /\ Limit \in Nat /\ Cardinality(DOMAIN favorite) + Cardinality(Processing) <= Limit
<1>1. FavoritesKept /\ ImportsKept
  BY DEF StickersKept, CollectionHolds, FavoritesKept, ImportsKept
<1>2. /\ DOMAIN import = 1..Len(import) /\ DOMAIN job = 1..Len(job) /\ Len(import) \in Nat /\ Len(job) = Len(import)
  BY DEF StickersKept
<1>3. IsFiniteSet(DOMAIN import)
  BY <1>2, FS_Interval
<1>4. Processing \in SUBSET DOMAIN import
  BY DEF Processing, Live
<1>5. IsFiniteSet(Processing)
  BY <1>3, <1>4, FS_Subset
<1>6. Cardinality(Processing) \in Nat /\ Cardinality(DOMAIN favorite) \in Nat
  BY <1>1, <1>5, FS_CardinalityType DEF FavoritesKept
<1> QED BY <1>1, <1>2, <1>4, <1>5, <1>6, LibraryAssumption DEF StickersKept, CollectionHolds

(* What is left to show of a step of the stickers. *)
LEMMA InStickersKeeps ==
    ASSUME LibraryInvariant, NEW r \in plot.requests, r.op # "createThread", pc[r] # "invalidate",
           InStickers(r), StickersKept'
    PROVE  LibraryInvariant'
<1>1. Done(r) /\ UNCHANGED <<relationVars, threadVars, shelfVars, tagVars, draftVars>>
  BY DEF InStickers
<1> QED BY <1>1, DoneIsOrderly, StickerStepKeeps DEF LibraryInvariant

LEMMA AsideKeeps ==
    ASSUME LibraryInvariant, Aside, StickersKept'
    PROVE  LibraryInvariant'
<1>1. Orderly /\ UNCHANGED <<relationVars, threadVars, shelfVars, tagVars, draftVars>>
  BY DEF Aside, Orderly
<1> QED BY <1>1, StickerStepKeeps

(* Stickers change, and no import. *)
LEMMA FavoritesChange ==
    ASSUME StickersKept, FavoritesKept', UNCHANGED <<import, job, source>>,
           Cardinality(DOMAIN favorite') <= Cardinality(DOMAIN favorite)
    PROVE  StickersKept'
<1>1. /\ Cardinality(DOMAIN favorite) \in Nat /\ Cardinality(Processing) \in Nat /\ Limit \in Nat
      /\ Cardinality(DOMAIN favorite) + Cardinality(Processing) <= Limit /\ ImportsKept
  BY CountsAreNumbers
<1>2. Cardinality(DOMAIN favorite') \in Nat
  BY FS_CardinalityType DEF FavoritesKept
<1>3. Processing' = Processing /\ Live' = Live
  BY DEF Processing, Live
<1>4. Cardinality(DOMAIN favorite') + Cardinality(Processing') <= Limit
  BY <1>1, <1>2, <1>3
<1> QED BY <1>1, <1>3, <1>4 DEF StickersKept, CollectionHolds, FavoritesKept, ImportsKept, ImportRows, Jobs

(* A job changes. *)
LEMMA JobChanges ==
    ASSUME StickersKept, NEW i, NEW row, job' = [job EXCEPT ![i] = row], i \in DOMAIN job => row \in Jobs,
           UNCHANGED <<favorite, import, source>>
    PROVE  StickersKept'
<1>1. job \in Seq(Jobs) /\ Len(job) = Len(import)
  BY DEF StickersKept
<1>2. job' \in Seq(Jobs) /\ Len(job') = Len(job)
  <2>1. Replaced(Jobs, job, i, row, job')
    BY <1>1, OneReplaced
  <2> QED BY <2>1 DEF Replaced
<1> QED BY <1>1, <1>2 DEF StickersKept, CollectionHolds, Processing, Live, Jobs, ImportRows

(* An import goes on: it keeps its key, it does not come back and does not *)
(* start again.                                                            *)
LEMMA ImportsGoOn ==
    ASSUME StickersKept, NEW i, NEW row, import' = [import EXCEPT ![i] = row],
           i \in DOMAIN import => /\ row \in ImportRows /\ row.key = import[i].key
                                  /\ row.live => import[i].live
                                  /\ row.live /\ row.status = "PROCESSING" => import[i].status = "PROCESSING"
    PROVE  /\ import' \in Seq(ImportRows) /\ Len(import') = Len(import)
           /\ \A k, l \in Live' : import'[k].key = import'[l].key => k = l
           /\ Processing' \subseteq Processing
<1>1. /\ import' \in Seq(ImportRows) /\ Len(import') = Len(import) /\ DOMAIN import' = DOMAIN import
      /\ \A k \in DOMAIN import : import'[k] = IF k = i THEN row ELSE import[k]
  <2>1. Replaced(ImportRows, import, i, row, import')
    BY OneReplaced DEF StickersKept
  <2> QED BY <2>1 DEF Replaced
<1>2. \A k \in DOMAIN import : /\ import'[k].key = import[k].key
                               /\ import'[k].live => import[k].live
                               /\ import'[k].live /\ import'[k].status = "PROCESSING" => import[k].status = "PROCESSING"
  BY <1>1
<1>3. Live' \subseteq Live /\ Live \subseteq DOMAIN import
  BY <1>1, <1>2 DEF Live
<1>4. Processing' \subseteq Processing
  BY <1>1, <1>2 DEF Live, Processing
<1>5. \A k, l \in Live' : import'[k].key = import'[l].key => k = l
  BY <1>2, <1>3 DEF StickersKept, CollectionHolds
<1> QED BY <1>1, <1>4, <1>5

LEMMA ImportChanges ==
    ASSUME StickersKept, NEW i, NEW row, import' = [import EXCEPT ![i] = row],
           i \in DOMAIN import => /\ row \in ImportRows /\ row.key = import[i].key
                                  /\ row.live => import[i].live
                                  /\ row.live /\ row.status = "PROCESSING" => import[i].status = "PROCESSING",
           UNCHANGED <<favorite, source>>, job' \in Seq(Jobs), Len(job') = Len(job)
    PROVE  StickersKept'
<1>1. /\ import' \in Seq(ImportRows) /\ Len(import') = Len(import)
      /\ \A k, l \in Live' : import'[k].key = import'[l].key => k = l
      /\ Processing' \in SUBSET Processing
  BY ImportsGoOn
<1>2. /\ IsFiniteSet(Processing) /\ Cardinality(Processing) \in Nat /\ Cardinality(DOMAIN favorite) \in Nat
      /\ Limit \in Nat /\ Cardinality(DOMAIN favorite) + Cardinality(Processing) <= Limit
  BY CountsAreNumbers
<1>3. IsFiniteSet(Processing') /\ Cardinality(Processing') <= Cardinality(Processing)
  BY <1>1, <1>2, FS_Subset
<1>4. Cardinality(Processing') \in Nat
  BY <1>3, FS_CardinalityType
<1>5. Cardinality(DOMAIN favorite) + Cardinality(Processing') <= Limit
  BY <1>2, <1>3, <1>4
<1> QED BY <1>1, <1>5 DEF StickersKept, CollectionHolds, ImportRows, Jobs

(* The positions are 0, 1, 2 ...: as many as there are stickers, so that   *)
(* no two have the same.                                                   *)
LEMMA PositionsDiffer ==
    ASSUME FavoritesKept
    PROVE  \A a, b \in DOMAIN favorite : favorite[a] = favorite[b] => a = b
<1> DEFINE D == DOMAIN favorite
           n == Cardinality(D)
           f == [a \in D |-> favorite[a]]
<1>1. IsFiniteSet(D) /\ n \in Nat /\ {favorite[a] : a \in D} = 0..(n - 1)
  BY FS_CardinalityType DEF FavoritesKept
<1>2. Cardinality(0..(n - 1)) = n
  BY <1>1, FS_Interval
<1>3. f \in Surjection(D, 0..(n - 1))
  BY <1>1 DEF Surjection
<1>4. f \in Injection(D, 0..(n - 1))
  BY <1>1, <1>2, <1>3, FS_SurjSameCardinalityImpliesInj
<1> QED BY <1>4 DEF Injection, IsInjective

(* Saved at the front, where all else makes room; or there already. *)
LEMMA OneFavoriteMore ==
    ASSUME FavoritesKept, NEW a \in Assets, favorite' = WithFavorite(a)
    PROVE  /\ FavoritesKept'
           /\ Cardinality(DOMAIN favorite') = IF a \in DOMAIN favorite THEN Cardinality(DOMAIN favorite)
                                              ELSE Cardinality(DOMAIN favorite) + 1
<1> DEFINE D == DOMAIN favorite
           n == Cardinality(D)
<1>1. IsFiniteSet(D) /\ n \in Nat /\ D \subseteq Assets
  BY FS_CardinalityType DEF FavoritesKept
<1>2. \A v : v \in 0..(n - 1) <=> \E b \in D : favorite[b] = v
  <2>1. {favorite[b] : b \in D} = 0..(n - 1)
    BY DEF FavoritesKept
  <2> QED BY <2>1
<1>3. DOMAIN favorite' = D \cup {a}
      /\ \A b \in D \cup {a} : favorite'[b] = IF b \notin D THEN 0 ELSE IF a \in D THEN favorite[b] ELSE favorite[b] + 1
  BY DEF WithFavorite
<1>4. IsFiniteSet(D \cup {a}) /\ Cardinality(D \cup {a}) = IF a \in D THEN n ELSE n + 1
  BY <1>1, FS_AddElement
<1>5. CASE a \in D
  <2>1. DOMAIN favorite' = D /\ \A b \in D : favorite'[b] = favorite[b]
    BY <1>3, <1>5
  <2>2. {favorite'[b] : b \in DOMAIN favorite'} = 0..(n - 1)
    BY <1>2, <2>1
  <2> QED BY <1>1, <1>5, <2>1, <2>2 DEF FavoritesKept
<1>6. CASE a \notin D
  <2>1. favorite'[a] = 0 /\ \A b \in D : b # a /\ favorite'[b] = favorite[b] + 1
    BY <1>3, <1>6
  <2>2. \A v : v \in 0..n <=> \E b \in D \cup {a} : favorite'[b] = v
    <3>1. ASSUME NEW v \in 0..n PROVE \E b \in D \cup {a} : favorite'[b] = v
      <4>1. CASE v = 0
        BY <2>1, <4>1
      <4>2. CASE v # 0
        <5>1. v - 1 \in 0..(n - 1) /\ v - 1 + 1 = v
          BY <1>1, <4>2
        <5>2. PICK b \in D : favorite[b] = v - 1
          BY <1>2, <5>1
        <5> QED BY <2>1, <5>1, <5>2
      <4> QED BY <4>1, <4>2
    <3>2. ASSUME NEW b \in D \cup {a} PROVE favorite'[b] \in 0..n
      <4>1. CASE b = a
        BY <1>1, <2>1, <4>1
      <4>2. CASE b \in D
        <5>1. favorite[b] \in 0..(n - 1)
          BY <1>2, <4>2
        <5> QED BY <1>1, <2>1, <4>2, <5>1
      <4> QED BY <4>1, <4>2
    <3> QED BY <3>1, <3>2
  <2>3. {favorite'[b] : b \in D \cup {a}} = 0..n
    BY <2>2
  <2>4. n = (n + 1) - 1
    BY <1>1
  <2>5. Cardinality(DOMAIN favorite') = n + 1 /\ IsFiniteSet(DOMAIN favorite') /\ DOMAIN favorite' \subseteq Assets
    BY <1>1, <1>3, <1>4, <1>6
  <2>6. {favorite'[b] : b \in DOMAIN favorite'} = 0..(Cardinality(DOMAIN favorite') - 1)
    BY <1>3, <2>3, <2>4, <2>5
  <2> QED BY <1>6, <2>5, <2>6 DEF FavoritesKept
<1> QED BY <1>5, <1>6

(* The stickers in an order in which each of them comes once. *)
LEMMA ReorderKeeps ==
    ASSUME LibraryInvariant, NEW r \in plot.requests, reorder(r)
    PROVE  LibraryInvariant'
<1>1. r.op = "reorder" /\ pc[r] = "new"
  BY DEF reorder, Arrives
<1>2. CASE Refused(r)
  BY <1>1, <1>2, RefusalsKeep
<1>3. CASE ~Refused(r)
  <2> DEFINE ids == {r.order[k] : k \in DOMAIN r.order}
             at == [a \in ids |-> CHOOSE k \in DOMAIN r.order : r.order[k] = a]
             n == Len(r.order)
  <2>1. /\ Cardinality(ids) = n /\ ids = DOMAIN favorite
        /\ favorite' = [a \in ids |-> (CHOOSE k \in DOMAIN r.order : r.order[k] = a) - 1]
        /\ UNCHANGED <<import, job, source>> /\ InStickers(r)
    BY <1>3 DEF reorder
  <2>2. r.order \in Seq(STRING) /\ n \in Nat /\ DOMAIN r.order = 1..n /\ StickersKept /\ FavoritesKept
    BY CommandsAsked, CountsAreNumbers DEF LibraryInvariant, Commands
  <2>3. \A k, l \in 1..n : r.order[k] = r.order[l] => k = l
    <3> DEFINE f == [k \in 1..n |-> r.order[k]]
    <3>1. f \in Surjection(1..n, ids)
      BY <2>2 DEF Surjection
    <3>2. IsFiniteSet(1..n) /\ Cardinality(1..n) = n
      BY <2>2, FS_Interval
    <3> HIDE DEF ids
    <3>3. f \in Injection(1..n, ids)
      BY <2>1, <3>1, <3>2, FS_SurjSameCardinalityImpliesInj
    <3> QED BY <3>3 DEF Injection, IsInjective
  <2>4. \A a \in ids : at[a] \in 1..n /\ r.order[at[a]] = a
    BY <2>2
  <2>5. \A k \in 1..n : r.order[k] \in ids /\ at[r.order[k]] = k
    BY <2>2, <2>3
  <2>6. favorite' = [a \in ids |-> at[a] - 1]
    BY <2>1
  <2> HIDE DEF ids, at, n
  <2>7. DOMAIN favorite' = ids /\ \A a \in ids : favorite'[a] = at[a] - 1
    BY <2>6
  <2>8. {favorite'[a] : a \in ids} = 0..(n - 1)
    <3>1. ASSUME NEW v \in 0..(n - 1) PROVE \E a \in ids : favorite'[a] = v
      <4>1. v + 1 \in 1..n /\ v + 1 - 1 = v
        BY <2>2
      <4> QED BY <2>5, <2>7, <4>1
    <3>2. ASSUME NEW a \in ids PROVE favorite'[a] \in 0..(n - 1)
      BY <2>2, <2>4, <2>7
    <3> QED BY <3>1, <3>2
  <2>9. FavoritesKept' /\ Cardinality(DOMAIN favorite') = Cardinality(DOMAIN favorite)
    BY <2>1, <2>2, <2>7, <2>8 DEF FavoritesKept
  <2>10. Cardinality(DOMAIN favorite') <= Cardinality(DOMAIN favorite)
    BY <2>2, <2>9, CountsAreNumbers
  <2>11. StickersKept'
    BY <2>1, <2>2, <2>9, <2>10, FavoritesChange
  <2> QED BY <1>1, <2>1, <2>11, InStickersKeeps
<1> QED BY <1>2, <1>3

(* One sticker less: what is behind it moves up. *)
LEMMA RemoveStickerKeeps ==
    ASSUME LibraryInvariant, NEW r \in plot.requests, removeSticker(r)
    PROVE  LibraryInvariant'
<1>1. r.op = "removeSticker" /\ pc[r] = "new"
  BY DEF removeSticker, Arrives
<1>2. CASE Refused(r)
  BY <1>1, <1>2, RefusalsKeep
<1>3. CASE ~Refused(r)
  <2> DEFINE D == DOMAIN favorite
             n == Cardinality(D)
             w == r.what
  <2>1. /\ w \in D
        /\ favorite' = [a \in D \ {w} |-> IF favorite[a] > favorite[w] THEN favorite[a] - 1 ELSE favorite[a]]
        /\ UNCHANGED <<import, job, source>> /\ InStickers(r)
    BY <1>3 DEF removeSticker
  <2>2. StickersKept /\ FavoritesKept /\ IsFiniteSet(D) /\ n \in Nat /\ D \subseteq Assets
    BY CountsAreNumbers DEF LibraryInvariant, FavoritesKept
  <2>3. \A a, b \in D : favorite[a] = favorite[b] => a = b
    BY <2>2, PositionsDiffer
  <2>4. {favorite[b] : b \in D} = 0..(n - 1)
    BY <2>2 DEF FavoritesKept
  <2>5. DOMAIN favorite' = D \ {w}
        /\ \A a \in D \ {w} : favorite'[a] = IF favorite[a] > favorite[w] THEN favorite[a] - 1 ELSE favorite[a]
    BY <2>1
  <2>6. IsFiniteSet(D \ {w}) /\ Cardinality(D \ {w}) = n - 1
    BY <2>1, <2>2, FS_RemoveElement
  <2> HIDE DEF n, w
  <2>7. favorite[w] \in 0..(n - 1) /\ \A a \in D \ {w} : favorite[a] \in 0..(n - 1) /\ favorite[a] # favorite[w]
    BY <2>1, <2>3, <2>4
  <2>8. {favorite'[a] : a \in D \ {w}} = 0..(n - 1 - 1)
    <3>1. ASSUME NEW v \in 0..(n - 1 - 1) PROVE \E a \in D \ {w} : favorite'[a] = v
      <4>1. CASE v < favorite[w]
        <5>1. v \in 0..(n - 1)
          BY <2>2, <2>7, <4>1
        <5>2. PICK a \in D : favorite[a] = v
          BY <2>4, <5>1
        <5>3. a # w /\ ~(favorite[a] > favorite[w])
          BY <2>7, <4>1, <5>2
        <5> QED BY <2>5, <5>2, <5>3
      <4>2. CASE ~(v < favorite[w])
        <5>1. v + 1 \in 0..(n - 1)
          BY <2>2, <2>7, <4>2
        <5>2. PICK a \in D : favorite[a] = v + 1
          BY <2>4, <5>1
        <5>3. a # w /\ favorite[a] > favorite[w] /\ favorite[a] - 1 = v
          BY <2>7, <4>2, <5>2
        <5> QED BY <2>5, <5>3
      <4> QED BY <4>1, <4>2
    <3>2. ASSUME NEW a \in D \ {w} PROVE favorite'[a] \in 0..(n - 1 - 1)
      <4>1. favorite[a] \in 0..(n - 1) /\ favorite[w] \in 0..(n - 1) /\ favorite[a] # favorite[w]
        BY <2>7
      <4>2. favorite'[a] = IF favorite[a] > favorite[w] THEN favorite[a] - 1 ELSE favorite[a]
        BY <2>5
      <4> QED BY <2>2, <4>1, <4>2
    <3> QED BY <3>1, <3>2
  <2>9. FavoritesKept' /\ Cardinality(DOMAIN favorite') = n - 1
    BY <2>2, <2>5, <2>6, <2>8 DEF FavoritesKept
  <2>10. Cardinality(DOMAIN favorite') <= Cardinality(DOMAIN favorite)
    BY <2>2, <2>9 DEF n
  <2>11. StickersKept'
    BY <2>1, <2>2, <2>9, <2>10, FavoritesChange
  <2> QED BY <1>1, <2>1, <2>11, InStickersKeeps
<1> QED BY <1>2, <1>3

LEMMA ReadImportKeeps ==
    ASSUME LibraryInvariant, NEW r \in plot.requests, readImport(r)
    PROVE  LibraryInvariant'
<1>1. r.op # "createThread" /\ pc[r] = "new" /\ (Refused(r) \/ Answered(r) \/ Reads(r, "start", NoSight))
  BY DEF readImport, Arrives, Imports
<1> QED BY <1>1, RefusalsKeep, AnswersKeep, ReadingKeeps

(* One import more, for a request that has none. *)
LEMMA OneImportMore ==
    ASSUME StickersKept, NEW r, NEW row \in ImportRows, row.live, row.key = r.key, KeyOf(r) = {},
           import' = Append(import, row), job' = Append(job, NoJob)
    PROVE  /\ import' \in Seq(ImportRows) /\ job' \in Seq(Jobs) /\ Len(job') = Len(import')
           /\ \A k, l \in Live' : import'[k].key = import'[l].key => k = l
           /\ Processing' \subseteq Processing \cup {Len(import) + 1}
           /\ row.status # "PROCESSING" => Processing' \subseteq Processing
<1> DEFINE n == Len(import) + 1
<1>1. /\ import' \in Seq(ImportRows) /\ Len(import') = Len(import) + 1
      /\ DOMAIN import' = DOMAIN import \cup {n} /\ n \notin DOMAIN import
      /\ import'[n] = row /\ \A i \in DOMAIN import : import'[i] = import[i]
  <2>1. Grown(ImportRows, import, row, import')
    BY OneMore DEF StickersKept, Grows
  <2> QED BY <2>1 DEF Grown
<1>2. job' \in Seq(Jobs) /\ Len(job') = Len(job) + 1
  <2>1. NoJob \in Jobs
    BY DEF NoJob, Jobs, JobStates
  <2>2. Grown(Jobs, job, NoJob, job')
    BY <2>1, OneMore DEF StickersKept, Grows
  <2> QED BY <2>2 DEF Grown
<1> HIDE DEF n
<1>3. Live' = Live \cup {n} /\ Live \subseteq DOMAIN import
  BY <1>1 DEF Live
<1>4. \A k \in Live : import[k].key # row.key
  BY DEF KeyOf
<1>5. \A k, l \in Live' : import'[k].key = import'[l].key => k = l
  <2>1. SUFFICES ASSUME NEW k \in Live', NEW l \in Live', import'[k].key = import'[l].key PROVE k = l
    OBVIOUS
  <2>2. CASE k \in Live /\ l \in Live
    BY <1>1, <1>3, <2>1, <2>2 DEF StickersKept, CollectionHolds
  <2>3. CASE k = n /\ l \in Live
    BY <1>1, <1>3, <1>4, <2>1, <2>3
  <2>4. CASE l = n /\ k \in Live
    BY <1>1, <1>3, <1>4, <2>1, <2>4
  <2> QED BY <1>3, <2>1, <2>2, <2>3, <2>4
<1>6. \A k \in Processing' : k \in Processing \/ (k = n /\ row.status = "PROCESSING")
  BY <1>1, <1>3 DEF Processing
<1> QED BY <1>1, <1>2, <1>5, <1>6 DEF StickersKept, n

(* An import is started while there is room for what it may bring. *)
LEMMA StartMediaImportKeeps ==
    ASSUME LibraryInvariant, NEW r \in plot.requests, startMediaImport(r)
    PROVE  LibraryInvariant'
<1>1. pc[r] = "start" /\ r.op # "createThread"
  BY DEF startMediaImport, Stands, LibraryInvariant, Placed, Fits, BeginningPlaces
<1>2. CASE Refused(r) \/ Answered(r) \/ \E sight : Reads(r, "enqueue", sight)
  BY <1>1, <1>2, RefusalsKeep, AnswersKeep, ReadingKeeps
<1>3. CASE ~(Refused(r) \/ Answered(r) \/ \E sight : Reads(r, "enqueue", sight))
  <2> DEFINE sight == [NoSight EXCEPT !.row = Len(import) + 1]
             row == NewImport(r)
  <2>1. /\ ~Full /\ KeyOf(r) = {} /\ r.what \in source
        /\ import' = Append(import, row) /\ job' = Append(job, NoJob)
        /\ seen' = [seen EXCEPT ![r] = sight] /\ Place(r, "enqueue")
        /\ UNCHANGED <<relationVars, threadVars, shelfVars, tagVars, draftVars>> /\ UNCHANGED <<favorite, source>>
    BY <1>3 DEF startMediaImport
  <2>2. StickersKept /\ Placed /\ r.key \in STRING /\ source \subseteq Media
    BY CommandsAsked DEF LibraryInvariant, Commands, StickersKept
  <2>3. row \in ImportRows /\ row.live /\ row.key = r.key
    BY <2>1, <2>2 DEF NewImport, ImportRows, ImportStates
  <2> HIDE DEF sight, row
  <2>4. Orderly
    BY <1>1, <2>1, <2>2, PlacesAreOrderly
  <2>5. /\ import' \in Seq(ImportRows) /\ job' \in Seq(Jobs) /\ Len(job') = Len(import')
        /\ \A k, l \in Live' : import'[k].key = import'[l].key => k = l
        /\ Processing' \in SUBSET (Processing \cup {Len(import) + 1})
    BY <2>1, <2>2, <2>3, OneImportMore
  <2>6. /\ IsFiniteSet(Processing) /\ Cardinality(Processing) \in Nat /\ Cardinality(DOMAIN favorite) \in Nat /\ Limit \in Nat
    BY <2>2, CountsAreNumbers
  <2>7. /\ IsFiniteSet(Processing \cup {Len(import) + 1})
        /\ Cardinality(Processing \cup {Len(import) + 1}) <= Cardinality(Processing) + 1
    <3> DEFINE n == Len(import) + 1
    <3> HIDE DEF n
    <3>1. /\ IsFiniteSet(Processing \cup {n})
          /\ Cardinality(Processing \cup {n}) = IF n \in Processing THEN Cardinality(Processing) ELSE Cardinality(Processing) + 1
      BY <2>6, FS_AddElement
    <3>2. Cardinality(Processing \cup {n}) <= Cardinality(Processing) + 1
      BY <2>6, <3>1
    <3> QED BY <3>1, <3>2 DEF n
  <2>8. IsFiniteSet(Processing') /\ Cardinality(Processing') <= Cardinality(Processing \cup {Len(import) + 1})
    BY <2>5, <2>7, FS_Subset
  <2>9. Cardinality(Processing') \in Nat /\ Cardinality(Processing \cup {Len(import) + 1}) \in Nat
    BY <2>7, <2>8, FS_CardinalityType
  <2>10. Cardinality(DOMAIN favorite) + Cardinality(Processing') <= Limit
    BY <2>1, <2>6, <2>7, <2>8, <2>9 DEF Full
  <2>11. StickersKept'
    <3>1. favorite' = favorite /\ source' = source
      BY <2>1
    <3>2. CollectionHolds'
      BY <2>2, <2>5, <2>10, <3>1 DEF StickersKept, CollectionHolds
    <3> QED BY <2>2, <2>5, <3>1, <3>2 DEF StickersKept, ImportRows, Jobs
  <2> QED BY <2>1, <2>4, <2>11, StickerStepKeeps
<1> QED BY <1>2, <1>3

LEMMA EnqueueImportKeeps ==
    ASSUME LibraryInvariant, NEW r \in plot.requests, enqueueImport(r)
    PROVE  LibraryInvariant'
<1>1. pc[r] = "enqueue" /\ r.op # "createThread" /\ StickersKept
  BY DEF enqueueImport, Stands, LibraryInvariant, Placed, Fits, BeginningPlaces
<1>2. job' = Enqueued(seen[r].row) /\ UNCHANGED <<favorite, import, source>> /\ InStickers(r)
  BY DEF enqueueImport
<1>3. StickersKept'
  <2> DEFINE row == [NoJob EXCEPT !.state = "waiting"]
  <2>1. job' = job \/ job' = [job EXCEPT ![seen[r].row] = row]
    BY <1>2 DEF Enqueued
  <2>2. row \in Jobs
    BY DEF NoJob, Jobs, JobStates
  <2> HIDE DEF row
  <2>3. CASE job' = job
    BY <1>1, <1>2, <2>3, StickersStay
  <2>4. CASE job' = [job EXCEPT ![seen[r].row] = row]
    BY <1>1, <1>2, <2>2, <2>4, JobChanges
  <2> QED BY <2>1, <2>3, <2>4
<1> QED BY <1>1, <1>2, <1>3, InStickersKeeps

LEMMA EnqueueFailsKeeps ==
    ASSUME LibraryInvariant, NEW r \in plot.requests, enqueueFails(r)
    PROVE  LibraryInvariant'
<1>1. pc[r] = "enqueue" /\ r.op # "createThread" /\ StickersKept /\ Placed
  BY DEF enqueueFails, Stands, LibraryInvariant, Placed, Fits, BeginningPlaces
<1>2. /\ seen' = seen /\ (Place(r, "mark failed") \/ Place(r, "refused"))
      /\ UNCHANGED <<relationVars, threadVars, shelfVars, tagVars, draftVars>> /\ UNCHANGED <<favorite, import, job, source>>
  BY DEF enqueueFails
<1>3. Orderly
  BY <1>1, <1>2, PlacesAreOrderly
<1>4. StickersKept'
  BY <1>1, <1>2, StickersStay
<1> QED BY <1>2, <1>3, <1>4, StickerStepKeeps

(* An import that ends keeps its row. *)
LEMMA EndedRows ==
    ASSUME StickersKept, NEW i, NEW status \in ImportStates \ {"PROCESSING"}, import' = EndedAs(i, status)
    PROVE  \/ import' = import
           \/ \E row : /\ import' = [import EXCEPT ![i] = row]
                       /\ i \in DOMAIN import => /\ row \in ImportRows /\ row.key = import[i].key
                                                 /\ row.live => import[i].live
                                                 /\ row.status # "PROCESSING"
<1> DEFINE row == [import[i] EXCEPT !.status = status]
<1>1. import' = import \/ import' = [import EXCEPT ![i] = row]
  BY DEF EndedAs
<1>2. ASSUME i \in DOMAIN import
      PROVE  row \in ImportRows /\ row.key = import[i].key /\ (row.live => import[i].live) /\ row.status # "PROCESSING"
  <2>1. import[i] \in ImportRows
    BY <1>2 DEF StickersKept
  <2> QED BY <2>1 DEF ImportRows
<1> HIDE DEF row
<1> QED BY <1>1, <1>2

LEMMA ImportEnds ==
    ASSUME StickersKept, NEW i, NEW status \in ImportStates \ {"PROCESSING"},
           import' = EndedAs(i, status), UNCHANGED <<favorite, job, source>>
    PROVE  StickersKept'
<1>1. CASE import' = import
  BY <1>1, StickersStay
<1>2. CASE import' # import
  <2>1. PICK row : /\ import' = [import EXCEPT ![i] = row]
                   /\ i \in DOMAIN import => /\ row \in ImportRows /\ row.key = import[i].key
                                             /\ row.live => import[i].live
                                             /\ row.status # "PROCESSING"
    BY <1>2, EndedRows
  <2>2. job' \in Seq(Jobs) /\ Len(job') = Len(job)
    BY DEF StickersKept, Jobs
  <2> QED BY <2>1, <2>2, ImportChanges
<1> QED BY <1>1, <1>2

LEMMA MarkStartFailedKeeps ==
    ASSUME LibraryInvariant, NEW r \in plot.requests, markStartFailed(r)
    PROVE  LibraryInvariant'
<1>1. pc[r] = "mark failed" /\ r.op # "createThread" /\ StickersKept
  BY DEF markStartFailed, Stands, LibraryInvariant, Placed, Fits, BeginningPlaces
<1>2. import' = EndedAs(seen[r].row, "FAILED") /\ UNCHANGED <<favorite, job, source>> /\ InStickers(r)
  BY DEF markStartFailed
<1>3. "FAILED" \in ImportStates \ {"PROCESSING"}
  BY DEF ImportStates
<1>4. StickersKept'
  BY <1>1, <1>2, <1>3, ImportEnds
<1> QED BY <1>1, <1>2, <1>4, InStickersKeeps

LEMMA ReadAdoptKeeps ==
    ASSUME LibraryInvariant, NEW r \in plot.requests, readAdopt(r)
    PROVE  LibraryInvariant'
<1>1. r.op = "adopt" /\ pc[r] = "new" /\ (Answered(r) \/ Reads(r, "adopt", NoSight))
  BY DEF readAdopt, Arrives
<1> QED BY <1>1, AnswersKeep, ReadingKeeps

(* A sticker that is there already is saved while there is room. *)
LEMMA AddExistingAssetKeeps ==
    ASSUME LibraryInvariant, NEW r \in plot.requests, addExistingAsset(r)
    PROVE  LibraryInvariant'
<1>1. r.op = "adopt" /\ pc[r] = "adopt"
  BY DEF addExistingAsset, At, Stands
<1>2. CASE Refused(r) \/ Answered(r)
  BY <1>1, <1>2, RefusalsKeep, AnswersKeep
<1>3. CASE ~(Refused(r) \/ Answered(r))
  <2>1. /\ r.what \in DOMAIN favorite \/ ~Full
        /\ KeyOf(r) = {} /\ favorite' = WithFavorite(r.what) /\ job' = Append(job, NoJob)
        /\ UNCHANGED source /\ InStickers(r)
        /\ \E m \in Media : /\ AssetOf(m) = r.what
                            /\ import' = Append(import, [NewImport(r) EXCEPT !.status = "COMPLETED", !.media = m])
    BY <1>3 DEF addExistingAsset, Saves
  <2>2. PICK m \in Media : /\ AssetOf(m) = r.what
                           /\ import' = Append(import, [NewImport(r) EXCEPT !.status = "COMPLETED", !.media = m])
    BY <2>1
  <2> DEFINE row == [NewImport(r) EXCEPT !.status = "COMPLETED", !.media = m]
  <2>3. StickersKept /\ r.key \in STRING /\ r.what \in Assets
    BY CommandsAsked, <2>2, LibraryAssumption DEF LibraryInvariant, Commands
  <2>4. row \in ImportRows /\ row.live /\ row.key = r.key /\ row.status # "PROCESSING"
    BY <2>3 DEF NewImport, ImportRows, ImportStates
  <2>5. import' = Append(import, row)
    BY <2>2
  <2> HIDE DEF row
  <2>6. /\ import' \in Seq(ImportRows) /\ job' \in Seq(Jobs) /\ Len(job') = Len(import')
        /\ \A k, l \in Live' : import'[k].key = import'[l].key => k = l
        /\ Processing' \in SUBSET Processing
    BY <2>1, <2>3, <2>4, <2>5, OneImportMore
  <2>7. /\ FavoritesKept /\ IsFiniteSet(Processing) /\ Cardinality(Processing) \in Nat /\ Cardinality(DOMAIN favorite) \in Nat
        /\ Limit \in Nat /\ Cardinality(DOMAIN favorite) + Cardinality(Processing) <= Limit
    BY <2>3, CountsAreNumbers
  <2>8. /\ FavoritesKept'
        /\ Cardinality(DOMAIN favorite') = IF r.what \in DOMAIN favorite THEN Cardinality(DOMAIN favorite)
                                           ELSE Cardinality(DOMAIN favorite) + 1
    BY <2>1, <2>3, <2>7, OneFavoriteMore
  <2>9. IsFiniteSet(Processing') /\ Cardinality(Processing') <= Cardinality(Processing)
    BY <2>6, <2>7, FS_Subset
  <2>10. Cardinality(Processing') \in Nat
    BY <2>9, FS_CardinalityType
  <2>11. Cardinality(DOMAIN favorite') + Cardinality(Processing') <= Limit
    BY <2>1, <2>7, <2>8, <2>9, <2>10 DEF Full
  <2>12. StickersKept'
    BY <2>1, <2>3, <2>6, <2>8, <2>11 DEF StickersKept, CollectionHolds, FavoritesKept, ImportRows, Jobs
  <2> QED BY <1>1, <2>1, <2>12, InStickersKeeps
<1> QED BY <1>2, <1>3

LEMMA StickerRequestsKeep ==
    ASSUME LibraryInvariant, NEW r \in plot.requests, StickerRequests(r)
    PROVE  LibraryInvariant'
BY ReorderKeeps, RemoveStickerKeeps, ReadImportKeeps, StartMediaImportKeeps, EnqueueImportKeeps,
   EnqueueFailsKeeps, MarkStartFailedKeeps, ReadAdoptKeeps, AddExistingAssetKeeps DEF StickerRequests

-------------------------------------------------------------------------------
(* The worker, the recovery and the clean-up *)

LEMMA TakeJobKeeps ==
    ASSUME LibraryInvariant, NEW w \in Workers, takeJob(w)
    PROVE  LibraryInvariant'
<1>1. PICK i \in DOMAIN job : job' = [job EXCEPT ![i].state = "active", ![i].owner = w]
  BY DEF takeJob
<1> DEFINE row == [job[i] EXCEPT !.state = "active", !.owner = w]
<1>2. StickersKept /\ job[i] \in Jobs /\ Aside /\ UNCHANGED <<favorite, import, source>>
  BY DEF takeJob, LibraryInvariant, StickersKept
<1>3. job' = [job EXCEPT ![i] = row]
  BY <1>1
<1>4. row \in Jobs
  BY <1>2 DEF Jobs, JobStates
<1> HIDE DEF row
<1>5. StickersKept'
  BY <1>2, <1>3, <1>4, JobChanges
<1> QED BY <1>2, <1>5, AsideKeeps

(* What a job becomes is a job. *)
LEMMA JobsStayJobs ==
    ASSUME NEW old \in Jobs, NEW state \in JobStates
    PROVE  /\ [old EXCEPT !.state = state, !.made = @ + 1, !.owner = Nobody] \in Jobs
           /\ [old EXCEPT !.state = state, !.stalls = @ + 1, !.owner = Nobody] \in Jobs
<1>1. old.made + 1 \in Nat /\ old.stalls + 1 \in Nat
  BY DEF Jobs
<1> QED BY <1>1 DEF Jobs

LEMMA EndJobKeeps ==
    ASSUME LibraryInvariant, NEW w \in Workers, endJob(w)
    PROVE  LibraryInvariant'
<1> DEFINE i == worker[w].row
           ended == IF worker[w].at = "success" THEN "completed"
                    ELSE IF job[i].made + 1 >= 2 THEN "failed" ELSE "waiting"
           row == [job[i] EXCEPT !.state = ended, !.made = @ + 1, !.owner = Nobody]
<1>1. StickersKept /\ Aside /\ UNCHANGED <<favorite, import, source>>
  BY DEF endJob, LibraryInvariant
<1>2. job' = job \/ job' = [job EXCEPT ![i].state = ended, ![i].made = @ + 1, ![i].owner = Nobody]
  BY DEF endJob
<1>3. ended \in JobStates
  BY DEF JobStates
<1> HIDE DEF i, ended
<1>4. CASE job' = job
  BY <1>1, <1>4, StickersStay, AsideKeeps
<1>5. CASE job' = [job EXCEPT ![i].state = ended, ![i].made = @ + 1, ![i].owner = Nobody]
  <2>1. job' = [job EXCEPT ![i] = row]
    BY <1>5
  <2>2. i \in DOMAIN job => row \in Jobs
    <3>1. SUFFICES ASSUME i \in DOMAIN job PROVE row \in Jobs
      OBVIOUS
    <3>2. job[i] \in Jobs
      BY <1>1, <3>1 DEF StickersKept
    <3> QED BY <1>3, <3>2, JobsStayJobs
  <2> HIDE DEF row
  <2>3. StickersKept'
    BY <1>1, <2>1, <2>2, JobChanges
  <2> QED BY <1>1, <2>3, AsideKeeps
<1> QED BY <1>2, <1>4, <1>5

LEMMA StallKeeps ==
    ASSUME LibraryInvariant, NEW i, stall(i)
    PROVE  LibraryInvariant'
<1> DEFINE lost == IF job[i].stalls = 0 THEN "waiting" ELSE "failed"
           row == [job[i] EXCEPT !.state = lost, !.stalls = @ + 1, !.owner = Nobody]
<1>1. StickersKept /\ Aside /\ UNCHANGED <<favorite, import, source>>
  BY DEF stall, LibraryInvariant
<1>2. job' = [job EXCEPT ![i].state = lost, ![i].stalls = @ + 1, ![i].owner = Nobody]
  BY DEF stall
<1>3. lost \in JobStates
  BY DEF JobStates
<1> HIDE DEF lost
<1>4. job' = [job EXCEPT ![i] = row]
  BY <1>2
<1>5. i \in DOMAIN job => row \in Jobs
  <2>1. SUFFICES ASSUME i \in DOMAIN job PROVE row \in Jobs
    OBVIOUS
  <2>2. job[i] \in Jobs
    BY <1>1, <2>1 DEF StickersKept
  <2> QED BY <1>3, <2>2, JobsStayJobs
<1> HIDE DEF row
<1>6. StickersKept'
  BY <1>1, <1>4, <1>5, JobChanges
<1> QED BY <1>1, <1>6, AsideKeeps

LEMMA ForgetJobKeeps ==
    ASSUME LibraryInvariant, NEW i, forgetJob(i)
    PROVE  LibraryInvariant'
<1>1. StickersKept /\ Aside /\ UNCHANGED <<favorite, import, source>> /\ job' = [job EXCEPT ![i] = NoJob]
  BY DEF forgetJob, LibraryInvariant
<1>2. NoJob \in Jobs
  BY DEF NoJob, Jobs, JobStates
<1>3. StickersKept'
  BY <1>1, <1>2, JobChanges
<1> QED BY <1>1, <1>3, AsideKeeps

(* The job of a worker: nothing that is kept changes before it is done. *)
LEMMA WorkKeeps ==
    ASSUME LibraryInvariant, NEW w \in Workers, processImport(w) \/ crash(w)
    PROVE  LibraryInvariant'
<1>1. StickersKept /\ Aside /\ UNCHANGED <<favorite, import, job, source>>
  BY DEF processImport, crash, LibraryInvariant
<1> QED BY <1>1, StickersStay, AsideKeeps

(* An import that brings its sticker gives back the room it was counted for. *)
LEMMA CompleteImportKeeps ==
    ASSUME LibraryInvariant, NEW w \in Workers, completeImport(w)
    PROVE  LibraryInvariant'
<1> DEFINE i == worker[w].row
           a == AssetOf(import[i].media)
           row == [import[i] EXCEPT !.status = "COMPLETED"]
<1>1. StickersKept /\ Aside /\ UNCHANGED <<job, source>>
  BY DEF completeImport, LibraryInvariant
<1>2. CASE i \notin Processing
  <2>1. UNCHANGED <<favorite, import, job, source>>
    BY <1>2 DEF completeImport
  <2> QED BY <1>1, <2>1, StickersStay, AsideKeeps
<1>3. CASE i \in Processing
  <2>1. i \in DOMAIN import /\ import[i] \in ImportRows /\ import[i].status = "PROCESSING"
    BY <1>1, <1>3 DEF Processing, Live, StickersKept
  <2>2. import' = EndedAs(i, "COMPLETED") /\ favorite' = WithFavorite(a)
    BY <1>3 DEF completeImport, Saves
  <2>3. import' = [import EXCEPT ![i] = row]
    BY <2>1, <2>2 DEF EndedAs
  <2>4. a \in Assets /\ row \in ImportRows /\ row.key = import[i].key /\ row.live = import[i].live
        /\ row.status = "COMPLETED"
    BY <2>1, LibraryAssumption DEF ImportRows, ImportStates
  <2> HIDE DEF i, a, row
  <2>5. /\ import' \in Seq(ImportRows) /\ Len(import') = Len(import)
        /\ \A k, l \in Live' : import'[k].key = import'[l].key => k = l
        /\ Processing' \subseteq Processing
    BY <1>1, <2>3, <2>4, ImportsGoOn
  <2>6. Processing' \in SUBSET (Processing \ {i})
    <3>1. import'[i] = row
      BY <2>1, <2>3
    <3>2. i \notin Processing'
      BY <2>4, <3>1 DEF Processing
    <3> QED BY <2>5, <3>2
  <2>7. /\ FavoritesKept /\ IsFiniteSet(Processing) /\ Cardinality(Processing) \in Nat /\ Cardinality(DOMAIN favorite) \in Nat
        /\ Limit \in Nat /\ Cardinality(DOMAIN favorite) + Cardinality(Processing) <= Limit
    BY <1>1, CountsAreNumbers
  <2>8. IsFiniteSet(Processing \ {i}) /\ Cardinality(Processing \ {i}) = Cardinality(Processing) - 1
    BY <1>3, <2>7, FS_RemoveElement
  <2>9. IsFiniteSet(Processing') /\ Cardinality(Processing') <= Cardinality(Processing \ {i})
    BY <2>6, <2>8, FS_Subset
  <2>10. Cardinality(Processing') \in Nat
    BY <2>9, FS_CardinalityType
  <2>11. /\ FavoritesKept'
         /\ Cardinality(DOMAIN favorite') = IF a \in DOMAIN favorite THEN Cardinality(DOMAIN favorite)
                                            ELSE Cardinality(DOMAIN favorite) + 1
    BY <2>2, <2>4, <2>7, OneFavoriteMore
  <2>12. Cardinality(DOMAIN favorite') + Cardinality(Processing') <= Limit
    BY <2>7, <2>8, <2>9, <2>10, <2>11
  <2>13. CollectionHolds'
    BY <2>5, <2>11, <2>12 DEF CollectionHolds, FavoritesKept
  <2>14. StickersKept'
    BY <1>1, <2>5, <2>11, <2>13 DEF StickersKept, FavoritesKept, ImportRows, Jobs
  <2> QED BY <1>1, <2>14, AsideKeeps
<1> QED BY <1>2, <1>3

LEMMA FailImportKeeps ==
    ASSUME LibraryInvariant, NEW w \in Workers, failImport(w)
    PROVE  LibraryInvariant'
<1>1. StickersKept /\ Aside /\ UNCHANGED <<favorite, job, source>>
      /\ (import' = import \/ import' = EndedAs(worker[w].row, "FAILED"))
  BY DEF failImport, LibraryInvariant
<1>2. "FAILED" \in ImportStates \ {"PROCESSING"}
  BY DEF ImportStates
<1>3. CASE import' = import
  BY <1>1, <1>3, StickersStay, AsideKeeps
<1>4. CASE import' = EndedAs(worker[w].row, "FAILED")
  <2>1. StickersKept'
    BY <1>1, <1>2, <1>4, ImportEnds
  <2> QED BY <1>1, <2>1, AsideKeeps
<1> QED BY <1>1, <1>3, <1>4

LEMMA AgeKeeps ==
    ASSUME LibraryInvariant, NEW i, age(i) \/ cleanupImport(i)
    PROVE  LibraryInvariant'
<1>1. StickersKept /\ Aside /\ UNCHANGED <<favorite, source>> /\ job' \in Seq(Jobs) /\ Len(job') = Len(job)
      /\ i \in Live
  BY DEF age, cleanupImport, LibraryInvariant, StickersKept, Processing, Jobs
<1>2. i \in DOMAIN import /\ import[i] \in ImportRows
  BY <1>1 DEF Live, StickersKept
<1> DEFINE older == [import[i] EXCEPT !.recent = FALSE]
           removed == [import[i] EXCEPT !.live = FALSE]
<1>3. import' = [import EXCEPT ![i] = older] \/ import' = [import EXCEPT ![i] = removed]
  BY DEF age, cleanupImport
<1>4. older \in ImportRows /\ older.key = import[i].key /\ older.live = import[i].live /\ older.status = import[i].status
  BY <1>2 DEF ImportRows
<1>5. removed \in ImportRows /\ removed.key = import[i].key /\ ~removed.live
  BY <1>2 DEF ImportRows
<1> HIDE DEF older, removed
<1>6. CASE import' = [import EXCEPT ![i] = older]
  <2>1. StickersKept'
    BY <1>1, <1>4, <1>6, ImportChanges
  <2> QED BY <1>1, <2>1, AsideKeeps
<1>7. CASE import' = [import EXCEPT ![i] = removed]
  <2>1. i \in DOMAIN import => /\ removed \in ImportRows /\ removed.key = import[i].key
                               /\ removed.live => import[i].live
                               /\ removed.live /\ removed.status = "PROCESSING" => import[i].status = "PROCESSING"
    BY <1>5
  <2>2. StickersKept'
    BY <1>1, <1>7, <2>1, ImportChanges
  <2> QED BY <1>1, <2>2, AsideKeeps
<1> QED BY <1>3, <1>6, <1>7

LEMMA ReconcileOneKeeps ==
    ASSUME LibraryInvariant, NEW i, reconcileOne(i)
    PROVE  LibraryInvariant'
<1>1. StickersKept /\ Aside /\ UNCHANGED <<favorite, source>> /\ i \in Live
  BY DEF reconcileOne, Stale, Processing, LibraryInvariant
<1>2. CASE import' = EndedAs(i, "FAILED") /\ job' = job
  <2>1. "FAILED" \in ImportStates \ {"PROCESSING"}
    BY DEF ImportStates
  <2>2. StickersKept'
    BY <1>1, <1>2, <2>1, ImportEnds
  <2> QED BY <1>1, <2>2, AsideKeeps
<1>3. CASE /\ job' = [job EXCEPT ![i] = [NoJob EXCEPT !.state = "waiting"]]
           /\ import' = [import EXCEPT ![i].recent = TRUE]
  <2> DEFINE again == [NoJob EXCEPT !.state = "waiting"]
             row == [import[i] EXCEPT !.recent = TRUE]
  <2>1. import[i] \in ImportRows /\ job \in Seq(Jobs)
    BY <1>1 DEF Live, StickersKept
  <2>2. again \in Jobs
    BY DEF NoJob, Jobs, JobStates
  <2>3. row \in ImportRows /\ row.key = import[i].key /\ row.live = import[i].live /\ row.status = import[i].status
    BY <2>1 DEF ImportRows
  <2>4. job' = [job EXCEPT ![i] = again] /\ import' = [import EXCEPT ![i] = row]
    BY <1>3
  <2> HIDE DEF again, row
  <2>5. Replaced(Jobs, job, i, again, job')
    BY <2>1, <2>2, <2>4, OneReplaced
  <2>6. job' \in Seq(Jobs) /\ Len(job') = Len(job)
    BY <2>5 DEF Replaced
  <2>7. StickersKept'
    BY <1>1, <2>3, <2>4, <2>6, ImportChanges
  <2> QED BY <1>1, <2>7, AsideKeeps
<1> QED BY <1>2, <1>3 DEF reconcileOne

LEMMA ReclaimSourceKeeps ==
    ASSUME LibraryInvariant, NEW m, reclaimSource(m)
    PROVE  LibraryInvariant'
<1>1. StickersKept /\ Aside /\ UNCHANGED <<favorite, import, job>> /\ source' \subseteq source
  BY DEF reclaimSource, LibraryInvariant
<1>2. Processing' = Processing /\ Live' = Live
  BY <1>1 DEF Processing, Live
<1>3. StickersKept'
  BY <1>1, <1>2 DEF StickersKept, CollectionHolds, ImportRows, Jobs
<1> QED BY <1>1, <1>3, AsideKeeps

-------------------------------------------------------------------------------
(* The invariant holds *)

LEMMA NextKeeps ==
    ASSUME LibraryInvariant, Next
    PROVE  LibraryInvariant'
<1>1. ASSUME NEW r \in plot.requests,
             DraftActions(r) \/ ThreadDraftActions(r) \/ ShelfActions(r) \/ TagActions(r) \/ StickerRequests(r)
      PROVE  LibraryInvariant'
  BY <1>1, DraftActionsKeep, ThreadDraftActionsKeep, ShelfActionsKeep, TagActionsKeep, StickerRequestsKeep
<1>2. CASE Work
  BY <1>2, TakeJobKeeps, WorkKeeps, CompleteImportKeeps, FailImportKeeps, EndJobKeeps, AgeKeeps, ReconcileOneKeeps,
     StallKeeps DEF Work
<1>3. CASE Accidents
  BY <1>3, WorkKeeps, StallKeeps, ForgetJobKeeps, AgeKeeps, ReclaimSourceKeeps, CacheExpiresKeeps DEF Accidents
<1> QED BY <1>1, <1>2, <1>3 DEF Next

(* What an empty list is. *)
Empty(R, s) == s \in Seq(R) /\ Len(s) = 0 /\ \A i : i \notin DOMAIN s

LEMMA NothingListed ==
    ASSUME NEW R, NEW s, s = <<>>
    PROVE  Empty(R, s)
<1>1. s \in Seq(R) /\ Len(s) = 0
  OBVIOUS
<1>2. DOMAIN s = 1..Len(s)
  BY <1>1
<1>3. \A i : i \notin 1..0
  OBVIOUS
<1> QED BY <1>1, <1>2, <1>3 DEF Empty

LEMMA InitHolds == Init => LibraryInvariant
<1> SUFFICES ASSUME Init PROVE LibraryInvariant
  OBVIOUS
<1>1. /\ plot \in Plots
      /\ plot.thread \in [Threads -> ThreadRows] /\ plot.role \in [Threads -> [Users -> MemberRoles]]
      /\ plot.player \in [Threads -> SUBSET Users] /\ plot.tagged \subseteq Threads \X Tags /\ plot.media \subseteq Media
      /\ plot.drafts \in Seq(DraftRows)
      /\ \A d, e \in DOMAIN plot.drafts :
           d # e => plot.drafts[d].slot # plot.drafts[e].slot
                    /\ (plot.drafts[d].key = "" \/ plot.drafts[d].key # plot.drafts[e].key)
      /\ DOMAIN plot.favorites \in SUBSET Assets /\ IsFiniteSet(DOMAIN plot.favorites)
      /\ {plot.favorites[a] : a \in DOMAIN plot.favorites} = 0..(Cardinality(DOMAIN plot.favorites) - 1)
      /\ Cardinality(DOMAIN plot.favorites) <= Limit
  BY PlotsAssumption DEF Init
<1>2. pc = [r \in plot.requests |-> "new"] /\ seen = [r \in plot.requests |-> NoSight]
  BY DEF Init
<1>3. Placed
  BY <1>1, <1>2 DEF Placed, Fits, BeginningPlaces
<1>4. MembersKept
  BY <1>1 DEF Init, MembersKept, RelationsOK
<1>5. BookmarksKept /\ subscriptions \subseteq SubscriptionRows
  BY DEF Init, BookmarksKept
<1>6. LikesKept
  <2>1. \A t : {u \in Users : <<t, u>> \in {}} = {}
    OBVIOUS
  <2>2. [t \in Threads |-> Cardinality({u \in Users : <<t, u>> \in {}})] = [t \in Threads |-> 0]
    BY <2>1, FS_EmptySet
  <2> QED BY <2>2, FS_EmptySet DEF Init, LikesKept
<1>7. TagsKept
  <2>1. \A x \in Tags : tag[x] = [state |-> "active", name |-> x] \/ tag[x] = [state |-> "none", name |-> ""]
    BY DEF Init
  <2>2. \A x \in Tags : tag[x] \in TagRows /\ (tag[x].state # "none" => tag[x].name = x)
    <3>1. SUFFICES ASSUME NEW x \in Tags, NEW row, row = tag[x] PROVE row \in TagRows /\ (row.state # "none" => row.name = x)
      OBVIOUS
    <3>2. x \in STRING
      BY LibraryAssumption
    <3>3. row = [state |-> "active", name |-> x] \/ row = [state |-> "none", name |-> ""]
      BY <2>1, <3>1
    <3>4. CASE row = [state |-> "active", name |-> x]
      BY ONLY <3>2, <3>4 DEF TagRows
    <3>5. CASE row = [state |-> "none", name |-> ""]
      BY ONLY <3>5 DEF TagRows
    <3> QED BY <3>3, <3>4, <3>5
  <2>3. tag \in [Tags -> TagRows]
    BY <2>2 DEF Init
  <2>4. NamesDiffer
    BY <2>2 DEF NamesDiffer
  <2>5. SearchesHold
    BY <1>2 DEF SearchesHold
  <2>6. ListIsFresh
    BY DEF Init, ListIsFresh, NoList
  <2> QED BY <1>1, <2>3, <2>4, <2>5, <2>6 DEF Init, TagsKept
<1>8. DraftsKept
  BY <1>1 DEF Init, DraftsKept, SlotsAreDistinct, There
<1>9. ThreadDraftsKept
  <2>1. threadDraft \in Seq(ThreadDraftRows) /\ \A i : i \notin DOMAIN threadDraft
    <3>1. Empty(ThreadDraftRows, threadDraft)
      BY NothingListed DEF Init
    <3> QED BY <3>1 DEF Empty
  <2>2. \A u : Unpublished(u) = {}
    BY <2>1 DEF Unpublished
  <2>3. \A u \in Users : Cardinality(Unpublished(u)) <= MaxDrafts
    BY <2>2, FS_EmptySet, LibraryAssumption
  <2> QED BY <1>2, <2>1, <2>3 DEF ThreadDraftsKept, ThreadsBeginOnce
<1>10. StickersKept
  <2>1. /\ import \in Seq(ImportRows) /\ job \in Seq(Jobs) /\ Len(job) = Len(import) /\ \A i : i \notin DOMAIN import
        /\ favorite = plot.favorites /\ source = plot.media
    <3>1. Empty(ImportRows, import) /\ Empty(Jobs, job)
      BY NothingListed DEF Init
    <3>2. favorite = plot.favorites /\ source = plot.media
      BY DEF Init
    <3> QED BY <3>1, <3>2 DEF Empty
  <2>2. Live = {} /\ Processing = {}
    BY <2>1 DEF Live, Processing
  <2>3. Cardinality(Processing) = 0 /\ Cardinality(DOMAIN favorite) \in Nat
    BY <1>1, <2>1, <2>2, FS_EmptySet, FS_CardinalityType
  <2>4. Cardinality(DOMAIN favorite) + Cardinality(Processing) <= Limit
    <3>1. Cardinality(DOMAIN favorite) <= Limit /\ Limit \in Nat
      BY <1>1, <2>1, LibraryAssumption
    <3>2. ASSUME NEW n \in Nat, n <= Limit PROVE n + 0 <= Limit
      BY <3>1, <3>2
    <3> QED BY <2>3, <3>1, <3>2
  <2>5. {favorite[a] : a \in DOMAIN favorite} = 0..(Cardinality(DOMAIN favorite) - 1)
    BY <1>1, <2>1
  <2> QED BY <1>1, <2>1, <2>2, <2>4, <2>5 DEF StickersKept, CollectionHolds
<1> QED BY <1>3, <1>4, <1>5, <1>6, <1>7, <1>8, <1>9, <1>10 DEF LibraryInvariant, ShelvesKept

(* The invariant holds always, whatever is asked for and however often,    *)
(* whatever is lost and whenever a worker stops: DraftsService,            *)
(* ThreadsService.create, BookmarksService, SubscriptionsService,          *)
(* ThreadReactionService, TagsService and StickersService.                 *)
THEOREM LibraryHolds == Spec => []LibraryInvariant
<1>1. LibraryInvariant /\ [Next]_vars => LibraryInvariant'
  <2>1. SUFFICES ASSUME LibraryInvariant, UNCHANGED vars PROVE LibraryInvariant'
    BY NextKeeps
  <2>2. UNCHANGED tableVars /\ UNCHANGED <<plot, requestVars>>
    BY <2>1 DEF vars
  <2>3. Orderly
    BY <2>2 DEF Orderly
  <2> QED BY <2>1, <2>2, <2>3, TablesStay
<1> QED BY <1>1, InitHolds, PTL DEF Spec

-------------------------------------------------------------------------------
(* What members keep *)

LEMMA WholeInside == LibraryInvariant => KeptIsWhole
<1> SUFFICES ASSUME LibraryInvariant PROVE KeptIsWhole
  OBVIOUS
<1>1. MembersKept /\ BookmarksKept /\ LikesKept /\ subscriptions \subseteq SubscriptionRows
      /\ TagsKept /\ DraftsKept /\ ThreadDraftsKept /\ StickersKept
  BY DEF LibraryInvariant, ShelvesKept
<1>2. \A t \in Threads : likeCount[t] = Cardinality({u \in Users : <<t, u>> \in likes}) /\ likeCount[t] \in Nat
  <2>1. SUFFICES ASSUME NEW t \in Threads
        PROVE  likeCount[t] = Cardinality({u \in Users : <<t, u>> \in likes}) /\ likeCount[t] \in Nat
    OBVIOUS
  <2>2. IsFiniteSet({u \in Users : <<t, u>> \in likes})
    BY <1>1, FansAreFinite DEF LikesKept
  <2>3. Cardinality({u \in Users : <<t, u>> \in likes}) \in Nat
    BY <2>2, FS_CardinalityType
  <2> QED BY <1>1, <2>3 DEF LikesKept
<1>3. likeCount \in [Threads -> Nat]
  BY <1>1, <1>2 DEF LikesKept
<1>4. TypeOK
  BY <1>1, <1>3 DEF TypeOK, MembersKept, BookmarksKept, LikesKept, TagsKept, DraftsKept, ThreadDraftsKept, StickersKept
<1>5. \A x \in Tags : tag[x].state # "none" => Named(tag[x].name) = {x}
  BY <1>1 DEF TagsKept, NamesDiffer, Named
<1>6. ShelvesAreInOrder
  BY <1>1, <1>2, <1>5 DEF ShelvesAreInOrder, BookmarksKept
<1> QED BY <1>1, <1>4, <1>6 DEF KeptIsWhole, ShelvesHold, DraftsKept, ThreadDraftsKept, StickersKept

(* What members keep holds together, whatever they ask for at once and     *)
(* from however many devices: a slot and a request id belong to one draft, *)
(* a member has few drafts of threads and a request begins one, a thread   *)
(* is bookmarked once and in a folder that is there, a like counts once,   *)
(* names of tags differ, stickers are numbered 0, 1, 2 ..., and the limit  *)
(* of the collection holds with what is being imported into it.            *)
THEOREM WhatIsKeptHolds == Spec => []KeptIsWhole
BY LibraryHolds, WholeInside, PTL

LEMMA ListsInside == LibraryInvariant => ListsAreTrue
<1> SUFFICES ASSUME LibraryInvariant PROVE ListsAreTrue
  OBVIOUS
<1>1. \A u \in Users : u # Nobody
  BY LibraryAssumption
<1>2. \A u \in Users : \A t : Published(u, t) => Accessible(u, t, TRUE)
  BY <1>1 DEF Published, Accessible
<1>3. \A u \in Users, v \in Users : \A t \in Bookmarked(u, v) : Accessible(v, t, TRUE)
  BY <1>2 DEF Bookmarked
<1>4. \A u \in Users : \A s \in SubscriptionsOf(u) : MayInteract(u, s.thread, {s.target} \cap Users)
  <2>1. SUFFICES ASSUME NEW u \in Users, NEW s \in SubscriptionsOf(u), NEW v \in {s.target} \cap Users
        PROVE  Accessible(u, s.thread, TRUE) /\ ~Blocked(u, v)
    BY <1>2 DEF MayInteract, SubscriptionsOf
  <2> QED BY <1>1, <1>2, <2>1 DEF SubscriptionsOf
<1>5. \A u \in Users : \A f \in Folders :
         FolderCount(u, f) = Cardinality({t \in Bookmarked(u, u) : <<u, t, f>> \in bookmarks})
  <2>1. SUFFICES ASSUME NEW u \in Users, NEW f \in Folders
        PROVE  {t \in Threads : <<u, t, f>> \in bookmarks /\ Published(u, t)}
                 = {t \in Bookmarked(u, u) : <<u, t, f>> \in bookmarks}
    BY DEF FolderCount
  <2>2. \A t \in Threads : <<u, t, f>> \in bookmarks => HasBookmark(u, t)
    BY DEF HasBookmark
  <2> QED BY <2>2 DEF Bookmarked
<1>6. ListIsFresh
  BY DEF LibraryInvariant, TagsKept
<1> QED BY <1>3, <1>4, <1>5, <1>6 DEF ListsAreTrue, ListsFollowAccess

(* Lists show what may be opened: a bookmark or a subscription that the    *)
(* access check refuses is not listed, a folder counts what its list       *)
(* shows, and the cached list of tags is the registry's unless a change is *)
(* about to drop it, or could not, or a search was under way during one.   *)
THEOREM ListsShowWhatMayBeOpened == Spec => []ListsAreTrue
BY LibraryHolds, ListsInside, PTL

-------------------------------------------------------------------------------
(* What is written over *)

(* Whoever is refused, answered or only reads changes no table. *)
OnlyLooks(r) == Refused(r) \/ Answered(r) \/ \E place, sight : Reads(r, place, sight)

LEMMA LookingLeavesDrafts == ASSUME NEW r, OnlyLooks(r) PROVE draft' = draft
<1>1. UNCHANGED tableVars
  BY DEF OnlyLooks, Refused, Answered, Reads
<1> QED BY <1>1 DEF tableVars, draftVars

LEMMA ShelvesLeaveDrafts == ASSUME NEW r, ShelfActions(r) PROVE draft' = draft
<1>1. readBookmark(r) \/ createBookmark(r) \/ moveBookmark(r) \/ removeBookmark(r) \/ createFolder(r)
      => OnlyLooks(r) \/ OnShelves(r)
  BY DEF readBookmark, createBookmark, moveBookmark, removeBookmark, createFolder, OnlyLooks
<1>2. readSubscribe(r) \/ createSubscription(r) \/ removeSubscription(r) \/ readLike(r) \/ like(r) \/ unlike(r)
      => OnlyLooks(r) \/ OnShelves(r)
  BY DEF readSubscribe, createSubscription, removeSubscription, readLike, like, unlike, OnlyLooks
<1>3. changeThread(r) \/ readMember(r) \/ updateMember(r) \/ exitMember(r) => OnlyLooks(r) \/ InThread(r)
  BY DEF changeThread, readMember, updateMember, exitMember, OnlyLooks
<1>4. OnShelves(r) \/ InThread(r) \/ relate(r) => draft' = draft
  BY DEF OnShelves, InThread, relate, draftVars
<1> QED BY <1>1, <1>2, <1>3, <1>4, LookingLeavesDrafts DEF ShelfActions

LEMMA TagsLeaveDrafts == ASSUME NEW r, TagActions(r) PROVE draft' = draft
<1>1. createTag(r) \/ updateTag(r) \/ searchTags(r) \/ readAddTag(r) => OnlyLooks(r) \/ \E place : InTags(r, place)
  BY DEF createTag, updateTag, searchTags, readAddTag, Changes, OnlyLooks
<1>2. invalidate(r) \/ fillCache(r) \/ findOrCreate(r) \/ removeTag(r) => OnlyLooks(r) \/ \E place : InTags(r, place)
  BY DEF invalidate, fillCache, findOrCreate, removeTag, OnlyLooks
<1>3. ASSUME NEW place, InTags(r, place) PROVE draft' = draft
  BY <1>3 DEF InTags, draftVars
<1> QED BY <1>1, <1>2, <1>3, LookingLeavesDrafts DEF TagActions

LEMMA ThreadsLeaveDrafts == ASSUME NEW r, ThreadDraftActions(r) PROVE draft' = draft
<1>1. readCreateThread(r) \/ threadClashes(r) => OnlyLooks(r)
  BY DEF readCreateThread, threadClashes, ReplaysThread, OnlyLooks
<1>2. createThread(r) => OnlyLooks(r) \/ draft' = draft
  BY DEF createThread, OnlyLooks
<1>3. endThreadDraft(r) => draft' = draft
  BY DEF endThreadDraft
<1> QED BY <1>1, <1>2, <1>3, LookingLeavesDrafts DEF ThreadDraftActions

LEMMA StickersLeaveDrafts == ASSUME NEW r, StickerRequests(r) PROVE draft' = draft
<1>1. reorder(r) \/ removeSticker(r) \/ readImport(r) \/ enqueueImport(r) \/ markStartFailed(r) \/ readAdopt(r)
      => OnlyLooks(r) \/ InStickers(r)
  BY DEF reorder, removeSticker, readImport, enqueueImport, markStartFailed, readAdopt, OnlyLooks
<1>2. addExistingAsset(r) => OnlyLooks(r) \/ InStickers(r)
  BY DEF addExistingAsset, OnlyLooks
<1>3. startMediaImport(r) \/ enqueueFails(r) => OnlyLooks(r) \/ UNCHANGED draftVars
  BY DEF startMediaImport, enqueueFails, OnlyLooks
<1>4. InStickers(r) \/ UNCHANGED draftVars => draft' = draft
  BY DEF InStickers, draftVars
<1> QED BY <1>1, <1>2, <1>3, <1>4, LookingLeavesDrafts DEF StickerRequests

LEMMA WorkLeavesDrafts == ASSUME Work \/ Accidents PROVE draft' = draft
<1>1. Work => Aside
  BY DEF Work, takeJob, processImport, completeImport, failImport, endJob, age, reconcileOne, stall
<1>2. Accidents => Aside \/ cacheExpires
  BY DEF Accidents, crash, stall, forgetJob, cleanupImport, reclaimSource
<1> QED BY <1>1, <1>2 DEF Aside, cacheExpires, draftVars

(* What a step may do to the drafts that are there. *)
Seen(d) ==
    /\ draft[d].live
    /\ \E r \in plot.requests :
         /\ pc[r] # "done" /\ pc'[r] = "done"
         /\ r.version = draft[d].version \/ (r.op = "removeDraft" /\ ~r.versioned)

(* A new draft leaves the others alone. *)
LEMMA AddingLeavesDrafts ==
    ASSUME DraftsKept, NEW row, draft' = Append(draft, row), NEW d \in DOMAIN draft
    PROVE  draft'[d] = draft[d]
<1>1. draft \in Seq(DraftRows) /\ d \in 1..Len(draft) /\ Len(draft) \in Nat
  BY DEF DraftsKept
<1> QED BY <1>1

LEMMA DoneIsSeen ==
    ASSUME Placed, NEW r \in plot.requests, Done(r)
    PROVE  pc'[r] = "done"
BY DEF Placed, Done, Place

LEMMA DraftsAreSeen ==
    ASSUME LibraryInvariant, NEW r \in plot.requests, DraftActions(r), NEW d \in DOMAIN draft, draft'[d] # draft[d]
    PROVE  Seen(d)
<1>1. Placed /\ DraftsKept
  BY DEF LibraryInvariant
<1>2. ~OnlyLooks(r)
  BY LookingLeavesDrafts
<1>3. ~(readSave(r) \/ saveClashes(r) \/ lookSlot(r) \/ readEdit(r))
  BY <1>2 DEF readSave, saveClashes, lookSlot, readEdit, Replays, OnlyLooks
<1>4. ~(saveInFreeSlot(r) \/ fillSlot(r))
  <2>1. saveInFreeSlot(r) \/ fillSlot(r) => \E row : draft' = Append(draft, row)
    BY <1>2 DEF saveInFreeSlot, fillSlot, Writes, OnlyLooks
  <2> QED BY <1>1, <2>1, AddingLeavesDrafts
<1>5. CASE overwrite(r)
  <2>1. /\ pc[r] = "overwrite" /\ StillAt(r, seen[r].row) /\ Done(r)
        /\ draft' = Rewritten(seen[r].row, r.what)
    BY <1>2, <1>5 DEF overwrite, Stands, Writes, OnlyLooks
  <2>2. d = seen[r].row
    BY <2>1 DEF Rewritten
  <2>3. draft[d].live /\ draft[d].version = r.version /\ pc'[r] = "done"
    BY <1>1, <2>1, <2>2, DoneIsSeen DEF StillAt
  <2> QED BY <2>1, <2>3 DEF Seen
<1>6. CASE removeDraft(r)
  <2>1. /\ pc[r] = "new" /\ r.op = "removeDraft" /\ r.n \in There /\ (r.versioned => draft[r.n].version = r.version)
        /\ Done(r) /\ draft' = [draft EXCEPT ![r.n].live = FALSE]
    BY <1>2, <1>6 DEF removeDraft, Arrives, Writes, OnlyLooks
  <2>2. d = r.n
    BY <2>1
  <2>3. draft[d].live /\ (r.versioned => draft[d].version = r.version) /\ pc'[r] = "done"
    BY <1>1, <2>1, <2>2, DoneIsSeen DEF There
  <2> QED BY <2>1, <2>3 DEF Seen
<1> QED BY <1>3, <1>4, <1>5, <1>6 DEF DraftActions

(* Whoever writes over a draft, or removes it with a version, has seen the *)
(* version that goes, and a draft that is gone does not come back,         *)
(* although DraftsService reads slots and versions without a lock.         *)
THEOREM NothingIsLostUnseen == Spec => NothingUnseenIsOverwritten
<1>1. ASSUME LibraryInvariant, Next, NEW d \in DOMAIN draft, draft'[d] # draft[d] PROVE Seen(d)
  <2>1. PICK r \in plot.requests : DraftActions(r)
    <3>1. draft' # draft
      BY <1>1
    <3> QED BY <1>1, <3>1, WorkLeavesDrafts, ShelvesLeaveDrafts, TagsLeaveDrafts, ThreadsLeaveDrafts, StickersLeaveDrafts
            DEF Next
  <2> QED BY <1>1, <2>1, DraftsAreSeen
<1>2. LibraryInvariant /\ [Next]_vars => [\A d \in DOMAIN draft : draft'[d] # draft[d] =>
              /\ draft[d].live
              /\ \E r \in plot.requests :
                   /\ pc[r] # "done" /\ pc'[r] = "done"
                   /\ \/ r.version = draft[d].version
                      \/ r.op = "removeDraft" /\ ~r.versioned]_vars
  BY <1>1 DEF Seen
<1> QED BY <1>2, LibraryHolds, PTL DEF Spec, NothingUnseenIsOverwritten
===============================================================================
