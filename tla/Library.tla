------------------------------- MODULE Library --------------------------------
(***************************************************************************)
(* What members keep.  DraftsService: a pool of drafts in numbered slots; a *)
(* draft is written over only by who has seen the version that is written  *)
(* over.  ThreadsService.create: a thread that begins as a draft.  And the *)
(* whole: these, the requests of Shelves and Stickers, the sticker queue,  *)
(* and the jobs that recover and clean up.                                 *)
(***************************************************************************)
EXTENDS Stickers

(* What may be asked for. *)
ASSUME RequestsAssumption ==
    \A r \in Requests :
        /\ r \in Commands /\ IsFiniteSet(r.tags)
        /\ r.op = "folder" => r.what \in Folders
        /\ r.op = "block" => r.target \in Users
        /\ r.op = "save" => r.n \in 0..Slots

(* What may be there at first: drafts in slots of their own, and stickers  *)
(* that are numbered and not too many.                                     *)
ASSUME PlotsAssumption ==
    \A p \in Plots :
        /\ p.thread \in [Threads -> ThreadRows] /\ p.role \in [Threads -> [Users -> MemberRoles]]
        /\ p.player \in [Threads -> SUBSET Users] /\ p.tagged \subseteq Threads \X Tags /\ p.media \subseteq Media
        /\ p.drafts \in Seq(DraftRows)
        /\ \A d, e \in DOMAIN p.drafts :
             d # e => p.drafts[d].slot # p.drafts[e].slot /\ (p.drafts[d].key = "" \/ p.drafts[d].key # p.drafts[e].key)
        /\ DOMAIN p.favorites \in SUBSET Assets /\ IsFiniteSet(DOMAIN p.favorites)
        /\ {p.favorites[a] : a \in DOMAIN p.favorites} = 0..(Cardinality(DOMAIN p.favorites) - 1)
        /\ Cardinality(DOMAIN p.favorites) <= Limit

There == {d \in DOMAIN draft : draft[d].live}
Used == {draft[d].slot : d \in There}
Free == (1..Slots) \ Used
InSlot(n) == {d \in There : draft[d].slot = n}
Only(S) == IF S = {} THEN 0 ELSE CHOOSE d \in S : TRUE

Hash(r) == <<r.what, r.n>>
Keyed(r) == {d \in There : r.key # "" /\ draft[d].key = r.key}

(* findCreateReplay: a key that led to a draft leads to it again, or is    *)
(* refused when something else was asked for.                              *)
Replays(r) ==
    /\ Keyed(r) # {}
    /\ IF \E d \in Keyed(r) : draft[d].hash = Hash(r) THEN Answered(r) ELSE Refused(r)

NewDraft(r, slot) ==
    [live |-> TRUE, slot |-> slot, version |-> 1, text |-> r.what, key |-> r.key, hash |-> Hash(r)]

Writes(r, drafts) ==
    /\ draft' = drafts
    /\ Done(r)
    /\ UNCHANGED <<threadDraft, relationVars, threadVars, shelfVars, tagVars, stickerVars>>

Rewritten(d, text) == [draft EXCEPT ![d].text = text, ![d].version = @ + 1]

(* Content that assertContentAllowed refuses is refused before a slot is   *)
(* taken.  Without a slot there is nothing more to read.                   *)
readSave(r) ==
    /\ Arrives(r, "save")
    /\ \/ Replays(r)
       \/ Keyed(r) = {} /\ Refused(r)
       \/ Keyed(r) = {} /\ Reads(r, IF r.n = 0 THEN "take" ELSE "look", NoSight)

(* The lowest free slot, under the lock of the user; a key that is there   *)
(* by now makes the transaction fail.                                      *)
saveInFreeSlot(r) ==
    /\ At(r, "save", "take")
    /\ \/ Free = {} /\ Refused(r)
       \/ Free # {} /\ Keyed(r) = {} /\ Writes(r, Append(draft, NewDraft(r, Min(Free))))
       \/ Free # {} /\ Keyed(r) # {} /\ Reads(r, "clash", [seen[r] EXCEPT !.tries = @ + 1])

(* findCreateReplayAfterConflict; the draft may be gone again. *)
saveClashes(r) ==
    /\ At(r, "save", "clash")
    /\ \/ Replays(r)
       \/ Keyed(r) = {} /\ seen[r].tries < Attempts /\ r.n = 0 /\ Reads(r, "take", seen[r])
       \/ Keyed(r) = {} /\ (seen[r].tries = Attempts \/ r.n # 0) /\ Refused(r)

(* With a slot: what is there is read; a version speaks of a draft that    *)
(* was read before, which is not created anew when it is gone.             *)
lookSlot(r) ==
    /\ At(r, "save", "look")
    /\ LET d == Only(InSlot(r.n))
           fits == IF d = 0 THEN ~r.versioned ELSE r.versioned /\ r.version = draft[d].version
       IN  \/ ~fits /\ Refused(r)
           \/ fits /\ d # 0 /\ Reads(r, "overwrite", [seen[r] EXCEPT !.row = d])
           \/ fits /\ d = 0 /\ Reads(r, "fill", seen[r])

(* Mutant of StillAt: the version is not in the condition of the update. *)
StillThere(r, d) == draft[d].live

StillAt(r, d) == draft[d].live /\ draft[d].version = r.version

overwrite(r) ==
    /\ Stands(r, "overwrite") /\ r.op \in {"save", "edit"}
    /\ \/ StillAt(r, seen[r].row) /\ Writes(r, Rewritten(seen[r].row, r.what))
       \/ ~StillAt(r, seen[r].row) /\ Refused(r)

fillSlot(r) ==
    /\ At(r, "save", "fill")
    /\ \/ InSlot(r.n) = {} /\ Keyed(r) = {} /\ Writes(r, Append(draft, NewDraft(r, r.n)))
       \/ (InSlot(r.n) # {} \/ Keyed(r) # {}) /\ Reads(r, "clash", seen[r])

(* The version, then the content may be refused. *)
readEdit(r) ==
    /\ Arrives(r, "edit")
    /\ \/ r.n \in There /\ draft[r.n].version = r.version /\ Reads(r, "overwrite", [seen[r] EXCEPT !.row = r.n])
       \/ Refused(r)

removeDraft(r) ==
    /\ Arrives(r, "removeDraft")
    /\ \/ r.n \notin There /\ Answered(r)
       \/ r.n \in There /\ r.versioned /\ draft[r.n].version # r.version /\ Refused(r)
       \/ /\ r.n \in There /\ (r.versioned => draft[r.n].version = r.version)
          /\ Writes(r, [draft EXCEPT ![r.n].live = FALSE])

DraftActions(r) ==
    \/ readSave(r) \/ saveInFreeSlot(r) \/ saveClashes(r) \/ lookSlot(r) \/ overwrite(r)
    \/ fillSlot(r) \/ readEdit(r) \/ removeDraft(r)

-------------------------------------------------------------------------------
(* ThreadsService.create: threads begin as drafts, of which a member has   *)
(* few; a request that comes twice begins one.                             *)

Asked(r) == <<r.what, r.tags, r.order>>
Begun(r) == {i \in DOMAIN threadDraft : r.key # "" /\ threadDraft[i].owner = r.user /\ threadDraft[i].key = r.key}
Unpublished(u) ==
    {i \in DOMAIN threadDraft : threadDraft[i].owner = u /\ threadDraft[i].live /\ ~threadDraft[i].published}

(* findReplay: the thread of the same request, unless it is gone. *)
ReplaysThread(r) ==
    /\ Begun(r) # {}
    /\ IF \E i \in Begun(r) : threadDraft[i].live /\ threadDraft[i].asked = Asked(r) THEN Answered(r) ELSE Refused(r)

(* assertContentAllowed: one's own stickers and images. *)
Allowed(r) == {r.order[k] : k \in DOMAIN r.order} \subseteq DOMAIN favorite \cup source

(* A category that is not to be chosen is refused before all this. *)
readCreateThread(r) ==
    /\ Arrives(r, "createThread")
    /\ \/ Refused(r)
       \/ ReplaysThread(r)
       \/ Begun(r) = {} /\ Allowed(r) /\ Reads(r, "create thread", NoSight)

(* findOrCreate with the names that are sent. *)
Missing(r) == {name \in r.tags : Named(name) = {}}
TagsFit(r) ==
    /\ Cardinality(r.tags) <= MaxTags /\ Cardinality(Missing(r)) <= Cardinality(Unused)
    /\ \A name \in r.tags : Named(name) \subseteq Active
NewTags(r) == CHOOSE f \in [Missing(r) -> Unused] : \A a, b \in Missing(r) : f[a] = f[b] => a = b
WithTags(r) ==
    [x \in Tags |-> IF \E name \in Missing(r) : NewTags(r)[name] = x
                    THEN [state |-> "active", name |-> CHOOSE name \in Missing(r) : NewTags(r)[name] = x] ELSE tag[x]]

(* Under the lock of the user: the limit, then the tags, then the unique   *)
(* key of requests.                                                        *)
createThread(r) ==
    /\ At(r, "createThread", "create thread")
    /\ LET possible == Cardinality(Unpublished(r.user)) < MaxDrafts /\ TagsFit(r)
       IN  \/ ~possible /\ Refused(r)
           \/ possible /\ Begun(r) # {} /\ Reads(r, "thread clash", NoSight)
           \/ /\ possible /\ Begun(r) = {}
              /\ tag' = WithTags(r)
              /\ suspect' = (suspect \/ (Missing(r) # {} /\ Searching))
              /\ threadDraft' = Append(threadDraft,
                    [owner |-> r.user, live |-> TRUE, published |-> FALSE, key |-> r.key, asked |-> Asked(r),
                     tags |-> {x \in Tags : tag'[x].state # "none" /\ tag'[x].name \in r.tags}])
              /\ Place(r, IF r.tags = {} THEN "done" ELSE "invalidate")
              /\ UNCHANGED <<seen, relationVars, threadVars, shelfVars, tagged, cached, draft, stickerVars>>

(* findReplayAfterConflict *)
threadClashes(r) == Stands(r, "thread clash") /\ ReplaysThread(r)

(* Its owner publishes a draft, or removes it (module Threads). *)
endThreadDraft(r) ==
    /\ r.op \in {"publishThread", "removeThread"} /\ Arrives(r, r.op)
    /\ r.n \in Unpublished(r.user)
    /\ threadDraft' = IF r.op = "publishThread" THEN [threadDraft EXCEPT ![r.n].published = TRUE]
                      ELSE [threadDraft EXCEPT ![r.n].live = FALSE]
    /\ Done(r)
    /\ UNCHANGED <<relationVars, threadVars, shelfVars, tagVars, draft, stickerVars>>

ThreadDraftActions(r) == readCreateThread(r) \/ createThread(r) \/ threadClashes(r) \/ endThreadDraft(r)

-------------------------------------------------------------------------------
Init ==
    /\ plot \in Plots
    /\ follows = {} /\ blocks = {} /\ gone = {}
    /\ thread = plot.thread /\ role = plot.role /\ player = plot.player
    /\ bookmarks = {} /\ folders = {} /\ subscriptions = {}
    /\ likes = {} /\ likeCount = [t \in Threads |-> 0]
    /\ tag = [x \in Tags |-> IF \E p \in plot.tagged : p[2] = x
                             THEN [state |-> "active", name |-> x] ELSE [state |-> "none", name |-> ""]]
    /\ tagged = plot.tagged
    /\ cached = NoList /\ suspect = FALSE
    /\ draft = plot.drafts /\ threadDraft = <<>>
    /\ favorite = plot.favorites /\ collection = 1
    /\ import = <<>> /\ job = <<>> /\ source = plot.media
    /\ worker = [w \in Workers |-> Idle]
    /\ faults = plot.faults
    /\ pc = [r \in plot.requests |-> "new"]
    /\ seen = [r \in plot.requests |-> NoSight]

ImportsIn(p) == {r \in p.requests : r.op \in Imports \cup {"adopt"}}
Numbers == 1..Max({Cardinality(ImportsIn(p)) : p \in Plots})

Work ==
    \/ \E w \in Workers : w \in plot.workers /\ (takeJob(w) \/ processImport(w) \/ completeImport(w) \/ failImport(w) \/ endJob(w))
    \/ \E i \in Numbers : i \in DOMAIN import /\ (age(i) \/ reconcileOne(i) \/ (Lost(i) /\ stall(i)))

Accidents ==
    \/ \E w \in Workers : crash(w)
    \/ \E i \in Numbers : i \in DOMAIN import /\ (stall(i) \/ forgetJob(i) \/ cleanupImport(i))
    \/ \E m \in Media : reclaimSource(m)
    \/ cacheExpires

Next ==
    \/ \E r \in Requests :
          /\ r \in plot.requests
          /\ DraftActions(r) \/ ThreadDraftActions(r) \/ ShelfActions(r) \/ TagActions(r) \/ StickerRequests(r)
    \/ Work
    \/ Accidents

(* The queue's workers and the recovery run for as long as the server does; *)
(* requests may stop anywhere.                                             *)
Fairness == WF_vars(Work)

Spec == Init /\ [][Next]_vars /\ Fairness

-------------------------------------------------------------------------------
(* Properties *)

TypeOK ==
    /\ RelationsOK
    /\ thread \in [Threads -> ThreadRows]
    /\ role \in [Threads -> [Users -> MemberRoles]]
    /\ player \in [Threads -> SUBSET Users]
    /\ bookmarks \subseteq Users \X Threads \X Folders
    /\ folders \subseteq Users \X Folders
    /\ subscriptions \subseteq SubscriptionRows
    /\ likes \subseteq Threads \X Users /\ likeCount \in [Threads -> Nat]
    /\ tag \in [Tags -> TagRows] /\ tagged \subseteq Threads \X Tags
    /\ draft \in Seq(DraftRows) /\ threadDraft \in Seq(ThreadDraftRows)
    /\ DOMAIN favorite \subseteq Assets
    /\ import \in Seq(ImportRows) /\ job \in Seq(Jobs) /\ Len(job) = Len(import)
    /\ source \subseteq Media

(* A slot and a request id belong to one draft. *)
SlotsAreDistinct ==
    \A d, e \in There : d # e => draft[d].slot # draft[e].slot /\ (draft[d].key = "" \/ draft[d].key # draft[e].key)

(* A member has few drafts of threads, a request begins one, and whoever   *)
(* is told that it is there has asked for what it is.                      *)
ThreadsBeginOnce ==
    /\ \A u \in Users : Cardinality(Unpublished(u)) <= MaxDrafts
    /\ \A i, j \in DOMAIN threadDraft :
         i # j => threadDraft[i].key = "" \/ <<threadDraft[i].owner, threadDraft[i].key>> # <<threadDraft[j].owner, threadDraft[j].key>>
    /\ \A i \in DOMAIN threadDraft : Cardinality(threadDraft[i].tags) = Cardinality(threadDraft[i].asked[2])
    /\ \A r \in plot.requests :
         r.op = "createThread" /\ pc[r] \in {"invalidate", "done"} /\ r.key # "" =>
             \E i \in Begun(r) : threadDraft[i].asked = Asked(r)

(* A thread is bookmarked once, in a folder of the one whose bookmark it   *)
(* is; a like counts once; the names of tags differ.                       *)
ShelvesAreInOrder ==
    /\ \A b \in bookmarks : <<b[1], b[3]>> \in folders /\ \A c \in bookmarks : <<b[1], b[2]>> = <<c[1], c[2]>> => b = c
    /\ \A t \in Threads : likeCount[t] = Cardinality({u \in Users : <<t, u>> \in likes})
    /\ \A x \in Tags : tag[x].state # "none" => Named(tag[x].name) = {x}

(* What members keep holds together while they ask twice, from two devices *)
(* and for what is taken away meanwhile: DraftsService, BookmarksService,  *)
(* ThreadReactionService and TagsService.                                  *)
ShelvesHold == TypeOK /\ SlotsAreDistinct /\ ThreadsBeginOnce /\ ShelvesAreInOrder

(* The positions of the stickers are 0, 1, 2 ..., and the limit holds for  *)
(* the collection with what is being imported into it, of which only the   *)
(* beginning is checked (StickersService.assertCapacity).                  *)
CollectionHolds ==
    /\ {favorite[a] : a \in DOMAIN favorite} = 0..(Cardinality(DOMAIN favorite) - 1)
    /\ Cardinality(DOMAIN favorite) + Cardinality(Processing) <= Limit
    /\ \A i, j \in Live : import[i].key = import[j].key => i = j

(* Drafts, shelves, tags and stickers together: what two devices ask for   *)
(* at once is kept as if they had asked in turn.                           *)
KeptIsWhole == ShelvesHold /\ CollectionHolds

(* A list shows no thread and no player that the access check refuses, and *)
(* a folder counts what the list shows: publishedThreadVisibilityWhere     *)
(* agrees with ThreadAccessService.assertAccessible.                       *)
ListsFollowAccess ==
    \A u \in Users :
        /\ \A v \in Users : \A t \in Bookmarked(u, v) : Accessible(v, t, TRUE)
        /\ \A s \in SubscriptionsOf(u) : MayInteract(u, s.thread, {s.target} \cap Users)
        /\ \A f \in Folders :
             FolderCount(u, f) = Cardinality({t \in Bookmarked(u, u) : <<u, t, f>> \in bookmarks})

(* The cached list of tags is the registry's, unless a change is about to  *)
(* drop it, or Redis refused to, or a search was under way during a change: *)
(* TagsService.search stores what it read however late it is, and          *)
(* CacheService.del swallows its failure.  Such a list stays for the hour  *)
(* it is cached (tags.service.ts:34), or until the next change.            *)
ListIsFresh ==
    \/ ~cached.full \/ suspect
    \/ \E r \in plot.requests : pc[r] = "invalidate"
    \/ cached.shows = {<<x, tag[x].name>> : x \in Active}

(* What is listed is what may be opened and what there is.                 *)
ListsAreTrue == ListsFollowAccess /\ ListIsFresh

(* Whoever writes over a draft, or removes it with a version, has seen the *)
(* version that goes; a draft that is gone does not come back, although    *)
(* DraftsService reads slots and versions without a lock.                  *)
NothingUnseenIsOverwritten ==
    [][\A d \in DOMAIN draft :
          draft'[d] # draft[d] =>
              /\ draft[d].live
              /\ \E r \in plot.requests :
                   /\ pc[r] # "done" /\ pc'[r] = "done"
                   /\ \/ r.version = draft[d].version
                      \/ r.op = "removeDraft" /\ ~r.versioned]_vars

(* An import ends, whatever is lost on its way: the request that should    *)
(* have put it into the queue, its job, or the worker.                     *)
EveryImportEnds ==
    \A i \in Numbers : (i \in DOMAIN import /\ i \in Processing) ~> (i \in DOMAIN import /\ i \notin Processing)

===============================================================================
