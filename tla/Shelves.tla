------------------------------- MODULE Shelves --------------------------------
(***************************************************************************)
(* What members keep for themselves and about threads: drafts, bookmarks,  *)
(* subscriptions, likes, tags, stickers.  Drafts and stickers belong to    *)
(* one member, and concern nobody else: there is one pool of each here.    *)
(*                                                                         *)
(* A transaction that locks the rows it reads is one step; what is read    *)
(* without a lock is a step of its own, and kept in seen.                  *)
(*                                                                         *)
(* After the record and the access to threads: BookmarksService,           *)
(* SubscriptionsService, ThreadReactionService, TagsService,               *)
(* ThreadTagsService and AdminTaxonomyService, and what happens to threads *)
(* and members meanwhile.  The list of the registry of tags is cached for  *)
(* an hour.                                                                *)
(***************************************************************************)
EXTENDS UserRelations, Integers, Sequences, FiniteSetsExt

CONSTANTS
    Threads, Tags, Media, Assets,
    AssetOf(_),  \* the asset that an image is normalized to: its contentHash
    Folders,     \* names of folders of bookmarks
    Default,     \* DEFAULT_BOOKMARK_FOLDER_NAME
    Nobody,      \* no user, no worker
    Slots,       \* slots for drafts: 5
    Attempts,    \* attempts to find a slot: 5
    MaxTags,     \* MAX_TAGS_PER_THREAD: 5
    MaxDrafts,   \* MAX_THREAD_DRAFTS: 10
    Limit,       \* STICKER_COLLECTION_LIMIT: 200
    Workers,     \* workers of the sticker queue
    Plots        \* bound: what there is at first, who does what, and how many faults happen

ThreadRows == [owner : Users, published : BOOLEAN, live : BOOLEAN, private : BOOLEAN]
MemberRoles == {"NONE", "PARTICIPANT", "COLLABORATOR", "OWNER"}

(* hash: the content and the slot a draft was asked for with its key. *)
DraftRows ==
    [live : BOOLEAN, slot : 1..Slots, version : Nat \ {0}, text : STRING, key : STRING, hash : STRING \X Nat]

(* A thread that was begun as a draft; asked: its text, its tags and the   *)
(* images in it, as its createRequestHash has them.                        *)
ThreadDraftRows ==
    [owner : Users, live : BOOLEAN, published : BOOLEAN, key : STRING,
     asked : STRING \X (SUBSET STRING) \X Seq(STRING), tags : SUBSET Tags]

(* target Nobody: what the thread's managers publish. *)
SubscriptionRows == [user : Users, thread : Threads, target : Users \cup {Nobody}]

(* A tag of the registry; state none: not there yet. *)
TagRows == [state : {"active", "inactive"}, name : STRING] \cup {[state |-> "none", name |-> ""]}

ImportStates == {"PROCESSING", "COMPLETED", "FAILED"}

(* recent: touched less than 15 minutes ago; source: its image is there. *)
ImportRows ==
    [live : BOOLEAN, key : STRING, status : ImportStates, media : Media, recent : BOOLEAN]

JobStates == {"missing", "waiting", "active", "completed", "failed"}
Jobs == [state : JobStates, made : Nat, stalls : Nat, owner : Workers \cup {Nobody}]
NoJob == [state |-> "missing", made |-> 0, stalls |-> 0, owner |-> Nobody]

(* n, m: a slot, the number of a row, or a version; versioned: a version is *)
(* sent; what: a text, the name of a folder, a tag or an image; order: the  *)
(* order that is asked for, or the images in a text; tags: their names;    *)
(* by: who wrote what the image is in.                                     *)
Commands ==
    [id : Nat, op : STRING, user : Users, thread : Threads, target : Users \cup {Nobody},
     n : Nat, versioned : BOOLEAN, version : Nat, key : STRING, what : STRING, order : Seq(STRING),
     tags : SUBSET STRING, by : SUBSET Users]

PlotFields == {"thread", "role", "player", "tagged", "drafts", "favorites", "media", "workers",
               "requests", "faults"}

ASSUME LibraryAssumption ==
    /\ Slots \in Nat \ {0} /\ Attempts \in Nat \ {0} /\ Limit \in Nat \ {0} /\ MaxTags \in Nat \ {0}
    /\ MaxDrafts \in Nat \ {0}
    /\ Default \in Folders /\ Tags \subseteq STRING /\ IsFiniteSet(Tags)
    /\ Nobody \notin Users \cup Workers
    /\ \A m \in Media : AssetOf(m) \in Assets
    /\ \A p \in Plots : PlotFields \subseteq DOMAIN p

Requests == UNION {p.requests : p \in Plots}

VARIABLES
    plot,
    thread, role, player,      \* role[t][u], player[t]: members with player_marked
    bookmarks,                 \* triples <<user, thread, folder>>
    folders,                   \* pairs <<user, folder>>
    subscriptions,
    likes, likeCount,          \* pairs <<thread, user>>, and what the row says
    tag,                       \* tag[x]
    tagged,                    \* pairs <<thread, tag>>
    cached,                    \* the list of tags that is cached: full, and the tags it shows
    suspect,                   \* history: a search was under way when the list changed, or a drop failed
    draft,                     \* the pool of drafts, in the order of creation
    threadDraft,               \* threads that were begun as drafts, in the order of creation
    favorite, collection,      \* favorite[a]: the position of a sticker; the collection's version
    import, job,               \* imports in the order of creation, and their jobs
    source,                    \* images that have not been reclaimed
    worker,                    \* worker[w]: the import it is at, and how far it is
    faults,                    \* bound: faults that are still to come
    pc,                        \* pc[r]: new, where it is, or done, refused
    seen                       \* seen[r]: what r has read

threadVars == <<thread, role, player>>
shelfVars == <<bookmarks, folders, subscriptions, likes, likeCount>>
tagVars == <<tag, tagged, cached, suspect>>
stickerVars == <<favorite, collection, import, job, source, worker, faults>>
draftVars == <<draft, threadDraft>>
tableVars == <<relationVars, threadVars, shelfVars, tagVars, draftVars, stickerVars>>
requestVars == <<pc, seen>>
vars == <<plot, tableVars, requestVars>>

(* The number of a row, its version, how often it was tried, what it shows. *)
NoSight == [row |-> 0, version |-> 0, tries |-> 0, shows |-> {}]

Place(r, place) == pc' = [pc EXCEPT ![r] = place] /\ UNCHANGED plot
Done(r) == Place(r, "done") /\ UNCHANGED seen
Refused(r) == Place(r, "refused") /\ UNCHANGED <<seen, tableVars>>
Answered(r) == Done(r) /\ UNCHANGED tableVars
Reads(r, place, sight) ==
    Place(r, place) /\ seen' = [seen EXCEPT ![r] = sight] /\ UNCHANGED tableVars

Arrives(r, op) == r.op = op /\ r \in plot.requests /\ pc[r] = "new"
Stands(r, place) == r \in plot.requests /\ pc[r] = place
At(r, op, place) == r.op = op /\ Stands(r, place)

-------------------------------------------------------------------------------
(* Access to threads, in the two forms the code has it. *)

Member(u, t) == role[t][u] # "NONE"

(* assertAccessible; blocks count where people meet. *)
Accessible(u, t, apart) ==
    /\ thread[t].live
    /\ apart => ~Blocked(u, thread[t].owner)
    /\ IF thread[t].published THEN ~thread[t].private \/ Member(u, t) ELSE u = thread[t].owner

(* Mutant of Published: members of a private thread are not asked for. *)
PublishedToAll(u, t) ==
    /\ thread[t].live /\ thread[t].published
    /\ u # Nobody => ~Blocked(u, thread[t].owner)

(* publishedThreadVisibilityWhere; Nobody: an anonymous reader. *)
Published(u, t) ==
    /\ thread[t].live /\ thread[t].published
    /\ u # Nobody => ~Blocked(u, thread[t].owner)
    /\ ~thread[t].private \/ (u # Nobody /\ Member(u, t))

(* lockInteraction: under the locks of the users concerned. *)
MayInteract(u, t, others) ==
    /\ Accessible(u, t, TRUE)
    /\ \A v \in others : ~Blocked(u, v)

CanManage(u, t) == Accessible(u, t, TRUE) /\ role[t][u] \in {"OWNER", "COLLABORATOR"}

-------------------------------------------------------------------------------
InTags(r, place) ==
    /\ Place(r, place)
    /\ UNCHANGED <<seen, relationVars, threadVars, shelfVars, draftVars, stickerVars>>

Named(name) == {x \in Tags : tag[x].state # "none" /\ tag[x].name = name}
Active == {x \in Tags : tag[x].state = "active"}
Unused == {x \in Tags : tag[x].state = "none"}

(* A search that has read the list, and has not put it into the cache. *)
Searching == \E r \in plot.requests : pc[r] = "fill cache"

(* The registry changes; the cached list is dropped after the commit. *)
Changes(r, tags) ==
    /\ tag' = tags
    /\ suspect' = (suspect \/ Searching)
    /\ UNCHANGED <<tagged, cached>>
    /\ InTags(r, "invalidate")

(* create, createTag: the name is free, by the unique index. *)
createTag(r) ==
    /\ Arrives(r, "createTag")
    /\ \/ (Named(r.what) # {} \/ Unused = {}) /\ Refused(r)
       \/ /\ Named(r.what) = {} /\ Unused # {}
          /\ Changes(r, [tag EXCEPT ![CHOOSE x \in Unused : TRUE] = [state |-> "active", name |-> r.what]])

(* updateTag: another name, and shown or not. *)
updateTag(r) ==
    /\ Arrives(r, "updateTag")
    /\ LET x == CHOOSE x \in Tags : r.key = "" \/ tag[x].name = r.key
           possible == tag[x].state # "none" /\ Named(r.what) \subseteq {x}
       IN  \/ ~possible /\ Refused(r)
           \/ possible /\ Changes(r, [tag EXCEPT ![x] = [state |-> IF r.versioned THEN "active" ELSE "inactive",
                                                         name |-> r.what]])

NoList == [full |-> FALSE, shows |-> {}]

(* CacheService: what Redis refuses is swallowed.  A list that could not be *)
(* dropped stays, and whoever changed the registry goes on.                *)
invalidate(r) ==
    /\ Stands(r, "invalidate")
    /\ \/ cached' = NoList /\ suspect' = (suspect /\ Searching)
       \/ UNCHANGED cached /\ suspect' = (suspect \/ cached.full)
    /\ UNCHANGED <<tag, tagged>>
    /\ InTags(r, "done")

(* search without a text: from the cache, or into it.  A cache that cannot *)
(* be read is passed by, one that cannot be written stays what it is.      *)
searchTags(r) ==
    /\ Arrives(r, "searchTags")
    /\ \/ cached.full /\ Answered(r)
       \/ Reads(r, "fill cache", [NoSight EXCEPT !.shows = {<<x, tag[x].name>> : x \in Active}])

fillCache(r) ==
    /\ At(r, "searchTags", "fill cache")
    /\ cached' \in {cached, [full |-> TRUE, shows |-> seen[r].shows]}
    /\ UNCHANGED <<tag, tagged, suspect>>
    /\ InTags(r, "done")

(* One hour later. *)
cacheExpires ==
    /\ cached.full
    /\ cached' = NoList
    /\ suspect' = Searching
    /\ UNCHANGED <<plot, relationVars, threadVars, shelfVars, tag, tagged, draftVars, stickerVars, requestVars>>

-------------------------------------------------------------------------------
(* The tags of a thread *)

readAddTag(r) ==
    /\ Arrives(r, r.op) /\ r.op \in {"addTag", "removeTag"}
    /\ \/ CanManage(r.user, r.thread) /\ Reads(r, "tag", NoSight)
       \/ ~CanManage(r.user, r.thread) /\ Refused(r)

(* findOrCreate with the one name that is added, which is not too many: a  *)
(* tag that is not active is refused, one that is not there is created.    *)
findOrCreate(r) ==
    /\ At(r, "addTag", "tag")
    /\ LET t == r.thread
           known == Named(r.what)
           x == IF known # {} THEN CHOOSE x \in known : TRUE ELSE CHOOSE x \in Unused : TRUE
           possible == MayInteract(r.user, t, {}) /\ known \subseteq Active /\ (known # {} \/ Unused # {})
                       /\ Cardinality({r.what}) <= MaxTags
       IN  \/ ~possible /\ Refused(r)
           \/ /\ possible
              /\ tag' = IF known # {} THEN tag ELSE [tag EXCEPT ![x] = [state |-> "active", name |-> r.what]]
              /\ suspect' = (suspect \/ (known = {} /\ Searching))
              /\ tagged' = tagged \cup {<<t, x>>}
              /\ UNCHANGED cached
              /\ InTags(r, "invalidate")

removeTag(r) ==
    /\ At(r, "removeTag", "tag")
    /\ \/ ~MayInteract(r.user, r.thread, {}) /\ Refused(r)
       \/ /\ MayInteract(r.user, r.thread, {})
          /\ tagged' = {p \in tagged : p[1] # r.thread \/ tag[p[2]].name # r.what}
          /\ UNCHANGED <<tag, cached, suspect>>
          /\ InTags(r, "done")

TagsOf(t) == {x \in Tags : <<t, x>> \in tagged}

TagActions(r) ==
    \/ createTag(r) \/ updateTag(r) \/ invalidate(r) \/ searchTags(r) \/ fillCache(r)
    \/ readAddTag(r) \/ findOrCreate(r) \/ removeTag(r)

-------------------------------------------------------------------------------
OnShelves(r) == Done(r) /\ UNCHANGED <<relationVars, threadVars, tagVars, draftVars, stickerVars>>

-------------------------------------------------------------------------------
(* Bookmarks *)

HasBookmark(u, t) == \E f \in Folders : <<u, t, f>> \in bookmarks
Folder(r) == IF r.what = "" THEN Default ELSE r.what

(* resolveFolder: one's own, or the default folder, which is created. *)
CanResolve(r) == r.what = "" \/ <<r.user, r.what>> \in folders
WithDefault(u) == folders \cup {<<u, Default>>}

(* The thread is read before the transaction. *)
readBookmark(r) ==
    /\ Arrives(r, "bookmark")
    /\ LET t == r.thread
           there == thread[t].live /\ thread[t].published /\ (thread[t].private => Member(r.user, t))
       IN  (there /\ Reads(r, "bookmark", NoSight)) \/ (~there /\ Refused(r))

createBookmark(r) ==
    /\ At(r, "bookmark", "bookmark")
    /\ LET t == r.thread
           possible == /\ ~Blocked(r.user, thread[t].owner)
                       /\ CanResolve(r) /\ ~HasBookmark(r.user, t)
       IN  \/ ~possible /\ Refused(r)
           \/ /\ possible
              /\ bookmarks' = bookmarks \cup {<<r.user, t, Folder(r)>>}
              /\ folders' = IF r.what = "" THEN WithDefault(r.user) ELSE folders
              /\ UNCHANGED <<subscriptions, likes, likeCount>>
              /\ OnShelves(r)

(* Mutant of moveBookmark: the bookmark is put into the new folder too. *)
moveBookmarkTwice(r) ==
    /\ Arrives(r, "move")
    /\ LET possible == HasBookmark(r.user, r.thread) /\ <<r.user, r.what>> \in folders
       IN  \/ ~possible /\ Refused(r)
           \/ /\ possible
              /\ bookmarks' = bookmarks \cup {<<r.user, r.thread, r.what>>}
              /\ UNCHANGED <<folders, subscriptions, likes, likeCount>>
              /\ OnShelves(r)

Elsewhere(u, t) == {b \in bookmarks : b[1] # u \/ b[2] # t}

moveBookmark(r) ==
    /\ Arrives(r, "move")
    /\ LET possible == HasBookmark(r.user, r.thread) /\ <<r.user, r.what>> \in folders
       IN  \/ ~possible /\ Refused(r)
           \/ /\ possible
              /\ bookmarks' = Elsewhere(r.user, r.thread) \cup {<<r.user, r.thread, r.what>>}
              /\ UNCHANGED <<folders, subscriptions, likes, likeCount>>
              /\ OnShelves(r)

removeBookmark(r) ==
    /\ Arrives(r, "unbookmark")
    /\ \/ ~HasBookmark(r.user, r.thread) /\ Refused(r)
       \/ /\ HasBookmark(r.user, r.thread)
          /\ bookmarks' = Elsewhere(r.user, r.thread)
          /\ UNCHANGED <<folders, subscriptions, likes, likeCount>>
          /\ OnShelves(r)

createFolder(r) ==
    /\ Arrives(r, "folder")
    /\ folders' = WithDefault(r.user) \cup {<<r.user, r.what>>}
    /\ UNCHANGED <<bookmarks, subscriptions, likes, likeCount>>
    /\ OnShelves(r)

(* findAll, findByUserId: the owner's bookmarks as a reader sees them. *)
Bookmarked(u, reader) == {t \in Threads : HasBookmark(u, t) /\ Published(reader, t)}

(* findFolders *)
FolderCount(u, f) == Cardinality({t \in Threads : <<u, t, f>> \in bookmarks /\ Published(u, t)})

-------------------------------------------------------------------------------
(* Subscriptions *)

Manages(u, t) == role[t][u] \in {"OWNER", "COLLABORATOR"}
Wanted(r) == [user |-> r.user, thread |-> r.thread, target |-> r.target]

CanBeFollowed(r) ==
    \/ r.target = Nobody
    \/ /\ r.target \in Users \ {r.user}
       /\ role[r.thread][r.target] = "PARTICIPANT" /\ r.target \in player[r.thread]

readSubscribe(r) ==
    /\ Arrives(r, "subscribe")
    /\ LET t == r.thread
           possible == /\ Accessible(r.user, t, TRUE) /\ thread[t].published
                       /\ ~Manages(r.user, t) /\ CanBeFollowed(r)
                       /\ Wanted(r) \notin subscriptions
       IN  (possible /\ Reads(r, "subscribe", NoSight)) \/ (~possible /\ Refused(r))

(* Access and blocks are checked again, the roles are not. *)
createSubscription(r) ==
    /\ At(r, "subscribe", "subscribe")
    /\ LET possible == /\ MayInteract(r.user, r.thread, {r.target} \cap Users)
                       /\ Wanted(r) \notin subscriptions
       IN  \/ ~possible /\ Refused(r)
           \/ /\ possible
              /\ subscriptions' = subscriptions \cup {Wanted(r)}
              /\ UNCHANGED <<bookmarks, folders, likes, likeCount>>
              /\ OnShelves(r)

removeSubscription(r) ==
    /\ Arrives(r, "unsubscribe")
    /\ \/ Wanted(r) \notin subscriptions /\ Refused(r)
       \/ /\ Wanted(r) \in subscriptions
          /\ subscriptions' = subscriptions \ {Wanted(r)}
          /\ UNCHANGED <<bookmarks, folders, likes, likeCount>>
          /\ OnShelves(r)

(* findAll *)
SubscriptionsOf(u) ==
    {s \in subscriptions :
        s.user = u /\ Published(u, s.thread) /\ (s.target = Nobody \/ ~Blocked(u, s.target))}

-------------------------------------------------------------------------------
(* Likes *)

(* assertAccessible; blocks do not count when a like is taken back. *)
readLike(r) ==
    /\ Arrives(r, r.op) /\ r.op \in {"like", "unlike"}
    /\ LET t == r.thread
           possible == Accessible(r.user, t, r.op = "like") /\ thread[t].published
       IN  (possible /\ Reads(r, "like", NoSight)) \/ (~possible /\ Refused(r))

like(r) ==
    /\ At(r, "like", "like")
    /\ LET t == r.thread
       IN  \/ ~MayInteract(r.user, t, {}) /\ Refused(r)
           \/ /\ MayInteract(r.user, t, {})
              /\ likes' = likes \cup {<<t, r.user>>}
              /\ likeCount' = [likeCount EXCEPT ![t] = IF <<t, r.user>> \in likes THEN @ ELSE @ + 1]
              /\ UNCHANGED <<bookmarks, folders, subscriptions>>
              /\ OnShelves(r)

unlike(r) ==
    /\ At(r, "unlike", "like")
    /\ LET t == r.thread
       IN  /\ likes' = likes \ {<<t, r.user>>}
           /\ likeCount' = [likeCount EXCEPT ![t] = IF <<t, r.user>> \in likes THEN @ - 1 ELSE @]
           /\ UNCHANGED <<bookmarks, folders, subscriptions>>
           /\ OnShelves(r)

-------------------------------------------------------------------------------
(* Threads and their members, as far as the shelves are concerned *)

InThread(r) == Done(r) /\ UNCHANGED <<relationVars, tagVars, draftVars, stickerVars, bookmarks, folders, likes, likeCount>>

(* Its owner removes a thread, or makes it private. *)
changeThread(r) ==
    /\ Arrives(r, r.op) /\ r.op \in {"withdraw", "close"}
    /\ r.user = thread[r.thread].owner
    /\ thread' = IF r.op = "withdraw" THEN [thread EXCEPT ![r.thread].live = FALSE]
                 ELSE [thread EXCEPT ![r.thread].private = TRUE]
    /\ UNCHANGED <<role, player, subscriptions>>
    /\ InThread(r)

(* updateMember: a new collaborator, or somebody who is no player any more. *)
Following(t, u) == {s \in subscriptions : s.thread = t /\ s.target = u}
Of(t, u) == {s \in subscriptions : s.thread = t /\ s.user = u}

readMember(r) ==
    /\ Arrives(r, r.op) /\ r.op \in {"promote", "unmark"}
    /\ LET possible == CanManage(r.user, r.thread) /\ (r.op = "promote" => role[r.thread][r.user] = "OWNER")
       IN  (possible /\ Reads(r, "member", NoSight)) \/ (~possible /\ Refused(r))

updateMember(r) ==
    /\ Stands(r, "member")
    /\ LET t == r.thread
           u == r.target
           possible == MayInteract(r.user, t, {u}) /\ role[t][u] \notin {"NONE", "OWNER"}
       IN  \/ ~possible /\ Refused(r)
           \/ /\ possible
              /\ IF r.op = "promote"
                 THEN /\ role' = [role EXCEPT ![t][u] = "COLLABORATOR"]
                      /\ subscriptions' = subscriptions \ (Of(t, u) \cup Following(t, u))
                      /\ UNCHANGED player
                 ELSE /\ player' = [player EXCEPT ![t] = @ \ {u}]
                      /\ subscriptions' = subscriptions \ Following(t, u)
                      /\ UNCHANGED role
              /\ UNCHANGED thread
              /\ InThread(r)

exitMember(r) ==
    /\ Arrives(r, "exit")
    /\ LET possible == role[r.thread][r.user] \notin {"NONE", "OWNER"}
       IN  \/ ~possible /\ Refused(r)
           \/ /\ possible
              /\ player' = [player EXCEPT ![r.thread] = @ \ {r.user}]
              /\ subscriptions' = subscriptions \ Following(r.thread, r.user)
              /\ UNCHANGED <<thread, role>>
              /\ InThread(r)

relate(r) ==
    /\ Arrives(r, r.op)
    /\ \/ r.op = "block" /\ block(r.user, r.target)
       \/ r.op = "unblock" /\ unblock(r.user, r.target)
    /\ Done(r)
    /\ UNCHANGED <<threadVars, shelfVars, tagVars, draftVars, stickerVars>>

ShelfActions(r) ==
    \/ readBookmark(r) \/ createBookmark(r) \/ moveBookmark(r) \/ removeBookmark(r) \/ createFolder(r)
    \/ readSubscribe(r) \/ createSubscription(r) \/ removeSubscription(r)
    \/ readLike(r) \/ like(r) \/ unlike(r)
    \/ changeThread(r) \/ readMember(r) \/ updateMember(r) \/ exitMember(r) \/ relate(r)
===============================================================================
