-------------------------------- MODULE Content --------------------------------
(***************************************************************************)
(* PostsService and PostPinService: floors, replies, the body of a         *)
(* subthread, edits, removals and pins.  And a thread under all its        *)
(* commands at once: what the services promise of the thread together.     *)
(***************************************************************************)
EXTENDS Threads

-------------------------------------------------------------------------------
(* create *)

FoundByKey(r) ==
    {p \in DOMAIN post :
        /\ r.key # NoKey /\ post[p].author = r.user /\ post[p].key = r.key
        /\ post[p].live /\ ~ParentGone(p)}

SameRequest(p, r) ==
    /\ post[p].sub = r.sub
    /\ post[p].text = r.text
    /\ post[p].parent = r.parent
    /\ post[p].replyTo = r.replyTo

(* Mutant of AnswerRepeat: the payload is not compared. *)
AnswerAnyRepeat(r) == \E p \in FoundByKey(r) : Finish(r, "done", p)

(* The post that the request id made is the answer, if it is the same post. *)
AnswerRepeat(r) ==
    \E p \in FoundByKey(r) :
        IF SameRequest(p, r) THEN Finish(r, "done", p) ELSE Finish(r, "refused", 0)

readCreatePost(r) ==
    /\ r.op = "createPost"
    /\ IF SubLive(r.sub) /\ Accessible(r.user) /\ FoundByKey(r) # {}
       THEN r \in plot.requests /\ pc[r] = "new" /\ AnswerRepeat(r) /\ UNCHANGED contentVars
       ELSE Read(r, SubLive(r.sub) /\ Accessible(r.user) /\ CanPost(r.user, r.sub), NoSight)

(* A reply goes to a main floor of the subthread, and to a post under it.  *)
CanReply(r) ==
    /\ r.parent # 0 =>
         PostLive(r.parent) /\ post[r.parent].sub = r.sub /\ post[r.parent].parent = 0
    /\ r.replyTo # 0 =>
         /\ PostLive(r.replyTo) /\ ~ParentGone(r.replyTo)
         /\ post[r.replyTo].sub = r.sub
         /\ r.parent = IF post[r.replyTo].parent = 0 THEN r.replyTo ELSE post[r.replyTo].parent

(* lockAndValidatePostCreate: everything is checked again under the lock.  *)
MayCreate(r) ==
    Accessible(r.user) /\ SubLive(r.sub) /\ CanPost(r.user, r.sub) /\ CanReply(r)

MainFloors(s) == {p \in DOMAIN post : IsMainFloor(p) /\ post[p].sub = s}

(* Mutant of NextFloor: removed floors are not counted. *)
NextLiveFloor(s) == Max({0} \cup {post[p].floor : p \in {q \in MainFloors(s) : post[q].live}}) + 1

NextFloor(s) == Max({0} \cup {post[p].floor : p \in MainFloors(s)}) + 1

(* The post joins its author to the thread.  A request id that is taken    *)
(* rolls everything back (P2002).                                          *)
createPost(r) ==
    /\ InTransaction(r, "createPost")
    /\ LET taken == \E p \in DOMAIN post :
             r.key # NoKey /\ post[p].author = r.user /\ post[p].key = r.key
           published == thread.state = "published"
           floor == IF r.parent = 0 THEN NextFloor(r.sub) ELSE 0
       IN  \/ ~MayCreate(r) /\ Refuse(r)
           \/ MayCreate(r) /\ taken /\ Goto(r, "raced") /\ UNCHANGED contentVars
           \/ /\ MayCreate(r)
              /\ ~taken
              /\ role' = [role EXCEPT ![r.user] = IF @ = "NONE" THEN "PARTICIPANT" ELSE @]
              /\ AddPost(NewPost(r, "FLOOR", r.sub, floor, published), published)
              /\ Finish(r, "done", Len(post) + 1)
              /\ UNCHANGED <<thread, player, sub>>

(* After the rollback the earlier post is looked up once more; a request   *)
(* whose post is removed by then fails with the error of the database.     *)
createPostRaced(r) ==
    /\ r.op = "createPost"
    /\ pc[r] = "raced"
    /\ IF FoundByKey(r) # {} THEN AnswerRepeat(r) ELSE Finish(r, "error", 0)
    /\ UNCHANGED contentVars

-------------------------------------------------------------------------------
(* upsertBody *)

SightOfBody(s) ==
    [NoSight EXCEPT !.published = (thread.state = "published"),
                    !.body = BodyOf(s), !.bodyVersion = VersionOf(BodyOf(s))]

readUpsertBody(r) ==
    /\ r.op = "upsertBody"
    /\ Read(r, SubLive(r.sub) /\ CanManage(r.user), SightOfBody(r.sub))

(* There was no body: under the thread's lock only that is checked again;  *)
(* whether the thread is published was read before.                        *)
createBody(r) ==
    /\ InTransaction(r, "upsertBody")
    /\ seen[r].body = 0
    /\ \/ thread.state = "erased" /\ Break(r)
       \/ thread.state # "erased" /\ Bodies(r.sub) # {} /\ Refuse(r)
       \/ /\ thread.state # "erased"
          /\ Bodies(r.sub) = {}
          /\ AddPost(NewBody(r, r.sub, seen[r].published), seen[r].published)
          /\ Finish(r, "done", Len(post) + 1)
          /\ UNCHANGED <<thread, role, player, sub>>

(* An edit that was made on the version it replaces. *)
EditPost(r, p, version) ==
    \/ /\ ~(PostLive(p) /\ post[p].version = version)
       /\ Refuse(r)
    \/ /\ PostLive(p) /\ post[p].version = version
       /\ post' = [post EXCEPT ![p] = Edited(p, r, seen[r].published)]
       /\ Finish(r, "done", p)
       /\ UNCHANGED <<thread, role, player, sub, announced>>

(* There was a body: it is edited by version, without the thread's lock.   *)
editBody(r) ==
    /\ InTransaction(r, "upsertBody")
    /\ seen[r].body # 0
    /\ EditPost(r, seen[r].body, seen[r].bodyVersion)

-------------------------------------------------------------------------------
(* update *)

readUpdatePost(r) ==
    /\ r.op = "updatePost"
    /\ Read(r,
            /\ PostLive(r.post) /\ SubLive(post[r.post].sub) /\ ~ParentGone(r.post)
            /\ Accessible(r.user) /\ post[r.post].author = r.user,
            [NoSight EXCEPT !.published = (thread.state = "published"),
                            !.body = r.post, !.bodyVersion = VersionOf(r.post)])

updatePost(r) ==
    /\ InTransaction(r, "updatePost")
    /\ EditPost(r, r.post, seen[r].bodyVersion)

-------------------------------------------------------------------------------
(* remove *)

readRemovePost(r) ==
    /\ r.op = "removePost"
    /\ Read(r,
            /\ PostLive(r.post) /\ SubLive(post[r.post].sub) /\ ~ParentGone(r.post)
            /\ post[r.post].kind = "FLOOR"
            /\ post[r.post].author = r.user \/ CanManage(r.user),
            NoSight)

Removed(p) == [post[p] EXCEPT !.live = FALSE, !.pinned = FALSE]

removePost(r) ==
    /\ InTransaction(r, "removePost")
    /\ \/ ~PostLive(r.post) /\ Break(r)
       \/ /\ PostLive(r.post)
          /\ post' = [post EXCEPT ![r.post] = Removed(r.post)]
          /\ Finish(r, "done", r.post)
          /\ UNCHANGED <<thread, role, player, sub, announced>>

-------------------------------------------------------------------------------
(* pin, unpin *)

CanBePinned(p) == PostLive(p) /\ SubLive(post[p].sub)

readSetPinned(r) ==
    /\ r.op = "setPinned"
    /\ Read(r, CanBePinned(r.post) /\ CanManage(r.user) /\ IsMainFloor(r.post), NoSight)

Pinned(s) == {p \in MainFloors(s) : post[p].live /\ post[p].pinned}

setPinned(r) ==
    /\ InTransaction(r, "setPinned")
    /\ LET possible == thread.state \in {"draft", "published"} /\ CanBePinned(r.post)
           full == r.on /\ ~post[r.post].pinned /\ Cardinality(Pinned(post[r.post].sub)) >= MaxPinned
       IN  \/ ~possible /\ Refuse(r)
           \/ possible /\ full /\ Refuse(r)
           \/ /\ possible
              /\ ~full
              /\ post' = [post EXCEPT ![r.post].pinned = r.on]
              /\ Finish(r, "done", r.post)
              /\ UNCHANGED <<thread, role, player, sub, announced>>

PostSteps(r) ==
    \/ readCreatePost(r) \/ createPost(r) \/ createPostRaced(r)
    \/ readUpsertBody(r) \/ createBody(r) \/ editBody(r)
    \/ readUpdatePost(r) \/ updatePost(r)
    \/ readRemovePost(r) \/ removePost(r)
    \/ readSetPinned(r) \/ setPinned(r)

-------------------------------------------------------------------------------
(* posts_kind_shape_check: a main floor has a number, nothing else has     *)
(* one, and a body is nobody's reply.                                      *)
Shaped(x) ==
    IF x.kind = "BODY" THEN x.floor = 0 /\ x.parent = 0 /\ x.replyTo = 0
    ELSE x.floor # 0 <=> x.parent = 0

(* The foreign keys: a post to its subthread, a reply to a post of the     *)
(* same subthread that is nobody's reply, and on to the post it answers,   *)
(* which is that post or another reply to it.                              *)
Fits(x, subs, posts) ==
    /\ x.sub \in DOMAIN subs
    /\ x.parent # 0 =>
         x.parent \in DOMAIN posts /\ posts[x.parent].parent = 0 /\ posts[x.parent].sub = x.sub
    /\ x.replyTo # 0 =>
         /\ x.replyTo \in DOMAIN posts /\ posts[x.replyTo].sub = x.sub
         /\ x.parent \in {x.replyTo, posts[x.replyTo].parent}

Linked(subs, posts) == \A i \in DOMAIN posts : Shaped(posts[i]) /\ Fits(posts[i], subs, posts)

CountedUp(posts) ==
    \A i, j \in DOMAIN posts :
        MainFloor(posts[i]) /\ MainFloor(posts[j]) /\ posts[i].sub = posts[j].sub /\ i < j
            => posts[i].floor < posts[j].floor

SingleBodies(subs, posts) == \A s \in DOMAIN subs : Cardinality(BodiesIn(posts, s)) <= 1

(* The unique indexes of the request ids: of posts by their author, and of *)
(* the subthreads of the thread.                                           *)
SingleKeys(subs, posts) ==
    /\ \A i, j \in DOMAIN posts :
          /\ posts[i].author = posts[j].author
          /\ posts[i].key = posts[j].key
          /\ posts[i].key # NoKey
          => i = j
    /\ \A s, t \in DOMAIN subs : subs[s].key = subs[t].key /\ subs[s].key # NoKey => s = t

Ordered(subs) ==
    \A s, t \in DOMAIN subs : s # t /\ subs[s].live /\ subs[t].live => subs[s].order # subs[t].order

(* The owner is the owner, and players are members. *)
Peopled(members, players, owners) ==
    /\ members \in [Users -> Roles]
    /\ {u \in Users : members[u] = "OWNER"} = owners
    /\ \A u \in players : u \in Users /\ members[u] # "NONE"

(* Pins sit on live main floors of live subthreads of a thread that is     *)
(* there, at most MaxPinned in each subthread.                             *)
PinsFit(state, subs, posts) ==
    /\ \A p \in DOMAIN posts : posts[p].pinned =>
         /\ posts[p].live /\ subs[posts[p].sub].live /\ MainFloor(posts[p])
         /\ state \in {"draft", "published"}
    /\ \A s \in DOMAIN subs :
         Cardinality({p \in DOMAIN posts : posts[p].sub = s /\ posts[p].pinned}) <= MaxPinned

(* Nothing of a draft has been announced, and each floor of a published    *)
(* thread that readers can see has been, once.                             *)
NewsFit(state, subs, posts, news) ==
    \A p \in DOMAIN posts :
        /\ news[p] <= 1
        /\ state = "draft" => news[p] = 0
        /\ state = "published" /\ posts[p].kind = "FLOOR" /\ posts[p].live /\ subs[posts[p].sub].live
             => news[p] = 1

ASSUME PlotAssumption ==
    \A p \in Plots :
        /\ p.thread \in [state : {"draft", "published"}, private : BOOLEAN, version : Nat]
        /\ Peopled(p.role, p.player, {Owner})
        /\ p.sub \in Seq(SubthreadRows)
        /\ p.post \in Seq(PostRows)
        /\ p.announced \in Seq(Nat) /\ Len(p.announced) = Len(p.post)
        /\ Linked(p.sub, p.post)
        /\ CountedUp(p.post)
        /\ SingleBodies(p.sub, p.post)
        /\ SingleKeys(p.sub, p.post)
        /\ Ordered(p.sub)
        /\ PinsFit(p.thread.state, p.sub, p.post)
        /\ NewsFit(p.thread.state, p.sub, p.post, p.announced)
        /\ 1 \in DOMAIN p.sub /\ p.sub[1].live
        /\ p.requests \subseteq Commands
        /\ \A r \in p.requests : \A n, m \in r.order : n = m
        /\ \A u \in Users : {u} \notin p.blocks

Init ==
    /\ plot \in Plots
    /\ thread = plot.thread
    /\ role = plot.role
    /\ player = plot.player
    /\ sub = plot.sub
    /\ post = plot.post
    /\ announced = plot.announced
    /\ blocked = {}
    /\ pc = [r \in Requests |-> "new"]
    /\ seen = [r \in Requests |-> NoSight]
    /\ answer = [r \in Requests |-> 0]

(* UserRelationsService: a block, or its end, waits for the rows of both. *)
Held(pair) == \E q \in Locking : pair \cap LockedUsers(q) # {}

(* Mutant of block: it does not wait. *)
blockAtOnce(pair) ==
    /\ pair \in plot.blocks \ blocked
    /\ blocked' = blocked \cup {pair}
    /\ UNCHANGED <<plot, contentVars, requestVars>>

block(pair) ==
    /\ pair \in plot.blocks \ blocked
    /\ ~Held(pair)
    /\ blocked' = blocked \cup {pair}
    /\ UNCHANGED <<plot, contentVars, requestVars>>

unblock(pair) ==
    /\ pair \in blocked
    /\ ~Held(pair)
    /\ blocked' = blocked \ {pair}
    /\ UNCHANGED <<plot, contentVars, requestVars>>

Next ==
    \/ \E r \in Requests : Lock(r) \/ PostSteps(r) \/ SubthreadSteps(r) \/ ThreadSteps(r)
    \/ \E u, v \in Users : block({u, v}) \/ unblock({u, v})
    \/ cleanup

Spec == Init /\ [][Next]_vars

-------------------------------------------------------------------------------
(* What is stored has the shape the database constraints ask for: rows     *)
(* point to rows that exist, replies stay in their subthread and under     *)
(* their floor, a floor number is a main floor's, a body is no reply, a    *)
(* thread has its owner, players are members.                              *)
TypeOK ==
    /\ thread \in [state : States, private : BOOLEAN, version : Nat]
    /\ Peopled(role, player, IF thread.state = "erased" THEN {} ELSE {Owner})
    /\ sub \in Seq(SubthreadRows)
    /\ post \in Seq(PostRows)
    /\ announced \in Seq(Nat) /\ Len(announced) = Len(post)
    /\ Linked(sub, post)
    /\ pc \in [Requests -> {"new", "read", "locked", "raced"} \cup Outcomes]

(* The floors of a subthread are counted in the order in which they were   *)
(* posted, and a removed floor keeps its number: the unique index of       *)
(* (subthread, floor) never has to refuse anybody.                         *)
FloorsCountUp == CountedUp(post)

(* A subthread has one body at most, whichever of upsertBody, save and     *)
(* createSub make it at the same time; the partial unique index behind     *)
(* them never has to refuse anybody either.                                *)
OneBody == SingleBodies(sub, post)

(* A request id makes one post of its author and one subthread of the      *)
(* thread, however often and however close together it is sent.            *)
KeysAreSingle == SingleKeys(sub, post)

(* Live subthreads never share a sort order, and the default subthread is  *)
(* alive as long as the thread is.                                         *)
OrdersDistinct ==
    /\ Ordered(sub)
    /\ thread.state # "erased" => 1 \in LiveSubs

(* All of this at once is what the migration that hardened these tables    *)
(* looked for before it made constraints of it: no request ever fails      *)
(* because two others were served at the same time.                        *)
StructureHolds == TypeOK /\ FloorsCountUp /\ OneBody /\ KeysAreSingle /\ OrdersDistinct

(* What is pinned can be seen: pins sit on live main floors of live        *)
(* subthreads, at most MaxPinned of them, and none outlives its thread.    *)
PinnedIsVisible == PinsFit(thread.state, sub, post)

Created == {r \in Requests : r.op = "createPost" /\ pc[r] = "done"}
Answered == {r \in Requests : r.op = "createPost" /\ pc[r] # "done" /\ pc'[r] = "done"}

(* A client that repeats a request under its id is answered with the one   *)
(* post it made, and nobody is answered with another's or with a post that *)
(* is not, at that moment, what he asked for.                              *)
RepeatsAgree ==
    [][\A r \in Answered :
         LET p == post'[answer'[r]]
         IN  /\ p.author = r.user /\ p.key = r.key /\ p.sub = r.sub
             /\ p.parent = r.parent /\ p.replyTo = r.replyTo /\ p.text = r.text
             /\ \A q \in Created :
                  r.user = q.user /\ r.key = q.key /\ r.key # NoKey => answer'[r] = answer[q]]_vars

(* Readers of a published thread hear of each of its floors once, whether  *)
(* the floor was there when the thread was published or came later, and of *)
(* a draft nothing.                                                        *)
FloorsAnnouncedOnce == NewsFit(thread.state, sub, post, announced)

(* What readers of a thread see of its floors: pins on floors that are      *)
(* there, and each floor announced once.                                   *)
FloorsAreShown == PinnedIsVisible /\ FloorsAnnouncedOnce

NewFloors == {p \in DOMAIN post' \ DOMAIN post : post'[p].kind = "FLOOR"}

(* Whoever posts is welcome at the moment the post is committed: no block  *)
(* lies between him and the owner or the author he replies to, he may see  *)
(* the thread and post there, and subthread, parent and thread are alive.  *)
PostsAreWelcome ==
    [][\A p \in NewFloors :
         LET new == post'[p]
         IN  /\ Accessible(new.author) /\ SubLive(new.sub) /\ CanPost(new.author, new.sub)
             /\ new.parent # 0 =>
                  PostLive(new.parent) /\ {new.author, post[new.parent].author} \notin blocked]_vars

NewMembers == {u \in Users : role[u] = "NONE" /\ role'[u] # "NONE"}

(* Nobody gets into a thread past a block, and into a private one only by  *)
(* an invitation.                                                          *)
MembersAreWelcome ==
    [][\A u \in NewMembers :
         /\ {u, Owner} \notin blocked
         /\ thread.private => \E r \in Requests :
              r.op = "inviteJoin" /\ r.user = u /\ pc[r] = "locked" /\ pc'[r] = "done"]_vars

(* Blocks, privacy and policies hold when somebody comes in or speaks, not *)
(* only when his request was looked at.                                    *)
OnlyTheWelcomeEnter == PostsAreWelcome /\ MembersAreWelcome
===============================================================================
