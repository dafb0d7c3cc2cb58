----------------------------- MODULE Announcements -----------------------------
(***************************************************************************)
(* What is made from threads and posts after they are written: mentions    *)
(* and notifications, the recommended ranking in Redis, lists that are     *)
(* read page by page, and exported archives.  Threads and posts change     *)
(* here as far as their readers are concerned: a change is one step, under *)
(* the locks its transaction takes.                                        *)
(*                                                                         *)
(* Then MentionsService, the listeners of posts, threads and follows, and  *)
(* the delivery of notifications.  The outbox delivers an event at least   *)
(* once, in any order; a delivery reads, synchronizes the mentions, and    *)
(* sends notices one after another, each of which may fail.                *)
(***************************************************************************)
EXTENDS UserRelations, Integers, Sequences, FiniteSetsExt, SequencesExt

CONSTANTS
    Threads, Posts,
    Nobody,      \* no user
    Nowhere,     \* no post, no thread
    All,         \* ALL_PLAYERS_MENTION
    MaxDirect,   \* MAX_DIRECT_MENTIONS: 10
    MaxKeys,     \* keys of likes that a notice remembers: 100
    Chunk,       \* threads per page of a rebuild (100), ids per write to Redis (500)
    Ahead,       \* pages that a reader of the ranking looks ahead: 5
    MaxExport,   \* EXPORT_POST_LIMIT: 10000
    Handlers,    \* deliveries of events under way at a time
    Plots        \* bound: what there is at first, who does what, and how many faults happen

(* stamp: updatedAt.  Threads are numbered in the order of their creation. *)
ThreadRows == [owner : Users, published : BOOLEAN, live : BOOLEAN, private : BOOLEAN, stamp : Nat]
MemberRoles == {"NONE", "PARTICIPANT", "COLLABORATOR", "OWNER"}

(* up: neither the post nor its subthread is deleted; names: who is        *)
(* mentioned in the text.  Posts are numbered in the order of creation.    *)
PostRows ==
    [made : BOOLEAN, up : BOOLEAN, author : Users, thread : Threads, parent : Posts \cup {Nowhere},
     replyTo : Posts \cup {Nowhere}, names : SUBSET (Users \cup {All})]

MentionRows == Posts \X Users \X {"DIRECT", "ALL_PLAYERS"}

EventKinds == {"created", "edited", "published", "liked", "roleChanged", "followed"}

(* An event as the outbox delivers it: who did what, and what of it the    *)
(* event keeps: the names in the text, the author's role, whom it concerns. *)
EventRows ==
    [kind : EventKinds, state : {"pending", "handling", "done"}, holder : Handlers \cup {Nobody},
     by : Users, thread : Threads \cup {Nowhere}, post : Posts \cup {Nowhere},
     names : SUBSET (Users \cup {All}), role : MemberRoles, marked : BOOLEAN, to : SUBSET Users,
     public : BOOLEAN]

NoticeKinds == {"mention", "reply", "new_post", "thread_created", "like", "system", "follow"}

(* The eventKey of a notice without the recipient: of a post, a thread, or *)
(* of the event with that number.                                          *)
Keys == [what : STRING, post : Posts \cup {Nowhere}, event : Nat]

(* keys, count, likers: of likes that were told together. *)
NoticeRows ==
    [there : BOOLEAN, user : Users, kind : NoticeKinds, post : Posts \cup {Nowhere},
     thread : Threads \cup {Nowhere}, from : Users \cup {Nobody}, key : Keys, read : BOOLEAN,
     keys : Seq(Nat), count : Nat, likers : Seq(Users)]

(* discreet: whose list of threads played in, or whose replies, only they   *)
(* see themselves (showPlayerBadges, showRecentReplies).                   *)

(* rebuilds: bound; whether the ranking is rebuilt by the clock, or lost.   *)

(* n: a page size, or the number of a notice. *)
Commands ==
    [id : Nat, op : STRING, user : Users, thread : Threads, post : Posts \cup {Nowhere},
     target : Users, names : SUBSET (Users \cup {All}), n : Nat]

PlotFields == {"thread", "role", "player", "post", "follows", "subscribed", "ranked", "requests", "faults", "handlers",
               "discreet", "rebuilds"}

ASSUME ProjectionAssumption ==
    /\ MaxDirect \in Nat \ {0} /\ MaxKeys \in Nat \ {0} /\ Chunk \in Nat \ {0} /\ Ahead \in Nat \ {0}
    /\ MaxExport \in Nat
    /\ Nobody \notin Users \cup Handlers /\ All \notin Users /\ Nowhere \notin Posts \cup Threads
    /\ Threads \subseteq Nat /\ Posts \subseteq Nat /\ Threads \cap Posts = {}
    /\ \A p \in Plots : DOMAIN p = PlotFields

Requests == UNION {p.requests : p \in Plots}

VARIABLES
    plot,
    thread, role, player,    \* role[t][u], player[t]: members with player_marked
    post,
    subscribed,              \* <<user, thread, author>>; Nobody: what managers publish
    likes,                   \* <<thread, user>>
    mention,                 \* rows of post_mentions
    event,                   \* the outbox, in the order of the events
    worker,                  \* worker[h]: what a delivery has read, and the notices it still has to send
    notice,                  \* rows of notifications, in the order of their creation
    ranking,                 \* Redis: the ranking, the size it should have, and what a rebuild has staged
    rebuild,                 \* the rebuild that is under way
    views,                   \* how often threads were opened: in the database, in Redis, in cached details
    exporting,               \* ThreadExportService.exporting
    faults,                  \* bound: faults that are still to come
    disturbed,               \* history: events that a failure or a change has met on their way
    promised,                \* history: promised[e][u]: what u should hear of the event
    touched,                 \* history: threads and posts that have changed
    pc,                      \* pc[r]: new, where it is, or done, refused
    seen                     \* seen[r]: what r has read

threadVars == <<thread, role, player, post, subscribed, likes>>
noticeVars == <<mention, event, worker, notice, disturbed, promised>>
rankingVars == <<ranking, rebuild, views>>
requestVars == <<pc, seen>>
vars == <<plot, relationVars, threadVars, noticeVars, rankingVars, exporting, faults, touched, requestVars>>

Place(r, place) == pc' = [pc EXCEPT ![r] = place] /\ UNCHANGED plot
Done(r) == Place(r, "done") /\ UNCHANGED seen

Arrives(r, op) == r.op = op /\ r \in plot.requests /\ pc[r] = "new"
Stands(r, place) == r \in plot.requests /\ pc[r] = place

Fault == faults > 0 /\ faults' = faults - 1

-------------------------------------------------------------------------------
(* Who may read what *)

Member(u, t) == role[t][u] # "NONE"
Manages(u, t) == role[t][u] \in {"OWNER", "COLLABORATOR"}

(* accessibleThreadWhere and ThreadAccessService.assertAccessible *)
Accessible(u, t) ==
    /\ thread[t].live /\ ~Blocked(u, thread[t].owner)
    /\ IF thread[t].published THEN ~thread[t].private \/ Member(u, t) ELSE u = thread[t].owner

(* A post that is neither deleted itself nor with its floor. *)
Up(p) == post[p].made /\ post[p].up /\ (post[p].parent # Nowhere => post[post[p].parent].up)

Authors(p) == {post[p].author} \cup (IF post[p].parent = Nowhere THEN {} ELSE {post[post[p].parent].author})

(* visiblePostWhere *)
PostVisible(u, p) == Up(p) /\ \A v \in Authors(p) : ~Blocked(u, v)

PostsOf(t) == {p \in Posts : post[p].made /\ post[p].thread = t}

-------------------------------------------------------------------------------
NoEvent ==
    [kind |-> "created", state |-> "pending", holder |-> Nobody, by |-> CHOOSE u \in Users : TRUE,
     thread |-> Nowhere, post |-> Nowhere, names |-> {}, role |-> "NONE", marked |-> FALSE, to |-> {},
     public |-> FALSE]
AnEvent(kind, r) == [NoEvent EXCEPT !.kind = kind, !.by = r.user, !.thread = r.thread]

(* Events that are not delivered, or that somebody whose lease has run out  *)
(* still delivers.                                                         *)
Open ==
    {e \in DOMAIN event : event[e].state # "done" \/ \E h \in Handlers : worker[h].at # "idle" /\ worker[h].event = e}

(* What depends on these users, or on this thread. *)
OfUsers(S) ==
    {t \in Threads : thread[t].owner \in S}
    \cup {p \in Posts : Authors(p) \cap S # {} \/ thread[post[p].thread].owner \in S}
OfThread(t) == {t} \cup {p \in Posts : post[p].thread = t}

Touches(rows) == touched' = touched \cup rows /\ disturbed' = disturbed \cup Open
Emits(e) == event' = Append(event, e) /\ promised' = Append(promised, [u \in Users |-> "none"])
Quietly == UNCHANGED <<event, promised>>
KeepsRest == UNCHANGED <<worker, notice, rankingVars, exporting, faults>>

-------------------------------------------------------------------------------
(* Mentions *)

(* findMany does not order the users: the first ten are some ten. *)
Foremost(S) == IF Cardinality(S) <= MaxDirect THEN S ELSE CHOOSE D \in kSubset(MaxDirect, S) : TRUE

DirectUsers(names) == (names \cap Users) \ gone

(* filterDirectCandidates *)
DirectCandidates(names, a, t) ==
    {u \in DirectUsers(names) \ {a} :
        /\ ~Blocked(a, u)
        /\ IF thread[t].private THEN Member(u, t) ELSE <<a, u>> \in follows \/ u \in player[t]}

(* findCandidates: whom the editor offers. *)
Candidates(a, t) ==
    {u \in Users \ ({a} \cup gone) :
        /\ <<a, u>> \in follows \/ u \in player[t]
        /\ thread[t].private => Member(u, t)
        /\ ~Blocked(a, u)}

(* A group that is there already keeps its members, as far as no block     *)
(* stands between them and the author.                                     *)
GroupUsers(p, a, t, keeps) ==
    LET group == {m[2] : m \in {x \in mention : x[1] = p /\ x[3] = "ALL_PLAYERS"}}
    IN  {u \in IF keeps /\ group # {} THEN group ELSE player[t] \ gone : u # a /\ ~Blocked(a, u)}

Desired(p, names, a, t, keeps) ==
    {<<p, u, "DIRECT">> : u \in Foremost(DirectCandidates(names, a, t))}
    \cup (IF All \in names /\ Manages(a, t)
          THEN {<<p, u, "ALL_PLAYERS">> : u \in GroupUsers(p, a, t, keeps)} ELSE {})

(* syncMentionsInTransaction *)
SyncMentions(p, desired) == mention' = {m \in mention : m[1] # p} \cup desired

(* lockContentInteraction: with the locks of all whom the text concerns. *)
MayWrite(a, t, names, answers) ==
    /\ Accessible(a, t)
    /\ \A u \in DirectUsers(names) \cup {post[p].author : p \in answers} : ~Blocked(a, u)

-------------------------------------------------------------------------------
(* What is written, and the events it leaves in the outbox *)

ReplyTarget(p) ==
    IF post[p].parent = Nowhere THEN Nobody
    ELSE post[IF post[p].replyTo = Nowhere THEN post[p].parent ELSE post[p].replyTo].author

(* Who should hear of post p, and how: named in it, before answered by it,  *)
(* before managing the thread or following it.  Stated without the steps   *)
(* of the listener, for the time at which the post is written.             *)
Promise(p) ==
    LET a == post[p].author  t == post[p].thread
        Named(u) == \/ u \in Foremost(DirectCandidates(post[p].names, a, t))
                    \/ All \in post[p].names /\ Manages(a, t) /\ u \in player[t] \ gone
        Answered(u) == u = IF post[p].parent = Nowhere THEN thread[t].owner ELSE ReplyTarget(p)
        Follows(u) == \/ Manages(u, t)
                      \/ <<u, t, Nobody>> \in subscribed /\ Manages(a, t)
                      \/ <<u, t, a>> \in subscribed /\ role[t][a] = "PARTICIPANT" /\ a \in player[t]
        Reads(u) == /\ u # a /\ Accessible(u, t) /\ ~Blocked(u, a)
                    /\ post[p].parent # Nowhere => ~Blocked(u, post[post[p].parent].author)
    IN  [u \in Users |-> IF ~Reads(u) THEN "none" ELSE IF Named(u) THEN "mention"
                         ELSE IF Answered(u) THEN "reply" ELSE IF Follows(u) THEN "new_post" ELSE "none"]

CreatedEvent(r) ==
    LET p == post[r.post]
    IN  [AnEvent("created", r) EXCEPT
            !.post = r.post, !.thread = p.thread, !.names = p.names,
            !.role = IF Member(r.user, p.thread) THEN role[p.thread][r.user] ELSE "PARTICIPANT",
            !.marked = r.user \in player[p.thread],
            !.to = {ReplyTarget(r.post)} \cap Users]

(* PostsService.create: the author joins, the thread becomes the latest;   *)
(* the mentions are left to the event, and a draft has none.               *)
createPost(r) ==
    /\ Arrives(r, "create")
    /\ LET p == r.post  t == post[p].thread
           answers == {post[p].parent, post[p].replyTo} \ {Nowhere}
           possible == /\ MayWrite(r.user, t, post[p].names, answers)
                       /\ \A q \in answers : Up(q)
       IN  \/ ~possible /\ Place(r, "refused") /\ UNCHANGED <<seen, relationVars, threadVars, noticeVars, touched>>
           \/ /\ possible
              /\ post' = [post EXCEPT ![p].made = TRUE]
              /\ thread' = [thread EXCEPT ![t].stamp = Max({thread[x].stamp : x \in Threads}) + 1]
              /\ touched' = touched \cup {p, t}
              /\ IF thread[t].published
                 THEN event' = Append(event, CreatedEvent(r)) /\ promised' = Append(promised, Promise(p))
                 ELSE Quietly
              /\ role' = IF Member(r.user, t) THEN role ELSE [role EXCEPT ![t][r.user] = "PARTICIPANT"]
              /\ Done(r)
              /\ UNCHANGED <<relationVars, player, subscribed, likes, mention, worker, notice, disturbed>>
    /\ UNCHANGED <<worker, notice, rankingVars, exporting, faults>>

(* PostsService.update with PostMentionEventsService: the mentions follow  *)
(* the text at once; the event names those who are new.                    *)
editPost(r) ==
    /\ Arrives(r, "edit")
    /\ LET p == r.post  t == post[p].thread
           possible == /\ Up(p) /\ post[p].author = r.user /\ r.names # post[p].names
                       /\ MayWrite(r.user, t, r.names, {})
           desired == Desired(p, r.names, r.user, t, All \in post[p].names)
           added == {m[2] : m \in desired \ mention}
           told == {e \in DOMAIN event : event[e].kind = "created" /\ event[e].post = p}
       IN  \/ ~possible /\ Place(r, "refused") /\ UNCHANGED <<seen, relationVars, threadVars, noticeVars, touched>>
           \/ /\ possible
              /\ post' = [post EXCEPT ![p].names = r.names]
              /\ SyncMentions(p, desired)
              /\ touched' = touched \cup {p} /\ disturbed' = disturbed \cup told
              /\ IF added = {} THEN Quietly
                 ELSE Emits([AnEvent("edited", r) EXCEPT !.post = p, !.thread = t, !.to = added])
              /\ Done(r)
              /\ UNCHANGED <<relationVars, thread, role, player, subscribed, likes, worker, notice>>
    /\ UNCHANGED <<worker, notice, rankingVars, exporting, faults>>

(* ThreadsService.publish *)
publish(r) ==
    /\ Arrives(r, "publish")
    /\ r.user = thread[r.thread].owner /\ thread[r.thread].live /\ ~thread[r.thread].published
    /\ thread' = [thread EXCEPT ![r.thread].published = TRUE]
    /\ Touches(OfThread(r.thread))
    /\ Emits([AnEvent("published", r) EXCEPT !.public = ~thread[r.thread].private])
    /\ Done(r)
    /\ UNCHANGED <<relationVars, role, player, post, subscribed, likes, mention>> /\ KeepsRest

(* ThreadReactionService.like and unlike *)
likeThread(r) ==
    /\ Arrives(r, "like")
    /\ Accessible(r.user, r.thread) /\ <<r.thread, r.user>> \notin likes
    /\ likes' = likes \cup {<<r.thread, r.user>>}
    /\ Emits([AnEvent("liked", r) EXCEPT !.to = {thread[r.thread].owner}])
    /\ Done(r)
    /\ UNCHANGED <<relationVars, thread, role, player, post, subscribed, mention, touched, disturbed>> /\ KeepsRest

unlikeThread(r) ==
    /\ Arrives(r, "unlike")
    /\ <<r.thread, r.user>> \in likes
    /\ likes' = likes \ {<<r.thread, r.user>>}
    /\ Quietly /\ Done(r)
    /\ UNCHANGED <<relationVars, thread, role, player, post, subscribed, mention, touched, disturbed>> /\ KeepsRest

relate(r) ==
    /\ Arrives(r, r.op)
    /\ \/ /\ r.op = "follow" /\ follow(r.user, r.target)
          /\ Emits([AnEvent("followed", r) EXCEPT !.thread = Nowhere, !.to = {r.target}])
       \/ r.op = "unfollow" /\ unfollow(r.user, r.target) /\ Quietly
       \/ r.op = "block" /\ block(r.user, r.target) /\ Quietly
       \/ r.op = "unblock" /\ unblock(r.user, r.target) /\ Quietly
       \/ r.op = "deactivate" /\ deactivate(r.user) /\ Quietly
    /\ Touches(OfUsers({r.user, r.target}))
    /\ Done(r)
    /\ UNCHANGED <<threadVars, mention>> /\ KeepsRest

MayArrange(r) ==
    IF r.op = "exit" THEN r.target = r.user
    ELSE /\ Accessible(r.user, r.thread) /\ Manages(r.user, r.thread) /\ ~Blocked(r.user, r.target)
         /\ r.op \in {"promote", "demote"} => role[r.thread][r.user] = "OWNER"

(* ThreadMembersService and ThreadsService.update: roles, players, players *)
(* who leave (and stay members), and a thread that is closed to others.    *)
(* Who becomes a manager, or is no player any more, loses subscriptions.   *)
arrange(r) ==
    /\ Arrives(r, r.op) /\ MayArrange(r)
    /\ LET t == r.thread  u == r.target
           Becomes(new) == role' = [role EXCEPT ![t][u] = new]
           Told == Emits([AnEvent("roleChanged", r) EXCEPT !.to = {u}])
           To(x) == {s \in subscribed : s[2] = t /\ s[3] = x}
           By(x) == {s \in subscribed : s[2] = t /\ s[1] = x}
           ordinary == role[t][u] \in {"PARTICIPANT", "COLLABORATOR"}
       IN  /\ \/ /\ r.op = "promote" /\ role[t][u] = "PARTICIPANT" /\ Becomes("COLLABORATOR") /\ Told
                 /\ subscribed' = subscribed \ (To(u) \cup By(u)) /\ UNCHANGED <<thread, player>>
              \/ /\ r.op = "demote" /\ role[t][u] = "COLLABORATOR" /\ Becomes("PARTICIPANT") /\ Told
                 /\ UNCHANGED <<thread, player, subscribed>>
              \/ /\ r.op = "mark" /\ ordinary
                 /\ player' = [player EXCEPT ![t] = @ \cup {u}] /\ Quietly /\ UNCHANGED <<thread, role, subscribed>>
              \/ /\ r.op \in {"unmark", "exit"} /\ ordinary
                 /\ player' = [player EXCEPT ![t] = @ \ {u}] /\ Quietly
                 /\ subscribed' = subscribed \ To(u) /\ UNCHANGED <<thread, role>>
              \/ /\ r.op = "close" /\ ~thread[t].private
                 /\ thread' = [thread EXCEPT ![t].private = TRUE] /\ Quietly /\ UNCHANGED <<role, player, subscribed>>
           /\ Touches(OfThread(t))
    /\ Done(r)
    /\ UNCHANGED <<relationVars, post, likes, mention>> /\ KeepsRest

-------------------------------------------------------------------------------
(* The delivery of an event *)

Idle ==
    [at |-> "idle", event |-> 0, blocked |-> {}, managers |-> {}, subscribers |-> {}, told |-> {}, jobs |-> <<>>,
     to |-> {}, rows |-> <<>>, tries |-> 0, failed |-> FALSE]
Job(kind, to, what, e, p) == [kind |-> kind, to |-> to, key |-> [what |-> what, post |-> p, event |-> e]]

Ours(h) == event[worker[h].event]
Sets(h, new) == worker' = [worker EXCEPT ![h] = new]
Delivers == UNCHANGED <<plot, relationVars, threadVars, promised, rankingVars, exporting, touched, requestVars>>

takeEvent(h) ==
    /\ worker[h].at = "idle"
    /\ \E e \in DOMAIN event :
         /\ event[e].state = "pending"
         /\ event' = [event EXCEPT ![e].state = "handling", ![e].holder = h]
         /\ Sets(h, [Idle EXCEPT !.at = IF event[e].kind = "created" THEN "check" ELSE "gather", !.event = e])
    /\ UNCHANGED <<mention, notice, disturbed, faults>> /\ Delivers

(* handlePostCreated: a post that its author does not see any more is not  *)
(* announced.                                                              *)
checkSource(h) ==
    /\ worker[h].at = "check"
    /\ LET stands == PostVisible(Ours(h).by, Ours(h).post) /\ Accessible(Ours(h).by, Ours(h).thread)
       IN  Sets(h, [worker[h] EXCEPT !.at = IF stands THEN "gather" ELSE "send"])
    /\ UNCHANGED <<mention, event, notice, disturbed, faults>> /\ Delivers

Managers(t) == {u \in Users : Manages(u, t)}

(* findSubscribers, with the author's role at the time of the post. *)
Subscribers(e) ==
    {s[1] : s \in {x \in subscribed :
        /\ x[2] = e.thread /\ x[1] # e.by
        /\ \/ x[3] = Nobody /\ e.role \in {"OWNER", "COLLABORATOR"}
           \/ x[3] = e.by /\ e.role = "PARTICIPANT" /\ e.marked}}

(* Blocks, managers and subscribers, and whom the other listeners tell. *)
gather(h) ==
    /\ worker[h].at = "gather"
    /\ LET e == Ours(h)  n == worker[h].event
           blocked == {u \in Users : Blocked(u, e.by)}
           followers == {f[1] : f \in {x \in follows : x[2] = e.by}}
           jobs == CASE e.kind = "edited" -> <<Job("mention", e.to \ {e.by}, "mention", 0, e.post)>>
                     [] e.kind = "published" ->
                            <<Job("thread_created", IF e.public THEN followers \ blocked ELSE {}, "thread", e.thread, Nowhere)>>
                     [] e.kind = "liked" -> <<Job("like", e.to \ (blocked \cup {e.by}), "like", n, Nowhere)>>
                     [] e.kind = "roleChanged" -> <<Job("system", e.to, "role", n, Nowhere)>>
                     [] e.kind = "followed" -> <<Job("follow", e.to \ blocked, "follow", n, Nowhere)>>
                     [] OTHER -> <<>>
       IN  Sets(h, [worker[h] EXCEPT !.at = IF e.kind = "created" THEN "mention" ELSE "send", !.blocked = blocked,
                                     !.managers = IF e.kind = "created" THEN Managers(e.thread) ELSE {},
                                     !.subscribers = IF e.kind = "created" THEN Subscribers(e) ELSE {},
                                     !.jobs = jobs])
    /\ UNCHANGED <<mention, event, notice, disturbed, faults>> /\ Delivers

(* The notices of a post in the order they are sent; who is told in one    *)
(* way is not told in a later one.                                         *)
Notices(e, w, told) ==
    LET owner == thread[e.thread].owner
        answered == IF post[e.post].parent = Nowhere THEN {owner} \ {e.by} ELSE e.to \ {e.by}
        others == ((w.managers \cup w.subscribers) \ {e.by}) \ (answered \cup told)
        mentions == Job("mention", told, "mention", 0, e.post)
        answers == Job("reply", answered \ (told \cup w.blocked), "reply", 0, e.post)
        updates == Job("new_post", others \ w.blocked, "new-post", 0, e.post)
    IN  IF post[e.post].parent = Nowhere THEN <<mentions, updates, answers>> ELSE <<mentions, answers, updates>>

(* parseAndCreate: with the text that the event keeps; the whole set comes *)
(* back, however often it is asked.  When it fails, the rest is sent as if *)
(* nobody were named.                                                      *)
createMentions(h) ==
    /\ worker[h].at = "mention"
    /\ LET e == Ours(h)  w == worker[h]
           desired == Desired(e.post, e.names, e.by, e.thread, TRUE)
           told == {m[2] : m \in desired} \ w.blocked
           Fails == /\ Sets(h, [w EXCEPT !.at = "send", !.jobs = Notices(e, w, {}), !.failed = TRUE])
                    /\ disturbed' = disturbed \cup {w.event} /\ UNCHANGED mention
       IN  \/ Accessible(e.by, e.thread) /\ SyncMentions(e.post, desired) /\ UNCHANGED <<disturbed, faults>>
              /\ Sets(h, [w EXCEPT !.at = "send", !.told = told, !.jobs = Notices(e, w, told)])
           \/ ~Accessible(e.by, e.thread) /\ Fails /\ UNCHANGED faults
           \/ Accessible(e.by, e.thread) /\ Fails /\ Fault
    /\ UNCHANGED <<event, notice>> /\ Delivers

(* NotificationEligibilityService.filterRecipients, with                   *)
(* ThreadAccessService.filterAccessibleUserIds.                            *)
MayHear(u, t) ==
    /\ thread[t].live
    /\ IF ~thread[t].published THEN u = thread[t].owner
       ELSE ~Blocked(u, thread[t].owner) /\ (~thread[t].private \/ Member(u, t))

Eligible(e, to) ==
    {u \in to :
        /\ ~Blocked(u, e.by)
        /\ IF e.post # Nowhere THEN PostVisible(u, e.post) /\ MayHear(u, post[e.post].thread)
           ELSE e.thread # Nowhere => MayHear(u, e.thread)}

filterRecipients(h) ==
    /\ worker[h].at = "send" /\ worker[h].jobs # <<>>
    /\ LET job == Head(worker[h].jobs)  to == Eligible(Ours(h), job.to)
       IN  Sets(h, IF to = {} THEN [worker[h] EXCEPT !.jobs = Tail(@)]
                   ELSE [worker[h] EXCEPT !.to = to, !.at = IF job.kind = "like" THEN "count" ELSE "store"])
    /\ UNCHANGED <<mention, event, notice, disturbed, faults>> /\ Delivers

NewNotice(e, job, u, keys) ==
    [there |-> TRUE, user |-> u, kind |-> job.kind, post |-> e.post, thread |-> e.thread, from |-> e.by,
     key |-> job.key, read |-> FALSE, keys |-> keys, count |-> Len(keys),
     likers |-> IF job.kind = "like" THEN <<e.by>> ELSE <<>>]
Sent(h) == [worker[h] EXCEPT !.at = "send", !.jobs = Tail(@), !.to = {}, !.rows = <<>>, !.tries = 0]

(* Mutant of Has: a notice that is read does not count. *)
HasUnread(u, key) ==
    \E n \in DOMAIN notice : notice[n].there /\ ~notice[n].read /\ notice[n].user = u /\ notice[n].key = key

Has(u, key) == \E n \in DOMAIN notice : notice[n].there /\ notice[n].user = u /\ notice[n].key = key

(* createNotifications: a recipient and an eventKey make one row. *)
createNotifications(h) ==
    /\ worker[h].at = "store"
    /\ LET job == Head(worker[h].jobs)
           new == {u \in worker[h].to : ~Has(u, job.key)}
       IN  notice' = notice \o SetToSeq({NewNotice(Ours(h), job, u, <<>>) : u \in new})
    /\ Sets(h, Sent(h))
    /\ UNCHANGED <<mention, event, disturbed, faults>> /\ Delivers

LikeRows(u, t) ==
    LET rows == {n \in DOMAIN notice : notice[n].there /\ notice[n].kind = "like" /\ notice[n].user = u /\ notice[n].thread = t}
    IN  [n \in rows |-> notice[n]]

(* aggregateLikeForUser: a serializable transaction, tried three times. *)
readLikes(h) ==
    /\ worker[h].at = "count"
    /\ Sets(h, [worker[h] EXCEPT !.at = "add", !.rows = LikeRows(CHOOSE u \in worker[h].to : TRUE, Ours(h).thread)])
    /\ UNCHANGED <<mention, event, notice, disturbed, faults>> /\ Delivers

Latest(s, k) == SubSeq(s, Max({1, Len(s) - k + 1}), Len(s))

WithLike(row, n, by) ==
    [row EXCEPT !.keys = Latest(Append(@, n), MaxKeys), !.count = @ + 1, !.from = by,
                !.likers = IF by \in ToSet(@) THEN @ ELSE Latest(Append(@, by), 3)]

GivesUp(h) ==
    /\ Sets(h, [Sent(h) EXCEPT !.failed = TRUE])
    /\ disturbed' = disturbed \cup {worker[h].event}

addLike(h) ==
    /\ worker[h].at = "add"
    /\ LET w == worker[h]  e == Ours(h)  u == CHOOSE v \in w.to : TRUE
           now == LikeRows(u, e.thread)
           told == \E n \in DOMAIN w.rows : w.event \in ToSet(w.rows[n].keys)
           unread == {n \in DOMAIN w.rows : ~w.rows[n].read}
           Another == \/ \E n \in DOMAIN now : n \notin DOMAIN w.rows
                      \/ \E n \in DOMAIN now \cap DOMAIN w.rows : now[n].keys # w.rows[n].keys
           Changed(n) == n \notin DOMAIN now \/ now[n] # w.rows[n]
           Conflict == Another \/ \E n \in unread : Changed(n)
       IN  \/ told /\ Sets(h, Sent(h)) /\ UNCHANGED <<notice, disturbed>>
           \/ /\ ~told /\ Conflict
              /\ IF w.tries < 2 THEN Sets(h, [w EXCEPT !.at = "count", !.tries = @ + 1]) /\ UNCHANGED disturbed
                 ELSE GivesUp(h)
              /\ UNCHANGED notice
           \/ /\ ~told /\ ~Conflict
              /\ IF unread = {} THEN notice' = Append(notice, NewNotice(e, Head(w.jobs), u, <<w.event>>))
                 ELSE \E n \in unread : notice' = [notice EXCEPT ![n] = WithLike(@, w.event, e.by)]
              /\ Sets(h, Sent(h)) /\ UNCHANGED disturbed
    /\ UNCHANGED <<mention, event, faults>> /\ Delivers

(* One notice fails, the others are still sent, and the event comes back. *)
sendFails(h) ==
    /\ worker[h].at \in {"store", "count", "add"}
    /\ Fault /\ GivesUp(h)
    /\ UNCHANGED <<mention, event, notice>> /\ Delivers

(* Who has lost the lease changes nothing. *)
finish(h) ==
    /\ worker[h].at = "send" /\ worker[h].jobs = <<>>
    /\ LET n == worker[h].event
       IN  event' = IF event[n].holder # h THEN event
                    ELSE [event EXCEPT ![n].holder = Nobody,
                                       ![n].state = IF worker[h].failed THEN "pending" ELSE "done"]
    /\ Sets(h, Idle)
    /\ UNCHANGED <<mention, notice, disturbed, faults>> /\ Delivers

Released(n, h) == [event EXCEPT ![n].state = "pending", ![n].holder = Nobody]

(* The server stops, or the lease runs out while the delivery goes on. *)
crash(h) ==
    /\ worker[h].at # "idle" /\ Ours(h).holder = h
    /\ Fault
    /\ event' = Released(worker[h].event, h)
    /\ worker' = [worker EXCEPT ![h] = Idle] \/ UNCHANGED worker
    /\ UNCHANGED <<mention, notice, disturbed>> /\ Delivers

Writing(r) ==
    \/ createPost(r) \/ editPost(r) \/ publish(r) \/ likeThread(r) \/ unlikeThread(r) \/ relate(r) \/ arrange(r)
Delivering(h) ==
    \/ takeEvent(h) \/ checkSource(h) \/ gather(h) \/ createMentions(h) \/ filterRecipients(h)
    \/ createNotifications(h) \/ readLikes(h) \/ addLike(h) \/ sendFails(h) \/ finish(h)
===============================================================================
