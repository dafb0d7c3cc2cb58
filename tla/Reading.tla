------------------------------- MODULE Reading --------------------------------
(***************************************************************************)
(* NotificationsService: what a member sees of the notices, which of them    *)
(* still lead somewhere, and which count as unread; ThreadRankingService     *)
(* with its key in Redis, the lists that are read page by page               *)
(* (ThreadQueryService, PostQueryService, SearchService), and                *)
(* ThreadExportService.                                                      *)
(***************************************************************************)
EXTENDS Announcements, Markup

NoticesOf(u) == {n \in DOMAIN notice : notice[n].there /\ notice[n].user = u}

(* Whose block hides a notice: who did it, whose thread and post it is, and *)
(* all whose names a notice of likes shows.                                *)
Concerned(n) ==
    {notice[n].from} \cup ToSet(notice[n].likers)
    \cup (IF notice[n].thread = Nowhere THEN {} ELSE {thread[notice[n].thread].owner})
    \cup (IF notice[n].post = Nowhere THEN {} ELSE Authors(notice[n].post))

MayKnow(u, t) == IF thread[t].published THEN ~thread[t].private \/ Member(u, t) ELSE u = thread[t].owner

(* historyWhere: what is deleted stays, what is private goes. *)
Shown(u) ==
    {n \in NoticesOf(u) :
        /\ \A v \in Concerned(n) : ~Blocked(u, v)
        /\ notice[n].thread # Nowhere => MayKnow(u, notice[n].thread)}

Reachable(n) ==
    IF notice[n].post # Nowhere THEN Up(notice[n].post) /\ thread[notice[n].thread].live
    ELSE notice[n].thread # Nowhere /\ thread[notice[n].thread].live

(* notificationTargetState *)
TargetState(n) ==
    IF notice[n].post # Nowhere \/ notice[n].thread # Nowhere
    THEN IF Reachable(n) THEN "ACTIVE" ELSE "CONTENT_DELETED"
    ELSE IF notice[n].kind = "follow" THEN IF notice[n].from \in gone THEN "USER_DEACTIVATED" ELSE "ACTIVE"
    ELSE IF notice[n].kind = "system" THEN "NO_TARGET" ELSE "CONTENT_DELETED"

(* unreadEligibleWhere, a condition of its own on the same tables. *)
UnreadEligible(u) ==
    {n \in Shown(u) :
        \/ notice[n].post # Nowhere /\ Up(notice[n].post) /\ thread[notice[n].thread].live
        \/ notice[n].post = Nowhere /\ notice[n].thread # Nowhere /\ thread[notice[n].thread].live
        \/ notice[n].thread = Nowhere /\ notice[n].kind = "follow" /\ notice[n].from \notin gone
        \/ notice[n].thread = Nowhere /\ notice[n].kind = "system"}

UnreadCount(u) == Cardinality({n \in UnreadEligible(u) : ~notice[n].read})

-------------------------------------------------------------------------------
AtInbox == UNCHANGED <<relationVars, threadVars, mention, event, worker, disturbed, promised, rankingVars,
                       exporting, faults, touched>>
MarkedAs(rows, read) == [n \in DOMAIN notice |-> IF n \in rows THEN [notice[n] EXCEPT !.read = read] ELSE notice[n]]

(* findAll: what leads nowhere is shown as read, and marked after that. *)
listNotices(r) ==
    /\ Arrives(r, "list")
    /\ LET stale == {n \in Shown(r.user) : TargetState(n) \in {"CONTENT_DELETED", "USER_DEACTIVATED"} /\ ~notice[n].read}
       IN  seen' = [seen EXCEPT ![r].rows = stale]
    /\ Place(r, "mark")
    /\ UNCHANGED notice /\ AtInbox

markStale(r) ==
    /\ Stands(r, "mark")
    /\ notice' = MarkedAs(seen[r].rows, TRUE)
    /\ Done(r) /\ AtInbox

(* setReadStatus, markAllAsRead and remove *)
setRead(r) ==
    /\ r.op \in {"read", "unread", "readAll", "remove"} /\ Arrives(r, r.op)
    /\ notice' = CASE r.op = "read" -> MarkedAs(Shown(r.user) \cap {r.n}, TRUE)
                   [] r.op = "unread" -> MarkedAs(UnreadEligible(r.user) \cap {r.n}, FALSE)
                   [] r.op = "readAll" -> MarkedAs(Shown(r.user), TRUE)
                   [] OTHER -> [n \in DOMAIN notice |->
                                  IF n \in NoticesOf(r.user) \cap {r.n} THEN [notice[n] EXCEPT !.there = FALSE] ELSE notice[n]]
    /\ Done(r) /\ AtInbox

-------------------------------------------------------------------------------
(* Content is removed, and comes back *)

(* markNotificationsReadForHiddenContent, in the transaction of every removal. *)
OfRemoved(t, p) ==
    {n \in DOMAIN notice : IF p = Nowhere THEN notice[n].thread = t
                           ELSE notice[n].post # Nowhere /\ (notice[n].post = p \/ post[notice[n].post].parent = p)}

(* By moderation, or by the author or a manager of the thread. *)
changePost(r) ==
    /\ r.op \in {"hidePost", "removePost", "restorePost"} /\ Arrives(r, r.op)
    /\ LET p == r.post  back == r.op = "restorePost"
       IN  /\ post[p].made /\ post[p].up # back
           /\ r.op = "removePost" => Up(p) /\ (r.user = post[p].author
                                               \/ (Accessible(r.user, post[p].thread) /\ Manages(r.user, post[p].thread)))
           /\ post' = [post EXCEPT ![p].up = back]
           /\ notice' = IF back THEN notice ELSE MarkedAs(OfRemoved(Nowhere, p), TRUE)
           /\ Touches({q \in Posts : q = p \/ post[q].parent = p})
    /\ Quietly /\ Done(r)
    /\ UNCHANGED <<relationVars, thread, role, player, subscribed, likes, mention, worker, rankingVars, exporting, faults>>

(* A thread that goes is taken out of the ranking afterwards; one that     *)
(* comes back is left to the next rebuild.                                 *)
changeThread(r) ==
    /\ r.op \in {"hideThread", "removeThread", "restoreThread"} /\ Arrives(r, r.op)
    /\ LET t == r.thread  back == r.op = "restoreThread"
       IN  /\ thread[t].live # back
           /\ r.op = "removeThread" => r.user = thread[t].owner
           /\ thread' = [thread EXCEPT ![t].live = back]
           /\ notice' = IF back THEN notice ELSE MarkedAs(OfRemoved(t, Nowhere), TRUE)
           /\ Touches(OfThread(t))
           /\ Place(r, IF back THEN "done" ELSE "unrank")
    /\ Quietly /\ UNCHANGED seen
    /\ UNCHANGED <<relationVars, role, player, post, subscribed, likes, mention, worker, rankingVars, exporting, faults>>

InboxActions(r) == listNotices(r) \/ markStale(r) \/ setRead(r) \/ changePost(r) \/ changeThread(r)

-------------------------------------------------------------------------------
AtReading == UNCHANGED <<relationVars, threadVars, noticeVars, touched>>

-------------------------------------------------------------------------------
(* The ranking: list, from the first to the last; ready, the size it       *)
(* should have (-1: the key has expired); staged, the key that a rebuild    *)
(* fills; turn counts the changes of the list; lost: a thread at which a    *)
(* page of the rebuild ended had changed by the next page.                 *)

Unbuilt == [at |-> "idle", rows |-> <<>>, cursor |-> 0, wrote |-> 0, ids |-> <<>>, lost |-> FALSE]

(* Stands for the score, a sum of logarithms of what a thread's posts       *)
(* contribute: more posts, a higher score; then the later thread.          *)
Weight(t) == Cardinality({p \in PostsOf(t) : Up(p)})
Before(a, b) == a[2] > b[2] \/ (a[2] = b[2] /\ a[1] > b[1])

(* S as a sequence: each element where as many as come before it. *)
InOrder(S, Earlier(_, _)) ==
    [n \in 1..Cardinality(S) |-> CHOOSE x \in S : Cardinality({y \in S : Earlier(y, x)}) = n - 1]

Ranked(rows) == LET s == InOrder(ToSet(rows), Before) IN [i \in DOMAIN s |-> s[i][1]]

Rankable == {t \in Threads : thread[t].published /\ thread[t].live}
SmallerFirst(a, b) == a < b
LargerFirst(a, b) == a > b

(* A page after a cursor, as the database finds it: from the place of the  *)
(* cursor on, without the first row.                                       *)
From(rows, cursor, Earlier(_, _)) ==
    IF cursor = 0 THEN rows
    ELSE SubSeq(rows, Cardinality({i \in DOMAIN rows : Earlier(rows[i], cursor)}) + 2, Len(rows))
First(rows, n) == SubSeq(rows, 1, Min({n, Len(rows)}))

Restarted == [Unbuilt EXCEPT !.at = "scan"]

(* The size is there, and it is that of the ranking. *)
Whole == ranking.ready # -1 /\ Len(ranking.list) = ranking.ready

(* History: the ranking, and what had changed, when the reader started. *)
Starts(s, turn) == IF s.turn # 0 THEN s ELSE [s EXCEPT !.turn = turn, !.rows = touched \cap Threads]
Strays(s) == s.lost \/ s.turn # ranking.turn \/ ranking.lost \/ ~Whole \/ touched \cap Threads # s.rows

(* Mutant of RebuildEnds: a failure is not told to those who wait. *)
RebuildEndsAlone(ok) ==
    /\ pc' = [r \in DOMAIN pc |-> IF pc[r] # "wait" \/ ~ok THEN pc[r] ELSE "measure"]
    /\ seen' = [r \in DOMAIN pc |-> IF pc[r] = "wait" THEN Starts(seen[r], ranking.turn + 1) ELSE seen[r]]
    /\ rebuild' = Unbuilt
    /\ UNCHANGED plot

(* Readers who wait for the rebuild go on when it ends, or fail with it. *)
RebuildEnds(ok) ==
    /\ pc' = [r \in DOMAIN pc |-> IF pc[r] # "wait" THEN pc[r] ELSE IF ok THEN "measure" ELSE "refused"]
    /\ seen' = [r \in DOMAIN pc |-> IF pc[r] = "wait" THEN Starts(seen[r], ranking.turn + 1) ELSE seen[r]]
    /\ rebuild' = Unbuilt
    /\ UNCHANGED plot

(* Every ten minutes. *)
recalcSmartScores ==
    /\ rebuild.at = "idle" /\ Fault
    /\ rebuild' = Restarted
    /\ UNCHANGED <<plot, ranking, views, exporting, requestVars>> /\ AtReading

(* A page of threads, and what their posts weigh.  The database is brought *)
(* up to what Redis has counted, and Redis to what the database knows.     *)
scanThreads ==
    /\ rebuild.at = "scan"
    /\ LET all == InOrder(Rankable, SmallerFirst)
           page == First(From(all, rebuild.cursor, SmallerFirst), Chunk)
           rows == rebuild.rows \o [i \in DOMAIN page |-> <<page[i], Weight(page[i])>>]
       IN  /\ rebuild' = IF Len(page) < Chunk
                      THEN [rebuild EXCEPT !.at = "stage", !.rows = <<>>, !.ids = Ranked(rows),
                                           !.lost = @ \/ rebuild.cursor \in touched]
                      ELSE [rebuild EXCEPT !.rows = rows, !.cursor = page[Len(page)],
                                           !.lost = @ \/ rebuild.cursor \in touched]
           /\ views' = [t \in Threads |->
                          LET most == Max({views[t].stored, views[t].counted})
                          IN  IF t \in ToSet(page) THEN [views[t] EXCEPT !.stored = most, !.counted = most] ELSE views[t]]
    /\ UNCHANGED <<plot, ranking, exporting, faults, requestVars>> /\ AtReading

(* replaceRanking: chunk by chunk into a key of its own. *)
stageChunk ==
    /\ rebuild.at = "stage" /\ rebuild.wrote < Len(rebuild.ids)
    /\ LET upto == Min({rebuild.wrote + Chunk, Len(rebuild.ids)})
       IN  /\ ranking' = [ranking EXCEPT !.staged = @ \o SubSeq(rebuild.ids, rebuild.wrote + 1, upto)]
           /\ rebuild' = [rebuild EXCEPT !.wrote = upto]
    /\ UNCHANGED <<plot, views, exporting, faults, requestVars>> /\ AtReading

(* The transaction: the staged key takes the ranking's place, and its size *)
(* is written.  If the staged key is gone, only the size is written.       *)
switchRanking ==
    /\ rebuild.at = "stage" /\ rebuild.wrote = Len(rebuild.ids)
    /\ LET kept == rebuild.ids = <<>> \/ ranking.staged # <<>>
       IN  /\ ranking' = [list |-> IF kept THEN ranking.staged ELSE ranking.list, ready |-> Len(rebuild.ids),
                          staged |-> <<>>, turn |-> ranking.turn + 1,
                          lost |-> IF kept THEN rebuild.lost ELSE ranking.lost]
           /\ RebuildEnds(kept)
    /\ UNCHANGED <<views, exporting, faults>> /\ AtReading

(* Redis or the database does not answer. *)
rebuildFails ==
    /\ rebuild.at # "idle"
    /\ Fault
    /\ ranking' = [ranking EXCEPT !.staged = <<>>]
    /\ RebuildEnds(FALSE)
    /\ UNCHANGED <<views, exporting>> /\ AtReading

(* Redis starts again empty; the size expires after an hour, a staged key   *)
(* after ten minutes, a cached detail after thirty seconds.                *)
redisForgets ==
    /\ Fault
    /\ \/ /\ ranking' = [list |-> <<>>, ready |-> -1, staged |-> <<>>, turn |-> ranking.turn + 1, lost |-> FALSE]
          /\ views' = [t \in Threads |-> [views[t] EXCEPT !.counted = 0, !.cached = -1, !.lost = @ \/ views[t].counted > 0]]
       \/ ranking.ready # -1 /\ ranking' = [ranking EXCEPT !.ready = -1] /\ UNCHANGED views
       \/ ranking.staged # <<>> /\ ranking' = [ranking EXCEPT !.staged = <<>>] /\ UNCHANGED views
       \/ /\ \E t \in Threads : views[t].cached # -1 /\ views' = [views EXCEPT ![t].cached = -1]
          /\ UNCHANGED ranking
    /\ UNCHANGED <<plot, rebuild, exporting, requestVars>> /\ AtReading

unrank(r) ==
    /\ Stands(r, "unrank")
    /\ ranking' = [ranking EXCEPT !.list = RemoveFirst(@, r.thread), !.turn = @ + 1]
    /\ Done(r)
    /\ UNCHANGED <<rebuild, views, exporting, faults>> /\ AtReading

ensureReady(r) ==
    /\ r \in plot.requests /\ r.op = "recommended" /\ pc[r] \in {"new", "next"}
    /\ IF Whole THEN /\ Place(r, "measure") /\ UNCHANGED rebuild
                     /\ seen' = [seen EXCEPT ![r] = Starts(@, ranking.turn)]
       ELSE /\ Place(r, "wait") /\ UNCHANGED seen
            /\ rebuild' = IF rebuild.at = "idle" THEN Restarted ELSE rebuild
    /\ UNCHANGED <<ranking, views, exporting, faults>> /\ AtReading

Recommendable(u) ==
    {t \in Rankable : ~thread[t].private /\ thread[t].owner \notin gone /\ ~Blocked(u, thread[t].owner)}

measure(r) ==
    /\ Stands(r, "measure")
    /\ seen' = [seen EXCEPT ![r].size = Len(ranking.list), ![r].upto = Len(seen[r].shown) + Ahead * r.n,
                            ![r].lost = Strays(seen[r])]
    /\ Place(r, "prefix")
    /\ UNCHANGED <<rankingVars, exporting, faults>> /\ AtReading

(* findAllSmart: a prefix of the ranking, longer and longer, until it has  *)
(* a page that the reader may see, after those that came before.           *)
readPrefix(r) ==
    /\ Stands(r, "prefix")
    /\ LET prefix == First(ranking.list, seen[r].upto)
           visible == SelectSeq(prefix, LAMBDA t : t \in Recommendable(r.user))
           count == Len(seen[r].shown)
           enough == Len(visible) > count + r.n \/ seen[r].upto >= seen[r].size
           lost == Strays(seen[r])
       IN  \/ prefix = <<>> /\ Place(r, "done") /\ seen' = [seen EXCEPT ![r].lost = lost]
           \/ /\ prefix # <<>> /\ ~enough /\ Place(r, "prefix")
              /\ seen' = [seen EXCEPT ![r].upto = 2 * @, ![r].lost = lost]
           \/ /\ prefix # <<>> /\ enough
              /\ Place(r, IF Len(visible) > count + r.n THEN "next" ELSE "done")
              /\ seen' = [seen EXCEPT ![r].shown = @ \o SubSeq(visible, count + 1, Min({count + r.n, Len(visible)})),
                                      ![r].lost = lost]
    /\ UNCHANGED <<rankingVars, exporting, faults>> /\ AtReading

-------------------------------------------------------------------------------
(* Lists in the database *)

ThreadLists == {"created", "active", "collaborated", "search", "made", "played"}
PostLists == {"floors", "replies", "searchPosts"}
ByValue == {"collaborated", "search", "searchPosts"}

(* Of what v did, a profile shows u what is public, and v everything. *)
OnProfile(u, v, t) == t \in Rankable /\ ~Blocked(u, thread[t].owner) /\ (u = v \/ ~thread[t].private)
Made(u, v) == {t \in Threads : thread[t].owner = v /\ OnProfile(u, v, t)}
Played(u, v) == {t \in Threads : v \in player[t] /\ thread[t].owner # v /\ OnProfile(u, v, t)}
Replied(u, v) == {p \in Posts : post[p].author = v /\ PostVisible(u, p) /\ OnProfile(u, v, post[p].thread)}
Drafts(u) == {t \in Threads : thread[t].owner = u /\ ~thread[t].published /\ thread[t].live}

ProfileShows(r) ==
    r.target \notin gone /\ ~Blocked(r.user, r.target) /\ (r.user # r.target => <<r.target, r.op>> \notin plot.discreet)

(* activitySummary, with conditions of its own; -1: not shown. *)
Summary(u, v) ==
    LET Open_(t) == thread[t].published /\ thread[t].live /\ ~Blocked(u, thread[t].owner) /\ (u # v => ~thread[t].private)
        Count(what, S) == IF u # v /\ <<v, what>> \in plot.discreet THEN -1 ELSE Cardinality(S)
    IN  [made |-> Count("made", {t \in Threads : thread[t].owner = v /\ Open_(t)}),
         played |-> Count("played", {t \in Threads : v \in player[t] /\ v # thread[t].owner /\ Open_(t)}),
         replied |-> Count("replied", {p \in Posts : post[p].author = v /\ PostVisible(u, p) /\ Open_(post[p].thread)})]

(* What a list shows, by its own conditions. *)
RowsOf(r) ==
    CASE r.op \in {"created", "active"} -> Recommendable(r.user)
      [] r.op = "collaborated" -> {t \in Rankable : role[t][r.user] = "COLLABORATOR" /\ ~Blocked(r.user, thread[t].owner)}
      [] r.op = "search" -> {t \in Rankable : ~thread[t].private /\ ~Blocked(r.user, thread[t].owner)}
      [] r.op = "made" -> Made(r.user, r.target)
      [] r.op = "played" -> Played(r.user, r.target)
      [] r.op = "floors" -> {p \in PostsOf(r.thread) : post[p].parent = Nowhere /\ PostVisible(r.user, p)}
      [] r.op = "replies" -> {p \in PostsOf(r.thread) : post[p].parent = r.post /\ PostVisible(r.user, p)}
      [] OTHER -> {p \in Posts : /\ PostVisible(r.user, p) /\ post[p].thread \in Rankable
                                 /\ ~thread[post[p].thread].private /\ ~Blocked(r.user, thread[post[p].thread].owner)}

MayRead(r) ==
    /\ r.op \in {"floors", "replies"} => Accessible(r.user, r.thread)
    /\ r.op \in {"made", "played"} => ProfileShows(r)

(* By updatedAt, by creation, or from the first floor on. *)
LaterStamp(a, b) == thread[a].stamp > thread[b].stamp
Sorted(r) ==
    CASE r.op \in {"active", "collaborated"} -> InOrder(RowsOf(r), LaterStamp)
      [] r.op \in {"floors", "replies"} -> InOrder(RowsOf(r), SmallerFirst)
      [] OTHER -> InOrder(RowsOf(r), LargerFirst)

(* The rows after those that were read: after the place at which the last  *)
(* of them is now, or after the value it had.                              *)
Rest(r) ==
    LET s == seen[r]
    IN  CASE s.cursor = 0 -> Sorted(r)
          [] s.cursor # 0 /\ r.op = "collaborated" -> SelectSeq(Sorted(r), LAMBDA t : thread[t].stamp < s.turn)
          [] s.cursor # 0 /\ r.op \in ByValue \ {"collaborated"} -> SelectSeq(Sorted(r), LAMBDA x : x < s.cursor)
          [] s.cursor # 0 /\ r.op = "active" -> From(Sorted(r), s.cursor, LaterStamp)
          [] s.cursor # 0 /\ r.op \in {"floors", "replies"} -> From(Sorted(r), s.cursor, SmallerFirst)
          [] OTHER -> From(Sorted(r), s.cursor, LargerFirst)

readPage(r) ==
    /\ r \in plot.requests /\ r.op \in ThreadLists \cup PostLists /\ pc[r] \in {"new", "next"}
    /\ LET page == First(Rest(r), r.n)
           last == Last(page)
           more == Len(Rest(r)) > r.n
       IN  \/ ~MayRead(r) /\ Place(r, "refused") /\ UNCHANGED seen
           \/ MayRead(r) /\ page = <<>> /\ Place(r, "done") /\ seen' = [seen EXCEPT ![r].lost = @ \/ seen[r].cursor \in touched]
           \/ /\ MayRead(r) /\ page # <<>>
              /\ seen' = [seen EXCEPT ![r].shown = IF r.op \in {"search", "searchPosts"} THEN @ ELSE @ \o page,
                                      ![r].page = page, ![r].cursor = last,
                                      ![r].turn = IF r.op \in ThreadLists THEN thread[last].stamp ELSE 0,
                                      ![r].lost = @ \/ seen[r].cursor \in touched]
              /\ Place(r, IF r.op \in {"search", "searchPosts"} THEN (IF more THEN "fill" ELSE "fill last")
                          ELSE IF more THEN "next" ELSE "done")
    /\ UNCHANGED <<rankingVars, exporting, faults>> /\ AtReading

(* recentReplies: the latest, without further pages. *)
recentReplies(r) ==
    /\ Arrives(r, "replied")
    /\ \/ ~ProfileShows(r) /\ Place(r, "refused") /\ UNCHANGED seen
       \/ /\ ProfileShows(r) /\ Place(r, "done")
          /\ seen' = [seen EXCEPT ![r].shown = First(InOrder(Replied(r.user, r.target), LargerFirst), r.n)]
    /\ UNCHANGED <<rankingVars, exporting, faults>> /\ AtReading

(* Mutant of fillPage: a page that has become shorter is taken for the last. *)
FillsOrEnds(r) ==
    /\ r \in plot.requests /\ pc[r] \in {"fill", "fill last"}
    /\ LET page == SelectSeq(seen[r].page, LAMBDA x : x \in RowsOf(r))
       IN  /\ seen' = [seen EXCEPT ![r].shown = @ \o page]
           /\ Place(r, IF pc[r] = "fill" /\ Len(page) = r.n THEN "next" ELSE "done")
    /\ UNCHANGED <<rankingVars, exporting, faults>> /\ AtReading

(* A search finds the ids first, and then those of them that still show. *)
fillPage(r) ==
    /\ r \in plot.requests /\ pc[r] \in {"fill", "fill last"}
    /\ seen' = [seen EXCEPT ![r].shown = @ \o SelectSeq(seen[r].page, LAMBDA x : x \in RowsOf(r))]
    /\ Place(r, IF pc[r] = "fill" THEN "next" ELSE "done")
    /\ UNCHANGED <<rankingVars, exporting, faults>> /\ AtReading

-------------------------------------------------------------------------------
(* AdminService.sendSystemNotification: users by pages, in the order of     *)
(* their ids, all under one key.  When a page fails, the rest hears nothing. *)

UserOrder == SetToSeq(Users)
SystemKey(r) == [what |-> "announcement", post |-> Nowhere, event |-> r.id]
SystemNotice(r, u) ==
    [there |-> TRUE, user |-> u, kind |-> "system", post |-> Nowhere, thread |-> Nowhere, from |-> Nobody,
     key |-> SystemKey(r), read |-> FALSE, keys |-> <<>>, count |-> 0, likers |-> <<>>]

sendSystemNotification(r) ==
    /\ r \in plot.requests /\ r.op = "announce" /\ pc[r] \in {"new", "next"}
    /\ LET active == InOrder({i \in DOMAIN UserOrder : UserOrder[i] \notin gone}, SmallerFirst)
           page == First(From(active, seen[r].cursor, SmallerFirst), Chunk)
           strays == seen[r].cursor # 0 /\ UserOrder[seen[r].cursor] \in gone
       IN  \/ page = <<>> /\ Place(r, "done") /\ seen' = [seen EXCEPT ![r].lost = @ \/ strays] /\ UNCHANGED <<notice, faults>>
           \/ page # <<>> /\ Place(r, "refused") /\ Fault /\ UNCHANGED <<seen, notice>>
           \/ /\ page # <<>> /\ Place(r, IF Len(page) = Chunk THEN "next" ELSE "done") /\ UNCHANGED faults
              /\ seen' = [seen EXCEPT ![r].cursor = Last(page), ![r].lost = @ \/ strays]
              /\ notice' = notice \o [i \in DOMAIN page |-> SystemNotice(r, UserOrder[page[i]])]
    /\ UNCHANGED <<relationVars, threadVars, mention, event, worker, disturbed, promised, rankingVars, exporting, touched>>

-------------------------------------------------------------------------------
(* A thread is opened: "open" by a member, "visit" without an account *)

NeverOpened == [stored |-> 0, counted |-> 0, cached |-> -1, visits |-> 0, lost |-> FALSE]

ForAll(t) == thread[t].live /\ thread[t].published /\ ~thread[t].private

assertAccessible(r) ==
    /\ r.op \in {"open", "visit"} /\ Arrives(r, r.op)
    /\ Place(r, IF IF r.op = "open" THEN Accessible(r.user, r.thread) ELSE ForAll(r.thread) THEN "load" ELSE "refused")
    /\ UNCHANGED <<seen, rankingVars, exporting, faults>> /\ AtReading

(* From the cache, which only those without an account use and fill, or    *)
(* from the database; a draft is not counted.                              *)
loadDetail(r) ==
    /\ Stands(r, "load")
    /\ LET t == r.thread
           cached == r.op = "visit" /\ views[t].cached # -1
           there == thread[t].live /\ (r.op = "open" => ~Blocked(r.user, thread[t].owner))
       IN  \/ ~cached /\ ~there /\ Place(r, "refused") /\ UNCHANGED <<seen, views>>
           \/ /\ cached \/ there
              /\ seen' = [seen EXCEPT ![r].size = IF cached THEN views[t].cached ELSE views[t].stored]
              /\ views' = IF r.op = "visit" /\ ForAll(t) /\ ~cached THEN [views EXCEPT ![t].cached = views[t].stored] ELSE views
              /\ Place(r, IF cached \/ thread[t].published THEN "count" ELSE "done")
    /\ UNCHANGED <<ranking, rebuild, exporting, faults>> /\ AtReading

(* hincrbyAtLeast: at least what was read, and one more.  Without Redis the *)
(* reader sees one more, and nothing is counted.                           *)
countView(r) ==
    /\ Stands(r, "count")
    /\ LET t == r.thread
           Becomes(new) == views' = [views EXCEPT ![t].visits = @ + 1, ![t].counted = new, ![t].lost = @ \/ new = views[t].counted]
       IN  \/ Becomes(Max({views[t].counted, seen[r].size}) + 1) /\ UNCHANGED faults
           \/ Becomes(views[t].counted) /\ Fault
    /\ Done(r)
    /\ UNCHANGED <<ranking, rebuild, exporting>> /\ AtReading

-------------------------------------------------------------------------------
(* Exports: one at a time *)

Exporting == {r \in plot.requests : r.op = "export" /\ pc[r] \in {"snapshot", "assets", "stream"}}

checkExport(r) ==
    /\ Arrives(r, "export")
    /\ Place(r, IF Accessible(r.user, r.thread) /\ Manages(r.user, r.thread) THEN "latch" ELSE "refused")
    /\ UNCHANGED <<seen, rankingVars, exporting, faults>> /\ AtReading

(* createArchive, from the latch to the first answer of the database. *)
latchExport(r) ==
    /\ Stands(r, "latch")
    /\ IF exporting THEN Place(r, "refused") /\ UNCHANGED exporting
       ELSE Place(r, "snapshot") /\ exporting' = TRUE
    /\ UNCHANGED <<seen, rankingVars, faults>> /\ AtReading

ExportFails(r) == Place(r, "refused") /\ exporting' = FALSE /\ UNCHANGED seen

ArchiveRows(r) == {p \in PostsOf(r.thread) : PostVisible(r.user, p)}

(* postHeading: who is answered is named only while the manager may see    *)
(* what was answered.                                                      *)
Heading(u, p) ==
    LET q == post[p].replyTo
    IN  [post |-> p, by |-> post[p].author,
         answers |-> IF q # Nowhere /\ PostVisible(u, q) THEN post[q].author ELSE Nobody]

(* Mutant of Document: only the answers to floors are written. *)
FloorsAndAnswers(r) ==
    LET Answers(p) == InOrder({q \in ArchiveRows(r) : post[q].parent = p}, SmallerFirst)
        floors == InOrder({p \in ArchiveRows(r) : post[p].parent = Nowhere}, SmallerFirst)
        written == FlattenSeq([i \in DOMAIN floors |-> Answers(floors[i])])
    IN  [i \in DOMAIN written |-> Heading(r.user, written[i])]

(* buildMarkdown: the floors by number, each with the answers to it, and   *)
(* the answers to these, by age.                                           *)
Document(r) ==
    LET Answers(p) == InOrder({q \in ArchiveRows(r) : post[q].parent = p}, SmallerFirst)
        chapter[p \in Posts] == <<p>> \o FlattenSeq([i \in DOMAIN Answers(p) |-> chapter[Answers(p)[i]]])
        floors == InOrder({p \in ArchiveRows(r) : post[p].parent = Nowhere}, SmallerFirst)
        written == FlattenSeq([i \in DOMAIN floors |-> chapter[floors[i]]])
    IN  [i \in DOMAIN written |-> Heading(r.user, written[i])]

(* prepareArchive: a repeatable read of what the manager may see, unless   *)
(* it is too much.                                                         *)
snapshotExport(r) ==
    /\ Stands(r, "snapshot")
    /\ LET possible == /\ r.thread \in Rankable /\ ~Blocked(r.user, thread[r.thread].owner)
                       /\ Cardinality(ArchiveRows(r)) <= MaxExport
       IN  \/ ~possible /\ ExportFails(r) /\ UNCHANGED faults
           \/ /\ possible /\ Place(r, "assets") /\ UNCHANGED <<exporting, faults>>
              /\ seen' = [seen EXCEPT ![r].rows = ArchiveRows(r), ![r].document = Document(r),
                                      ![r].hidden = {u \in Users : Blocked(r.user, u)}]
           \/ ExportFails(r) /\ Fault
    /\ UNCHANGED rankingVars /\ AtReading

prepareAssets(r) ==
    /\ Stands(r, "assets")
    /\ \/ Place(r, "stream") /\ UNCHANGED <<seen, exporting, faults>>
       \/ ExportFails(r) /\ Fault
    /\ UNCHANGED rankingVars /\ AtReading

(* The stream ends, fails, or its reader goes away: end, close or error. *)
releaseExport(r) ==
    /\ Stands(r, "stream")
    /\ exporting' = FALSE
    /\ Done(r)
    /\ UNCHANGED <<rankingVars, faults>> /\ AtReading

ReadingActions(r) ==
    \/ unrank(r) \/ ensureReady(r) \/ measure(r) \/ readPrefix(r) \/ readPage(r) \/ fillPage(r)
    \/ recentReplies(r) \/ sendSystemNotification(r) \/ assertAccessible(r) \/ loadDetail(r) \/ countView(r)
    \/ checkExport(r) \/ latchExport(r) \/ snapshotExport(r) \/ prepareAssets(r) \/ releaseExport(r)
Rebuilding == scanThreads \/ stageChunk \/ switchRanking
===============================================================================
