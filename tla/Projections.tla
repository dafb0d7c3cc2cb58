------------------------------- MODULE Projections -------------------------------
(***************************************************************************)
(* Posts and threads with all that is made from them: the deliveries of    *)
(* their events, the notices of their members, the ranking, the pages that *)
(* readers turn, and the archives.                                         *)
(***************************************************************************)
EXTENDS Reading

NoSight == [rows |-> {}, shown |-> <<>>, page |-> <<>>, cursor |-> 0, turn |-> 0, size |-> 0, upto |-> 0, lost |-> FALSE,
            document |-> <<>>, hidden |-> {}]

Init ==
    /\ plot \in Plots
    /\ follows = plot.follows /\ blocks = {} /\ gone = {}
    /\ thread = plot.thread /\ role = plot.role /\ player = plot.player /\ post = plot.post
    /\ subscribed = plot.subscribed /\ likes = {}
    /\ mention = {} /\ event = <<>> /\ promised = <<>>
    /\ worker = [h \in Handlers |-> Idle]
    /\ notice = <<>>
    /\ ranking = [list |-> plot.ranked, ready |-> IF plot.ranked = <<>> THEN -1 ELSE Len(plot.ranked),
                  staged |-> <<>>, turn |-> 1, lost |-> FALSE]
    /\ rebuild = Unbuilt /\ exporting = FALSE
    /\ views = [t \in Threads |-> NeverOpened]
    /\ faults = plot.faults
    /\ disturbed = {} /\ touched = {}
    /\ pc = [r \in plot.requests |-> "new"]
    /\ seen = [r \in plot.requests |-> NoSight]

Accidents ==
    \/ plot.rebuilds /\ (recalcSmartScores \/ rebuildFails \/ redisForgets)
    \/ \E h \in Handlers : crash(h)

Next ==
    \/ \E r \in Requests :
          /\ r \in plot.requests
          /\ Writing(r) \/ InboxActions(r) \/ ReadingActions(r)
    \/ \E h \in Handlers : h \in plot.handlers /\ Delivering(h)
    \/ Rebuilding
    \/ Accidents

(* A rebuild runs on while the server does. *)
Fairness == WF_vars(Rebuilding)

Spec == Init /\ [][Next]_vars /\ Fairness

-------------------------------------------------------------------------------
(* Properties *)

TypeOK ==
    /\ RelationsOK
    /\ thread \in [Threads -> ThreadRows] /\ role \in [Threads -> [Users -> MemberRoles]]
    /\ player \in [Threads -> SUBSET Users] /\ post \in [Posts -> PostRows]
    /\ subscribed \subseteq Users \X Threads \X (Users \cup {Nobody}) /\ likes \subseteq Threads \X Users
    /\ mention \subseteq MentionRows
    /\ \A e \in DOMAIN event : event[e] \in EventRows
    /\ \A n \in DOMAIN notice : /\ notice[n].user \in Users /\ notice[n].kind \in NoticeKinds
                                /\ notice[n].read \in BOOLEAN /\ (notice[n].kind # "like" => notice[n].count = 0)
    /\ ranking.list \in Seq(Threads) /\ ranking.ready \in Nat \cup {-1}
    /\ exporting \in BOOLEAN /\ disturbed \subseteq DOMAIN event /\ DOMAIN promised = DOMAIN event

(* The same thing is told to the same user once: a like, for as long as the *)
(* notice that it came with remembers all its likes.                       *)
ToldOnce ==
    LET rows == {n \in DOMAIN notice : notice[n].there /\ (notice[n].kind = "like" => notice[n].count <= MaxKeys)}
    IN  \A n, m \in rows : notice[n].user = notice[m].user /\ notice[n].key = notice[m].key => n = m

(* A like counts in one notice, and a notice counts what it remembers for  *)
(* as long as it remembers everything.                                     *)
LikesCountOnce ==
    LET rows == {n \in DOMAIN notice : notice[n].there /\ notice[n].kind = "like"}
    IN  /\ \A n \in rows : notice[n].count <= MaxKeys => notice[n].count = Cardinality(ToSet(notice[n].keys))
        /\ \A n, m \in rows : n # m /\ notice[n].user = notice[m].user => ToSet(notice[n].keys) \cap ToSet(notice[m].keys) = {}

(* Once a new post has been announced, with nothing in the way of it, who   *)
(* should hear of it has heard of it in the way that is due: a mention      *)
(* before an answer, an answer before an update.                           *)
EveryoneIsTold ==
    \A e \in DOMAIN event \ disturbed :
        event[e].kind = "created" /\ event[e].state = "done" =>
            \A u \in Users :
                LET kinds == {notice[n].kind : n \in {m \in DOMAIN notice : notice[m].user = u /\ notice[m].post = event[e].post}}
                IN  kinds = {promised[e][u]} \ {"none"}

(* Whom the editor offers to name would be told, if named: the two          *)
(* conditions are written separately.                                       *)
OffersAreKept ==
    \A a \in Users, t \in Threads : Accessible(a, t) => Candidates(a, t) \subseteq DirectCandidates(Candidates(a, t), a, t)

(* An announcement that has come to its end has told everyone who is        *)
(* there, unless the last user of a page went away before the next page.    *)
AnnouncementsReach ==
    \A r \in plot.requests :
        r.op = "announce" /\ pc[r] = "done" /\ ~seen[r].lost =>
            \A u \in Users \ gone : \E n \in DOMAIN notice : notice[n].user = u /\ notice[n].key = SystemKey(r)

(* Deliveries that come twice, overlap, fail or stop on their way tell      *)
(* everyone what is due, and nobody twice.                                 *)
NoticesHold == TypeOK /\ ToldOnce /\ LikesCountOnce /\ EveryoneIsTold /\ OffersAreKept /\ AnnouncementsReach

(* What the inbox offers as a way to a thread or a post leads there, and    *)
(* the number of unread notices is that of the unread ones among those     *)
(* which the inbox shows and does not call gone, whatever is removed,       *)
(* restored, closed or blocked: two conditions on the database that are     *)
(* written down separately.                                                *)
WhatIsShownOpens ==
    \A u \in Users :
        /\ \A n \in Shown(u) : TargetState(n) = "ACTIVE" =>
              /\ notice[n].thread # Nowhere => Accessible(u, notice[n].thread)
              /\ notice[n].post # Nowhere => PostVisible(u, notice[n].post)
        /\ UnreadCount(u) = Cardinality({n \in Shown(u) : ~notice[n].read /\ TargetState(n) \in {"ACTIVE", "NO_TARGET"}})

(* Notices reach everyone once, and lead where they say.                   *)
InboxHolds == NoticesHold /\ WhatIsShownOpens

(* A ranking that is taken for whole has each thread that was there all    *)
(* along, once, in the order of what they weigh, even when the one before  *)
(* is lost, or a rebuild stops half way.                                    *)
RankingIsWhole ==
    Whole /\ ~ranking.lost =>
        LET steady == {t \in Rankable : OfThread(t) \cap touched = {}}
        IN  /\ \A t \in steady : Times(t, ranking.list) = 1
            /\ \A i, j \in DOMAIN ranking.list :
                  ranking.list[i] \in steady /\ ranking.list[j] \in steady /\ i < j =>
                      Before(<<ranking.list[i], Weight(ranking.list[i])>>, <<ranking.list[j], Weight(ranking.list[j])>>)

(* Who turns the pages to the end has seen each thread or post that was    *)
(* there all along exactly once.  Where the cursor is the id of a row, and  *)
(* where the list is the ranking, this needs the row, or the ranking, to    *)
(* stay.                                                                   *)
PagesCover ==
    \A r \in plot.requests :
        r.op \in ThreadLists \cup PostLists \cup {"recommended"} /\ pc[r] = "done"
        /\ (r.op \in ByValue \/ ~seen[r].lost) =>
            LET rows == IF r.op = "recommended" THEN Recommendable(r.user) ELSE RowsOf(r)
            IN  \A x \in rows \ touched :
                   (IF r.op \in PostLists THEN TRUE ELSE OfThread(x) \cap touched = {}) => Times(x, seen[r].shown) = 1

(* What profiles and lists of drafts show to a reader the reader may open,  *)
(* and the numbers on a profile are those of its lists, which are selected  *)
(* elsewhere: of one's own, also what is not public, which one's own        *)
(* membership keeps open.                                                  *)
ProfilesOpen ==
    \A u, v \in Users :
        LET n == Summary(u, v) IN
        /\ \A t \in Made(u, v) \cup Played(u, v) \cup Drafts(u) : Accessible(u, t)
        /\ \A p \in Replied(u, v) : Accessible(u, post[p].thread)
        /\ n.made = Cardinality(Made(u, v))
        /\ n.played \in {-1, Cardinality(Played(u, v))}
        /\ n.replied \in {-1, Cardinality(Replied(u, v))}

(* No visit of a thread is counted twice, in Redis or in the database, and  *)
(* none is missed unless Redis was away or lost what it had: a rebuild      *)
(* between the reading of a detail and its count takes nothing away.        *)
VisitsCountOnce ==
    \A t \in Threads :
        /\ views[t].stored <= views[t].visits /\ views[t].counted <= views[t].visits
        /\ ~views[t].lost => Max({views[t].stored, views[t].counted}) = views[t].visits

(* The ranking is whole, the pages of every list cover it, profiles lead    *)
(* where they say, and visits are counted once.                            *)
ListsAreCovered == RankingIsWhole /\ PagesCover /\ ProfilesOpen /\ VisitsCountOnce

(* An archive is made when the latch is taken, and by one request; every    *)
(* end of it gives the latch back.                                          *)
ExportsTakeTurns == exporting = (Exporting # {}) /\ Cardinality(Exporting) <= 1

(* An archive has each post that its reader could see when it was read,     *)
(* once, an answer after what it answers, and names nobody whom a block     *)
(* hides from the reader.                                                  *)
ArchivesAreWhole ==
    \A r \in plot.requests :
        r.op = "export" =>
            LET document == seen[r].document
                written == [i \in DOMAIN document |-> document[i].post]
            IN  /\ \A p \in Posts : Times(p, written) = IF p \in seen[r].rows THEN 1 ELSE 0
                /\ \A i, j \in DOMAIN written : written[i] = post[written[j]].parent => i < j
                /\ \A i \in DOMAIN document : {document[i].by, document[i].answers} \cap seen[r].hidden = {}

(* What is exported is all there, in turn, and its text is read as those    *)
(* read it who rolled its dice and told its names.                          *)
ExportsHold == ExportsTakeTurns /\ ArchivesAreWhole /\ ScannersAgree

Waiting == \E r \in plot.requests : pc[r] = "wait"

(* Who waits for the ranking gets an answer: the end of a rebuild, which    *)
(* may fail, or be overtaken by a loss, leaves nobody behind.               *)
ReadersAreAnswered == Waiting ~> ~Waiting
===============================================================================
