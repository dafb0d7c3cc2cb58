-------------------------------- MODULE Moments --------------------------------
(***************************************************************************)
(* The tables that members and administrators of the site share: what is   *)
(* published, who reacted to it, reports and cases about it, sanctions and *)
(* roles; and the course of a request.                                     *)
(*                                                                         *)
(* A transaction that locks the rows it reads is one step.  What is read   *)
(* without a lock is a step of its own, and kept in seen.  READ COMMITTED. *)
(*                                                                         *)
(* Then MomentsService, MomentCommentsService and MomentBookmarksService:  *)
(* short public posts, the comments and replies below them, likes and      *)
(* bookmarks.  Every transaction locks the users it concerns, in the order *)
(* of their ids, then the moment, then the comment.                        *)
(***************************************************************************)
EXTENDS UserRelations, Integers, Sequences, FiniteSets

CONSTANTS
    Threads, Posts, Moments, Comments,  \* ids of rows, those that are still to come included
    Folders,     \* names of folders for bookmarked moments
    Default,     \* the default folder
    Nothing,     \* no row
    Plots        \* bound: what there is at first, and who does what

Items == Threads \cup Posts \cup Moments \cup Comments
Targets == Items \cup Users
Removals == {"AUTHOR", "OWNER", "ADMIN"}

(* What is published.  on: the moment of a comment, the thread of a post;  *)
(* root: the comment or post it is a reply to; state none: not written yet. *)
ItemRows ==
    [state : {"none", "shown"} \cup Removals, author : Users, on : Items \cup {Nothing},
     root : Items \cup {Nothing}, key : STRING, version : Nat]

ReactionCounts == [comments : Int, likes : Int, bookmarks : Int]

CaseRows == [target : Targets, status : {"OPEN", "RESOLVED", "DISMISSED"}]
ReportRows == [reporter : Users, target : Targets, status : {"PENDING", "RESOLVED", "DISMISSED"}, case : Nat]
Sanctioning == {"SUSPEND_USER", "BAN_USER"}
Measures == {"HIDE_CONTENT"} \cup Sanctioning
DecisionRows == [target : Targets, action : Measures, active : BOOLEAN, case : Nat]
AppealRows == [decision : Nat, status : {"PENDING", "UPHELD", "OVERTURNED"}]

(* ended: the end of a suspension has passed. *)
SanctionRows == [user : Users, ban : BOOLEAN, ended : BOOLEAN, revoked : BOOLEAN, decision : Nat]

Roles == {"USER", "ADMIN", "SUPER_ADMIN"}
InviteRows == [user : Users, status : {"PENDING", "ACCEPTED", "CANCELED", "EXPIRED"}, over : BOOLEAN]

(* What is asked for: about an item or a user; a comment is written on a    *)
(* moment, to another comment; n is the number of a row, or a version, and  *)
(* what the rest.                                                           *)
Commands ==
    [id : Nat, op : STRING, user : Users, about : Targets, on : Moments \cup {Nothing},
     to : Comments \cup {Nothing}, n : Nat, what : STRING]

PlotFields == {"item", "public", "role", "legacy", "reports", "cases", "decisions", "appeals", "sanctions", "requests"}

(* What each request is about. *)
ReactingOps == {"update", "removeMoment", "like", "unlike", "bookmark", "unbookmark", "move"}
WritingOps == {"create", "comment"}
AboutUsers == {"block", "unblock", "sanction", "revokeSanction", "invite", "dismiss", "transfer"}
Concerns(op) ==
    CASE op \in ReactingOps \cup {"create"} -> Moments
      [] op \in {"comment", "removeComment"} -> Comments
      [] op \in {"hide", "restore"} -> Items
      [] op \in AboutUsers -> Users
      [] OTHER -> Targets

(* A comment is on a moment, and a reply below a comment on the same one. *)
HangsTogether(rows) ==
    \A c \in Comments :
        rows[c].state # "none" =>
            /\ rows[c].on \in Moments
            /\ rows[c].root # Nothing =>
                  /\ rows[c].root \in Comments /\ rows[rows[c].root].state # "none"
                  /\ rows[rows[c].root].root = Nothing /\ rows[rows[c].root].on = rows[c].on

(* The unique indexes: one pending report of a user about a target, one    *)
(* open case about it, one open sanction of a user, one super              *)
(* administrator who has not left.                                         *)
OneOpenCase(rows) ==
    \A a, b \in DOMAIN rows :
        rows[a].status = "OPEN" /\ rows[b].status = "OPEN" /\ rows[a].target = rows[b].target => a = b
OnePendingReport(rows) ==
    \A a, b \in DOMAIN rows :
        /\ rows[a].status = "PENDING" /\ rows[b].status = "PENDING"
        /\ rows[a].reporter = rows[b].reporter /\ rows[a].target = rows[b].target
        => a = b
OneOpenSanction(rows) ==
    \A a, b \in DOMAIN rows : ~rows[a].revoked /\ ~rows[b].revoked /\ rows[a].user = rows[b].user => a = b
OneSuperAdmin(roles, left) ==
    \A u, v \in Users \ left : roles[u] = "SUPER_ADMIN" /\ roles[v] = "SUPER_ADMIN" => u = v

(* Decisions hide what they are about, or sanction somebody; what they do  *)
(* lasts as long as they are active.                                       *)
DecisionsStand(rows, hider, decisions, sanctions) ==
    /\ \A d \in DOMAIN decisions : decisions[d].action = "HIDE_CONTENT" => decisions[d].target \in Items
    /\ \A i \in Items : rows[i].state = "ADMIN" /\ hider[i] # 0 =>
          /\ hider[i] \in DOMAIN decisions
          /\ LET d == decisions[hider[i]] IN d.active /\ d.action = "HIDE_CONTENT" /\ d.target = i
    /\ \A s \in DOMAIN sanctions : sanctions[s].decision # 0 =>
          /\ sanctions[s].decision \in DOMAIN decisions
          /\ LET d == decisions[sanctions[s].decision]
             IN  d.action \in Sanctioning /\ (~d.active => sanctions[s].revoked)

HiderAtFirst(p) ==
    [i \in Items |-> IF \E d \in DOMAIN p.decisions : p.decisions[d].target = i
                     THEN CHOOSE d \in DOMAIN p.decisions : p.decisions[d].target = i
                     ELSE 0]

(* The tables at first: rows that fit together, and a row of its own, yet  *)
(* to come, for everything that is going to be written.                    *)
BeginsWell(p) ==
    /\ p.item \in [Items -> ItemRows] /\ HangsTogether(p.item)
    /\ IsFiniteSet({c \in Comments : p.item[c].state = "shown"})
    /\ p.public \subseteq Items /\ p.role \in [Users -> Roles] /\ p.legacy \subseteq Users \X Folders
    /\ p.cases \in Seq(CaseRows) /\ p.reports \in Seq(ReportRows) /\ p.decisions \in Seq(DecisionRows)
    /\ p.appeals \in Seq(AppealRows) /\ p.sanctions \in Seq(SanctionRows)
    /\ OneOpenCase(p.cases) /\ OnePendingReport(p.reports) /\ OneOpenSanction(p.sanctions)
    /\ OneSuperAdmin(p.role, {})
    /\ DecisionsStand(p.item, HiderAtFirst(p), p.decisions, p.sanctions)
    /\ \A a \in DOMAIN p.appeals : p.appeals[a].decision \in DOMAIN p.decisions
    /\ p.requests \subseteq Commands
    /\ \A r \in p.requests :
          /\ r.about \in Concerns(r.op)
          /\ r.op = "comment" => r.on \in Moments
          /\ r.op = "createFolder" => r.what \in Folders
          /\ r.op = "resolveAppeal" => r.what \in {"UPHELD", "OVERTURNED"}
          /\ r.op \in WritingOps =>
                /\ p.item[r.about].state = "none"
                /\ \A q \in p.requests : q.op \in WritingOps /\ q.about = r.about => q = r

ASSUME CommunityAssumption ==
    /\ Default \in Folders
    /\ Nothing \notin Targets
    /\ Comments \cap (Threads \cup Posts \cup Moments) = {} /\ Moments \cap (Threads \cup Posts) = {}
    /\ \A p \in Plots : PlotFields \subseteq DOMAIN p /\ BeginsWell(p)

Requests == UNION {p.requests : p \in Plots}

VARIABLES
    plot,
    item,        \* item[i]: the row of a thread, post, moment or comment
    public,      \* published public threads, and posts whose subthread is there
    pinned,      \* pinned posts
    counts,      \* counts[m]: what the row of the moment says
    likes,       \* pairs <<moment, user>>
    bookmarks,   \* triples <<moment, user, folder>>
    folders,     \* pairs <<user, folder>>; plot.legacy: those of the catalog both kinds of bookmarks shared
    unread,      \* items somebody has an unread notification about
    case, report, decision, appeal, sanction,    \* tables in the order of their rows
    hiddenBy,    \* hiddenBy[i]: history: the decision that hid it last, 0 for none
    role,        \* role[u]
    invite,      \* invitations to become an administrator
    tokens,      \* users with refresh tokens that are not revoked
    stations,    \* administrators with a session that is not revoked
    pc,          \* pc[r]: new, where its transaction is, or done, refused
    seen         \* seen[r]: what r has read

momentVars == <<counts, likes, bookmarks, folders>>
itemVars == <<item, public, pinned, unread, hiddenBy>>
caseVars == <<case, report, decision, appeal>>
accountVars == <<sanction, role, invite, tokens, stations>>
requestVars == <<pc, seen>>
vars == <<plot, relationVars, momentVars, itemVars, caseVars, accountVars, requestVars>>

(* What a request has read: a comment, a role, the number of a row. *)
NoSight == [row |-> Nothing, role |-> "USER", n |-> 0, again |-> FALSE]

Place(r, place) == pc' = [pc EXCEPT ![r] = place] /\ UNCHANGED plot
Done(r) == Place(r, "done") /\ UNCHANGED seen
Refused(r) == Place(r, "refused") /\ UNCHANGED <<seen, relationVars, momentVars, itemVars, caseVars, accountVars>>

(* r has read without a lock. *)
Reads(r, place, sight) ==
    /\ Place(r, place)
    /\ seen' = [seen EXCEPT ![r] = sight]
    /\ UNCHANGED <<relationVars, momentVars, itemVars, caseVars, accountVars>>

(* activeSanctionWhere *)
Effective(s) == ~s.revoked /\ (s.ban \/ ~s.ended)
Sanctioned(u) == \E s \in DOMAIN sanction : sanction[s].user = u /\ Effective(sanction[s])

IsAdmin(u) == role[u] \in {"ADMIN", "SUPER_ADMIN"}

(* The guards let in whom the account and its role allow. *)
Arrives(r, op) ==
    /\ r.op = op
    /\ r \in plot.requests
    /\ pc[r] = "new"
    /\ r.user \notin gone /\ ~Sanctioned(r.user)

ByAdmin(r, op) == Arrives(r, op) /\ IsAdmin(r.user)
BySuper(r, op) == Arrives(r, op) /\ role[r.user] = "SUPER_ADMIN"
At(r, op, place) == r.op = op /\ pc[r] = place

Shown(i) == item[i].state = "shown"
Written(i) == item[i].state # "none"

-------------------------------------------------------------------------------
(* What a member wrote with a request id before. *)
Replayed(r, S) == \E i \in S : Written(i) /\ item[i].author = r.user /\ item[i].key = r.what

(* lockVisible: a moment u may react to, and nobody among others is in the way. *)
MayReact(u, m, others) ==
    /\ Shown(m)
    /\ u \notin gone
    /\ \A v \in {item[m].author} \cup others : ~Blocked(u, v)

(* assertCanAddInteraction *)
AuthorIsThere(m) == item[m].author \notin gone

(* Taking a reaction back needs no more than the moment. *)
MayTakeBack(u, m) == Shown(m) /\ u \notin gone

-------------------------------------------------------------------------------
(* Moments *)

readCreate(r) ==
    /\ Arrives(r, "create")
    /\ IF Replayed(r, Moments)
       THEN Done(r) /\ UNCHANGED <<relationVars, momentVars, itemVars, caseVars, accountVars>>
       ELSE Reads(r, "create", NoSight)

(* The row of a request that came twice is found by its unique index. *)
create(r) ==
    /\ At(r, "create", "create")
    /\ \/ r.user \in gone /\ Refused(r)
       \/ /\ r.user \notin gone
          /\ IF Replayed(r, Moments)
             THEN UNCHANGED item
             ELSE item' = [item EXCEPT ![r.about] =
                              [state |-> "shown", author |-> r.user, on |-> Nothing, root |-> Nothing,
                               key |-> r.what, version |-> 1]]
          /\ Done(r)
          /\ UNCHANGED <<relationVars, momentVars, public, pinned, unread, hiddenBy, caseVars, accountVars>>

update(r) ==
    /\ Arrives(r, "update")
    /\ LET m == r.about
           possible == MayReact(r.user, m, {}) /\ item[m].author = r.user /\ item[m].version = r.n
       IN  \/ ~possible /\ Refused(r)
           \/ /\ possible
              /\ item' = [item EXCEPT ![m].version = @ + 1]
              /\ Done(r)
              /\ UNCHANGED <<relationVars, momentVars, public, pinned, unread, hiddenBy, caseVars, accountVars>>

(* An administrator's removal of what others wrote can be taken back. *)
RemovalBy(r, author) == IF IsAdmin(r.user) /\ author # r.user THEN "ADMIN" ELSE "AUTHOR"

removeMoment(r) ==
    /\ Arrives(r, "removeMoment")
    /\ LET m == r.about
           possible == Shown(m) /\ (item[m].author = r.user \/ IsAdmin(r.user))
       IN  \/ ~possible /\ Refused(r)
           \/ /\ possible
              /\ item' = [item EXCEPT ![m].state = RemovalBy(r, item[m].author)]
              /\ hiddenBy' = [hiddenBy EXCEPT ![m] = 0]
              /\ unread' = unread \ ({m} \cup {c \in Comments : item[c].on = m})
              /\ Done(r)
              /\ UNCHANGED <<relationVars, momentVars, public, pinned, caseVars, accountVars>>

like(r) ==
    /\ Arrives(r, "like")
    /\ LET m == r.about
           possible == MayReact(r.user, m, {}) /\ (<<m, r.user>> \in likes \/ AuthorIsThere(m))
       IN  \/ ~possible /\ Refused(r)
           \/ /\ possible
              /\ likes' = likes \cup {<<m, r.user>>}
              /\ counts' = [counts EXCEPT ![m].likes = @ + IF <<m, r.user>> \in likes THEN 0 ELSE 1]
              /\ Done(r)
              /\ UNCHANGED <<relationVars, bookmarks, folders, itemVars, caseVars, accountVars>>

unlike(r) ==
    /\ Arrives(r, "unlike")
    /\ LET m == r.about
       IN  \/ ~MayTakeBack(r.user, m) /\ Refused(r)
           \/ /\ MayTakeBack(r.user, m)
              /\ likes' = likes \ {<<m, r.user>>}
              /\ counts' = [counts EXCEPT ![m].likes = @ - IF <<m, r.user>> \in likes THEN 1 ELSE 0]
              /\ Done(r)
              /\ UNCHANGED <<relationVars, bookmarks, folders, itemVars, caseVars, accountVars>>

-------------------------------------------------------------------------------
(* Comments and replies *)

(* assertVisible without a viewer, and what the request id has led to. *)
readComment(r) ==
    /\ Arrives(r, "comment")
    /\ \/ ~Shown(r.on) /\ Refused(r)
       \/ /\ Shown(r.on)
          /\ IF Replayed(r, Comments)
             THEN Done(r) /\ UNCHANGED <<relationVars, momentVars, itemVars, caseVars, accountVars>>
             ELSE Reads(r, "look", NoSight)

(* What is answered is there, on this moment. *)
Answerable(r) == Shown(r.to) /\ item[r.to].on = r.on

(* The comment that is replied to tells whose rows are locked. *)
lookReply(r) ==
    /\ At(r, "comment", "look")
    /\ Reads(r, "write", [NoSight EXCEPT !.row = IF r.to # Nothing /\ Answerable(r) THEN r.to ELSE Nothing])

Root(c) == IF item[c].root = Nothing THEN c ELSE item[c].root

Concerned(c) == IF c = Nothing THEN {} ELSE {item[c].author, item[Root(c)].author}

(* Mutant of MayReply: what was read before the lock is not read again. *)
MayReplyAsSeen(r) == r.to = Nothing \/ seen[r].row # Nothing

(* Under the lock: it is there still, and an administrator has not hidden  *)
(* the comment it hangs on.                                                *)
MayReply(r) ==
    \/ r.to = Nothing
    \/ /\ r.to # Nothing /\ Answerable(r)
       /\ item[Root(r.to)].state # "ADMIN"
       /\ ~Blocked(r.user, item[r.to].author)

createComment(r) ==
    /\ At(r, "comment", "write")
    /\ LET m == r.on
           possible == MayReact(r.user, m, Concerned(seen[r].row)) /\ AuthorIsThere(m) /\ MayReply(r)
           comment == [state |-> "shown", author |-> r.user, on |-> m,
                       root |-> IF r.to = Nothing THEN Nothing ELSE Root(r.to), key |-> r.what, version |-> 0]
       IN  \/ ~possible /\ Refused(r)
           \/ /\ possible
              /\ IF Replayed(r, Comments)
                 THEN UNCHANGED <<item, counts>>
                 ELSE /\ item' = [item EXCEPT ![r.about] = comment]
                      /\ counts' = [counts EXCEPT ![m].comments = @ + 1]
              /\ Done(r)
              /\ UNCHANGED <<relationVars, likes, bookmarks, folders, public, pinned, unread, hiddenBy,
                             caseVars, accountVars>>

HiddenRoot(c) == item[c].root # Nothing /\ item[item[c].root].state = "ADMIN"

(* Of its author, of the author of the moment, or of an administrator; what *)
(* is removed already stays as it is.                                      *)
MayRemove(r, c) ==
    /\ Written(c) /\ Shown(item[c].on)
    /\ item[c].state # "ADMIN" /\ ~HiddenRoot(c)
    /\ r.user \in {item[c].author, item[item[c].on].author} \/ IsAdmin(r.user)

CommentRemovalBy(r, c) ==
    IF RemovalBy(r, item[c].author) = "AUTHOR" /\ item[item[c].on].author = r.user /\ item[c].author # r.user
    THEN "OWNER"
    ELSE RemovalBy(r, item[c].author)

(* With the replies when an administrator hides it. *)
ReadWith(c, state) == unread \ ({c} \cup {d \in Comments : state = "ADMIN" /\ item[d].root = c})

(* Mutant of removeComment: a comment that is removed already counts again. *)
removeCommentAgain(r) ==
    /\ Arrives(r, "removeComment")
    /\ LET c == r.about
       IN  \/ ~MayRemove(r, c) /\ Refused(r)
           \/ /\ MayRemove(r, c)
              /\ item' = [item EXCEPT ![c].state = CommentRemovalBy(r, c)]
              /\ hiddenBy' = [hiddenBy EXCEPT ![c] = 0]
              /\ unread' = ReadWith(c, CommentRemovalBy(r, c))
              /\ counts' = [counts EXCEPT ![item[c].on].comments = @ - 1]
              /\ Done(r)
              /\ UNCHANGED <<relationVars, likes, bookmarks, folders, public, pinned, caseVars, accountVars>>

removeComment(r) ==
    /\ Arrives(r, "removeComment")
    /\ LET c == r.about
       IN  \/ ~MayRemove(r, c) /\ Refused(r)
           \/ /\ MayRemove(r, c)
              /\ IF Shown(c)
                 THEN /\ item' = [item EXCEPT ![c].state = CommentRemovalBy(r, c)]
                      /\ hiddenBy' = [hiddenBy EXCEPT ![c] = 0]
                      /\ unread' = ReadWith(c, CommentRemovalBy(r, c))
                      /\ counts' = [counts EXCEPT ![item[c].on].comments = @ - 1]
                 ELSE UNCHANGED <<item, hiddenBy, unread, counts>>
              /\ Done(r)
              /\ UNCHANGED <<relationVars, likes, bookmarks, folders, public, pinned, caseVars, accountVars>>

-------------------------------------------------------------------------------
(* Bookmarks *)

(* resolveFolder: one's own; or one of the catalog moments once shared with *)
(* threads, which is copied then; without a name the default folder.       *)
Resolved(r) == IF r.what = "" THEN Default ELSE r.what
CanResolve(r) == r.what = "" \/ <<r.user, r.what>> \in folders \cup plot.legacy

IsBookmarked(u, m) == \E f \in Folders : <<m, u, f>> \in bookmarks
PutInto(u, m, f) == bookmarks' = {b \in bookmarks : b[1] # m \/ b[2] # u} \cup {<<m, u, f>>}

createFolder(r) ==
    /\ Arrives(r, "createFolder")
    /\ folders' = folders \cup {<<r.user, Default>>, <<r.user, r.what>>}
    /\ Done(r)
    /\ UNCHANGED <<relationVars, counts, likes, bookmarks, itemVars, caseVars, accountVars>>

(* A bookmark that is there stays where it is when no folder is named. *)
setBookmark(r) ==
    /\ Arrives(r, "bookmark")
    /\ LET m == r.about
           there == IsBookmarked(r.user, m)
           stays == there /\ (r.what = "" \/ <<m, r.user, r.what>> \in bookmarks)
           possible == MayReact(r.user, m, {}) /\ (stays \/ (AuthorIsThere(m) /\ CanResolve(r)))
       IN  \/ ~possible /\ Refused(r)
           \/ /\ possible
              /\ IF stays
                 THEN UNCHANGED <<bookmarks, folders>>
                 ELSE /\ PutInto(r.user, m, Resolved(r))
                      /\ folders' = folders \cup {<<r.user, Resolved(r)>>}
              /\ counts' = [counts EXCEPT ![m].bookmarks = @ + IF there THEN 0 ELSE 1]
              /\ Done(r)
              /\ UNCHANGED <<relationVars, likes, itemVars, caseVars, accountVars>>

unsetBookmark(r) ==
    /\ Arrives(r, "unbookmark")
    /\ LET m == r.about
       IN  \/ ~MayTakeBack(r.user, m) /\ Refused(r)
           \/ /\ MayTakeBack(r.user, m)
              /\ bookmarks' = {b \in bookmarks : b[1] # m \/ b[2] # r.user}
              /\ counts' = [counts EXCEPT ![m].bookmarks = @ - IF IsBookmarked(r.user, m) THEN 1 ELSE 0]
              /\ Done(r)
              /\ UNCHANGED <<relationVars, likes, folders, itemVars, caseVars, accountVars>>

move(r) ==
    /\ Arrives(r, "move")
    /\ LET m == r.about
           possible == MayReact(r.user, m, {}) /\ AuthorIsThere(m) /\ CanResolve(r) /\ IsBookmarked(r.user, m)
       IN  \/ ~possible /\ Refused(r)
           \/ /\ possible
              /\ PutInto(r.user, m, Resolved(r))
              /\ folders' = folders \cup {<<r.user, Resolved(r)>>}
              /\ Done(r)
              /\ UNCHANGED <<relationVars, counts, likes, itemVars, caseVars, accountVars>>

MomentSteps(r) ==
    \/ readCreate(r) \/ create(r) \/ update(r) \/ removeMoment(r) \/ like(r) \/ unlike(r)
    \/ readComment(r) \/ lookReply(r) \/ createComment(r) \/ removeComment(r)
    \/ createFolder(r) \/ setBookmark(r) \/ unsetBookmark(r) \/ move(r)
===============================================================================
