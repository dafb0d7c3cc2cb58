------------------------------ MODULE Community -------------------------------
(***************************************************************************)
(* Members publish moments, comment and react; administrators hide and       *)
(* restore, close reports and cases and sanction; and users block each       *)
(* other and leave meanwhile.  A plot says what there is and who asks what.  *)
(* The views say what the lists show to a viewer v, and what the station     *)
(* shows to administrators.                                                  *)
(***************************************************************************)
EXTENDS Moderation

-------------------------------------------------------------------------------
(* Moments *)

(* momentViewerVisibility *)
VisibleMoment(v, m) == Shown(m) /\ ~Blocked(v, item[m].author)

(* loadCards *)
Cards(v, S, activeAuthor) ==
    {m \in S : VisibleMoment(v, m) /\ (activeAuthor => item[m].author \notin gone)}

(* listFeed, of everybody or of those v follows. *)
Feed(v, following) ==
    Cards(v, {m \in Moments : Written(m) /\ (following => <<v, item[m].author>> \in follows)}, TRUE)

UserMoments(v, u) ==
    IF u \in gone \/ Blocked(v, u) THEN {} ELSE Cards(v, {m \in Moments : item[m].author = u}, FALSE)

SearchMoments(v) == Cards(v, Moments, FALSE)

(* MomentBookmarksService.list *)
BookmarksOf(v, owner) ==
    IF owner \in gone \/ Blocked(v, owner)
    THEN {}
    ELSE {m \in Moments : IsBookmarked(owner, m) /\ VisibleMoment(v, m)}

-------------------------------------------------------------------------------
(* Comments *)

VisibleAuthor(v, c) == ~Blocked(v, item[c].author)
IsRoot(c) == item[c].root = Nothing
OpenReplies(v, c) == {d \in Comments : Shown(d) /\ item[d].root = c /\ VisibleAuthor(v, d)}

(* listRoots: a removed comment stays as long as it has replies; one that  *)
(* an administrator has hidden takes them along.                           *)
Roots(v, m) ==
    {c \in Comments : /\ Written(c) /\ item[c].on = m /\ IsRoot(c)
                      /\ item[c].state # "ADMIN"
                      /\ VisibleAuthor(v, c)
                      /\ Shown(c) \/ OpenReplies(v, c) # {}}

(* listReplies *)
Replies(v, c) ==
    IF Written(c) /\ IsRoot(c) /\ item[c].state # "ADMIN" /\ VisibleAuthor(v, c) THEN OpenReplies(v, c) ELSE {}

(* listAuthors *)
CommentAuthors(v, m) ==
    {item[c].author : c \in {d \in Comments :
        /\ Shown(d) /\ item[d].on = m /\ VisibleAuthor(v, d)
        /\ \/ IsRoot(d)
           \/ item[item[d].root].state # "ADMIN" /\ VisibleAuthor(v, item[d].root)}}

(* findContext: the thread of replies a link to a comment leads to. *)
HasContext(v, m, c) ==
    /\ Shown(c) /\ item[c].on = m /\ VisibleAuthor(v, c)
    /\ IsRoot(c) \/ VisibleAuthor(v, item[c].root)
    /\ item[Root(c)].state # "ADMIN"

-------------------------------------------------------------------------------
(* The station *)

(* listHiddenContent, and what it says of each: canRestore. *)
HiddenContent == {i \in Items : HiddenByAdmin(i)}
OffersRestore(i) ==
    /\ i \in Threads => i \in public
    /\ i \in Posts => i \in public /\ item[i].on \in public /\ Shown(item[i].on)
    /\ i \in Comments => Shown(item[i].on)

(* listUsers by status; and the status it shows, that of the newest        *)
(* sanction in effect.                                                     *)
Status(s) == IF sanction[s].ban THEN "BANNED" ELSE "SUSPENDED"
UsersListed(status) ==
    {u \in Users \ gone :
        IF status = "ACTIVE" THEN EffectiveOf(u) = {} ELSE \E s \in EffectiveOf(u) : Status(s) = status}
ModerationStatus(u) ==
    IF EffectiveOf(u) = {}
    THEN "ACTIVE"
    ELSE Status(CHOOSE s \in EffectiveOf(u) : \A other \in EffectiveOf(u) : other <= s)

(* listMyDecisions: what one may appeal against, and what was. *)
MyDecisions(u) == {d \in DOMAIN decision : Owner(decision[d].target) = u}

-------------------------------------------------------------------------------
blockUser(r) ==
    /\ Arrives(r, "block")
    /\ block(r.user, r.about)
    /\ Done(r)
    /\ UNCHANGED <<momentVars, itemVars, caseVars, accountVars>>

unblockUser(r) ==
    /\ Arrives(r, "unblock")
    /\ unblock(r.user, r.about)
    /\ Done(r)
    /\ UNCHANGED <<momentVars, itemVars, caseVars, accountVars>>

leave(r) ==
    /\ Arrives(r, "leave")
    /\ deactivate(r.user)
    /\ tokens' = tokens \ {r.user}
    /\ Done(r)
    /\ UNCHANGED <<momentVars, itemVars, caseVars, sanction, role, invite, stations>>

-------------------------------------------------------------------------------

Init ==
    /\ plot \in Plots
    /\ follows = {} /\ blocks = {} /\ gone = {}
    /\ item = plot.item
    /\ public = plot.public /\ pinned = {p \in Posts \cap plot.public : plot.item[p].state = "shown"}
    /\ counts = [m \in Moments |->
                    [comments |-> Cardinality({c \in Comments : plot.item[c].state = "shown" /\ plot.item[c].on = m}),
                     likes |-> 0, bookmarks |-> 0]]
    /\ likes = {} /\ bookmarks = {} /\ folders = {}
    /\ unread = {i \in Items : plot.item[i].state = "shown"}
    /\ case = plot.cases /\ report = plot.reports /\ decision = plot.decisions
    /\ appeal = plot.appeals /\ sanction = plot.sanctions
    /\ hiddenBy = HiderAtFirst(plot)
    /\ role = plot.role /\ invite = <<>>
    /\ tokens = Users
    /\ stations = {u \in Users : plot.role[u] # "USER"}
    /\ pc = [r \in plot.requests |-> "new"]
    /\ seen = [r \in plot.requests |-> NoSight]

Next ==
    \/ \E r \in Requests :
          /\ r \in plot.requests
          /\ \/ MomentSteps(r) \/ ModerationSteps(r) \/ CaseSteps(r)
             \/ blockUser(r) \/ unblockUser(r) \/ leave(r)
    \/ \E s \in DOMAIN sanction : suspensionEnds(s)
    \/ \E n \in DOMAIN invite : inviteRunsOut(n)

Spec == Init /\ [][Next]_vars

-------------------------------------------------------------------------------
(* Properties *)

TypeOK ==
    /\ RelationsOK
    /\ item \in [Items -> ItemRows]
    /\ public \subseteq Items /\ pinned \subseteq Posts /\ unread \subseteq Items
    /\ counts \in [Moments -> ReactionCounts]
    /\ bookmarks \subseteq Moments \X Users \X Folders
    /\ \A c \in DOMAIN case : case[c] \in CaseRows
    /\ \A n \in DOMAIN report : report[n] \in ReportRows
    /\ \A d \in DOMAIN decision : decision[d] \in DecisionRows
    /\ \A a \in DOMAIN appeal : appeal[a] \in AppealRows
    /\ \A s \in DOMAIN sanction : sanction[s] \in SanctionRows
    /\ \A n \in DOMAIN invite : invite[n] \in InviteRows
    /\ role \in [Users -> Roles]

(* The numbers a moment shows are those of the reactions that are there,   *)
(* whatever was removed, hidden and restored in whatever order: they are   *)
(* kept by increments of five operations in three services.                *)
CountsAgree ==
    /\ TypeOK
    /\ \A m \in Moments :
          counts[m] = [comments |-> Cardinality({c \in Comments : Shown(c) /\ item[c].on = m}),
                       likes |-> Cardinality({l \in likes : l[1] = m}),
                       bookmarks |-> Cardinality({b \in bookmarks : b[1] = m})]

(* The lists agree with each other: whose comments can be filtered by, and *)
(* which links lead to a comment, are those of the comments a viewer can   *)
(* page to; the station offers what it can do; a user listed as sanctioned *)
(* is shown as that; and what administrators hide is neither pinned nor    *)
(* unread.                                                                 *)
ListsAgree ==
    /\ \A v \in Users, m \in Moments :
          LET paged == UNION {({c} \cap {d \in Comments : Shown(d)}) \cup Replies(v, c) : c \in Roots(v, m)}
          IN  VisibleMoment(v, m) => /\ CommentAuthors(v, m) = {item[c].author : c \in paged}
                                     /\ {c \in Comments : HasContext(v, m, c)} = paged
    /\ \A v \in Users : Feed(v, TRUE) \subseteq Feed(v, FALSE)
    /\ \A v \in Users, u \in Users : UserMoments(v, u) \cup BookmarksOf(v, u) \subseteq SearchMoments(v)
    /\ \A i \in HiddenContent : OffersRestore(i) <=> CanRestore(i)
    /\ \A status \in {"ACTIVE", "SUSPENDED", "BANNED"} :
          UsersListed(status) = {u \in Users \ gone : ModerationStatus(u) = status}
    /\ (pinned \cup unread) \cap HiddenContent = {}

(* Numbers and lists agree with what is there, and with each other.        *)
ViewsAgree == CountsAgree /\ ListsAgree

(* A moment or a comment that its author, or the author of the moment, has *)
(* removed does not come back: administrators only restore what they hide, *)
(* and look at it again when they hold the lock.                           *)
RemovalsStand ==
    [][\A i \in Moments \cup Comments : item[i].state \in {"AUTHOR", "OWNER"} => item'[i].state = item[i].state]_vars

(* Nobody reacts to a moment that is gone, or across a block, or answers a *)
(* comment that is removed or stands below a hidden one, though the answer *)
(* was allowed when the request read it.                                   *)
MayMeet(u, m) == Shown(m) /\ ~Blocked(u, item[m].author) /\ {u, item[m].author} \cap gone = {}
NobodyIntrudes ==
    [][/\ \A l \in likes' \ likes : MayMeet(l[2], l[1])
       /\ \A b \in bookmarks' \ bookmarks : IsBookmarked(b[2], b[1]) \/ MayMeet(b[2], b[1])
       /\ \A r \in plot.requests :
             r.op = "comment" /\ ~Written(r.about) /\ item'[r.about].state = "shown"
             => /\ MayMeet(r.user, r.on)
                /\ r.to # Nothing => /\ Shown(r.to) /\ ~Blocked(r.user, item[r.to].author)
                                     /\ item[Root(r.to)].state # "ADMIN"]_vars

(* One pending report of a user about a target, one open case about it,    *)
(* one open sanction of a user, one super administrator; and what an       *)
(* appeal has undone is undone: nothing is hidden, and nobody sanctioned,  *)
(* by a decision that was reversed.                                        *)
CasesHold ==
    /\ \A t \in Targets : Cardinality(OpenCases(t)) <= 1
    /\ \A u \in Users, t \in Targets : Cardinality(PendingReports(u, t)) <= 1
    /\ \A u \in Users : Cardinality(OpenOf(u)) <= 1
    /\ Cardinality({u \in Users \ gone : role[u] = "SUPER_ADMIN"}) <= 1
    /\ \A d \in DOMAIN decision : ~decision[d].active =>
          /\ \A i \in Items : HiddenByAdmin(i) => hiddenBy[i] # d
          /\ \A s \in ImposedBy(d) : sanction[s].revoked
===============================================================================
