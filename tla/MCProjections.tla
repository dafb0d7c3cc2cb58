------------------------------ MODULE MCProjections ------------------------------
EXTENDS Projections

MCUsers == {"ann", "bob", "cat"}
MCThreads == 1..3
MCPosts == 11..14
MCHandlers == {"h1", "h2"}

(* Threads 1 and 2 are ann's, thread 3 is bob's; bob plays in ann's, cat    *)
(* takes part.                                                              *)
Row_(owner, n) == [owner |-> owner, published |-> TRUE, live |-> TRUE, private |-> FALSE, stamp |-> n]
Threads_ == [t \in MCThreads |-> Row_(IF t = 3 THEN "bob" ELSE "ann", t)]
Roles_ == [t \in MCThreads |-> [u \in MCUsers |-> IF u = Threads_[t].owner THEN "OWNER" ELSE "PARTICIPANT"]]
Post_(made, author, thread_, parent, names) ==
    [made |-> made, up |-> TRUE, author |-> author, thread |-> thread_, parent |-> parent, replyTo |-> 0, names |-> names]

(* Post 11 is ann's floor in thread 1; 12 answers it; 13 and 14 are floors. *)
Posts_ ==
    (11 :> Post_(TRUE, "ann", 1, 0, {}) @@ 12 :> Post_(FALSE, "bob", 1, 11, {"cat"})
     @@ 13 :> Post_(FALSE, "ann", 1, 0, {"all"}) @@ 14 :> Post_(FALSE, "cat", 1, 0, {"bob"}))

Plain(requests) ==
    [thread |-> Threads_, role |-> Roles_, player |-> [t \in MCThreads |-> {"bob", Threads_[t].owner}], post |-> Posts_,
     follows |-> {<<"bob", "cat">>, <<"cat", "ann">>}, subscribed |-> {}, ranked |-> <<>>, requests |-> requests,
     faults |-> 0, handlers |-> {"h1"}, discreet |-> {}, rebuilds |-> FALSE]

Ask(id, op, u) == [id |-> id, op |-> op, user |-> u, thread |-> 1, post |-> 0, target |-> u, names |-> {}, n |-> 1]
Of(id, op, u, t) == [Ask(id, op, u) EXCEPT !.thread = t]
On(id, op, u, p) == [Ask(id, op, u) EXCEPT !.post = p]
To(id, op, u, v) == [Ask(id, op, u) EXCEPT !.target = v]
Edit(id, u, p, names) == [On(id, "edit", u, p) EXCEPT !.names = names]

(* Two deliveries of an answer that names one who is not answered. *)
Answering == [Plain({On(1, "create", "bob", 12)}) EXCEPT !.handlers = MCHandlers, !.faults = 2]
Naming == [Plain({On(1, "create", "bob", 12), Edit(2, "bob", 12, {"ann"}), Ask(3, "readAll", "cat")}) EXCEPT !.faults = 1]

(* All players, and who manages, plays or subscribes, while roles change. *)
Gathering == [Plain({On(1, "create", "ann", 13), On(2, "create", "cat", 14), To(3, "mark", "ann", "cat")})
    EXCEPT !.subscribed = {<<"cat", 1, Nobody>>, <<"bob", 1, "cat">>}, !.role[1]["cat"] = "NONE"]
Subscribing == [Plain({On(1, "create", "bob", 12), To(2, "promote", "ann", "cat"), To(3, "demote", "ann", "cat"),
                       To(4, "exit", "cat", "cat"), To(5, "unmark", "ann", "bob")})
    EXCEPT !.subscribed = {<<"cat", 1, "bob">>}, !.player[1] = MCUsers]
Parting == [Plain({On(1, "create", "ann", 13), To(2, "block", "cat", "ann"), To(3, "unblock", "cat", "ann"),
                   To(4, "deactivate", "bob", "bob"), To(5, "unfollow", "bob", "cat")})
    EXCEPT !.subscribed = {<<"cat", 1, Nobody>>}]

(* A like may come back after the notice has forgotten it, or while its     *)
(* owner reads.                                                            *)
Liking == [Plain({Ask(1, "like", "bob"), Ask(2, "like", "cat"), Ask(3, "unlike", "bob"), Ask(4, "like", "bob")})
    EXCEPT !.handlers = MCHandlers, !.faults = 1]
Attending == [Plain({Ask(1, "like", "bob"), Ask(2, "like", "cat"), Ask(3, "read", "ann")})
    EXCEPT !.handlers = MCHandlers, !.faults = 1]
Recounting == [Plain({Ask(1, "like", "bob"), Ask(2, "like", "cat"), Ask(3, "unread", "ann"), Ask(4, "read", "ann")})
    EXCEPT !.faults = 1]

Publishing == [Plain({Ask(1, "publish", "ann"), To(2, "follow", "bob", "ann"), Ask(3, "close", "ann"),
                      Ask(4, "list", "cat"), To(5, "block", "bob", "ann"), [Ask(6, "list", "bob") EXCEPT !.n = 2]})
    EXCEPT !.thread[1].published = FALSE, !.role[1]["cat"] = "NONE"]

Removing == Plain({On(1, "create", "bob", 12), On(2, "hidePost", "ann", 11), On(3, "restorePost", "ann", 11),
                   Ask(4, "list", "cat"), Ask(5, "remove", "cat")})
Leaving == Plain({On(1, "create", "bob", 12), On(2, "removePost", "bob", 12), Ask(3, "hideThread", "ann"),
                  Ask(4, "restoreThread", "ann"), Ask(5, "unread", "ann")})

(* A delivery that has lost its lease goes on while the thread changes. *)
Straying == [Plain({On(1, "create", "bob", 12), To(2, "promote", "ann", "cat")})
    EXCEPT !.handlers = MCHandlers, !.faults = 1, !.post[12].names = {}]

(* An announcement, while users leave. *)
Announcing == [Plain({Ask(1, "announce", "ann"), To(2, "deactivate", "bob", "bob"), To(3, "deactivate", "cat", "cat"),
                      [Ask(4, "remove", "cat") EXCEPT !.n = 2], Ask(5, "readAll", "bob")})
    EXCEPT !.handlers = {}, !.faults = 1]

(* The ranking is lost, rebuilt and read. *)
Ranking == [Plain({Ask(1, "recommended", "bob"), [Ask(2, "recommended", "cat") EXCEPT !.n = 2]})
    EXCEPT !.rebuilds = TRUE, !.handlers = {}, !.ranked = <<1, 3, 2>>, !.faults = 1]
Rebuilding_ == [Plain({Ask(1, "recommended", "bob"), Of(2, "publish", "ann", 2), Of(3, "removeThread", "bob", 3)})
    EXCEPT !.rebuilds = TRUE, !.handlers = {}, !.thread[2].published = FALSE, !.faults = 1]
Forgetting == [Plain({Ask(1, "recommended", "bob"), On(2, "create", "bob", 12)})
    EXCEPT !.rebuilds = TRUE, !.handlers = {}, !.ranked = <<1, 3, 2>>, !.faults = 2]

Paging == [Plain({Ask(1, "created", "cat"), Ask(2, "active", "cat"), On(3, "create", "bob", 12), Of(4, "removeThread", "bob", 3)})
    EXCEPT !.handlers = {}]
Searching == [Plain({Ask(1, "collaborated", "cat"), Ask(2, "search", "cat"), On(3, "create", "bob", 12), Of(4, "removeThread", "bob", 3)})
    EXCEPT !.handlers = {}, !.role[1]["cat"] = "COLLABORATOR", !.role[2]["cat"] = "COLLABORATOR",
           !.role[3]["cat"] = "COLLABORATOR"]
Written == [Posts_ EXCEPT ![12].made = TRUE, ![13].made = TRUE, ![14].made = TRUE, ![14].parent = 11]
Scrolling == [Plain({Ask(1, "floors", "cat"), On(2, "replies", "cat", 11), Ask(3, "searchPosts", "cat"),
                     On(4, "removePost", "ann", 13), To(5, "block", "cat", "bob"), Ask(6, "removeThread", "ann")})
    EXCEPT !.handlers = {}, !.post = Written]

(* Profiles: of ann and bob to cat, and of cat, who tells nobody where she *)
(* plays, and who joins a thread that is closed afterwards.                *)
Visiting_ == [Plain({[Of(1, "played", "cat", 1) EXCEPT !.target = "bob"], To(2, "made", "cat", "ann"),
                     To(4, "replied", "bob", "cat"), To(5, "played", "ann", "cat"), On(6, "create", "cat", 14),
                     Ask(7, "close", "ann")})
    EXCEPT !.handlers = {}, !.role[1]["cat"] = "NONE", !.player[3] = {"bob", "cat"}, !.discreet = {<<"cat", "played">>}]

(* A thread is opened by a member and by others while visits are stored and *)
(* lost, and one is closed and one removed.                                 *)
Opening == [Plain({Of(1, "open", "bob", 2), Ask(2, "visit", "bob"), Ask(3, "visit", "cat"), Of(4, "removeThread", "ann", 2)})
    EXCEPT !.rebuilds = TRUE, !.handlers = {}, !.faults = 1]
Visited == [Plain({Ask(1, "visit", "bob"), Ask(2, "visit", "cat"), Ask(3, "close", "ann")})
    EXCEPT !.rebuilds = TRUE, !.handlers = {}, !.faults = 2, !.thread[2].published = FALSE, !.thread[3].live = FALSE]

(* Too much to export, until bob is blocked or a floor is gone. *)
Told_ == [Posts_ EXCEPT ![12].made = TRUE, ![13].made = TRUE, ![14] = [Post_(TRUE, "cat", 1, 11, {}) EXCEPT !.replyTo = 12]]
Exporting_ == [Plain({Ask(1, "export", "ann"), Of(2, "export", "ann", 2), On(3, "removePost", "ann", 13),
                      To(4, "block", "ann", "bob"), Ask(5, "removeThread", "ann")})
    EXCEPT !.handlers = {}, !.faults = 1, !.post = Told_]

MCPlots ==
    {Answering, Naming, Gathering, Subscribing, Parting, Liking, Attending, Recounting, Straying, Publishing, Removing, Leaving,
     Ranking, Rebuilding_, Forgetting, Paging, Searching, Scrolling, Announcing, Exporting_, Visiting_, Opening, Visited}
===============================================================================
