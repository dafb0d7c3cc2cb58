------------------------------ MODULE MCCommunity ------------------------------
(* Two members, an administrator and a super administrator; a thread with a *)
(* post, a moment with a comment and a reply; four to six requests a plot.  *)
EXTENDS Community

MCUsers == {"ann", "bob", "mod", "top"}
MCThreads == {"t"}
MCPosts == {"p"}
MCMoments == {"m", "m2", "m3"}
MCComments == {"c", "d", "e", "f"}
MCFolders == {"", "home", "old"}

Row(state, author, on, root) == [state |-> state, author |-> author, on |-> on, root |-> root, key |-> "", version |-> 0]

(* ann's thread and moment, bob's post and comment, ann's reply. *)
MCItem ==
    [i \in MCThreads \cup MCPosts \cup MCMoments \cup MCComments |->
        CASE i = "p" -> Row("shown", "bob", "t", Nothing)
          [] i = "c" -> Row("shown", "bob", "m", Nothing)
          [] i = "d" -> Row("shown", "ann", "m", "c")
          [] i \in {"m2", "m3", "e", "f"} -> Row("none", "ann", Nothing, Nothing)
          [] OTHER -> Row("shown", "ann", Nothing, Nothing)]

MCRole == [u \in MCUsers |-> CASE u = "mod" -> "ADMIN" [] u = "top" -> "SUPER_ADMIN" [] OTHER -> "USER"]

Ask(id, op, user, about) ==
    [id |-> id, op |-> op, user |-> user, about |-> about, on |-> Nothing, to |-> Nothing, n |-> 0, what |-> ""]
With(id, op, user, about, what) == [Ask(id, op, user, about) EXCEPT !.what = what]
Nth(id, op, user, n, what) == [Ask(id, op, user, user) EXCEPT !.n = n, !.what = what]
Comment(id, user, about, to, key) == [Ask(id, "comment", user, about) EXCEPT !.on = "m", !.to = to, !.what = key]

Plain(requests) ==
    [item |-> MCItem, public |-> {"t", "p"}, role |-> MCRole, legacy |-> {<<"bob", "old">>}, reports |-> <<>>,
     cases |-> <<>>, decisions |-> <<>>, appeals |-> <<>>, sanctions |-> <<>>, requests |-> requests]

(* Reactions while the author blocks, leaves and removes. *)
Reactions == Plain(
    {Ask(1, "like", "bob", "m"), Ask(2, "unlike", "bob", "m"), Ask(3, "unlike", "bob", "m"),
     Ask(4, "block", "ann", "bob"), Ask(5, "like", "bob", "m"), Ask(6, "leave", "ann", "ann")})

Bookmarks == Plain(
    {With(1, "bookmark", "bob", "m", ""), With(2, "bookmark", "bob", "m", "old"), Ask(3, "unbookmark", "bob", "m"),
     With(4, "createFolder", "bob", "bob", "home"), With(5, "move", "bob", "m", "home"), Ask(6, "removeMoment", "ann", "m")})

Writing == Plain(
    {With(1, "create", "bob", "m2", "key"), With(2, "create", "bob", "m3", "key"),
     [Ask(3, "update", "bob", "m2") EXCEPT !.n = 1], [Ask(4, "update", "bob", "m2") EXCEPT !.n = 1],
     Ask(5, "hide", "mod", "m2"), Ask(6, "leave", "bob", "bob")})

(* An answer while what it answers is removed, hidden and restored. *)
Answers == Plain(
    {Comment(1, "ann", "e", "c", "key"), Comment(2, "ann", "f", "c", "key"), Ask(3, "removeComment", "bob", "c"),
     Ask(4, "hide", "mod", "c"), Ask(5, "restore", "top", "c"), Ask(6, "block", "bob", "ann")})

AnswersBelow == Plain(
    {Comment(1, "bob", "e", "d", "key"), Ask(2, "removeComment", "mod", "c"), Ask(3, "restore", "top", "c"),
     Ask(4, "removeComment", "ann", "c"), Ask(5, "removeComment", "ann", "d"), Ask(6, "unblock", "bob", "ann")})

Restoring == Plain(
    {Ask(1, "hide", "mod", "m"), Ask(2, "restore", "mod", "m"), Ask(3, "restore", "top", "m"),
     Ask(4, "removeMoment", "ann", "m"), Ask(5, "removeMoment", "mod", "m"), Ask(6, "hide", "top", "d")})

(* Threads and posts, and their authors. *)
Shelves == Plain(
    {Ask(1, "hide", "mod", "p"), Ask(2, "restore", "mod", "p"), Ask(3, "hide", "mod", "t"),
     Ask(4, "restore", "top", "t"), Ask(5, "withdraw", "ann", "t"), Ask(6, "withdraw", "bob", "p")})

(* Reports that meet each other, and the case they belong to. *)
Reporting == Plain(
    {Ask(1, "report", "bob", "m"), Ask(2, "report", "bob", "m"), Ask(3, "report", "top", "m"),
     Nth(4, "resolveCase", "mod", 1, "DISMISSED"), Nth(5, "resolveReport", "mod", 1, "RESOLVED")})

OpenCase(t) ==
    [Plain({}) EXCEPT !.cases = <<[target |-> t, status |-> "OPEN"]>>,
                      !.reports = <<[reporter |-> "bob", target |-> t, status |-> "PENDING", case |-> 1]>>]

(* Two administrators resolve a case and a report of it; the author appeals. *)
Resolving(t, measure) ==
    [OpenCase(t) EXCEPT !.requests =
        {Nth(1, "resolveCase", "mod", 1, measure), Nth(2, "resolveCase", "top", 1, "BAN_USER"),
         Nth(3, "resolveReport", "mod", 1, IF t = "ann" THEN "BAN_USER" ELSE "HIDE_CONTENT"), Nth(4, "appeal", "ann", 1, ""),
         Nth(5, "resolveAppeal", "top", 1, "OVERTURNED"), Nth(6, "resolveAppeal", "mod", 1, "OVERTURNED")}]

(* An appeal is answered while what it is about changes. *)
Answering(t, measure) ==
    [OpenCase(t) EXCEPT
        !.item[IF t = "ann" THEN "m" ELSE t].state = IF t = "ann" THEN "shown" ELSE "ADMIN",
        !.cases[1].status = "RESOLVED", !.reports[1].status = "RESOLVED",
        !.decisions = <<[target |-> t, action |-> measure, active |-> TRUE, case |-> 1]>>,
        !.appeals = <<[decision |-> 1, status |-> "PENDING"]>>,
        !.sanctions = IF t = "ann"
                      THEN <<[user |-> "ann", ban |-> FALSE, ended |-> FALSE, revoked |-> FALSE, decision |-> 1]>>
                      ELSE <<>>,
        !.requests =
            {Nth(1, "resolveAppeal", "top", 1, "OVERTURNED"), Nth(2, "resolveAppeal", "mod", 1, "UPHELD"),
             Ask(3, "restore", "mod", IF t = "ann" THEN "c" ELSE t), Ask(4, "hide", "mod", IF t = "ann" THEN "c" ELSE t),
             With(5, "sanction", "mod", "ann", "BAN_USER"), Ask(6, "revokeSanction", "top", "ann")}]

Punishing == Plain(
    {With(1, "sanction", "mod", "bob", "SUSPEND_USER"), With(2, "sanction", "top", "bob", "BAN_USER"),
     Ask(3, "revokeSanction", "mod", "bob"), Ask(4, "revokeSanction", "top", "bob"),
     With(5, "sanction", "mod", "top", "BAN_USER"), With(6, "sanction", "top", "bob", "SUSPEND_USER")})

Staff == Plain(
    {Ask(1, "invite", "top", "bob"), Nth(2, "acceptInvite", "bob", 1, ""), Nth(3, "cancelInvite", "top", 1, ""),
     Ask(4, "transfer", "top", "mod"), Ask(5, "transfer", "top", "bob"), Ask(6, "dismiss", "top", "mod")})

MCPlots ==
    {Reactions, Bookmarks, Writing, Answers, AnswersBelow, Restoring, Shelves, Reporting,
     Resolving("m", "HIDE_CONTENT"), Resolving("d", "HIDE_CONTENT"), Resolving("ann", "SUSPEND_USER"),
     Answering("c", "HIDE_CONTENT"), Answering("t", "HIDE_CONTENT"), Answering("ann", "SUSPEND_USER"),
     Punishing, Staff}
===============================================================================
