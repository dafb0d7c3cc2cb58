------------------------------- MODULE MCContent -------------------------------
(***************************************************************************)
(* An owner o, a collaborator c and a guest g on one thread.               *)
(***************************************************************************)
EXTENDS Content, TLC

CONSTANTS o, c, g, none, k

Nothing ==
    [id |-> 0, op |-> "", user |-> o, sub |-> 1, post |-> 0, parent |-> 0, replyTo |-> 0, key |-> none,
     text |-> "a", dice |-> FALSE, order |-> {}, policy |-> "PARTICIPANTS", hash |-> "h", body |-> FALSE,
     ids |-> <<>>, publish |-> FALSE, private |-> {}, on |-> TRUE, target |-> o, role |-> {}]

Does(id, u, op) == [Nothing EXCEPT !.id = id, !.user = u, !.op = op]

(* What the threads begin with *)
S(order, policy) == [live |-> TRUE, order |-> order, policy |-> policy, version |-> 0, key |-> none, hash |-> "h"]
P(kind, s, u, floor, parent) ==
    [kind |-> kind, sub |-> s, parent |-> parent, replyTo |-> 0, floor |-> floor, author |-> u, key |-> none,
     text |-> "z", dice |-> "none", version |-> 0, live |-> TRUE, pinned |-> FALSE]

(* The body, a floor of the collaborator with a reply, and two floors of   *)
(* the second subthread.                                                   *)
StoryPosts ==
    <<P("BODY", 1, o, 0, 0), P("FLOOR", 1, c, 1, 0), P("FLOOR", 1, o, 0, 2),
      P("FLOOR", 2, g, 1, 0), P("FLOOR", 2, o, 2, 0)>>

Story(requests, blocks) ==
    [thread |-> [state |-> "published", private |-> FALSE, version |-> 0],
     role |-> (o :> "OWNER") @@ (c :> "COLLABORATOR") @@ (g :> "PARTICIPANT"),
     player |-> {o},
     sub |-> <<S(0, "PARTICIPANTS"), S(1, "PARTICIPANTS")>>,
     post |-> StoryPosts,
     announced |-> [p \in DOMAIN StoryPosts |-> 1],
     requests |-> requests, blocks |-> blocks, stale |-> FALSE]

Draft(requests, stale) ==
    [Story(requests, {}) EXCEPT
        !.thread.state = "draft",
        !.role = (o :> "OWNER") @@ (c :> "NONE") @@ (g :> "NONE"),
        !.post = <<P("BODY", 1, o, 0, 0), P("FLOOR", 1, o, 1, 0)>>,
        !.announced = <<0, 0>>,
        !.stale = stale]

(* A floor is sent twice under one id and removed, while its subthread is  *)
(* removed and the guest blocked.                                          *)
Floor(id) == [Does(id, g, "createPost") EXCEPT !.sub = 2, !.key = k]
MCFloors ==
    Story({Floor(1), Floor(2), [Does(3, c, "createPost") EXCEPT !.sub = 2],
           [Does(4, o, "removePost") EXCEPT !.post = 5], [Does(5, o, "removeSub") EXCEPT !.sub = 2]},
          {{o, g}})

(* Replies to a floor that is removed, an id that is used for two things,  *)
(* and a removal of the new post between a repeat and its answer.          *)
Reply(id, text) ==
    [Does(id, g, "createPost") EXCEPT !.parent = 2, !.replyTo = 3, !.key = k, !.text = text]
MCReplies ==
    Story({Reply(1, "a"), Reply(2, "a"), Reply(3, "b"),
           [Does(4, c, "removePost") EXCEPT !.post = 2], [Does(5, o, "removePost") EXCEPT !.post = 6]},
          {{c, g}})

(* The draft is published while its owner goes on writing. *)
MCPublishing ==
    Draft({[Does(1, o, "updateThread") EXCEPT !.publish = TRUE],
           [Does(2, o, "createPost") EXCEPT !.sub = 2, !.dice = TRUE],
           [Does(3, o, "upsertBody") EXCEPT !.sub = 2, !.dice = TRUE],
           [Does(4, o, "save") EXCEPT !.dice = TRUE, !.publish = TRUE, !.policy = "PLAYERS"]}, FALSE)

(* ... edited, and removed by its owner or by the clean-up. *)
MCRemoval ==
    Draft({[Does(1, o, "updateThread") EXCEPT !.publish = TRUE],
           [Does(2, o, "updatePost") EXCEPT !.post = 2, !.dice = TRUE],
           [Does(3, o, "createSub") EXCEPT !.body = TRUE, !.dice = TRUE],
           Does(4, o, "removeThread"),
           [Does(5, o, "upsertBody") EXCEPT !.sub = 2]}, TRUE)

(* Two pins where one is allowed, with removals. *)
Pin(id, u, p, on) == [Does(id, u, "setPinned") EXCEPT !.post = p, !.on = on]
MCPins ==
    Story({Pin(1, o, 4, TRUE), Pin(2, c, 5, TRUE), Pin(3, c, 4, FALSE),
           [Does(4, g, "removePost") EXCEPT !.post = 4], [Does(7, c, "removePost") EXCEPT !.post = 4],
           [Does(5, c, "removeSub") EXCEPT !.sub = 2],
           Does(6, o, "removeThread")}, {})

(* Subthreads are made, sorted, moved and removed at the same time. *)
MCOrders ==
    Story({Does(1, o, "createSub"),
           [Does(2, c, "createSub") EXCEPT !.order = {-1}],
           [Does(3, o, "reorder") EXCEPT !.ids = <<1, 3, 2>>],
           [Does(4, o, "updateSub") EXCEPT !.sub = 2, !.order = {2}],
           [Does(5, c, "removeSub") EXCEPT !.sub = 2]}, {})

(* A subthread is made three times under one id and removed twice, in a    *)
(* draft that is removed too.                                              *)
MCRepeats ==
    Draft({[Does(1, o, "createSub") EXCEPT !.key = k],
           [Does(2, o, "createSub") EXCEPT !.key = k],
           [Does(3, o, "createSub") EXCEPT !.key = k, !.hash = "i"],
           [Does(4, o, "removeSub") EXCEPT !.sub = 2], [Does(5, o, "removeSub") EXCEPT !.sub = 2],
           Does(6, o, "removeThread")}, FALSE)

(* Two bodies at once for a subthread that has none. *)
MCBodies ==
    Story({[Does(1, o, "upsertBody") EXCEPT !.sub = 2], [Does(2, c, "upsertBody") EXCEPT !.sub = 2],
           [Does(3, c, "upsertBody") EXCEPT !.text = "b"], [Does(4, o, "save") EXCEPT !.text = "b"],
           [Does(5, o, "updatePost") EXCEPT !.post = 1, !.text = "d"]}, {})

(* A guest comes in while the thread is made private. *)
MCMembers ==
    [Story({Does(1, g, "join"), Does(2, g, "inviteJoin"),
            [Does(3, o, "updateThread") EXCEPT !.private = {TRUE}],
            [Does(4, c, "updateMember") EXCEPT !.target = g],
            Does(5, g, "exitMember"),
            [Does(6, g, "createPost") EXCEPT !.sub = 2]}, {{o, g}})
     EXCEPT !.role = (o :> "OWNER") @@ (c :> "COLLABORATOR") @@ (g :> "NONE"),
            !.post = SubSeq(StoryPosts, 1, 3), !.announced = <<1, 1, 1>>,
            !.sub[2].policy = "PLAYERS"]

(* A draft that is published as private and joined, while it is removed.   *)
MCHasty ==
    Draft({[Does(1, o, "updateThread") EXCEPT !.publish = TRUE, !.private = {TRUE}],
           Does(2, o, "removeThread"), Does(3, g, "inviteJoin"), Does(4, c, "inviteJoin"),
           Does(5, c, "exitMember")}, FALSE)

(* A guest tries what only managers may do. *)
MCGuest ==
    Story({Does(1, g, "save"), [Does(2, g, "reorder") EXCEPT !.ids = <<1, 2>>],
           [Does(3, g, "updateMember") EXCEPT !.target = c],
           [Does(4, o, "updateMember") EXCEPT !.target = g, !.role = {"COLLABORATOR"}],
           [Does(5, o, "updateMember") EXCEPT !.target = o]}, {})

MCPlots ==
    {MCFloors, MCReplies, MCPublishing, MCRemoval, MCPins, MCOrders, MCRepeats, MCBodies,
     MCMembers, MCHasty, MCGuest}
===============================================================================
