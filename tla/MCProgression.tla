----------------------------- MODULE MCProgression -----------------------------
(***************************************************************************)
(* Two users in histories of a few events, which two workers hand to the   *)
(* listener.  The deltas and counters are the ones of the code, the caps   *)
(* and thresholds smaller, so that both are reached.                       *)
(***************************************************************************)
EXTENDS Progression, TLC

CONSTANTS w1, w2

MCThresholds == <<0, 4, 17>>

Rule(delta, cap, counter) == [delta |-> delta, dailyCap |-> cap, counter |-> counter]

MCRules ==
    [DAILY_CHECK_IN |-> Rule(2, 1, "checkInCount"),
     THREAD_PUBLISHED |-> Rule(30, 1, "threadPublishCount"),
     PRIVATE_THREAD_ACTIVATED |-> Rule(15, 1, "threadPublishCount"),
     POST_CREATED |-> Rule(3, 1, "postCreateCount"),
     THREAD_REPLY_RECEIVED |-> Rule(2, 1, "receivedReplyCount"),
     THREAD_LIKED |-> Rule(2, 1, "receivedLikeCount"),
     MOMENT_PUBLISHED |-> Rule(4, 1, "momentPublishCount"),
     MOMENT_COMMENT_CREATED |-> Rule(2, 1, "momentCommentCount"),
     MOMENT_REPLY_RECEIVED |-> Rule(1, 1, "momentReplyReceivedCount"),
     TIP_SENT |-> Rule(1, 1, "tipSentCount"),
     TIP_RECEIVED |-> Rule(2, 2, "tipReceivedCount")]

Post(id, u, owner, thread) ==
    [kind |-> "post.created", id |-> id, user |-> u, owner |-> owner, thread |-> thread,
     private |-> TRUE, isSubthreadBody |-> FALSE, day |-> 1]
Tip(id, u, v) == [kind |-> "tip.completed", id |-> id, user |-> u, owner |-> v, day |-> 1]
Published(id, u) ==
    [kind |-> "thread.published", id |-> id, user |-> u, private |-> FALSE, day |-> 1]

Moment(id, u) == [kind |-> "moment.created", id |-> id, user |-> u, day |-> 1]
Comment(id, u, v) == [kind |-> "moment.comment.created", id |-> id, user |-> u, owner |-> v, day |-> 1]
Like(thread, u, v) == [kind |-> "thread.liked", thread |-> thread, user |-> u, owner |-> v, day |-> 1]

(* Tips in both directions; a private thread and a published one that      *)
(* compete for the one thread counter of user 2; a moment with a comment,  *)
(* and a like.                                                             *)
MCHistories ==
    {{Tip("t1", 1, 2), Tip("t2", 2, 1)},
     {Post("p1", 1, 2, "th"), Published("th2", 2)},
     {Moment("m1", 1), Comment("c1", 2, 1)},
     {Like("th", 1, 2)}}

MCTypes == DOMAIN MCRules

WorkerSymmetry == Permutations(Workers)
===============================================================================
