----------------------------- MODULE UserRelations -----------------------------
(***************************************************************************)
(* UserRelationsService and the deactivation of accounts: who follows and  *)
(* who blocks whom, and who is gone.  A block and its end hold the rows of *)
(* both users, so each is one step.                                        *)
(***************************************************************************)
CONSTANTS Users

VARIABLES
    follows,     \* pairs <<follower, followed>>
    blocks,      \* pairs <<blocker, blocked>>
    gone         \* users whose account is deactivated

relationVars == <<follows, blocks, gone>>

RelationsOK ==
    /\ follows \subseteq Users \X Users
    /\ blocks \subseteq Users \X Users
    /\ gone \subseteq Users

Blocked(u, v) == <<u, v>> \in blocks \/ <<v, u>> \in blocks
MutualFollowers(u, v) == <<u, v>> \in follows /\ <<v, u>> \in follows

follow(u, v) ==
    /\ u # v /\ v \notin gone /\ ~Blocked(u, v)
    /\ follows' = follows \cup {<<u, v>>}
    /\ UNCHANGED <<blocks, gone>>

unfollow(u, v) ==
    /\ follows' = follows \ {<<u, v>>}
    /\ UNCHANGED <<blocks, gone>>

block(u, v) ==
    /\ u # v /\ v \notin gone
    /\ blocks' = blocks \cup {<<u, v>>}
    /\ UNCHANGED <<follows, gone>>

unblock(u, v) ==
    /\ blocks' = blocks \ {<<u, v>>}
    /\ UNCHANGED <<follows, gone>>

deactivate(u) ==
    /\ u \notin gone
    /\ gone' = gone \cup {u}
    /\ UNCHANGED <<follows, blocks>>
===============================================================================
