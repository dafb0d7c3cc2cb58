------------------------------ MODULE ThreadState ------------------------------
(***************************************************************************)
(* One thread with its members, subthreads and posts, and the requests     *)
(* that work on it.                                                        *)
(*                                                                         *)
(* Every command has the same course.  It reads and checks outside of its  *)
(* transaction (an action read...).  The transaction then locks the rows   *)
(* of the users concerned, the thread's owner among them, in the order of  *)
(* their ids, and checks blocks and access (Lock).  Then it locks the      *)
(* thread row, checks what it checks again, and writes (an action named    *)
(* after the method).  Removals take the thread's lock only, so they come  *)
(* between the others' locks.  Isolation is READ COMMITTED.                *)
(***************************************************************************)
EXTENDS Integers, Sequences, FiniteSetsExt

CONSTANTS
    Users,
    Owner,       \* the owner of the thread
    Keys,        \* clientRequestIds
    NoKey,       \* no clientRequestId
    Texts,       \* contents of posts, hashes of requests
    MaxPinned,   \* MAX_PINNED_FLOORS: 10
    Plots        \* bound: the thread as it is found, and who does what, see PlotFields

States == {"draft", "published", "deleted", "erased"}
Roles == {"NONE", "PARTICIPANT", "COLLABORATOR", "OWNER"}
Policies == {"PARTICIPANTS", "PLAYERS", "COLLABORATORS"}

SubthreadRows ==
    [live : BOOLEAN, order : Int, policy : Policies, version : Nat,
     key : Keys \cup {NoKey}, hash : Texts]

PostRows ==
    [kind : {"FLOOR", "BODY"}, sub : Nat, parent : Nat, replyTo : Nat, floor : Nat,
     author : Users, key : Keys \cup {NoKey}, text : Texts,
     dice : {"none", "pending", "rolled"}, version : Nat, live : BOOLEAN, pinned : BOOLEAN]

(* What clients send; an optional value is a set of at most one. *)
Commands ==
    [id : Nat, op : STRING, user : Users, sub : Nat, post : Nat, parent : Nat, replyTo : Nat,
     key : Keys \cup {NoKey}, text : Texts, hash : Texts, dice : BOOLEAN, body : BOOLEAN,
     order : SUBSET Int, policy : Policies, ids : Seq(Nat), publish : BOOLEAN,
     private : SUBSET BOOLEAN, on : BOOLEAN, target : Users,
     role : SUBSET {"PARTICIPANT", "COLLABORATOR"}]

(* A plot is a thread in a state the program can bring it to, the requests *)
(* that are made, the pairs of users that may block each other and whether *)
(* the draft is old enough for the clean-up job.                           *)
PlotFields == {"thread", "role", "player", "sub", "post", "announced", "requests", "blocks", "stale"}

ASSUME ThreadStateAssumption ==
    /\ Owner \in Users
    /\ NoKey \notin Keys
    /\ MaxPinned \in Nat \ {0}
    /\ \A p \in Plots : PlotFields \subseteq DOMAIN p

Requests == UNION {p.requests : p \in Plots}

VARIABLES
    plot,
    thread,      \* state (draft, published, deleted, erased), private, version
    role,        \* role[u]: NONE or the role in thread_members
    player,      \* members with player_marked
    sub,         \* the subthreads in the order of creation; 1 is the default one
    post,        \* the posts in the order of creation
    announced,   \* announced[p]: the post.created events of post p
    blocked,     \* pairs of users with a block between them
    pc,          \* pc[r]: new, read, locked, raced or the outcome
    seen,        \* seen[r]: what r read before its transaction
    answer       \* answer[r]: the post or subthread r was answered with

contentVars == <<thread, role, player, sub, post, announced>>
requestVars == <<pc, seen, answer>>
vars == <<plot, contentVars, blocked, requestVars>>

Outcomes == {"done", "refused", "error"}

-------------------------------------------------------------------------------
(* Looking at the thread *)

SubLive(s) == s \in DOMAIN sub /\ sub[s].live
PostLive(p) == p \in DOMAIN post /\ post[p].live
ParentGone(p) == post[p].parent # 0 /\ ~post[post[p].parent].live
LiveSubs == {s \in DOMAIN sub : sub[s].live}
MainFloor(x) == x.kind = "FLOOR" /\ x.parent = 0
IsMainFloor(p) == MainFloor(post[p])
BodiesIn(posts, s) == {p \in DOMAIN posts : posts[p].kind = "BODY" /\ posts[p].sub = s /\ posts[p].live}
Bodies(s) == BodiesIn(post, s)

(* The body the code takes, and its version; 0 if there is none. *)
BodyOf(s) == IF Bodies(s) = {} THEN 0 ELSE Min(Bodies(s))
VersionOf(p) == IF p = 0 THEN 0 ELSE post[p].version

(* assertAccessible: a draft is its owner's, a private thread its members',*)
(* and a block between the owner and the user hides it.                    *)
Accessible(u) ==
    /\ thread.state \in {"draft", "published"}
    /\ {u, Owner} \notin blocked
    /\ thread.state = "draft" => u = Owner
    /\ thread.state = "published" /\ thread.private => role[u] # "NONE"

IsManager(u) == role[u] \in {"OWNER", "COLLABORATOR"}
CanManage(u) == Accessible(u) /\ IsManager(u)

(* PostingPolicyService.evaluate *)
CanPost(u, s) ==
    \/ u = Owner \/ IsManager(u)
    \/ sub[s].policy = "PARTICIPANTS"
    \/ sub[s].policy = "PLAYERS" /\ u \in player

-------------------------------------------------------------------------------
(* The course of a request *)

NoSight == [published |-> FALSE, version |-> 0, body |-> 0, bodyVersion |-> 0, subVersion |-> 0]

Goto(r, place) ==
    /\ pc' = [pc EXCEPT ![r] = place]
    /\ UNCHANGED <<seen, answer, plot, blocked>>

Finish(r, outcome, n) ==
    /\ pc' = [pc EXCEPT ![r] = outcome]
    /\ seen' = [seen EXCEPT ![r] = NoSight]
    /\ answer' = [answer EXCEPT ![r] = n]
    /\ UNCHANGED <<plot, blocked>>

Refuse(r) == Finish(r, "refused", 0) /\ UNCHANGED contentVars
Break(r) == Finish(r, "error", 0) /\ UNCHANGED contentVars

(* The checks before the transaction; what is read there is kept. *)
Read(r, allowed, sight) ==
    /\ r \in plot.requests
    /\ pc[r] = "new"
    /\ \/ /\ ~allowed
          /\ Refuse(r)
       \/ /\ allowed
          /\ pc' = [pc EXCEPT ![r] = "read"]
          /\ seen' = [seen EXCEPT ![r] = sight]
          /\ UNCHANGED <<answer, contentVars, plot, blocked>>

(* Whoever wrote the post, if there is such a post. *)
Author(p) == IF p \in DOMAIN post THEN {post[p].author} ELSE {}

(* Whom a request interacts with besides the owner. *)
Targets(r) ==
    CASE r.op = "createPost" -> Author(r.parent) \cup Author(r.replyTo)
      [] r.op \in {"upsertBody", "save"} -> Author(seen[r].body)
      [] r.op = "setPinned" /\ r.on -> Author(r.post)
      [] r.op = "updateMember" -> {r.target}
      [] OTHER -> {}

LockedUsers(r) == {r.user, Owner} \cup Targets(r)
Locking == {r \in Requests : pc[r] = "locked"}
WithoutUserLocks == {"removePost", "removeThread", "exitMember"}

(* assertInteractionAllowed and assertAccessible under the users' locks;   *)
(* an invitation opens a thread that is not accessible yet.                *)
Refusing(r) ==
    \/ \E u \in LockedUsers(r) \ {r.user} : {r.user, u} \in blocked
    \/ r.op # "inviteJoin" /\ ~Accessible(r.user)

(* lockContentInteraction, lockInteraction *)
Lock(r) ==
    /\ pc[r] = "read"
    /\ r.op \notin WithoutUserLocks
    /\ \A q \in Locking : LockedUsers(q) \cap LockedUsers(r) = {}
    /\ IF Refusing(r) THEN Finish(r, "refused", 0) ELSE Goto(r, "locked")
    /\ UNCHANGED contentVars

(* A transaction of the operation that has its locks, or needs none. *)
InTransaction(r, op) ==
    /\ r.op = op
    /\ pc[r] = IF op \in WithoutUserLocks THEN "read" ELSE "locked"

-------------------------------------------------------------------------------
(* Writing posts *)

DiceIn(r, published) == IF ~r.dice THEN "none" ELSE IF published THEN "rolled" ELSE "pending"

NewPost(r, kind, s, floor, published) ==
    [kind |-> kind, sub |-> s, parent |-> r.parent, replyTo |-> r.replyTo, floor |-> floor,
     author |-> r.user, key |-> r.key, text |-> r.text, dice |-> DiceIn(r, published),
     version |-> 0, live |-> TRUE, pinned |-> FALSE]

NewBody(r, s, published) ==
    [NewPost(r, "BODY", s, 0, published) EXCEPT !.parent = 0, !.replyTo = 0, !.key = NoKey]

AddPost(p, announce) ==
    /\ post' = Append(post, p)
    /\ announced' = Append(announced, IF announce THEN 1 ELSE 0)

(* reconcilePublishedDice rolls the new nodes of a published post. *)
Edited(p, r, published) ==
    [post[p] EXCEPT !.text = r.text, !.dice = DiceIn(r, published), !.version = @ + 1]
===============================================================================
