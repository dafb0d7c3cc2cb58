------------------------------- MODULE Threads --------------------------------
(***************************************************************************)
(* ThreadsService, ThreadAggregateService, ThreadMembersService and          *)
(* ThreadInviteService: publishing, saving and removing the thread, and      *)
(* who takes part in it; SubthreadsService: create, reorder, update and      *)
(* remove.                                                                   *)
(***************************************************************************)
EXTENDS ThreadState

-------------------------------------------------------------------------------
(* Publishing *)

Listed(p) == p.live /\ sub[p.sub].live

(* The dice of the listed posts are rolled, which changes their version,   *)
(* and each of them is announced.                                          *)
Settled(posts) ==
    [i \in DOMAIN posts |->
        IF Listed(posts[i]) /\ posts[i].dice = "pending"
        THEN [posts[i] EXCEPT !.dice = "rolled", !.version = @ + 1]
        ELSE posts[i]]

Counted(i) == IF i \in DOMAIN announced THEN announced[i] ELSE 0

(* Mutant of SettledEvents: only the default subthread is announced. *)
SettledEventsOfDefault(posts) ==
    [i \in DOMAIN posts |-> Counted(i) + IF Listed(posts[i]) /\ posts[i].sub = 1 THEN 1 ELSE 0]

SettledEvents(posts) ==
    [i \in DOMAIN posts |-> Counted(i) + IF Listed(posts[i]) THEN 1 ELSE 0]

NewThread(r, publishing) ==
    [thread EXCEPT !.state = IF publishing THEN "published" ELSE @,
                   !.private = IF r.private = {} THEN @ ELSE CHOOSE b \in r.private : TRUE,
                   !.version = @ + 1]

SightOfThread ==
    [published |-> thread.state = "published", version |-> thread.version,
     body |-> BodyOf(1), bodyVersion |-> VersionOf(BodyOf(1)), subVersion |-> sub[1].version]

OwnerOnly(r) == r.user = Owner \/ (~r.publish /\ r.private = {})

(* update: with published = true, publishThreadTransaction. *)
readUpdateThread(r) ==
    /\ r.op = "updateThread"
    /\ Read(r, CanManage(r.user) /\ OwnerOnly(r), SightOfThread)

updateThread(r) ==
    /\ InTransaction(r, "updateThread")
    /\ LET possible == /\ thread.state \in {"draft", "published"}
                       /\ thread.version = seen[r].version
                       /\ r.publish => thread.state = "draft" /\ Bodies(1) # {}
       IN  \/ ~possible /\ Refuse(r)
           \/ /\ possible
              /\ thread' = NewThread(r, r.publish)
              /\ IF r.publish
                 THEN post' = Settled(post) /\ announced' = SettledEvents(post)
                 ELSE UNCHANGED <<post, announced>>
              /\ Finish(r, "done", 0)
              /\ UNCHANGED <<role, player, sub>>

-------------------------------------------------------------------------------
(* save: thread, default subthread and body in one transaction, which      *)
(* checks the version of each under the thread's lock.                     *)
readSave(r) ==
    /\ r.op = "save"
    /\ Read(r, CanManage(r.user) /\ OwnerOnly(r), SightOfThread)

Current(r) ==
    /\ thread.state \in {"draft", "published"}
    /\ thread.version = seen[r].version
    /\ sub[1].version = seen[r].subVersion
    /\ BodyOf(1) = seen[r].body
    /\ VersionOf(BodyOf(1)) = seen[r].bodyVersion

Saved(r, published) ==
    LET body == BodyOf(1)
    IN  CASE body = 0 -> Append(post, NewBody(r, 1, published))
          [] body # 0 /\ post[body].text = r.text -> post
          [] OTHER -> [post EXCEPT ![body] = Edited(body, r, published)]

(* Who publishes announces everything, a body that is new in a published   *)
(* thread is announced too, and a draft's is not.                          *)
SavedEvents(r, posts, published) ==
    IF r.publish THEN SettledEvents(posts)
    ELSE IF Len(posts) > Len(post) THEN Append(announced, IF published THEN 1 ELSE 0)
    ELSE announced

save(r) ==
    /\ InTransaction(r, "save")
    /\ LET published == thread.state = "published"
           possible == Current(r) /\ ~(r.publish /\ published)
           posts == Saved(r, published)
       IN  \/ ~possible /\ Refuse(r)
           \/ /\ possible
              /\ thread' = NewThread(r, r.publish)
              /\ sub' = IF r.policy = sub[1].policy THEN sub
                        ELSE [sub EXCEPT ![1].policy = r.policy, ![1].version = @ + 1]
              /\ post' = IF r.publish THEN Settled(posts) ELSE posts
              /\ announced' = SavedEvents(r, posts, published)
              /\ Finish(r, "done", 0)
              /\ UNCHANGED <<role, player>>

-------------------------------------------------------------------------------
(* remove, and the clean-up of drafts *)

readRemoveThread(r) ==
    /\ r.op = "removeThread"
    /\ Read(r, Accessible(r.user) /\ r.user = Owner, SightOfThread)

Unpinned(p) == [p EXCEPT !.pinned = FALSE]

(* Everything goes with the row. *)
EraseThread ==
    /\ thread' = [thread EXCEPT !.state = "erased"]
    /\ sub' = [s \in DOMAIN sub |-> [sub[s] EXCEPT !.live = FALSE]]
    /\ post' = [p \in DOMAIN post |-> [Unpinned(post[p]) EXCEPT !.live = FALSE]]
    /\ role' = [u \in Users |-> "NONE"]
    /\ player' = {}
    /\ UNCHANGED announced

(* A draft is erased and a published thread marked as deleted; which of    *)
(* the two it is was read before the transaction.                          *)
removeThread(r) ==
    /\ InTransaction(r, "removeThread")
    /\ LET possible == IF seen[r].published THEN thread.state = "published" ELSE thread.state # "erased"
       IN  \/ ~possible /\ Break(r)
           \/ possible /\ ~seen[r].published /\ EraseThread /\ Finish(r, "done", 0)
           \/ /\ possible /\ seen[r].published
              /\ thread' = [thread EXCEPT !.state = "deleted"]
              /\ post' = [p \in DOMAIN post |-> Unpinned(post[p])]
              /\ Finish(r, "done", 0)
              /\ UNCHANGED <<role, player, sub, announced>>

(* CleanupTask: a draft older than seven days. *)
cleanup ==
    /\ plot.stale
    /\ thread.state = "draft"
    /\ EraseThread
    /\ UNCHANGED <<plot, blocked, requestVars>>

-------------------------------------------------------------------------------
(* Members *)

AddMember(r) ==
    /\ role' = [role EXCEPT ![r.user] = "PARTICIPANT"]
    /\ Finish(r, "done", 0)
    /\ UNCHANGED <<thread, player, sub, post, announced>>

readJoin(r) ==
    /\ r.op = "join"
    /\ Read(r,
            /\ Accessible(r.user) /\ thread.state = "published" /\ ~thread.private
            /\ role[r.user] = "NONE",
            NoSight)

join(r) ==
    /\ InTransaction(r, "join")
    /\ \/ (role[r.user] # "NONE" \/ thread.state = "erased") /\ Break(r)
       \/ role[r.user] = "NONE" /\ thread.state # "erased" /\ AddMember(r)

readInviteJoin(r) ==
    /\ r.op = "inviteJoin"
    /\ Read(r, thread.state = "published" /\ thread.private, NoSight)

inviteJoin(r) ==
    /\ InTransaction(r, "inviteJoin")
    /\ \/ thread.state = "erased" /\ Break(r)
       \/ thread.state # "erased" /\ role[r.user] = "NONE" /\ AddMember(r)
       \/ thread.state # "erased" /\ role[r.user] # "NONE" /\ Finish(r, "done", 0) /\ UNCHANGED contentVars

readUpdateMember(r) ==
    /\ r.op = "updateMember"
    /\ Read(r, CanManage(r.user) /\ (r.role # {} => role[r.user] = "OWNER"), NoSight)

(* The role and the mark that the transaction writes. *)
changeMember(r) ==
    /\ InTransaction(r, "updateMember")
    /\ role' = [role EXCEPT ![r.target] = IF r.role = {} THEN @ ELSE CHOOSE x \in r.role : TRUE]
    /\ player' = IF r.on THEN player \cup {r.target} ELSE player \ {r.target}
    /\ Finish(r, "done", 0)
    /\ UNCHANGED <<thread, sub, post, announced>>

updateMember(r) ==
    /\ InTransaction(r, "updateMember")
    /\ \/ role[r.target] \in {"NONE", "OWNER"} /\ Refuse(r)
       \/ role[r.target] \in {"PARTICIPANT", "COLLABORATOR"} /\ changeMember(r)

readExitMember(r) ==
    /\ r.op = "exitMember"
    /\ Read(r, role[r.user] \in {"PARTICIPANT", "COLLABORATOR"}, NoSight)

(* Who leaves stays a member but is no player any more. *)
exitMember(r) ==
    /\ InTransaction(r, "exitMember")
    /\ \/ role[r.user] = "NONE" /\ Break(r)
       \/ /\ role[r.user] # "NONE"
          /\ player' = player \ {r.user}
          /\ Finish(r, "done", 0)
          /\ UNCHANGED <<thread, role, sub, post, announced>>

ThreadSteps(r) ==
    \/ readUpdateThread(r) \/ updateThread(r)
    \/ readSave(r) \/ save(r)
    \/ readRemoveThread(r) \/ removeThread(r)
    \/ readJoin(r) \/ join(r) \/ readInviteJoin(r) \/ inviteJoin(r)
    \/ readUpdateMember(r) \/ updateMember(r) \/ readExitMember(r) \/ exitMember(r)

-------------------------------------------------------------------------------
Sub(order, r) ==
    [live |-> TRUE, order |-> order, policy |-> r.policy, version |-> 0, key |-> r.key, hash |-> r.hash]

Orders(S) == {sub[s].order : s \in S}

-------------------------------------------------------------------------------
(* create *)

SubsOfKey(r) == {s \in DOMAIN sub : r.key # NoKey /\ sub[s].key = r.key}

(* The subthread the request id made, removed or not, is the answer.       *)
AnswerSub(r) ==
    /\ \E s \in SubsOfKey(r) :
         IF sub[s].hash = r.hash THEN Finish(r, "done", s) ELSE Finish(r, "refused", 0)
    /\ UNCHANGED contentVars

readCreateSub(r) ==
    /\ r.op = "createSub"
    /\ IF CanManage(r.user) /\ SubsOfKey(r) # {}
       THEN r \in plot.requests /\ pc[r] = "new" /\ AnswerSub(r)
       ELSE Read(r, CanManage(r.user), [NoSight EXCEPT !.published = (thread.state = "published")])

NextOrder == Max({-1} \cup Orders(LiveSubs)) + 1

(* Under the locks of the users and the thread; a request id that is taken *)
(* meanwhile rolls it back and is answered from the subthread it made.     *)
createSub(r) ==
    /\ InTransaction(r, "createSub")
    /\ LET order == IF r.order = {} THEN NextOrder ELSE Max(r.order)
           occupied == r.order # {} /\ order \in Orders(LiveSubs)
       IN  \/ thread.state = "erased" /\ Break(r)
           \/ thread.state # "erased" /\ occupied /\ Refuse(r)
           \/ /\ thread.state # "erased"
              /\ ~occupied
              /\ IF SubsOfKey(r) # {}
                 THEN AnswerSub(r)
                 ELSE /\ sub' = Append(sub, Sub(order, r))
                      /\ IF r.body
                         THEN AddPost(NewBody(r, Len(sub) + 1, seen[r].published), seen[r].published)
                         ELSE UNCHANGED <<post, announced>>
                      /\ Finish(r, "done", Len(sub) + 1)
                      /\ UNCHANGED <<thread, role, player>>

-------------------------------------------------------------------------------
(* reorder *)

NoneTwice(ids) == \A i, j \in DOMAIN ids : ids[i] = ids[j] => i = j

readReorder(r) ==
    /\ r.op = "reorder"
    /\ Read(r, CanManage(r.user) /\ r.ids # <<>> /\ NoneTwice(r.ids), NoSight)

Complete(ids) == {ids[i] : i \in DOMAIN ids} = LiveSubs

(* The first pass gives ids[i] the order -i, which must not be the order   *)
(* of one that comes later in the list.                                    *)
Collides(ids) == \E i, j \in DOMAIN ids : i < j /\ sub[ids[j]].order = -i

Reordered(ids) ==
    [s \in DOMAIN sub |->
        IF s \in LiveSubs
        THEN [sub[s] EXCEPT !.order = (CHOOSE i \in DOMAIN ids : ids[i] = s) - 1]
        ELSE sub[s]]

(* The whole set of live subthreads, the default one first. *)
reorder(r) ==
    /\ InTransaction(r, "reorder")
    /\ LET possible == /\ thread.state \in {"draft", "published"}
                       /\ Complete(r.ids)
                       /\ r.ids[1] = 1
                       /\ ~Collides(r.ids)
       IN  \/ ~possible /\ Refuse(r)
           \/ /\ possible
              /\ sub' = Reordered(r.ids)
              /\ Finish(r, "done", 0)
              /\ UNCHANGED <<thread, role, player, post, announced>>

-------------------------------------------------------------------------------
(* update *)

readUpdateSub(r) ==
    /\ r.op = "updateSub"
    /\ Read(r,
            /\ SubLive(r.sub)
            /\ CanManage(r.user)
            /\ r.order # {} => r.sub # 1 /\ r.order \cap Orders(LiveSubs \ {r.sub}) = {},
            [NoSight EXCEPT !.subVersion = IF SubLive(r.sub) THEN sub[r.sub].version ELSE 0])

(* The partial unique index of (thread, sort order). *)
OrderIsFree(r) == r.order \cap Orders(LiveSubs \ {r.sub}) = {}

updateSub(r) ==
    /\ InTransaction(r, "updateSub")
    /\ LET possible == SubLive(r.sub) /\ sub[r.sub].version = seen[r].subVersion /\ OrderIsFree(r)
       IN  \/ ~possible /\ Refuse(r)
           \/ /\ possible
              /\ sub' = [sub EXCEPT ![r.sub].order = IF r.order = {} THEN @ ELSE Max(r.order),
                                    ![r.sub].policy = r.policy,
                                    ![r.sub].version = @ + 1]
              /\ Finish(r, "done", r.sub)
              /\ UNCHANGED <<thread, role, player, post, announced>>

-------------------------------------------------------------------------------
(* remove *)

readRemoveSub(r) ==
    /\ r.op = "removeSub"
    /\ Read(r, SubLive(r.sub) /\ CanManage(r.user) /\ r.sub # 1, NoSight)

removeSub(r) ==
    /\ InTransaction(r, "removeSub")
    /\ \/ ~SubLive(r.sub) /\ Refuse(r)
       \/ /\ SubLive(r.sub)
          /\ sub' = [sub EXCEPT ![r.sub].live = FALSE]
          /\ post' = [p \in DOMAIN post |->
                        IF post[p].sub = r.sub THEN [post[p] EXCEPT !.pinned = FALSE] ELSE post[p]]
          /\ Finish(r, "done", r.sub)
          /\ UNCHANGED <<thread, role, player, announced>>

SubthreadSteps(r) ==
    \/ readCreateSub(r) \/ createSub(r)
    \/ readReorder(r) \/ reorder(r)
    \/ readUpdateSub(r) \/ updateSub(r)
    \/ readRemoveSub(r) \/ removeSub(r)
===============================================================================
