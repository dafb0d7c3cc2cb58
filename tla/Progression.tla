------------------------------ MODULE Progression ------------------------------
(***************************************************************************)
(* ProgressionService and ExperienceEventsListener: domain events reach    *)
(* the listener at least once, possibly twice at the same time; each       *)
(* handler turns its event into grants that one transaction carries out    *)
(* user by user, holding the row locks of the users it has touched.        *)
(***************************************************************************)
EXTENDS ExperienceRules, Functions, FiniteSetsExt

CONSTANTS
    Users,      \* user ids: numbers, so that they have an order to lock in
    Workers,    \* transactions of ProgressionService that may run at once
    Histories,  \* sets of domain events, records with a kind (see GrantsOf): one set happens
    ReversibleTypes  \* bound: the types of grant that reverse() is called for

(* The types of grant the handlers ask for. *)
GrantTypes ==
    {"DAILY_CHECK_IN", "POST_CREATED", "THREAD_REPLY_RECEIVED", "PRIVATE_THREAD_ACTIVATED",
     "THREAD_PUBLISHED", "MOMENT_PUBLISHED", "THREAD_LIKED", "MOMENT_COMMENT_CREATED",
     "MOMENT_REPLY_RECEIVED", "TIP_SENT", "TIP_RECEIVED"}

(* The events the listener handles, and those that name a second user: the *)
(* owner of the thread, the author of the moment, the recipient of a tip.  *)
TwoUserKinds == {"post.created", "thread.liked", "moment.comment.created", "tip.completed"}
EventKinds == TwoUserKinds \cup {"thread.published", "moment.created"}

ASSUME ProgressionAssumption ==
    /\ Users \subseteq Nat
    /\ IsFiniteSet(Workers)
    /\ GrantTypes \subseteq DOMAIN Rules
    /\ \A history \in Histories : \A e \in history :
         /\ e.kind \in EventKinds
         /\ e.user \in Users
         /\ e.kind \in TwoUserKinds => e.owner \in Users

VARIABLES
    prog,        \* prog[u]: committed progression of user u
    inactive,    \* users with deleted_at set
    job,         \* job[w]: what worker w is doing
    todo,        \* todo[w]: grants its transaction has still to carry out
    work,        \* work[w]: uncommitted progression of the users w has locked
    events,      \* the domain events that happen
    delivered    \* events whose handler has completed at least once

vars == <<prog, inactive, job, todo, work, events, delivered>>

Idle == [kind |-> "idle"]
Locked(w) == DOMAIN work[w]
FreeFor(w, u) == \A v \in Workers \ {w} : u \notin Locked(v)

-------------------------------------------------------------------------------
(* The handlers of ExperienceEventsListener.  "day" is the Beijing date of *)
(* the event's occurredAt, which every producer sets.                      *)
dailyActivity(u, day) == GrantInput(u, "DAILY_CHECK_IN", <<"daily-activity", u, day>>, day)

handlePostCreated(e) ==
    IF e.isSubthreadBody THEN <<>>
    ELSE <<dailyActivity(e.user, e.day),
           GrantInput(e.user, "POST_CREATED", <<"post-created", e.id>>, e.day)>>
         \o (IF e.owner = e.user THEN <<>>
             ELSE <<GrantInput(e.owner, "THREAD_REPLY_RECEIVED",
                               <<"thread-reply-received", e.owner, e.user, e.day>>, e.day)>>
                  \o (IF e.private
                      THEN <<GrantInput(e.owner, "PRIVATE_THREAD_ACTIVATED",
                                        <<"private-thread-activated", e.thread>>, e.day)>>
                      ELSE <<>>))

handleThreadPublished(e) ==
    <<dailyActivity(e.user, e.day)>>
    \o (IF e.private THEN <<>>
        ELSE <<GrantInput(e.user, "THREAD_PUBLISHED", <<"thread-published", e.id>>, e.day)>>)

handleMomentCreated(e) ==
    <<dailyActivity(e.user, e.day),
      GrantInput(e.user, "MOMENT_PUBLISHED", <<"moment-published", e.id>>, e.day)>>

handleThreadLiked(e) ==
    IF e.owner = e.user THEN <<>>
    ELSE <<dailyActivity(e.user, e.day),
           GrantInput(e.owner, "THREAD_LIKED", <<"thread-liked", e.thread, e.user>>, e.day)>>

handleMomentCommentCreated(e) ==
    IF e.owner = e.user THEN <<>>
    ELSE <<dailyActivity(e.user, e.day),
           GrantInput(e.user, "MOMENT_COMMENT_CREATED", <<"moment-comment-created", e.id>>, e.day),
           GrantInput(e.owner, "MOMENT_REPLY_RECEIVED",
                      <<"moment-reply-received", e.owner, e.user, e.day>>, e.day)>>

handleTipCompleted(e) ==
    IF e.owner = e.user THEN <<>>
    ELSE <<dailyActivity(e.user, e.day),
           GrantInput(e.user, "TIP_SENT", <<"tip-sent", e.user, e.owner, e.day>>, e.day),
           GrantInput(e.owner, "TIP_RECEIVED", <<"tip-received", e.owner, e.user, e.day>>, e.day)>>

GrantsOf(e) ==
    CASE e.kind = "post.created" -> handlePostCreated(e)
      [] e.kind = "thread.published" -> handleThreadPublished(e)
      [] e.kind = "moment.created" -> handleMomentCreated(e)
      [] e.kind = "thread.liked" -> handleThreadLiked(e)
      [] e.kind = "moment.comment.created" -> handleMomentCommentCreated(e)
      [] e.kind = "tip.completed" -> handleTipCompleted(e)

(* Mutant of LockOrder: the grants are carried out in the handler's order. *)
HandlerOrder(grants) == grants

(* grantMany sorts the inputs by user id and keeps the order of the inputs *)
(* of one user.                                                            *)
LockOrder(grants) ==
    LET Before(i, j) == grants[i].user < grants[j].user \/ (grants[i].user = grants[j].user /\ i < j)
        Place(i) == Cardinality({j \in DOMAIN grants : Before(j, i)}) + 1
    IN  [n \in DOMAIN grants |-> grants[CHOOSE i \in DOMAIN grants : Place(i) = n]]

-------------------------------------------------------------------------------
Init ==
    /\ prog = [u \in Users |-> NewProgress]
    /\ inactive = {}
    /\ job = [w \in Workers |-> Idle]
    /\ todo = [w \in Workers |-> <<>>]
    /\ work = [w \in Workers |-> <<>>]
    /\ events \in Histories
    /\ delivered = {}

(* The outbox hands an event to the listener; nothing keeps it from handing *)
(* the same event over again, to another worker too.                        *)
Begin(w, e) ==
    /\ job[w] = Idle
    /\ GrantsOf(e) # <<>>
    /\ job' = [job EXCEPT ![w] = [kind |-> "grant", event |-> e]]
    /\ todo' = [todo EXCEPT ![w] = LockOrder(GrantsOf(e))]
    /\ UNCHANGED <<prog, inactive, work, events, delivered>>

(* The next grant of the transaction: lock the user's row, read it, and    *)
(* apply the grant unless the user is gone, the key known or the cap hit.  *)
GrantStep(w) ==
    /\ todo[w] # <<>>
    /\ LET g == Head(todo[w])
           mine == IF g.user \in Locked(w) THEN work[w][g.user] ELSE prog[g.user]
           result == IF g.user \in inactive THEN mine ELSE grantInTransaction(mine, g)
       IN  /\ FreeFor(w, g.user)
           /\ work' = [work EXCEPT ![w] = Put(@, g.user, result)]
    /\ todo' = [todo EXCEPT ![w] = Tail(@)]
    /\ UNCHANGED <<prog, inactive, job, events, delivered>>

(* The transaction is over and the worker's locks are gone. *)
Release(w) ==
    /\ job' = [job EXCEPT ![w] = Idle]
    /\ todo' = [todo EXCEPT ![w] = <<>>]
    /\ work' = [work EXCEPT ![w] = <<>>]

Commit(w) ==
    /\ job[w].kind = "grant"
    /\ todo[w] = <<>>
    /\ prog' = [u \in Users |-> IF u \in Locked(w) THEN work[w][u] ELSE prog[u]]
    /\ delivered' = delivered \cup {job[w].event}
    /\ Release(w)
    /\ UNCHANGED <<inactive, events>>

(* The transaction fails or its process dies: nothing of it remains. *)
Abort(w) ==
    /\ job[w] # Idle
    /\ Release(w)
    /\ UNCHANGED <<prog, inactive, events, delivered>>

(* reverse(): the event to take back is looked at before the row is locked. *)
ReverseBegin(w, u, k) ==
    /\ job[w] = Idle
    /\ k \in DOMAIN prog[u].granted
    /\ prog[u].granted[k].type \in ReversibleTypes
    /\ ~prog[u].granted[k].reversed
    /\ job' = [job EXCEPT ![w] = [kind |-> "reverse", user |-> u, key |-> k]]
    /\ UNCHANGED <<prog, inactive, todo, work, events, delivered>>

Reversed(p, k) ==
    LET left == p.experience - p.granted[k].delta
        experience == IF left < 0 THEN 0 ELSE left
    IN  [p EXCEPT !.experience = experience,
                  !.level = levelForExperience(experience),
                  !.granted[k].reversed = TRUE]

(* Mutant of ReverseFinish: the reversal key is not looked up again under the lock. *)
ReverseFinishStale(w) ==
    /\ job[w].kind = "reverse"
    /\ LET u == job[w].user
           k == job[w].key
       IN  /\ FreeFor(w, u)
           /\ prog' = [prog EXCEPT ![u] = Reversed(@, k)]
    /\ Release(w)
    /\ UNCHANGED <<inactive, events, delivered>>

(* Under the lock a reversal that is there already ends it; otherwise the  *)
(* experience is taken back and the level follows.                         *)
ReverseFinish(w) ==
    /\ job[w].kind = "reverse"
    /\ LET u == job[w].user
           k == job[w].key
       IN  /\ FreeFor(w, u)
           /\ prog' = [prog EXCEPT ![u] = IF @.granted[k].reversed THEN @ ELSE Reversed(@, k)]
    /\ Release(w)
    /\ UNCHANGED <<inactive, events, delivered>>

(* The account is deactivated: an update of the user row. *)
Deactivate(u) ==
    /\ u \notin inactive
    /\ \A w \in Workers : u \notin Locked(w)
    /\ inactive' = inactive \cup {u}
    /\ UNCHANGED <<prog, job, todo, work, events, delivered>>

Next ==
    \/ \E w \in Workers :
         \/ \E e \in events : Begin(w, e)
         \/ GrantStep(w) \/ Commit(w) \/ Abort(w) \/ ReverseFinish(w)
         \/ \E u \in Users : \E k \in DOMAIN prog[u].granted : ReverseBegin(w, u, k)
    \/ \E u \in Users : Deactivate(u)

Spec == Init /\ [][Next]_vars

-------------------------------------------------------------------------------
ProgressOK(p) ==
    /\ p.experience \in Nat
    /\ p.level \in Levels
    /\ \A c \in DOMAIN p.counts : p.counts[c] \in Nat

(* Progressions are well formed, and a worker locks only what its          *)
(* transaction has reached.                                                *)
TypeOK ==
    /\ DOMAIN prog = Users
    /\ \A u \in Users : ProgressOK(prog[u])
    /\ inactive \subseteq Users
    /\ \A w \in Workers :
         /\ job[w].kind \in {"idle", "grant", "reverse"}
         /\ Locked(w) \subseteq Users
         /\ job[w].kind # "grant" => todo[w] = <<>> /\ work[w] = <<>>
         /\ \A v \in Workers \ {w} : Locked(v) \cap Locked(w) = {}
    /\ delivered \subseteq events

Deltas(p) == [k \in DOMAIN p.granted |-> p.granted[k].delta]
LiveKeys(p) == {k \in DOMAIN p.granted : ~p.granted[k].reversed}

(* The experience column is what the experience events add up to: grants   *)
(* that were not reversed, each counted once, although events are handed   *)
(* over again and transactions overlap; and the level is the one that      *)
(* belongs to it.                                                          *)
Explained(p) ==
    /\ p.experience = SumFunctionOnSet(Deltas(p), LiveKeys(p))
    /\ p.level = levelForExperience(p.experience)

ExperienceExplained == \A u \in Users : Explained(prog[u])

Given(p, day, counter) ==
    {k \in DOMAIN p.granted : p.granted[k].day = day /\ Rules[p.granted[k].type].counter = counter}

(* No day gives a user more experience events on one counter than the      *)
(* cap of the rule, however the types that share a counter are mixed, and  *)
(* a reversal does not open the cap again.                                 *)
Capped(p) ==
    \A k \in DOMAIN p.granted :
        LET day == p.granted[k].day
            rule == Rules[p.granted[k].type]
            given == Cardinality(Given(p, day, rule.counter))
        IN  given <= rule.dailyCap /\ Counted(p, day, rule.counter) = given

DailyCapsHold == \A u \in Users : Capped(prog[u])

(* The two thresholds a profile shows enclose the experience, also on a     *)
(* threshold and on the last level, which has no next one.                 *)
ProfileEncloses(row) ==
    LET p == progressionFor(row.experience)
    IN  /\ row.level = Cardinality({i \in Levels : LevelThresholds[i] <= p.experience})
        /\ p.currentLevelExperience <= p.experience
        /\ IF p.level = Len(LevelThresholds) THEN p.nextLevelExperience = -1
           ELSE p.experience < p.nextLevelExperience

(* A user's level counts the thresholds he has reached, fits what his      *)
(* profile shows, and was announced: some level-up event in the outbox     *)
(* reached at least that level, whatever was reversed or capped before.    *)
Announced(row) == row.level > 1 => \E a \in row.announced : a[2] >= row.level

LevelsAgree == \A u \in Users : ProfileEncloses(prog[u]) /\ Announced(prog[u])

(* The stored progression is what its events explain, and what a profile   *)
(* and the announcements show agrees with it.                              *)
ProgressionAddsUp == ExperienceExplained /\ LevelsAgree

(* Grants and reversals that overlap, in any order, leave experience,       *)
(* levels and daily counters that agree with the ledger of grants.         *)
LevelsHold == TypeOK /\ ProgressionAddsUp /\ DailyCapsHold

(* Handing over an event whose handler has already completed changes       *)
(* nobody's progression, whether its grants were given or capped then.     *)
RedeliveryChangesNothing ==
    [][\A w \in Workers :
         (job[w].kind = "grant" /\ job[w].event \in delivered /\ Commit(w)) => prog' = prog]_vars

WaitsFor(v, w) == v # w /\ todo[v] # <<>> /\ Head(todo[v]).user \in Locked(w)

(* Transactions that wait for each other's users never form a cycle of any *)
(* length, in which everybody waits for somebody of it: the order in which *)
(* grantMany takes the rows sees to that.                                  *)
NoLockCycle ==
    \A W \in SUBSET Workers : W # {} => \E v \in W : \A w \in W : ~WaitsFor(v, w)
===============================================================================
