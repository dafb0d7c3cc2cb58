----------------------------- MODULE ContentProofs -----------------------------
(***************************************************************************)
(* Proofs about Content: for any users, threads and requests, what is      *)
(* stored has its shape, floors count up, a subthread has one body and no  *)
(* two live subthreads share an order; pins and announcements are of       *)
(* floors that are there, a repeated request has one answer, and who posts *)
(* or becomes a member is welcome at that moment.                          *)
(*                                                                         *)
(* A step changes posts in place or adds one (PostsMove); the lemmas       *)
(* LinksKeep, CountKeeps and BodiesKeep say that then the posts stay in    *)
(* order, and one lemma per writing command says that it is such a step.   *)
(***************************************************************************)
EXTENDS Content, FiniteSetTheorems, WellFoundedInduction, TLAPS

-------------------------------------------------------------------------------
(* Finite sets of integers *)

(* Max is the maximum: a finite set of integers has one. *)
LEMMA MaxOfFinite ==
    ASSUME NEW S \in SUBSET Int, IsFiniteSet(S), S # {}
    PROVE  Max(S) \in S /\ \A x \in S : Max(S) >= x
<1> DEFINE From(x) == {y \in S : y >= x}
           F == {From(x) : x \in S}
<1> HIDE DEF F
<1>1. F \subseteq FiniteSubsetsOf(S) /\ F # {}
  <2>1. FiniteSubsetsOf(S) = SUBSET S
    BY FS_FiniteSubsetsOfFinite
  <2>2. \A x \in S : From(x) \in SUBSET S /\ From(x) \in F
    BY DEF F
  <2>3. F \subseteq SUBSET S
    BY DEF F
  <2> HIDE DEF F, From
  <2> QED BY <2>1, <2>2, <2>3
<1>2. PICK T \in F : \A U \in F : ~(<<U, T>> \in StrictSubsetOrdering(S))
  <2>1. IsWellFoundedOn(StrictSubsetOrdering(S), FiniteSubsetsOf(S))
    BY FS_StrictSubsetOrderingWellFounded
  <2> QED BY <1>1, <2>1, WFMin
<1>3. PICK x \in S : T = From(x)
  BY <1>2 DEF F
<1>4. \A y \in S : x >= y
  <2>1. SUFFICES ASSUME NEW y \in S, y > x PROVE FALSE
    OBVIOUS
  <2>2. From(y) \subseteq From(x) /\ x \in From(x) /\ x \notin From(y)
    <3>1. x \in Int /\ y \in Int /\ \A z \in S : z \in Int
      OBVIOUS
    <3>2. \A z \in Int : z >= y => z >= x
      BY <2>1, <3>1
    <3>3. From(y) \subseteq From(x)
      BY <3>1, <3>2, Zenon
    <3>4. x \in From(x) /\ x \notin From(y)
      BY <2>1, <3>1
    <3> QED BY <3>3, <3>4
  <2>3. <<From(y), T>> \in StrictSubsetOrdering(S)
    BY <1>3, <2>2 DEF StrictSubsetOrdering
  <2> QED BY <1>2, <2>3 DEF F
<1> QED BY <1>4 DEF Max

(* A finite set without two different elements has at most one. *)
LEMMA AtMostOneIsSmall ==
    ASSUME NEW S, IsFiniteSet(S)
    PROVE  Cardinality(S) <= 1 <=> \A x, y \in S : x = y
<1>1. CASE S = {}
  BY <1>1, FS_EmptySet
<1>2. CASE S # {}
  <2>1. PICK x \in S : TRUE
    BY <1>2
  <2>2. Cardinality(S) \in Nat /\ Cardinality(S) # 0
    BY <1>2, FS_CardinalityType, FS_EmptySet
  <2>3. Cardinality(S) = 1 <=> \E y : S = {y}
    BY FS_Singleton
  <2>4. (\E y : S = {y}) <=> \A y, z \in S : y = z
    BY <2>1
  <2>5. Cardinality(S) <= 1 <=> Cardinality(S) = 1
    BY <2>2
  <2> QED BY <2>3, <2>4, <2>5
<1> QED BY <1>1, <1>2

-------------------------------------------------------------------------------
(* What a step does to the posts: it changes some in place, or adds one.   *)

(* The row x may replace the row y. *)
Replaces(x, y) ==
    /\ x.kind = y.kind /\ x.sub = y.sub /\ x.parent = y.parent /\ x.replyTo = y.replyTo /\ x.floor = y.floor
    /\ x.author = y.author /\ x.key = y.key
    /\ x.live => y.live

PostsStay ==
    /\ post' \in Seq(PostRows)
    /\ Len(post') = Len(post)
    /\ \A i \in DOMAIN post : Replaces(post'[i], post[i])

FitsAsBody(x) ==
    /\ x.kind = "BODY" /\ x.parent = 0 /\ x.replyTo = 0 /\ x.floor = 0 /\ x.key = NoKey
    /\ BodiesIn(post, x.sub) = {}

FitsAsFloor(x) ==
    /\ x.kind = "FLOOR"
    /\ x.parent = 0 => x.floor = NextFloor(x.sub)
    /\ x.parent # 0 => /\ x.floor = 0
                       /\ x.parent \in DOMAIN post
                       /\ post[x.parent].parent = 0 /\ post[x.parent].sub = x.sub
    /\ x.replyTo # 0 => /\ x.replyTo \in DOMAIN post
                        /\ post[x.replyTo].sub = x.sub
                        /\ x.parent \in {x.replyTo, post[x.replyTo].parent}
    /\ x.key # NoKey => \A p \in DOMAIN post : post[p].author = x.author => post[p].key # x.key

PostsGrow ==
    LET n == Len(post) + 1
    IN  /\ post' \in Seq(PostRows)
        /\ Len(post') = n
        /\ \A i \in DOMAIN post : Replaces(post'[i], post[i])
        /\ post'[n].sub \in DOMAIN sub'
        /\ FitsAsBody(post'[n]) \/ FitsAsFloor(post'[n])

(* What it does to the subthreads: they keep their ids and the removed ones *)
(* stay removed, and one more has an id of its own.                        *)
SubsKeep ==
    /\ DOMAIN sub \subseteq DOMAIN sub'
    /\ \A s \in DOMAIN sub : sub'[s].key = sub[s].key /\ (sub'[s].live => sub[s].live)
    /\ \A s \in DOMAIN sub' \ DOMAIN sub :
         /\ DOMAIN sub' = DOMAIN sub \cup {s}
         /\ sub'[s].key # NoKey => \A t \in DOMAIN sub : sub[t].key # sub'[s].key

PostsMove == DOMAIN sub \subseteq DOMAIN sub' /\ (PostsStay \/ PostsGrow)

(* The next floor is above every floor the subthread ever had. *)
LEMMA NextFloorIsHigher ==
    ASSUME post \in Seq(PostRows), NEW s
    PROVE  /\ NextFloor(s) \in Nat \ {0}
           /\ \A p \in MainFloors(s) : post[p].floor < NextFloor(s)
<1> DEFINE M == MainFloors(s)
           F == {post[p].floor : p \in M}
           G == {0} \cup F
<1>1. M \subseteq 1..Len(post) /\ IsFiniteSet(M)
  BY FS_Interval, FS_Subset DEF MainFloors
<1>2. \A p \in M : post[p].floor \in Nat
  <2>1. \A p \in 1..Len(post) : post[p] \in PostRows
    OBVIOUS
  <2> QED BY <1>1, <2>1 DEF PostRows
<1>3. IsFiniteSet(F)
  <2> DEFINE f == [p \in M |-> post[p].floor]
  <2>1. f \in Surjection(M, F)
    BY DEF Surjection
  <2> QED BY <1>1, <2>1, FS_Surjection
<1>4. G \subseteq Nat /\ G # {} /\ \A p \in M : post[p].floor \in G
  BY <1>2
<1>5. IsFiniteSet(G)
  <2>1. IsFiniteSet({0})
    BY FS_Singleton
  <2> HIDE DEF F
  <2> QED BY <1>3, <2>1, FS_Union
<1>6. NextFloor(s) = Max(G) + 1
  BY DEF NextFloor
<1>7. M = MainFloors(s)
  OBVIOUS
<1> HIDE DEF G, M
<1>8. Max(G) \in G /\ \A x \in G : Max(G) >= x
  <2>1. G \in SUBSET Int
    BY <1>4
  <2> QED BY <1>4, <1>5, <2>1, MaxOfFinite
<1>9. Max(G) \in Nat
  BY <1>4, <1>8
<1>10. \A p \in M : Max(G) >= post[p].floor
  BY <1>4, <1>8
<1> QED BY <1>2, <1>6, <1>7, <1>9, <1>10

(* Such a step leaves no row that points to nothing. *)
LEMMA LinksKeep ==
    ASSUME sub \in Seq(SubthreadRows), post \in Seq(PostRows), Linked(sub, post), PostsMove
    PROVE  Linked(sub, post)'
<1>1. ASSUME NEW i \in DOMAIN post, i \in DOMAIN post', Replaces(post'[i], post[i]),
             DOMAIN post \subseteq DOMAIN post',
             \A j \in DOMAIN post : Replaces(post'[j], post[j])
      PROVE  Shaped(post'[i]) /\ Fits(post'[i], sub', post')
  <2>1. Shaped(post[i]) /\ Fits(post[i], sub, post)
    BY DEF Linked
  <2>2. Shaped(post'[i])
    BY <1>1, <2>1 DEF Shaped, Replaces
  <2>3. Fits(post'[i], sub', post')
    BY <1>1, <2>1 DEF Fits, PostsMove, Replaces
  <2> QED BY <2>2, <2>3
<1>2. CASE PostsStay
  BY <1>1, <1>2 DEF Linked, PostsStay
<1>3. CASE PostsGrow
  <2> DEFINE n == Len(post) + 1
             x == post'[n]
  <2>1. DOMAIN post' = DOMAIN post \cup {n} /\ n \notin DOMAIN post /\ post'[n] \in PostRows
    BY <1>3 DEF PostsGrow
  <2>2. Shaped(x) /\ Fits(x, sub', post')
    <3>1. CASE FitsAsBody(x)
      BY <1>3, <3>1 DEF PostsGrow, FitsAsBody, Shaped, Fits
    <3>2. CASE FitsAsFloor(x)
      <4>1. Shaped(x)
        BY <3>2, NextFloorIsHigher DEF FitsAsFloor, Shaped
      <4>2. \A j \in DOMAIN post : Replaces(post'[j], post[j])
        BY <1>3 DEF PostsGrow
      <4>3. Fits(x, sub', post')
        BY <1>3, <2>1, <3>2, <4>2 DEF PostsGrow, FitsAsFloor, Fits, Replaces
      <4> QED BY <4>1, <4>3
    <3> QED BY <1>3, <3>1, <3>2 DEF PostsGrow
  <2>3. \A j \in DOMAIN post : Replaces(post'[j], post[j])
    BY <1>3 DEF PostsGrow
  <2> QED BY <1>1, <2>1, <2>2, <2>3 DEF Linked
<1> QED BY <1>2, <1>3 DEF PostsMove

(* It leaves the floors counted in the order of posting. *)
LEMMA CountKeeps ==
    ASSUME post \in Seq(PostRows), CountedUp(post), PostsMove
    PROVE  CountedUp(post)'
<1> USE DEF MainFloor
<1>1. CASE PostsStay
  BY <1>1 DEF PostsStay, Replaces, CountedUp
<1>2. CASE PostsGrow
  <2> DEFINE n == Len(post) + 1
  <2>1. DOMAIN post' = DOMAIN post \cup {n} /\ \A i \in DOMAIN post : i < n
    BY <1>2 DEF PostsGrow
  <2>2. ASSUME NEW i \in DOMAIN post, MainFloor(post'[i]), MainFloor(post'[n]), post'[i].sub = post'[n].sub
        PROVE  post'[i].floor < post'[n].floor
    <3>1. Replaces(post'[i], post[i])
      BY <1>2 DEF PostsGrow
    <3>2. i \in MainFloors(post'[n].sub)
      BY <2>2, <3>1 DEF MainFloors, IsMainFloor, Replaces
    <3>3. post'[n].floor = NextFloor(post'[n].sub)
      BY <1>2, <2>2 DEF PostsGrow, FitsAsFloor, FitsAsBody
    <3> QED BY <3>1, <3>2, <3>3, NextFloorIsHigher DEF Replaces
  <2>3. ASSUME NEW i \in DOMAIN post, NEW j \in DOMAIN post,
               MainFloor(post'[i]), MainFloor(post'[j]), post'[i].sub = post'[j].sub, i < j
        PROVE  post'[i].floor < post'[j].floor
    BY <1>2, <2>3 DEF PostsGrow, Replaces, CountedUp
  <2> QED BY <2>1, <2>2, <2>3 DEF CountedUp
<1> QED BY <1>1, <1>2 DEF PostsMove

(* It leaves a subthread with one body at most. *)
LEMMA BodiesKeep ==
    ASSUME sub \in Seq(SubthreadRows), post \in Seq(PostRows), Linked(sub, post),
           SingleBodies(sub, post), PostsMove
    PROVE  SingleBodies(sub, post)'
<1> SUFFICES ASSUME NEW s \in DOMAIN sub' PROVE Cardinality(BodiesIn(post', s)) <= 1
  BY DEF SingleBodies
<1>1. IsFiniteSet(BodiesIn(post, s)) /\ IsFiniteSet(BodiesIn(post', s))
  <2>1. post' \in Seq(PostRows)
    BY DEF PostsMove, PostsStay, PostsGrow
  <2> QED BY <2>1, FS_Interval, FS_Subset DEF BodiesIn
<1>2. SUFFICES \A i, j \in BodiesIn(post', s) : i = j
  BY <1>1, AtMostOneIsSmall
<1>3. \A i, j \in BodiesIn(post, s) : i = j
  <2>1. CASE s \in DOMAIN sub
    BY <1>1, <2>1, AtMostOneIsSmall DEF SingleBodies
  <2>2. CASE s \notin DOMAIN sub
    BY <2>2 DEF Linked, Fits, BodiesIn
  <2> QED BY <2>1, <2>2
<1>4. \A i \in BodiesIn(post', s) : i \in DOMAIN post => i \in BodiesIn(post, s)
  BY DEF PostsMove, PostsStay, PostsGrow, Replaces, BodiesIn
<1>5. CASE PostsStay
  BY <1>3, <1>4, <1>5 DEF PostsStay, BodiesIn
<1>6. CASE PostsGrow
  <2> DEFINE n == Len(post) + 1
  <2>1. DOMAIN post' = DOMAIN post \cup {n} /\ n \notin DOMAIN post
    BY <1>6 DEF PostsGrow
  <2>2. CASE n \notin BodiesIn(post', s)
    BY <1>3, <1>4, <2>1, <2>2 DEF BodiesIn
  <2>3. CASE n \in BodiesIn(post', s)
    <3>1. BodiesIn(post, s) = {}
      BY <1>6, <2>3 DEF PostsGrow, FitsAsBody, FitsAsFloor, BodiesIn
    <3> QED BY <1>4, <2>1, <3>1 DEF BodiesIn
  <2> QED BY <2>2, <2>3
<1> QED BY <1>5, <1>6 DEF PostsMove

(* It leaves a request id with one post and with one subthread. *)
LEMMA KeysKeep ==
    ASSUME post \in Seq(PostRows), SingleKeys(sub, post), PostsMove, SubsKeep
    PROVE  SingleKeys(sub, post)'
<1>1. ASSUME NEW i \in DOMAIN post', NEW j \in DOMAIN post',
             post'[i].author = post'[j].author, post'[i].key = post'[j].key, post'[i].key # NoKey
      PROVE  i = j
  <2>1. CASE PostsStay
    BY <1>1, <2>1 DEF PostsStay, Replaces, SingleKeys
  <2>2. CASE PostsGrow
    <3> DEFINE n == Len(post) + 1
    <3>1. DOMAIN post' = DOMAIN post \cup {n}
      BY <2>2 DEF PostsGrow
    <3>2. \A p \in DOMAIN post : post'[p].author = post[p].author /\ post'[p].key = post[p].key
      BY <2>2 DEF PostsGrow, Replaces
    <3>3. post'[n].key # NoKey =>
            \A p \in DOMAIN post : post[p].author = post'[n].author => post[p].key # post'[n].key
      BY <2>2 DEF PostsGrow, FitsAsBody, FitsAsFloor
    <3> HIDE DEF n
    <3> QED BY <1>1, <3>1, <3>2, <3>3 DEF SingleKeys
  <2> QED BY <2>1, <2>2 DEF PostsMove
<1>2. ASSUME NEW s \in DOMAIN sub', NEW t \in DOMAIN sub', sub'[s].key = sub'[t].key, sub'[s].key # NoKey
      PROVE  s = t
  <2>1. CASE s \in DOMAIN sub /\ t \in DOMAIN sub
    BY <1>2, <2>1 DEF SubsKeep, SingleKeys
  <2>2. CASE s \notin DOMAIN sub
    <3>1. t = s \/ (t \in DOMAIN sub /\ sub'[t].key = sub[t].key)
      BY <2>2 DEF SubsKeep
    <3>2. \A x \in DOMAIN sub : sub[x].key # sub'[s].key
      BY <1>2, <2>2 DEF SubsKeep
    <3> QED BY <1>2, <3>1, <3>2
  <2>3. CASE t \notin DOMAIN sub
    <3>1. s = t \/ (s \in DOMAIN sub /\ sub'[s].key = sub[s].key)
      BY <2>3 DEF SubsKeep
    <3>2. \A x \in DOMAIN sub : sub[x].key # sub'[t].key
      BY <1>2, <2>3 DEF SubsKeep
    <3> QED BY <1>2, <3>1, <3>2
  <2> QED BY <2>1, <2>2, <2>3
<1> QED BY <1>1, <1>2 DEF SingleKeys

-------------------------------------------------------------------------------
(* The inductive invariant *)

(* What a request knows from its checks before the transaction. *)
Knows(r, sight) ==
    /\ r.op = "upsertBody" => r.sub \in DOMAIN sub
    /\ r.op = "removeSub" => r.sub # 1
    /\ r.op = "setPinned" => r.post \in DOMAIN post /\ IsMainFloor(r.post)
    /\ sight.published => thread.state # "draft"

Remembers(r) == Knows(r, seen[r])

Remembered ==
    /\ seen = [r \in Requests |-> seen[r]]
    /\ answer = [r \in Requests |-> answer[r]]
    /\ \A r \in Requests : pc[r] \in {"read", "locked"} => Remembers(r)

ContentInvariant == TypeOK /\ FloorsCountUp /\ OneBody /\ KeysAreSingle /\ OrdersDistinct /\ Remembered

Places == {"new", "read", "locked", "raced"} \cup Outcomes

(* The requests of all plots are well-formed commands. *)
LEMMA RequestsAreCommands ==
    \A r \in Requests : r \in Commands /\ \A n, m \in r.order : n = m
BY PlotAssumption DEF Requests

(* A step of a request moves it to a place where it may be: to its locks   *)
(* only by taking them.                                                    *)
AdvanceTo(r, place, sight, n) ==
    /\ pc' = [pc EXCEPT ![r] = place]
    /\ seen' = [seen EXCEPT ![r] = sight]
    /\ answer' = [answer EXCEPT ![r] = n]
    /\ UNCHANGED <<plot, blocked>>
    /\ place \in {"read", "locked"} => Knows(r, sight)
    /\ place = "locked" => Lock(r)

Advance(r) == \E place \in Places : \E sight, n : AdvanceTo(r, place, sight, n)

(* Thread and members stay of their types; a thread never is a draft again, *)
(* and only a thread that is erased loses members.                         *)
PeopleMove ==
    /\ thread' \in [state : States, private : BOOLEAN, version : Nat]
    /\ Peopled(role', player', IF thread'.state = "erased" THEN {} ELSE {Owner})
    /\ thread'.state = "draft" => thread.state = "draft"
    /\ thread.state = "erased" => thread'.state = "erased"
    /\ thread'.state # "erased" => \A u \in Users : role[u] # "NONE" => role'[u] # "NONE"

(* Subthreads stay or are added, and their orders stay different. *)
SubsMove ==
    /\ sub' \in Seq(SubthreadRows)
    /\ SubsKeep
    /\ OrdersDistinct'

EventsMove == announced' \in Seq(Nat) /\ Len(announced') = Len(post')

ContentMove == PeopleMove /\ SubsMove /\ PostsMove /\ EventsMove

(* What a request knows stays true. *)
LEMMA KnowledgeStays ==
    ASSUME TypeOK, ContentMove, NEW q \in Requests, NEW sight, Knows(q, sight)
    PROVE  /\ q.op = "upsertBody" => q.sub \in DOMAIN sub'
           /\ q.op = "removeSub" => q.sub # 1
           /\ q.op = "setPinned" => q.post \in DOMAIN post' /\ MainFloor(post'[q.post])
           /\ sight.published => thread'.state # "draft"
<1>1. \A p \in DOMAIN post : p \in DOMAIN post' /\ Replaces(post'[p], post[p])
  BY DEF TypeOK, ContentMove, PostsMove, PostsStay, PostsGrow
<1>2. DOMAIN sub \subseteq DOMAIN sub' /\ (thread'.state = "draft" => thread.state = "draft")
  BY DEF ContentMove, PeopleMove, SubsMove, SubsKeep
<1> QED BY <1>1, <1>2 DEF Knows, IsMainFloor, MainFloor, Replaces

(* After it, every request is where it may be and knows what it knew. *)
LEMMA PlacesKeep ==
    ASSUME TypeOK, Remembered, NEW r \in Requests, Advance(r), ContentMove
    PROVE  pc' \in [Requests -> Places] /\ Remembered'
<1>1. PICK place \in Places : \E sight, n : AdvanceTo(r, place, sight, n)
  BY DEF Advance
<1>2. PICK sight, n : AdvanceTo(r, place, sight, n)
  BY <1>1
<1>3. /\ pc \in [Requests -> Places]
      /\ seen = [q \in Requests |-> seen[q]] /\ answer = [q \in Requests |-> answer[q]]
  BY DEF TypeOK, Places, Remembered
<1>4. ASSUME NEW q \in Requests, pc'[q] \in {"read", "locked"} PROVE Knows(q, seen'[q])
  BY <1>2, <1>3, <1>4 DEF Remembered, Remembers, AdvanceTo
<1>5. ASSUME NEW q \in Requests, Knows(q, seen'[q]) PROVE Remembers(q)'
  BY <1>5, KnowledgeStays DEF Remembers, Knows, IsMainFloor
<1>6. seen' = [q \in Requests |-> seen'[q]] /\ answer' = [q \in Requests |-> answer'[q]]
  BY <1>2, <1>3 DEF AdvanceTo
<1> QED BY <1>2, <1>3, <1>4, <1>5, <1>6 DEF Remembered, AdvanceTo

(* Every step of a request is one. *)
LEMMA RequestsAdvance ==
    ASSUME ContentInvariant, NEW r \in Requests,
           Lock(r) \/ PostSteps(r) \/ SubthreadSteps(r) \/ ThreadSteps(r)
    PROVE  Advance(r)
<1> USE DEF Places, Outcomes, Advance, AdvanceTo
<1>0. seen = [seen EXCEPT ![r] = seen[r]] /\ answer = [answer EXCEPT ![r] = answer[r]]
  BY DEF ContentInvariant, Remembered
<1>1. ASSUME NEW outcome \in Outcomes, NEW n, Finish(r, outcome, n) PROVE Advance(r)
  BY <1>1 DEF Finish
<1>2. (Refuse(r) => Advance(r)) /\ (Break(r) => Advance(r))
  BY <1>1 DEF Refuse, Break
<1>3. ASSUME NEW sight, pc' = [pc EXCEPT ![r] = "read"], seen' = [seen EXCEPT ![r] = sight],
             UNCHANGED <<answer, plot, blocked>>, Knows(r, sight)
      PROVE  Advance(r)
  <2>1. "read" \in Places /\ AdvanceTo(r, "read", sight, answer[r])
    BY <1>0, <1>3
  <2> QED BY <2>1 DEF Advance
<1>4. (\E n : Finish(r, "done", n)) => Advance(r)
  BY <1>1
<1>5. (\E n : Finish(r, "refused", n)) => Advance(r)
  BY <1>1
<1>6. Finish(r, "error", 0) => Advance(r)
  BY <1>1
<1> HIDE DEF Advance, AdvanceTo
<1>7. CASE Lock(r)
  <2>1. Goto(r, "locked") /\ pc[r] = "read" => Advance(r)
    <3>1. pc[r] = "read" => Knows(r, seen[r])
      BY DEF ContentInvariant, Remembered, Remembers
    <3> QED BY <1>0, <1>7, <3>1 DEF Goto, Advance, AdvanceTo
  <2> QED BY <1>5, <1>7, <2>1 DEF Lock
<1>8. CASE PostSteps(r)
  <2>1. AnswerRepeat(r) => Advance(r)
    BY <1>4, <1>5 DEF AnswerRepeat
  <2>2. Goto(r, "raced") => Advance(r)
    <3>1. "raced" \in Places
      OBVIOUS
    <3> QED BY <1>0, <3>1 DEF Goto, Advance, AdvanceTo
  <2>3. \A p, v : EditPost(r, p, v) => Advance(r)
    BY <1>2, <1>4 DEF EditPost
  <2>4. readCreatePost(r) => Advance(r)
    BY <1>2, <1>3, <2>1 DEF readCreatePost, Read, Knows, NoSight
  <2>5. createPost(r) => Advance(r)
    BY <1>2, <1>4, <2>2 DEF createPost
  <2>6. createPostRaced(r) => Advance(r)
    BY <1>6, <2>1 DEF createPostRaced
  <2>7. readUpsertBody(r) => Advance(r)
    BY <1>2, <1>3 DEF readUpsertBody, Read, Knows, SubLive, SightOfBody, NoSight
  <2>8. createBody(r) \/ editBody(r) \/ updatePost(r) => Advance(r)
    BY <1>2, <1>4, <2>3 DEF createBody, editBody, updatePost
  <2>9. readUpdatePost(r) \/ readRemovePost(r) \/ readSetPinned(r) => Advance(r)
    BY <1>2, <1>3 DEF readUpdatePost, readRemovePost, readSetPinned, Read, Knows, NoSight,
                      CanBePinned, PostLive
  <2>10. removePost(r) \/ setPinned(r) => Advance(r)
    BY <1>2, <1>4 DEF removePost, setPinned
  <2> QED BY <1>8, <2>4, <2>5, <2>6, <2>7, <2>8, <2>9, <2>10 DEF PostSteps
<1>9. CASE SubthreadSteps(r)
  <2>1. AnswerSub(r) => Advance(r)
    BY <1>4, <1>5 DEF AnswerSub
  <2>2. readCreateSub(r) => Advance(r)
    BY <1>2, <1>3, <2>1 DEF readCreateSub, Read, Knows, NoSight
  <2>3. createSub(r) => Advance(r)
    BY <1>2, <1>4, <2>1 DEF createSub
  <2>4. readReorder(r) \/ readUpdateSub(r) \/ readRemoveSub(r) => Advance(r)
    BY <1>2, <1>3 DEF readReorder, readUpdateSub, readRemoveSub, Read, Knows, NoSight
  <2>5. reorder(r) \/ updateSub(r) \/ removeSub(r) => Advance(r)
    BY <1>2, <1>4 DEF reorder, updateSub, removeSub
  <2> QED BY <1>9, <2>2, <2>3, <2>4, <2>5 DEF SubthreadSteps
<1>10. CASE ThreadSteps(r)
  <2>1. \/ readUpdateThread(r) \/ readSave(r) \/ readRemoveThread(r) \/ readJoin(r)
        \/ readInviteJoin(r) \/ readUpdateMember(r) \/ readExitMember(r)
        => Advance(r)
    BY <1>2, <1>3 DEF readUpdateThread, readSave, readRemoveThread, readJoin, readInviteJoin,
                      readUpdateMember, readExitMember, Read, Knows, SightOfThread, NoSight
  <2>2. updateThread(r) \/ save(r) \/ removeThread(r) => Advance(r)
    BY <1>2, <1>4 DEF updateThread, save, removeThread
  <2>3. join(r) \/ inviteJoin(r) \/ updateMember(r) \/ exitMember(r) => Advance(r)
    BY <1>2, <1>4 DEF join, inviteJoin, AddMember, updateMember, changeMember, exitMember
  <2> QED BY <1>10, <2>1, <2>2, <2>3 DEF ThreadSteps
<1> QED BY <1>7, <1>8, <1>9, <1>10
-------------------------------------------------------------------------------
(* What a step does to the rest of the content *)

(* The values a command brings have the types of the columns. *)
LEMMA CommandTypes ==
    ASSUME NEW r \in Requests
    PROVE  /\ r.user \in Users /\ r.target \in Users
           /\ r.sub \in Nat /\ r.parent \in Nat /\ r.replyTo \in Nat
           /\ r.key \in Keys \cup {NoKey} /\ r.text \in Texts /\ r.hash \in Texts
           /\ r.policy \in Policies /\ r.order \subseteq Int
           /\ r.dice \in BOOLEAN /\ r.on \in BOOLEAN /\ r.private \subseteq BOOLEAN /\ r.publish \in BOOLEAN
           /\ r.role \subseteq {"PARTICIPANT", "COLLABORATOR"}
<1>1. r \in Commands
  BY RequestsAreCommands
<1> QED BY <1>1 DEF Commands

(* An order a command brings is one number. *)
LEMMA OrderOfCommand ==
    ASSUME NEW r \in Requests, r.order # {}
    PROVE  Max(r.order) \in Int /\ r.order = {Max(r.order)}
<1>1. PICK n \in r.order : TRUE
  OBVIOUS
<1>2. r.order = {n}
  BY <1>1, RequestsAreCommands
<1>3. n \in Int
  BY <1>1, CommandTypes
<1>4. Max({n}) = n
  BY <1>3 DEF Max
<1> QED BY <1>2, <1>3, <1>4

(* People are not touched. *)
LEMMA PeopleStay ==
    ASSUME TypeOK, UNCHANGED <<thread, role, player>>
    PROVE  PeopleMove
BY DEF TypeOK, PeopleMove

(* Subthreads are not touched, and an erased thread stays erased. *)
LEMMA SubsStay ==
    ASSUME TypeOK, OrdersDistinct, UNCHANGED sub, thread.state = "erased" => thread'.state = "erased"
    PROVE  SubsMove
BY DEF TypeOK, SubsMove, SubsKeep, OrdersDistinct, Ordered, LiveSubs

(* Posts are changed in place. *)
LEMMA PostsChanged ==
    ASSUME TypeOK, DOMAIN sub \subseteq DOMAIN sub', UNCHANGED announced,
           post' = [i \in DOMAIN post |-> post'[i]],
           \A i \in DOMAIN post : post'[i] \in PostRows /\ Replaces(post'[i], post[i])
    PROVE  PostsMove /\ EventsMove
<1>1. DOMAIN post = 1..Len(post) /\ Len(post) \in Nat
  BY DEF TypeOK
<1>2. post' \in Seq(PostRows) /\ Len(post') = Len(post)
  BY <1>1
<1> QED BY <1>2 DEF TypeOK, PostsMove, PostsStay, EventsMove

(* Nothing is touched. *)
LEMMA ContentStays ==
    ASSUME TypeOK, OrdersDistinct, UNCHANGED contentVars
    PROVE  ContentMove
<1>1. PeopleMove /\ SubsMove
  BY PeopleStay, SubsStay DEF contentVars
<1>2. post' = [i \in DOMAIN post |-> post'[i]]
      /\ \A i \in DOMAIN post : post'[i] \in PostRows /\ Replaces(post'[i], post[i])
  BY DEF TypeOK, contentVars, Replaces
<1> QED BY <1>1, <1>2, PostsChanged DEF ContentMove, SubsMove, SubsKeep, contentVars

(* One post is replaced. *)
LEMMA PostReplaced ==
    ASSUME TypeOK, DOMAIN sub \subseteq DOMAIN sub', UNCHANGED announced,
           NEW p \in DOMAIN post, NEW x \in PostRows, Replaces(x, post[p]),
           post' = [post EXCEPT ![p] = x]
    PROVE  PostsMove /\ EventsMove
<1>1. \A i \in DOMAIN post : post[i] \in PostRows
  BY DEF TypeOK
<1>2. \A i \in DOMAIN post : post'[i] \in PostRows /\ Replaces(post'[i], post[i])
  BY <1>1 DEF Replaces
<1> QED BY <1>2, PostsChanged

(* One post is added. *)
LEMMA PostAdded ==
    ASSUME TypeOK, DOMAIN sub \subseteq DOMAIN sub',
           NEW x \in PostRows, NEW announce, AddPost(x, announce),
           x.sub \in DOMAIN sub', FitsAsBody(x) \/ FitsAsFloor(x)
    PROVE  PostsMove /\ EventsMove
<1>1. post \in Seq(PostRows) /\ announced \in Seq(Nat) /\ Len(announced) = Len(post)
  BY DEF TypeOK
<1>2. /\ post' \in Seq(PostRows) /\ Len(post') = Len(post) + 1
      /\ post'[Len(post) + 1] = x
      /\ \A i \in DOMAIN post : post'[i] = post[i]
  BY <1>1 DEF AddPost
<1>3. announced' \in Seq(Nat) /\ Len(announced') = Len(announced) + 1
  BY <1>1 DEF AddPost
<1>4. PostsGrow
  BY <1>2 DEF PostsGrow, Replaces
<1> QED BY <1>1, <1>2, <1>3, <1>4 DEF PostsMove, EventsMove

(* The rows that requests write. *)
LEMMA NewRows ==
    ASSUME NEW r \in Requests, NEW s \in Nat, NEW floor \in Nat, NEW published
    PROVE  /\ NewPost(r, "FLOOR", s, floor, published) \in PostRows
           /\ NewBody(r, s, published) \in PostRows
<1> DEFINE dice == DiceIn(r, published)
<1>1. dice \in {"none", "pending", "rolled"}
  BY DEF DiceIn
<1>2. ASSUME NEW kind \in {"FLOOR", "BODY"}, NEW n \in Nat
      PROVE  NewPost(r, kind, s, n, published) \in PostRows
  <2> HIDE DEF dice
  <2>1. dice = DiceIn(r, published)
    BY DEF dice
  <2> QED BY <1>1, <2>1, CommandTypes DEF NewPost, PostRows
<1>3. NewPost(r, "BODY", s, 0, published) \in PostRows
  BY <1>2
<1> QED BY <1>2, <1>3 DEF NewBody, PostRows

(* A post that loses its pin, or its life, keeps its place. *)
LEMMA PostsFade ==
    ASSUME NEW x \in PostRows
    PROVE  /\ x.version + 1 \in Nat
           /\ Unpinned(x) \in PostRows /\ Replaces(Unpinned(x), x)
           /\ [Unpinned(x) EXCEPT !.live = FALSE] \in PostRows
           /\ Replaces([Unpinned(x) EXCEPT !.live = FALSE], x)
<1>1. x.version + 1 \in Nat
  BY DEF PostRows
<1>2. Unpinned(x) \in PostRows /\ Replaces(Unpinned(x), x)
  BY DEF PostRows, Unpinned, Replaces
<1>3. \A y \in PostRows : [y EXCEPT !.live = FALSE] \in PostRows
  BY DEF PostRows
<1>4. Replaces([Unpinned(x) EXCEPT !.live = FALSE], x)
  BY DEF PostRows, Unpinned, Replaces
<1> QED BY <1>1, <1>2, <1>3, <1>4

-------------------------------------------------------------------------------
(* The commands on posts *)

(* createPost: the floor is the next one, or the parent is a main floor of *)
(* the same subthread; the author becomes a member.                        *)
LEMMA CreatePostMoves ==
    ASSUME TypeOK, OrdersDistinct, NEW r \in Requests, createPost(r)
    PROVE  ContentMove
<1>1. CASE UNCHANGED contentVars
  BY <1>1, ContentStays
<1>2. CASE ~UNCHANGED contentVars
  <2> DEFINE published == thread.state = "published"
             floor == IF r.parent = 0 THEN NextFloor(r.sub) ELSE 0
             x == NewPost(r, "FLOOR", r.sub, floor, published)
  <2>1. /\ MayCreate(r) /\ AddPost(x, published) /\ UNCHANGED <<thread, player, sub>>
        /\ ~\E p \in DOMAIN post : r.key # NoKey /\ post[p].author = r.user /\ post[p].key = r.key
        /\ role' = [role EXCEPT ![r.user] = IF @ = "NONE" THEN "PARTICIPANT" ELSE @]
    BY <1>2 DEF createPost, Refuse
  <2>2. r.sub \in DOMAIN sub /\ thread.state # "erased" /\ CanReply(r)
    BY <2>1 DEF MayCreate, SubLive, Accessible
  <2>3. floor \in Nat /\ x \in PostRows
    <3>1. floor \in Nat
      BY NextFloorIsHigher DEF TypeOK
    <3> QED BY <3>1, NewRows, CommandTypes
  <2>4. /\ x.kind = "FLOOR" /\ x.sub = r.sub /\ x.parent = r.parent /\ x.replyTo = r.replyTo
        /\ x.floor = floor /\ x.author = r.user /\ x.key = r.key
    BY DEF NewPost
  <2>5. FitsAsFloor(x)
    <3> HIDE DEF x
    <3> QED BY <2>1, <2>2, <2>4 DEF FitsAsFloor, CanReply, PostLive
  <2>6. PostsMove /\ EventsMove
    <3> HIDE DEF x
    <3> QED BY <2>1, <2>2, <2>3, <2>4, <2>5, PostAdded
  <2>7. PeopleMove
    BY <2>1, <2>2, CommandTypes DEF PeopleMove, Peopled, TypeOK, Roles
  <2> QED BY <2>1, <2>6, <2>7, SubsStay DEF ContentMove
<1> QED BY <1>1, <1>2

(* createBody: the subthread has no body, which is checked under the lock. *)
LEMMA CreateBodyMoves ==
    ASSUME TypeOK, OrdersDistinct, Remembered, NEW r \in Requests, createBody(r)
    PROVE  ContentMove
<1>1. CASE UNCHANGED contentVars
  BY <1>1, ContentStays
<1>2. CASE ~UNCHANGED contentVars
  <2> DEFINE x == NewBody(r, r.sub, seen[r].published)
  <2>1. /\ Bodies(r.sub) = {} /\ AddPost(x, seen[r].published)
        /\ UNCHANGED <<thread, role, player, sub>>
    BY <1>2 DEF createBody, Refuse, Break
  <2>2. r.sub \in DOMAIN sub
    BY DEF createBody, InTransaction, WithoutUserLocks, Remembered, Remembers, Knows
  <2>3. x \in PostRows /\ x.sub = r.sub /\ FitsAsBody(x)
    BY <2>1, NewRows, CommandTypes DEF NewBody, NewPost, FitsAsBody, Bodies
  <2>4. PostsMove /\ EventsMove
    <3> HIDE DEF x
    <3> QED BY <2>1, <2>2, <2>3, PostAdded
  <2> QED BY <2>1, <2>4, PeopleStay, SubsStay DEF ContentMove
<1> QED BY <1>1, <1>2

(* editBody, updatePost: the post keeps its place. *)
LEMMA EditPostMoves ==
    ASSUME TypeOK, OrdersDistinct, NEW r \in Requests, NEW p, NEW version, EditPost(r, p, version)
    PROVE  ContentMove
<1>1. CASE UNCHANGED contentVars
  BY <1>1, ContentStays
<1>2. CASE ~UNCHANGED contentVars
  <2> DEFINE x == Edited(p, r, seen[r].published)
  <2>1. /\ p \in DOMAIN post /\ post' = [post EXCEPT ![p] = x]
        /\ UNCHANGED <<thread, role, player, sub, announced>>
    BY <1>2 DEF EditPost, Refuse, PostLive
  <2>2. post[p] \in PostRows
    BY <2>1 DEF TypeOK
  <2>3. x \in PostRows /\ Replaces(x, post[p])
    <3> DEFINE dice == DiceIn(r, seen[r].published)
               next == post[p].version + 1
    <3>1. dice \in {"none", "pending", "rolled"} /\ r.text \in Texts
      BY CommandTypes DEF DiceIn
    <3>2. next \in Nat
      BY <2>2 DEF PostRows
    <3>3. x = [post[p] EXCEPT !.text = r.text, !.dice = dice, !.version = next]
      BY DEF Edited
    <3> HIDE DEF x, dice, next
    <3>4. x \in PostRows
      BY <2>2, <3>1, <3>2, <3>3 DEF PostRows
    <3>5. Replaces(x, post[p])
      BY <2>2, <3>3 DEF PostRows, Replaces
    <3> QED BY <3>4, <3>5
  <2>4. PostsMove /\ EventsMove
    <3> HIDE DEF x
    <3> QED BY <2>1, <2>3, PostReplaced
  <2> QED BY <2>1, <2>4, PeopleStay, SubsStay DEF ContentMove
<1> QED BY <1>1, <1>2

(* removePost: the row stays, not alive and not pinned. *)
LEMMA RemovePostMoves ==
    ASSUME TypeOK, OrdersDistinct, NEW r \in Requests, removePost(r)
    PROVE  ContentMove
<1>1. CASE UNCHANGED contentVars
  BY <1>1, ContentStays
<1>2. CASE ~UNCHANGED contentVars
  <2> DEFINE p == r.post
             x == Removed(p)
  <2>1. /\ p \in DOMAIN post /\ post' = [post EXCEPT ![p] = x]
        /\ UNCHANGED <<thread, role, player, sub, announced>>
    BY <1>2 DEF removePost, Break, PostLive
  <2>2. post[p] \in PostRows
    BY <2>1 DEF TypeOK
  <2>3. x \in PostRows /\ Replaces(x, post[p])
    BY <2>2 DEF Removed, PostRows, Replaces
  <2>4. PostsMove /\ EventsMove
    <3> HIDE DEF x
    <3> QED BY <2>1, <2>3, PostReplaced
  <2> QED BY <2>1, <2>4, PeopleStay, SubsStay DEF ContentMove
<1> QED BY <1>1, <1>2

(* setPinned: only the pin changes. *)
LEMMA SetPinnedMoves ==
    ASSUME TypeOK, OrdersDistinct, NEW r \in Requests, setPinned(r)
    PROVE  ContentMove
<1>1. CASE UNCHANGED contentVars
  BY <1>1, ContentStays
<1>2. CASE ~UNCHANGED contentVars
  <2> DEFINE p == r.post
             x == [post[p] EXCEPT !.pinned = r.on]
  <2>1. /\ p \in DOMAIN post /\ post' = [post EXCEPT ![p] = x]
        /\ UNCHANGED <<thread, role, player, sub, announced>>
    BY <1>2 DEF setPinned, Refuse, CanBePinned, PostLive
  <2>2. post[p] \in PostRows
    BY <2>1 DEF TypeOK
  <2>3. x \in PostRows /\ Replaces(x, post[p])
    BY <2>2, CommandTypes DEF PostRows, Replaces
  <2>4. PostsMove /\ EventsMove
    <3> HIDE DEF x
    <3> QED BY <2>1, <2>3, PostReplaced
  <2> QED BY <2>1, <2>4, PeopleStay, SubsStay DEF ContentMove
<1> QED BY <1>1, <1>2

(* All the steps of PostsService and PostPinService. *)
LEMMA PostStepsMove ==
    ASSUME TypeOK, OrdersDistinct, Remembered, NEW r \in Requests, PostSteps(r)
    PROVE  ContentMove
<1>1. CASE readCreatePost(r) \/ createPostRaced(r)
  BY <1>1, ContentStays DEF readCreatePost, createPostRaced, Read, Refuse, contentVars
<1>2. CASE readUpsertBody(r) \/ readUpdatePost(r) \/ readRemovePost(r) \/ readSetPinned(r)
  BY <1>2, ContentStays DEF readUpsertBody, readUpdatePost, readRemovePost, readSetPinned,
                            Read, Refuse, contentVars
<1>3. CASE editBody(r) \/ updatePost(r)
  BY <1>3, EditPostMoves DEF editBody, updatePost
<1> QED BY <1>1, <1>2, <1>3, CreatePostMoves, CreateBodyMoves, RemovePostMoves, SetPinnedMoves
        DEF PostSteps

-------------------------------------------------------------------------------
(* The commands on subthreads *)

(* The next order is above that of every live subthread. *)
LEMMA NextOrderIsHigher ==
    ASSUME sub \in Seq(SubthreadRows)
    PROVE  NextOrder \in Int /\ \A s \in LiveSubs : sub[s].order < NextOrder
<1> DEFINE F == Orders(LiveSubs)
           G == {-1} \cup F
<1>1. LiveSubs \subseteq 1..Len(sub) /\ IsFiniteSet(LiveSubs)
  BY FS_Interval, FS_Subset DEF LiveSubs
<1>2. \A s \in LiveSubs : sub[s].order \in Int
  <2>1. \A s \in 1..Len(sub) : sub[s] \in SubthreadRows
    OBVIOUS
  <2> QED BY <1>1, <2>1 DEF SubthreadRows
<1>3. IsFiniteSet(F)
  <2> DEFINE f == [s \in LiveSubs |-> sub[s].order]
  <2>1. f \in Surjection(LiveSubs, F)
    BY DEF Surjection, Orders
  <2> QED BY <1>1, <2>1, FS_Surjection
<1>4. G \in SUBSET Int /\ G # {} /\ \A s \in LiveSubs : sub[s].order \in G
  BY <1>2 DEF Orders
<1>5. IsFiniteSet(G)
  <2>1. IsFiniteSet({-1})
    BY FS_Singleton
  <2> HIDE DEF F
  <2> QED BY <1>3, <2>1, FS_Union
<1>6. NextOrder = Max(G) + 1
  BY DEF NextOrder
<1> HIDE DEF G
<1>7. Max(G) \in G /\ \A x \in G : Max(G) >= x
  BY <1>4, <1>5, MaxOfFinite
<1>8. Max(G) \in Int
  BY <1>4, <1>7
<1>9. \A s \in LiveSubs : Max(G) >= sub[s].order
  BY <1>4, <1>7
<1> QED BY <1>2, <1>6, <1>8, <1>9

(* createSub: its order is free; its body is the first post in it. *)
LEMMA CreateSubMoves ==
    ASSUME TypeOK, OrdersDistinct, NEW r \in Requests, createSub(r)
    PROVE  ContentMove
<1>1. CASE UNCHANGED contentVars
  BY <1>1, ContentStays
<1>2. CASE ~UNCHANGED contentVars
  <2> DEFINE order == IF r.order = {} THEN NextOrder ELSE Max(r.order)
             n == Len(sub) + 1
             y == Sub(order, r)
  <2>1. /\ thread.state # "erased"
        /\ ~(r.order # {} /\ order \in Orders(LiveSubs))
        /\ SubsOfKey(r) = {} /\ sub' = Append(sub, y)
        /\ IF r.body THEN AddPost(NewBody(r, n, seen[r].published), seen[r].published)
                     ELSE UNCHANGED <<post, announced>>
        /\ UNCHANGED <<thread, role, player>>
    BY <1>2 DEF createSub, Refuse, Break, AnswerSub
  <2>2. order \in Int /\ \A s \in LiveSubs : sub[s].order # order
    <3>1. CASE r.order = {}
      BY <3>1, NextOrderIsHigher DEF TypeOK
    <3>2. CASE r.order # {}
      BY <2>1, <3>2, OrderOfCommand DEF Orders
    <3> QED BY <3>1, <3>2
  <2>3. y \in SubthreadRows /\ y.order = order /\ y.key = r.key
    <3> HIDE DEF order
    <3> QED BY <2>2, CommandTypes DEF Sub, SubthreadRows
  <2> HIDE DEF y, order
  <2>4. /\ sub \in Seq(SubthreadRows) /\ n \in Nat
        /\ sub' \in Seq(SubthreadRows) /\ DOMAIN sub' = DOMAIN sub \cup {n}
        /\ n \notin DOMAIN sub /\ sub'[n] = y
        /\ \A s \in DOMAIN sub : sub'[s] = sub[s]
    BY <2>1, <2>2, <2>3 DEF TypeOK
  <2>5. SubsMove
    <3>1. Ordered(sub)'
      BY <2>2, <2>3, <2>4 DEF OrdersDistinct, Ordered, LiveSubs
    <3>2. SubsKeep
      BY <2>1, <2>3, <2>4 DEF SubsKeep, SubsOfKey
    <3> QED BY <2>1, <2>4, <3>1, <3>2 DEF SubsMove, OrdersDistinct, LiveSubs
  <2>6. PostsMove /\ EventsMove
    <3>1. CASE r.body
      <4> DEFINE x == NewBody(r, n, seen[r].published)
      <4>1. /\ x \in PostRows /\ x.kind = "BODY" /\ x.parent = 0 /\ x.replyTo = 0
            /\ x.floor = 0 /\ x.sub = n /\ x.key = NoKey
        BY <2>4, NewRows DEF NewBody, NewPost
      <4>2. BodiesIn(post, n) = {}
        BY <2>4 DEF BodiesIn, TypeOK, Linked, Fits
      <4>3. FitsAsBody(x)
        BY <4>1, <4>2 DEF FitsAsBody
      <4>4. AddPost(x, seen[r].published)
        BY <2>1, <3>1
      <4> HIDE DEF x
      <4>5. DOMAIN sub \subseteq DOMAIN sub' /\ x.sub \in DOMAIN sub'
        BY <2>4, <4>1
      <4> QED BY <4>1, <4>3, <4>4, <4>5, PostAdded
    <3>2. CASE ~r.body
      <4>1. post' = [i \in DOMAIN post |-> post'[i]]
            /\ \A i \in DOMAIN post : post'[i] \in PostRows /\ Replaces(post'[i], post[i])
        BY <2>1, <3>2 DEF TypeOK, Replaces
      <4> QED BY <2>1, <2>4, <3>2, <4>1, PostsChanged
    <3> QED BY <3>1, <3>2
  <2> QED BY <2>1, <2>5, <2>6, PeopleStay DEF ContentMove
<1> QED BY <1>1, <1>2

(* Posts, members and the thread are not touched. *)
LEMMA OnlySubsMove ==
    ASSUME TypeOK, OrdersDistinct, SubsMove, UNCHANGED <<thread, role, player, post, announced>>
    PROVE  ContentMove
<1>1. post' = [i \in DOMAIN post |-> post'[i]]
      /\ \A i \in DOMAIN post : post'[i] \in PostRows /\ Replaces(post'[i], post[i])
  BY DEF TypeOK, Replaces
<1> QED BY <1>1, PostsChanged, PeopleStay DEF ContentMove, SubsMove, SubsKeep

(* reorder: the positions in the list are different. *)
LEMMA ReorderMoves ==
    ASSUME TypeOK, OrdersDistinct, NEW r \in Requests, reorder(r)
    PROVE  ContentMove
<1>1. CASE UNCHANGED contentVars
  BY <1>1, ContentStays
<1>2. CASE ~UNCHANGED contentVars
  <2> DEFINE ids == r.ids
             place(s) == CHOOSE i \in DOMAIN ids : ids[i] = s
  <2>1. /\ Complete(ids) /\ sub' = Reordered(ids)
        /\ UNCHANGED <<thread, role, player, post, announced>>
    BY <1>2 DEF reorder, Refuse
  <2>2. DOMAIN ids \subseteq Int
    <3>1. ids \in Seq(Nat)
      BY RequestsAreCommands DEF Commands
    <3> QED BY <3>1
  <2>3. \A s \in LiveSubs : place(s) \in DOMAIN ids /\ ids[place(s)] = s
    BY <2>1 DEF Complete
  <2>4. \A s \in DOMAIN sub :
          sub'[s] = IF s \in LiveSubs THEN [sub[s] EXCEPT !.order = place(s) - 1] ELSE sub[s]
    BY <2>1 DEF Reordered
  <2>5. DOMAIN sub' = 1..Len(sub) /\ DOMAIN sub = 1..Len(sub) /\ Len(sub) \in Nat
        /\ sub' = [s \in 1..Len(sub) |-> sub'[s]]
    BY <2>1 DEF Reordered, TypeOK
  <2>6. \A s \in LiveSubs : place(s) \in Int
    BY <2>2, <2>3
  <2> HIDE DEF place
  <2>7. \A s \in DOMAIN sub : sub[s] \in SubthreadRows
    BY DEF TypeOK
  <2>8. \A s \in DOMAIN sub :
          /\ sub'[s] \in SubthreadRows
          /\ sub'[s].live = sub[s].live /\ sub'[s].key = sub[s].key
          /\ s \in LiveSubs => sub'[s].order = place(s) - 1
    <3> SUFFICES ASSUME NEW s \in DOMAIN sub
                 PROVE  /\ sub'[s] \in SubthreadRows
                        /\ sub'[s].live = sub[s].live /\ sub'[s].key = sub[s].key
                        /\ s \in LiveSubs => sub'[s].order = place(s) - 1
      OBVIOUS
    <3> DEFINE n == place(s) - 1
    <3>1. CASE s \in LiveSubs
      <4>1. sub'[s] = [sub[s] EXCEPT !.order = n]
        BY <2>4, <3>1
      <4>2. n \in Int
        BY <2>6, <3>1
      <4> HIDE DEF n
      <4>3. /\ sub'[s] \in SubthreadRows /\ sub'[s].live = sub[s].live
            /\ sub'[s].key = sub[s].key /\ sub'[s].order = n
        BY <2>7, <4>1, <4>2 DEF SubthreadRows
      <4> QED BY <4>3 DEF n
    <3>2. CASE s \notin LiveSubs
      BY <2>4, <2>7, <3>2
    <3> QED BY <3>1, <3>2
  <2>9. sub' \in Seq(SubthreadRows)
    BY <2>5, <2>8
  <2>10. Ordered(sub)'
    BY <2>3, <2>5, <2>6, <2>8 DEF Ordered, LiveSubs
  <2>11. SubsMove
    BY <2>1, <2>5, <2>8, <2>9, <2>10 DEF SubsMove, SubsKeep, OrdersDistinct, LiveSubs
  <2> QED BY <2>1, <2>11, OnlySubsMove
<1> QED BY <1>1, <1>2

(* updateSub: a new order is one that no other live subthread has. *)
LEMMA UpdateSubMoves ==
    ASSUME TypeOK, OrdersDistinct, NEW r \in Requests, updateSub(r)
    PROVE  ContentMove
<1>1. CASE UNCHANGED contentVars
  BY <1>1, ContentStays
<1>2. CASE ~UNCHANGED contentVars
  <2> DEFINE s == r.sub
             order == IF r.order = {} THEN sub[s].order ELSE Max(r.order)
             next == sub[s].version + 1
             y == [sub[s] EXCEPT !.order = order, !.policy = r.policy, !.version = next]
  <2>1. /\ SubLive(s) /\ OrderIsFree(r) /\ sub' = [sub EXCEPT ![s] = y]
        /\ UNCHANGED <<thread, role, player, post, announced>>
    BY <1>2 DEF updateSub, Refuse
  <2>2. s \in DOMAIN sub /\ sub[s] \in SubthreadRows
    BY <2>1 DEF SubLive, TypeOK
  <2>3. order \in Int
    BY <2>2, OrderOfCommand DEF SubthreadRows
  <2>4. \A t \in LiveSubs \ {s} : sub[t].order # order
    <3>1. CASE r.order = {}
      BY <2>1, <2>2, <3>1 DEF OrdersDistinct, Ordered, LiveSubs, SubLive
    <3>2. CASE r.order # {}
      BY <2>1, <3>2, OrderOfCommand DEF OrderIsFree, Orders
    <3> QED BY <3>1, <3>2
  <2>5. y \in SubthreadRows /\ y.order = order /\ y.live = sub[s].live /\ y.key = sub[s].key
    <3>1. next \in Nat /\ r.policy \in Policies
      BY <2>2, CommandTypes DEF SubthreadRows
    <3> HIDE DEF next, order
    <3> QED BY <2>2, <2>3, <3>1 DEF SubthreadRows
  <2> HIDE DEF order
  <2> HIDE DEF y
  <2>6. /\ sub' \in Seq(SubthreadRows) /\ DOMAIN sub' = DOMAIN sub
        /\ \A t \in DOMAIN sub : sub'[t] = IF t = s THEN y ELSE sub[t]
    BY <2>1, <2>2, <2>5 DEF TypeOK
  <2>7. Ordered(sub)'
    BY <2>4, <2>5, <2>6 DEF OrdersDistinct, Ordered, LiveSubs
  <2>8. SubsMove
    BY <2>1, <2>5, <2>6, <2>7 DEF SubsMove, SubsKeep, OrdersDistinct, LiveSubs
  <2> QED BY <2>1, <2>8, OnlySubsMove
<1> QED BY <1>1, <1>2

(* removeSub: the default subthread stays. *)
LEMMA RemoveSubMoves ==
    ASSUME TypeOK, OrdersDistinct, Remembered, NEW r \in Requests, removeSub(r)
    PROVE  ContentMove
<1>1. CASE UNCHANGED contentVars
  BY <1>1, ContentStays
<1>2. CASE ~UNCHANGED contentVars
  <2> DEFINE s == r.sub
             y == [sub[s] EXCEPT !.live = FALSE]
  <2>1. /\ SubLive(s) /\ sub' = [sub EXCEPT ![s] = y]
        /\ post' = [p \in DOMAIN post |->
                      IF post[p].sub = s THEN [post[p] EXCEPT !.pinned = FALSE] ELSE post[p]]
        /\ UNCHANGED <<thread, role, player, announced>>
    BY <1>2 DEF removeSub, Refuse
  <2>2. s \in DOMAIN sub /\ sub[s] \in SubthreadRows /\ s # 1
    BY <2>1 DEF SubLive, TypeOK, removeSub, InTransaction, WithoutUserLocks, Remembered, Remembers, Knows
  <2>3. y \in SubthreadRows /\ ~y.live /\ y.key = sub[s].key
    BY <2>2 DEF SubthreadRows
  <2> HIDE DEF y
  <2>4. /\ sub' \in Seq(SubthreadRows) /\ DOMAIN sub' = DOMAIN sub
        /\ \A t \in DOMAIN sub : sub'[t] = IF t = s THEN y ELSE sub[t]
    BY <2>1, <2>2, <2>3 DEF TypeOK
  <2>5. SubsMove
    BY <2>1, <2>2, <2>3, <2>4 DEF SubsMove, SubsKeep, OrdersDistinct, Ordered, LiveSubs
  <2>6. \A p \in DOMAIN post : post[p] \in PostRows
    BY DEF TypeOK
  <2>7. \A p \in DOMAIN post : post'[p] \in PostRows /\ Replaces(post'[p], post[p])
    <3> SUFFICES ASSUME NEW p \in DOMAIN post
                 PROVE  post'[p] \in PostRows /\ Replaces(post'[p], post[p])
      OBVIOUS
    <3>1. post'[p] = Unpinned(post[p]) \/ post'[p] = post[p]
      BY <2>1 DEF Unpinned
    <3>2. Replaces(post[p], post[p])
      BY DEF Replaces
    <3> QED BY <2>6, <3>1, <3>2, PostsFade
  <2>8. post' = [p \in DOMAIN post |-> post'[p]]
    BY <2>1
  <2>9. PostsMove /\ EventsMove
    BY <2>1, <2>4, <2>7, <2>8, PostsChanged
  <2> QED BY <2>1, <2>5, <2>9, PeopleStay DEF ContentMove
<1> QED BY <1>1, <1>2

(* All the steps of SubthreadsService. *)
LEMMA SubthreadStepsMove ==
    ASSUME TypeOK, OrdersDistinct, Remembered, NEW r \in Requests, SubthreadSteps(r)
    PROVE  ContentMove
<1>1. CASE readCreateSub(r)
  BY <1>1, ContentStays DEF readCreateSub, AnswerSub, Read, Refuse, contentVars
<1>2. CASE readReorder(r) \/ readUpdateSub(r) \/ readRemoveSub(r)
  BY <1>2, ContentStays DEF readReorder, readUpdateSub, readRemoveSub, Read, Refuse, contentVars
<1> QED BY <1>1, <1>2, CreateSubMoves, ReorderMoves, UpdateSubMoves, RemoveSubMoves DEF SubthreadSteps

-------------------------------------------------------------------------------
(* The commands on the thread and its members *)

(* Publishing changes posts in place and counts their events. *)
LEMMA SettledKeeps ==
    ASSUME TypeOK, NEW posts \in Seq(PostRows)
    PROVE  /\ Settled(posts) \in Seq(PostRows)
           /\ Len(Settled(posts)) = Len(posts)
           /\ \A i \in DOMAIN posts : Replaces(Settled(posts)[i], posts[i])
           /\ SettledEvents(posts) \in Seq(Nat)
           /\ Len(SettledEvents(posts)) = Len(posts)
<1>1. Len(posts) \in Nat /\ DOMAIN posts = 1..Len(posts)
  OBVIOUS
<1>2. \A i \in DOMAIN posts :
        /\ Settled(posts)[i] \in PostRows
        /\ Replaces(Settled(posts)[i], posts[i])
  <2> SUFFICES ASSUME NEW i \in DOMAIN posts
               PROVE  Settled(posts)[i] \in PostRows /\ Replaces(Settled(posts)[i], posts[i])
    OBVIOUS
  <2> DEFINE next == posts[i].version + 1
  <2>1. posts[i] \in PostRows
    OBVIOUS
  <2>2. next \in Nat
    BY <2>1, PostsFade
  <2>3. \/ Settled(posts)[i] = posts[i]
        \/ Settled(posts)[i] = [posts[i] EXCEPT !.dice = "rolled", !.version = next]
    BY DEF Settled
  <2> HIDE DEF next
  <2> QED BY <2>1, <2>2, <2>3 DEF PostRows, Replaces
<1>3. \A i \in DOMAIN posts : SettledEvents(posts)[i] \in Nat
  <2> SUFFICES ASSUME NEW i \in DOMAIN posts PROVE SettledEvents(posts)[i] \in Nat
    OBVIOUS
  <2>1. Counted(i) \in Nat
    BY DEF TypeOK, Counted
  <2> QED BY <2>1 DEF SettledEvents
<1>4. DOMAIN Settled(posts) = 1..Len(posts) /\ DOMAIN SettledEvents(posts) = 1..Len(posts)
  BY <1>1 DEF Settled, SettledEvents
<1>5. Settled(posts) = [i \in 1..Len(posts) |-> Settled(posts)[i]]
      /\ SettledEvents(posts) = [i \in 1..Len(posts) |-> SettledEvents(posts)[i]]
  BY <1>1 DEF Settled, SettledEvents
<1> QED BY <1>1, <1>2, <1>3, <1>4, <1>5

(* A new state and version of the thread, with the same people. *)
LEMMA NewThreadMoves ==
    ASSUME TypeOK, OrdersDistinct, NEW r \in Requests, NEW publishing \in BOOLEAN,
           thread.state \in {"draft", "published"}, thread' = NewThread(r, publishing),
           UNCHANGED <<role, player>>
    PROVE  PeopleMove /\ thread'.state # "erased"
<1> DEFINE state == IF publishing THEN "published" ELSE thread.state
           private == IF r.private = {} THEN thread.private ELSE CHOOSE b \in r.private : TRUE
           next == thread.version + 1
<1>1. /\ state \in States /\ state # "erased" /\ next \in Nat
      /\ state = "draft" => thread.state = "draft"
  BY DEF TypeOK, States
<1>2. private \in BOOLEAN
  <2>1. thread.private \in BOOLEAN
    BY DEF TypeOK
  <2> QED BY <2>1, CommandTypes
<1>3. thread' = [thread EXCEPT !.state = state, !.private = private, !.version = next]
  BY DEF NewThread
<1> HIDE DEF state, private, next
<1>4. thread' \in [state : States, private : BOOLEAN, version : Nat] /\ thread'.state = state
  BY <1>1, <1>2, <1>3 DEF TypeOK
<1> QED BY <1>1, <1>4 DEF PeopleMove, TypeOK

(* Publishing is what changes the state. *)
LEMMA NewThreadState ==
    ASSUME TypeOK, NEW r \in Requests, NEW publishing, thread' = NewThread(r, publishing)
    PROVE  thread'.state = IF publishing THEN "published" ELSE thread.state
BY DEF TypeOK, NewThread

(* updateThread, with or without publishing. *)
LEMMA UpdateThreadMoves ==
    ASSUME TypeOK, OrdersDistinct, NEW r \in Requests, updateThread(r)
    PROVE  ContentMove
<1>1. CASE UNCHANGED contentVars
  BY <1>1, ContentStays
<1>2. CASE ~UNCHANGED contentVars
  <2>1. /\ thread.state \in {"draft", "published"} /\ thread' = NewThread(r, r.publish)
        /\ IF r.publish THEN post' = Settled(post) /\ announced' = SettledEvents(post)
                        ELSE UNCHANGED <<post, announced>>
        /\ UNCHANGED <<role, player, sub>>
    BY <1>2 DEF updateThread, Refuse
  <2>2. PeopleMove /\ SubsMove
    BY <2>1, NewThreadMoves, SubsStay, CommandTypes
  <2>3. PostsMove /\ EventsMove
    <3>1. CASE r.publish
      <4>1. post' = Settled(post) /\ announced' = SettledEvents(post)
        BY <2>1, <3>1
      <4>2. post \in Seq(PostRows)
        BY DEF TypeOK
      <4>3. PostsStay /\ EventsMove
        BY <4>1, <4>2, SettledKeeps DEF PostsStay, EventsMove
      <4> QED BY <2>1, <4>3 DEF PostsMove
    <3>2. CASE ~r.publish
      <4>1. UNCHANGED <<post, announced>>
        BY <2>1, <3>2
      <4>2. PostsStay /\ EventsMove
        BY <4>1 DEF PostsStay, EventsMove, Replaces, TypeOK
      <4> QED BY <2>1, <4>2 DEF PostsMove
    <3> QED BY <3>1, <3>2
  <2> QED BY <2>2, <2>3 DEF ContentMove
<1> QED BY <1>1, <1>2

(* The body the code takes is a body, and none is taken if there is none. *)
LEMMA BodyOfDefault ==
    ASSUME TypeOK, OneBody, 1 \in DOMAIN sub
    PROVE  /\ BodyOf(1) = 0 => Bodies(1) = {}
           /\ BodyOf(1) # 0 => BodyOf(1) \in Bodies(1)
<1>1. Bodies(1) \subseteq 1..Len(post) /\ IsFiniteSet(Bodies(1))
  <2>1. Bodies(1) \subseteq 1..Len(post)
    BY DEF Bodies, BodiesIn, TypeOK
  <2>2. IsFiniteSet(1..Len(post))
    BY FS_Interval DEF TypeOK
  <2> QED BY <2>1, <2>2, FS_Subset
<1>2. CASE Bodies(1) # {}
  <2>1. PICK x \in Bodies(1) : TRUE
    BY <1>2
  <2>2. Cardinality(Bodies(1)) <= 1
    BY DEF OneBody, SingleBodies, Bodies
  <2>3. Bodies(1) = {x}
    BY <1>1, <2>1, <2>2, AtMostOneIsSmall
  <2>4. x \in Int /\ x # 0
    BY <1>1, <2>1
  <2>5. Min({x}) = x
    BY <2>4 DEF Min
  <2> QED BY <2>3, <2>4, <2>5 DEF BodyOf
<1> QED BY <1>2 DEF BodyOf

(* What save makes of the posts: the body of the default subthread is new, *)
(* or edited, or as it was.                                                *)
LEMMA SavedPosts ==
    ASSUME TypeOK, OneBody, NEW r \in Requests, NEW published, 1 \in DOMAIN sub
    PROVE  LET posts == Saved(r, published)
           IN  /\ posts \in Seq(PostRows)
               /\ \A i \in DOMAIN post : Replaces(posts[i], post[i])
               /\ \/ Len(posts) = Len(post)
                  \/ /\ Len(posts) = Len(post) + 1
                     /\ posts[Len(posts)].sub = 1
                     /\ FitsAsBody(posts[Len(posts)])
<1> DEFINE posts == Saved(r, published)
           body == BodyOf(1)
<1>1. post \in Seq(PostRows) /\ \A i \in DOMAIN post : Replaces(post[i], post[i])
  BY DEF TypeOK, Replaces
<1>2. CASE body = 0
  <2> DEFINE x == NewBody(r, 1, published)
  <2>1. posts = Append(post, x)
    BY <1>2 DEF Saved
  <2>2. x \in PostRows /\ x.sub = 1
    BY NewRows DEF NewBody, NewPost
  <2>3. FitsAsBody(x)
    BY <1>2, BodyOfDefault DEF FitsAsBody, NewBody, NewPost, Bodies
  <2> HIDE DEF x, posts
  <2>4. /\ posts \in Seq(PostRows) /\ Len(posts) = Len(post) + 1
        /\ \A i \in DOMAIN post : posts[i] = post[i]
        /\ posts[Len(posts)] = x
    BY <1>1, <2>1, <2>2
  <2> QED BY <1>1, <2>2, <2>3, <2>4 DEF posts
<1>3. CASE body # 0 /\ post[body].text = r.text
  BY <1>1, <1>3 DEF Saved
<1>4. CASE body # 0 /\ post[body].text # r.text
  <2> DEFINE x == Edited(body, r, published)
             dice == DiceIn(r, published)
             next == post[body].version + 1
  <2>1. posts = [post EXCEPT ![body] = x]
    BY <1>4 DEF Saved
  <2>2. body \in DOMAIN post
    BY <1>4, BodyOfDefault DEF Bodies, BodiesIn
  <2>3. post[body] \in PostRows
    BY <1>1, <2>2
  <2>4. next \in Nat
    BY <2>3 DEF PostRows
  <2>5. dice \in {"none", "pending", "rolled"} /\ r.text \in Texts
    BY CommandTypes DEF DiceIn
  <2>6. x = [post[body] EXCEPT !.text = r.text, !.dice = dice, !.version = next]
    BY DEF Edited
  <2> HIDE DEF x, dice, next, body, posts
  <2>7. x \in PostRows
    BY <2>3, <2>4, <2>5, <2>6 DEF PostRows
  <2>8. Replaces(x, post[body])
    BY <2>3, <2>6 DEF PostRows, Replaces
  <2>9. /\ posts \in Seq(PostRows) /\ Len(posts) = Len(post)
        /\ \A i \in DOMAIN post : posts[i] = IF i = body THEN x ELSE post[i]
    BY <1>1, <2>1, <2>2, <2>7
  <2> QED BY <1>1, <2>8, <2>9 DEF posts
<1> QED BY <1>2, <1>3, <1>4

(* save: the default subthread keeps its order, the posts are as above. *)
LEMMA SaveMoves ==
    ASSUME TypeOK, OrdersDistinct, OneBody, NEW r \in Requests, save(r)
    PROVE  ContentMove
<1>1. CASE UNCHANGED contentVars
  BY <1>1, ContentStays
<1>2. CASE ~UNCHANGED contentVars
  <2> DEFINE published == thread.state = "published"
             posts == Saved(r, published)
             next == sub[1].version + 1
             y == [sub[1] EXCEPT !.policy = r.policy, !.version = next]
  <2>1. /\ Current(r)
        /\ thread' = NewThread(r, r.publish)
        /\ sub' = IF r.policy = sub[1].policy THEN sub
                  ELSE [sub EXCEPT ![1].policy = r.policy, ![1].version = @ + 1]
        /\ post' = IF r.publish THEN Settled(posts) ELSE posts
        /\ announced' = IF r.publish THEN SettledEvents(posts)
                        ELSE IF Len(posts) > Len(post)
                             THEN Append(announced, IF published THEN 1 ELSE 0)
                             ELSE announced
        /\ UNCHANGED <<role, player>>
    BY <1>2 DEF save, SavedEvents, Refuse
  <2>2. thread.state \in {"draft", "published"} /\ 1 \in LiveSubs /\ 1 \in DOMAIN sub
    BY <2>1 DEF Current, OrdersDistinct, LiveSubs
  <2>3. PeopleMove
    BY <2>1, <2>2, NewThreadMoves, CommandTypes
  <2>4. sub[1] \in SubthreadRows /\ sub \in Seq(SubthreadRows)
    BY <2>2 DEF TypeOK
  <2>5. next \in Nat /\ r.policy \in Policies
    BY <2>4, CommandTypes DEF SubthreadRows
  <2>6. sub' = sub \/ sub' = [sub EXCEPT ![1] = y]
    BY <2>1
  <2> HIDE DEF next
  <2>7. /\ y \in SubthreadRows /\ y.order = sub[1].order
        /\ y.live = sub[1].live /\ y.key = sub[1].key
    BY <2>4, <2>5 DEF SubthreadRows
  <2> HIDE DEF y
  <2>8. /\ sub' \in Seq(SubthreadRows) /\ DOMAIN sub' = DOMAIN sub
        /\ \A s \in DOMAIN sub : /\ sub'[s].order = sub[s].order
                                 /\ sub'[s].live = sub[s].live /\ sub'[s].key = sub[s].key
    BY <2>2, <2>4, <2>6, <2>7
  <2>9. SubsMove
    BY <2>2, <2>8 DEF SubsMove, SubsKeep, OrdersDistinct, Ordered, LiveSubs
  <2>10. /\ posts \in Seq(PostRows)
         /\ \A i \in DOMAIN post : Replaces(posts[i], post[i])
         /\ \/ Len(posts) = Len(post)
            \/ /\ Len(posts) = Len(post) + 1
               /\ posts[Len(posts)].sub = 1
               /\ FitsAsBody(posts[Len(posts)])
    BY <2>2, SavedPosts
  <2> HIDE DEF posts, published
  <2>11. /\ post' \in Seq(PostRows) /\ Len(post') = Len(posts)
         /\ \A i \in DOMAIN posts : Replaces(post'[i], posts[i])
    <3>1. CASE r.publish
      <4>1. post' = Settled(posts)
        BY <2>1, <3>1
      <4> QED BY <2>10, <4>1, SettledKeeps
    <3>2. CASE ~r.publish
      <4>1. post' = posts
        BY <2>1, <3>2
      <4> QED BY <2>10, <4>1 DEF Replaces
    <3> QED BY <3>1, <3>2
  <2>12. Len(post) \in Nat /\ DOMAIN post = 1..Len(post) /\ DOMAIN posts = 1..Len(posts)
    BY <2>10 DEF TypeOK
  <2>13. \A i \in DOMAIN post : i \in DOMAIN posts /\ Replaces(post'[i], post[i])
    BY <2>10, <2>11, <2>12 DEF Replaces
  <2>14. PostsMove
    <3>1. CASE Len(posts) = Len(post)
      BY <2>8, <2>11, <2>13, <3>1 DEF PostsMove, PostsStay
    <3>2. CASE Len(posts) # Len(post)
      <4> DEFINE n == Len(post) + 1
      <4>1. Len(posts) = n /\ posts[n].sub = 1 /\ FitsAsBody(posts[n]) /\ n \in DOMAIN posts
        <5>1. Len(posts) = n /\ posts[Len(posts)].sub = 1 /\ FitsAsBody(posts[Len(posts)])
          BY <2>10, <3>2
        <5>2. n \in DOMAIN posts
          BY <2>12, <5>1
        <5> HIDE DEF n
        <5> QED BY <5>1, <5>2 DEF FitsAsBody
      <4>2. post'[n].sub = 1 /\ FitsAsBody(post'[n])
        BY <2>11, <4>1 DEF Replaces, FitsAsBody
      <4> QED BY <2>2, <2>8, <2>11, <2>13, <4>1, <4>2 DEF PostsMove, PostsGrow
    <3> QED BY <3>1, <3>2
  <2>15. EventsMove
    <3>1. announced \in Seq(Nat) /\ Len(announced) = Len(post)
      BY DEF TypeOK
    <3>2. CASE r.publish
      <4>1. announced' = SettledEvents(posts)
        BY <2>1, <3>2
      <4> QED BY <2>10, <2>11, <4>1, SettledKeeps DEF EventsMove
    <3>3. CASE ~r.publish /\ Len(posts) > Len(post)
      <4>1. announced' = Append(announced, IF published THEN 1 ELSE 0)
        BY <2>1, <3>3
      <4> QED BY <2>10, <2>11, <2>12, <3>1, <3>3, <4>1 DEF EventsMove
    <3>4. CASE ~r.publish /\ ~(Len(posts) > Len(post))
      <4>1. announced' = announced
        BY <2>1, <3>4
      <4> QED BY <2>10, <2>11, <2>12, <3>1, <3>4, <4>1 DEF EventsMove
    <3> QED BY <3>2, <3>3, <3>4
  <2> QED BY <2>3, <2>9, <2>14, <2>15 DEF ContentMove
<1> QED BY <1>1, <1>2

(* An erased thread has nothing alive and nobody in it. *)
LEMMA EraseMoves ==
    ASSUME TypeOK, EraseThread
    PROVE  ContentMove
<1>1. PeopleMove
  <2>1. thread' \in [state : States, private : BOOLEAN, version : Nat] /\ thread'.state = "erased"
    BY DEF EraseThread, TypeOK, States
  <2>2. Peopled(role', player', {})
    BY DEF EraseThread, Peopled, Roles
  <2> QED BY <2>1, <2>2 DEF PeopleMove
<1>2. sub \in Seq(SubthreadRows) /\ \A s \in DOMAIN sub : sub[s] \in SubthreadRows
  BY DEF TypeOK
<1>3. \A s \in DOMAIN sub : sub'[s] \in SubthreadRows /\ ~sub'[s].live /\ sub'[s].key = sub[s].key
  BY <1>2 DEF EraseThread, SubthreadRows
<1>4. sub' = [s \in DOMAIN sub |-> sub'[s]]
  BY DEF EraseThread
<1>5. sub' \in Seq(SubthreadRows) /\ DOMAIN sub' = DOMAIN sub
  <2>1. DOMAIN sub = 1..Len(sub) /\ Len(sub) \in Nat
    BY <1>2
  <2> QED BY <1>3, <1>4, <2>1
<1>6. SubsMove
  BY <1>3, <1>5 DEF EraseThread, SubsMove, SubsKeep, OrdersDistinct, Ordered, TypeOK
<1>7. \A p \in DOMAIN post : post[p] \in PostRows
  BY DEF TypeOK
<1>8. \A p \in DOMAIN post : post'[p] \in PostRows /\ Replaces(post'[p], post[p])
  BY <1>7, PostsFade DEF EraseThread
<1>9. post' = [p \in DOMAIN post |-> post'[p]] /\ UNCHANGED announced
  BY DEF EraseThread
<1> QED BY <1>1, <1>5, <1>6, <1>8, <1>9, PostsChanged DEF ContentMove

(* removeThread: erased if it was a draft, else marked as deleted. *)
LEMMA RemoveThreadMoves ==
    ASSUME TypeOK, OrdersDistinct, NEW r \in Requests, removeThread(r)
    PROVE  ContentMove
<1>1. CASE UNCHANGED contentVars
  BY <1>1, ContentStays
<1>2. CASE ~UNCHANGED contentVars /\ ~seen[r].published
  BY <1>2, EraseMoves DEF removeThread, Break
<1>3. CASE ~UNCHANGED contentVars /\ seen[r].published
  <2>1. /\ thread.state = "published" /\ thread' = [thread EXCEPT !.state = "deleted"]
        /\ post' = [p \in DOMAIN post |-> Unpinned(post[p])]
        /\ UNCHANGED <<role, player, sub, announced>>
    BY <1>3 DEF removeThread, Break
  <2>2. PeopleMove /\ SubsMove
    <3>1. thread' \in [state : States, private : BOOLEAN, version : Nat] /\ thread'.state = "deleted"
      BY <2>1 DEF TypeOK, States
    <3>2. PeopleMove
      BY <2>1, <3>1 DEF PeopleMove, TypeOK
    <3> QED BY <2>1, <3>2, SubsStay
  <2>3. \A p \in DOMAIN post : post[p] \in PostRows
    BY DEF TypeOK
  <2>4. \A p \in DOMAIN post : post'[p] \in PostRows /\ Replaces(post'[p], post[p])
    BY <2>1, <2>3, PostsFade
  <2>5. post' = [p \in DOMAIN post |-> post'[p]]
    BY <2>1
  <2> QED BY <2>1, <2>2, <2>4, <2>5, PostsChanged DEF ContentMove
<1> QED BY <1>1, <1>2, <1>3

(* Only the members change. *)
LEMMA OnlyPeopleMove ==
    ASSUME TypeOK, OrdersDistinct, UNCHANGED <<thread, sub, post, announced>>,
           Peopled(role', player', IF thread.state = "erased" THEN {} ELSE {Owner}),
           \A u \in Users : role[u] # "NONE" => role'[u] # "NONE"
    PROVE  ContentMove
<1>1. PeopleMove
  BY DEF PeopleMove, TypeOK
<1>2. PostsMove /\ EventsMove
  BY DEF PostsMove, PostsStay, EventsMove, Replaces, TypeOK
<1> QED BY <1>1, <1>2, SubsStay DEF ContentMove

(* The commands on members make no owner and unmake none. *)
LEMMA MemberStepsMove ==
    ASSUME TypeOK, OrdersDistinct, NEW r \in Requests,
           join(r) \/ inviteJoin(r) \/ updateMember(r) \/ exitMember(r)
    PROVE  ContentMove
<1>1. CASE UNCHANGED contentVars
  BY <1>1, ContentStays
<1>2. CASE ~UNCHANGED contentVars /\ (join(r) \/ inviteJoin(r))
  <2>1. AddMember(r) /\ role[r.user] = "NONE"
    BY <1>2 DEF join, inviteJoin, Break
  <2> QED BY <2>1, OnlyPeopleMove, CommandTypes DEF AddMember, TypeOK, Peopled, Roles
<1>3. CASE ~UNCHANGED contentVars /\ updateMember(r)
  <2> DEFINE new == IF r.role = {} THEN role[r.target] ELSE CHOOSE x \in r.role : TRUE
  <2>1. changeMember(r) /\ role[r.target] \in {"PARTICIPANT", "COLLABORATOR"}
    BY <1>3 DEF updateMember, Refuse
  <2>2. new \in {"PARTICIPANT", "COLLABORATOR"}
    BY <2>1, CommandTypes
  <2>3. role' = [role EXCEPT ![r.target] = new] /\ player' \subseteq player \cup {r.target}
    BY <2>1 DEF changeMember
  <2> HIDE DEF new
  <2>4. Peopled(role', player', IF thread.state = "erased" THEN {} ELSE {Owner})
    BY <2>1, <2>2, <2>3, CommandTypes DEF TypeOK, Peopled, Roles
  <2>5. \A u \in Users : role[u] # "NONE" => role'[u] # "NONE"
    BY <2>2, <2>3, CommandTypes DEF TypeOK, Peopled
  <2> QED BY <2>1, <2>4, <2>5, OnlyPeopleMove DEF changeMember
<1>4. CASE ~UNCHANGED contentVars /\ exitMember(r)
  <2>1. player' = player \ {r.user} /\ UNCHANGED <<thread, role, sub, post, announced>>
    BY <1>4 DEF exitMember, Break
  <2> QED BY <2>1, OnlyPeopleMove DEF TypeOK, Peopled
<1> QED BY <1>1, <1>2, <1>3, <1>4

(* All the steps of the thread services. *)
LEMMA ThreadStepsMove ==
    ASSUME TypeOK, OrdersDistinct, OneBody, NEW r \in Requests, ThreadSteps(r)
    PROVE  ContentMove
<1>1. CASE \/ readUpdateThread(r) \/ readSave(r) \/ readRemoveThread(r) \/ readJoin(r)
           \/ readInviteJoin(r) \/ readUpdateMember(r) \/ readExitMember(r)
  BY <1>1, ContentStays DEF readUpdateThread, readSave, readRemoveThread, readJoin, readInviteJoin,
                            readUpdateMember, readExitMember, Read, Refuse, contentVars
<1> QED BY <1>1, UpdateThreadMoves, SaveMoves, RemoveThreadMoves, MemberStepsMove DEF ThreadSteps

-------------------------------------------------------------------------------
(* What readers see *)

PinsIn(posts, s) == {p \in DOMAIN posts : posts[p].sub = s /\ posts[p].pinned}

LEMMA PinsAreFinite ==
    ASSUME post \in Seq(PostRows), NEW s
    PROVE  IsFiniteSet(PinsIn(post, s))
<1>1. PinsIn(post, s) \subseteq 1..Len(post) /\ Len(post) \in Nat
  BY DEF PinsIn
<1>2. IsFiniteSet(1..Len(post))
  BY <1>1, FS_Interval
<1> QED BY <1>1, <1>2, FS_Subset

(* No pin is added, and what carries one stays where it can be seen. *)
PinsStay ==
    \A p \in DOMAIN post' : post'[p].pinned =>
        /\ p \in DOMAIN post /\ post[p].pinned
        /\ post[p].live => post'[p].live
        /\ sub[post[p].sub].live => sub'[post[p].sub].live
        /\ thread.state \in {"draft", "published"} => thread'.state \in {"draft", "published"}

(* No post is announced again, and a new one as the thread asks for. *)
NewsStay ==
    /\ thread'.state = "published" => thread.state = "published"
    /\ \A p \in DOMAIN post : announced'[p] = announced[p]
    /\ \A p \in DOMAIN post' \ DOMAIN post :
         /\ announced'[p] <= 1
         /\ thread.state = "draft" => announced'[p] = 0
         /\ thread.state = "published" /\ post'[p].kind = "FLOOR" => announced'[p] = 1

(* The thread is published, and with it all that is in it. *)
NewsSpread ==
    /\ thread.state = "draft" /\ thread'.state = "published" /\ DOMAIN sub' = DOMAIN sub
    /\ \A p \in DOMAIN post' :
         announced'[p] = Counted(p) + IF post'[p].live /\ sub[post'[p].sub].live THEN 1 ELSE 0

NewsMove == NewsStay \/ NewsSpread

(* Pins that stay are still where they fit. *)
LEMMA PinsKeep ==
    ASSUME TypeOK, ContentMove, PinnedIsVisible, PinsStay
    PROVE  PinnedIsVisible'
<1>1. \A p \in DOMAIN post : Replaces(post'[p], post[p])
  BY DEF ContentMove, PostsMove, PostsStay, PostsGrow
<1>2. ASSUME NEW p \in DOMAIN post', post'[p].pinned
      PROVE  /\ post'[p].live /\ sub'[post'[p].sub].live /\ MainFloor(post'[p])
             /\ thread'.state \in {"draft", "published"}
  BY <1>1, <1>2 DEF PinsStay, PinnedIsVisible, PinsFit, Replaces, MainFloor
<1>3. ASSUME NEW s \in DOMAIN sub' PROVE Cardinality(PinsIn(post', s)) <= MaxPinned
  <2>1. PinsIn(post', s) \subseteq PinsIn(post, s)
    BY <1>1 DEF PinsStay, PinsIn, Replaces
  <2>2. IsFiniteSet(PinsIn(post, s))
    BY PinsAreFinite DEF TypeOK
  <2>3. Cardinality(PinsIn(post', s)) <= Cardinality(PinsIn(post, s))
    BY <2>1, <2>2, FS_Subset
  <2>4. Cardinality(PinsIn(post, s)) <= MaxPinned
    <3>1. CASE s \in DOMAIN sub
      BY <3>1 DEF PinnedIsVisible, PinsFit, PinsIn
    <3>2. CASE s \notin DOMAIN sub
      <4>1. PinsIn(post, s) = {}
        BY <3>2 DEF PinsIn, TypeOK, Linked, Fits
      <4> QED BY <4>1, FS_EmptySet, ThreadStateAssumption
    <3> QED BY <3>1, <3>2
  <2>5. Cardinality(PinsIn(post', s)) \in Nat /\ Cardinality(PinsIn(post, s)) \in Nat
    BY <2>1, <2>2, FS_Subset, FS_CardinalityType
  <2> QED BY <2>3, <2>4, <2>5, ThreadStateAssumption
<1> QED BY <1>2, <1>3 DEF PinnedIsVisible, PinsFit, PinsIn

(* Each floor still is announced once. *)
LEMMA NewsKeep ==
    ASSUME TypeOK, ContentMove, FloorsAnnouncedOnce, NewsMove
    PROVE  FloorsAnnouncedOnce'
<1>1. \A p \in DOMAIN post :
        /\ Replaces(post'[p], post[p]) /\ p \in DOMAIN announced
        /\ post[p].sub \in DOMAIN sub /\ announced[p] \in Nat
  BY DEF TypeOK, Linked, Fits, ContentMove, PostsMove, PostsStay, PostsGrow
<1>2. (thread'.state = "draft" => thread.state = "draft")
      /\ \A s \in DOMAIN sub : sub'[s].live => sub[s].live
  BY DEF ContentMove, PeopleMove, SubsMove, SubsKeep
<1>3. DOMAIN announced = DOMAIN post
  BY DEF TypeOK
<1> SUFFICES ASSUME NEW p \in DOMAIN post'
             PROVE  /\ announced'[p] <= 1
                    /\ thread'.state = "draft" => announced'[p] = 0
                    /\ /\ thread'.state = "published" /\ post'[p].kind = "FLOOR"
                       /\ post'[p].live /\ sub'[post'[p].sub].live
                       => announced'[p] = 1
  BY DEF FloorsAnnouncedOnce, NewsFit
<1>4. CASE NewsStay /\ p \in DOMAIN post
  BY <1>1, <1>2, <1>4 DEF NewsStay, FloorsAnnouncedOnce, NewsFit, Replaces
<1>5. CASE NewsStay /\ p \notin DOMAIN post
  BY <1>2, <1>5 DEF NewsStay
<1>6. CASE NewsSpread
  <2>1. Counted(p) = 0
    BY <1>1, <1>3, <1>6 DEF NewsSpread, Counted, FloorsAnnouncedOnce, NewsFit
  <2>2. announced'[p] = IF post'[p].live /\ sub[post'[p].sub].live THEN 1 ELSE 0
    BY <1>6, <2>1 DEF NewsSpread
  <2>3. sub'[post'[p].sub].live => sub[post'[p].sub].live
    <3>1. post'[p].sub \in DOMAIN sub
      BY <1>1, <1>6 DEF NewsSpread, ContentMove, PostsMove, PostsStay, PostsGrow, Replaces
    <3> QED BY <1>2, <3>1
  <2> QED BY <1>6, <2>2, <2>3 DEF NewsSpread
<1> QED BY <1>4, <1>5, <1>6 DEF NewsMove

(* What is the same is shown the same. *)
LEMMA ShownStays ==
    ASSUME UNCHANGED contentVars
    PROVE  PinsStay /\ NewsMove
BY DEF contentVars, PinsStay, NewsMove, NewsStay

(* Posts that are changed in place and gain no pin. *)
LEMMA ShownChanged ==
    ASSUME TypeOK, UNCHANGED announced, DOMAIN post' = DOMAIN post,
           thread'.state = "published" => thread.state = "published",
           \A p \in DOMAIN post : post'[p].pinned =>
               /\ post[p].pinned
               /\ post[p].live => post'[p].live
               /\ sub[post[p].sub].live => sub'[post[p].sub].live
               /\ thread.state \in {"draft", "published"} => thread'.state \in {"draft", "published"}
    PROVE  PinsStay /\ NewsMove
BY DEF PinsStay, NewsMove, NewsStay

(* A post that is added carries no pin and is announced if it has to be. *)
LEMMA ShownAdded ==
    ASSUME TypeOK, NEW x, ~x.pinned, NEW announce \in BOOLEAN, AddPost(x, announce),
           thread'.state = thread.state, \A s \in DOMAIN sub : sub'[s].live = sub[s].live,
           thread.state = "draft" => ~announce,
           thread.state = "published" /\ x.kind = "FLOOR" => announce
    PROVE  PinsStay /\ NewsMove
<1> DEFINE n == Len(post) + 1
<1>1. /\ DOMAIN post' = DOMAIN post \cup {n} /\ n \notin DOMAIN post /\ post'[n] = x
      /\ \A p \in DOMAIN post : post'[p] = post[p] /\ post[p].sub \in DOMAIN sub
  BY DEF TypeOK, AddPost, Linked, Fits
<1>2. /\ announced'[n] = IF announce THEN 1 ELSE 0
      /\ \A p \in DOMAIN post : announced'[p] = announced[p]
  BY DEF TypeOK, AddPost
<1> HIDE DEF n
<1>3. PinsStay
  BY <1>1 DEF PinsStay
<1> QED BY <1>1, <1>2, <1>3 DEF NewsMove, NewsStay

(* The commands on posts: new posts carry no pin, edits leave it where it  *)
(* is and removals take it away; createPost looks under the lock whether   *)
(* the thread is published, upsertBody trusts what it saw before, which a  *)
(* draft never contradicts.                                                *)
LEMMA CreatePostShows ==
    ASSUME TypeOK, NEW r \in Requests, createPost(r)
    PROVE  PinsStay /\ NewsMove
<1>1. CASE ~UNCHANGED contentVars
  <2> DEFINE published == thread.state = "published"
             x == NewPost(r, "FLOOR", r.sub, IF r.parent = 0 THEN NextFloor(r.sub) ELSE 0, published)
  <2>1. AddPost(x, published) /\ UNCHANGED <<thread, sub>>
    BY <1>1 DEF createPost, Refuse
  <2>2. ~x.pinned
    BY DEF NewPost
  <2> HIDE DEF x
  <2> QED BY <2>1, <2>2, ShownAdded
<1> QED BY <1>1, ShownStays

LEMMA CreateBodyShows ==
    ASSUME TypeOK, Remembered, NEW r \in Requests, createBody(r)
    PROVE  PinsStay /\ NewsMove
<1>1. CASE ~UNCHANGED contentVars
  <2> DEFINE published == IF seen[r].published THEN TRUE ELSE FALSE
             x == NewBody(r, r.sub, seen[r].published)
  <2>1. AddPost(x, published) /\ UNCHANGED <<thread, sub>>
    BY <1>1 DEF createBody, Refuse, Break, AddPost
  <2>2. ~x.pinned /\ x.kind = "BODY"
    BY DEF NewBody, NewPost
  <2>3. thread.state = "draft" => ~published
    BY DEF createBody, InTransaction, WithoutUserLocks, Remembered, Remembers, Knows
  <2> HIDE DEF x, published
  <2>4. published \in BOOLEAN
    BY DEF published
  <2> QED BY <2>1, <2>2, <2>3, <2>4, ShownAdded
<1> QED BY <1>1, ShownStays

LEMMA EditPostShows ==
    ASSUME TypeOK, NEW r \in Requests, NEW p, NEW version, EditPost(r, p, version)
    PROVE  PinsStay /\ NewsMove
<1>1. CASE ~UNCHANGED contentVars
  <2> DEFINE x == Edited(p, r, seen[r].published)
  <2>1. /\ p \in DOMAIN post /\ post' = [post EXCEPT ![p] = x] /\ UNCHANGED <<thread, sub, announced>>
    BY <1>1 DEF EditPost, Refuse, PostLive
  <2>2. x.pinned = post[p].pinned /\ x.live = post[p].live
    <3>1. post[p] \in PostRows
      BY <2>1 DEF TypeOK
    <3> QED BY <3>1 DEF PostRows, Edited
  <2> HIDE DEF x
  <2>3. DOMAIN post' = DOMAIN post /\ \A q \in DOMAIN post : post'[q] = IF q = p THEN x ELSE post[q]
    BY <2>1
  <2> QED BY <2>1, <2>2, <2>3, ShownChanged
<1> QED BY <1>1, ShownStays

LEMMA RemovePostShows ==
    ASSUME TypeOK, NEW r \in Requests, removePost(r)
    PROVE  PinsStay /\ NewsMove
<1>1. CASE ~UNCHANGED contentVars
  <2> DEFINE p == r.post
             x == Removed(p)
  <2>1. /\ p \in DOMAIN post /\ post' = [post EXCEPT ![p] = x] /\ UNCHANGED <<thread, sub, announced>>
    BY <1>1 DEF removePost, Break, PostLive
  <2>2. ~x.pinned
    <3>1. post[p] \in PostRows
      BY <2>1 DEF TypeOK
    <3> QED BY <3>1 DEF PostRows, Removed
  <2> HIDE DEF x
  <2>3. DOMAIN post' = DOMAIN post /\ \A q \in DOMAIN post : post'[q] = IF q = p THEN x ELSE post[q]
    BY <2>1
  <2> QED BY <2>1, <2>2, <2>3, ShownChanged
<1> QED BY <1>1, ShownStays

(* A new pin sits on a main floor, which it was when setPinned looked, that *)
(* is still there under the lock, where there is room for one more.        *)
LEMMA SetPinnedShows ==
    ASSUME TypeOK, Remembered, PinnedIsVisible, NEW r \in Requests, setPinned(r)
    PROVE  PinnedIsVisible' /\ NewsMove
<1>1. CASE UNCHANGED contentVars
  BY <1>1, ShownStays DEF contentVars, PinnedIsVisible
<1>2. CASE ~UNCHANGED contentVars
  <2> DEFINE p == r.post
             s == post[p].sub
  <2>1. /\ thread.state \in {"draft", "published"} /\ PostLive(p) /\ SubLive(s)
        /\ ~(r.on /\ ~post[p].pinned /\ Cardinality(Pinned(s)) >= MaxPinned)
        /\ post' = [post EXCEPT ![p].pinned = r.on]
        /\ UNCHANGED <<thread, sub, announced>>
    BY <1>2 DEF setPinned, Refuse, CanBePinned
  <2>2. p \in DOMAIN post /\ IsMainFloor(p)
    BY DEF setPinned, InTransaction, WithoutUserLocks, Remembered, Remembers, Knows
  <2>3. \A q \in DOMAIN post : post[q] \in PostRows
    BY DEF TypeOK
  <2>4. /\ DOMAIN post' = DOMAIN post
        /\ \A q \in DOMAIN post :
             /\ post'[q].live = post[q].live /\ post'[q].sub = post[q].sub
             /\ MainFloor(post'[q]) = MainFloor(post[q])
             /\ post'[q].pinned = IF q = p THEN r.on ELSE post[q].pinned
    <3>1. post'[p] = [post[p] EXCEPT !.pinned = r.on] /\ \A q \in DOMAIN post \ {p} : post'[q] = post[q]
      BY <2>1, <2>2
    <3>2. /\ post'[p].live = post[p].live /\ post'[p].sub = post[p].sub
          /\ MainFloor(post'[p]) = MainFloor(post[p]) /\ post'[p].pinned = r.on
      BY <2>2, <2>3, <3>1 DEF PostRows, MainFloor
    <3> QED BY <2>1, <3>1, <3>2
  <2>5. \A q \in DOMAIN post' : post'[q].pinned =>
          /\ post'[q].live /\ sub'[post'[q].sub].live /\ MainFloor(post'[q])
          /\ thread'.state \in {"draft", "published"}
    BY <2>1, <2>2, <2>4 DEF PinnedIsVisible, PinsFit, PostLive, SubLive, IsMainFloor
  <2>6. ASSUME NEW t \in DOMAIN sub' PROVE Cardinality(PinsIn(post', t)) <= MaxPinned
    <3>1. IsFiniteSet(PinsIn(post, t)) /\ Cardinality(PinsIn(post, t)) \in Nat
      <4>1. IsFiniteSet(PinsIn(post, t))
        BY PinsAreFinite DEF TypeOK
      <4> QED BY <4>1, FS_CardinalityType
    <3>2. Cardinality(PinsIn(post, t)) <= MaxPinned
      BY <2>1, <2>6 DEF PinnedIsVisible, PinsFit, PinsIn
    <3>3. CASE PinsIn(post', t) \subseteq PinsIn(post, t)
      <4>1. /\ Cardinality(PinsIn(post', t)) \in Nat
            /\ Cardinality(PinsIn(post', t)) <= Cardinality(PinsIn(post, t))
        BY <3>1, <3>3, FS_Subset, FS_CardinalityType
      <4> QED BY <3>1, <3>2, <4>1, ThreadStateAssumption
    <3>4. CASE ~(PinsIn(post', t) \subseteq PinsIn(post, t))
      <4>1. t = s /\ r.on /\ ~post[p].pinned
        BY <2>4, <3>4 DEF PinsIn
      <4>2. PinsIn(post', t) = PinsIn(post, t) \cup {p} /\ p \notin PinsIn(post, t)
        <5> HIDE DEF p, s
        <5>1. p \notin PinsIn(post, t) /\ post[p].sub = t
          BY <4>1 DEF PinsIn, s
        <5>2. \A q : q \in PinsIn(post', t) <=> q \in PinsIn(post, t) \/ q = p
          BY <2>2, <2>4, <4>1, <5>1 DEF PinsIn
        <5> QED BY <5>1, <5>2
      <4>3. Pinned(s) = PinsIn(post, t)
        BY <4>1 DEF Pinned, MainFloors, IsMainFloor, PinsIn, PinnedIsVisible, PinsFit
      <4>4. Cardinality(PinsIn(post', t)) = Cardinality(PinsIn(post, t)) + 1
        BY <3>1, <4>2, FS_AddElement
      <4>5. ~(Cardinality(PinsIn(post, t)) >= MaxPinned)
        BY <2>1, <4>1, <4>3
      <4> QED BY <3>1, <4>4, <4>5, ThreadStateAssumption
    <3> QED BY <3>3, <3>4
  <2>7. NewsMove
    BY <2>1, <2>4 DEF NewsMove, NewsStay
  <2> QED BY <2>5, <2>6, <2>7 DEF PinnedIsVisible, PinsFit, PinsIn
<1> QED BY <1>1, <1>2

(* All the steps of PostsService and PostPinService. *)
LEMMA PostStepsShow ==
    ASSUME TypeOK, Remembered, PinnedIsVisible, NEW r \in Requests, PostSteps(r), ContentMove
    PROVE  PinnedIsVisible' /\ NewsMove
<1>0. PinsStay => PinnedIsVisible'
  BY PinsKeep
<1>1. CASE readCreatePost(r) \/ createPostRaced(r)
  BY <1>0, <1>1, ShownStays DEF readCreatePost, createPostRaced, Read, Refuse, contentVars
<1>2. CASE readUpsertBody(r) \/ readUpdatePost(r) \/ readRemovePost(r) \/ readSetPinned(r)
  BY <1>0, <1>2, ShownStays DEF readUpsertBody, readUpdatePost, readRemovePost, readSetPinned,
                          Read, Refuse, contentVars
<1>3. CASE editBody(r) \/ updatePost(r)
  BY <1>0, <1>3, EditPostShows DEF editBody, updatePost
<1> QED BY <1>0, <1>1, <1>2, <1>3, CreatePostShows, CreateBodyShows, RemovePostShows, SetPinnedShows
        DEF PostSteps

(* The commands on subthreads: createSub trusts what it saw, as upsertBody *)
(* does; removeSub takes the pins with it.                                 *)
LEMMA CreateSubShows ==
    ASSUME TypeOK, Remembered, NEW r \in Requests, createSub(r)
    PROVE  PinsStay /\ NewsMove
<1>1. CASE ~UNCHANGED contentVars
  <2> DEFINE n == Len(sub) + 1
             published == IF seen[r].published THEN TRUE ELSE FALSE
             x == NewBody(r, n, seen[r].published)
  <2>1. /\ \E y : sub' = Append(sub, y)
        /\ IF r.body THEN AddPost(x, seen[r].published) ELSE UNCHANGED <<post, announced>>
        /\ UNCHANGED thread
    BY <1>1 DEF createSub, Refuse, Break, AnswerSub
  <2>2. \A s \in DOMAIN sub : sub'[s] = sub[s]
    BY <2>1 DEF TypeOK
  <2>3. CASE r.body
    <3>1. AddPost(x, published)
      BY <2>1, <2>3 DEF AddPost
    <3>2. ~x.pinned /\ x.kind = "BODY"
      BY DEF NewBody, NewPost
    <3>3. thread.state = "draft" => ~published
      BY DEF createSub, InTransaction, WithoutUserLocks, Remembered, Remembers, Knows
    <3> HIDE DEF x, published
    <3>4. published \in BOOLEAN
      BY DEF published
    <3> QED BY <2>1, <2>2, <3>1, <3>2, <3>3, <3>4, ShownAdded
  <2>4. CASE ~r.body
    <3>1. \A p \in DOMAIN post : post[p].sub \in DOMAIN sub
      BY DEF TypeOK, Linked, Fits
    <3> QED BY <2>1, <2>2, <2>4, <3>1, ShownChanged
  <2> QED BY <2>3, <2>4
<1> QED BY <1>1, ShownStays

(* Commands that only change subthreads and leave them alive. *)
LEMMA ShownWithSubs ==
    ASSUME TypeOK, UNCHANGED <<thread, post, announced>>, \A s \in DOMAIN sub : sub'[s].live = sub[s].live
    PROVE  PinsStay /\ NewsMove
<1>1. \A p \in DOMAIN post : post[p].sub \in DOMAIN sub
  BY DEF TypeOK, Linked, Fits
<1> QED BY <1>1, ShownChanged

LEMMA ReorderShows ==
    ASSUME TypeOK, NEW r \in Requests, reorder(r)
    PROVE  PinsStay /\ NewsMove
<1>1. CASE ~UNCHANGED contentVars
  <2>1. sub' = Reordered(r.ids) /\ UNCHANGED <<thread, post, announced>>
    BY <1>1 DEF reorder, Refuse
  <2>2. \A s \in DOMAIN sub : sub'[s].live = sub[s].live
    <3> SUFFICES ASSUME NEW s \in DOMAIN sub PROVE sub'[s].live = sub[s].live
      OBVIOUS
    <3> DEFINE n == (CHOOSE i \in DOMAIN r.ids : r.ids[i] = s) - 1
    <3>1. sub'[s] = [sub[s] EXCEPT !.order = n] \/ sub'[s] = sub[s]
      BY <2>1 DEF Reordered
    <3>2. sub[s] \in SubthreadRows
      BY DEF TypeOK
    <3> HIDE DEF n
    <3> QED BY <3>1, <3>2 DEF SubthreadRows
  <2> QED BY <2>1, <2>2, ShownWithSubs
<1> QED BY <1>1, ShownStays

LEMMA UpdateSubShows ==
    ASSUME TypeOK, NEW r \in Requests, updateSub(r)
    PROVE  PinsStay /\ NewsMove
<1>1. CASE ~UNCHANGED contentVars
  <2> DEFINE s == r.sub
             order == IF r.order = {} THEN sub[s].order ELSE Max(r.order)
             next == sub[s].version + 1
             y == [sub[s] EXCEPT !.order = order, !.policy = r.policy, !.version = next]
  <2>1. SubLive(s) /\ sub' = [sub EXCEPT ![s] = y] /\ UNCHANGED <<thread, post, announced>>
    BY <1>1 DEF updateSub, Refuse
  <2>2. s \in DOMAIN sub /\ sub[s] \in SubthreadRows
    BY <2>1 DEF SubLive, TypeOK
  <2> HIDE DEF order, next
  <2>3. y.live = sub[s].live
    BY <2>2 DEF SubthreadRows
  <2> HIDE DEF y
  <2> QED BY <2>1, <2>2, <2>3, ShownWithSubs
<1> QED BY <1>1, ShownStays

LEMMA RemoveSubShows ==
    ASSUME TypeOK, NEW r \in Requests, removeSub(r)
    PROVE  PinsStay /\ NewsMove
<1>1. CASE ~UNCHANGED contentVars
  <2>1. /\ sub' = [sub EXCEPT ![r.sub].live = FALSE]
        /\ post' = [p \in DOMAIN post |-> IF post[p].sub = r.sub THEN Unpinned(post[p]) ELSE post[p]]
        /\ UNCHANGED <<thread, announced>>
    BY <1>1 DEF removeSub, Refuse, Unpinned
  <2>2. \A p \in DOMAIN post : post[p] \in PostRows /\ post[p].sub \in DOMAIN sub
    BY DEF TypeOK, Linked, Fits
  <2>3. \A p \in DOMAIN post : post[p].sub = r.sub => ~post'[p].pinned
    <3> SUFFICES ASSUME NEW p \in DOMAIN post, post[p].sub = r.sub PROVE ~post'[p].pinned
      OBVIOUS
    <3>1. post'[p] = [post[p] EXCEPT !.pinned = FALSE]
      BY <2>1 DEF Unpinned
    <3> QED BY <2>2, <3>1 DEF PostRows
  <2>4. /\ DOMAIN post' = DOMAIN post
        /\ \A p \in DOMAIN post : post[p].sub # r.sub =>
             post'[p] = post[p] /\ sub'[post[p].sub] = sub[post[p].sub]
    BY <2>1, <2>2
  <2> QED BY <2>1, <2>3, <2>4, ShownChanged
<1> QED BY <1>1, ShownStays

(* All the steps of SubthreadsService. *)
LEMMA SubthreadStepsShow ==
    ASSUME TypeOK, Remembered, NEW r \in Requests, SubthreadSteps(r)
    PROVE  PinsStay /\ NewsMove
<1>1. CASE readCreateSub(r)
  BY <1>1, ShownStays DEF readCreateSub, AnswerSub, Read, Refuse, contentVars
<1>2. CASE readReorder(r) \/ readUpdateSub(r) \/ readRemoveSub(r)
  BY <1>2, ShownStays DEF readReorder, readUpdateSub, readRemoveSub, Read, Refuse, contentVars
<1> QED BY <1>1, <1>2, CreateSubShows, ReorderShows, UpdateSubShows, RemoveSubShows DEF SubthreadSteps

(* Publishing rolls dice and moves no pin. *)
LEMMA SettledShows ==
    ASSUME NEW posts \in Seq(PostRows), NEW i \in DOMAIN posts
    PROVE  /\ Settled(posts)[i].pinned = posts[i].pinned
           /\ Settled(posts)[i].live = posts[i].live
           /\ Settled(posts)[i].sub = posts[i].sub
<1> DEFINE next == posts[i].version + 1
<1>1. posts[i] \in PostRows
  OBVIOUS
<1>2. \/ Settled(posts)[i] = posts[i]
      \/ Settled(posts)[i] = [posts[i] EXCEPT !.dice = "rolled", !.version = next]
  BY DEF Settled
<1> HIDE DEF next
<1> QED BY <1>1, <1>2 DEF PostRows

LEMMA UpdateThreadShows ==
    ASSUME TypeOK, NEW r \in Requests, updateThread(r)
    PROVE  PinsStay /\ NewsMove
<1>1. CASE ~UNCHANGED contentVars
  <2>1. /\ thread.state \in {"draft", "published"}
        /\ r.publish => thread.state = "draft"
        /\ thread' = NewThread(r, r.publish)
        /\ IF r.publish THEN post' = Settled(post) /\ announced' = SettledEvents(post)
                        ELSE UNCHANGED <<post, announced>>
        /\ UNCHANGED sub
    BY <1>1 DEF updateThread, Refuse
  <2>2. thread'.state = IF r.publish THEN "published" ELSE thread.state
    BY <2>1, NewThreadState
  <2>3. CASE r.publish
    <3>1. post' = Settled(post) /\ announced' = SettledEvents(post) /\ DOMAIN post' = DOMAIN post
      BY <2>1, <2>3 DEF Settled
    <3>2. \A p \in DOMAIN post :
            post'[p].pinned = post[p].pinned /\ post'[p].live = post[p].live /\ post'[p].sub = post[p].sub
      BY <3>1, SettledShows DEF TypeOK
    <3>3. PinsStay
      BY <2>1, <2>2, <2>3, <3>1, <3>2 DEF PinsStay
    <3>4. NewsSpread
      BY <2>1, <2>2, <2>3, <3>1, <3>2 DEF NewsSpread, SettledEvents, Listed
    <3> QED BY <3>3, <3>4 DEF NewsMove
  <2>4. CASE ~r.publish
    BY <2>1, <2>2, <2>4, ShownChanged
  <2> QED BY <2>3, <2>4
<1> QED BY <1>1, ShownStays

(* save: the body is edited, or new and without a pin. *)
LEMMA SavedShows ==
    ASSUME TypeOK, OneBody, NEW r \in Requests, NEW published, 1 \in DOMAIN sub
    PROVE  LET posts == Saved(r, published)
           IN  /\ \A i \in DOMAIN post : posts[i].pinned = post[i].pinned /\ posts[i].live = post[i].live
               /\ Len(posts) # Len(post) => /\ Len(posts) = Len(post) + 1
                                            /\ ~posts[Len(posts)].pinned /\ posts[Len(posts)].kind = "BODY"
<1> DEFINE posts == Saved(r, published)
           body == BodyOf(1)
<1>1. post \in Seq(PostRows) /\ \A i \in DOMAIN post : post[i] \in PostRows
  BY DEF TypeOK
<1>2. CASE body = 0
  <2> DEFINE x == NewBody(r, 1, published)
  <2>1. posts = Append(post, x)
    BY <1>2 DEF Saved
  <2>2. x \in PostRows /\ ~x.pinned /\ x.kind = "BODY"
    BY NewRows DEF NewBody, NewPost
  <2> HIDE DEF x, posts
  <2> QED BY <1>1, <2>1, <2>2 DEF posts
<1>3. CASE body # 0 /\ post[body].text = r.text
  BY <1>3 DEF Saved
<1>4. CASE body # 0 /\ post[body].text # r.text
  <2> DEFINE x == Edited(body, r, published)
  <2>1. posts = [post EXCEPT ![body] = x]
    BY <1>4 DEF Saved
  <2>2. body \in DOMAIN post
    BY <1>4, BodyOfDefault DEF Bodies, BodiesIn
  <2>3. x.pinned = post[body].pinned /\ x.live = post[body].live
    BY <1>1, <2>2 DEF PostRows, Edited
  <2> HIDE DEF x, body, posts
  <2>4. /\ Len(posts) = Len(post)
        /\ \A i \in DOMAIN post : posts[i] = IF i = body THEN x ELSE post[i]
    BY <1>1, <2>1, <2>2
  <2> QED BY <2>3, <2>4 DEF posts
<1> QED BY <1>2, <1>3, <1>4

LEMMA SaveShows ==
    ASSUME TypeOK, OrdersDistinct, OneBody, NEW r \in Requests, save(r)
    PROVE  PinsStay /\ NewsMove
<1>1. CASE ~UNCHANGED contentVars
  <2> DEFINE published == thread.state = "published"
             posts == Saved(r, published)
             next == sub[1].version + 1
  <2>1. /\ Current(r) /\ ~(r.publish /\ published)
        /\ thread' = NewThread(r, r.publish)
        /\ sub' = sub \/ sub' = [sub EXCEPT ![1] = [sub[1] EXCEPT !.policy = r.policy, !.version = next]]
        /\ post' = IF r.publish THEN Settled(posts) ELSE posts
        /\ announced' = IF r.publish THEN SettledEvents(posts)
                        ELSE IF Len(posts) > Len(post)
                             THEN Append(announced, IF published THEN 1 ELSE 0)
                             ELSE announced
    BY <1>1 DEF save, SavedEvents, Refuse
  <2>2. /\ thread.state \in {"draft", "published"}
        /\ r.publish => thread.state = "draft"
        /\ 1 \in DOMAIN sub
    BY <2>1 DEF Current, OrdersDistinct, LiveSubs
  <2>3. thread'.state = IF r.publish THEN "published" ELSE thread.state
    BY <2>1, NewThreadState
  <2> HIDE DEF next
  <2>4. DOMAIN sub' = DOMAIN sub /\ \A s \in DOMAIN sub : sub'[s].live = sub[s].live
    <3>1. sub[1] \in SubthreadRows
      BY <2>2 DEF TypeOK
    <3> QED BY <2>1, <3>1 DEF SubthreadRows
  <2>5. /\ \A i \in DOMAIN post : posts[i].pinned = post[i].pinned /\ posts[i].live = post[i].live
        /\ Len(posts) # Len(post) => /\ Len(posts) = Len(post) + 1
                                     /\ ~posts[Len(posts)].pinned /\ posts[Len(posts)].kind = "BODY"
    BY <2>2, SavedShows
  <2>6. posts \in Seq(PostRows) /\ Len(posts) \in Nat
        /\ \A i \in DOMAIN post : Replaces(posts[i], post[i])
    BY <2>2, SavedPosts
  <2> HIDE DEF posts
  <2>7. DOMAIN post' = DOMAIN posts /\ DOMAIN posts = 1..Len(posts)
    <3>1. DOMAIN Settled(posts) = DOMAIN posts
      BY DEF Settled
    <3>2. DOMAIN posts = 1..Len(posts)
      BY <2>6
    <3> QED BY <2>1, <3>1, <3>2
  <2>8. \A i \in DOMAIN posts :
          /\ post'[i].pinned = posts[i].pinned /\ post'[i].live = posts[i].live
          /\ post'[i].sub = posts[i].sub
    BY <2>1, <2>6, SettledShows
  <2>9. \A p \in DOMAIN post : post[p].sub \in DOMAIN sub
    BY DEF TypeOK, Linked, Fits
  <2>10. /\ DOMAIN post = 1..Len(post) /\ DOMAIN announced = DOMAIN post /\ Len(announced) = Len(post)
         /\ Len(post) \in Nat /\ announced \in Seq(Nat)
    BY DEF TypeOK
  <2>11. ASSUME NEW i \in DOMAIN posts, i \notin DOMAIN post
         PROVE  /\ i = Len(post) + 1 /\ i = Len(posts) /\ Len(posts) # Len(post)
                /\ ~posts[i].pinned /\ posts[i].kind = "BODY"
    <3>1. i \in 1..Len(posts) /\ i \notin 1..Len(post)
      BY <2>7, <2>10, <2>11
    <3>2. Len(posts) # Len(post)
      BY <3>1
    <3>3. Len(posts) = Len(post) + 1 /\ ~posts[Len(posts)].pinned /\ posts[Len(posts)].kind = "BODY"
      BY <2>5, <3>2
    <3>4. i = Len(posts)
      BY <2>6, <2>10, <3>1, <3>3
    <3> QED BY <3>2, <3>3, <3>4
  <2>12. PinsStay
    <3> SUFFICES ASSUME NEW p \in DOMAIN post', post'[p].pinned
                 PROVE  /\ p \in DOMAIN post /\ post[p].pinned
                        /\ post[p].live => post'[p].live
                        /\ sub[post[p].sub].live => sub'[post[p].sub].live
                        /\ thread'.state \in {"draft", "published"}
      BY DEF PinsStay
    <3>1. p \in DOMAIN posts /\ posts[p].pinned
      BY <2>7, <2>8
    <3>2. p \in DOMAIN post
      BY <2>11, <3>1
    <3> QED BY <2>2, <2>3, <2>4, <2>5, <2>8, <2>9, <3>1, <3>2
  <2>13. CASE r.publish
    <3>1. announced' = SettledEvents(posts)
      BY <2>1, <2>13
    <3>2. thread.state = "draft" /\ thread'.state = "published"
      BY <2>2, <2>3, <2>13
    <3>3. ASSUME NEW i \in DOMAIN post'
          PROVE  announced'[i] = Counted(i) + IF post'[i].live /\ sub[post'[i].sub].live THEN 1 ELSE 0
      <4>1. i \in DOMAIN posts
        BY <2>7
      <4> QED BY <2>8, <3>1, <4>1 DEF SettledEvents, Listed
    <3>4. NewsSpread
      BY <2>4, <3>2, <3>3 DEF NewsSpread
    <3> QED BY <2>12, <3>4 DEF NewsMove
  <2>14. CASE ~r.publish
    <3>1. post' = posts
      BY <2>1, <2>14
    <3>2. \A p \in DOMAIN post : announced'[p] = announced[p]
      BY <2>1, <2>10, <2>14
    <3>3. ASSUME NEW p \in DOMAIN post' \ DOMAIN post
          PROVE  post'[p].kind = "BODY" /\ announced'[p] = IF published THEN 1 ELSE 0
      <4>1. p = Len(post) + 1 /\ p = Len(posts) /\ posts[p].kind = "BODY"
        BY <2>7, <2>11, <3>3
      <4>2. Len(posts) > Len(post)
        BY <2>10, <4>1
      <4>3. announced' = Append(announced, IF published THEN 1 ELSE 0)
        BY <2>1, <2>14, <4>2
      <4>4. announced'[Len(announced) + 1] = IF published THEN 1 ELSE 0
        BY <2>10, <4>3
      <4> QED BY <2>10, <3>1, <4>1, <4>4
    <3>4. NewsStay
      BY <2>3, <2>14, <3>2, <3>3 DEF NewsStay
    <3> QED BY <2>12, <3>4 DEF NewsMove
  <2> QED BY <2>13, <2>14
<1> QED BY <1>1, ShownStays

(* Removing the thread takes all pins, and the members have none. *)
LEMMA EraseShows ==
    ASSUME TypeOK, EraseThread
    PROVE  PinsStay /\ NewsMove
<1>1. \A p \in DOMAIN post : post[p] \in PostRows
  BY DEF TypeOK
<1>2. \A p \in DOMAIN post : ~post'[p].pinned
  BY <1>1 DEF EraseThread, Unpinned, PostRows
<1>3. DOMAIN post' = DOMAIN post /\ UNCHANGED announced /\ thread'.state = "erased"
  BY DEF EraseThread, TypeOK
<1> QED BY <1>2, <1>3, ShownChanged

LEMMA RemoveThreadShows ==
    ASSUME TypeOK, NEW r \in Requests, removeThread(r)
    PROVE  PinsStay /\ NewsMove
<1>1. CASE ~UNCHANGED contentVars /\ ~seen[r].published
  BY <1>1, EraseShows DEF removeThread, Break
<1>2. CASE ~UNCHANGED contentVars /\ seen[r].published
  <2>1. /\ thread' = [thread EXCEPT !.state = "deleted"]
        /\ post' = [p \in DOMAIN post |-> Unpinned(post[p])]
        /\ UNCHANGED announced
    BY <1>2 DEF removeThread, Break
  <2>2. \A p \in DOMAIN post : post[p] \in PostRows
    BY DEF TypeOK
  <2>3. \A p \in DOMAIN post : ~post'[p].pinned
    BY <2>1, <2>2 DEF Unpinned, PostRows
  <2>4. thread'.state = "deleted"
    BY <2>1 DEF TypeOK
  <2> QED BY <2>1, <2>3, <2>4, ShownChanged
<1> QED BY <1>1, <1>2, ShownStays

(* All the steps of the thread services. *)
LEMMA ThreadStepsShow ==
    ASSUME TypeOK, OrdersDistinct, OneBody, NEW r \in Requests, ThreadSteps(r)
    PROVE  PinsStay /\ NewsMove
<1>1. CASE \/ readUpdateThread(r) \/ readSave(r) \/ readRemoveThread(r) \/ readJoin(r)
           \/ readInviteJoin(r) \/ readUpdateMember(r) \/ readExitMember(r)
  BY <1>1, ShownStays DEF readUpdateThread, readSave, readRemoveThread, readJoin, readInviteJoin,
                          readUpdateMember, readExitMember, Read, Refuse, contentVars
<1>2. CASE join(r) \/ inviteJoin(r) \/ updateMember(r) \/ exitMember(r)
  <2>1. UNCHANGED <<thread, sub, post, announced>>
    BY <1>2 DEF join, inviteJoin, AddMember, updateMember, changeMember, exitMember, Refuse, Break, contentVars
  <2> QED BY <2>1, ShownWithSubs
<1> QED BY <1>1, <1>2, UpdateThreadShows, SaveShows, RemoveThreadShows DEF ThreadSteps

-------------------------------------------------------------------------------
(* What is stored *)

(* The content after a step is in order again, whatever the step did. *)
LEMMA ContentKeeps ==
    ASSUME ContentInvariant, ContentMove, pc' \in [Requests -> Places], Remembered'
    PROVE  ContentInvariant'
<1>1. Linked(sub, post)' /\ CountedUp(post)' /\ SingleBodies(sub, post)' /\ SingleKeys(sub, post)'
  BY LinksKeep, CountKeeps, BodiesKeep, KeysKeep
     DEF ContentInvariant, TypeOK, FloorsCountUp, OneBody, KeysAreSingle, ContentMove, SubsMove
<1>2. post' \in Seq(PostRows)
  BY DEF ContentMove, PostsMove, PostsStay, PostsGrow
<1>3. TypeOK'
  BY <1>1, <1>2 DEF TypeOK, Places, ContentMove, PeopleMove, SubsMove, EventsMove
<1> QED BY <1>1, <1>3 DEF ContentInvariant, FloorsCountUp, OneBody, KeysAreSingle, ContentMove, SubsMove, SubsKeep

(* Every plot begins in order. *)
LEMMA InitContent == Init => ContentInvariant
<1> SUFFICES ASSUME Init PROVE ContentInvariant
  OBVIOUS
<1>1. /\ thread \in [state : {"draft", "published"}, private : BOOLEAN, version : Nat]
      /\ Peopled(role, player, {Owner})
      /\ sub \in Seq(SubthreadRows) /\ post \in Seq(PostRows)
      /\ announced \in Seq(Nat) /\ Len(announced) = Len(post)
      /\ Linked(sub, post) /\ CountedUp(post) /\ SingleBodies(sub, post)
      /\ SingleKeys(sub, post) /\ Ordered(sub)
      /\ 1 \in DOMAIN sub /\ sub[1].live
  BY PlotAssumption DEF Init
<1>2. thread \in [state : States, private : BOOLEAN, version : Nat] /\ thread.state # "erased"
  BY <1>1 DEF States
<1>3. \A r \in Requests : pc[r] = "new"
  BY DEF Init
<1>4. pc \in [Requests -> Places]
  BY DEF Init, Places
<1>5. TypeOK
  BY <1>1, <1>2, <1>4 DEF TypeOK, Places
<1>6. Remembered
  BY <1>3 DEF Remembered, Init
<1> QED BY <1>1, <1>5, <1>6 DEF ContentInvariant, FloorsCountUp, OneBody, KeysAreSingle, OrdersDistinct, LiveSubs

(* Every step keeps it in order. *)
LEMMA NextContent == ContentInvariant /\ [Next]_vars => ContentInvariant'
<1> SUFFICES ASSUME ContentInvariant, [Next]_vars PROVE ContentInvariant'
  OBVIOUS
<1>1. TypeOK /\ OrdersDistinct /\ OneBody /\ Remembered
  BY DEF ContentInvariant
<1>2. ASSUME NEW r \in Requests,
             Lock(r) \/ PostSteps(r) \/ SubthreadSteps(r) \/ ThreadSteps(r)
      PROVE  ContentInvariant'
  <2>1. Lock(r) => ContentMove
    BY <1>1, ContentStays DEF Lock
  <2>2. ContentMove
    BY <1>1, <1>2, <2>1, PostStepsMove, SubthreadStepsMove, ThreadStepsMove
  <2>3. Advance(r)
    BY <1>2, RequestsAdvance
  <2> QED BY <1>1, <2>2, <2>3, PlacesKeep, ContentKeeps DEF ContentMove, SubsMove, SubsKeep
<1>3. ASSUME ContentMove, UNCHANGED requestVars PROVE ContentInvariant'
  <2>1. pc' \in [Requests -> Places]
    BY <1>1, <1>3 DEF TypeOK, Places, requestVars
  <2>2. Remembered'
    BY <1>1, <1>3, KnowledgeStays DEF requestVars, Remembered, Remembers, Knows, IsMainFloor
  <2> QED BY <1>3, <2>1, <2>2, ContentKeeps
<1>4. CASE \E u, v \in Users : block({u, v}) \/ unblock({u, v})
  BY <1>1, <1>3, <1>4, ContentStays DEF block, unblock, requestVars
<1>5. CASE cleanup
  BY <1>1, <1>3, <1>5, EraseMoves DEF cleanup, requestVars
<1>6. CASE UNCHANGED vars
  BY <1>1, <1>3, <1>6, ContentStays DEF vars, requestVars
<1> QED BY <1>2, <1>4, <1>5, <1>6 DEF Next

(* The invariant of the thread and its requests. *)
THEOREM ContentIsSound == Spec => []ContentInvariant
BY InitContent, NextContent, PTL DEF Spec

(* Rows that are stored keep the shape of the database constraints: no     *)
(* post, reply or subthread ever points to a row that is not there.        *)
THEOREM ContentTypes == Spec => []TypeOK
<1>1. ContentInvariant => TypeOK
  BY DEF ContentInvariant
<1> QED BY <1>1, ContentIsSound, PTL

(* The floors that createPost assigns count up in every subthread, however *)
(* posts, removals and edits interleave.                                   *)
THEOREM FloorsAreCounted == Spec => []FloorsCountUp
<1>1. ContentInvariant => FloorsCountUp
  BY DEF ContentInvariant
<1> QED BY <1>1, ContentIsSound, PTL

(* upsertBody, save and createSub never make a second body.                *)
THEOREM BodiesAreSingle == Spec => []OneBody
<1>1. ContentInvariant => OneBody
  BY DEF ContentInvariant
<1> QED BY <1>1, ContentIsSound, PTL

(* The unique indexes of the request ids never have to refuse anybody: a   *)
(* repeat is found before, or its transaction is rolled back.              *)
THEOREM RequestIdsAreSingle == Spec => []KeysAreSingle
<1>1. ContentInvariant => KeysAreSingle
  BY DEF ContentInvariant
<1> QED BY <1>1, ContentIsSound, PTL

(* create, reorder, update and remove of subthreads leave live ones with   *)
(* different orders and the default one alive.                             *)
THEOREM OrdersStayDistinct == Spec => []OrdersDistinct
<1>1. ContentInvariant => OrdersDistinct
  BY DEF ContentInvariant
<1> QED BY <1>1, ContentIsSound, PTL

(* Together: what the constraints of the database ask for holds in every   *)
(* state, so none of them ever refuses a command.                          *)
THEOREM StructureIsSound == Spec => []StructureHolds
<1>1. ContentInvariant => StructureHolds
  BY DEF ContentInvariant, StructureHolds
<1> QED BY <1>1, ContentIsSound, PTL

(* Pins are on floors that are there, and each floor of a published thread *)
(* is announced once, whichever of create, upsertBody, createSub, save,    *)
(* publish, setPinned and the removals meet.                               *)
THEOREM FloorsAreAlwaysShown == Spec => []FloorsAreShown
<1>1. Init => FloorsAreShown
  <2> SUFFICES ASSUME Init PROVE FloorsAreShown
    OBVIOUS
  <2>1. plot \in Plots /\ thread = plot.thread /\ sub = plot.sub /\ post = plot.post /\ announced = plot.announced
    BY DEF Init
  <2> QED BY <2>1, PlotAssumption DEF FloorsAreShown, PinnedIsVisible, FloorsAnnouncedOnce
<1>2. ContentInvariant /\ FloorsAreShown /\ [Next]_vars => FloorsAreShown'
  <2> SUFFICES ASSUME ContentInvariant, FloorsAreShown, [Next]_vars PROVE FloorsAreShown'
    OBVIOUS
  <2>1. /\ TypeOK /\ OrdersDistinct /\ OneBody /\ Remembered
        /\ PinnedIsVisible /\ FloorsAnnouncedOnce
    BY DEF ContentInvariant, FloorsAreShown
  <2>2. ASSUME ContentMove, PinsStay, NewsMove PROVE FloorsAreShown'
    BY <2>1, <2>2, PinsKeep, NewsKeep DEF FloorsAreShown
  <2>3. ASSUME NEW r \in Requests,
               Lock(r) \/ PostSteps(r) \/ SubthreadSteps(r) \/ ThreadSteps(r)
        PROVE  FloorsAreShown'
    <3>1. ContentMove
      BY <2>1, <2>3, ContentStays, PostStepsMove, SubthreadStepsMove, ThreadStepsMove DEF Lock
    <3>2. CASE Lock(r)
      BY <2>2, <3>1, <3>2, ShownStays DEF Lock
    <3>3. CASE PostSteps(r)
      BY <2>1, <3>1, <3>3, PostStepsShow, NewsKeep DEF FloorsAreShown
    <3>4. CASE SubthreadSteps(r)
      BY <2>1, <2>2, <3>1, <3>4, SubthreadStepsShow
    <3>5. CASE ThreadSteps(r)
      BY <2>1, <2>2, <3>1, <3>5, ThreadStepsShow
    <3> QED BY <2>3, <3>2, <3>3, <3>4, <3>5
  <2>4. CASE \E u, v \in Users : block({u, v}) \/ unblock({u, v})
    BY <2>1, <2>2, <2>4, ContentStays, ShownStays DEF block, unblock
  <2>5. CASE cleanup
    BY <2>1, <2>2, <2>5, EraseMoves, EraseShows DEF cleanup
  <2>6. CASE UNCHANGED vars
    BY <2>1, <2>2, <2>6, ContentStays, ShownStays DEF vars
  <2> QED BY <2>3, <2>4, <2>5, <2>6 DEF Next
<1> QED BY <1>1, <1>2, ContentIsSound, PTL DEF Spec

-------------------------------------------------------------------------------
(* What requests are answered with *)

(* What the commands that repeat are answered with. *)
Serves(x, r) ==
    /\ x.author = r.user /\ x.key = r.key /\ x.sub = r.sub
    /\ x.parent = r.parent /\ x.replyTo = r.replyTo /\ x.text = r.text

(* Whoever was answered was answered with a post of his under his id. *)
AnswersHold ==
    \A q \in Created :
        answer[q] \in DOMAIN post /\ post[answer[q]].author = q.user /\ post[answer[q]].key = q.key

(* Only createPost and its repeats end a createPost, with the post that was *)
(* asked for.                                                              *)
LEMMA CreatePostAnswers ==
    ASSUME TypeOK, Remembered, NEW r \in Requests, r.op = "createPost",
           Lock(r) \/ PostSteps(r) \/ SubthreadSteps(r) \/ ThreadSteps(r),
           pc'[r] = "done"
    PROVE  answer'[r] \in DOMAIN post' /\ Serves(post'[answer'[r]], r)
<1>1. pc \in [Requests -> Places] /\ answer = [q \in Requests |-> answer[q]]
  BY DEF TypeOK, Places, Remembered
<1>2. ASSUME NEW outcome, NEW n, Finish(r, outcome, n) PROVE outcome = "done" /\ answer'[r] = n
  <2>1. pc'[r] = outcome /\ answer'[r] = n
    BY <1>1, <1>2 DEF Finish
  <2> QED BY <2>1
<1>3. ASSUME NEW place, pc' = [pc EXCEPT ![r] = place] PROVE place = "done"
  BY <1>1, <1>3
<1>4. ~Refuse(r) /\ ~Break(r) /\ ~Goto(r, "raced") /\ ~Goto(r, "locked") /\ ~Finish(r, "error", 0)
      /\ ~Finish(r, "refused", 0)
  BY <1>2, <1>3 DEF Refuse, Break, Goto
<1>5. ASSUME AnswerRepeat(r), UNCHANGED contentVars
      PROVE  answer'[r] \in DOMAIN post' /\ Serves(post'[answer'[r]], r)
  <2>1. PICK p \in FoundByKey(r) : SameRequest(p, r) /\ Finish(r, "done", p)
    BY <1>4, <1>5 DEF AnswerRepeat
  <2>2. answer'[r] = p
    BY <1>2, <2>1
  <2> QED BY <1>5, <2>1, <2>2 DEF FoundByKey, SameRequest, Serves, contentVars
<1>6. CASE Lock(r)
  BY <1>4, <1>6 DEF Lock
<1>7. CASE PostSteps(r)
  <2>1. readCreatePost(r) \/ createPost(r) \/ createPostRaced(r)
    BY <1>7 DEF PostSteps, readUpsertBody, createBody, editBody, readUpdatePost, updatePost,
                readRemovePost, removePost, readSetPinned, setPinned, InTransaction
  <2>2. CASE readCreatePost(r)
    <3>1. ~Read(r, SubLive(r.sub) /\ Accessible(r.user) /\ CanPost(r.user, r.sub), NoSight)
      BY <1>3, <1>4 DEF Read
    <3> QED BY <1>5, <2>2, <3>1 DEF readCreatePost
  <2>3. CASE createPostRaced(r)
    BY <1>4, <1>5, <2>3 DEF createPostRaced
  <2>4. CASE createPost(r)
    <3> DEFINE x == NewPost(r, "FLOOR", r.sub, IF r.parent = 0 THEN NextFloor(r.sub) ELSE 0,
                            thread.state = "published")
    <3>1. AddPost(x, thread.state = "published") /\ Finish(r, "done", Len(post) + 1)
      BY <1>4, <2>4 DEF createPost
    <3>2. Serves(x, r)
      BY DEF Serves, NewPost
    <3> HIDE DEF x
    <3>3. Len(post) + 1 \in DOMAIN post' /\ post'[Len(post) + 1] = x
      BY <3>1 DEF AddPost, TypeOK
    <3> QED BY <1>2, <3>1, <3>2, <3>3
  <2> QED BY <2>1, <2>2, <2>3, <2>4
<1>8. ~SubthreadSteps(r) /\ ~ThreadSteps(r)
  BY DEF SubthreadSteps, ThreadSteps, InTransaction,
         readCreateSub, createSub, readReorder, reorder, readUpdateSub, updateSub, readRemoveSub, removeSub,
         readUpdateThread, updateThread, readSave, save, readRemoveThread, removeThread, readJoin, join,
         readInviteJoin, inviteJoin, readUpdateMember, updateMember, readExitMember, exitMember
<1> QED BY <1>6, <1>7, <1>8

(* Answers hold after every step, and agree with each other. *)
LEMMA AnswersKeep ==
    ASSUME ContentInvariant, ContentInvariant', AnswersHold, [Next]_vars
    PROVE  /\ AnswersHold'
           /\ \A r \in Answered :
                /\ Serves(post'[answer'[r]], r)
                /\ \A q \in Created : r.user = q.user /\ r.key = q.key /\ r.key # NoKey => answer'[r] = answer[q]
<1>1. /\ TypeOK /\ OrdersDistinct /\ OneBody /\ Remembered
  BY DEF ContentInvariant
<1>2. ASSUME DOMAIN post \subseteq DOMAIN post', \A p \in DOMAIN post : Replaces(post'[p], post[p]),
             \A r \in Requests :
                \/ pc'[r] = pc[r] /\ answer'[r] = answer[r]
                \/ r.op = "createPost" /\ pc'[r] = "done" =>
                     answer'[r] \in DOMAIN post' /\ Serves(post'[answer'[r]], r)
      PROVE  /\ AnswersHold'
             /\ \A r \in Answered :
                  /\ Serves(post'[answer'[r]], r)
                  /\ \A q \in Created : r.user = q.user /\ r.key = q.key /\ r.key # NoKey => answer'[r] = answer[q]
  <2>1. \A q \in Created :
          /\ answer[q] \in DOMAIN post'
          /\ post'[answer[q]].author = q.user /\ post'[answer[q]].key = q.key
    BY <1>2 DEF AnswersHold, Replaces
  <2>2. AnswersHold'
    BY <1>2, <2>1 DEF AnswersHold, Created, Serves
  <2>3. ASSUME NEW r \in Answered
        PROVE  r \in Requests /\ answer'[r] \in DOMAIN post' /\ Serves(post'[answer'[r]], r)
    BY <1>2, <2>3 DEF Answered
  <2>4. ASSUME NEW r \in Answered, NEW q \in Created, r.user = q.user, r.key = q.key, r.key # NoKey
        PROVE  answer'[r] = answer[q]
    <3>1. SingleKeys(sub, post)'
      BY DEF ContentInvariant, KeysAreSingle
    <3> QED BY <2>1, <2>3, <2>4, <3>1 DEF SingleKeys, Serves
  <2> QED BY <2>2, <2>3, <2>4
<1>3. ASSUME ContentMove
      PROVE  DOMAIN post \subseteq DOMAIN post' /\ \A p \in DOMAIN post : Replaces(post'[p], post[p])
  BY <1>1, <1>3 DEF TypeOK, ContentMove, PostsMove, PostsStay, PostsGrow
<1>4. CASE \E r \in Requests : Lock(r) \/ PostSteps(r) \/ SubthreadSteps(r) \/ ThreadSteps(r)
  <2>1. PICK r \in Requests : Lock(r) \/ PostSteps(r) \/ SubthreadSteps(r) \/ ThreadSteps(r)
    BY <1>4
  <2>2. ContentMove
    BY <1>1, <2>1, ContentStays, PostStepsMove, SubthreadStepsMove, ThreadStepsMove DEF Lock
  <2>3. Advance(r)
    BY <2>1, RequestsAdvance
  <2>4. \A q \in Requests \ {r} : pc'[q] = pc[q] /\ answer'[q] = answer[q]
    BY <1>1, <2>3 DEF Advance, AdvanceTo, TypeOK, Remembered
  <2>5. r.op = "createPost" /\ pc'[r] = "done" =>
          answer'[r] \in DOMAIN post' /\ Serves(post'[answer'[r]], r)
    BY <1>1, <2>1, CreatePostAnswers
  <2> QED BY <1>2, <1>3, <2>2, <2>4, <2>5
<1>5. CASE ~\E r \in Requests : Lock(r) \/ PostSteps(r) \/ SubthreadSteps(r) \/ ThreadSteps(r)
  <2>1. ContentMove /\ UNCHANGED requestVars
    BY <1>1, <1>5, ContentStays, EraseMoves DEF Next, block, unblock, cleanup, vars
  <2>2. \A q \in Requests : pc'[q] = pc[q] /\ answer'[q] = answer[q]
    BY <2>1 DEF requestVars
  <2> QED BY <1>2, <1>3, <2>1, <2>2
<1> QED BY <1>4, <1>5

(* A request id that is sent again is answered with the post it made, and  *)
(* every createPost with the post it asked for, also when a repeat loses   *)
(* the race for the unique index and looks again after its rollback.       *)
THEOREM RepeatsAreAnswered == Spec => RepeatsAgree
<1>1. Init => AnswersHold
  BY DEF Init, AnswersHold, Created
<1>2. ContentInvariant /\ ContentInvariant' /\ AnswersHold /\ [Next]_vars => AnswersHold'
  BY AnswersKeep
<1>3. ContentInvariant /\ ContentInvariant' /\ AnswersHold /\ [Next]_vars =>
        \A r \in Answered :
          LET p == post'[answer'[r]]
          IN  /\ p.author = r.user /\ p.key = r.key /\ p.sub = r.sub
              /\ p.parent = r.parent /\ p.replyTo = r.replyTo /\ p.text = r.text
              /\ \A q \in Created :
                   r.user = q.user /\ r.key = q.key /\ r.key # NoKey => answer'[r] = answer[q]
  BY AnswersKeep DEF Serves
<1> QED BY <1>1, <1>2, <1>3, ContentIsSound, PTL DEF Spec, RepeatsAgree

-------------------------------------------------------------------------------
(* Who gets in *)

(* A transaction that has its users' locks: nobody it deals with is on the *)
(* other side of a block, and its user may be in the thread.               *)
Cleared(r) ==
    /\ \A u \in LockedUsers(r) \ {r.user} : {r.user, u} \notin blocked
    /\ r.op # "inviteJoin" /\ thread.state # "erased" /\ thread.private => role[r.user] # "NONE"

(* Every such transaction has the owner's row, so there is one at a time.  *)
AccessInvariant ==
    /\ plot \in Plots
    /\ \A u \in Users : {u} \notin blocked
    /\ \A q, r \in Locking : q = r
    /\ \A r \in Locking : Cleared(r)

(* What others do meanwhile: members stay, privacy stays, authors stay.    *)
QuietMove ==
    /\ DOMAIN post' = DOMAIN post
    /\ \A p \in DOMAIN post : post'[p].author = post[p].author
    /\ thread'.state # "erased" => /\ thread.state # "erased" /\ thread'.private = thread.private
                                   /\ \A u \in Users : role[u] # "NONE" => role'[u] # "NONE"

(* Steps without the users' locks are quiet. *)
LEMMA UnlockedIsQuiet ==
    ASSUME TypeOK, ContentMove, NEW r \in Requests, pc[r] # "locked",
           Lock(r) \/ PostSteps(r) \/ SubthreadSteps(r) \/ ThreadSteps(r)
    PROVE  QuietMove
<1>1. /\ \A p \in DOMAIN post : post'[p].author = post[p].author
      /\ thread'.state # "erased" => /\ thread.state # "erased"
                                     /\ \A u \in Users : role[u] # "NONE" => role'[u] # "NONE"
  BY DEF ContentMove, PostsMove, PostsStay, PostsGrow, PeopleMove, Replaces
<1>2. DOMAIN post' = DOMAIN post /\ thread'.private = thread.private => QuietMove
  BY <1>1 DEF QuietMove
<1>3. UNCHANGED contentVars => QuietMove
  BY <1>2 DEF contentVars
<1>4. CASE Lock(r)
  BY <1>3, <1>4 DEF Lock
<1>5. CASE PostSteps(r)
  <2>1. \/ readCreatePost(r) \/ createPostRaced(r) \/ readUpsertBody(r) \/ readUpdatePost(r)
        \/ readRemovePost(r) \/ readSetPinned(r) \/ removePost(r)
    BY <1>5 DEF PostSteps, createPost, createBody, editBody, updatePost, setPinned,
                InTransaction, WithoutUserLocks
  <2>2. CASE removePost(r)
    <3>1. UNCHANGED contentVars \/ (UNCHANGED thread /\ \E x : post' = [post EXCEPT ![r.post] = x])
      BY <2>2 DEF removePost, Break
    <3> QED BY <1>2, <1>3, <3>1
  <2>3. CASE ~removePost(r)
    <3>1. UNCHANGED contentVars
      BY <2>1, <2>3 DEF readCreatePost, createPostRaced, readUpsertBody, readUpdatePost,
                        readRemovePost, readSetPinned, Read, Refuse, contentVars
    <3> QED BY <1>3, <3>1
  <2> QED BY <2>2, <2>3
<1>6. CASE SubthreadSteps(r)
  <2>1. readCreateSub(r) \/ readReorder(r) \/ readUpdateSub(r) \/ readRemoveSub(r)
    BY <1>6 DEF SubthreadSteps, createSub, reorder, updateSub, removeSub, InTransaction, WithoutUserLocks
  <2>2. UNCHANGED contentVars
    BY <2>1 DEF readCreateSub, readReorder, readUpdateSub, readRemoveSub, AnswerSub, Read, Refuse, contentVars
  <2> QED BY <1>3, <2>2
<1>7. CASE ThreadSteps(r)
  <2>1. \/ readUpdateThread(r) \/ readSave(r) \/ readRemoveThread(r) \/ readJoin(r)
        \/ readInviteJoin(r) \/ readUpdateMember(r) \/ readExitMember(r)
        \/ removeThread(r) \/ exitMember(r)
    BY <1>7 DEF ThreadSteps, updateThread, save, join, inviteJoin, updateMember, InTransaction, WithoutUserLocks
  <2>2. CASE removeThread(r)
    <3>1. \/ UNCHANGED contentVars
          \/ /\ \E state : thread' = [thread EXCEPT !.state = state]
             /\ DOMAIN post' = DOMAIN post
      BY <2>2 DEF removeThread, EraseThread, Break
    <3>2. (\E state : thread' = [thread EXCEPT !.state = state]) => thread'.private = thread.private
      BY DEF TypeOK
    <3> QED BY <1>2, <1>3, <3>1, <3>2
  <2>3. CASE exitMember(r)
    <3>1. UNCHANGED <<thread, post>>
      BY <2>3 DEF exitMember, Break, contentVars
    <3> QED BY <1>2, <3>1
  <2>4. CASE ~removeThread(r) /\ ~exitMember(r)
    <3>1. UNCHANGED contentVars
      BY <2>1, <2>4 DEF readUpdateThread, readSave, readRemoveThread, readJoin, readInviteJoin,
                        readUpdateMember, readExitMember, Read, Refuse, contentVars
    <3> QED BY <1>3, <3>1
  <2> QED BY <2>2, <2>3, <2>4
<1> QED BY <1>4, <1>5, <1>6, <1>7

(* While others are quiet, a transaction stays cleared. *)
LEMMA ClearedStays ==
    ASSUME TypeOK, NEW q \in Requests, Cleared(q), QuietMove, seen'[q] = seen[q], blocked' \subseteq blocked
    PROVE  Cleared(q)'
<1>1. \A p : Author(p)' = Author(p)
  BY DEF QuietMove, Author
<1>2. LockedUsers(q)' = LockedUsers(q)
  BY <1>1 DEF LockedUsers, Targets
<1>3. q.user \in Users
  BY CommandTypes
<1> QED BY <1>2, <1>3 DEF Cleared, QuietMove

(* A new block waits for the transactions of both. *)
LEMMA BlockWaits ==
    ASSUME NEW q \in Locking, Cleared(q), NEW pair, ~Held(pair), blocked' = blocked \cup {pair},
           UNCHANGED <<contentVars, requestVars>>
    PROVE  Cleared(q)'
<1>1. LockedUsers(q)' = LockedUsers(q) /\ q.user \in LockedUsers(q)
  BY DEF LockedUsers, Targets, Author, contentVars, requestVars
<1>2. q.user \notin pair
  BY <1>1 DEF Held
<1> QED BY <1>1, <1>2 DEF Cleared, contentVars

(* A thread that is there has its owner. *)
LEMMA OwnerIsThere ==
    ASSUME TypeOK, thread.state # "erased"
    PROVE  role[Owner] = "OWNER"
<1>1. Owner \in {u \in Users : role[u] = "OWNER"}
  BY DEF TypeOK, Peopled
<1> QED BY <1>1

(* Lock clears, and everything else keeps the others' clearance. *)
LEMMA AccessKeeps ==
    ASSUME ContentInvariant, AccessInvariant, [Next]_vars
    PROVE  AccessInvariant'
<1>1. TypeOK /\ OrdersDistinct /\ OneBody /\ Remembered
  BY DEF ContentInvariant
<1>2. \A q, r \in Requests : LockedUsers(q) \cap LockedUsers(r) # {}
  BY DEF LockedUsers
<1>3. CASE \E r \in Requests : Lock(r) \/ PostSteps(r) \/ SubthreadSteps(r) \/ ThreadSteps(r)
  <2>1. PICK r \in Requests : Lock(r) \/ PostSteps(r) \/ SubthreadSteps(r) \/ ThreadSteps(r)
    BY <1>3
  <2>2. Advance(r)
    BY <2>1, RequestsAdvance
  <2>3. PICK place \in Places : \E sight, n : AdvanceTo(r, place, sight, n)
    BY <2>2 DEF Advance
  <2>4. /\ pc'[r] = place /\ UNCHANGED <<plot, blocked>>
        /\ \A q \in Requests \ {r} : pc'[q] = pc[q] /\ seen'[q] = seen[q]
        /\ place = "locked" => Lock(r)
    BY <1>1, <2>3 DEF AdvanceTo, TypeOK, Remembered
  <2>5. CASE place = "locked"
    <3>1. Locking = {} /\ UNCHANGED contentVars /\ pc[r] = "read"
      BY <1>2, <2>4, <2>5 DEF Lock, Locking
    <3>2. Locking' = {r}
      BY <2>4, <2>5, <3>1 DEF Locking
    <3>3. ~Refusing(r) /\ Goto(r, "locked")
      <4>1. ~Finish(r, "refused", 0)
        BY <1>1, <2>4, <2>5 DEF Finish, TypeOK
      <4> QED BY <2>4, <2>5, <4>1 DEF Lock
    <3>4. LockedUsers(r)' = LockedUsers(r)
      BY <3>1, <3>3 DEF LockedUsers, Targets, Author, contentVars, Goto
    <3>5. r.op # "inviteJoin" /\ thread.private => role[r.user] # "NONE"
      <4>1. thread.state # "erased" => role[Owner] = "OWNER"
        BY <1>1, OwnerIsThere
      <4> QED BY <3>3, <4>1 DEF Refusing, Accessible
    <3>6. Cleared(r)'
      BY <2>4, <3>1, <3>3, <3>4, <3>5 DEF Cleared, Refusing, contentVars
    <3> QED BY <2>4, <3>2, <3>6 DEF AccessInvariant
  <2>6. CASE place # "locked"
    <3>1. ContentMove
      BY <1>1, <2>1, ContentStays, PostStepsMove, SubthreadStepsMove, ThreadStepsMove DEF Lock
    <3>2. Locking' \subseteq Locking \ {r}
      BY <2>4, <2>6 DEF Locking
    <3>3. ASSUME NEW q \in Locking' PROVE Cleared(q)'
      <4>1. q \in Locking /\ q # r /\ pc[r] # "locked" /\ q \in Requests
        BY <3>2, <3>3 DEF AccessInvariant, Locking
      <4>2. QuietMove
        BY <1>1, <2>1, <3>1, <4>1, UnlockedIsQuiet
      <4> QED BY <1>1, <2>4, <4>1, <4>2, ClearedStays DEF AccessInvariant
    <3> QED BY <2>4, <3>2, <3>3 DEF AccessInvariant
  <2> QED BY <2>5, <2>6
<1>4. CASE \E u, v \in Users : block({u, v}) \/ unblock({u, v})
  <2>1. PICK u, v \in Users : block({u, v}) \/ unblock({u, v})
    BY <1>4
  <2>2. Locking' = Locking /\ UNCHANGED <<plot, contentVars, requestVars>>
    BY <2>1 DEF block, unblock, Locking, requestVars
  <2>3. CASE block({u, v})
    <3>1. \A w \in Users : {w} \notin blocked'
      BY <2>3, PlotAssumption DEF block, AccessInvariant
    <3>2. \A q \in Locking : Cleared(q)'
      BY <2>2, <2>3, BlockWaits DEF block, AccessInvariant
    <3> QED BY <2>2, <3>1, <3>2 DEF AccessInvariant
  <2>4. CASE unblock({u, v})
    <3>1. QuietMove
      BY <2>2 DEF QuietMove, contentVars, TypeOK
    <3>2. blocked' \subseteq blocked /\ UNCHANGED seen
      BY <2>2, <2>4 DEF unblock, requestVars
    <3>3. \A q \in Locking : Cleared(q)'
      BY <1>1, <3>1, <3>2, ClearedStays DEF AccessInvariant, Locking
    <3> QED BY <2>2, <3>2, <3>3 DEF AccessInvariant
  <2> QED BY <2>1, <2>3, <2>4
<1>5. CASE cleanup
  <2>0. EraseThread /\ UNCHANGED <<plot, blocked, pc, seen>>
    BY <1>5 DEF cleanup, requestVars
  <2>1. QuietMove /\ UNCHANGED <<plot, blocked, pc, seen>> /\ Locking' = Locking
    <3>1. ContentMove
      BY <1>1, <2>0, EraseMoves
    <3>2. DOMAIN post' = DOMAIN post /\ thread'.state = "erased"
      BY <1>1, <2>0 DEF EraseThread, TypeOK
    <3>3. \A p \in DOMAIN post : post'[p].author = post[p].author
      BY <3>1 DEF ContentMove, PostsMove, PostsStay, PostsGrow, Replaces
    <3> QED BY <2>0, <3>2, <3>3 DEF QuietMove, Locking
  <2>2. \A q \in Locking : Cleared(q)'
    BY <1>1, <2>1, ClearedStays DEF AccessInvariant, Locking
  <2> QED BY <2>1, <2>2 DEF AccessInvariant
<1>6. CASE UNCHANGED vars
  <2>1. QuietMove /\ UNCHANGED <<plot, blocked, pc, seen>> /\ Locking' = Locking
    BY <1>1, <1>6 DEF vars, contentVars, QuietMove, TypeOK, requestVars, Locking
  <2>2. \A q \in Locking : Cleared(q)'
    BY <1>1, <2>1, ClearedStays DEF AccessInvariant, Locking
  <2> QED BY <2>1, <2>2 DEF AccessInvariant
<1> QED BY <1>3, <1>4, <1>5, <1>6 DEF Next

(* Only createPost adds floors. *)
LEMMA FloorsComeByCreatePost ==
    ASSUME TypeOK, OrdersDistinct, OneBody, NEW r \in Requests,
           PostSteps(r) \/ SubthreadSteps(r) \/ ThreadSteps(r), NewFloors # {}
    PROVE  createPost(r)
<1> SUFFICES ASSUME ~createPost(r) PROVE FALSE
  OBVIOUS
<1>1. DOMAIN post' # DOMAIN post
  BY DEF NewFloors
<1>2. ~UNCHANGED contentVars /\ ~UNCHANGED post
  BY <1>1 DEF contentVars
<1>3. ASSUME NEW x, NEW announce, AddPost(x, announce), x.kind = "BODY" PROVE FALSE
  BY <1>3 DEF AddPost, NewFloors, TypeOK
<1>4. \A s, published : NewBody(r, s, published).kind = "BODY"
  BY DEF NewBody, NewPost
<1>5. CASE PostSteps(r)
  <2>1. createBody(r) \/ editBody(r) \/ updatePost(r) \/ removePost(r) \/ setPinned(r)
    BY <1>2, <1>5 DEF PostSteps, readCreatePost, createPostRaced, readUpsertBody, readUpdatePost,
                      readRemovePost, readSetPinned, Read, Refuse
  <2>2. CASE createBody(r)
    BY <1>2, <1>3, <1>4, <2>2 DEF createBody, Refuse, Break
  <2>3. CASE ~createBody(r)
    <3>1. \E p, x : post' = [post EXCEPT ![p] = x]
      BY <1>2, <2>1, <2>3 DEF editBody, updatePost, EditPost, removePost, setPinned, Refuse, Break
    <3> QED BY <1>1, <3>1
  <2> QED BY <2>2, <2>3
<1>6. CASE SubthreadSteps(r)
  <2>1. createSub(r) \/ removeSub(r)
    BY <1>2, <1>6 DEF SubthreadSteps, readCreateSub, AnswerSub, readReorder, readUpdateSub, readRemoveSub,
                      reorder, updateSub, Read, Refuse
  <2>2. CASE createSub(r)
    BY <1>2, <1>3, <1>4, <2>2 DEF createSub, AnswerSub, Refuse, Break
  <2>3. CASE removeSub(r)
    BY <1>1, <1>2, <2>3 DEF removeSub, Refuse
  <2> QED BY <2>1, <2>2, <2>3
<1>7. CASE ThreadSteps(r)
  <2>1. updateThread(r) \/ save(r) \/ removeThread(r)
    BY <1>2, <1>7 DEF ThreadSteps, readUpdateThread, readSave, readRemoveThread, readJoin, readInviteJoin,
                      readUpdateMember, readExitMember, Read, Refuse, join, inviteJoin, AddMember,
                      updateMember, changeMember, exitMember, Break
  <2>2. CASE updateThread(r)
    BY <1>1, <1>2, <2>2 DEF updateThread, Settled, Refuse
  <2>3. CASE removeThread(r)
    BY <1>1, <1>2, <2>3 DEF removeThread, EraseThread, Break
  <2>4. CASE save(r)
    <3> DEFINE posts == Saved(r, thread.state = "published")
    <3>1. 1 \in DOMAIN sub /\ post' = IF r.publish THEN Settled(posts) ELSE posts
      BY <1>2, <2>4 DEF save, Current, Refuse, OrdersDistinct, LiveSubs
    <3>2. /\ posts \in Seq(PostRows)
          /\ Len(posts) # Len(post) => Len(posts) = Len(post) + 1 /\ posts[Len(posts)].kind = "BODY"
      BY <3>1, SavedPosts, SavedShows
    <3> HIDE DEF posts
    <3>3. DOMAIN post' = DOMAIN posts /\ \A i \in DOMAIN posts : post'[i].kind = posts[i].kind
      <4>1. DOMAIN Settled(posts) = DOMAIN posts /\ \A i \in DOMAIN posts : Settled(posts)[i].kind = posts[i].kind
        BY <3>2, SettledKeeps DEF Settled, Replaces
      <4> QED BY <3>1, <4>1
    <3>4. PICK p \in DOMAIN posts : p \notin DOMAIN post /\ posts[p].kind = "FLOOR"
      BY <3>3 DEF NewFloors
    <3>5. p = Len(posts) /\ Len(posts) # Len(post)
      BY <3>2, <3>4 DEF TypeOK
    <3> QED BY <3>2, <3>4, <3>5
  <2> QED BY <2>1, <2>2, <2>3, <2>4
<1> QED BY <1>5, <1>6, <1>7

(* Only createPost, join and inviteJoin make members, and of their user. *)
LEMMA MembersComeByThemselves ==
    ASSUME TypeOK, NEW r \in Requests,
           PostSteps(r) \/ SubthreadSteps(r) \/ ThreadSteps(r), NEW u \in NewMembers
    PROVE  u = r.user /\ (createPost(r) \/ join(r) \/ inviteJoin(r)) /\ ~UNCHANGED contentVars
<1>1. ~UNCHANGED contentVars /\ ~UNCHANGED role
  BY DEF NewMembers, contentVars
<1>2. role \in [Users -> Roles] /\ u \in Users
  BY DEF TypeOK, Peopled, NewMembers
<1>3. CASE createPost(r) \/ join(r) \/ inviteJoin(r)
  <2>1. \E x : role' = [role EXCEPT ![r.user] = x]
    BY <1>1, <1>3 DEF createPost, join, inviteJoin, AddMember, Refuse, Break
  <2> QED BY <1>1, <1>2, <1>3, <2>1 DEF NewMembers
<1>4. CASE PostSteps(r) /\ ~createPost(r)
  BY <1>1, <1>4 DEF PostSteps, readCreatePost, createPostRaced, readUpsertBody, readUpdatePost,
                    readRemovePost, readSetPinned, Read, createBody, editBody, updatePost, EditPost,
                    removePost, setPinned, Refuse, Break
<1>5. CASE SubthreadSteps(r)
  BY <1>1, <1>5 DEF SubthreadSteps, readCreateSub, AnswerSub, readReorder, readUpdateSub, readRemoveSub,
                    createSub, reorder, updateSub, removeSub, Read, Refuse, Break
<1>6. CASE ThreadSteps(r) /\ ~join(r) /\ ~inviteJoin(r)
  <2>1. updateMember(r) \/ removeThread(r)
    BY <1>1, <1>6 DEF ThreadSteps, readUpdateThread, readSave, readRemoveThread, readJoin, readInviteJoin,
                      readUpdateMember, readExitMember, Read, Refuse, updateThread, save, exitMember, Break
  <2>2. CASE updateMember(r)
    <3>1. role[r.target] # "NONE" /\ \E x : role' = [role EXCEPT ![r.target] = x]
      BY <1>1, <2>2 DEF updateMember, changeMember, Refuse
    <3> QED BY <1>2, <3>1 DEF NewMembers
  <2>3. CASE removeThread(r)
    <3>1. role' = [v \in Users |-> "NONE"]
      BY <1>1, <2>3 DEF removeThread, EraseThread, Break
    <3> QED BY <1>2, <3>1 DEF NewMembers
  <2> QED BY <2>1, <2>2, <2>3
<1> QED BY <1>3, <1>4, <1>5, <1>6

(* A floor that createPost adds is its author's, who is welcome. *)
LEMMA PostersAreWelcome ==
    ASSUME ContentInvariant, AccessInvariant, NEW r \in Requests, createPost(r), NEW p \in NewFloors
    PROVE  LET new == post'[p]
           IN  /\ Accessible(new.author) /\ SubLive(new.sub) /\ CanPost(new.author, new.sub)
               /\ new.parent # 0 =>
                    PostLive(new.parent) /\ {new.author, post[new.parent].author} \notin blocked
<1> DEFINE x == NewPost(r, "FLOOR", r.sub, IF r.parent = 0 THEN NextFloor(r.sub) ELSE 0,
                        thread.state = "published")
<1>1. MayCreate(r) /\ AddPost(x, thread.state = "published")
  BY DEF createPost, NewFloors, contentVars, Refuse
<1>2. x.author = r.user /\ x.sub = r.sub /\ x.parent = r.parent
  BY DEF NewPost
<1> HIDE DEF x
<1>3. post'[p] = x
  BY <1>1 DEF AddPost, NewFloors, ContentInvariant, TypeOK
<1>4. r \in Locking /\ r.op = "createPost" /\ r.user \in Users
  BY CommandTypes DEF createPost, InTransaction, WithoutUserLocks, Locking
<1>5. r.parent # 0 => PostLive(r.parent) /\ {r.user, post[r.parent].author} \notin blocked
  <2> SUFFICES ASSUME r.parent # 0
               PROVE  PostLive(r.parent) /\ {r.user, post[r.parent].author} \notin blocked
    OBVIOUS
  <2>1. PostLive(r.parent)
    BY <1>1 DEF MayCreate, CanReply
  <2>2. post[r.parent].author \in LockedUsers(r)
    BY <1>4, <2>1 DEF LockedUsers, Targets, Author, PostLive
  <2>3. CASE post[r.parent].author = r.user
    BY <1>4, <2>1, <2>3 DEF AccessInvariant
  <2>4. CASE post[r.parent].author # r.user
    BY <1>4, <2>1, <2>2, <2>4 DEF AccessInvariant, Cleared
  <2> QED BY <2>3, <2>4
<1> QED BY <1>1, <1>2, <1>3, <1>5 DEF MayCreate

(* Whoever becomes a member was let in. *)
LEMMA JoinersAreWelcome ==
    ASSUME ContentInvariant, AccessInvariant, NEW r \in Requests, NEW u \in NewMembers, u = r.user,
           createPost(r) \/ join(r) \/ inviteJoin(r), ~UNCHANGED contentVars
    PROVE  /\ {u, Owner} \notin blocked
           /\ thread.private => \E q \in Requests :
                q.op = "inviteJoin" /\ q.user = u /\ pc[q] = "locked" /\ pc'[q] = "done"
<1>1. TypeOK /\ r \in Locking
  BY DEF ContentInvariant, createPost, join, inviteJoin, InTransaction, WithoutUserLocks, Locking
<1>2. role[u] = "NONE"
  BY DEF NewMembers
<1>3. CASE createPost(r)
  <2>1. Accessible(u)
    BY <1>3 DEF createPost, MayCreate, Refuse
  <2>2. thread.state # "draft"
    BY <1>1, <1>2, <2>1, OwnerIsThere DEF Accessible
  <2> QED BY <1>2, <2>1, <2>2 DEF Accessible
<1>4. CASE join(r) \/ inviteJoin(r)
  <2>1. thread.state # "erased" /\ AddMember(r)
    BY <1>4 DEF join, inviteJoin, Break
  <2>2. u # Owner
    BY <1>1, <1>2, <2>1, OwnerIsThere
  <2>3. Cleared(r)
    BY <1>1 DEF AccessInvariant
  <2>4. {u, Owner} \notin blocked
    BY <2>2, <2>3 DEF Cleared, LockedUsers
  <2>5. thread.private => r.op = "inviteJoin"
    BY <1>2, <2>1, <2>3 DEF Cleared
  <2>6. pc[r] = "locked" /\ pc'[r] = "done"
    BY <1>1, <2>1 DEF AddMember, Finish, Locking, TypeOK
  <2> QED BY <2>4, <2>5, <2>6
<1> QED BY <1>3, <1>4

(* Nobody posts or comes in past a block, a removal or the privacy of the  *)
(* thread, although blocks and access are checked before the thread's row  *)
(* is locked and join does not look at them again.                         *)
THEOREM OnlyTheWelcomeDoEnter == Spec => OnlyTheWelcomeEnter
<1>1. Init => AccessInvariant
  <2> SUFFICES ASSUME Init PROVE AccessInvariant
    OBVIOUS
  <2>1. Locking = {}
    BY DEF Init, Locking
  <2> QED BY <2>1 DEF Init, AccessInvariant
<1>2. ContentInvariant /\ AccessInvariant /\ [Next]_vars => AccessInvariant'
  BY AccessKeeps
<1>3. ASSUME ContentInvariant, AccessInvariant, [Next]_vars
      PROVE  /\ \A p \in NewFloors :
                  LET new == post'[p]
                  IN  /\ Accessible(new.author) /\ SubLive(new.sub) /\ CanPost(new.author, new.sub)
                      /\ new.parent # 0 =>
                           PostLive(new.parent) /\ {new.author, post[new.parent].author} \notin blocked
             /\ \A u \in NewMembers :
                  /\ {u, Owner} \notin blocked
                  /\ thread.private => \E r \in Requests :
                       r.op = "inviteJoin" /\ r.user = u /\ pc[r] = "locked" /\ pc'[r] = "done"
  <2>1. TypeOK /\ OrdersDistinct /\ OneBody
    BY <1>3 DEF ContentInvariant
  <2>2. CASE \E r \in Requests : PostSteps(r) \/ SubthreadSteps(r) \/ ThreadSteps(r)
    <3>1. PICK r \in Requests : PostSteps(r) \/ SubthreadSteps(r) \/ ThreadSteps(r)
      BY <2>2
    <3>2. NewFloors # {} => createPost(r)
      BY <2>1, <3>1, FloorsComeByCreatePost
    <3>3. \A u \in NewMembers : u = r.user /\ (createPost(r) \/ join(r) \/ inviteJoin(r)) /\ ~UNCHANGED contentVars
      BY <2>1, <3>1, MembersComeByThemselves
    <3> QED BY <1>3, <3>2, <3>3, PostersAreWelcome, JoinersAreWelcome
  <2>3. CASE ~\E r \in Requests : PostSteps(r) \/ SubthreadSteps(r) \/ ThreadSteps(r)
    <3>1. UNCHANGED contentVars \/ EraseThread
      BY <1>3, <2>3 DEF Next, Lock, block, unblock, cleanup, vars
    <3>2. DOMAIN post' = DOMAIN post
      BY <3>1 DEF contentVars, EraseThread
    <3>3. \A u \in Users : role'[u] = role[u] \/ role'[u] = "NONE"
      BY <3>1 DEF contentVars, EraseThread
    <3> QED BY <3>2, <3>3 DEF NewFloors, NewMembers
  <2> QED BY <2>2, <2>3
<1>4. ContentInvariant /\ AccessInvariant /\ [Next]_vars =>
        \A p \in NewFloors :
          LET new == post'[p]
          IN  /\ Accessible(new.author) /\ SubLive(new.sub) /\ CanPost(new.author, new.sub)
              /\ new.parent # 0 =>
                   PostLive(new.parent) /\ {new.author, post[new.parent].author} \notin blocked
  BY <1>3
<1>5. ContentInvariant /\ AccessInvariant /\ [Next]_vars =>
        \A u \in NewMembers :
          /\ {u, Owner} \notin blocked
          /\ thread.private => \E r \in Requests :
               r.op = "inviteJoin" /\ r.user = u /\ pc[r] = "locked" /\ pc'[r] = "done"
  BY <1>3
<1> QED
  <2>1. Spec => PostsAreWelcome
    BY <1>1, <1>2, <1>4, ContentIsSound, PTL DEF Spec, PostsAreWelcome
  <2>2. Spec => MembersAreWelcome
    BY <1>1, <1>2, <1>5, ContentIsSound, PTL DEF Spec, MembersAreWelcome
  <2> QED BY <2>1, <2>2 DEF OnlyTheWelcomeEnter
===============================================================================
