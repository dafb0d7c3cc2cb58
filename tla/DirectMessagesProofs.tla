-------------------------- MODULE DirectMessagesProofs --------------------------
(***************************************************************************)
(* Proofs about DirectMessages: whatever requests, answers, recalls and    *)
(* repetitions two users send, and however their transactions interleave,  *)
(* the conversation is what both are shown of it, a repeated request id is *)
(* answered with the same message, and an answer stands.                   *)
(***************************************************************************)
EXTENDS DirectMessages, FiniteSetTheorems, WellFoundedInduction, TLAPS

Plans == {"", "create", "move", "send", "cancel", "recall"}
Sights == [plan : Plans, status : Statuses, next : Statuses, markRead : BOOLEAN, again : BOOLEAN]

(* What is in the table for good or still to be committed. *)
Live == {m \in DOMAIN message : message[m].state # "deleted"}

(* m is a message that r sends. *)
IsOf(m, r) == message[m].sender = r.user /\ message[m].key = r.key

(* What r decided before its transaction is true of the conversation as    *)
(* long as its update finds the status it names.  Who has asked stays the  *)
(* one who has asked until the conversation is accepted, which is why an   *)
(* answer that comes late is still an answer.                              *)
MoveFits(r) ==
    /\ conversation.status # "NONE"
    /\ seen[r].status \in {"PENDING", "DECLINED", "CANCELED"}
    /\ seen[r].next = "PENDING" => seen[r].status = "CANCELED"
    /\ conversation.status # "ACCEPTED" =>
         /\ seen[r].next = "PENDING" => conversation.requester = r.user
         /\ seen[r].status # "CANCELED" => conversation.requester # r.user

SightFits(r) ==
    /\ pc[r] \notin {"read", "checked", "inserted"} => seen[r].plan = ""
    /\ seen[r].plan \in {"create", "move"} => r.op = "initiate" /\ seen[r].next \in {"PENDING", "ACCEPTED"}
    /\ seen[r].plan = "move" => MoveFits(r)
    /\ seen[r].plan = "send" => r.op \in {"initiate", "send"} /\ conversation.status = "ACCEPTED"
    /\ pc[r] = "inserted" => seen[r].plan = "send"
    /\ r.op = "archive" /\ pc[r] = "read" =>
         /\ conversation.status # "NONE"
         /\ conversation.status = "ACCEPTED" \/ conversation.requester = r.user

(* A message that is not committed belongs to the transaction of r alone,  *)
(* and who was answered was answered with a message it sent.               *)
AnswerFits(r) ==
    /\ pc[r] = "inserted" => answer[r] \in Open /\ IsOf(answer[r], r)
    /\ Sent(r) => answer[r] \in DOMAIN message /\ answer[r] \notin Open /\ IsOf(answer[r], r)

(* The unique index of (sender, clientRequestId), of what is not deleted.  *)
KeysAreSingle ==
    \A m, n \in Live : message[m].sender = message[n].sender /\ message[m].key = message[n].key => m = n

(* Only who has asked can have archived a request. *)
RequestsAreSeen ==
    /\ conversation.status = "NONE" => archived = {}
    /\ conversation.status = "PENDING" => archived \subseteq {conversation.requester}

Shapes ==
    /\ plot \in Plots
    /\ seen \in [Requests -> Sights]
    /\ answer \in [Requests -> Nat]

(* The inductive invariant. *)
ConversationInvariant ==
    /\ TypeOK
    /\ Shapes
    /\ RequestIsOneMessage
    /\ RequestsAreSeen
    /\ KeysAreSingle
    /\ \A r \in Requests : SightFits(r) /\ AnswerFits(r)
    /\ \A r, s \in Requests : pc[r] = "inserted" /\ pc[s] = "inserted" /\ answer[r] = answer[s] => r = s

-------------------------------------------------------------------------------
(* Finite sets of integers *)

(* Max is the maximum: a finite set of integers has one. *)
LEMMA MaxOfFinite ==
    ASSUME NEW S \in SUBSET Int, IsFiniteSet(S), S # {}
    PROVE  Max(S) \in S /\ \A x \in S : Max(S) >= x
<1> DEFINE From(x) == {y \in S : y >= x}
           F == {From(x) : x \in S}
<1> HIDE DEF F
<1>1. F \subseteq FiniteSubsetsOf(S) /\ F # {}
  <2>1. FiniteSubsetsOf(S) = SUBSET S
    BY FS_FiniteSubsetsOfFinite
  <2>2. \A x \in S : From(x) \in SUBSET S /\ From(x) \in F
    BY DEF F
  <2>3. F \subseteq SUBSET S
    BY DEF F
  <2> HIDE DEF F, From
  <2> QED BY <2>1, <2>2, <2>3
<1>2. PICK T \in F : \A U \in F : ~(<<U, T>> \in StrictSubsetOrdering(S))
  <2>1. IsWellFoundedOn(StrictSubsetOrdering(S), FiniteSubsetsOf(S))
    BY FS_StrictSubsetOrderingWellFounded
  <2> QED BY <1>1, <2>1, WFMin
<1>3. PICK x \in S : T = From(x)
  BY <1>2 DEF F
<1>4. \A y \in S : x >= y
  <2>1. SUFFICES ASSUME NEW y \in S, y > x PROVE FALSE
    OBVIOUS
  <2>2. From(y) \subseteq From(x) /\ x \in From(x) /\ x \notin From(y)
    <3>1. x \in Int /\ y \in Int /\ \A z \in S : z \in Int
      OBVIOUS
    <3>2. \A z \in Int : z >= y => z >= x
      BY <2>1, <3>1
    <3>3. From(y) \subseteq From(x)
      BY <3>1, <3>2, Zenon
    <3>4. x \in From(x) /\ x \notin From(y)
      BY <2>1, <3>1
    <3> QED BY <3>3, <3>4
  <2>3. <<From(y), T>> \in StrictSubsetOrdering(S)
    BY <1>3, <2>2 DEF StrictSubsetOrdering
  <2> QED BY <1>2, <2>3 DEF F
<1> QED BY <1>4 DEF Max

(* Min is the minimum. *)
LEMMA MinOfFinite ==
    ASSUME NEW S \in SUBSET Int, IsFiniteSet(S), S # {}
    PROVE  Min(S) \in S /\ \A x \in S : Min(S) <= x
<1> DEFINE f == [x \in S |-> -x]
           T == {-x : x \in S}
<1>0. \A x \in S : x \in Int
  OBVIOUS
<1>1. IsFiniteSet(T)
  <2>1. f \in Surjection(S, T)
    BY Zenon DEF Surjection
  <2> QED BY <2>1, FS_Surjection
<1>2. T \in SUBSET Int /\ T # {}
  <2>1. \A x \in S : -x \in Int
    BY <1>0
  <2>2. T \subseteq Int
    BY <2>1, Zenon
  <2>3. T # {}
    BY Zenon
  <2> QED BY <2>2, <2>3
<1>3. Max(T) \in T /\ \A x \in T : Max(T) >= x
  BY <1>1, <1>2, MaxOfFinite
<1>4. PICK m \in S : Max(T) = -m
  BY <1>3
<1>5. \A x \in S : m <= x
  <2> TAKE x \in S
  <2>1. -x \in T
    BY Zenon
  <2>2. -m >= -x
    BY <1>3, <1>4, <2>1
  <2> QED BY <2>2, <1>0
<1> HIDE DEF T
<1> QED BY <1>5 DEF Min

(* The first elements of S, k of them if there are as many, for a query    *)
(* with ORDER BY and LIMIT: whoever is smaller than one of them is one of  *)
(* them, ...                                                               *)
LEMMA FirstOnesArePrefix ==
    ASSUME NEW S \in SUBSET Int, IsFiniteSet(S), NEW k \in Nat,
           NEW x \in S, NEW z \in S, z < x,
           Cardinality({y \in S : y < x}) < k
    PROVE  Cardinality({y \in S : y < z}) < k
<1> DEFINE Below(u) == {y \in S : y < u}
<1>1. Below(z) \subseteq Below(x)
  <2>1. \A y \in S : y < z => y < x
    <3>1. z \in Int /\ x \in Int /\ \A y \in S : y \in Int
      OBVIOUS
    <3> QED BY <3>1
  <2> QED BY <2>1
<1>2. IsFiniteSet(Below(x))
  BY FS_Subset
<1>3. Cardinality(Below(z)) <= Cardinality(Below(x)) /\ Cardinality(Below(z)) \in Nat
      /\ Cardinality(Below(x)) \in Nat
  BY <1>1, <1>2, FS_Subset, FS_CardinalityType
<1>4. Cardinality(Below(x)) < k
  OBVIOUS
<1>5. Cardinality(Below(z)) < k
  BY <1>3, <1>4
<1> QED BY <1>5

(* ... and the least of all is one of them.                                *)
LEMMA LeastIsFirst ==
    ASSUME NEW S \in SUBSET Int, NEW m \in S, \A x \in S : m <= x, NEW k \in Nat \ {0}
    PROVE  Cardinality({y \in S : y < m}) < k
<1>1. \A y \in S : ~(y < m)
  <2>1. m \in Int /\ \A y \in S : y \in Int /\ m <= y
    OBVIOUS
  <2> QED BY <2>1
<1>2. {y \in S : y < m} = {}
  BY <1>1
<1> QED BY <1>2, FS_EmptySet

(* The same from the other end, for ORDER BY ... DESC: whoever is greater  *)
(* than one of the last elements is one of them, ...                       *)
LEMMA LastOnesAreSuffix ==
    ASSUME NEW S \in SUBSET Int, IsFiniteSet(S), NEW k \in Nat,
           NEW x \in S, NEW z \in S, z > x,
           Cardinality({y \in S : y > x}) < k
    PROVE  Cardinality({y \in S : y > z}) < k
<1> DEFINE Above(u) == {y \in S : y > u}
<1>1. Above(z) \subseteq Above(x)
  <2>1. \A y \in S : y > z => y > x
    <3>1. z \in Int /\ x \in Int /\ \A y \in S : y \in Int
      OBVIOUS
    <3> QED BY <3>1
  <2> QED BY <2>1
<1>2. IsFiniteSet(Above(x))
  BY FS_Subset
<1>3. Cardinality(Above(z)) <= Cardinality(Above(x)) /\ Cardinality(Above(z)) \in Nat
      /\ Cardinality(Above(x)) \in Nat
  BY <1>1, <1>2, FS_Subset, FS_CardinalityType
<1>4. Cardinality(Above(x)) < k
  OBVIOUS
<1>5. Cardinality(Above(z)) < k
  BY <1>3, <1>4
<1> QED BY <1>5

(* ... and the greatest of all is one of them.                             *)
LEMMA GreatestIsLast ==
    ASSUME NEW S \in SUBSET Int, NEW m \in S, \A x \in S : m >= x, NEW k \in Nat \ {0}
    PROVE  Cardinality({y \in S : y > m}) < k
<1>1. \A y \in S : ~(y > m)
  <2> SUFFICES ASSUME NEW y \in S PROVE ~(y > m)
    OBVIOUS
  <2>1. m \in Int /\ y \in Int /\ m >= y
    OBVIOUS
  <2> QED BY <2>1
<1>2. {y \in S : y > m} = {}
  BY <1>1
<1> QED BY <1>2, FS_EmptySet

-------------------------------------------------------------------------------
(* What a step of r does *)

(* Rows are added, committed or deleted, and never change hands; a row that *)
(* is new repeats no request id.                                           *)
RowsGo(r) ==
    /\ message' \in Seq(MessageRows)
    /\ \A m \in DOMAIN message :
         /\ m \in DOMAIN message'
         /\ message'[m].sender = message[m].sender /\ message'[m].key = message[m].key
         /\ m \in Open' => m \in Open
         /\ m \in Live' => m \in Live
    /\ \A m \in Open : m \in Open' \/ (pc[r] = "inserted" /\ m = answer[r])
    /\ \A m \in DOMAIN message' \ DOMAIN message :
         /\ m = Len(message) + 1
         /\ IsOf(m, r)'
         /\ \A n \in Live : ~IsOf(n, r)

(* Who has asked changes only with the acceptance.                         *)
CourseGoes ==
    /\ conversation' \in Conversations
    /\ conversation.status = "ACCEPTED" => conversation'.status = "ACCEPTED"
    /\ conversation.status # "NONE" =>
         /\ conversation'.status # "NONE"
         /\ conversation'.status = "ACCEPTED" \/ conversation'.requester = conversation.requester
    /\ conversation'.last \in DOMAIN message' <=> conversation'.status \in {"PENDING", "ACCEPTED"}
    /\ archived' \subseteq Users
    /\ Open' # {} => conversation'.status = "ACCEPTED"

(* Only r has moved. *)
OnlyOneMoves(r) ==
    /\ plot' = plot
    /\ RelationsOK'
    /\ pc' \in [Requests -> Places] /\ seen' \in [Requests -> Sights] /\ answer' \in [Requests -> Nat]
    /\ \A s \in Requests \ {r} : pc'[s] = pc[s] /\ seen'[s] = seen[s] /\ answer'[s] = answer[s]
    /\ SightFits(r)' /\ AnswerFits(r)'
    /\ pc'[r] = "inserted" => answer'[r] \notin DOMAIN message

Effect(r) ==
    RowsGo(r) /\ CourseGoes /\ OnlyOneMoves(r) /\ RequestIsOneMessage' /\ RequestsAreSeen' /\ AnswerStands

(* There are two users. *)
LEMMA TheOther ==
    ASSUME NEW u \in Users
    PROVE  Other(u) \in Users /\ Other(u) # u /\ \A v \in Users : v # u => v = Other(u)
  BY DirectMessagesAssumption DEF Other

(* Rows of a table are numbered from 1. *)
LEMMA RowNumbers ==
    ASSUME NEW rows \in Seq(MessageRows)
    PROVE  /\ Len(rows) \in Nat /\ DOMAIN rows = 1..Len(rows)
           /\ Len(rows) + 1 \notin DOMAIN rows /\ 0 \notin DOMAIN rows
           /\ \A m \in DOMAIN rows : m \in Nat /\ rows[m] \in MessageRows
  OBVIOUS

(* A mark on a row leaves a row. *)
LEMMA RowWithMark ==
    ASSUME NEW row \in MessageRows
    PROVE  /\ [row EXCEPT !.read = TRUE] \in MessageRows
           /\ [row EXCEPT !.recalled = TRUE] \in MessageRows
           /\ [row EXCEPT !.state = "stored"] \in MessageRows
           /\ [row EXCEPT !.state = "deleted"] \in MessageRows
  BY DEF MessageRows

(* A row more. *)
LEMMA RowsWithOneMore ==
    ASSUME NEW rows \in Seq(MessageRows), NEW row \in MessageRows
    PROVE  LET more == Append(rows, row)
           IN  /\ more \in Seq(MessageRows)
               /\ DOMAIN more = DOMAIN rows \cup {Len(rows) + 1}
               /\ more[Len(rows) + 1] = row
               /\ \A m \in DOMAIN rows : more[m] = rows[m]
  OBVIOUS

(* Whatever a step does to the rows of the table: they are rows still.     *)
LEMMA RowsChanged ==
    ASSUME NEW rows \in Seq(MessageRows), NEW new, DOMAIN new = DOMAIN rows,
           new = [m \in DOMAIN rows |-> new[m]], \A m \in DOMAIN rows : new[m] \in MessageRows
    PROVE  new \in Seq(MessageRows) /\ Len(new) = Len(rows)
<1>1. Len(rows) \in Nat /\ DOMAIN rows = 1..Len(rows)
  OBVIOUS
<1>2. new \in [1..Len(rows) -> MessageRows]
  BY <1>1
<1> QED BY <1>1, <1>2

(* Every step of r that has its effect keeps the invariant.                *)
LEMMA EffectKeeps ==
    ASSUME ConversationInvariant, NEW r \in Requests, Effect(r)
    PROVE  ConversationInvariant'
<1> USE DEF ConversationInvariant, Effect
<1>1. TypeOK'
  BY DEF TypeOK, OnlyOneMoves, CourseGoes, RowsGo
<1>2. Shapes'
  BY DEF Shapes, OnlyOneMoves
<1>3. KeysAreSingle'
  <2>1. message \in Seq(MessageRows)
    BY DEF TypeOK
  <2> SUFFICES ASSUME NEW m \in Live', NEW n \in Live',
                      message'[m].sender = message'[n].sender, message'[m].key = message'[n].key
               PROVE  m = n
    BY DEF KeysAreSingle
  <2>2. m \in DOMAIN message' /\ n \in DOMAIN message'
    BY DEF Live
  <2>3. CASE m \in DOMAIN message /\ n \in DOMAIN message
    BY <2>3 DEF RowsGo, KeysAreSingle
  <2>4. CASE m \notin DOMAIN message /\ n \notin DOMAIN message
    BY <2>2, <2>4 DEF RowsGo
  <2>5. CASE m \in DOMAIN message /\ n \notin DOMAIN message
    BY <2>2, <2>5 DEF RowsGo, IsOf
  <2>6. CASE n \in DOMAIN message /\ m \notin DOMAIN message
    BY <2>2, <2>6 DEF RowsGo, IsOf
  <2> QED BY <2>3, <2>4, <2>5, <2>6
<1>4. ASSUME NEW s \in Requests
      PROVE  SightFits(s)' /\ AnswerFits(s)'
  <2>1. CASE s = r
    BY <2>1 DEF OnlyOneMoves
  <2>2. CASE s # r
    <3>1. pc'[s] = pc[s] /\ seen'[s] = seen[s] /\ answer'[s] = answer[s]
      BY <2>2 DEF OnlyOneMoves
    <3>2. SightFits(s)'
      <4>1. SightFits(s) /\ CourseGoes
        OBVIOUS
      <4>2. MoveFits(s) => MoveFits(s)'
        BY <3>1, <4>1 DEF MoveFits, CourseGoes
      <4>3. conversation.status = "ACCEPTED" => conversation'.status = "ACCEPTED"
        BY <4>1 DEF CourseGoes
      <4>4. conversation.status # "NONE" =>
              /\ conversation'.status # "NONE"
              /\ conversation'.status = "ACCEPTED" \/ conversation'.requester = conversation.requester
        BY <4>1 DEF CourseGoes
      <4> QED BY <3>1, <4>1, <4>2, <4>3, <4>4 DEF SightFits
    <3>3. ASSUME pc[s] = "inserted"
          PROVE  answer[s] \in Open' /\ IsOf(answer[s], s)'
      <4>1. answer[s] \in Open /\ IsOf(answer[s], s)
        BY <3>3 DEF AnswerFits
      <4>2. answer[s] \in DOMAIN message
        BY <4>1 DEF Open
      <4>3. ~(pc[r] = "inserted" /\ answer[s] = answer[r])
        BY <2>2, <3>3
      <4>4. answer[s] \in Open'
        BY <4>1, <4>3 DEF RowsGo
      <4>5. message'[answer[s]].sender = message[answer[s]].sender /\ message'[answer[s]].key = message[answer[s]].key
        BY <4>2 DEF RowsGo
      <4> QED BY <3>1, <4>1, <4>4, <4>5 DEF IsOf
    <3>4. ASSUME Sent(s)
          PROVE  answer[s] \in DOMAIN message' /\ answer[s] \notin Open' /\ IsOf(answer[s], s)'
      <4>1. answer[s] \in DOMAIN message /\ answer[s] \notin Open /\ IsOf(answer[s], s)
        BY <3>4 DEF AnswerFits
      <4>2. answer[s] \in DOMAIN message' /\ answer[s] \notin Open'
        BY <4>1 DEF RowsGo
      <4>3. message'[answer[s]].sender = message[answer[s]].sender /\ message'[answer[s]].key = message[answer[s]].key
        BY <4>1 DEF RowsGo
      <4> QED BY <3>1, <4>1, <4>2, <4>3 DEF IsOf
    <3>5. Sent(s)' = Sent(s)
      BY <3>1 DEF Sent
    <3>6. AnswerFits(s)'
      BY <3>1, <3>3, <3>4, <3>5 DEF AnswerFits
    <3> QED BY <3>2, <3>6
  <2> QED BY <2>1, <2>2
<1>5. ASSUME NEW s \in Requests, NEW t \in Requests,
             pc'[s] = "inserted", pc'[t] = "inserted", answer'[s] = answer'[t]
      PROVE  s = t
  <2>1. \A q \in Requests \ {r} : pc'[q] = "inserted" => answer'[q] \in DOMAIN message
    BY DEF OnlyOneMoves, AnswerFits, Open
  <2>2. pc'[r] = "inserted" => answer'[r] \notin DOMAIN message
    BY DEF OnlyOneMoves
  <2>3. CASE s # r /\ t # r
    BY <1>5, <2>3 DEF OnlyOneMoves
  <2> QED BY <1>5, <2>1, <2>2, <2>3
<1> QED BY <1>1, <1>2, <1>3, <1>4, <1>5

(* Requests are what clients ask for. *)
LEMMA RequestsAreCommands == Requests \subseteq Commands
<1>1. \A p \in Plots : p.requests \subseteq Commands
  BY DirectMessagesAssumption DEF BeginsWell
<1> QED BY <1>1 DEF Requests

(* What initiate decides outside of its transaction. *)
LEMMA PlanOfSight ==
    ASSUME NEW r \in Requests, conversation \in Conversations, seen[r] \in Sights
    PROVE  /\ Plan(r) \in Sights
           /\ Plan(r).plan = IF conversation.status = "NONE" THEN "create"
                             ELSE IF conversation.status = "ACCEPTED" THEN "send" ELSE "move"
           /\ Plan(r).status = conversation.status
           /\ Plan(r).next = NextStatus(r)
           /\ NextStatus(r) \in {"PENDING", "ACCEPTED"}
<1>1. NextStatus(r) \in {"PENDING", "ACCEPTED"}
  BY DEF NextStatus
<1>2. conversation.status \in Statuses /\ seen[r].again \in BOOLEAN
  BY DEF Conversations, Sights
<1> DEFINE asked == conversation.status = "PENDING"
           plan == IF conversation.status = "NONE" THEN "create"
                   ELSE IF conversation.status = "ACCEPTED" THEN "send" ELSE "move"
<1>3. asked \in BOOLEAN /\ plan \in Plans
  BY DEF Plans
<1>4. plan = CASE conversation.status = "NONE" -> "create"
               [] conversation.status = "ACCEPTED" -> "send"
               [] OTHER -> "move"
  OBVIOUS
<1>5. Plan(r) = [NoSight EXCEPT !.plan = plan, !.status = conversation.status, !.next = NextStatus(r),
                                !.markRead = asked, !.again = seen[r].again]
  BY <1>4 DEF Plan
<1> HIDE DEF asked, plan
<1>6. /\ Plan(r).plan = plan /\ Plan(r).status = conversation.status /\ Plan(r).next = NextStatus(r)
      /\ Plan(r) \in Sights
  BY <1>1, <1>2, <1>3, <1>5 DEF NoSight, Sights, Statuses
<1> QED BY <1>1, <1>6 DEF plan

LEMMA PlanFits ==
    ASSUME NEW r \in Requests, conversation \in Conversations, seen[r] \in Sights, r.user \in Users,
           r.op = "initiate", MayInitiate(r), conversation' = conversation,
           pc'[r] = "read", seen'[r] = Plan(r)
    PROVE  SightFits(r)' /\ Plan(r) \in Sights
<1>1. conversation.status \in Statuses /\ conversation.requester \in Users
  BY DEF Conversations
<1>2. conversation.status \in {"PENDING", "DECLINED"} => conversation.requester # r.user /\ NextStatus(r) = "ACCEPTED"
  BY DEF MayInitiate, NextStatus
<1>3. conversation.status = "CANCELED" /\ conversation.requester # r.user => NextStatus(r) = "ACCEPTED"
  BY <1>1, TheOther DEF NextStatus, recipient
<1>4. Plan(r).plan = "move" => conversation.status \in {"PENDING", "DECLINED", "CANCELED"}
  BY <1>1, PlanOfSight DEF Statuses
<1>5. Plan(r).plan = "move" => MoveFits(r)'
  BY <1>2, <1>3, <1>4, PlanOfSight DEF MoveFits
<1>6. Plan(r).plan \in {"create", "move", "send"} /\ (Plan(r).plan = "send" => conversation.status = "ACCEPTED")
  BY PlanOfSight
<1> QED BY <1>5, <1>6, PlanOfSight DEF SightFits

-------------------------------------------------------------------------------
(* Steps that leave the conversation alone *)

(* Who only reads changes nothing of it. *)
LEMMA ReadingKeeps ==
    ASSUME ConversationInvariant, NEW r \in Requests, UNCHANGED contentVars, OnlyOneMoves(r)
    PROVE  Effect(r)
<1>1. conversation' = conversation /\ message' = message /\ archived' = archived
  BY DEF contentVars
<1>2. Open' = Open /\ Live' = Live /\ Stored' = Stored
  BY <1>1 DEF Open, Live, Stored
<1>3. RowsGo(r)
  <2>1. message \in Seq(MessageRows)
    BY DEF ConversationInvariant, TypeOK
  <2>2. DOMAIN message' \ DOMAIN message = {}
    BY <1>1
  <2> QED BY <1>1, <1>2, <2>1, <2>2 DEF RowsGo
<1>4. CourseGoes
  BY <1>1, <1>2 DEF CourseGoes, ConversationInvariant, TypeOK
<1>5. RequestIsOneMessage'
  BY <1>1, <1>2 DEF RequestIsOneMessage, ConversationInvariant
<1>6. RequestsAreSeen'
  BY <1>1 DEF RequestsAreSeen, ConversationInvariant
<1>7. AnswerStands
  BY <1>1 DEF AnswerStands, Stored
<1> QED BY <1>3, <1>4, <1>5, <1>6, <1>7 DEF Effect

(* A request goes on to another place. *)
LEMMA GotoMoves ==
    ASSUME ConversationInvariant, NEW r \in Requests, NEW place \in {"new", "read", "checked"},
           NEW sight \in Sights, Goto(r, place, sight), SightFits(r)'
    PROVE  OnlyOneMoves(r)
<1>1. pc \in [Requests -> Places] /\ seen \in [Requests -> Sights] /\ answer \in [Requests -> Nat]
  BY DEF ConversationInvariant, TypeOK, Shapes
<1>2. /\ pc' \in [Requests -> Places] /\ seen' \in [Requests -> Sights] /\ answer' \in [Requests -> Nat]
      /\ pc'[r] = place
      /\ \A s \in Requests \ {r} : pc'[s] = pc[s] /\ seen'[s] = seen[s] /\ answer'[s] = answer[s]
  BY <1>1 DEF Goto, Places
<1>3. AnswerFits(r)'
  BY <1>2 DEF AnswerFits, Sent
<1>4. plot' = plot /\ RelationsOK'
  BY DEF Goto, relationVars, RelationsOK, ConversationInvariant, TypeOK
<1> QED BY <1>2, <1>3, <1>4 DEF OnlyOneMoves

LEMMA NoSightIsSight ==
    /\ NoSight \in Sights /\ NoSight.plan = ""
    /\ \A again \in BOOLEAN : LET sight == [NoSight EXCEPT !.again = again]
                              IN  sight \in Sights /\ sight.plan = ""
  BY DEF NoSight, Sights, Plans, Statuses

(* A request ends: who sent a message is answered with it. *)
LEMMA FinishMoves ==
    ASSUME ConversationInvariant, NEW r \in Requests, NEW outcome \in Outcomes, NEW m \in Nat,
           Finish(r, outcome, m),
           outcome = "done" /\ r.op \in {"initiate", "send"} =>
             m \in DOMAIN message' /\ m \notin Open' /\ message'[m].sender = r.user /\ message'[m].key = r.key
    PROVE  OnlyOneMoves(r)
<1>1. pc \in [Requests -> Places] /\ seen \in [Requests -> Sights] /\ answer \in [Requests -> Nat]
  BY DEF ConversationInvariant, TypeOK, Shapes
<1>2. /\ pc' \in [Requests -> Places] /\ seen' \in [Requests -> Sights] /\ answer' \in [Requests -> Nat]
      /\ pc'[r] = outcome /\ seen'[r] = NoSight /\ answer'[r] = m
      /\ \A s \in Requests \ {r} : pc'[s] = pc[s] /\ seen'[s] = seen[s] /\ answer'[s] = answer[s]
  BY <1>1, NoSightIsSight DEF Finish, Places
<1>3. outcome \notin {"new", "read", "checked", "inserted"}
  BY DEF Outcomes
<1>4. SightFits(r)'
  BY <1>2, <1>3, NoSightIsSight DEF SightFits
<1>5. AnswerFits(r)'
  BY <1>2, <1>3 DEF AnswerFits, Sent, IsOf
<1>6. plot' = plot /\ RelationsOK'
  BY DEF Finish, relationVars, RelationsOK, ConversationInvariant, TypeOK
<1> QED BY <1>2, <1>3, <1>4, <1>5, <1>6 DEF OnlyOneMoves

LEMMA RefuseKeeps ==
    ASSUME ConversationInvariant, NEW r \in Requests, Refuse(r)
    PROVE  Effect(r)
<1>1. Finish(r, "refused", 0) /\ UNCHANGED contentVars
  BY DEF Refuse
<1>2. OnlyOneMoves(r)
  BY <1>1, FinishMoves DEF Outcomes
<1> QED BY <1>1, <1>2, ReadingKeeps

(* A repeated request id: the answer is the message of the first.          *)
LEMMA AnswerDuplicateKeeps ==
    ASSUME ConversationInvariant, NEW r \in Requests, AnswerDuplicate(r)
    PROVE  Effect(r)
<1>1. PICK m \in Duplicates(r) : Finish(r, "done", m) /\ UNCHANGED contentVars
  BY DEF AnswerDuplicate
<1>2. message' = message /\ message \in Seq(MessageRows)
  BY <1>1 DEF contentVars, ConversationInvariant, TypeOK
<1>3. m \in DOMAIN message /\ message[m].state = "stored" /\ message[m].sender = r.user /\ message[m].key = r.key
  BY DEF Duplicates, Stored
<1>4. m \in Nat
  BY <1>2, <1>3, RowNumbers
<1>5. m \in DOMAIN message' /\ m \notin Open'
  BY <1>2, <1>3 DEF Open
<1>6. OnlyOneMoves(r)
  BY <1>1, <1>2, <1>3, <1>4, <1>5, FinishMoves DEF Outcomes
<1> QED BY <1>1, <1>6, ReadingKeeps

(* Statements that do not concern a message end with no answer of note.    *)
LEMMA DoneKeeps ==
    ASSUME ConversationInvariant, NEW r \in Requests, NEW m \in Nat, r.op \notin {"initiate", "send"},
           Finish(r, "done", m)
    PROVE  OnlyOneMoves(r)
  BY FinishMoves DEF Outcomes

LEMMA readInitiateKeeps ==
    ASSUME ConversationInvariant, NEW r \in Requests, readInitiate(r)
    PROVE  Effect(r)
<1>1. CASE AnswerDuplicate(r)
  BY <1>1, AnswerDuplicateKeeps
<1>2. CASE Refuse(r)
  BY <1>2, RefuseKeeps
<1>3. CASE MayInitiate(r) /\ Goto(r, "read", Plan(r)) /\ UNCHANGED contentVars
  <2>1. r.op = "initiate" /\ r.user \in Users /\ conversation \in Conversations /\ seen[r] \in Sights
    BY RequestsAreCommands DEF readInitiate, Arrives, ConversationInvariant, TypeOK, Shapes, Commands
  <2>2. conversation' = conversation
    BY <1>3 DEF contentVars
  <2>3. pc'[r] = "read" /\ seen'[r] = Plan(r)
    BY <1>3 DEF Goto, ConversationInvariant, TypeOK, Shapes
  <2>4. SightFits(r)' /\ Plan(r) \in Sights
    BY <1>3, <2>1, <2>2, <2>3, PlanFits
  <2>5. OnlyOneMoves(r)
    BY <1>3, <2>4, GotoMoves
  <2> QED BY <1>3, <2>5, ReadingKeeps
<1> QED BY <1>1, <1>2, <1>3 DEF readInitiate

LEMMA readSendKeeps ==
    ASSUME ConversationInvariant, NEW r \in Requests, readSend(r)
    PROVE  Effect(r)
<1>1. CASE AnswerDuplicate(r)
  BY <1>1, AnswerDuplicateKeeps
<1>2. CASE Refuse(r)
  BY <1>2, RefuseKeeps
<1>3. CASE conversation.status = "ACCEPTED" /\ Goto(r, "read", Plan(r)) /\ UNCHANGED contentVars
  <2>1. r.op = "send" /\ conversation \in Conversations /\ seen[r] \in Sights
    BY DEF readSend, Arrives, ConversationInvariant, TypeOK, Shapes
  <2>2. conversation' = conversation
    BY <1>3 DEF contentVars
  <2>3. pc'[r] = "read" /\ seen'[r] = Plan(r)
    BY <1>3 DEF Goto, ConversationInvariant, TypeOK, Shapes
  <2>4. Plan(r) \in Sights /\ Plan(r).plan = "send"
    BY <1>3, <2>1, PlanOfSight
  <2>5. SightFits(r)'
    BY <1>3, <2>1, <2>2, <2>3, <2>4 DEF SightFits
  <2>6. OnlyOneMoves(r)
    BY <1>3, <2>4, <2>5, GotoMoves
  <2> QED BY <1>3, <2>6, ReadingKeeps
<1> QED BY <1>1, <1>2, <1>3 DEF readSend

(* A request that goes on and has decided nothing that could become wrong. *)
LEMMA GoingOnKeeps ==
    ASSUME ConversationInvariant, NEW r \in Requests, NEW place \in {"new", "read", "checked"},
           NEW sight \in Sights, Goto(r, place, sight), UNCHANGED contentVars,
           r.op # "archive", sight.plan \in {"", "cancel", "recall"}, place = "new" => sight.plan = ""
    PROVE  Effect(r)
<1>1. pc'[r] = place /\ seen'[r] = sight
  BY DEF Goto, ConversationInvariant, TypeOK, Shapes
<1>2. SightFits(r)'
  BY <1>1 DEF SightFits
<1> QED BY <1>2, GotoMoves, ReadingKeeps

LEMMA checkKeeps ==
    ASSUME ConversationInvariant, NEW r \in Requests, check(r)
    PROVE  Effect(r)
<1>1. CASE Finish(r, "refused", 0)
  BY <1>1, RefuseKeeps DEF check, Refuse
<1>2. CASE Goto(r, "checked", seen[r])
  <2>1. conversation' = conversation /\ UNCHANGED contentVars /\ pc[r] = "read" /\ r.op # "archive"
    BY DEF check, contentVars
  <2>2. pc'[r] = "checked" /\ seen'[r] = seen[r] /\ seen[r] \in Sights
    BY <1>2 DEF Goto, ConversationInvariant, TypeOK, Shapes
  <2>3. SightFits(r)
    BY DEF ConversationInvariant
  <2>4. SightFits(r)'
    BY <2>1, <2>2, <2>3 DEF SightFits, MoveFits
  <2> QED BY <1>2, <2>1, <2>2, <2>4, GotoMoves, ReadingKeeps
<1> QED BY <1>1, <1>2 DEF check

LEMMA readAcceptKeeps ==
    ASSUME ConversationInvariant, NEW r \in Requests, readAccept(r)
    PROVE  Effect(r)
<1>1. CASE Refuse(r)
  BY <1>1, RefuseKeeps
<1>2. CASE Goto(r, "read", NoSight) /\ UNCHANGED contentVars
  BY <1>2, GoingOnKeeps, NoSightIsSight DEF readAccept, Arrives
<1> QED BY <1>1, <1>2 DEF readAccept

LEMMA readDeclineKeeps ==
    ASSUME ConversationInvariant, NEW r \in Requests, readDecline(r)
    PROVE  Effect(r)
<1>1. CASE Refuse(r)
  BY <1>1, RefuseKeeps
<1>2. CASE Goto(r, "read", NoSight) /\ UNCHANGED contentVars
  BY <1>2, GoingOnKeeps, NoSightIsSight DEF readDecline, Arrives
<1> QED BY <1>1, <1>2 DEF readDecline

LEMMA readRecallKeeps ==
    ASSUME ConversationInvariant, NEW r \in Requests, readRecall(r)
    PROVE  Effect(r)
<1>0. r.op = "recall" /\ r.message \in Nat
  BY RequestsAreCommands DEF readRecall, Arrives, Commands
<1>1. CASE Refuse(r)
  BY <1>1, RefuseKeeps
<1>2. CASE Goto(r, "read", NoSight) /\ UNCHANGED contentVars
  BY <1>0, <1>2, GoingOnKeeps, NoSightIsSight
<1>3. CASE Finish(r, "done", r.message) /\ UNCHANGED contentVars
  BY <1>0, <1>3, DoneKeeps, ReadingKeeps
<1> QED BY <1>1, <1>2, <1>3 DEF readRecall

LEMMA lookRecallKeeps ==
    ASSUME ConversationInvariant, NEW r \in Requests, lookRecall(r)
    PROVE  Effect(r)
<1>0. r.op = "recall" /\ UNCHANGED contentVars
  BY DEF lookRecall, At
<1>1. CASE Finish(r, "refused", 0)
  BY <1>0, <1>1, RefuseKeeps DEF Refuse
<1>2. ASSUME NEW plan \in {"cancel", "recall"}, Goto(r, "checked", [NoSight EXCEPT !.plan = plan])
      PROVE  Effect(r)
  <2> DEFINE sight == [NoSight EXCEPT !.plan = plan]
  <2>1. sight \in Sights /\ sight.plan = plan
    BY DEF NoSight, Sights, Plans, Statuses
  <2>2. Goto(r, "checked", sight)
    BY <1>2
  <2> HIDE DEF sight
  <2> QED BY <1>0, <2>1, <2>2, GoingOnKeeps
<1> QED BY <1>1, <1>2 DEF lookRecall

LEMMA readArchiveKeeps ==
    ASSUME ConversationInvariant, NEW r \in Requests, readArchive(r)
    PROVE  Effect(r)
<1>1. CASE Refuse(r)
  BY <1>1, RefuseKeeps
<1>2. CASE ~Refuse(r)
  <2>1. Goto(r, "read", NoSight) /\ UNCHANGED contentVars /\ conversation' = conversation
    BY <1>2 DEF readArchive, contentVars
  <2>2. conversation.status = "ACCEPTED" \/ HasAsked(r.user)
    BY <1>2 DEF readArchive
  <2>3. pc'[r] = "read" /\ seen'[r] = NoSight
    BY <2>1 DEF Goto, ConversationInvariant, TypeOK, Shapes
  <2>4. SightFits(r)'
    BY <2>1, <2>2, <2>3, NoSightIsSight DEF SightFits, HasAsked
  <2> QED BY <2>1, <2>4, GotoMoves, NoSightIsSight, ReadingKeeps
<1> QED BY <1>1, <1>2

LEMMA setArchivedKeeps ==
    ASSUME ConversationInvariant, NEW r \in Requests, setArchived(r)
    PROVE  Effect(r)
<1>1. /\ r.op = "archive" /\ pc[r] = "read" /\ Finish(r, "done", 0) /\ r.user \in Users
      /\ conversation' = conversation /\ message' = message
      /\ archived' \subseteq archived \cup {r.user}
  BY RequestsAreCommands DEF setArchived, At, Commands
<1>2. conversation.status # "NONE" /\ (conversation.status = "ACCEPTED" \/ conversation.requester = r.user)
  BY <1>1 DEF ConversationInvariant, SightFits
<1>3. Open' = Open /\ Live' = Live /\ Stored' = Stored
  BY <1>1 DEF Open, Live, Stored
<1>4. OnlyOneMoves(r)
  BY <1>1, DoneKeeps
<1>5. RowsGo(r)
  <2>1. message \in Seq(MessageRows)
    BY DEF ConversationInvariant, TypeOK
  <2>2. DOMAIN message' \ DOMAIN message = {}
    BY <1>1
  <2> QED BY <1>1, <1>3, <2>1, <2>2 DEF RowsGo
<1>6. CourseGoes
  BY <1>1, <1>3 DEF CourseGoes, ConversationInvariant, TypeOK
<1>7. RequestIsOneMessage'
  BY <1>1, <1>3 DEF RequestIsOneMessage, ConversationInvariant
<1>8. RequestsAreSeen'
  BY <1>1, <1>2 DEF RequestsAreSeen, ConversationInvariant
<1>9. AnswerStands
  BY <1>1 DEF AnswerStands, Stored
<1> QED BY <1>4, <1>5, <1>6, <1>7, <1>8, <1>9 DEF Effect

LEMMA relateKeeps ==
    ASSUME ConversationInvariant, NEW r \in Requests, relate(r)
    PROVE  Effect(r)
<1>1. /\ pc[r] = "new" /\ pc' = [pc EXCEPT ![r] = "done"]
      /\ plot' = plot /\ UNCHANGED contentVars /\ seen' = seen /\ answer' = answer
      /\ r.op \notin {"initiate", "send", "archive"} /\ r.user \in Users
  BY RequestsAreCommands DEF relate, Commands
<1>2. RelationsOK'
  BY <1>1, TheOther DEF relate, follow, unfollow, block, unblock, deactivate, RelationsOK, ConversationInvariant, TypeOK
<1>3. /\ pc' \in [Requests -> Places] /\ seen' \in [Requests -> Sights] /\ answer' \in [Requests -> Nat]
      /\ pc'[r] = "done" /\ \A s \in Requests \ {r} : pc'[s] = pc[s]
  BY <1>1 DEF ConversationInvariant, TypeOK, Shapes, Places, Outcomes
<1>4. seen[r].plan = ""
  BY <1>1 DEF ConversationInvariant, SightFits
<1>5. SightFits(r)' /\ AnswerFits(r)'
  BY <1>1, <1>3, <1>4 DEF SightFits, AnswerFits, Sent
<1>6. OnlyOneMoves(r)
  BY <1>1, <1>2, <1>3, <1>5 DEF OnlyOneMoves
<1> QED BY <1>1, <1>6, ReadingKeeps

-------------------------------------------------------------------------------
(* Steps that change the conversation and its rows *)

(* Rows whose marks alone change. *)
Remarked(rows) ==
    /\ rows \in Seq(MessageRows)
    /\ DOMAIN rows = DOMAIN message
    /\ \A m \in DOMAIN message :
         /\ rows[m].sender = message[m].sender /\ rows[m].key = message[m].key
         /\ rows[m].state = message[m].state

LEMMA RemarkedRows ==
    ASSUME ConversationInvariant, NEW r, Remarked(message')
    PROVE  RowsGo(r) /\ Open' = Open /\ Stored' = Stored /\ Live' = Live /\ DOMAIN message' = DOMAIN message
<1>1. Open' = Open /\ Stored' = Stored /\ Live' = Live /\ DOMAIN message' \ DOMAIN message = {}
  BY DEF Remarked, Open, Stored, Live
<1>2. message' \in Seq(MessageRows) /\ DOMAIN message' = DOMAIN message
  BY DEF Remarked
<1>3. \A m \in DOMAIN message : message'[m].sender = message[m].sender /\ message'[m].key = message[m].key
  BY DEF Remarked
<1>4. RowsGo(r)
  BY <1>1, <1>2, <1>3 DEF RowsGo
<1> QED BY <1>1, <1>2, <1>4

LEMMA ReadingMarks ==
    ASSUME ConversationInvariant, NEW M, NEW u
    PROVE  Remarked(WithRead(M, u))
<1> DEFINE rows == WithRead(M, u)
<1>1. message \in Seq(MessageRows)
  BY DEF ConversationInvariant, TypeOK
<1>2. \A m \in DOMAIN message : message[m] \in MessageRows /\ [message[m] EXCEPT !.read = TRUE] \in MessageRows
  BY <1>1, RowNumbers, RowWithMark
<1>3. DOMAIN rows = DOMAIN message /\ rows = [m \in DOMAIN message |-> rows[m]]
  BY DEF WithRead
<1>4. \A m \in DOMAIN message : rows[m] = message[m] \/ rows[m] = [message[m] EXCEPT !.read = TRUE]
  BY DEF WithRead
<1> HIDE DEF rows
<1>5. \A m \in DOMAIN message : rows[m] \in MessageRows
  BY <1>2, <1>4
<1>6. rows \in Seq(MessageRows)
  BY <1>1, <1>3, <1>5, RowsChanged
<1>7. \A m \in DOMAIN message :
        rows[m].sender = message[m].sender /\ rows[m].key = message[m].key /\ rows[m].state = message[m].state
  BY <1>2, <1>4 DEF MessageRows
<1>8. Remarked(rows)
  BY <1>3, <1>6, <1>7 DEF Remarked
<1> QED BY <1>8 DEF rows

LEMMA acceptKeeps ==
    ASSUME ConversationInvariant, NEW r \in Requests, accept(r)
    PROVE  Effect(r)
<1>0. r.op = "accept"
  BY DEF accept, At
<1>1. CASE Refuse(r)
  BY <1>1, RefuseKeeps
<1>2. CASE ~Refuse(r)
  <2>1. /\ conversation.status = "PENDING" /\ conversation' = [conversation EXCEPT !.status = "ACCEPTED"]
        /\ message' = WithRead(Stored, r.user) /\ archived' = archived /\ Finish(r, "done", 0)
    BY <1>2 DEF accept, IsAsked
  <2>2. RowsGo(r) /\ Open' = Open /\ DOMAIN message' = DOMAIN message
    BY <2>1, ReadingMarks, RemarkedRows
  <2>3. /\ conversation' \in Conversations /\ conversation'.status = "ACCEPTED"
        /\ conversation'.requester = conversation.requester /\ conversation'.last = conversation.last
    BY <2>1 DEF ConversationInvariant, TypeOK, Conversations, Statuses
  <2>4. OnlyOneMoves(r)
    BY <1>0, <2>1, DoneKeeps
  <2>5. CourseGoes
    BY <2>1, <2>2, <2>3 DEF CourseGoes, ConversationInvariant, TypeOK
  <2>6. RequestIsOneMessage' /\ RequestsAreSeen' /\ AnswerStands
    BY <2>1, <2>3 DEF RequestIsOneMessage, RequestsAreSeen, AnswerStands
  <2> QED BY <2>2, <2>4, <2>5, <2>6 DEF Effect
<1> QED BY <1>1, <1>2

(* Who declines or takes back deletes what there is: nothing of it is      *)
(* still to be committed, because nobody sends before the acceptance.      *)
LEMMA DeletingKeeps ==
    ASSUME ConversationInvariant, NEW r \in Requests, NEW status \in {"DECLINED", "CANCELED"},
           NEW m \in Nat, r.op \notin {"initiate", "send"},
           conversation.status = "PENDING", Finish(r, "done", m),
           conversation' = [conversation EXCEPT !.status = status, !.last = 0],
           message' = AllDeleted, archived' = archived
    PROVE  Effect(r)
<1>1. message \in Seq(MessageRows) /\ Open = {} /\ archived \subseteq Users
  BY DEF ConversationInvariant, TypeOK
<1>2. /\ conversation' \in Conversations /\ conversation'.status = status
      /\ conversation'.requester = conversation.requester /\ conversation'.last = 0
  BY DEF ConversationInvariant, TypeOK, Conversations, Statuses
<1>3. \A n \in DOMAIN message : message[n] \in MessageRows /\ [message[n] EXCEPT !.state = "deleted"] \in MessageRows
  BY <1>1, RowNumbers, RowWithMark
<1>4. /\ DOMAIN message' = DOMAIN message
      /\ \A n \in DOMAIN message : message'[n] = [message[n] EXCEPT !.state = "deleted"]
      /\ message' = [n \in DOMAIN message |-> message'[n]]
  BY DEF AllDeleted
<1>5. \A n \in DOMAIN message : message'[n].sender = message[n].sender /\ message'[n].key = message[n].key
  BY <1>3, <1>4 DEF MessageRows
<1>6. \A n \in DOMAIN message : message'[n].state = "deleted"
  BY <1>3, <1>4 DEF MessageRows
<1>7. message' \in Seq(MessageRows)
  BY <1>1, <1>3, <1>4, RowsChanged
<1>8. Open' = {} /\ Stored' = {} /\ Live' = {}
  BY <1>4, <1>6 DEF Open, Stored, Live
<1>9. RowsGo(r)
  <2>1. DOMAIN message' \ DOMAIN message = {}
    BY <1>4
  <2> QED BY <1>1, <1>4, <1>5, <1>7, <1>8, <2>1 DEF RowsGo
<1>10. CourseGoes
  <2>1. 0 \notin DOMAIN message'
    BY <1>7, RowNumbers
  <2> QED BY <1>1, <1>2, <1>8, <2>1 DEF CourseGoes
<1>11. OnlyOneMoves(r)
  BY DoneKeeps
<1>12. RequestIsOneMessage' /\ RequestsAreSeen' /\ AnswerStands
  BY <1>2, <1>8 DEF RequestIsOneMessage, RequestsAreSeen, AnswerStands
<1> QED BY <1>9, <1>10, <1>11, <1>12 DEF Effect

LEMMA declineKeeps ==
    ASSUME ConversationInvariant, NEW r \in Requests, decline(r)
    PROVE  Effect(r)
<1>1. CASE Refuse(r)
  BY <1>1, RefuseKeeps
<1>2. CASE ~Refuse(r)
  BY <1>2, DeletingKeeps DEF decline, At, IsAsked
<1> QED BY <1>1, <1>2

LEMMA cancelRequestKeeps ==
    ASSUME ConversationInvariant, NEW r \in Requests, cancelRequest(r)
    PROVE  Effect(r)
<1>1. CASE Refuse(r)
  BY <1>1, RefuseKeeps
<1>2. CASE ~Refuse(r)
  <2>1. r.message \in Nat
    BY RequestsAreCommands DEF Commands
  <2> QED BY <1>2, <2>1, DeletingKeeps DEF cancelRequest, At, HasAsked
<1> QED BY <1>1, <1>2

(* A mark on a message is no news of the conversation. *)
LEMMA MarkingKeeps ==
    ASSUME ConversationInvariant, NEW r \in Requests, NEW m \in Nat, r.op \notin {"initiate", "send"},
           Finish(r, "done", m), Remarked(message'), conversation' = conversation, archived' = archived
    PROVE  Effect(r)
<1>1. RowsGo(r) /\ Open' = Open /\ Stored' = Stored /\ Live' = Live /\ DOMAIN message' = DOMAIN message
  BY RemarkedRows
<1>2. OnlyOneMoves(r)
  BY DoneKeeps
<1>3. CourseGoes
  BY <1>1 DEF CourseGoes, ConversationInvariant, TypeOK
<1>4. \A n \in DOMAIN message : message'[n].sender = message[n].sender /\ message'[n].state = message[n].state
  BY DEF Remarked
<1>5. RequestIsOneMessage'
  BY <1>1, <1>4 DEF RequestIsOneMessage, ConversationInvariant, Stored
<1>6. RequestsAreSeen'
  BY DEF RequestsAreSeen, ConversationInvariant
<1>7. AnswerStands
  BY <1>4 DEF AnswerStands, Stored
<1> QED BY <1>1, <1>2, <1>3, <1>5, <1>6, <1>7 DEF Effect

LEMMA markReadKeeps ==
    ASSUME ConversationInvariant, NEW r \in Requests, markRead(r)
    PROVE  Effect(r)
<1>1. CASE Refuse(r)
  BY <1>1, RefuseKeeps
<1>2. CASE ~Refuse(r)
  <2>1. /\ r.op = "markRead" /\ message' = WithRead(1..r.message, r.user)
        /\ conversation' = conversation /\ archived' = archived /\ Finish(r, "done", 0)
    BY <1>2 DEF markRead, Arrives
  <2>2. Remarked(message')
    BY <2>1, ReadingMarks
  <2> QED BY <2>1, <2>2, MarkingKeeps
<1> QED BY <1>1, <1>2

LEMMA recallMessageKeeps ==
    ASSUME ConversationInvariant, NEW r \in Requests, recallMessage(r)
    PROVE  Effect(r)
<1>1. CASE Refuse(r)
  BY <1>1, RefuseKeeps
<1>2. CASE ~Refuse(r)
  <2>1. /\ r.op = "recall" /\ r.message \in Stored /\ message' = [message EXCEPT ![r.message].recalled = TRUE]
        /\ conversation' = conversation /\ archived' = archived /\ Finish(r, "done", r.message)
    BY <1>2 DEF recallMessage, At
  <2>2. r.message \in Nat
    BY RequestsAreCommands DEF Commands
  <2>3. message \in Seq(MessageRows)
    BY DEF ConversationInvariant, TypeOK
  <2>4. \A m \in DOMAIN message : message[m] \in MessageRows /\ [message[m] EXCEPT !.recalled = TRUE] \in MessageRows
    BY <2>3, RowNumbers, RowWithMark
  <2>5. /\ DOMAIN message' = DOMAIN message /\ message' = [m \in DOMAIN message |-> message'[m]]
        /\ \A m \in DOMAIN message : message'[m] = message[m] \/ message'[m] = [message[m] EXCEPT !.recalled = TRUE]
    BY <2>1, <2>3
  <2>6. \A m \in DOMAIN message : message'[m] \in MessageRows
    BY <2>4, <2>5
  <2>7. message' \in Seq(MessageRows)
    BY <2>3, <2>5, <2>6, RowsChanged
  <2>8. \A m \in DOMAIN message : /\ message'[m].sender = message[m].sender /\ message'[m].key = message[m].key
                                  /\ message'[m].state = message[m].state
    BY <2>4, <2>5 DEF MessageRows
  <2>9. Remarked(message')
    BY <2>5, <2>7, <2>8 DEF Remarked
  <2> QED BY <2>1, <2>2, <2>9, MarkingKeeps
<1> QED BY <1>1, <1>2

(* A row is added. *)
LEMMA NewRow ==
    ASSUME ConversationInvariant, NEW r \in Requests, NEW state \in {"open", "stored"},
           NEW rows, Remarked(rows), message' = Append(rows, NewMessage(r, state)),
           \A n \in Live : ~IsOf(n, r)
    PROVE  LET new == Len(message) + 1
           IN  /\ RowsGo(r) /\ DOMAIN message' = DOMAIN message \cup {new} /\ new \notin DOMAIN message
               /\ new \in Nat
               /\ message'[new].sender = r.user /\ message'[new].key = r.key
               /\ Open' = Open \cup (IF state = "open" THEN {new} ELSE {})
               /\ Stored' = Stored \cup (IF state = "stored" THEN {new} ELSE {})
<1> DEFINE new == Len(message) + 1
           row == NewMessage(r, state)
<1>1. row \in MessageRows /\ row.sender = r.user /\ row.key = r.key /\ row.state = state
  BY RequestsAreCommands DEF NewMessage, MessageRows, Commands
<1>2. message \in Seq(MessageRows) /\ rows \in Seq(MessageRows) /\ DOMAIN rows = DOMAIN message
  BY DEF ConversationInvariant, TypeOK, Remarked
<1>3. Len(rows) = Len(message) /\ new \notin DOMAIN message /\ new \in Nat
  BY <1>2, RowNumbers
<1> HIDE DEF row
<1>4. message' = Append(rows, row)
  BY DEF row
<1>5. /\ message' \in Seq(MessageRows) /\ DOMAIN message' = DOMAIN message \cup {new}
      /\ message'[new] = row /\ \A m \in DOMAIN message : message'[m] = rows[m]
  BY <1>1, <1>2, <1>3, <1>4, RowsWithOneMore
<1> HIDE DEF new
<1>6. \A m \in DOMAIN message :
        /\ message'[m].sender = message[m].sender /\ message'[m].key = message[m].key
        /\ message'[m].state = message[m].state
  BY <1>5 DEF Remarked
<1>7. Open' = Open \cup (IF state = "open" THEN {new} ELSE {})
  BY <1>1, <1>3, <1>5, <1>6 DEF Open
<1>8. Stored' = Stored \cup (IF state = "stored" THEN {new} ELSE {})
  BY <1>1, <1>3, <1>5, <1>6 DEF Stored
<1>9. RowsGo(r)
  <2>1. \A m \in DOMAIN message : (m \in Open' => m \in Open) /\ (m \in Live' => m \in Live)
    BY <1>5, <1>6 DEF Open, Live
  <2>2. \A m \in Open : m \in Open'
    BY <1>7
  <2>3. \A m \in DOMAIN message' \ DOMAIN message : m = new /\ message'[m].sender = r.user /\ message'[m].key = r.key
    BY <1>1, <1>5
  <2> QED BY <1>5, <1>6, <2>1, <2>2, <2>3 DEF RowsGo, IsOf, new
<1> QED BY <1>1, <1>3, <1>5, <1>7, <1>8, <1>9 DEF new

LEMMA SameRowsAreRemarked ==
    ASSUME ConversationInvariant
    PROVE  Remarked(message)
  BY DEF Remarked, ConversationInvariant, TypeOK

(* The first message of a conversation, or the one that moves it on.       *)
LEMMA FirstWordKeeps ==
    ASSUME ConversationInvariant, NEW r \in Requests, r.op = "initiate",
           NEW rows, Remarked(rows), message' = Append(rows, NewMessage(r, "stored")),
           conversation' = [status |-> seen[r].next, requester |-> r.user, last |-> Len(message) + 1],
           Finish(r, "done", Len(message) + 1),
           seen[r].next \in {"PENDING", "ACCEPTED"},
           archived' = {},
           conversation.status # "ACCEPTED",
           conversation.status # "NONE" =>
             /\ conversation.status \in {"PENDING", "DECLINED"} => conversation.requester # r.user
             /\ seen[r].next = "PENDING" =>
                  conversation.status = "CANCELED" /\ conversation.requester = r.user
    PROVE  Effect(r)
<1> DEFINE new == Len(message) + 1
<1>1. Open = {} /\ conversation \in Conversations /\ message \in Seq(MessageRows) /\ r.user \in Users
  BY RequestsAreCommands DEF ConversationInvariant, TypeOK, Commands
<1>2. conversation.status \in Statuses /\ conversation.requester \in Users
  BY <1>1 DEF Conversations
<1>3. conversation.status # "PENDING" => Stored = {}
  BY <1>2 DEF ConversationInvariant, RequestIsOneMessage, Statuses
<1>4. \A m \in Live : ~IsOf(m, r)
  <2>1. \A m \in Live : m \in Stored
    <3>1. \A m \in DOMAIN message : message[m].state \in {"open", "stored", "deleted"}
      BY <1>1, RowNumbers DEF MessageRows
    <3> QED BY <1>1, <3>1 DEF Live, Stored, Open
  <2>2. CASE conversation.status = "PENDING"
    BY <2>1, <2>2 DEF ConversationInvariant, RequestIsOneMessage, IsOf
  <2> QED BY <1>3, <2>1, <2>2
<1>5. /\ RowsGo(r) /\ DOMAIN message' = DOMAIN message \cup {new} /\ new \notin DOMAIN message
      /\ new \in Nat /\ message'[new].sender = r.user /\ message'[new].key = r.key
      /\ Open' = Open /\ Stored' = Stored \cup {new}
  BY <1>4, NewRow
<1> HIDE DEF new
<1>6. /\ conversation' \in Conversations /\ conversation'.status = seen[r].next
      /\ conversation'.requester = r.user /\ conversation'.last = new
  BY <1>1, <1>5 DEF Conversations, Statuses, new
<1>7. OnlyOneMoves(r)
  <2>1. Finish(r, "done", new)
    BY DEF new
  <2> QED BY <1>1, <1>5, <2>1, FinishMoves DEF Outcomes
<1>8. CourseGoes
  BY <1>1, <1>5, <1>6 DEF CourseGoes
<1>9. RequestIsOneMessage'
  <2>1. CASE seen[r].next = "ACCEPTED"
    BY <1>6, <2>1 DEF RequestIsOneMessage
  <2>2. CASE seen[r].next = "PENDING"
    <3>1. Stored = {}
      BY <1>3, <2>2
    <3>2. Stored' = {new}
      BY <1>5, <3>1
    <3> QED BY <1>5, <1>6, <2>2, <3>2 DEF RequestIsOneMessage
  <2> QED BY <2>1, <2>2
<1>10. RequestsAreSeen'
  BY <1>6 DEF RequestsAreSeen
<1>11. AnswerStands
  <2>1. conversation.status = "DECLINED" => r.user = recipient /\ seen[r].next = "ACCEPTED"
    BY <1>1, <1>2, TheOther DEF recipient
  <2>2. \A m \in DOMAIN message' \ DOMAIN message : message'[m].sender = r.user
    BY <1>5
  <2> QED BY <1>6, <2>1, <2>2 DEF AnswerStands
<1> QED BY <1>5, <1>7, <1>8, <1>9, <1>10, <1>11 DEF Effect

LEMMA createConversationKeeps ==
    ASSUME ConversationInvariant, NEW r \in Requests, createConversation(r)
    PROVE  Effect(r)
<1>0. r.op = "initiate" /\ seen[r].plan = "create"
  BY DEF createConversation, At
<1>1. CASE conversation.status # "NONE"
  <2>1. Goto(r, "new", [NoSight EXCEPT !.again = TRUE]) /\ UNCHANGED contentVars
    BY <1>1 DEF createConversation
  <2> DEFINE sight == [NoSight EXCEPT !.again = TRUE]
  <2>2. sight \in Sights /\ sight.plan = ""
    BY NoSightIsSight
  <2>3. Goto(r, "new", sight)
    BY <2>1
  <2> HIDE DEF sight
  <2> QED BY <1>0, <2>1, <2>2, <2>3, GoingOnKeeps
<1>2. CASE conversation.status = "NONE"
  <2>1. /\ conversation' = [status |-> seen[r].next, requester |-> r.user, last |-> Len(message) + 1]
        /\ message' = Append(message, NewMessage(r, "stored"))
        /\ archived' = archived /\ Finish(r, "done", Len(message) + 1)
    BY <1>2 DEF createConversation
  <2>2. seen[r].next \in {"PENDING", "ACCEPTED"} /\ archived = {}
    BY <1>0, <1>2 DEF ConversationInvariant, SightFits, RequestsAreSeen
  <2> QED BY <1>0, <1>2, <2>1, <2>2, SameRowsAreRemarked, FirstWordKeeps
<1> QED BY <1>1, <1>2

LEMMA transitionAndSendKeeps ==
    ASSUME ConversationInvariant, NEW r \in Requests, transitionAndSend(r)
    PROVE  Effect(r)
<1>1. CASE Refuse(r)
  BY <1>1, RefuseKeeps
<1>2. CASE ~Refuse(r)
  <2> DEFINE rows == IF seen[r].markRead THEN WithRead(Stored, r.user) ELSE message
  <2>1. /\ r.op = "initiate" /\ seen[r].plan = "move" /\ conversation.status = seen[r].status
        /\ conversation' = [status |-> seen[r].next, requester |-> r.user, last |-> Len(message) + 1]
        /\ message' = Append(rows, NewMessage(r, "stored"))
        /\ archived' = {} /\ Finish(r, "done", Len(message) + 1)
    BY <1>2 DEF transitionAndSend, At, AsExpected
  <2>2. Remarked(rows)
    BY ReadingMarks, SameRowsAreRemarked
  <2>3. seen[r].next \in {"PENDING", "ACCEPTED"} /\ MoveFits(r)
    BY <2>1 DEF ConversationInvariant, SightFits
  <2>4. /\ conversation.status # "ACCEPTED"
        /\ conversation.status \in {"PENDING", "DECLINED"} => conversation.requester # r.user
        /\ seen[r].next = "PENDING" => conversation.status = "CANCELED" /\ conversation.requester = r.user
    BY <2>1, <2>3 DEF MoveFits
  <2> HIDE DEF rows
  <2> QED BY <2>1, <2>2, <2>3, <2>4, FirstWordKeeps
<1> QED BY <1>1, <1>2

LEMMA insertMessageKeeps ==
    ASSUME ConversationInvariant, NEW r \in Requests, insertMessage(r)
    PROVE  Effect(r)
<1>0. /\ pc[r] = "checked" /\ seen[r].plan = "send" /\ conversation.status = "ACCEPTED"
      /\ r.op \in {"initiate", "send"} /\ ~KeyIsOpen(r)
  BY DEF insertMessage, ConversationInvariant, SightFits
<1>1. CASE AnswerDuplicate(r)
  BY <1>1, AnswerDuplicateKeeps
<1>2. CASE ~AnswerDuplicate(r)
  <2> DEFINE new == Len(message) + 1
  <2>1. /\ Duplicates(r) = {} /\ message' = Append(message, NewMessage(r, "open"))
        /\ pc' = [pc EXCEPT ![r] = "inserted"] /\ answer' = [answer EXCEPT ![r] = new]
        /\ plot' = plot /\ UNCHANGED relationVars /\ conversation' = conversation
        /\ archived' = archived /\ seen' = seen
    BY <1>2 DEF insertMessage
  <2>2. \A m \in Live : ~IsOf(m, r)
    <3>1. \A m \in DOMAIN message : message[m].state \in {"open", "stored", "deleted"}
      BY RowNumbers DEF MessageRows, ConversationInvariant, TypeOK
    <3> QED BY <1>0, <2>1, <3>1 DEF Live, IsOf, Duplicates, KeyIsOpen, Stored, Open
  <2>3. /\ RowsGo(r) /\ DOMAIN message' = DOMAIN message \cup {new} /\ new \notin DOMAIN message
        /\ new \in Nat /\ message'[new].sender = r.user /\ message'[new].key = r.key
        /\ Open' = Open \cup {new} /\ Stored' = Stored
    BY <2>1, <2>2, SameRowsAreRemarked, NewRow
  <2> HIDE DEF new
  <2>4. /\ pc' \in [Requests -> Places] /\ seen' \in [Requests -> Sights] /\ answer' \in [Requests -> Nat]
        /\ pc'[r] = "inserted" /\ answer'[r] = new
        /\ \A s \in Requests \ {r} : pc'[s] = pc[s] /\ answer'[s] = answer[s]
    BY <2>1, <2>3 DEF ConversationInvariant, TypeOK, Shapes, Places
  <2>5. SightFits(r)' /\ AnswerFits(r)'
    BY <1>0, <2>1, <2>3, <2>4 DEF SightFits, AnswerFits, Sent, IsOf
  <2>6. OnlyOneMoves(r)
    BY <2>1, <2>3, <2>4, <2>5 DEF OnlyOneMoves, relationVars, RelationsOK, ConversationInvariant, TypeOK
  <2>7. CourseGoes
    <3>1. conversation.last \in DOMAIN message
      BY <1>0 DEF ConversationInvariant, TypeOK
    <3> QED BY <1>0, <2>1, <2>3, <3>1 DEF CourseGoes, ConversationInvariant, TypeOK
  <2>8. RequestIsOneMessage' /\ RequestsAreSeen'
    BY <1>0, <2>1 DEF RequestIsOneMessage, RequestsAreSeen
  <2>9. AnswerStands
    <3>1. \A m \in Stored : message'[m].state = "stored"
      BY <2>3 DEF Stored
    <3> QED BY <1>0, <2>1, <3>1 DEF AnswerStands
  <2> QED BY <2>3, <2>6, <2>7, <2>8, <2>9 DEF Effect
<1> QED BY <1>1, <1>2

LEMMA commitMessageKeeps ==
    ASSUME ConversationInvariant, NEW r \in Requests, commitMessage(r)
    PROVE  Effect(r)
<1> DEFINE own == answer[r]
<1>1. /\ pc[r] = "inserted" /\ message' = [message EXCEPT ![own].state = "stored"]
      /\ conversation' = [conversation EXCEPT !.last = own] /\ archived' = {} /\ Finish(r, "done", own)
  BY DEF commitMessage
<1>2. own \in Open /\ IsOf(own, r) /\ conversation.status = "ACCEPTED" /\ own \in Nat
  BY <1>1 DEF ConversationInvariant, AnswerFits, SightFits, Shapes
<1>3. message \in Seq(MessageRows) /\ own \in DOMAIN message
  BY <1>2 DEF ConversationInvariant, TypeOK, Open
<1> HIDE DEF own
<1>4. /\ DOMAIN message' = DOMAIN message /\ message' = [m \in DOMAIN message |-> message'[m]]
      /\ \A m \in DOMAIN message : message'[m] = IF m = own THEN [message[m] EXCEPT !.state = "stored"] ELSE message[m]
  BY <1>1, <1>3
<1>5. \A m \in DOMAIN message : message[m] \in MessageRows /\ [message[m] EXCEPT !.state = "stored"] \in MessageRows
  BY <1>3, RowNumbers, RowWithMark
<1>6. message' \in Seq(MessageRows)
  BY <1>3, <1>4, <1>5, RowsChanged
<1>7. \A m \in DOMAIN message :
        /\ message'[m].sender = message[m].sender /\ message'[m].key = message[m].key
        /\ message'[m].state = IF m = own THEN "stored" ELSE message[m].state
  BY <1>4, <1>5 DEF MessageRows
<1>8. Open' = Open \ {own}
  BY <1>4, <1>7 DEF Open
<1>9. RowsGo(r)
  <2>1. DOMAIN message' \ DOMAIN message = {}
    BY <1>4
  <2>2. \A m \in DOMAIN message : m \in Live' => m \in Live
    BY <1>2, <1>4, <1>7 DEF Live, Open
  <2>3. \A m \in Open : m \in Open' \/ (pc[r] = "inserted" /\ m = answer[r])
    BY <1>1, <1>8 DEF own
  <2> QED BY <1>4, <1>6, <1>7, <1>8, <2>1, <2>2, <2>3 DEF RowsGo
<1>10. /\ conversation' \in Conversations /\ conversation'.status = "ACCEPTED" /\ conversation'.last = own
  BY <1>1, <1>2 DEF ConversationInvariant, TypeOK, Conversations
<1>11. CourseGoes
  BY <1>1, <1>2, <1>3, <1>4, <1>10 DEF CourseGoes
<1>12. OnlyOneMoves(r)
  <2>1. own \in DOMAIN message' /\ own \notin Open' /\ message'[own].sender = r.user /\ message'[own].key = r.key
    BY <1>2, <1>3, <1>4, <1>7, <1>8 DEF IsOf
  <2> QED BY <1>1, <1>2, <2>1, FinishMoves DEF Outcomes
<1>13. RequestIsOneMessage' /\ RequestsAreSeen'
  BY <1>10 DEF RequestIsOneMessage, RequestsAreSeen
<1>14. AnswerStands
  <2>1. \A m \in Stored : message'[m].state = "stored"
    BY <1>7 DEF Stored
  <2> QED BY <1>2, <1>10, <2>1 DEF AnswerStands
<1> QED BY <1>9, <1>11, <1>12, <1>13, <1>14 DEF Effect

-------------------------------------------------------------------------------
(* The invariant *)

LEMMA InitConversation == Init => ConversationInvariant
<1> SUFFICES ASSUME Init PROVE ConversationInvariant
  OBVIOUS
<1>1. plot \in Plots /\ BeginsWell(plot)
  BY DirectMessagesAssumption DEF Init
<1>2. /\ conversation = plot.conversation /\ message = plot.messages /\ archived = plot.archived
      /\ follows = plot.follows /\ blocks = {} /\ gone = {}
      /\ pc = [r \in Requests |-> "new"] /\ seen = [r \in Requests |-> NoSight]
      /\ answer = [r \in Requests |-> 0]
  BY DEF Init
<1>3. Open = {}
  BY <1>1, <1>2 DEF Open, BeginsWell
<1>4. conversation \in Conversations /\ conversation.status \in Statuses
  BY <1>1, <1>2 DEF BeginsWell, Conversations
<1>5. TypeOK
  <2>1. RelationsOK
    BY <1>1, <1>2 DEF RelationsOK, BeginsWell
  <2>2. conversation.last \in DOMAIN message <=> conversation.status \in {"PENDING", "ACCEPTED"}
    BY <1>1, <1>2, <1>4 DEF BeginsWell, Statuses
  <2>3. message \in Seq(MessageRows) /\ archived \subseteq Users
    BY <1>1, <1>2 DEF BeginsWell
  <2> QED BY <1>2, <1>3, <1>4, <2>1, <2>2, <2>3 DEF TypeOK, Places
<1>6. Shapes
  BY <1>1, <1>2, NoSightIsSight DEF Shapes
<1>7. RequestIsOneMessage
  BY <1>1, <1>2 DEF RequestIsOneMessage, BeginsWell, Stored
<1>8. RequestsAreSeen
  BY <1>1, <1>2 DEF RequestsAreSeen, BeginsWell
<1>9. KeysAreSingle
  <2>1. \A m \in DOMAIN message : message[m].state \in {"open", "stored", "deleted"}
    BY <1>5, RowNumbers DEF TypeOK, MessageRows
  <2>2. \A m \in Live : m \in DOMAIN message /\ message[m].state = "stored"
    BY <1>3, <2>1 DEF Live, Open
  <2> QED BY <1>1, <1>2, <2>2 DEF KeysAreSingle, BeginsWell
<1>10. \A r \in Requests : SightFits(r) /\ AnswerFits(r)
  BY <1>2, NoSightIsSight DEF SightFits, AnswerFits, Sent
<1> QED BY <1>2, <1>5, <1>6, <1>7, <1>8, <1>9, <1>10 DEF ConversationInvariant

(* Every step of a request has its effect, and keeps the answers.          *)
LEMMA StepHasEffect ==
    ASSUME ConversationInvariant, NEW r \in Requests,
           \/ readInitiate(r) \/ readSend(r) \/ check(r)
           \/ createConversation(r) \/ transitionAndSend(r) \/ insertMessage(r) \/ commitMessage(r)
           \/ readAccept(r) \/ accept(r) \/ readDecline(r) \/ decline(r)
           \/ readRecall(r) \/ lookRecall(r) \/ cancelRequest(r) \/ recallMessage(r)
           \/ readArchive(r) \/ setArchived(r) \/ markRead(r)
           \/ relate(r)
    PROVE  Effect(r)
  BY readInitiateKeeps, readSendKeeps, checkKeeps, createConversationKeeps, transitionAndSendKeeps,
     insertMessageKeeps, commitMessageKeeps, readAcceptKeeps, acceptKeeps, readDeclineKeeps, declineKeeps,
     readRecallKeeps, lookRecallKeeps, cancelRequestKeeps, recallMessageKeeps, readArchiveKeeps,
     setArchivedKeeps, markReadKeeps, relateKeeps

LEMMA NextConversation ==
    ConversationInvariant /\ [Next]_vars => ConversationInvariant' /\ (AnswerStands \/ UNCHANGED vars)
<1> SUFFICES ASSUME ConversationInvariant, [Next]_vars
             PROVE  ConversationInvariant' /\ (AnswerStands \/ UNCHANGED vars)
  OBVIOUS
<1>1. CASE Next
  <2>1. PICK r \in Requests : Effect(r)
    BY <1>1, StepHasEffect DEF Next
  <2> QED BY <2>1, EffectKeeps DEF Effect
<1>2. CASE UNCHANGED vars
  <2>1. /\ plot' = plot /\ follows' = follows /\ blocks' = blocks /\ gone' = gone
        /\ conversation' = conversation /\ message' = message /\ archived' = archived
        /\ pc' = pc /\ seen' = seen /\ answer' = answer
    BY <1>2 DEF vars, relationVars, contentVars, requestVars
  <2>2. TypeOK' /\ Shapes'
    BY <2>1 DEF TypeOK, Shapes, RelationsOK, Open, ConversationInvariant
  <2>3. RequestIsOneMessage' /\ RequestsAreSeen' /\ KeysAreSingle'
    BY <2>1 DEF RequestIsOneMessage, RequestsAreSeen, KeysAreSingle, Stored, Live, ConversationInvariant
  <2>4. ASSUME NEW r \in Requests
        PROVE  SightFits(r)' /\ AnswerFits(r)'
    <3>1. SightFits(r) /\ AnswerFits(r)
      BY DEF ConversationInvariant
    <3>2. MoveFits(r)' = MoveFits(r)
      BY <2>1 DEF MoveFits
    <3>3. SightFits(r)'
      BY <2>1, <3>1, <3>2 DEF SightFits
    <3>4. Open' = Open /\ IsOf(answer[r], r)' = IsOf(answer[r], r) /\ Sent(r)' = Sent(r)
      BY <2>1 DEF Open, IsOf, Sent
    <3>5. AnswerFits(r)'
      BY <2>1, <3>1, <3>4 DEF AnswerFits, IsOf
    <3> QED BY <3>3, <3>5
  <2> QED BY <1>2, <2>1, <2>2, <2>3, <2>4 DEF ConversationInvariant
<1> QED BY <1>1, <1>2

(* The invariant of the conversation and of the requests under way.        *)
THEOREM ConversationIsSound == Spec => []ConversationInvariant
BY InitConversation, NextConversation, PTL DEF Spec

-------------------------------------------------------------------------------
(* What follows from it *)

(* Offers are computed from the same rows as the checks.                   *)
LEMMA OffersHold == ConversationInvariant => OffersAreAccepted
<1> SUFFICES ASSUME ConversationInvariant PROVE OffersAreAccepted
  OBVIOUS
<1> SUFFICES ASSUME NEW r \in Requests
             PROVE  /\ CanInitiate(r.user) => MayInitiate(r)
                    /\ Sees(r.user) /\ Card(r.user).canSend => Writable(r) /\ conversation.status = "ACCEPTED"
                    /\ Sees(r.user) /\ Card(r.user).canAccept => Writable(r) /\ IsAsked(r.user)
  <2>1. plot \in Plots
    BY DEF ConversationInvariant, Shapes
  <2>2. plot.requests \subseteq Requests
    BY <2>1 DEF Requests
  <2> QED BY <2>2 DEF OffersAreAccepted
<1>1. r.user \in Users /\ conversation.requester \in Users
  BY RequestsAreCommands DEF Commands, ConversationInvariant, TypeOK, Conversations
<1>2. CanInitiate(r.user) => MayInitiate(r)
  BY <1>1, TheOther DEF CanInitiate, MayInitiate, Writable, recipient
<1>3. /\ Card(r.user).canSend <=> conversation.status = "ACCEPTED" /\ Other(r.user) \notin gone
      /\ Card(r.user).canAccept <=> IsAsked(r.user) /\ Other(r.user) \notin gone
  BY DEF Card
<1> QED BY <1>2, <1>3 DEF Sees, Writable

LEMMA BadgeHolds == ConversationInvariant => BadgeIsWhatIsListed
<1> SUFFICES ASSUME ConversationInvariant PROVE BadgeIsWhatIsListed
  OBVIOUS
<1> SUFFICES ASSUME NEW u \in Users
             PROVE  /\ UnreadCount(u).messages =
                          IF Lists(u, "INBOX") \/ Lists(u, "ARCHIVED") THEN Card(u).unread ELSE 0
                    /\ UnreadCount(u).requests = 1 <=> Lists(u, "REQUESTS")
                    /\ \A v, w \in Views : Lists(u, v) /\ Lists(u, w) /\ "REQUESTS" \notin {v, w} => v = w
                    /\ Lists(u, "REQUESTS") => Card(u).newest # {} /\ Card(u).canDecline
  BY DEF BadgeIsWhatIsListed
<1>1. /\ UnreadCount(u).messages = IF Sees(u) /\ conversation.status = "ACCEPTED" THEN Cardinality(Unread(u)) ELSE 0
      /\ UnreadCount(u).requests = IF Sees(u) /\ IsAsked(u) THEN 1 ELSE 0
  BY DEF UnreadCount
<1>2. /\ Card(u).unread = IF conversation.status = "ACCEPTED" THEN Cardinality(Unread(u)) ELSE 0
      /\ Card(u).newest = IF Stored = {} THEN {} ELSE {Shown(Max(Stored))}
      /\ Card(u).canDecline <=> IsAsked(u)
  BY DEF Card
<1>3. Lists(u, "INBOX") \/ Lists(u, "ARCHIVED") <=>
        Sees(u) /\ (conversation.status = "ACCEPTED" \/ HasAsked(u))
  BY DEF Lists
<1>4. HasAsked(u) => conversation.status # "ACCEPTED"
  BY DEF HasAsked
<1>5. IsAsked(u) => u \notin archived /\ Stored # {}
  <2>1. conversation.requester \in Users
    BY DEF ConversationInvariant, TypeOK, Conversations
  <2> QED BY <2>1, TheOther DEF IsAsked, recipient, ConversationInvariant, RequestsAreSeen, RequestIsOneMessage
<1>6. Lists(u, "REQUESTS") <=> Sees(u) /\ IsAsked(u)
  BY <1>5 DEF Lists
<1>7. \A v, w \in Views : Lists(u, v) /\ Lists(u, w) /\ "REQUESTS" \notin {v, w} => v = w
  BY DEF Lists, Views
<1>8. UnreadCount(u).messages = IF Lists(u, "INBOX") \/ Lists(u, "ARCHIVED") THEN Card(u).unread ELSE 0
  BY <1>1, <1>2, <1>3, <1>4
<1> QED BY <1>1, <1>2, <1>5, <1>6, <1>7, <1>8

(* A page after an anchor: if it is not all there is, the next one begins  *)
(* with the first message it leaves out.                                   *)
LEMMA PageUp ==
    ASSUME NEW M \in SUBSET Int, IsFiniteSet(M), Page(M, TRUE).hasMore
    PROVE  LET items == Page(M, TRUE).items
               rest == {m \in M : m > Max(items)}
           IN  /\ items \subseteq M /\ items # {} /\ IsFiniteSet(rest) /\ rest # {}
               /\ Page(M, TRUE).cursor = Max(items)
               /\ Min(Page(rest, TRUE).items) = Min(rest)
<1> DEFINE items == {m \in M : Cardinality({n \in M : n < m}) < PageSize}
           rest == {m \in M : m > Max(items)}
           next == {m \in rest : Cardinality({n \in rest : n < m}) < PageSize}
<1>0. PageSize \in Nat \ {0} /\ PageSize \in Nat
  BY DirectMessagesAssumption
<1>1. /\ Page(M, TRUE).items = items /\ (Page(M, TRUE).hasMore <=> items # M)
      /\ Page(M, TRUE).cursor = IF items = {} THEN 0 ELSE Max(items)
      /\ Page(rest, TRUE).items = next
  BY DEF Page
<1>2. IsFiniteSet(items) /\ items \subseteq M /\ IsFiniteSet(rest) /\ rest \in SUBSET Int /\ items \in SUBSET Int
  BY FS_Subset
<1>3. M # {}
  BY <1>1
<1>4. Min(M) \in M /\ \A m \in M : Min(M) <= m
  BY <1>3, MinOfFinite
<1>5. Cardinality({n \in M : n < Min(M)}) < PageSize
  BY <1>0, <1>4, LeastIsFirst
<1>6. items # {}
  BY <1>4, <1>5
<1>7. Max(items) \in items /\ \A m \in items : Max(items) >= m
  BY <1>2, <1>6, MaxOfFinite
<1>8. PICK m \in M : m \notin items
  BY <1>1
<1>9. m > Max(items)
  <2> DEFINE end == Max(items)
  <2>1. end \in items /\ end \in M /\ Cardinality({n \in M : n < end}) < PageSize
    BY <1>7
  <2>2. m \in Int /\ end \in Int /\ m # end
    BY <1>2, <1>8, <2>1
  <2> HIDE DEF end
  <2>4. ASSUME m < end PROVE FALSE
    <3>1. Cardinality({n \in M : n < m}) < PageSize
      BY <1>0, <2>1, <2>4, FirstOnesArePrefix
    <3> QED BY <1>8, <3>1
  <2>5. m > end
    BY <2>2, <2>4
  <2> QED BY <2>5 DEF end
<1>10. rest # {}
  BY <1>9
<1>11. Min(rest) \in rest /\ \A n \in rest : Min(rest) <= n
  BY <1>2, <1>10, MinOfFinite
<1>12. Cardinality({n \in rest : n < Min(rest)}) < PageSize
  BY <1>0, <1>2, <1>11, LeastIsFirst
<1>13. Min(rest) \in next /\ next \subseteq rest /\ IsFiniteSet(next) /\ next \in SUBSET Int
  BY <1>2, <1>11, <1>12, FS_Subset
<1>14. Min(next) \in next /\ \A n \in next : Min(next) <= n
  BY <1>13, MinOfFinite
<1>15. Min(next) = Min(rest)
  <2>1. Min(next) <= Min(rest) /\ Min(rest) <= Min(next) /\ Min(next) \in Int /\ Min(rest) \in Int
    BY <1>2, <1>11, <1>13, <1>14
  <2> QED BY <2>1
<1> HIDE DEF items, rest, next
<1> QED BY <1>1, <1>2, <1>6, <1>10, <1>15 DEF items, rest

(* The same for a page before an anchor.                                   *)
LEMMA PageDown ==
    ASSUME NEW M \in SUBSET Int, IsFiniteSet(M), Page(M, FALSE).hasMore
    PROVE  LET items == Page(M, FALSE).items
               rest == {m \in M : m < Min(items)}
           IN  /\ items \subseteq M /\ items # {} /\ IsFiniteSet(rest) /\ rest # {}
               /\ Page(M, FALSE).cursor = Min(items)
               /\ Max(Page(rest, FALSE).items) = Max(rest)
<1> DEFINE items == {m \in M : Cardinality({n \in M : n > m}) < PageSize}
           rest == {m \in M : m < Min(items)}
           next == {m \in rest : Cardinality({n \in rest : n > m}) < PageSize}
<1>0. PageSize \in Nat \ {0} /\ PageSize \in Nat
  BY DirectMessagesAssumption
<1>1. /\ Page(M, FALSE).items = items /\ (Page(M, FALSE).hasMore <=> items # M)
      /\ Page(M, FALSE).cursor = IF items = {} THEN 0 ELSE Min(items)
      /\ Page(rest, FALSE).items = next
  BY DEF Page
<1>2. IsFiniteSet(items) /\ items \subseteq M /\ IsFiniteSet(rest) /\ rest \in SUBSET Int /\ items \in SUBSET Int
  BY FS_Subset
<1>3. M # {}
  BY <1>1
<1>4. Max(M) \in M /\ \A m \in M : Max(M) >= m
  BY <1>3, MaxOfFinite
<1>5. Cardinality({n \in M : n > Max(M)}) < PageSize
  BY <1>0, <1>4, GreatestIsLast
<1>6. items # {}
  BY <1>4, <1>5
<1>7. Min(items) \in items /\ \A m \in items : Min(items) <= m
  BY <1>2, <1>6, MinOfFinite
<1>8. PICK m \in M : m \notin items
  BY <1>1
<1>9. m < Min(items)
  <2> DEFINE end == Min(items)
  <2>1. end \in items /\ end \in M /\ Cardinality({n \in M : n > end}) < PageSize
    BY <1>7
  <2>2. m \in Int /\ end \in Int /\ m # end
    BY <1>2, <1>8, <2>1
  <2> HIDE DEF end
  <2>4. ASSUME m > end PROVE FALSE
    <3>1. Cardinality({n \in M : n > m}) < PageSize
      BY <1>0, <2>1, <2>4, LastOnesAreSuffix
    <3> QED BY <1>8, <3>1
  <2>5. m < end
    BY <2>2, <2>4
  <2> QED BY <2>5 DEF end
<1>10. rest # {}
  BY <1>9
<1>11. Max(rest) \in rest /\ \A n \in rest : Max(rest) >= n
  BY <1>2, <1>10, MaxOfFinite
<1>12. Cardinality({n \in rest : n > Max(rest)}) < PageSize
  BY <1>0, <1>2, <1>11, GreatestIsLast
<1>13. Max(rest) \in next /\ next \subseteq rest /\ IsFiniteSet(next) /\ next \in SUBSET Int
  BY <1>2, <1>11, <1>12, FS_Subset
<1>14. Max(next) \in next /\ \A n \in next : Max(next) >= n
  BY <1>13, MaxOfFinite
<1>15. Max(next) = Max(rest)
  <2>1. Max(next) >= Max(rest) /\ Max(rest) >= Max(next) /\ Max(next) \in Int /\ Max(rest) \in Int
    BY <1>2, <1>11, <1>13, <1>14
  <2> QED BY <2>1
<1> HIDE DEF items, rest, next
<1> QED BY <1>1, <1>2, <1>6, <1>10, <1>15 DEF items, rest

LEMMA PagesHold == ConversationInvariant => PagesJoin
<1> SUFFICES ASSUME ConversationInvariant PROVE PagesJoin
  OBVIOUS
<1> SUFFICES ASSUME NEW anchor \in Stored \cup {0}
             PROVE  LET older == Before(anchor)
                        newer == After(anchor)
                    IN  /\ older.hasMore =>
                             Max(Before(older.cursor).items) = Max({m \in Stored : m < Min(older.items)})
                        /\ newer.hasMore =>
                             Min(After(newer.cursor).items) = Min({m \in Stored : m > Max(newer.items)})
                        /\ ~older.hasMore /\ ~newer.hasMore /\ anchor # 0 =>
                             older.items \cup {anchor} \cup newer.items = Stored
  BY DEF PagesJoin
<1> DEFINE below == {m \in Stored : anchor = 0 \/ m < anchor}
           above == {m \in Stored : m > anchor}
<1>1. Stored \in SUBSET Int /\ IsFiniteSet(Stored) /\ \A m \in Stored : m > 0
  <2>1. message \in Seq(MessageRows) /\ Len(message) \in Nat /\ DOMAIN message = 1..Len(message)
    BY RowNumbers DEF ConversationInvariant, TypeOK
  <2>2. Stored \subseteq 1..Len(message)
    BY <2>1 DEF Stored
  <2>3. IsFiniteSet(1..Len(message))
    BY <2>1, FS_Interval
  <2>4. \A m \in 1..Len(message) : m \in Int /\ m > 0
    BY <2>1
  <2>5. IsFiniteSet(Stored)
    BY <2>2, <2>3, FS_Subset
  <2> QED BY <2>2, <2>4, <2>5
<1>2. below \in SUBSET Int /\ IsFiniteSet(below) /\ above \in SUBSET Int /\ IsFiniteSet(above)
  BY <1>1, FS_Subset
<1>3. Before(anchor) = Page(below, FALSE) /\ After(anchor) = Page(above, TRUE)
  BY DEF Before, After
<1>4. anchor \in Int /\ \A m \in Stored : m \in Int
  BY <1>1
<1>5. ASSUME Page(below, FALSE).hasMore
      PROVE  Max(Before(Page(below, FALSE).cursor).items) = Max({m \in Stored : m < Min(Page(below, FALSE).items)})
  <2> DEFINE items == Page(below, FALSE).items
             rest == {m \in below : m < Min(items)}
             least == Min(items)
  <2>1. /\ items \subseteq below /\ items # {} /\ Page(below, FALSE).cursor = least
        /\ Max(Page(rest, FALSE).items) = Max(rest)
    BY <1>2, <1>5, PageDown
  <2>2. least \in below
    <3>1. items \in SUBSET Int /\ IsFiniteSet(items)
      BY <1>2, <2>1, FS_Subset
    <3> QED BY <2>1, <3>1, MinOfFinite
  <2> HIDE DEF least
  <2>3. least \in Int /\ least # 0 /\ least \in Stored /\ (anchor = 0 \/ least < anchor)
    BY <1>1, <2>2
  <2>4. rest = {m \in Stored : m < least}
    <3>1. \A m \in Stored : m < least => anchor = 0 \/ m < anchor
      BY <1>4, <2>3
    <3> QED BY <3>1 DEF least
  <2>5. Before(least) = Page(rest, FALSE)
    BY <2>3, <2>4 DEF Before
  <2> QED BY <2>1, <2>4, <2>5 DEF least
<1>6. ASSUME Page(above, TRUE).hasMore
      PROVE  Min(After(Page(above, TRUE).cursor).items) = Min({m \in Stored : m > Max(Page(above, TRUE).items)})
  <2> DEFINE items == Page(above, TRUE).items
             rest == {m \in above : m > Max(items)}
             most == Max(items)
  <2>1. /\ items \subseteq above /\ items # {} /\ Page(above, TRUE).cursor = most
        /\ Min(Page(rest, TRUE).items) = Min(rest)
    BY <1>2, <1>6, PageUp
  <2>2. most \in above
    <3>1. items \in SUBSET Int /\ IsFiniteSet(items)
      BY <1>2, <2>1, FS_Subset
    <3> QED BY <2>1, <3>1, MaxOfFinite
  <2> HIDE DEF most
  <2>3. most \in Int /\ most > anchor
    BY <1>1, <2>2
  <2>4. rest = {m \in Stored : m > most}
    <3>1. \A m \in Stored : m > most => m > anchor
      BY <1>4, <2>3
    <3> QED BY <3>1 DEF most
  <2>5. After(most) = Page(rest, TRUE)
    BY <2>4 DEF After
  <2> QED BY <2>1, <2>4, <2>5 DEF most
<1>7. ASSUME ~Page(below, FALSE).hasMore, ~Page(above, TRUE).hasMore, anchor # 0
      PROVE  Page(below, FALSE).items \cup {anchor} \cup Page(above, TRUE).items = Stored
  <2>1. Page(below, FALSE).items = below /\ Page(above, TRUE).items = above
    BY <1>7 DEF Page
  <2>2. \A m \in Stored : m < anchor \/ m = anchor \/ m > anchor
    BY <1>4
  <2> HIDE DEF Page
  <2> QED BY <1>7, <2>1, <2>2
<1> HIDE DEF below, above
<1> QED BY <1>3, <1>5, <1>6, <1>7

(* Two users' conversation is what both are shown of it: however requests, *)
(* answers, recalls and archiving interleave, a request is one message of  *)
(* who asks, what is offered the commands accept, the badge counts what    *)
(* the lists show, and pages of any size join.                             *)
THEOREM ConversationIsShown == Spec => []ConversationHolds
<1>1. ConversationInvariant => ConversationHolds
  BY OffersHold, BadgeHolds, PagesHold DEF ConversationInvariant, ConversationHolds
<1> QED BY <1>1, ConversationIsSound, PTL

(* The unique index of (sender, clientRequestId) and the look at it before *)
(* and in the transaction: a repeated request id has one answer, whichever *)
(* of initiate, send and their retries come first.                         *)
THEOREM RequestIdsHaveOneAnswer == Spec => []RepeatsAgree
<1>1. ASSUME ConversationInvariant, NEW r \in Requests, NEW s \in Requests,
             Sent(r), Sent(s), r.user = s.user, r.key = s.key,
             message[answer[r]].state # "deleted", message[answer[s]].state # "deleted"
      PROVE  answer[r] = answer[s]
  <2>1. answer[r] \in Live /\ answer[s] \in Live /\ IsOf(answer[r], r) /\ IsOf(answer[s], s)
    BY <1>1 DEF ConversationInvariant, AnswerFits, Live
  <2> QED BY <1>1, <2>1 DEF ConversationInvariant, KeysAreSingle, IsOf
<1>2. ConversationInvariant => RepeatsAgree
  BY <1>1 DEF RepeatsAgree
<1> QED BY <1>2, ConversationIsSound, PTL

(* Updates that name the status they expect, and a requester who is the    *)
(* same until the acceptance: no late answer, repeated request or          *)
(* cancellation undoes what was accepted or overrides a decline.           *)
THEOREM AnswersAreKept == Spec => AnswersStand
<1>1. ConversationInvariant /\ [Next]_vars => [AnswerStands]_vars
  BY NextConversation
<1> QED BY <1>1, ConversationIsSound, PTL DEF Spec, AnswersStand
===============================================================================
