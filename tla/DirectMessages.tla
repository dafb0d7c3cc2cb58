----------------------------- MODULE DirectMessages ----------------------------
(***************************************************************************)
(* DirectMessagesService: the one conversation of two users, from the      *)
(* request of one of them to the messages both send.                       *)
(*                                                                         *)
(* A command reads and decides outside of its transaction (an action       *)
(* read...); the transaction checks the pair (check), without a lock, and  *)
(* then writes; its updates name the status they expect.  READ COMMITTED.  *)
(* A message to an accepted conversation gets its time of creation when it *)
(* is inserted and is seen when the transaction commits.                   *)
(***************************************************************************)
EXTENDS UserRelations, Integers, Sequences, FiniteSetsExt

CONSTANTS
    Keys,        \* clientRequestIds
    PageSize,    \* bound: of a page of messages
    Plots        \* bound: what there is at first, and who does what

Statuses == {"NONE", "PENDING", "ACCEPTED", "DECLINED", "CANCELED"}

(* The row of the conversation; NONE: there is none yet.                   *)
Conversations == [status : Statuses, requester : Users, last : Nat]

(* Messages in the order of createdAt; an open one is not committed.       *)
MessageRows ==
    [sender : Users, key : Keys, state : {"open", "stored", "deleted"}, read : BOOLEAN, recalled : BOOLEAN]

(* What clients ask for: message is the one that is read or recalled.      *)
Commands == [id : Nat, op : STRING, user : Users, key : Keys, message : Nat, on : BOOLEAN]

PlotFields == {"conversation", "messages", "archived", "follows", "requests"}

(* A plot begins with what the commands leave: messages that are committed, *)
(* one of them for a request, none for what was declined or taken back.    *)
BeginsWell(p) ==
    LET status == p.conversation.status
        silent == {"NONE", "DECLINED", "CANCELED"}
        stored == {m \in DOMAIN p.messages : p.messages[m].state = "stored"}
    IN  /\ p.conversation \in Conversations /\ p.messages \in Seq(MessageRows)
        /\ p.archived \subseteq Users /\ p.follows \subseteq Users \X Users /\ p.requests \subseteq Commands
        /\ p.conversation.last \in DOMAIN p.messages <=> status \notin silent
        /\ \A m \in DOMAIN p.messages : p.messages[m].state # "open"
        /\ status \in silent => stored = {}
        /\ status = "PENDING" =>
             \E m \in stored : stored = {m} /\ p.messages[m].sender = p.conversation.requester
        /\ \A m, n \in stored :
             p.messages[m].sender = p.messages[n].sender /\ p.messages[m].key = p.messages[n].key => m = n
        /\ status = "NONE" => p.archived = {}
        /\ status = "PENDING" => p.archived \subseteq {p.conversation.requester}

ASSUME DirectMessagesAssumption ==
    /\ \A u \in Users : \E v \in Users : Users = {u, v} /\ u # v
    /\ PageSize \in Nat \ {0}
    /\ \A p \in Plots : PlotFields \subseteq DOMAIN p /\ BeginsWell(p)

Requests == UNION {p.requests : p \in Plots}

VARIABLES
    plot,
    conversation,
    message,
    archived,    \* the participants with archivedAt
    pc,          \* pc[r]: new, read, checked, inserted, or the outcome
    seen,        \* seen[r]: what r decided before its transaction
    answer       \* answer[r]: the message r was answered with

contentVars == <<conversation, message, archived>>
requestVars == <<pc, seen, answer>>
vars == <<plot, relationVars, contentVars, requestVars>>

Outcomes == {"done", "refused"}
Places == {"new", "read", "checked", "inserted"} \cup Outcomes

Other(u) == CHOOSE v \in Users : v # u

(* The participant who is not the requester. *)
recipient == Other(conversation.requester)
Stored == {m \in DOMAIN message : message[m].state = "stored"}
Open == {m \in DOMAIN message : message[m].state = "open"}

(* findDuplicate, and the unique index of (sender, clientRequestId).       *)
Duplicates(r) == {m \in Stored : message[m].sender = r.user /\ message[m].key = r.key}
KeyIsOpen(r) == \E m \in Open : message[m].sender = r.user /\ message[m].key = r.key

-------------------------------------------------------------------------------
(* The course of a request *)

(* The plan is to create the conversation, to move it to the next status,  *)
(* or to send to an accepted one; to cancel a request or recall a message. *)
NoSight == [plan |-> "", status |-> "NONE", next |-> "NONE", markRead |-> FALSE, again |-> FALSE]

Goto(r, place, sight) ==
    /\ pc' = [pc EXCEPT ![r] = place]
    /\ seen' = [seen EXCEPT ![r] = sight]
    /\ UNCHANGED <<answer, plot, relationVars>>

Finish(r, outcome, m) ==
    /\ pc' = [pc EXCEPT ![r] = outcome]
    /\ seen' = [seen EXCEPT ![r] = NoSight]
    /\ answer' = [answer EXCEPT ![r] = m]
    /\ UNCHANGED <<plot, relationVars>>

Refuse(r) == Finish(r, "refused", 0) /\ UNCHANGED contentVars
AnswerDuplicate(r) == \E m \in Duplicates(r) : Finish(r, "done", m) /\ UNCHANGED contentVars

(* Requests of somebody who is gone do not pass the guard. *)
Arrives(r, op) ==
    /\ r.op = op
    /\ r \in plot.requests
    /\ pc[r] = "new"
    /\ r.user \notin gone \/ seen[r].again

At(r, op, place) == r.op = op /\ pc[r] = place

(* assertPairWritable, assertActiveUser, assertNotBlocked *)
Writable(r) == Other(r.user) \notin gone /\ ~Blocked(r.user, Other(r.user))

-------------------------------------------------------------------------------
(* Deciding: initiate, send *)

(* Mutant of NextStatus: an answer to what was taken back is a request.     *)
NextStatusAsked(r) ==
    IF conversation.status \in {"PENDING", "DECLINED"} \/ MutualFollowers(r.user, Other(r.user))
    THEN "ACCEPTED"
    ELSE "PENDING"

(* The status that a first message leads to: that of an answer, or of      *)
(* mutual followers, is ACCEPTED.                                          *)
NextStatus(r) ==
    IF \/ conversation.status \in {"PENDING", "DECLINED"}
       \/ conversation.status = "CANCELED" /\ recipient = r.user
       \/ MutualFollowers(r.user, Other(r.user))
    THEN "ACCEPTED"
    ELSE "PENDING"

Plan(r) ==
    [NoSight EXCEPT
        !.plan = CASE conversation.status = "NONE" -> "create"
                   [] conversation.status = "ACCEPTED" -> "send"
                   [] OTHER -> "move",
        !.status = conversation.status,
        !.next = NextStatus(r),
        !.markRead = (conversation.status = "PENDING"),
        !.again = seen[r].again]

(* Who has asked waits, and who was declined does not ask again.           *)
MayInitiate(r) ==
    Writable(r) /\ ~(conversation.status \in {"PENDING", "DECLINED"} /\ conversation.requester = r.user)

(* The limits per minute and day may refuse any message.                   *)
readInitiate(r) ==
    /\ Arrives(r, "initiate")
    /\ IF Duplicates(r) # {}
       THEN AnswerDuplicate(r)
       ELSE \/ Refuse(r)
            \/ MayInitiate(r) /\ Goto(r, "read", Plan(r)) /\ UNCHANGED contentVars

readSend(r) ==
    /\ Arrives(r, "send")
    /\ IF Duplicates(r) # {}
       THEN AnswerDuplicate(r)
       ELSE \/ Refuse(r)
            \/ /\ conversation.status = "ACCEPTED"
               /\ Goto(r, "read", Plan(r))
               /\ UNCHANGED contentVars

(* The beginning of a transaction that writes a message or accepts.        *)
check(r) ==
    /\ r.op \in {"initiate", "send", "accept"}
    /\ pc[r] = "read"
    /\ IF Writable(r) /\ (seen[r].plan = "send" => conversation.status = "ACCEPTED")
       THEN Goto(r, "checked", seen[r])
       ELSE Finish(r, "refused", 0)
    /\ UNCHANGED contentVars

-------------------------------------------------------------------------------
(* Writing messages *)

NewMessage(r, state) ==
    [sender |-> r.user, key |-> r.key, state |-> state, read |-> FALSE, recalled |-> FALSE]

(* Messages to u among M are read. *)
WithRead(M, u) ==
    [m \in DOMAIN message |->
        IF m \in M \cap Stored /\ message[m].sender # u THEN [message[m] EXCEPT !.read = TRUE] ELSE message[m]]

(* When there is a conversation by now everything is done once more, and   *)
(* finds it: conversations are never deleted.                              *)
createConversation(r) ==
    /\ At(r, "initiate", "checked")
    /\ seen[r].plan = "create"
    /\ \/ /\ conversation.status # "NONE"
          /\ Goto(r, "new", [NoSight EXCEPT !.again = TRUE])
          /\ UNCHANGED contentVars
       \/ /\ conversation.status = "NONE"
          /\ conversation' = [status |-> seen[r].next, requester |-> r.user, last |-> Len(message) + 1]
          /\ message' = Append(message, NewMessage(r, "stored"))
          /\ UNCHANGED archived
          /\ Finish(r, "done", Len(message) + 1)

AsExpected(r) == conversation.status = seen[r].status

(* transitionAndSend.  A repeated request id finds the status changed       *)
(* before it comes to the unique index.                                    *)
transitionAndSend(r) ==
    /\ At(r, "initiate", "checked")
    /\ seen[r].plan = "move"
    /\ \/ ~AsExpected(r) /\ Refuse(r)
       \/ /\ AsExpected(r)
          /\ conversation' = [status |-> seen[r].next, requester |-> r.user, last |-> Len(message) + 1]
          /\ message' = Append(IF seen[r].markRead THEN WithRead(Stored, r.user) ELSE message,
                               NewMessage(r, "stored"))
          /\ archived' = {}
          /\ Finish(r, "done", Len(message) + 1)

(* Mutant of insertMessage: a request id may be used again. *)
insertAnyway(r) ==
    /\ pc[r] = "checked"
    /\ seen[r].plan = "send"
    /\ message' = Append(message, NewMessage(r, "open"))
    /\ pc' = [pc EXCEPT ![r] = "inserted"]
    /\ answer' = [answer EXCEPT ![r] = Len(message) + 1]
    /\ UNCHANGED <<plot, relationVars, conversation, archived, seen>>

(* sendAccepted: the row is inserted, which fixes its time, ...            *)
insertMessage(r) ==
    /\ pc[r] = "checked"
    /\ seen[r].plan = "send"
    /\ ~KeyIsOpen(r)
    /\ IF Duplicates(r) # {}
       THEN AnswerDuplicate(r)
       ELSE /\ message' = Append(message, NewMessage(r, "open"))
            /\ pc' = [pc EXCEPT ![r] = "inserted"]
            /\ answer' = [answer EXCEPT ![r] = Len(message) + 1]
            /\ UNCHANGED <<plot, relationVars, conversation, archived, seen>>

(* ... and committed with the conversation, which nobody has archived then. *)
commitMessage(r) ==
    /\ pc[r] = "inserted"
    /\ message' = [message EXCEPT ![answer[r]].state = "stored"]
    /\ conversation' = [conversation EXCEPT !.last = answer[r]]
    /\ archived' = {}
    /\ Finish(r, "done", answer[r])

-------------------------------------------------------------------------------
(* handleRequest *)

IsAsked(u) == conversation.status = "PENDING" /\ recipient = u

readAccept(r) ==
    /\ Arrives(r, "accept")
    /\ IF IsAsked(r.user)
       THEN Goto(r, "read", NoSight) /\ UNCHANGED contentVars
       ELSE Refuse(r)

accept(r) ==
    /\ At(r, "accept", "checked")
    /\ \/ ~IsAsked(r.user) /\ Refuse(r)
       \/ /\ IsAsked(r.user)
          /\ conversation' = [conversation EXCEPT !.status = "ACCEPTED"]
          /\ message' = WithRead(Stored, r.user)
          /\ UNCHANGED archived
          /\ Finish(r, "done", 0)

readDecline(r) ==
    /\ Arrives(r, "decline")
    /\ IF IsAsked(r.user)
       THEN Goto(r, "read", NoSight) /\ UNCHANGED contentVars
       ELSE Refuse(r)

AllDeleted == [m \in DOMAIN message |-> [message[m] EXCEPT !.state = "deleted"]]

(* Mutant of decline: the update does not name the status. *)
declineBlindly(r) ==
    /\ At(r, "decline", "read")
    /\ conversation' = [conversation EXCEPT !.status = "DECLINED", !.last = 0]
    /\ message' = AllDeleted
    /\ UNCHANGED archived
    /\ Finish(r, "done", 0)

decline(r) ==
    /\ At(r, "decline", "read")
    /\ \/ ~IsAsked(r.user) /\ Refuse(r)
       \/ /\ IsAsked(r.user)
          /\ conversation' = [conversation EXCEPT !.status = "DECLINED", !.last = 0]
          /\ message' = AllDeleted
          /\ UNCHANGED archived
          /\ Finish(r, "done", 0)

-------------------------------------------------------------------------------
(* recall *)

HasAsked(u) == conversation.status = "PENDING" /\ conversation.requester = u

(* A message of somebody else or older than ten minutes is refused.        *)
readRecall(r) ==
    /\ Arrives(r, "recall")
    /\ \/ Refuse(r)
       \/ /\ r.message \in Stored
          /\ message[r.message].sender = r.user
          /\ IF message[r.message].recalled
             THEN Finish(r, "done", r.message)
             ELSE Goto(r, "read", NoSight)
          /\ UNCHANGED contentVars

(* The transaction looks at the conversation first. *)
lookRecall(r) ==
    /\ At(r, "recall", "read")
    /\ \/ /\ HasAsked(r.user)
          /\ Goto(r, "checked", [NoSight EXCEPT !.plan = "cancel"])
       \/ /\ conversation.status = "ACCEPTED"
          /\ Goto(r, "checked", [NoSight EXCEPT !.plan = "recall"])
       \/ /\ ~HasAsked(r.user) /\ conversation.status # "ACCEPTED"
          /\ Finish(r, "refused", 0)
    /\ UNCHANGED contentVars

(* The request is taken back, with every message of the conversation.      *)
cancelRequest(r) ==
    /\ At(r, "recall", "checked")
    /\ seen[r].plan = "cancel"
    /\ \/ ~HasAsked(r.user) /\ Refuse(r)
       \/ /\ HasAsked(r.user)
          /\ conversation' = [conversation EXCEPT !.status = "CANCELED", !.last = 0]
          /\ message' = AllDeleted
          /\ UNCHANGED archived
          /\ Finish(r, "done", r.message)

recallMessage(r) ==
    /\ At(r, "recall", "checked")
    /\ seen[r].plan = "recall"
    /\ LET possible == r.message \in Stored /\ ~message[r.message].recalled
       IN  \/ ~possible /\ Refuse(r)
          \/ /\ possible
             /\ message' = [message EXCEPT ![r.message].recalled = TRUE]
             /\ UNCHANGED <<conversation, archived>>
             /\ Finish(r, "done", r.message)

-------------------------------------------------------------------------------
(* DirectMessageQueryService: what u is shown *)

(* visibleConversationWhere: a block hides the conversation from both, the  *)
(* end of an account does not.                                             *)
Sees(u) == conversation.status # "NONE" /\ ~Blocked(u, Other(u))

Unread(u) == {m \in Stored : message[m].sender # u /\ ~message[m].read}

(* mapDirectMessage: nothing but its place is left of a recalled message.  *)
Shown(m) == [id |-> m, sender |-> message[m].sender, recalled |-> message[m].recalled,
             hasContent |-> ~message[m].recalled]

(* mapDirectConversation.  The newest message need not be the one that     *)
(* lastMessageAt is the time of.                                           *)
Card(u) ==
    [direction |-> IF conversation.status # "PENDING" THEN "NONE"
                   ELSE IF recipient = u THEN "INCOMING" ELSE "OUTGOING",
     newest |-> IF Stored = {} THEN {} ELSE {Shown(Max(Stored))},
     unread |-> IF conversation.status = "ACCEPTED" THEN Cardinality(Unread(u)) ELSE 0,
     canSend |-> conversation.status = "ACCEPTED" /\ Other(u) \notin gone,
     canAccept |-> IsAsked(u) /\ Other(u) \notin gone,
     canDecline |-> IsAsked(u)]

(* findAll: whether the conversation is in one of the lists of u. *)
Views == {"INBOX", "REQUESTS", "ARCHIVED"}

Lists(u, view) ==
    /\ Sees(u)
    /\ IF view = "REQUESTS" THEN IsAsked(u) ELSE conversation.status = "ACCEPTED" \/ HasAsked(u)
    /\ u \in archived <=> view = "ARCHIVED"

(* findByOtherUser *)
CanInitiate(u) ==
    /\ Other(u) \notin gone
    /\ ~Blocked(u, Other(u))
    /\ \/ conversation.status \in {"NONE", "ACCEPTED", "CANCELED"}
       \/ conversation.status = "DECLINED" /\ recipient = u

(* unreadCount: what the badge says. *)
UnreadCount(u) ==
    [messages |-> IF Sees(u) /\ conversation.status = "ACCEPTED" THEN Cardinality(Unread(u)) ELSE 0,
     requests |-> IF Sees(u) /\ IsAsked(u) THEN 1 ELSE 0]

(* findMessages: PageSize of the messages of M, those next to the anchor,  *)
(* and where the next page begins: 0 with the newest one.                  *)
Page(M, ascending) ==
    LET near(m) == Cardinality({n \in M : IF ascending THEN n < m ELSE n > m})
        items == {m \in M : near(m) < PageSize}
    IN  [items |-> items,
         cursor |-> IF items = {} THEN 0 ELSE IF ascending THEN Max(items) ELSE Min(items),
         hasMore |-> items # M]

Before(anchor) == Page({m \in Stored : anchor = 0 \/ m < anchor}, FALSE)
After(anchor) == Page({m \in Stored : m > anchor}, TRUE)

-------------------------------------------------------------------------------
(* setArchived, markRead *)

readArchive(r) ==
    /\ Arrives(r, "archive")
    /\ IF conversation.status = "ACCEPTED" \/ HasAsked(r.user)
       THEN Goto(r, "read", NoSight) /\ UNCHANGED contentVars
       ELSE Refuse(r)

setArchived(r) ==
    /\ At(r, "archive", "read")
    /\ archived' = IF r.on THEN archived \cup {r.user} ELSE archived \ {r.user}
    /\ UNCHANGED <<conversation, message>>
    /\ Finish(r, "done", 0)

(* Everything up to the anchor, the message that was shown last. *)
markRead(r) ==
    /\ Arrives(r, "markRead")
    /\ IF ~Blocked(r.user, Other(r.user)) /\ r.message \in Stored
       THEN /\ message' = WithRead(1..r.message, r.user)
            /\ UNCHANGED <<conversation, archived>>
            /\ Finish(r, "done", 0)
       ELSE Refuse(r)

-------------------------------------------------------------------------------
(* The users' relations change in between. *)
relate(r) ==
    /\ r \in plot.requests
    /\ pc[r] = "new"
    /\ r.user \notin gone
    /\ \/ r.op = "follow" /\ follow(r.user, Other(r.user))
       \/ r.op = "unfollow" /\ unfollow(r.user, Other(r.user))
       \/ r.op = "block" /\ block(r.user, Other(r.user))
       \/ r.op = "unblock" /\ unblock(r.user, Other(r.user))
       \/ r.op = "deactivate" /\ deactivate(r.user)
    /\ pc' = [pc EXCEPT ![r] = "done"]
    /\ UNCHANGED <<plot, contentVars, seen, answer>>

Init ==
    /\ plot \in Plots
    /\ conversation = plot.conversation
    /\ message = plot.messages
    /\ archived = plot.archived
    /\ follows = plot.follows
    /\ blocks = {}
    /\ gone = {}
    /\ pc = [r \in Requests |-> "new"]
    /\ seen = [r \in Requests |-> NoSight]
    /\ answer = [r \in Requests |-> 0]

Next ==
    \E r \in Requests :
        \/ readInitiate(r) \/ readSend(r) \/ check(r)
        \/ createConversation(r) \/ transitionAndSend(r) \/ insertMessage(r) \/ commitMessage(r)
        \/ readAccept(r) \/ accept(r) \/ readDecline(r) \/ decline(r)
        \/ readRecall(r) \/ lookRecall(r) \/ cancelRequest(r) \/ recallMessage(r)
        \/ readArchive(r) \/ setArchived(r) \/ markRead(r)
        \/ relate(r)

Spec == Init /\ [][Next]_vars

-------------------------------------------------------------------------------
(* The rows have their shape, lastMessageAt is set while there are          *)
(* messages, and only an accepted one has some that are not committed.     *)
TypeOK ==
    /\ RelationsOK
    /\ conversation \in Conversations
    /\ conversation.last \in DOMAIN message <=> conversation.status \in {"PENDING", "ACCEPTED"}
    /\ message \in Seq(MessageRows)
    /\ archived \subseteq Users
    /\ pc \in [Requests -> Places]
    /\ Open # {} => conversation.status = "ACCEPTED"

(* A request consists of one message of him who asks, however requests,    *)
(* answers and recalls interleave; after a decline or a cancellation       *)
(* nothing is left of it.                                                  *)
RequestIsOneMessage ==
    /\ conversation.status = "PENDING" =>
         \E m \in Stored : Stored = {m} /\ message[m].sender = conversation.requester
    /\ conversation.status \in {"NONE", "DECLINED", "CANCELED"} => Stored = {}

(* What a user is offered the commands accept: who may open the             *)
(* conversation passes the checks of initiate, who may send or accept      *)
(* those of the transaction.                                               *)
OffersAreAccepted ==
    \A r \in plot.requests :
        /\ r.op = "initiate" /\ CanInitiate(r.user) => MayInitiate(r)
        /\ r.op = "send" /\ Sees(r.user) /\ Card(r.user).canSend =>
              Writable(r) /\ conversation.status = "ACCEPTED"
        /\ r.op = "accept" /\ Sees(r.user) /\ Card(r.user).canAccept => Writable(r) /\ IsAsked(r.user)

(* The badge counts what the lists show: every unread message belongs to   *)
(* a conversation in the inbox or the archive, and a request that is       *)
(* counted is in the list of requests, however archiving, recalls and      *)
(* answers interleave.  A request shows its one message.                   *)
BadgeIsWhatIsListed ==
    \A u \in Users :
        /\ UnreadCount(u).messages =
              IF Lists(u, "INBOX") \/ Lists(u, "ARCHIVED") THEN Card(u).unread ELSE 0
        /\ UnreadCount(u).requests = 1 <=> Lists(u, "REQUESTS")
        /\ \A v, w \in Views : Lists(u, v) /\ Lists(u, w) /\ "REQUESTS" \notin {v, w} => v = w
        /\ Lists(u, "REQUESTS") => Card(u).newest # {} /\ Card(u).canDecline

(* Pages join: between a page and the one after its cursor there is no      *)
(* message, in both directions, and the last page says that it is.         *)
PagesJoin ==
    \A anchor \in Stored \cup {0} :
        LET older == Before(anchor)
            newer == After(anchor)
        IN  /\ older.hasMore => Max(Before(older.cursor).items) = Max({m \in Stored : m < Min(older.items)})
            /\ newer.hasMore => Min(After(newer.cursor).items) = Min({m \in Stored : m > Max(newer.items)})
            /\ ~older.hasMore /\ ~newer.hasMore /\ anchor # 0 => older.items \cup {anchor} \cup newer.items = Stored

(* The conversation is what both are shown of it: its rows have their      *)
(* shape, a request is one message, and lists, badge, offers and pages     *)
(* follow the rows.                                                        *)
ConversationHolds ==
    TypeOK /\ RequestIsOneMessage /\ OffersAreAccepted /\ BadgeIsWhatIsListed /\ PagesJoin

(* r was answered with a message it sent. *)
Sent(r) == r.op \in {"initiate", "send"} /\ pc[r] = "done"

(* A client that repeats a command with the same request id is answered    *)
(* with the same message, unless that was deleted with its request.        *)
RepeatsAgree ==
    \A r, s \in Requests :
        Sent(r) /\ Sent(s) /\ r.user = s.user /\ r.key = s.key =>
            \/ answer[r] = answer[s]
            \/ "deleted" \in {message[answer[r]].state, message[answer[s]].state}

(* An answer stands.  What was accepted stays accepted, with its messages;  *)
(* who was declined is not heard again: only the user who declined opens   *)
(* the conversation, with a message of his own.                            *)
AnswerStands ==
    /\ conversation.status = "ACCEPTED" =>
         conversation'.status = "ACCEPTED" /\ \A m \in Stored : message'[m].state = "stored"
    /\ conversation.status = "DECLINED" /\ conversation' # conversation =>
         /\ conversation'.status = "ACCEPTED"
         /\ conversation'.requester = recipient
         /\ \A m \in DOMAIN message' \ DOMAIN message : message'[m].sender = recipient

AnswersStand == [][AnswerStands]_vars
===============================================================================
