--------------------------- MODULE MCDirectMessages ---------------------------
(***************************************************************************)
(* Two users, a and b, and the stories of their conversation.              *)
(***************************************************************************)
EXTENDS DirectMessages

CONSTANTS a, b

Command(id, op, u, key, m, on) ==
    [id |-> id, op |-> op, user |-> u, key |-> key, message |-> m, on |-> on]

Initiate(id, u, key) == Command(id, "initiate", u, key, 0, FALSE)
Send(id, u, key) == Command(id, "send", u, key, 0, FALSE)
Archive(id, u, on) == Command(id, "archive", u, "-", 0, on)
Recall(id, u, m) == Command(id, "recall", u, "-", m, FALSE)
Read(id, u, m) == Command(id, "markRead", u, "-", m, FALSE)
Do(id, op, u) == Command(id, op, u, "-", 0, FALSE)

Message(u, key) == [sender |-> u, key |-> key, state |-> "stored", read |-> FALSE, recalled |-> FALSE]

Nothing == [status |-> "NONE", requester |-> a, last |-> 0]
Conversation(status, last) == [status |-> status, requester |-> a, last |-> last]

Plot(conv, messages, arch, follow0, requests) ==
    [conversation |-> conv, messages |-> messages, archived |-> arch, follows |-> follow0, requests |-> requests]

(* Both write first, a twice with the same request id. *)
MCFirst ==
    Plot(Nothing, <<>>, {}, {<<a, b>>},
         {Initiate(1, a, "k"), Initiate(2, a, "k"), Initiate(3, b, "k"), Do(4, "follow", b)})

(* What b makes of the request of a, who has archived it or takes it back. *)
MCAsked ==
    Plot(Conversation("PENDING", 1), <<Message(a, "k")>>, {}, {},
         {Do(5, "accept", b), Do(6, "decline", b), Initiate(7, b, "k"), Recall(8, a, 1), Archive(9, b, TRUE)})

(* a takes the request back, twice, and asks again, twice; b writes too. *)
MCTakenBack ==
    Plot(Conversation("PENDING", 1), <<Message(a, "k")>>, {}, {},
         {Recall(8, a, 1), Recall(10, a, 1), Initiate(11, a, "l"), Initiate(25, a, "m"), Do(6, "decline", b),
          Archive(12, a, TRUE), Initiate(26, b, "k")})

(* a was declined, asks again, and b writes. *)
MCDeclined ==
    Plot(Conversation("DECLINED", 0), <<[Message(a, "k") EXCEPT !.state = "deleted"]>>, {a}, {},
         {Initiate(11, a, "l"), Initiate(7, b, "k"), Do(13, "deactivate", b), Recall(14, b, 2)})

(* Both talk; one message is sent twice, one recalled twice. *)
MCTalk ==
    Plot(Conversation("ACCEPTED", 1), <<Message(a, "k")>>, {a, b}, {},
         {Send(15, a, "l"), Send(16, a, "l"), Send(17, b, "k"), Recall(8, a, 1), Recall(10, a, 1), Read(18, b, 2)})

(* Relations change while they talk. *)
MCApart ==
    Plot(Conversation("ACCEPTED", 1), <<Message(a, "k")>>, {}, {<<a, b>>},
         {Send(15, a, "l"), Do(19, "block", b), Do(20, "unblock", b), Do(21, "unfollow", a),
          Do(13, "deactivate", b), Archive(22, b, TRUE), Archive(23, b, FALSE), Read(24, b, 1)})

MCPlots == {MCFirst, MCAsked, MCTakenBack, MCDeclined, MCTalk, MCApart}
===============================================================================
