------------------------------ MODULE MCAccounts -------------------------------
(* ann, who may be an administrator, bob, and two that have yet to         *)
(* register; two wrong entries are the limit, and two minutes are watched. *)
EXTENDS Accounts

MCUsers == {"ann", "bob", "cat", "dan"}
MCEmails == {"ann@", "bob@", "new@"}
MCNames == {"Ann", "Bob", "Cat"}
MCMedia == {"face", "wide", "tall", "raw", "bobs"}
MCSessions == {"s1", "s2"}
MCPhones == {"p1", "p2"}
MCFits3to1(m) == m \in {"wide", "bobs"}
MCFits2to1(m) == m = "tall"

None_ == [state |-> "none", email |-> Nothing, name |-> Nothing, password |-> 0, role |-> "USER", wrong |-> 0,
          locked |-> FALSE, sanctioned |-> FALSE, renamed |-> FALSE, avatar |-> Nothing, cover |-> Nothing,
          mobile |-> Nothing]
User(name, email) == [None_ EXCEPT !.state = "live", !.name = name, !.email = email]
MCAccount ==
    [u \in MCUsers |-> CASE u = "ann" -> [User("Ann", "ann@") EXCEPT !.role = "ADMIN"]
                         [] u = "bob" -> User("Bob", "bob@")
                         [] OTHER -> None_]
Picture(m) ==
    [owner |-> IF m = "bobs" THEN "bob" ELSE "ann", completed |-> m # "raw",
     purpose |-> CASE m = "face" -> "AVATAR" [] m = "raw" -> "UNSPECIFIED" [] OTHER -> "PROFILE_COVER"]

Plain(requests) ==
    [accounts |-> MCAccount, pictures |-> <<>>, signedIn |-> {}, codes |-> <<>>, adminSessions |-> <<>>, requests |-> requests]
Unsent ==
    [live |-> TRUE, user |-> "ann", email |-> "ann@", type |-> "PASSWORD_RESET", wrong |-> 0, fresh |-> TRUE,
     minute |-> 1, attempt |-> 1, sent |-> 0, password |-> 0]
Pictured(requests) ==
    [Plain(requests) EXCEPT !.pictures = [m \in MCMedia |-> Picture(m)]]
Signed(requests) == [Plain(requests) EXCEPT !.signedIn = {<<"ann", "s1">>}]
Working(requests) ==
    [Plain(requests) EXCEPT !.adminSessions =
        <<[user |-> "ann", live |-> TRUE, fresh |-> TRUE, elevated |-> FALSE, proof |-> 0, step |-> 0]>>]

Ask(id, op, user) ==
    [id |-> id, op |-> op, user |-> user, email |-> Nothing, mailbox |-> Nothing, name |-> Nothing, password |-> 0,
     session |-> Nothing, token |-> Nothing, media |-> Nothing, other |-> Nothing,
     server |-> "v1", switch |-> "content", until |-> 0]
On(id, op, server) == [Ask(id, op, "ann") EXCEPT !.server = server]
Mail(id, op, user, email) == [Ask(id, op, user) EXCEPT !.email = email]
Enter(id, op, user, email, mailbox) == [Mail(id, op, user, email) EXCEPT !.mailbox = mailbox]
Sign(id, user, email, name) == [Enter(id, "verifyAndComplete", user, email, email) EXCEPT !.name = name]
Knows(id, op, user, password) == [Ask(id, op, user) EXCEPT !.password = password]
Called(id, name) == [Ask(id, "update", "ann") EXCEPT !.name = name]
Phone(id, op, user, session, token) == [Ask(id, op, user) EXCEPT !.session = session, !.token = token]
Shows(id, op, media, other) == [Ask(id, op, "ann") EXCEPT !.media = media, !.other = other]

Registering == Plain(
    {Mail(1, "requestCode", "cat", "new@"), Mail(2, "requestCode", "cat", "new@"), Sign(3, "cat", "new@", "Cat")})
Racing == Plain(
    {Mail(1, "requestCode", "cat", "new@"), Sign(2, "cat", "new@", "Cat"), Sign(3, "dan", "new@", "Cat")})
Guessing == Plain(
    {Mail(1, "requestCode", "cat", "new@"), Enter(2, "verifyAndComplete", "cat", "new@", Nothing),
     Enter(3, "verifyAndComplete", "cat", "new@", Nothing), Sign(4, "cat", "new@", "Ann")})
Resending == [Plain(
    {Mail(1, "forgotPassword", "ann", "ann@"), Mail(2, "forgotPassword", "ann", "ann@"),
     Knows(3, "changePassword", "ann", 0)}) EXCEPT !.codes = <<Unsent>>]
Resetting_ == Plain(
    {Mail(1, "forgotPassword", "ann", "ann@"), Enter(2, "resetPassword", "ann", "ann@", "ann@"),
     Enter(3, "resetPassword", "ann", "ann@", Nothing), Knows(4, "changePassword", "ann", 0)})
Moving == Plain(
    {Mail(1, "requestChangeEmailCode", "ann", "new@"), Enter(2, "verifyChangeEmail", "ann", "new@", "new@"),
     Knows(3, "changePassword", "ann", 0), Mail(4, "requestChangeEmailCode", "bob", "new@")})
Other_ == Plain(
    {Mail(1, "requestChangeEmailCode", "ann", "new@"), Enter(2, "verifyChangeEmail", "ann", "bob@", "new@"),
     Ask(3, "deactivate", "bob"), Mail(4, "requestChangeEmailCode", "ann", "bob@")})
MovedAway == Plain(
    {Mail(1, "forgotPassword", "ann", "ann@"), Mail(2, "requestChangeEmailCode", "ann", "new@"),
     Enter(3, "verifyChangeEmail", "ann", "new@", "new@"), Enter(4, "resetPassword", "ann", "new@", "ann@")})
(* A new password was asked for before the address changed, and after. *)
Stale == [Plain(
    {Mail(1, "requestChangeEmailCode", "ann", "new@"), Enter(2, "verifyChangeEmail", "ann", "new@", "new@"),
     Mail(3, "forgotPassword", "ann", "new@"), Enter(4, "resetPassword", "ann", "new@", "ann@")})
    EXCEPT !.codes = <<Unsent>>]

Administrating == Plain(
    {Knows(1, "createLoginChallenge", "ann", 0), Knows(2, "createLoginChallenge", "ann", 0),
     Enter(3, "verifyLoginChallenge", "ann", Nothing, "ann@"), Enter(4, "verifyLoginChallenge", "ann", Nothing, "ann@"),
     Knows(5, "createLoginChallenge", "bob", 0)})
Elevating == Working(
    {Ask(1, "createStepUpChallenge", "ann"), Enter(2, "verifyStepUp", "ann", Nothing, "ann@"),
     Enter(3, "verifyLoginChallenge", "ann", Nothing, "ann@"), Ask(4, "act", "ann"), Ask(5, "dismiss", "ann")})
Wrong == Working(
    {Ask(1, "createStepUpChallenge", "ann"), Ask(2, "verifyStepUp", "ann"), Ask(3, "verifyStepUp", "ann"),
     Ask(4, "adminLogout", "ann"), Ask(5, "act", "ann")})
Dismissed == Plain(
    {Knows(1, "createLoginChallenge", "ann", 0), Enter(2, "verifyLoginChallenge", "ann", Nothing, "ann@"),
     Ask(3, "verifyLoginChallenge", "ann"), Ask(4, "dismiss", "ann")})

Appealing == Plain(
    {Knows(1, "appeal", "ann", 7), [Knows(2, "login", "ann", 7) EXCEPT !.session = "s1"], Knows(3, "appeal", "ann", 0),
     Ask(4, "useAppealToken", "ann"), Knows(5, "appeal", "cat", 0), Knows(6, "createLoginChallenge", "ann", 0)})

Naming == Plain(
    {Called(1, "Bob"), Called(2, "Cat"), Called(3, "Ann"), Ask(4, "deactivate", "bob"), Ask(5, "view", "cat")})
Reading == Plain({Ask(1, "view", "ann"), Ask(2, "view", "ann"), Called(3, "Cat"), Ask(4, "update", "cat")})
Viewing == [Plain(
    {Ask(1, "view", "ann"), Called(3, "Cat"), Ask(4, "sanction", "ann"), Ask(5, "deactivate", "ann")}) EXCEPT !.signedIn = {<<"ann", "s1">>}]
Dressing == Pictured(
    {Shows(1, "setAvatar", "face", Nothing), Shows(2, "setAvatar", Nothing, Nothing),
     Shows(3, "setProfileCover", "wide", "tall"), Ask(4, "deactivate", "ann")})
Undressing == Pictured(
    {Shows(1, "setAvatar", "raw", Nothing), Shows(2, "setProfileCover", "wide", Nothing),
     Shows(3, "setProfileCover", Nothing, Nothing), Shows(4, "setProfileCover", "bobs", Nothing)})

Pushing == Signed(
    {Phone(1, "register", "ann", "s1", "p1"), Phone(2, "login", "ann", "s2", Nothing),
     Phone(3, "register", "ann", "s2", "p2"), Ask(4, "push", "ann"), Ask(5, "cleanup", "ann")})
Handing == Signed(
    {Phone(1, "register", "ann", "s1", "p1"), Phone(2, "logout", "ann", "s1", Nothing),
     Phone(3, "login", "bob", "s2", Nothing), Phone(4, "register", "bob", "s2", "p1"), Ask(5, "push", "ann"),
     Ask(6, "push", "bob"), Phone(7, "unregister", "bob", "s2", Nothing)})

(* Writing is paused on one server, and resumed on the other; and paused    *)
(* for longer, with registrations, before the time is over.                *)
Throw(id, server, switch, until) == [On(id, "throw", server) EXCEPT !.switch = switch, !.until = until]
Pausing == Plain(
    {On(1, "write", "v1"), On(2, "write", "v1"), Throw(3, "v1", "content", 1), Throw(4, "v2", "content", 0),
     On(5, "write", "v2")})
Prolonging == Plain(
    {Throw(1, "v1", "content", 1), Throw(2, "v1", "registration", 2), Throw(3, "v1", "content", 2),
     [On(4, "write", "v1") EXCEPT !.switch = "registration"], On(5, "write", "v1")})

MCPlots ==
    {Registering, Racing, Guessing, Resending, Resetting_, Moving, Other_, MovedAway, Stale,
     Administrating, Elevating, Wrong, Dismissed, Appealing, Naming, Reading, Viewing, Dressing,
     Undressing, Pushing, Handing, Pausing, Prolonging}
===============================================================================
