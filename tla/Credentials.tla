------------------------------ MODULE Credentials ------------------------------
(***************************************************************************)
(* AuthService and VerificationCodeService: codes that are mailed to an    *)
(* address, and what they confirm: a registration, a new password, a new   *)
(* address.                                                                *)
(*                                                                         *)
(* A code is named by the number of its row: who has read it in a mailbox  *)
(* can enter it.  A transaction that locks the user's row, or the row of   *)
(* the code, is one step; everything else is one step for each statement.  *)
(* The time of a code is counted in the minutes between which it may be    *)
(* mailed again.  The n-th password of an account is n.                    *)
(***************************************************************************)
EXTENDS Integers, Sequences, FiniteSetsExt

CONSTANTS
    Users, Emails, Names, Media,
    Nothing,    \* no user, address, name or image; also what is left of an account that is gone
    Sessions,   \* mobile terminals
    Phones,     \* push tokens
    MaxTries,   \* MAX_VERIFICATION_ATTEMPTS, MAX_CHALLENGE_ATTEMPTS, failed logins that lock: 5
    MaxMinutes, \* bound: minutes a code is watched for
    PushTries,  \* attempts of a push job: 4
    Servers,    \* processes of the server, each with a cache of its own
    Times,      \* bound: times on the clock
    Plots       \* bound: what there is at first, and who does what

(* renamed: lastUsernameChange is less than 7 days ago; wrong:             *)
(* failedLoginAttempts; locked: lockedUntil is in the future.              *)
Accounts_ ==
    [state : {"none", "live", "deleted"}, email : Emails \cup {Nothing}, name : Names \cup {Nothing},
     password : Nat, role : {"USER", "ADMIN"}, wrong : Nat, locked : BOOLEAN, sanctioned : BOOLEAN,
     renamed : BOOLEAN, avatar : Media \cup {Nothing}, cover : Media \cup {Nothing},
     mobile : Media \cup {Nothing}]

Types == {"REGISTRATION", "CHANGE_EMAIL", "PASSWORD_RESET"}

(* fresh: not expired; minute: how old it is; attempt: the minute of its   *)
(* lastSendAttemptAt; sent: that of its lastSentAt, or 0; password: the    *)
(* account's when it was made (history).                                   *)
CodeRows ==
    [live : BOOLEAN, user : Users \cup {Nothing}, email : Emails, type : Types, wrong : Nat,
     fresh : BOOLEAN, minute : 1..MaxMinutes, attempt : 1..MaxMinutes, sent : 0..MaxMinutes,
     password : Nat]

Purposes == {"LOGIN", "STEP_UP"}
ChallengeRows == [user : Users, purpose : Purposes, open : BOOLEAN, fresh : BOOLEAN, wrong : Nat]

(* proof, step: the challenges that opened and elevated it (history). *)
AdminSessionRows ==
    [user : Users, live : BOOLEAN, fresh : BOOLEAN, elevated : BOOLEAN, proof : Nat, step : Nat]

(* live: the row is there; at: its updatedAt, which counts registrations. *)
DeviceRows ==
    [user : Users, session : Sessions, token : Phones, enabled : BOOLEAN, live : BOOLEAN, at : Nat]
PictureRows == [owner : Users, completed : BOOLEAN, purpose : {"AVATAR", "PROFILE_COVER", "UNSPECIFIED"}]

(* The switches that pause registrations and writing, and until when: a    *)
(* time on the clock, which shows 0 at first.                              *)
Switches == {"registration", "content"}
Settings == [Switches -> Times]

(* mailbox: where the code is read that is entered; Nothing: it is guessed. *)
Commands ==
    [id : Nat, op : STRING, user : Users, email : Emails \cup {Nothing}, mailbox : Emails \cup {Nothing},
     name : Names \cup {Nothing}, password : Nat, session : Sessions \cup {Nothing},
     token : Phones \cup {Nothing}, media : Media \cup {Nothing}, other : Media \cup {Nothing},
     server : Servers, switch : Switches, until : Times]

PlotFields == {"accounts", "pictures", "signedIn", "codes", "adminSessions", "requests"}
PicturesOf(row) == {row.avatar, row.cover, row.mobile} \ {Nothing}

(* What is there at first is in order, and nothing has been tried yet. *)
TablesStart(p) ==
    /\ p.accounts \in [Users -> Accounts_]
    /\ \A m \in DOMAIN p.pictures : p.pictures[m] \in PictureRows
    /\ \A u \in Users :
         /\ p.accounts[u].wrong = 0 /\ PicturesOf(p.accounts[u]) \subseteq DOMAIN p.pictures
         /\ p.accounts[u].state = "live" => p.accounts[u].email \in Emails
         /\ p.accounts[u].state = "none" => ~p.accounts[u].renamed
    /\ p.signedIn \subseteq Users \X Sessions
    /\ \A x, y \in p.signedIn : x[1] = y[1] => x = y

(* A code is a user's, or it is one to register with. *)
CodesStart(p) ==
    /\ p.codes \in Seq(CodeRows)
    /\ \A c \in DOMAIN p.codes :
         LET row == p.codes[c]
         IN  /\ row.wrong = 0 /\ row.sent = 0 /\ (row.user = Nothing <=> row.type = "REGISTRATION")
             /\ row.user # Nothing =>
                   p.accounts[row.user].state # "none" /\ row.password = p.accounts[row.user].password
    /\ p.adminSessions \in Seq(AdminSessionRows)
    /\ \A s, t \in DOMAIN p.adminSessions :
         LET row == p.adminSessions[s]
         IN  /\ row.proof = 0 /\ row.step = 0 /\ ~row.elevated
             /\ row.live /\ p.adminSessions[t].live /\ p.adminSessions[t].user = row.user => s = t

(* Every login begins a terminal of its own. *)
RequestsStart(p) ==
    /\ p.requests \subseteq Commands
    /\ \A r \in p.requests :
         /\ r.op \in {"requestCode", "forgotPassword", "requestChangeEmailCode"} => r.email \in Emails
         /\ r.op = "register" => r.token \in Phones
         /\ r.op = "login" => r.session \in Sessions /\ <<r.user, r.session>> \notin p.signedIn
    /\ \A r, q \in p.requests :
         \/ r = q
         \/ /\ r.id # q.id
            /\ ~(r.op = "login" /\ q.op = "login" /\ r.user = q.user /\ r.session = q.session)

ASSUME AccountsAssumption ==
    /\ Nothing \notin Users \cup Emails \cup Names \cup Media \cup Sessions \cup Phones
    /\ Times \subseteq Nat /\ 0 \in Times
    /\ MaxTries \in Nat \ {0} /\ MaxMinutes \in Nat \ {0} /\ PushTries \in Nat \ {0}
    /\ \A p \in Plots :
         PlotFields \subseteq DOMAIN p /\ TablesStart(p) /\ CodesStart(p) /\ RequestsStart(p)

Requests == UNION {p.requests : p \in Plots}

VARIABLES
    plot,
    account,
    code,          \* email_verifications, in the order of creation
    mailed,        \* history: triples <<address, "code" or "challenge", row>>
    begun,         \* history: triples <<row, minute, request>>: the code was about to be mailed
    accepted,      \* history: pairs <<row, minute>>: the mail server took the mail
    confirmed,     \* history: what codes confirmed
    misses,        \* history: triples <<request, "code" or "password", row or user>>: wrong entries
    challenge,     \* admin_auth_challenges, in the order of creation
    adminSession,  \* admin_sessions, in the order of creation
    appealing,     \* users somebody holds an appeal token of
    signedIn,      \* pairs <<user, mobile terminal>> with a refresh token that is not revoked
    device,        \* mobile_devices, in the order of creation
    pushed,        \* history: what was pushed, and to which device
    settings,      \* site_operational_settings: until when each switch is thrown
    pauses,        \* pauses[v]: what the server v has cached of them, and whether it has
    clock,
    behind,        \* history: servers that read the settings while they changed, or were not told
    picture,       \* picture[m]: the image m; those that are gone are not in the domain
    profile,       \* profile[u]: the anonymous profile of u that is cached
    suspect,       \* history: users whose cached profile may be old: it changed while it was read,
                   \* or could not be dropped
    renames,       \* history: renames[u]: changes of the name in the last 7 days
    pc,            \* pc[r]: new, where it is, or done, refused
    seen           \* seen[r]: what r has read

codeVars == <<code, mailed, begun, accepted, confirmed, misses>>
adminVars == <<challenge, adminSession, appealing>>
settingVars == <<settings, pauses, clock, behind>>
deviceVars == <<device, pushed, settingVars>>
profileVars == <<picture, profile, suspect, renames>>
tableVars == <<account, codeVars, adminVars, signedIn, deviceVars, profileVars>>
requestVars == <<pc, seen>>
vars == <<plot, tableVars, requestVars>>

NoSight == [row |-> 0, user |-> Nothing, entry |-> 0, n |-> 0, name |-> Nothing, set |-> {}]

Place(r, place) == pc' = [pc EXCEPT ![r] = place] /\ UNCHANGED plot
Done(r) == Place(r, "done") /\ UNCHANGED seen
Ends(r) == Place(r, "refused") /\ UNCHANGED seen
Refused(r) == Ends(r) /\ UNCHANGED tableVars
Answered(r) == Done(r) /\ UNCHANGED tableVars
Goes(r, place, sight) == Place(r, place) /\ seen' = [seen EXCEPT ![r] = sight]
Reads(r, place, sight) == Goes(r, place, sight) /\ UNCHANGED tableVars

Arrives(r, op) == r.op = op /\ r \in plot.requests /\ pc[r] = "new"
At(r, op, place) == r.op = op /\ r \in plot.requests /\ pc[r] = place
Stands(r, place) == r \in plot.requests /\ pc[r] = place

Live(u) == account[u].state = "live"
Holders(e) == {u \in Users : account[u].state # "none" /\ account[u].email = e}
Only(S) == CHOOSE x \in S : TRUE

-------------------------------------------------------------------------------
(* Codes are made, and mailed: VerificationCodeService. *)

TypeOf(r) == CASE r.op = "requestCode" \/ r.op = "verifyAndComplete" -> "REGISTRATION"
               [] r.op = "forgotPassword" \/ r.op = "resetPassword" -> "PASSWORD_RESET"
               [] OTHER -> "CHANGE_EMAIL"

Rows == {c \in DOMAIN code : code[c].live}
Found(type, u, e) ==
    {c \in Rows : code[c].type = type /\ (IF u # Nothing THEN code[c].user = u ELSE code[c].email = e)}

(* The unique keys: one code for an address, and one for a user. *)
Clashes(type, u, e) ==
    \E c \in Rows : code[c].type = type /\ (code[c].email = e \/ (u # Nothing /\ code[c].user = u))

NewCode(type, u, e) ==
    [live |-> TRUE, user |-> u, email |-> e, type |-> type, wrong |-> 0, fresh |-> TRUE, minute |-> 1,
     attempt |-> 1, sent |-> 0, password |-> IF u = Nothing THEN 0 ELSE account[u].password]

Without(C) == [c \in DOMAIN code |-> IF c \in C THEN [code[c] EXCEPT !.live = FALSE] ELSE code[c]]
Claimable(c) == code[c].live /\ code[c].attempt < code[c].minute

CodesBecome(codes) ==
    /\ code' = codes
    /\ UNCHANGED <<account, mailed, accepted, confirmed, misses, adminVars, signedIn, deviceVars, profileVars>>

(* To be mailed by r in this minute. *)
ToSend(r, c, minute) ==
    /\ Goes(r, "send", [seen[r] EXCEPT !.row = c, !.n = minute])
    /\ begun' = begun \cup {<<c, minute, r.id>>}

requestCode(r) ==
    /\ Arrives(r, "requestCode")
    /\ \/ Holders(r.email) # {} /\ Refused(r)
       \/ Holders(r.email) = {} /\ Reads(r, "find", NoSight)

(* Whether the address is known is not told. *)
forgotPassword(r) ==
    /\ Arrives(r, "forgotPassword")
    /\ LET us == {u \in Holders(r.email) : Live(u)}
       IN  \/ us = {} /\ Answered(r)
           \/ us # {} /\ Reads(r, "find", [NoSight EXCEPT !.user = Only(us)])

findCode(r) ==
    /\ Stands(r, "find")
    /\ LET found == Found(TypeOf(r), seen[r].user, r.email)
       IN  \/ found = {} /\ Reads(r, "insert", seen[r])
           \/ /\ found # {}
              /\ Reads(r, IF code[Only(found)].fresh THEN "claim" ELSE "discard",
                       [seen[r] EXCEPT !.row = Only(found), !.n = code[Only(found)].minute,
                                       !.entry = code[Only(found)].attempt])

discard(r) ==
    /\ Stands(r, "discard")
    /\ CodesBecome(Without({seen[r].row}))
    /\ Place(r, "insert")
    /\ UNCHANGED <<seen, begun>>

insert(r) ==
    /\ Stands(r, "insert")
    /\ LET u == seen[r].user
       IN  \/ Clashes(TypeOf(r), u, r.email) /\ Reads(r, "refind", seen[r])
           \/ /\ ~Clashes(TypeOf(r), u, r.email)
              /\ CodesBecome(Append(code, NewCode(TypeOf(r), u, r.email)))
              /\ ToSend(r, Len(code) + 1, 1)

(* The code of the one who was faster, if it is still there. *)
refind(r) ==
    /\ Stands(r, "refind")
    /\ LET found == Found(TypeOf(r), seen[r].user, r.email)
       IN  \/ found = {} /\ Refused(r)
           \/ found # {} /\ Reads(r, "claim", [seen[r] EXCEPT !.row = Only(found)])

Claimed(c) == [code EXCEPT ![c].attempt = code[c].minute]

(* Whoever sets lastSendAttemptAt mails the code. *)
claimExisting(r) ==
    /\ Stands(r, "claim")
    /\ LET c == seen[r].row
       IN  \/ /\ Claimable(c)
              /\ CodesBecome(Claimed(c))
              /\ ToSend(r, c, code[c].minute)
           \/ ~Claimable(c) /\ Reads(r, "latest", seen[r])

(* The others say whether the last mail went out; the code may be gone. *)
readLatest(r) ==
    /\ Stands(r, "latest")
    /\ IF code[seen[r].row].live THEN Answered(r) ELSE Refused(r)

(* SMTP: the mail goes out and is confirmed, or goes out unconfirmed, or   *)
(* is lost.                                                                *)
sendSafely(r) ==
    /\ Stands(r, "send")
    /\ LET c == seen[r].row
           mails == mailed \cup {<<r.email, "code", c>>}
       IN  \/ /\ mailed' = mails /\ accepted' = accepted \cup {<<c, seen[r].n>>}
              /\ Place(r, "mark") /\ UNCHANGED seen
           \/ mailed' \in {mails, mailed} /\ Done(r) /\ UNCHANGED accepted
    /\ UNCHANGED <<account, code, begun, confirmed, misses, adminVars, signedIn, deviceVars, profileVars>>

(* Only if nobody has begun to mail it again; the note may be lost. *)
markDelivered(r) ==
    /\ Stands(r, "mark")
    /\ LET c == seen[r].row
       IN  \/ /\ code[c].live /\ code[c].attempt = seen[r].n
              /\ CodesBecome([code EXCEPT ![c].sent = seen[r].n])
           \/ CodesBecome(code)
    /\ Done(r)
    /\ UNCHANGED begun

(* The first step to a new address: under the lock of the user's row, with *)
(* the password.  A key that is taken makes it fail as a whole.            *)
requestChangeEmailCode(r) ==
    /\ Arrives(r, "requestChangeEmailCode")
    /\ LET u == r.user
           old == Found("CHANGE_EMAIL", u, r.email)
           reused == {c \in old : code[c].fresh /\ code[c].email = r.email}
           rest == Without(old)
           taken == \E c \in DOMAIN rest : rest[c].live /\ rest[c].type = "CHANGE_EMAIL" /\ rest[c].email = r.email
       IN  \/ /\ ~Live(u) \/ account[u].email = r.email \/ account[u].password # r.password \/ Holders(r.email) # {}
              /\ Refused(r)
           \/ /\ Live(u) /\ account[u].email # r.email /\ account[u].password = r.password /\ Holders(r.email) = {}
              /\ \/ /\ reused # {} /\ Claimable(Only(reused))
                    /\ CodesBecome(Claimed(Only(reused)))
                    /\ ToSend(r, Only(reused), code[Only(reused)].minute)
                 \/ reused # {} /\ ~Claimable(Only(reused)) /\ Answered(r)
                 \/ reused = {} /\ taken /\ Refused(r)
                 \/ /\ reused = {} /\ ~taken
                    /\ CodesBecome(Append(rest, NewCode("CHANGE_EMAIL", u, r.email)))
                    /\ ToSend(r, Len(code) + 1, 1)

-------------------------------------------------------------------------------
(* Codes are entered: consumeVerification. *)

Entering == {"verifyAndComplete", "resetPassword", "verifyChangeEmail"}

(* Mutant of Fits: a code of the user does for every address. *)
FitsAnyAddress(r, c) ==
    /\ code[c].live
    /\ code[c].type = TypeOf(r)
    /\ IF r.op = "verifyAndComplete" THEN code[c].email = r.email ELSE code[c].user = seen[r].user

(* The row that is looked for, when it is found and when it is locked. *)
Fits(r, c) ==
    /\ code[c].live
    /\ code[c].type = TypeOf(r)
    /\ code[c].email = r.email
    /\ r.op # "verifyAndComplete" => code[c].user = seen[r].user

findAccount(r) ==
    /\ r.op \in Entering /\ r \in plot.requests /\ pc[r] = "new"
    /\ LET us == {u \in Holders(r.email) : Live(u)}
       IN  \/ r.op = "resetPassword" /\ us = {} /\ Refused(r)
           \/ r.op = "resetPassword" /\ us # {} /\ Reads(r, "look", [NoSight EXCEPT !.user = Only(us)])
           \/ r.op # "resetPassword" /\ Reads(r, "look", [NoSight EXCEPT !.user = r.user])

(* What is entered: a code of the mailbox, or 0, which is none. *)
Readable(r) ==
    LET codes == {c \in DOMAIN code : <<r.mailbox, "code", c>> \in mailed}
    IN  IF codes = {} THEN {0} ELSE codes

lookForCode(r) ==
    /\ Stands(r, "look")
    /\ \/ (\A c \in Rows : ~Fits(r, c)) /\ Refused(r)
       \/ \E c \in Rows : \E entry \in Readable(r) :
            /\ Fits(r, c)
            /\ Reads(r, "enter", [seen[r] EXCEPT !.row = c, !.entry = entry, !.n = code[c].wrong])

(* checkVerificationCode: the count is kept though the request is refused; *)
(* the last wrong entry that is allowed removes the code, so that the      *)
(* count itself never reaches the limit.                                   *)
refuseCode(r) ==
    /\ Stands(r, "enter")
    /\ LET c == seen[r].row
           last == code[c].wrong + 1 >= MaxTries
       IN  \/ ~Fits(r, c) /\ UNCHANGED <<code, misses>>
           \/ Fits(r, c) /\ ~code[c].fresh /\ code' = Without({c}) /\ UNCHANGED misses
           \/ /\ Fits(r, c) /\ code[c].fresh /\ seen[r].entry # c
              /\ code' = IF last THEN Without({c}) ELSE [code EXCEPT ![c].wrong = @ + 1]
              /\ misses' = misses \cup {<<r.id, "code", c>>}
    /\ Ends(r)
    /\ UNCHANGED <<account, mailed, begun, accepted, confirmed, adminVars, signedIn, deviceVars, profileVars>>

Passes(r, op) == At(r, op, "enter") /\ Fits(r, seen[r].row) /\ code[seen[r].row].fresh /\ seen[r].entry = seen[r].row
Confirms(r, address) ==
    confirmed' = confirmed \cup {[request |-> r.id, op |-> r.op, address |-> address, code |-> seen[r].row]}
SessionsOf(u) == {x \in signedIn : x[1] = u}
CodesOf(u, types) == {c \in Rows : code[c].user = u /\ code[c].type \in types}
Resetting == {"PASSWORD_RESET", "CHANGE_EMAIL"}

NewAccount(r) ==
    [state |-> "live", email |-> r.email, name |-> r.name, password |-> 0, role |-> "USER", wrong |-> 0,
     locked |-> FALSE, sanctioned |-> FALSE, renamed |-> FALSE, avatar |-> Nothing, cover |-> Nothing,
     mobile |-> Nothing]

(* r.user is a row that is not there yet; an address or a name that is     *)
(* taken by now undoes all of it.                                          *)
verifyAndComplete(r) ==
    /\ Passes(r, "verifyAndComplete")
    /\ LET taken == \E u \in Users : account[u].state # "none" /\ (account[u].email = r.email \/ account[u].name = r.name)
       IN  \/ taken /\ Refused(r)
           \/ /\ ~taken /\ account[r.user].state = "none"
              /\ account' = [account EXCEPT ![r.user] = NewAccount(r)]
              /\ code' = Without({seen[r].row})
              /\ Confirms(r, r.email)
              /\ Done(r)
              /\ UNCHANGED <<mailed, begun, accepted, misses, adminVars, signedIn, deviceVars, profileVars>>

(* All terminals are signed out, and the codes that are left are void. *)
Renewed(r, u, accounts, void) ==
    /\ account' = accounts
    /\ signedIn' = signedIn \ SessionsOf(u)
    /\ code' = Without(void)
    /\ Done(r)
    /\ UNCHANGED <<mailed, begun, accepted, misses, adminVars, deviceVars, profileVars>>

resetPassword(r) ==
    /\ Passes(r, "resetPassword")
    /\ LET u == seen[r].user
       IN  \/ (~Live(u) \/ account[u].email # r.email) /\ Refused(r)
           \/ /\ Live(u) /\ account[u].email = r.email
              /\ Renewed(r, u, [account EXCEPT ![u].password = @ + 1], CodesOf(u, Resetting) \cup {seen[r].row})
              /\ Confirms(r, account[u].email)

verifyChangeEmail(r) ==
    /\ Passes(r, "verifyChangeEmail")
    /\ LET u == r.user
       IN  \/ (~Live(u) \/ Holders(r.email) # {}) /\ Refused(r)
           \/ /\ Live(u) /\ Holders(r.email) = {}
              /\ Renewed(r, u, [account EXCEPT ![u].email = r.email], CodesOf(u, Types))
              /\ Confirms(r, r.email)

readOldPassword(r) ==
    /\ Arrives(r, "changePassword")
    /\ \/ (~Live(r.user) \/ account[r.user].password # r.password) /\ Refused(r)
       \/ Live(r.user) /\ account[r.user].password = r.password /\ Reads(r, "change", NoSight)

(* Mutant of changePassword: codes are left alone. *)
ChangePasswordOnly(r) ==
    /\ At(r, "changePassword", "change")
    /\ LET u == r.user
       IN  \/ (~Live(u) \/ account[u].password # r.password) /\ Refused(r)
           \/ /\ Live(u) /\ account[u].password = r.password
              /\ Renewed(r, u, [account EXCEPT ![u].password = @ + 1], {})
              /\ UNCHANGED confirmed

changePassword(r) ==
    /\ At(r, "changePassword", "change")
    /\ LET u == r.user
       IN  \/ (~Live(u) \/ account[u].password # r.password) /\ Refused(r)
           \/ /\ Live(u) /\ account[u].password = r.password
              /\ Renewed(r, u, [account EXCEPT ![u].password = @ + 1], CodesOf(u, Resetting))
              /\ UNCHANGED confirmed

-------------------------------------------------------------------------------
minutePasses(c) ==
    /\ c \in Rows /\ code[c].minute = code[c].attempt /\ code[c].minute < MaxMinutes
    /\ CodesBecome([code EXCEPT ![c].minute = @ + 1])
    /\ UNCHANGED <<plot, begun, requestVars>>

codeExpires(c) ==
    /\ c \in Rows /\ code[c].fresh
    /\ CodesBecome([code EXCEPT ![c].fresh = FALSE])
    /\ UNCHANGED <<plot, begun, requestVars>>

cleanupCodes ==
    /\ \E c \in Rows : ~code[c].fresh
    /\ CodesBecome(Without({c \in Rows : ~code[c].fresh}))
    /\ UNCHANGED <<plot, begun, requestVars>>

CodeActions(r) ==
    \/ requestCode(r) \/ forgotPassword(r) \/ findCode(r) \/ discard(r) \/ insert(r) \/ refind(r)
    \/ claimExisting(r) \/ readLatest(r) \/ sendSafely(r) \/ markDelivered(r)
    \/ requestChangeEmailCode(r) \/ findAccount(r) \/ lookForCode(r) \/ refuseCode(r)
    \/ verifyAndComplete(r) \/ resetPassword(r) \/ verifyChangeEmail(r)
    \/ readOldPassword(r) \/ changePassword(r)
===============================================================================
