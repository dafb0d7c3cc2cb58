------------------------------- MODULE Accounts -------------------------------
(***************************************************************************)
(* Accounts: what AdminAccess and Credentials have, and UsersService (the  *)
(* name, the pictures, the profile that is cached for the anonymous, the   *)
(* end of an account) and the mobile devices with the pushes they get.     *)
(*                                                                         *)
(* Terminals are AuthSessions'; here they begin and end as requests.       *)
(***************************************************************************)
EXTENDS AdminAccess

CONSTANT Fits3to1(_), Fits2to1(_)  \* an image has the shape of a cover, within one percent

(* What the anonymous see: maskDeactivated. *)
Profile(u) ==
    CASE account[u].state = "none" -> [name |-> Nothing, status |-> "none"]
      [] account[u].state = "deleted" -> [name |-> Nothing, status |-> "deleted"]
      [] OTHER -> [name |-> account[u].name, status |-> IF account[u].sanctioned THEN "sanctioned" ELSE "active"]
NoProfile == [full |-> FALSE, shows |-> [name |-> Nothing, status |-> "none"]]

(* A read that is under way when the profile changes may store the old one. *)
Filling(u) == \E r \in plot.requests : r.user = u /\ pc[r] = "fill"
ProfileChanges(u) == suspect' = IF Filling(u) THEN suspect \cup {u} ELSE suspect

ProfileGoes(u) ==
    /\ profile' = [profile EXCEPT ![u] = NoProfile]
    /\ suspect' = IF Filling(u) THEN suspect ELSE suspect \ {u}

AccountWritten(r, row) ==
    /\ account' = [account EXCEPT ![r.user] = row]
    /\ ProfileChanges(r.user)
    /\ Place(r, "invalidate")
    /\ UNCHANGED <<seen, codeVars, adminVars, deviceVars, picture, profile>>

(* handleUserChange, after user.updated and user.deleted.  CacheService    *)
(* swallows what Redis refuses: a profile that could not be dropped stays, *)
(* and nobody tries again.                                                 *)
invalidate(r) ==
    /\ Stands(r, "invalidate")
    /\ \/ ProfileGoes(r.user)
       \/ UNCHANGED profile /\ suspect' = IF profile[r.user].full THEN suspect \cup {r.user} ELSE suspect
    /\ Done(r)
    /\ UNCHANGED <<account, codeVars, adminVars, signedIn, deviceVars, picture, renames>>

-------------------------------------------------------------------------------
(* The anonymous profile.  A cache that cannot be read is passed by, one   *)
(* that cannot be written stays what it is.                                *)

readProfile(r) ==
    /\ Arrives(r, "view")
    /\ \/ profile[r.user].full /\ Answered(r)
       \/ account[r.user].state = "none" /\ Refused(r)
       \/ /\ account[r.user].state # "none"
          /\ Reads(r, "fill", [NoSight EXCEPT !.set = {Profile(r.user)}])

fillProfile(r) ==
    /\ Stands(r, "fill")
    /\ \/ UNCHANGED profile
       \/ profile' = [profile EXCEPT ![r.user] = [full |-> TRUE, shows |-> Only(seen[r].set)]]
    /\ Done(r)
    /\ UNCHANGED <<account, codeVars, adminVars, signedIn, deviceVars, picture, suspect, renames>>

profileExpires(u) ==
    /\ profile[u].full
    /\ ProfileGoes(u)
    /\ UNCHANGED <<plot, account, codeVars, adminVars, signedIn, deviceVars, picture, renames, requestVars>>

sanction(r) ==
    /\ Arrives(r, "sanction")
    /\ AccountWritten(r, [account[r.user] EXCEPT !.sanctioned = TRUE])
    /\ signedIn' = signedIn \ SessionsOf(r.user)
    /\ UNCHANGED renames

(* A suspension runs out, and with it the profile that shows it            *)
(* (publicProfileCacheTtl); one that is stored only now stays a second.    *)
sanctionEnds(u) ==
    /\ account[u].sanctioned
    /\ ProfileChanges(u)
    /\ account' = [account EXCEPT ![u].sanctioned = FALSE]
    /\ profile' = [profile EXCEPT ![u] = IF @.shows.status = "sanctioned" THEN NoProfile ELSE @]
    /\ UNCHANGED <<plot, codeVars, adminVars, signedIn, deviceVars, picture, renames, requestVars>>

-------------------------------------------------------------------------------
(* The name: at most one change in seven days. *)

readUpdate(r) ==
    /\ Arrives(r, "update")
    /\ IF account[r.user].state = "none" THEN Refused(r)
       ELSE Reads(r, "rename", [NoSight EXCEPT !.name = account[r.user].name])

Renamed(r, changing) ==
    /\ AccountWritten(r, [account[r.user] EXCEPT !.name = r.name, !.renamed = @ \/ changing])
    /\ renames' = [renames EXCEPT ![r.user] = IF account[r.user].name = r.name THEN @ ELSE @ + 1]
    /\ UNCHANGED signedIn

NameTaken(r) == \E u \in Users \ {r.user} : account[u].name = r.name

(* Mutant of rename: whether the name changes is what was read before. *)
RenameAsRead(r) ==
    /\ At(r, "update", "rename")
    /\ LET changing == r.name # seen[r].name
       IN  /\ ~(changing /\ account[r.user].renamed) /\ ~NameTaken(r)
           /\ Renamed(r, changing)

(* Under the lock of the user's row, even when the client believes that    *)
(* the name stays as it is.  An account that is gone is not asked for.     *)
rename(r) ==
    /\ At(r, "update", "rename")
    /\ LET changing == r.name # account[r.user].name
       IN  \/ changing /\ (account[r.user].renamed \/ NameTaken(r)) /\ Refused(r)
           \/ ~(changing /\ (account[r.user].renamed \/ NameTaken(r))) /\ Renamed(r, changing)

weekPasses(u) ==
    /\ account[u].renamed
    /\ account' = [account EXCEPT ![u].renamed = FALSE]
    /\ renames' = [renames EXCEPT ![u] = 0]
    /\ UNCHANGED <<plot, codeVars, adminVars, signedIn, deviceVars, picture, profile, suspect, requestVars>>

-------------------------------------------------------------------------------
(* Pictures. *)

There == DOMAIN picture
For(m, purpose) == picture[m].purpose \in {purpose, "UNSPECIFIED"}
Usable(u, m, purpose) == m \in There /\ picture[m].owner = u /\ picture[m].completed /\ For(m, purpose)

readAvatar(r) ==
    /\ Arrives(r, "setAvatar")
    /\ IF r.media # Nothing /\ ~Usable(r.user, r.media, "AVATAR") THEN Refused(r) ELSE Reads(r, "picture", NoSight)

readCover(r) ==
    /\ Arrives(r, "setProfileCover")
    /\ LET fits == /\ Usable(r.user, r.media, "PROFILE_COVER") /\ Fits3to1(r.media)
                   /\ r.other # Nothing => Usable(r.user, r.other, "PROFILE_COVER") /\ Fits2to1(r.other)
       IN  IF r.media # Nothing /\ ~fits THEN Refused(r) ELSE Reads(r, "picture", NoSight)

(* A foreign key holds what has been reclaimed in between. *)
Gone(r) == \E m \in {r.media, r.other} \ {Nothing} : m \notin There

setAvatar(r) ==
    /\ At(r, "setAvatar", "picture")
    /\ \/ Gone(r) /\ Refused(r)
       \/ ~Gone(r) /\ AccountWritten(r, [account[r.user] EXCEPT !.avatar = r.media]) /\ UNCHANGED <<signedIn, renames>>

setProfileCover(r) ==
    /\ At(r, "setProfileCover", "picture")
    /\ \/ Gone(r) /\ Refused(r)
       \/ /\ ~Gone(r)
          /\ AccountWritten(r, [account[r.user] EXCEPT !.cover = r.media,
                                !.mobile = IF r.media = Nothing THEN Nothing ELSE r.other])
          /\ UNCHANGED <<signedIn, renames>>

(* An image that nothing refers to is reclaimed (module Media). *)
reclaim(m) ==
    /\ m \in There /\ \A u \in Users : m \notin {account[u].avatar, account[u].cover, account[u].mobile}
    /\ picture' = [x \in There \ {m} |-> picture[x]]
    /\ UNCHANGED <<plot, account, codeVars, adminVars, signedIn, deviceVars, profile, suspect, renames, requestVars>>

-------------------------------------------------------------------------------
(* The end of an account: its name and address are free again. *)

readDeactivate(r) ==
    /\ Arrives(r, "deactivate")
    /\ IF Live(r.user) THEN Reads(r, "leave", NoSight) ELSE Refused(r)

deactivate(r) ==
    /\ At(r, "deactivate", "leave")
    /\ AccountWritten(r, [account[r.user] EXCEPT !.state = "deleted", !.name = Nothing, !.email = Nothing,
                          !.avatar = Nothing, !.cover = Nothing, !.mobile = Nothing])
    /\ signedIn' = signedIn \ SessionsOf(r.user)
    /\ UNCHANGED renames

-------------------------------------------------------------------------------
(* Devices: at most one for each terminal, and one for each push token. *)

DevicesBecome(devices) ==
    /\ device' = devices
    /\ UNCHANGED <<account, codeVars, adminVars, signedIn, pushed, settingVars, profileVars>>
Devices == {i \in DOMAIN device : device[i].live}
TerminalOf(i) == <<device[i].user, device[i].session>>
DevicesOf(r) == {i \in Devices : TerminalOf(i) = <<r.user, r.session>>}

(* It does not matter in which order those that are disabled were updated. *)
Disabled(D) == [i \in DOMAIN device |-> IF i \in D THEN [device[i] EXCEPT !.enabled = FALSE] ELSE device[i]]

readTerminal(r) ==
    /\ Arrives(r, "register")
    /\ IF <<r.user, r.session>> \in signedIn THEN Reads(r, "register", NoSight) ELSE Refused(r)

NewDevice(r) ==
    [user |-> r.user, session |-> r.session, token |-> r.token, enabled |-> TRUE, live |-> TRUE,
     at |-> 1 + Max({0} \cup {device[i].at : i \in DOMAIN device})]

(* A phone has one device: another user's, or another terminal's, goes. *)
Registers(r) ==
    /\ At(r, "register", "register")
    /\ LET own == DevicesOf(r)
           others == {i \in Devices : device[i].token = r.token} \ own
           rest == [i \in DOMAIN device |->
                      IF i \in own THEN NewDevice(r)
                      ELSE IF i \in others THEN [device[i] EXCEPT !.live = FALSE] ELSE device[i]]
       IN  DevicesBecome(IF own = {} THEN Append(rest, NewDevice(r)) ELSE rest)
    /\ Done(r)

(* Two that want the same phone, or terminal, at a time: the unique keys   *)
(* refuse one of them (P2002), which nobody catches.                       *)
Collides(r) ==
    \E q \in plot.requests \ {r} :
        /\ q.op = "register" /\ pc[q] \in {"register", "done"}
        /\ q.token = r.token \/ <<q.user, q.session>> = <<r.user, r.session>>

register(r) ==
    \/ Registers(r)
    \/ At(r, "register", "register") /\ Collides(r) /\ Refused(r)

unregister(r) ==
    /\ Arrives(r, "unregister")
    /\ DevicesBecome(Disabled(DevicesOf(r)))
    /\ Done(r)

(* A push job: the newest device that is enabled; entry: its terminal had *)
(* ended by then (history).                                                *)
readDevice(r) ==
    /\ Arrives(r, "push")
    /\ LET own == {i \in Devices : device[i].user = r.user /\ device[i].enabled}
       IN  \/ own = {} /\ Answered(r)
           \/ \E i \in own :
                /\ \A j \in own : device[j].at <= device[i].at
                /\ Reads(r, "check", [seen[r] EXCEPT !.row = i, !.set = {device[i]},
                                      !.entry = IF TerminalOf(i) \in signedIn THEN 0 ELSE 1])

Target(r) == Only(seen[r].set)

(* Mutant of checkTerminal: any device that is enabled will do. *)
CheckNoTerminal(r) ==
    /\ Stands(r, "check")
    /\ Reads(r, "push", seen[r])

(* A terminal that has ended takes its device with it. *)
checkTerminal(r) ==
    /\ Stands(r, "check")
    /\ Reads(r, IF <<r.user, Target(r).session>> \in signedIn THEN "push" ELSE "disable", seen[r])

Retries(r) ==
    IF seen[r].n + 1 < PushTries THEN Goes(r, "new", [seen[r] EXCEPT !.n = @ + 1]) ELSE Ends(r)

(* The push goes out, or its token turns out to be void, or it is not known *)
(* what became of it, and the job is tried again.                          *)
push(r) ==
    /\ Stands(r, "push")
    /\ LET sent == pushed \cup {[user |-> r.user, device |-> Target(r), late |-> seen[r].entry = 1]}
       IN  \/ pushed' = sent /\ Done(r)
           \/ Place(r, "disable") /\ UNCHANGED <<pushed, seen>>
           \/ pushed' \in {pushed, sent} /\ Retries(r)
    /\ UNCHANGED <<account, codeVars, adminVars, signedIn, device, settingVars, profileVars>>

(* By the row that was read, whatever its token is by now; a row that is   *)
(* gone makes the job fail.                                                *)
disable(r) ==
    /\ Stands(r, "disable")
    /\ \/ seen[r].row \in Devices /\ DevicesBecome(Disabled({seen[r].row})) /\ Done(r)
       \/ seen[r].row \notin Devices /\ Retries(r) /\ UNCHANGED tableVars

readDevices(r) ==
    /\ Arrives(r, "cleanup")
    /\ Reads(r, "sweep", [NoSight EXCEPT !.set = {i \in Devices : device[i].enabled}])

(* cleanupInactiveSessions: those whose terminals have ended. *)
sweep(r) ==
    /\ Stands(r, "sweep")
    /\ DevicesBecome(Disabled({i \in seen[r].set : TerminalOf(i) \notin signedIn}))
    /\ Done(r)

(* A new terminal replaces the one before it. *)
login(r) ==
    /\ Arrives(r, "login")
    /\ \/ (~Live(r.user) \/ account[r.user].locked \/ (Right(r) /\ account[r.user].sanctioned)) /\ Refused(r)
       \/ Mistaken(r)
       \/ /\ ~account[r.user].sanctioned /\ Recognised(r)
          /\ signedIn' = (signedIn \ SessionsOf(r.user)) \cup {<<r.user, r.session>>}
          /\ UNCHANGED appealing

logout(r) ==
    /\ Arrives(r, "logout")
    /\ signedIn' = signedIn \ {<<r.user, r.session>>}
    /\ Done(r)
    /\ UNCHANGED <<account, codeVars, adminVars, deviceVars, profileVars>>

-------------------------------------------------------------------------------
Init ==
    /\ plot \in Plots
    /\ account = plot.accounts
    /\ code = plot.codes /\ mailed = {} /\ begun = {} /\ accepted = {} /\ confirmed = {} /\ misses = {}
    /\ challenge = <<>> /\ adminSession = plot.adminSessions /\ appealing = {}
    /\ signedIn = plot.signedIn
    /\ device = <<>> /\ pushed = {}
    /\ settings = NoPause /\ pauses = [v \in Servers |-> NoPauses] /\ clock = 0 /\ behind = {}
    /\ picture = plot.pictures
    /\ profile = [u \in Users |-> NoProfile] /\ suspect = {}
    /\ renames = [u \in Users |-> IF account[u].renamed THEN 1 ELSE 0]
    /\ pc = [r \in plot.requests |-> "new"]
    /\ seen = [r \in plot.requests |-> NoSight]

UserActions(r) ==
    \/ invalidate(r) \/ readProfile(r) \/ fillProfile(r) \/ sanction(r) \/ readUpdate(r) \/ rename(r)
    \/ readAvatar(r) \/ readCover(r) \/ setAvatar(r) \/ setProfileCover(r)
    \/ readDeactivate(r) \/ deactivate(r)

DeviceActions(r) ==
    \/ readTerminal(r) \/ register(r) \/ unregister(r) \/ readDevice(r) \/ checkTerminal(r) \/ push(r) \/ disable(r)
    \/ readDevices(r) \/ sweep(r) \/ login(r) \/ logout(r)

Numbers == 1..Max({Cardinality(p.requests) : p \in Plots})

Time ==
    \/ \E c \in Numbers : minutePasses(c) \/ codeExpires(c)
    \/ cleanupCodes
    \/ \E h \in Numbers : h \in DOMAIN challenge /\ challengeExpires(h)
    \/ \E s \in Numbers : s \in DOMAIN adminSession /\ (adminSessionExpires(s) \/ elevationEnds(s))
    \/ \E u \in Users : lockEnds(u) \/ appealTokenExpires(u) \/ profileExpires(u) \/ sanctionEnds(u) \/ weekPasses(u)
    \/ \E m \in Media : reclaim(m)
    \/ \E v \in Servers : pausesExpire(v)
    \/ timePasses

Next ==
    \/ \E r \in Requests :
          /\ r \in plot.requests
          /\ CodeActions(r) \/ AdminActions(r) \/ UserActions(r) \/ DeviceActions(r)
    \/ Time

Spec == Init /\ [][Next]_vars

-------------------------------------------------------------------------------
(* Properties *)

TypeOK ==
    /\ account \in [Users -> Accounts_]
    /\ \A c \in DOMAIN code : code[c] \in CodeRows
    /\ \A h \in DOMAIN challenge : challenge[h] \in ChallengeRows
    /\ \A s \in DOMAIN adminSession : adminSession[s] \in AdminSessionRows
    /\ \A i \in DOMAIN device : device[i] \in DeviceRows
    /\ signedIn \subseteq Users \X Sessions
    /\ \A m \in There : picture[m] \in PictureRows
    /\ appealing \subseteq Users /\ suspect \subseteq Users
    /\ settings \in Settings /\ clock \in Times /\ \A v \in Servers : pauses[v].shows \in Settings

(* One terminal, one phone, one administrator's session, one picture that  *)
(* is there: what the unique keys keep apart.                              *)
RowsAreDistinct ==
    /\ \A i, j \in Devices : i # j => device[i].token # device[j].token /\ TerminalOf(i) # TerminalOf(j)
    /\ \A u \in Users :
         /\ Cardinality(SessionsOf(u)) <= 1
         /\ Cardinality({s \in AdminSessionsOf(u) : adminSession[s].live}) <= 1
         /\ PicturesOf(account[u]) \subseteq There

(* Nobody guesses: every wrong code and every wrong password is counted,   *)
(* however many are entered at a time, and a code is gone, and an account  *)
(* locked, when the limit is reached (checkVerificationCode,               *)
(* AppealAccessService.verifyCredentials).                                 *)
NobodyGuesses ==
    /\ TypeOK /\ RowsAreDistinct
    /\ \A c \in Rows :
         /\ code[c].wrong = Cardinality({m \in misses : m[2] = "code" /\ m[3] = c})
         /\ code[c].wrong < MaxTries
    /\ \A u \in Users : account[u].wrong = Cardinality({m \in misses : m[2] = "password" /\ m[3] = u})

(* An address that the account had when a new password was asked for. *)
WasAsked(e, c) ==
    \E q \in plot.requests : q.op = "forgotPassword" /\ q.email = e /\ seen[q].user = code[c].user

(* Whatever a code confirms, it was mailed to the address that it          *)
(* confirms (for a new password, to one that the account had when it was   *)
(* asked for), it confirms once; and an administrator's session was opened *)
(* and elevated by codes that were made and mailed for that purpose.       *)
AddressesAreProven ==
    /\ \A x, y \in confirmed :
         /\ \E e \in Emails :
              /\ <<e, "code", x.code>> \in mailed
              /\ e = x.address \/ (x.op = "resetPassword" /\ WasAsked(e, x.code))
         /\ x.code = y.code => x = y
    /\ \A s \in DOMAIN adminSession :
         LET Proves(h, purpose) ==
                /\ h \in ChallengesOf(adminSession[s].user, purpose)
                /\ \E e \in Emails : <<e, "challenge", h>> \in mailed
         IN  /\ adminSession[s].proof # 0 => Proves(adminSession[s].proof, "LOGIN")
             /\ adminSession[s].step # 0 => Proves(adminSession[s].step, "STEP_UP")
             /\ adminSession[s].elevated => adminSession[s].step # 0

(* A code that is left belongs to the password its account has: a new      *)
(* password voids the codes of before, those that are being asked for with *)
(* the old password included.                                              *)
SecretsEndTogether ==
    \A c \in Rows : code[c].user # Nothing => code[c].password = account[code[c].user].password

(* A code is mailed at most once a minute, whoever asks for it, and is     *)
(* said to have been mailed only if the last mail was taken                *)
(* (claimExisting, markDelivered).                                         *)
MailIsSpaced ==
    /\ \A x, y \in begun : x[1] = y[1] /\ x[2] = y[2] => x = y
    /\ \A c \in Rows : code[c].sent # 0 => <<c, code[c].sent>> \in accepted

(* Codes keep their promise, however many are asked for, tried and sent at *)
(* a time: guesses are counted, addresses proven, mails spaced.            *)
CodesHold == NobodyGuesses /\ AddressesAreProven /\ MailIsSpaced

(* Once a switch is thrown or released, the server on which that was done  *)
(* judges by it, unless it was reading the settings just then: such a      *)
(* reading, and the caches of the other servers, last five seconds more    *)
(* (SiteOperationalSettingsService.pauseState and update).                 *)
PausesTakeHold ==
    \A v \in Servers \ behind :
        \/ ~pauses[v].full \/ pauses[v].shows = settings
        \/ \E r \in plot.requests : r.server = v /\ pc[r] = "drop pauses"

(* A name changes at most once in seven days; and what is cached of a      *)
(* profile is what the profile is, unless a change is about to drop it,    *)
(* happened while it was read, or could not drop it (then it is old until  *)
(* the next change, or for five minutes); the end of a sanction, which     *)
(* drops nothing, included.  Likewise what is cached of the switches.      *)
NamesHold ==
    /\ PausesTakeHold
    /\ \A u \in Users :
           /\ renames[u] <= 1
           /\ \/ ~profile[u].full \/ u \in suspect
              \/ \E r \in plot.requests : r.user = u /\ pc[r] = "invalidate"
              \/ profile[u].shows = Profile(u)

(* A push goes to no terminal that had ended when its job began, though    *)
(* the device of the terminal stays enabled (MobilePushProcessor), and to  *)
(* no user but the one the device belongs to.                              *)
PushesEndWithTheSession == \A p \in pushed : ~p.late /\ p.device.user = p.user
===============================================================================
