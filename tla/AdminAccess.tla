------------------------------ MODULE AdminAccess ------------------------------
(***************************************************************************)
(* AdminAuthService: an administrator signs in with the password and a     *)
(* code that is mailed, and confirms high-risk work with another one.      *)
(* AppealAccessService: a password opens nothing but the appeals.  And     *)
(* SiteOperationalSettingsService: the switches of an emergency.           *)
(***************************************************************************)
EXTENDS Credentials

ChallengesOf(u, purpose) == {h \in DOMAIN challenge : challenge[h].user = u /\ challenge[h].purpose = purpose}
AdminSessionsOf(u) == {s \in DOMAIN adminSession : adminSession[s].user = u}
IsAdmin(u) == Live(u) /\ account[u].role = "ADMIN" /\ ~account[u].sanctioned

RevokedOf(u) ==
    [s \in DOMAIN adminSession |->
        IF adminSession[s].user = u THEN [adminSession[s] EXCEPT !.live = FALSE] ELSE adminSession[s]]

ChallengesBecome(challenges) ==
    /\ challenge' = challenges
    /\ UNCHANGED <<account, code, begun, accepted, confirmed, misses, appealing, signedIn, deviceVars, profileVars>>
SessionsBecome(sessions) ==
    /\ adminSession' = sessions
    /\ UNCHANGED <<account, codeVars, challenge, appealing, signedIn, deviceVars, profileVars>>

(* The session of the cookie, as the guard of every admin request reads it; *)
(* one that is no longer good is revoked.                                  *)
Guarded == {"createStepUpChallenge", "verifyStepUp", "adminLogout", "act"}

validateSession(r) ==
    /\ r.op \in Guarded /\ r \in plot.requests /\ pc[r] = "new"
    /\ \/ AdminSessionsOf(r.user) = {} /\ Refused(r)
       \/ \E s \in AdminSessionsOf(r.user) :
            LET row == adminSession[s]
                good == row.live /\ row.fresh /\ IsAdmin(r.user)
            IN  \/ good /\ Reads(r, "guarded", [NoSight EXCEPT !.row = s, !.n = IF row.elevated THEN 1 ELSE 0])
                \/ ~good /\ row.live /\ Reads(r, "expire", [NoSight EXCEPT !.row = s])
                \/ ~row.live /\ Refused(r)

expireSession(r) ==
    /\ Stands(r, "expire")
    /\ SessionsBecome([adminSession EXCEPT ![seen[r].row].live = FALSE])
    /\ Ends(r) /\ UNCHANGED mailed

(* requireStepUp: by what the guard read. *)
act(r) ==
    /\ At(r, "act", "guarded")
    /\ IF seen[r].n = 1 THEN Answered(r) ELSE Refused(r)

adminLogout(r) ==
    /\ At(r, "adminLogout", "guarded")
    /\ SessionsBecome([adminSession EXCEPT ![seen[r].row].live = FALSE])
    /\ Done(r) /\ UNCHANGED mailed

-------------------------------------------------------------------------------
PurposeOf(r) == IF r.op = "createLoginChallenge" THEN "LOGIN" ELSE "STEP_UP"

(* The address that the code will be mailed to. *)
Addressed(r) == [NoSight EXCEPT !.set = {account[r.user].email}]

(* Wrong passwords are not counted here, but a lock is respected. *)
readAdmin(r) ==
    /\ Arrives(r, "createLoginChallenge")
    /\ LET ok == IsAdmin(r.user) /\ account[r.user].password = r.password /\ ~account[r.user].locked
       IN  IF ok THEN Reads(r, "addressed", Addressed(r)) ELSE Refused(r)

readEmail(r) ==
    /\ At(r, "createStepUpChallenge", "guarded")
    /\ Reads(r, "addressed", Addressed(r))

(* Those that are open are used up ... *)
closeChallenges(r) ==
    /\ Stands(r, "addressed")
    /\ ChallengesBecome([h \in DOMAIN challenge |->
          IF h \in ChallengesOf(r.user, PurposeOf(r)) THEN [challenge[h] EXCEPT !.open = FALSE] ELSE challenge[h]])
    /\ Place(r, "make")
    /\ UNCHANGED <<seen, mailed, adminSession>>

(* ... and another one is made and mailed.  Two that are made at a time    *)
(* stay open both.  A mail that fails makes the request fail; the          *)
(* challenge is there.                                                     *)
openChallenge(r) ==
    /\ Stands(r, "make")
    /\ ChallengesBecome(Append(challenge,
          [user |-> r.user, purpose |-> PurposeOf(r), open |-> TRUE, fresh |-> TRUE, wrong |-> 0]))
    /\ \/ mailed' = mailed \cup {<<Only(seen[r].set), "challenge", Len(challenge) + 1>>} /\ Done(r)
       \/ Ends(r) /\ UNCHANGED mailed
    /\ UNCHANGED adminSession

-------------------------------------------------------------------------------
Entered(r, h) == r.mailbox # Nothing /\ <<r.mailbox, "challenge", h>> \in mailed

(* By what is read without a lock. *)
Acceptable(r, h, purpose) ==
    /\ challenge[h].purpose = purpose
    /\ challenge[h].open /\ challenge[h].fresh
    /\ challenge[h].wrong < MaxTries
    /\ Entered(r, h)

(* What comes of it is decided here, and done in the next step. *)
readLogin(r) ==
    /\ Arrives(r, "verifyLoginChallenge")
    /\ \/ challenge = <<>> /\ Refused(r)
       \/ \E h \in DOMAIN challenge :
            LET sight == [NoSight EXCEPT !.row = h, !.n = Len(adminSession)]
            IN  \/ Acceptable(r, h, "LOGIN") /\ IsAdmin(challenge[h].user) /\ Reads(r, "open", sight)
                \/ Acceptable(r, h, "LOGIN") /\ ~IsAdmin(challenge[h].user) /\ Reads(r, "close", sight)
                \/ ~Acceptable(r, h, "LOGIN") /\ challenge[h].open /\ Reads(r, "miss", sight)
                \/ ~challenge[h].open /\ Refused(r)

readStepUp(r) ==
    /\ At(r, "verifyStepUp", "guarded")
    /\ LET known == ChallengesOf(r.user, "STEP_UP")
       IN  \/ known = {} /\ Refused(r)
           \/ \E h \in known :
                \/ Acceptable(r, h, "STEP_UP") /\ Reads(r, "elevate", [seen[r] EXCEPT !.entry = h])
                \/ ~Acceptable(r, h, "STEP_UP") /\ challenge[h].open /\ Reads(r, "miss", [seen[r] EXCEPT !.row = h])
                \/ ~challenge[h].open /\ Refused(r)

missChallenge(r) ==
    /\ Stands(r, "miss")
    /\ ChallengesBecome([challenge EXCEPT ![seen[r].row].wrong = @ + 1])
    /\ Ends(r) /\ UNCHANGED <<mailed, adminSession>>

closeLogin(r) ==
    /\ Stands(r, "close")
    /\ ChallengesBecome([challenge EXCEPT ![seen[r].row].open = FALSE])
    /\ Ends(r) /\ UNCHANGED <<mailed, adminSession>>

(* The sessions there are end, and one begins.  The row of the challenge   *)
(* makes two that enter the same one wait for each other; of two that      *)
(* enter different ones, one may fail at the unique key of live sessions:  *)
(* the other's was created after it had looked for sessions to end.        *)
verifyLoginChallenge(r) ==
    /\ At(r, "verifyLoginChallenge", "open")
    /\ LET h == seen[r].row
           u == challenge[h].user
           others == {s \in AdminSessionsOf(u) : s > seen[r].n /\ adminSession[s].live /\ adminSession[s].proof # h}
       IN  \/ others # {} /\ Refused(r)
           \/ /\ adminSession' = Append(RevokedOf(u),
                    [user |-> u, live |-> TRUE, fresh |-> TRUE, elevated |-> FALSE, proof |-> h, step |-> 0])
              /\ ChallengesBecome([challenge EXCEPT ![h].open = FALSE])
              /\ Done(r) /\ UNCHANGED mailed

verifyStepUp(r) ==
    /\ At(r, "verifyStepUp", "elevate")
    /\ ChallengesBecome([challenge EXCEPT ![seen[r].entry].open = FALSE])
    /\ adminSession' = [adminSession EXCEPT ![seen[r].row].elevated = TRUE, ![seen[r].row].step = seen[r].entry]
    /\ Done(r) /\ UNCHANGED mailed

-------------------------------------------------------------------------------
(* Appeals: the account is found, then locked and its password checked. *)

findAppellant(r) ==
    /\ Arrives(r, "appeal")
    /\ IF account[r.user].state = "none" THEN Refused(r)
       ELSE Reads(r, "verify", NoSight)

Counted(r, n) == [account EXCEPT ![r.user].wrong = n, ![r.user].locked = n >= MaxTries]
Right(r) == Live(r.user) /\ ~account[r.user].locked /\ account[r.user].password = r.password

(* A wrong password is counted though the request is refused. *)
Mistaken(r) ==
    /\ Live(r.user) /\ ~account[r.user].locked /\ account[r.user].password # r.password
    /\ account' = Counted(r, account[r.user].wrong + 1)
    /\ misses' = misses \cup {<<r.id, "password", r.user>>}
    /\ Ends(r)
    /\ UNCHANGED <<code, mailed, begun, accepted, confirmed, adminVars, signedIn, deviceVars, profileVars>>

(* The right one makes what was counted before forgotten. *)
Recognised(r) ==
    /\ Right(r)
    /\ account' = Counted(r, 0)
    /\ misses' = {m \in misses : m[2] # "password" \/ m[3] # r.user}
    /\ Done(r)
    /\ UNCHANGED <<code, mailed, begun, accepted, confirmed, challenge, adminSession, deviceVars, profileVars>>

(* A sanction does not matter: it is what appeals are about. *)
verifyCredentials(r) ==
    /\ At(r, "appeal", "verify")
    /\ \/ (~Live(r.user) \/ account[r.user].locked) /\ Refused(r)
       \/ Mistaken(r)
       \/ Recognised(r) /\ appealing' = appealing \cup {r.user} /\ UNCHANGED signedIn

(* authenticate: with a token that has not run out, for whoever is not gone. *)
useAppealToken(r) ==
    /\ Arrives(r, "useAppealToken")
    /\ IF r.user \in appealing /\ Live(r.user) THEN Answered(r) ELSE Refused(r)

-------------------------------------------------------------------------------
AccountBecomes(u, row) ==
    /\ account' = [account EXCEPT ![u] = row]
    /\ UNCHANGED <<codeVars, challenge, appealing, deviceVars, picture, suspect, renames>>

(* AdminAccountsService.revoke and ModerationService.sanctionUser, as far  *)
(* as they matter here.                                                    *)
dismiss(r) ==
    /\ Arrives(r, "dismiss")
    /\ AccountBecomes(r.user, [account[r.user] EXCEPT !.role = "USER"])
    /\ adminSession' = RevokedOf(r.user)
    /\ signedIn' = signedIn \ SessionsOf(r.user)
    /\ Done(r) /\ UNCHANGED profile

challengeExpires(h) ==
    /\ challenge[h].open /\ challenge[h].fresh
    /\ ChallengesBecome([challenge EXCEPT ![h].fresh = FALSE])
    /\ UNCHANGED <<plot, mailed, adminSession, requestVars>>

(* Too old, or idle for too long. *)
adminSessionExpires(s) ==
    /\ adminSession[s].live /\ adminSession[s].fresh
    /\ SessionsBecome([adminSession EXCEPT ![s].fresh = FALSE])
    /\ UNCHANGED <<plot, requestVars>>

elevationEnds(s) ==
    /\ adminSession[s].elevated
    /\ SessionsBecome([adminSession EXCEPT ![s].elevated = FALSE])
    /\ UNCHANGED <<plot, requestVars>>

(* Once its 15 minutes are over; the count of failures stays. *)
lockEnds(u) ==
    /\ account[u].locked
    /\ AccountBecomes(u, [account[u] EXCEPT !.locked = FALSE])
    /\ UNCHANGED <<plot, adminSession, signedIn, profile, requestVars>>

appealTokenExpires(u) ==
    /\ u \in appealing
    /\ appealing' = appealing \ {u}
    /\ UNCHANGED <<plot, account, codeVars, challenge, adminSession, signedIn, deviceVars, profileVars, requestVars>>

-------------------------------------------------------------------------------
(* SiteOperationalSettingsService: switches that pause registrations, or   *)
(* all writing, until a time.  OperationalSettingsGuard asks them before   *)
(* every request that writes, and keeps the answer for five seconds; what  *)
(* it lets in goes on as any other request.                                *)

NoPause == [w \in Switches |-> 0]
NoPauses == [full |-> FALSE, shows |-> NoPause]
Asking(v) == \E r \in plot.requests : r.server = v /\ pc[r] = "fill pauses"

PausesBecome(v, cache) ==
    /\ pauses' = [pauses EXCEPT ![v] = cache]
    /\ UNCHANGED <<account, codeVars, adminVars, signedIn, device, pushed, settings, clock, profileVars>>

(* By the time of the answer. *)
Judged(r, shown) == IF shown[r.switch] > clock THEN Ends(r) ELSE Done(r)

assertRequestAllowed(r) ==
    /\ Arrives(r, "write")
    /\ LET cache == pauses[r.server]
       IN  \/ cache.full /\ Judged(r, cache.shows) /\ UNCHANGED tableVars
           \/ ~cache.full /\ Reads(r, "fill pauses", [NoSight EXCEPT !.set = {settings}])

(* pauseState, once the row has come. *)
fillPauses(r) ==
    /\ Stands(r, "fill pauses")
    /\ LET shown == CHOOSE s \in seen[r].set : TRUE
       IN  PausesBecome(r.server, [full |-> TRUE, shows |-> shown]) /\ Judged(r, shown)
    /\ UNCHANGED behind

(* Of two administrators each writes the switch that is sent. *)
updateSettings(r) ==
    /\ Arrives(r, "throw")
    /\ settings' = [settings EXCEPT ![r.switch] = r.until]
    /\ behind' = behind \cup {v \in Servers : Asking(v) \/ (v # r.server /\ pauses[v].full)}
    /\ Place(r, "drop pauses")
    /\ UNCHANGED <<seen, account, codeVars, adminVars, signedIn, device, pushed, pauses, clock, profileVars>>

(* A server that has nothing cached, and reads nothing, has caught up. *)
Dropped(v) == PausesBecome(v, NoPauses) /\ behind' = IF Asking(v) THEN behind ELSE behind \ {v}

dropPauses(r) ==
    /\ Stands(r, "drop pauses")
    /\ Dropped(r.server)
    /\ Done(r)

pausesExpire(v) ==
    /\ pauses[v].full
    /\ Dropped(v)
    /\ UNCHANGED <<plot, requestVars>>

timePasses ==
    /\ clock + 1 \in Times /\ \E w \in Switches : settings[w] > clock
    /\ clock' = clock + 1
    /\ UNCHANGED <<plot, account, codeVars, adminVars, signedIn, device, pushed, settings, pauses, behind,
                   profileVars, requestVars>>

AdminActions(r) ==
    \/ assertRequestAllowed(r) \/ fillPauses(r) \/ updateSettings(r) \/ dropPauses(r)
    \/ validateSession(r) \/ expireSession(r) \/ act(r) \/ adminLogout(r)
    \/ readAdmin(r) \/ readEmail(r) \/ closeChallenges(r) \/ openChallenge(r)
    \/ readLogin(r) \/ readStepUp(r) \/ missChallenge(r) \/ closeLogin(r) \/ verifyLoginChallenge(r) \/ verifyStepUp(r)
    \/ findAppellant(r) \/ verifyCredentials(r) \/ useAppealToken(r)
    \/ dismiss(r)
===============================================================================
