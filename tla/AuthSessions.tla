------------------------------ MODULE AuthSessions ------------------------------
(***************************************************************************)
(* AuthSessionService with what AuthService, ModerationService and         *)
(* UsersService do to the login terminals of one user.                     *)
(*                                                                         *)
(* A terminal (family) is a chain of refresh tokens, each rotated into the *)
(* next; it is named by the first.  Whatever changes sessions holds the    *)
(* lock of the user row, and is one step, except refresh, which is two:    *)
(* logout and revokeSession take no lock and get in between.  revokeSession *)
(* itself is an update that sees the rows of its snapshot and skips those  *)
(* that somebody else revoked in the meantime (READ COMMITTED).            *)
(***************************************************************************)
EXTENDS Integers, FiniteSets

CONSTANTS
    Tokens,        \* ids of refresh tokens
    NoToken,
    Platforms,     \* "web", "mobile"
    Requests,      \* revokeSession requests
    MaxPassword,   \* bound: changes of the password
    MaxFailures    \* failed logins that lock the account: 5

ASSUME AuthAssumption ==
    /\ NoToken \notin Tokens
    /\ MaxPassword \in Nat
    /\ MaxFailures \in Nat \ {0}

VARIABLES
    token,       \* the refresh_tokens of the user
    rotating,    \* the token whose refresh holds the lock of the user row
    password,    \* the how-manyeth password of the user
    failed,      \* failedLoginAttempts
    locked,      \* lockedUntil is in the future
    sanctioned,  \* a ban or suspension is in effect
    deleted,     \* deletedAt is set
    registering, \* verifyAndComplete has yet to create its session
    request,     \* request[r]: where a revokeSession is
    over,        \* families that somebody was told are signed out
    missing      \* families that somebody was told do not exist any more

userVars == <<password, failed, locked, sanctioned, deleted, registering>>
sessionVars == <<token, rotating, userVars, request, over, missing>>

Unused == [state |-> "unused", family |-> NoToken, platform |-> "web", password |-> 0]
IdleRequest == [pc |-> "idle", family |-> NoToken, rows |-> {}]

(* revokedAt is null; an expired token is not revoked by that alone. *)
Active(t) == token[t].state \in {"active", "expired"}
Known(t) == Active(t) \/ token[t].state \in {"fresh", "old"}
TokensOf(f) == {t \in Tokens : Known(t) /\ token[t].family = f}
Families == {token[t].family : t \in {x \in Tokens : Known(x)}}

(* What JwtStrategy.validate and listSessions look for, expiry aside. *)
TerminalActive(f) == \E t \in TokensOf(f) : Active(t)

(* The lock of the user row is free. *)
UserRowFree == rotating = NoToken

(* token with the active rows of S revoked, just now. *)
Revoked(S) ==
    [t \in Tokens |-> IF t \in S /\ Active(t) THEN [token[t] EXCEPT !.state = "fresh"] ELSE token[t]]

Session(f, p, pw) == [state |-> "active", family |-> f, platform |-> p, password |-> pw]

-------------------------------------------------------------------------------
SessionInit ==
    /\ token = [t \in Tokens |-> Unused]
    /\ rotating = NoToken
    /\ password = 0
    /\ failed = 0
    /\ locked = FALSE
    /\ sanctioned = FALSE
    /\ deleted = FALSE
    /\ registering = TRUE
    /\ request = [r \in Requests |-> IdleRequest]
    /\ over = {}
    /\ missing = {}

(* replaceSession: the platform's terminal is signed out, a new one begins. *)
ReplaceSession(t, p) ==
    /\ token[t].state = "unused"
    /\ token' = [Revoked({x \in Tokens : token[x].platform = p}) EXCEPT ![t] = Session(t, p, password)]

(* Mutant of createSession: a sanction is not looked at. *)
CreateSessionUnchecked(t, p) ==
    /\ registering
    /\ UserRowFree
    /\ ReplaceSession(t, p)
    /\ registering' = FALSE
    /\ UNCHANGED <<rotating, password, failed, locked, sanctioned, deleted, request, over, missing>>

(* The session a registration ends with. *)
createSession(t, p) ==
    /\ registering
    /\ UserRowFree
    /\ ~sanctioned
    /\ ReplaceSession(t, p)
    /\ registering' = FALSE
    /\ UNCHANGED <<rotating, password, failed, locked, sanctioned, deleted, request, over, missing>>

(* login with the right password: a lockout and a sanction are refused. *)
login(t, p) ==
    /\ UserRowFree
    /\ ~deleted
    /\ ~locked
    /\ ~sanctioned
    /\ ReplaceSession(t, p)
    /\ failed' = 0
    /\ UNCHANGED <<rotating, password, locked, sanctioned, deleted, registering, request, over, missing>>

(* login with a wrong password: the MaxFailures-th in a row locks the account, *)
(* and so does every one after the lock has run out: a count beyond it is as   *)
(* good as MaxFailures.                                                        *)
loginFails ==
    /\ UserRowFree
    /\ ~deleted
    /\ ~locked
    /\ failed' = IF failed < MaxFailures THEN failed + 1 ELSE failed
    /\ locked' = (failed + 1 >= MaxFailures)
    /\ UNCHANGED <<token, rotating, password, sanctioned, deleted, registering, request, over, missing>>

-------------------------------------------------------------------------------
(* Mutant of refreshEnd: a theft is reported by an error inside the         *)
(* transaction, which rolls the revocation back.                            *)
RefreshEndRolledBack(t) ==
    /\ UserRowFree
    /\ Known(t)
    /\ LET f == token[t].family
       IN  \/ /\ sanctioned \/ (deleted /\ token[t].state = "active")
              /\ token' = Revoked(TokensOf(f))
              /\ UNCHANGED over
           \/ /\ ~sanctioned /\ token[t].state = "old"
              /\ over' = over \cup {f}
              /\ UNCHANGED token
           \/ /\ ~sanctioned /\ token[t].state = "expired"
              /\ token' = Revoked({t})
              /\ UNCHANGED over
    /\ UNCHANGED <<rotating, userVars, request, missing>>

(* refresh of a token that must not be rotated: the sanctioned, then the    *)
(* replayed (a fresh revocation is in its grace and changes nothing), the   *)
(* expired, then the deactivated.                                           *)
refreshEnd(t) ==
    /\ UserRowFree
    /\ Known(t)
    /\ LET f == token[t].family
       IN  \/ /\ sanctioned \/ (deleted /\ token[t].state = "active")
              /\ token' = Revoked(TokensOf(f))
              /\ UNCHANGED over
           \/ /\ ~sanctioned /\ token[t].state = "old"
              /\ token' = Revoked(TokensOf(f))
              /\ over' = over \cup {f}
           \/ /\ ~sanctioned /\ token[t].state = "expired"
              /\ token' = Revoked({t})
              /\ UNCHANGED over
    /\ UNCHANGED <<rotating, userVars, request, missing>>

(* refresh of a good token: it has been read under the lock ... *)
refreshRead(t) ==
    /\ UserRowFree
    /\ token[t].state = "active"
    /\ ~sanctioned
    /\ ~deleted
    /\ rotating' = t
    /\ UNCHANGED <<token, userVars, request, over, missing>>

(* Mutant of refreshRotate: the count of the guarded update is not looked at. *)
RefreshRotateBlind(n) ==
    /\ rotating # NoToken
    /\ token[n].state = "unused"
    /\ token' = [Revoked({rotating}) EXCEPT
                  ![n] = Session(token[rotating].family, token[rotating].platform, token[rotating].password)]
    /\ rotating' = NoToken
    /\ UNCHANGED <<userVars, request, over, missing>>

(* ... and is revoked if it still is active, the next one made.  Otherwise *)
(* it was signed out since, and the whole terminal is.                     *)
refreshRotate(n) ==
    /\ rotating # NoToken
    /\ token[n].state = "unused"
    /\ LET old == token[rotating]
       IN  token' = IF Active(rotating)
                    THEN [Revoked({rotating}) EXCEPT ![n] = Session(old.family, old.platform, old.password)]
                    ELSE Revoked(TokensOf(old.family))
    /\ rotating' = NoToken
    /\ UNCHANGED <<userVars, request, over, missing>>

(* The transaction of a refresh is rolled back. *)
refreshAbort ==
    /\ rotating # NoToken
    /\ rotating' = NoToken
    /\ UNCHANGED <<token, userVars, request, over, missing>>

-------------------------------------------------------------------------------
(* logout by a refresh token, without any lock: one guarded update. *)
logout(t) ==
    /\ Active(t)
    /\ token' = Revoked({t})
    /\ over' = over \cup {token[t].family}
    /\ UNCHANGED <<rotating, userVars, request, missing>>

(* revokeSession: the terminal is looked up; its update sees the rows that *)
(* are there and active ...                                                *)
revokeSession(r, f) ==
    /\ request[r].pc = "idle"
    /\ TokensOf(f) # {}
    /\ request' = [request EXCEPT ![r] =
                    [pc |-> "update", family |-> f, rows |-> {t \in TokensOf(f) : Active(t)}]]
    /\ UNCHANGED <<token, rotating, userVars, over, missing>>

(* ... and revokes those of them that still are: none is SESSION_NOT_FOUND. *)
revokeRows(r) ==
    /\ request[r].pc = "update"
    /\ LET rows == {t \in request[r].rows : Active(t)}
       IN  /\ token' = Revoked(rows)
           /\ IF rows = {}
              THEN missing' = missing \cup {request[r].family} /\ UNCHANGED over
              ELSE over' = over \cup {request[r].family} /\ UNCHANGED missing
    /\ request' = [request EXCEPT ![r] = IdleRequest]
    /\ UNCHANGED <<rotating, userVars>>

(* changePassword with the old one, resetPassword with a code. *)
newPassword ==
    /\ UserRowFree
    /\ ~deleted
    /\ password < MaxPassword
    /\ password' = password + 1
    /\ token' = Revoked(Tokens)
    /\ UNCHANGED <<rotating, failed, locked, sanctioned, deleted, registering, request, over, missing>>

(* verifyChangeEmail, a change of the role, an accepted invitation. *)
revokeAll ==
    /\ UserRowFree
    /\ ~deleted
    /\ token' = Revoked(Tokens)
    /\ UNCHANGED <<rotating, userVars, request, over, missing>>

(* applySanctionInTransaction, a suspension made a ban included, and the *)
(* end or revocation of the sanction, which takes no lock.               *)
sanctionUser ==
    /\ UserRowFree
    /\ ~deleted
    /\ sanctioned' = TRUE
    /\ token' = Revoked(Tokens)
    /\ UNCHANGED <<rotating, password, failed, locked, deleted, registering, request, over, missing>>

sanctionEnds ==
    /\ sanctioned
    /\ sanctioned' = FALSE
    /\ UNCHANGED <<token, rotating, password, failed, locked, deleted, registering, request, over, missing>>

(* deactivate, by a user who signed in once. *)
deactivate ==
    /\ UserRowFree
    /\ ~deleted
    /\ \E t \in Tokens : token[t].state # "unused"
    /\ deleted' = TRUE
    /\ token' = Revoked(Tokens)
    /\ UNCHANGED <<rotating, password, failed, locked, sanctioned, registering, request, over, missing>>

(* Time: a lock runs out, a token expires, the grace of a revocation ends, *)
(* and the nightly cleanup deletes what has expired: what was revoked      *)
(* before expires unseen.                                                  *)
lockRunsOut ==
    /\ locked
    /\ locked' = FALSE
    /\ UNCHANGED <<token, rotating, password, failed, sanctioned, deleted, registering, request, over, missing>>

expire(t) ==
    /\ token[t].state = "active"
    /\ token' = [token EXCEPT ![t].state = "expired"]
    /\ UNCHANGED <<rotating, userVars, request, over, missing>>

graceEnds(t) ==
    /\ token[t].state = "fresh"
    /\ token' = [token EXCEPT ![t].state = "old"]
    /\ UNCHANGED <<rotating, userVars, request, over, missing>>

cleanup(t) ==
    /\ token[t].state \in {"expired", "fresh", "old"}
    /\ token' = [token EXCEPT ![t].state = "purged"]
    /\ UNCHANGED <<rotating, userVars, request, over, missing>>

SessionNext ==
    \/ \E t \in Tokens, p \in Platforms : createSession(t, p) \/ login(t, p)
    \/ loginFails \/ lockRunsOut
    \/ \E t \in Tokens : refreshEnd(t) \/ refreshRead(t) \/ refreshRotate(t) \/ logout(t)
    \/ refreshAbort
    \/ \E r \in Requests : revokeRows(r) \/ \E f \in Families : revokeSession(r, f)
    \/ newPassword \/ revokeAll \/ sanctionUser \/ sanctionEnds \/ deactivate
    \/ \E t \in Tokens : expire(t) \/ graceEnds(t) \/ cleanup(t)

SessionSpec == SessionInit /\ [][SessionNext]_sessionVars

-------------------------------------------------------------------------------
States == {"unused", "active", "expired", "fresh", "old", "purged"}

TokenRow ==
    [state : States, family : Tokens \cup {NoToken}, platform : Platforms \cup {"web"},
     password : 0..MaxPassword]

RevokeRequest ==
    [pc : {"idle", "update"}, family : Tokens \cup {NoToken}, rows : SUBSET Tokens]

(* A token belongs to a family from the time it is made, a rotation is of  *)
(* one that was made, and an account is locked for its failed logins only. *)
SessionTypeOK ==
    /\ token \in [Tokens -> TokenRow]
    /\ \A t \in Tokens : token[t].family = NoToken <=> token[t].state = "unused"
    /\ rotating \in Tokens \cup {NoToken}
    /\ rotating # NoToken => token[rotating].state # "unused"
    /\ password \in 0..MaxPassword
    /\ failed \in 0..MaxFailures
    /\ locked => failed = MaxFailures
    /\ sanctioned \in BOOLEAN
    /\ deleted \in BOOLEAN
    /\ registering \in BOOLEAN
    /\ request \in [Requests -> RevokeRequest]
    /\ over \subseteq Tokens
    /\ missing \subseteq Tokens

(* A user has at most one terminal signed in per platform, however logins  *)
(* and refreshes race: the partial unique index is never what stops one.   *)
OneTerminalPerPlatform ==
    \A t, x \in Tokens :
        Active(t) /\ Active(x) /\ token[t].platform = token[x].platform => t = x

(* Who was told that a terminal is signed out, by logout, revokeSession or *)
(* the detection of a replay, is never wrong: no refresh that was under    *)
(* way brings it back.                                                     *)
OverIsOver == \A f \in over : ~TerminalActive(f)

(* No terminal outlives a change of the password: each that is signed in   *)
(* was opened under the password of today, however often it was refreshed  *)
(* since and whatever refresh was under way when the password changed.     *)
SessionsKnowThePassword == \A t \in Tokens : Active(t) => token[t].password = password

(* While a user is banned or suspended nothing is signed in. *)
SanctionedHasNoTerminal == sanctioned => \A t \in Tokens : ~Active(t)

(* No session outlives what the account was when it was opened: neither a  *)
(* change of the password nor a sanction.                                  *)
SessionsMatchAccount == SessionsKnowThePassword /\ SanctionedHasNoTerminal

(* However logins, refreshes, changes of the password and sanctions        *)
(* overlap: one terminal per platform, and none that the account of today  *)
(* would not let in.                                                       *)
SessionsHold == SessionTypeOK /\ OneTerminalPerPlatform /\ SessionsMatchAccount

(* A terminal that is signed out stays so: only a login opens one.         *)
TerminalsEndForGood ==
    [][\A f \in Families : ~TerminalActive(f) => ~(TerminalActive(f)')]_sessionVars

===============================================================================
